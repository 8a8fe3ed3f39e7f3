----------------------------- MODULE MCMiniFtp -----------------------------
(***************************************************************************)
(* Instances of MiniFtp for TLC: the console's FTP server.                 *)
(***************************************************************************)
EXTENDS MiniFtp

AcceptedCode(v) == CASE v = "greeting" -> 220 [] v = "USER" -> 331 [] v = "PASS" -> 230
  [] v = "QUIT" -> 221 [] v = "TYPE" -> 200 [] v = "PASV" -> 227 [] v = "SIZE" -> 213
  [] v = "ALLO" -> 202 [] v \in Transfers -> 150 [] OTHER -> 250
MCReplies == [v \in Verbs |-> {AcceptedCode(v)} \cup
                              (IF v \in {"SIZE", "RETR", "STOR"} THEN {550} ELSE {})]
MCFinals == [v \in Transfers |-> {226, 250, 451}]
=============================================================================
