----------------------------- MODULE MCFtpUser -----------------------------
(***************************************************************************)
(* Instances of FtpUser for TLC: the answers of the server.                *)
(***************************************************************************)
EXTENDS FtpUser

AcceptedCode(v) == CASE v = "greeting" -> 220 [] v = "USER" -> 331 [] v = "PASS" -> 230
  [] v = "QUIT" -> 221 [] v = "TYPE" -> 200 [] v = "PASV" -> 227 [] v = "EPSV" -> 229
  [] v \in {"PORT", "EPRT"} -> 200 [] v = "SIZE" -> 213 [] v = "ALLO" -> 202
  [] v = "RNFR" -> 350 [] v = "ABOR" -> 226 [] v \in Transfers -> 150 [] OTHER -> 250
Refused == {"PASS", "EPSV", "EPRT", "SIZE", "RETR"}

\* A server that may accept or refuse, or log a user in without a password.
MCReplies == [v \in Verbs |-> {AcceptedCode(v)} \cup (IF v \in Refused THEN {550} ELSE {})
                                               \cup (IF v = "USER" THEN {230} ELSE {})]
\* A transfer may fail at any time; 250 is an end as good as 226 but for LIST.
MCFinals == [v \in Transfers |-> IF v = "LIST" THEN {226, 451} ELSE {226, 250, 451}]
=============================================================================
