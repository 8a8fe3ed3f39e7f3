------------------------------ MODULE Protocol ------------------------------
(***************************************************************************)
(* What travels on the connection between a client and stuffserver.        *)
(*                                                                         *)
(* A connection carries bytes.  The model groups them into cells, the      *)
(* pieces the server's parser tells apart: the verb of a command line with *)
(* the size it announces, the object the line names (a file, a process),   *)
(* the newline that ends it, the NUL the server writes over that newline,  *)
(* and bytes that mean nothing.  A request is a line, <<verb, object,      *)
(* newline>>, and for WRITE_MEM and PUT_FILE as many more cells as the     *)
(* verb announces.  A read may cut a request between any two cells.        *)
(***************************************************************************)
EXTENDS Integers, Sequences

\* The size cell of a line that ends after its verb: sscanf returns EOF.
NoSize == -1

Verbs == {"CMD", "READ_MEM", "WRITE_MEM", "STREAM_FILE", "GET_FILE", "PUT_FILE",
          "CMD_DETACHED"}

\* "path" is a file that opens for reading and writing, "nowhere" one that
\* does not exist and cannot be created, "dir" one that opens for reading
\* only and whose read() fails: a directory.
Objects == {"path", "nowhere", "dir"}

Symbols == Verbs \cup Objects \cup {"nl", "nul", "junk"}

Cell == [sym : Symbols, n : {k \in Int : k >= NoSize}]

Sym(s)     == [sym |-> s, n |-> NoSize]
Command(v, k) == [sym |-> v, n |-> k]
NL  == Sym("nl")
NUL == Sym("nul")

\* Position i holds the first c of the sequence s.
FirstAt(s, c, i) == s[i] = c /\ \A j \in 1..(i - 1) : s[j] # c

Verb(line)   == IF Len(line) > 0 THEN line[1].sym ELSE "nul"
Size(line)   == IF Len(line) > 0 THEN line[1].n ELSE NoSize
Object(line) == IF Len(line) > 1 THEN line[2].sym ELSE "nowhere"

\* The lines that announce bytes to follow.
Announces(line) == Verb(line) \in {"WRITE_MEM", "PUT_FILE"} /\ Size(line) # NoSize

\* What a request may be answered with: the four NULs after a command's
\* output or the error marker, the bytes of the memory read or the marker,
\* OK or KO, a file with its size or the size that says there is none.
Replies(line) ==
  CASE Verb(line) = "CMD"         -> {"end", "error"}
    [] Verb(line) = "READ_MEM"    -> IF Size(line) > 0 THEN {"memory", "error"} ELSE {"error"}
    [] Verb(line) = "WRITE_MEM"   -> IF Size(line) > 0 THEN {"OK", "KO"} ELSE {"KO"}
    [] Verb(line) = "GET_FILE"    -> IF Object(line) = "path" THEN {"file"} ELSE {"nofile"}
    [] Verb(line) = "STREAM_FILE" -> IF Object(line) = "nowhere" THEN {"KO"} ELSE {"none"}
    [] OTHER                      -> {"none"}

ReplyKinds == {"end", "error", "memory", "OK", "KO", "file", "nofile", "none"}
=============================================================================
