---------------------------- MODULE CommandStream ----------------------------
(***************************************************************************)
(* What stuffserver promises the client of one connection.                 *)
(*                                                                         *)
(* The bytes of the connection are one stream, whatever packets and reads  *)
(* they come in.  The stream is a sequence of requests; the server takes   *)
(* each one off it, a line up to its newline and, if the line announces    *)
(* any, the bytes that follow, and carries it out, in the order sent, with *)
(* exactly the bytes announced.  What one client leaves behind when it     *)
(* goes never reaches the next.                                            *)
(***************************************************************************)
EXTENDS Protocol

CONSTANT Messages          \* what a client may put on the stream in one go

VARIABLES
  peer,                    \* the other end: none, open, closing, reset
  stream,                  \* sent by the client and not yet carried out
  awaiting,                \* a line whose payload has not been taken, or <<>>
  log                      \* the requests carried out for this client

vars == <<peer, stream, awaiting, log>>

Init == peer = "none" /\ stream = <<>> /\ awaiting = <<>> /\ log = <<>>

Connect ==
  /\ peer = "none"
  /\ peer' = "open"
  /\ UNCHANGED <<stream, awaiting, log>>

\* The client sends, and may close its side behind what it sent.
Send(m) ==
  /\ peer = "open"
  /\ peer' \in {"open", "closing"}
  /\ stream' = stream \o m
  /\ UNCHANGED <<awaiting, log>>

Close == peer = "open" /\ peer' = "closing" /\ UNCHANGED <<stream, awaiting, log>>

\* The connection is reset: what the server has not read yet is lost.
Abort ==
  /\ peer \in {"open", "closing"}
  /\ peer' = "reset"
  /\ \E k \in 0..Len(stream) : stream' = SubSeq(stream, 1, k)
  /\ UNCHANGED <<awaiting, log>>

NewlineAt(e) == FirstAt(stream, NL, e)

LineReady    == awaiting = <<>> /\ \E e \in 1..Len(stream) : NewlineAt(e)
PayloadReady == awaiting # <<>> /\ Len(stream) >= Size(awaiting)
Ready        == LineReady \/ PayloadReady

TakeLine ==
  /\ awaiting = <<>>
  /\ \E e \in 1..Len(stream) :
       LET line == SubSeq(stream, 1, e - 1) IN
       /\ NewlineAt(e)
       /\ stream' = SubSeq(stream, e + 1, Len(stream))
       /\ \/ /\ Announces(line)
             /\ awaiting' = line
             /\ UNCHANGED log
          \/ /\ Verb(line) \notin Verbs
             /\ UNCHANGED <<awaiting, log>>
          \/ /\ Verb(line) \in Verbs /\ ~Announces(line)
             /\ UNCHANGED awaiting
             /\ \E r \in Replies(line) :
                  log' = Append(log, [line |-> line, data |-> <<>>, reply |-> r])
  /\ UNCHANGED peer

TakePayload ==
  /\ PayloadReady
  /\ stream' = SubSeq(stream, Size(awaiting) + 1, Len(stream))
  /\ \E r \in Replies(awaiting) :
       log' = Append(log, [line  |-> awaiting,
                           data  |-> SubSeq(stream, 1, Size(awaiting)),
                           reply |-> r])
  /\ awaiting' = <<>>
  /\ UNCHANGED peer

\* The server lets go of a client that closed after the last complete
\* request of it is carried out, of one that reset at any time.
Hangup ==
  /\ peer = "reset" \/ (peer = "closing" /\ ~Ready)
  /\ peer' = "none" /\ stream' = <<>> /\ awaiting' = <<>> /\ log' = <<>>

Next == Connect \/ (\E m \in Messages : Send(m)) \/ Close \/ Abort
          \/ TakeLine \/ TakePayload \/ Hangup

Spec == Init /\ [][Next]_vars
=============================================================================
