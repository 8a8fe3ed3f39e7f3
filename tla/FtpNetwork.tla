----------------------------- MODULE FtpNetwork -----------------------------
(***************************************************************************)
(* The FTP server and the two connections between it and QFtp, as far as   *)
(* src/qtftp/src/qftp relies on them: the server answers the lines of the  *)
(* control connection in the order they came, a connection loses nothing   *)
(* and reorders nothing, and nothing orders the two connections.           *)
(*                                                                         *)
(* A line is its verb and the command it belongs to.  A file or a listing  *)
(* is Cells cells, each of them named by the command that asked for it.    *)
(***************************************************************************)
EXTENDS Integers, SequencesExt

CONSTANTS
  Replies,   \* verb -> the codes the server may answer it with
  Finals,    \* verb -> the codes that may end the transfer
  Long,      \* the verbs answered in two rows, xyz- and xyz
  Cells,     \* bound: cells of a file
  Drops,     \* may the server close the control connection on its own?
  Refusals   \* may a connection be refused?

Transfers == {"RETR", "LIST", "STOR"}
Verbs == Transfers \cup {"greeting", "USER", "PASS", "QUIT", "TYPE", "PASV", "EPSV", "PORT",
                         "EPRT", "SIZE", "ALLO", "CWD", "RNFR", "RNTO", "RAW", "ABOR"}

ASSUME RepliesAssumption == /\ Replies \in [Verbs -> SUBSET (100..559)]
                            /\ Finals \in [Transfers -> SUBSET (200..559)]
ASSUME NetworkBounds     == Cells \in Nat \ {0} /\ Long \subseteq Verbs
ASSUME FaultsAssumption  == Drops \in BOOLEAN /\ Refusals \in BOOLEAN

VARIABLE net

Line(verb, id) == [verb |-> verb, id |-> id]
NoLine   == Line("none", 0)
Greeting == Line("greeting", 0)
Abor     == Line("ABOR", 0)

Class(code) == code \div 100

\* The rows of an answer; "to" is the line it answers, which no row says.
Row(code, line, last) == [code |-> code, to |-> line, last |-> last]
Answer(code, line) == IF line.verb \in Long
                      THEN <<Row(code, line, FALSE), Row(code, line, TRUE)>>
                      ELSE <<Row(code, line, TRUE)>>

\* What the server sends for a command's RETR or LIST; 0 is the row "No such
\* file or directory" that some servers send in place of an answer of 550.
NoSuchFile == 0
Whole(id) == [i \in 1..Cells |-> id]

\* control: the connection of commandSocket; up, down: its two directions.
\* link: the data connection, "offered" by an answer to PASV, "invited" by a
\*   PORT, "called" once the server has connected to the client's listener.
\* data, eof: cells on their way to the client, and the end after them.
\* transfer, left: the line being served and its cells still to send.
\* stored: the cells of the last STOR; sent: the client has ended it.
\* bye: the server is about to close the control connection.
Closed == [control |-> "unconnected", up |-> <<>>, down |-> <<>>, link |-> "none",
           data |-> <<>>, eof |-> FALSE, transfer |-> NoLine, left |-> <<>>,
           stored |-> <<>>, sent |-> FALSE, bye |-> FALSE]
NetInit == net = Closed

Online == net.control = "connected"
\* A line reaches the server when there is a connection.
Wrote(n, line) == IF n.control = "connected" THEN [n EXCEPT !.up = Append(@, line)] ELSE n
\* The client has ended the data connection.
Hungup(n) == [n EXCEPT !.link = "none", !.data = <<>>, !.eof = FALSE]
-----------------------------------------------------------------------------
Busy == net.transfer # NoLine
Reached == net.link \in {"called", "open"}

\* Everything but a transfer: one answer, and for PASV and PORT the data
\* connection to come, which is offered when the last one is gone.
AnswerLine(line, code) ==
  /\ line.verb \notin Transfers
  /\ code \in {227, 229} => ~Reached
  /\ net' = [net EXCEPT
       !.up   = Tail(@),
       !.down = @ \o Answer(code, line),
       !.link = CASE code \in {227, 229} -> "offered"
                  [] line.verb \in {"PORT", "EPRT"} /\ Class(code) = 2 -> "invited"
                  [] OTHER -> @,
       !.bye  = @ \/ line.verb = "QUIT"]

\* A transfer is refused, or begun with 150.
BeginTransfer(line, code) ==
  /\ line.verb \in Transfers
  /\ net' = [net EXCEPT
       !.up = Tail(@), !.down = @ \o Answer(code, line),
       !.transfer = IF Class(code) = 1 THEN line ELSE NoLine,
       !.link = IF Class(code) = 1 /\ @ = "invited" THEN "called" ELSE @,
       !.left = IF line.verb = "STOR" THEN <<>> ELSE Whole(line.id),
       !.stored = <<>>, !.sent = FALSE]

ServeLine == /\ Online /\ ~Busy /\ ~net.bye /\ net.up # <<>>
             /\ \E code \in Replies[Head(net.up).verb] :
                  AnswerLine(Head(net.up), code) \/ BeginTransfer(Head(net.up), code)

SendCell == /\ Busy /\ Reached /\ net.left # <<>>
            /\ net' = [net EXCEPT !.data = Append(@, Head(net.left)), !.left = Tail(@)]

\* The listing of a file that is not there, where it is sent as a listing.
SendText == /\ Busy /\ Reached /\ net.transfer.verb = "LIST" /\ net.left = Whole(net.transfer.id)
            /\ net' = [net EXCEPT !.data = Append(@, NoSuchFile), !.left = <<>>]

\* The last answer and the end of the data leave together; they arrive in any
\* order.  A STOR ends when the client has closed, any transfer when the
\* client has gone or the server gives up.
EndTransfer ==
  /\ Busy
  /\ \E code \in Finals[net.transfer.verb] :
       /\ Class(code) = 2 => IF net.transfer.verb = "STOR" THEN net.sent
                             ELSE net.left = <<>> /\ Reached
       /\ net' = [net EXCEPT !.down = @ \o Answer(code, net.transfer), !.transfer = NoLine,
                             !.eof = Reached, !.left = <<>>]

\* ABOR is the one line that is read during a transfer: the transfer is
\* answered first, then the ABOR.
ServeAbort ==
  /\ Online /\ Busy /\ net.up # <<>> /\ Head(net.up) = Abor
  /\ net' = [net EXCEPT !.up = Tail(@), !.transfer = NoLine, !.left = <<>>, !.eof = Reached,
                        !.down = @ \o Answer(426, net.transfer) \o Answer(226, Abor)]

GiveUp == /\ Drops /\ Online /\ ~net.bye
          /\ net' = [net EXCEPT !.bye = TRUE, !.transfer = NoLine, !.left = <<>>, !.eof = Reached]

Server == ServeLine \/ SendCell \/ SendText \/ EndTransfer \/ ServeAbort \/ GiveUp
=============================================================================
