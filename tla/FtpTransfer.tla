---------------------------- MODULE FtpTransfer ----------------------------
(***************************************************************************)
(* QFtpDTP: the data connection of QFtp, its socket, its listener and the  *)
(* data or the device of the command that is running.                      *)
(*                                                                         *)
(* Signals are calls: a slot that emits one goes on when everything it is  *)
(* connected to has returned.  So the code that is running is a stack,     *)
(* calls, of what is still to be done, the innermost first, and an action  *)
(* is a stretch of code up to the next call.  Events of sockets and timers *)
(* come when the stack is empty: nothing here runs an event loop.          *)
(***************************************************************************)
EXTENDS FtpNetwork

VARIABLES
  dtp,    \* QFtpDTP
  pi,     \* QFtpPI, see FtpControl
  calls   \* what is still to be done

Call(name, arg) == <<name, arg>>
Do(name)  == Call(name, 0)
Signal(name, id) == Call("slot", [signal |-> name, id |-> id])
DtpState(s) == Call("dtpConnectState", s)

Quiet == calls = <<>>
In(name) == calls # <<>> /\ Head(calls)[1] = name
Arg == Head(calls)[2]
\* The running code has got to its next calls, or returned.
Then(next) == calls' = next \o Tail(calls)
Event(next) == Quiet /\ calls' = next

\* socket: of the QTcpSocket, "none" before there is one.
\* inbox: what it has received and nobody read; out: written and not yet sent.
\* bytes: bytesFromSocket; data, left: what is transferred, and what the device
\*   has still to give; file: what was written to it.
\* writing: callWriteData; err: a text of the server in place of a listing.
Nothing == [kind |-> "none", id |-> 0]
DtpInit == dtp = [socket |-> "none", inbox |-> <<>>, out |-> <<>>, bytes |-> <<>>,
                  data |-> Nothing, left |-> <<>>, file |-> <<>>, listening |-> FALSE,
                  writing |-> FALSE, err |-> FALSE]

Usable == dtp.socket \in {"connected", "closing"}
SetData(d, id)   == [d EXCEPT !.data = [kind |-> "bytes", id |-> id]]
SetDevice(d, id, content) == [d EXCEPT !.data = [kind |-> "device", id |-> id],
                                       !.left = content, !.file = <<>>]
ClearData(d) == [d EXCEPT !.data = Nothing]

\* state()
DtpClosed == dtp.socket \in {"none", "unconnected"}
\* bytesAvailable(), read(), readAll()
Available == IF dtp.socket = "connected" THEN dtp.inbox ELSE dtp.bytes
ReadAll(d) == IF d.socket = "connected" THEN [d EXCEPT !.inbox = <<>>] ELSE [d EXCEPT !.bytes = <<>>]

\* close() of a socket with nothing to send, and abort(): what was received is
\* gone, and disconnected() is emitted before they return.
Shut(d) == [d EXCEPT !.socket = "unconnected", !.inbox = <<>>, !.out = <<>>]
Disconnected == <<Do("socketConnectionClosed")>>

\* connectToHost(): the old socket is deleted, which aborts it.
DtpConnectToHost ==
  /\ In("dtpConnectToHost")
  /\ IF Usable
     THEN /\ dtp' = Shut(dtp) /\ net' = [net EXCEPT !.data = <<>>]
          /\ calls' = Disconnected \o calls
     ELSE /\ dtp' = [dtp EXCEPT !.socket = "connecting", !.inbox = <<>>, !.bytes = <<>>]
          /\ Then(<<>>) /\ UNCHANGED net
  /\ UNCHANGED pi

\* setupListener()
SetupListener(d) == [d EXCEPT !.listening = TRUE]

AbortConnection ==
  /\ In("abortConnection")
  /\ dtp' = LET d == [ClearData(dtp) EXCEPT !.writing = FALSE]
            IN IF dtp.socket = "none" THEN d ELSE Shut(d)
  /\ net' = IF Usable \/ dtp.socket = "connecting" THEN Hungup(net) ELSE net
  /\ Then(IF Usable THEN Disconnected ELSE <<>>)
  /\ UNCHANGED pi
-----------------------------------------------------------------------------
\* waitForConnection(): it waits for no time, and takes a connection only if
\* it is there.  A socket that was accepted is not told it is connected.
Accepted(d) == [d EXCEPT !.socket = "connected", !.inbox = <<>>, !.out = <<>>,
                         !.listening = FALSE]
WaitForConnection ==
  /\ In("waitForConnection")
  /\ \/ /\ dtp.listening /\ net.link = "called"
        /\ dtp' = Accepted(dtp) /\ net' = [net EXCEPT !.link = "open"]
     \/ UNCHANGED <<dtp, net>>
  /\ Then(<<>>) /\ UNCHANGED pi

\* write() of a socket that is not connected fails, which nobody sees.
Written(d, cells) == IF d.socket = "connected" THEN [d EXCEPT !.out = @ \o cells] ELSE d
WriteBytes ==
  /\ dtp.data.kind = "bytes"
  /\ dtp' = ClearData([Written(dtp, Whole(dtp.data.id)) EXCEPT
                         !.socket = IF @ = "connected" THEN "closing" ELSE @])
  /\ Then(<<>>) /\ UNCHANGED net
WriteBlock ==
  /\ dtp.data.kind = "device" /\ dtp.left # <<>>
  /\ dtp' = [Written(dtp, <<Head(dtp.left)>>) EXCEPT !.left = Tail(@), !.writing = TRUE]
  /\ Then(<<>>) /\ UNCHANGED net
\* Bug: the last block is taken for the end.
EndsEarly ==
  /\ dtp.data.kind = "device" /\ Len(dtp.left) < 2
  /\ dtp' = [(IF Usable THEN Shut(dtp) ELSE dtp) EXCEPT !.writing = FALSE]
  /\ net' = IF Usable THEN [Hungup(net) EXCEPT !.sent = TRUE] ELSE net
  /\ Then((IF Usable THEN Disconnected ELSE <<>>) \o <<Do("written")>>)
WriteEnd ==
  /\ dtp.data.kind = "device" /\ dtp.left = <<>>
  /\ dtp' = [(IF Usable THEN Shut(dtp) ELSE dtp) EXCEPT !.writing = FALSE]
  /\ net' = IF Usable THEN [Hungup(net) EXCEPT !.sent = TRUE] ELSE net
  /\ Then((IF Usable THEN Disconnected ELSE <<>>) \o <<Do("written")>>)
WriteData ==
  /\ In("writeData")
  /\ IF dtp.socket = "none" \/ dtp.data.kind = "none"
     THEN Then(<<>>) /\ UNCHANGED <<dtp, net>>
     ELSE WriteBytes \/ WriteBlock \/ WriteEnd
  /\ UNCHANGED pi
\* The rest of writeData once close() has returned.
AfterWrite ==
  /\ In("written")
  /\ dtp' = [ClearData(dtp) EXCEPT !.writing = FALSE]
  /\ Then(<<>>) /\ UNCHANGED <<pi, net>>

SocketBytesWritten ==
  /\ In("socketBytesWritten")
  /\ Then(IF dtp.writing THEN <<Do("writeData")>> ELSE <<>>)
  /\ UNCHANGED <<dtp, pi, net>>

\* Data is dropped while an abort is under way, parsed as a listing, written to
\* the device, or left to the user.
SocketReadyRead ==
  /\ In("socketReadyRead")
  /\ IF pi.cmd = NoLine
     THEN /\ dtp' = Shut(dtp) /\ net' = Hungup(net)
          /\ Then(Disconnected \o <<DtpState("CsClosed")>>)
     ELSE /\ UNCHANGED net
          /\ \/ /\ pi.abort = "AbortStarted"
                /\ dtp' = [dtp EXCEPT !.inbox = <<>>] /\ Then(<<>>)
             \/ /\ pi.abort # "AbortStarted" /\ pi.cmd.verb = "LIST"
                /\ dtp' = [dtp EXCEPT !.inbox = <<>>, !.err = @ \/ Contains(dtp.inbox, NoSuchFile)]
                /\ Then(<<>>)
             \/ /\ pi.abort # "AbortStarted" /\ pi.cmd.verb # "LIST" /\ dtp.data.kind = "device"
                /\ dtp' = [dtp EXCEPT !.inbox = <<>>, !.file = @ \o dtp.inbox] /\ Then(<<>>)
             \/ /\ pi.abort # "AbortStarted" /\ pi.cmd.verb # "LIST" /\ dtp.data.kind # "device"
                /\ Then(<<Signal("readyRead", 0)>>) /\ UNCHANGED dtp
  /\ UNCHANGED pi

\* Bug: the device is not forgotten.
KeepsDevice ==
  /\ In("socketConnectionClosed")
  /\ dtp' = [dtp EXCEPT !.bytes = dtp.inbox, !.inbox = <<>>]
  /\ Then(<<DtpState("CsClosed")>>)
  /\ UNCHANGED <<pi, net>>

\* What is left in the socket is kept for the user.
SocketConnectionClosed ==
  /\ In("socketConnectionClosed")
  /\ dtp' = [(IF dtp.data.kind = "device" THEN ClearData(dtp) ELSE dtp)
               EXCEPT !.bytes = dtp.inbox, !.inbox = <<>>]
  /\ Then(<<DtpState("CsClosed")>>)
  /\ UNCHANGED <<pi, net>>

TransferCode == \/ DtpConnectToHost \/ AbortConnection \/ WaitForConnection \/ WriteData
                \/ AfterWrite \/ SocketBytesWritten \/ SocketReadyRead \/ SocketConnectionClosed
-----------------------------------------------------------------------------
\* The event loop: what the network does to the socket and the listener.
SocketConnected ==
  /\ dtp.socket = "connecting" /\ net.link = "offered"
  /\ dtp' = [dtp EXCEPT !.socket = "connected"] /\ net' = [net EXCEPT !.link = "open"]
  /\ Event(<<DtpState("CsConnected")>>) /\ UNCHANGED pi

\* socketError(); any other error than these two is not looked at.
SocketError ==
  /\ dtp.socket = "connecting" /\ (Refusals \/ net.link # "offered")
  /\ dtp' = [dtp EXCEPT !.socket = "unconnected"]
  /\ net' = [net EXCEPT !.link = IF @ = "offered" THEN "none" ELSE @]
  /\ Event(<<DtpState("CsConnectionRefused")>>) /\ UNCHANGED pi

SetupSocket ==
  /\ dtp.listening /\ net.link = "called"
  /\ dtp' = Accepted(dtp) /\ net' = [net EXCEPT !.link = "open"]
  /\ Event(<<>>) /\ UNCHANGED pi

DataArrives ==
  /\ dtp.socket = "connected" /\ net.link = "open" /\ net.data # <<>>
  /\ dtp' = [dtp EXCEPT !.inbox = @ \o net.data] /\ net' = [net EXCEPT !.data = <<>>]
  /\ Event(<<Do("socketReadyRead")>>) /\ UNCHANGED pi

DataEnds ==
  /\ dtp.socket = "connected" /\ net.link = "open" /\ net.data = <<>> /\ net.eof
  /\ dtp' = [dtp EXCEPT !.socket = "unconnected", !.out = <<>>] /\ net' = Hungup(net)
  /\ Event(Disconnected) /\ UNCHANGED pi

DataSent ==
  /\ Usable /\ dtp.out # <<>> /\ Quiet
  /\ IF dtp.socket = "closing"
     THEN /\ dtp' = Shut(dtp)
          /\ net' = [Hungup(net) EXCEPT !.stored = @ \o dtp.out, !.sent = TRUE]
          /\ Event(<<Do("socketBytesWritten")>> \o Disconnected)
     ELSE /\ dtp' = [dtp EXCEPT !.out = <<>>]
          /\ net' = [net EXCEPT !.stored = @ \o dtp.out]
          /\ Event(<<Do("socketBytesWritten")>>)
  /\ UNCHANGED pi

TransferEvents == \/ SocketConnected \/ SocketError \/ SetupSocket
                  \/ DataArrives \/ DataEnds \/ DataSent
=============================================================================
