----------------------------- MODULE FtpControl -----------------------------
(***************************************************************************)
(* QFtpPI: the control connection of QFtp.  It sends the lines of one      *)
(* command, the next when the last is answered, and emits finished() or    *)
(* error(), which QFtp handles.                                            *)
(***************************************************************************)
EXTENDS FtpTransfer

CONSTANT IPv6   \* is the address of the connection one of IPv6?
ASSUME IPv6Assumption == IPv6 \in BOOLEAN

VARIABLE lines   \* the rows received by commandSocket and not yet read

\* pending, cmd: pendingCommands and currentCmd.
\* text: is replyText more than ""?  code, to: the answer it belongs to.
PiInit == /\ lines = <<>>
          /\ pi = [state |-> "Begin", abort |-> "None", pending |-> <<>>, cmd |-> NoLine,
                   waitConnect |-> FALSE, waitClose |-> FALSE, extended |-> TRUE,
                   text |-> FALSE, code |-> 0, to |-> NoLine]

PiFinished == Do("_q_piFinished")
PiError(e) == Call("_q_piError", e)
PiConnectState(s) == Call("_q_piConnectState", s)
StartNextCmdCall == Do("startNextCmd")

\* connectToHost() does nothing to a socket that is not unconnected, but
\* HostLookup is emitted.
PiConnectToHost ==
  /\ In("connectToHost")
  /\ net' = IF net.control = "unconnected" THEN [net EXCEPT !.control = "lookup"] ELSE net
  /\ Then(<<>>) /\ UNCHANGED <<dtp, pi, lines>>

\* sendCommands(): what it is given when lines are still pending is dropped.
SendCommands ==
  /\ In("sendCommands")
  /\ IF pi.pending # <<>>
     THEN Then(<<>>) /\ UNCHANGED pi
     ELSE IF ~Online \/ pi.state # "Idle"
     THEN Then(<<PiError("NotConnected")>>) /\ UNCHANGED pi
     ELSE /\ pi' = [pi EXCEPT !.pending = Arg]
          /\ Then(<<StartNextCmdCall>>)
  /\ UNCHANGED <<dtp, net, lines>>

PiClear ==
  /\ In("clearPendingCommands")
  /\ pi' = [pi EXCEPT !.pending = <<>>]
  /\ Then(<<Do("abortConnection"), Do("cleared")>>)
  /\ UNCHANGED <<dtp, net, lines>>
PiCleared ==
  /\ In("cleared")
  /\ pi' = [pi EXCEPT !.cmd = NoLine, !.state = "Idle"]
  /\ Then(<<>>) /\ UNCHANGED <<dtp, net, lines>>

PiAbort ==
  /\ In("abort")
  /\ IF pi.abort # "None"
     THEN pi' = [pi EXCEPT !.pending = <<>>] /\ Then(<<>>) /\ UNCHANGED net
     ELSE /\ pi' = [pi EXCEPT !.pending = <<>>, !.abort = "AbortStarted"]
          /\ net' = Wrote(net, Abor)
          /\ Then(IF pi.cmd.verb = "STOR" THEN <<Do("abortConnection")>> ELSE <<>>)
  /\ UNCHANGED <<dtp, lines>>
-----------------------------------------------------------------------------
\* Bug: no answer waits for the data.
WaitsForNone(code) == FALSE

\* 226, and 250 to a RETR, are left alone until the data connection is closed.
EndsTransfer(code) == code = 226 \/ (code = 250 /\ pi.cmd.verb = "RETR")

ReadRow(row) ==
  LET code == IF pi.text THEN pi.code ELSE row.code
      to   == IF pi.text THEN pi.to ELSE row.to
      last == row.last /\ row.code = code
      wait == last /\ EndsTransfer(code) /\ ~DtpClosed
  IN  /\ pi' = [pi EXCEPT !.text = TRUE, !.code = code, !.to = to, !.waitClose = @ \/ wait]
      /\ Then(IF last /\ ~wait
              THEN <<Do("processReply"), Do("processed"), Do("readLines")>>
              ELSE <<Do("readLines")>>)

\* readyRead(), and its loop.  The code is read when no text is left over; a
\* reply that has to wait leaves its text, and the loop goes on.
ReadyRead ==
  /\ In("readyRead")
  /\ Then(IF pi.waitClose THEN <<>> ELSE <<Do("readLines")>>)
  /\ UNCHANGED <<dtp, pi, net, lines>>
ReadLines ==
  /\ In("readLines")
  /\ IF lines = <<>> THEN Then(<<>>) /\ UNCHANGED pi ELSE ReadRow(Head(lines))
  /\ lines' = IF lines = <<>> THEN lines ELSE Tail(lines)
  /\ UNCHANGED <<dtp, net>>
Processed ==
  /\ In("processed")
  /\ pi' = [pi EXCEPT !.text = FALSE]
  /\ Then(<<>>) /\ UNCHANGED <<dtp, net, lines>>

Table(code) == CASE code = 202 -> "Failure" [] Class(code) = 1 -> "Waiting"
                 [] Class(code) = 2 -> "Success" [] Class(code) = 3 -> "Idle"
                 [] OTHER -> "Failure"

\* processReply(), for a reply that has not to wait.
Swallowed == pi.abort = "WaitForAbortToFinish"
Replied == Call("replied", pi.code)
ProcessReply ==
  /\ In("processReply")
  /\ LET abort == IF pi.abort = "AbortStarted" THEN "WaitForAbortToFinish" ELSE "None"
         next(state, frames) == pi' = [pi EXCEPT !.abort = abort, !.state = state] /\ Then(frames)
     IN  \/ Swallowed /\ next(pi.state, <<>>)
         \/ ~Swallowed /\ pi.state = "Begin" /\ Class(pi.code) # 2 /\ next("Begin", <<>>)
         \/ ~Swallowed /\ pi.state = "Begin" /\ Class(pi.code) = 2
              /\ next("Idle", <<PiFinished, Replied, Do("react")>>)
         \/ ~Swallowed /\ pi.state = "Waiting"
              /\ next(Table(pi.code), <<Replied, Do("react")>>)
         \/ ~Swallowed /\ pi.state \notin {"Begin", "Waiting"} /\ next(pi.state, <<>>)
  /\ UNCHANGED <<dtp, net, lines>>

\* The special actions on certain replies; 213 only sets the size of the
\* progress.  A raw command takes none of them.
Special(raw) ==
  /\ In("replied")
  /\ \/ raw /\ Then(<<>>) /\ UNCHANGED pi
     \/ /\ ~raw /\ Arg \in {227, 229}
        /\ pi' = [pi EXCEPT !.waitConnect = TRUE] /\ Then(<<Do("dtpConnectToHost")>>)
     \/ /\ ~raw /\ Arg = 230
        /\ pi' = [pi EXCEPT !.pending =
                    IF pi.cmd.verb = "USER" /\ @ # <<>> /\ Head(@).verb = "PASS" THEN Tail(@) ELSE @]
        /\ Then(<<PiConnectState("LoggedIn")>>)
     \/ /\ ~raw /\ Class(Arg) = 1 /\ pi.cmd.verb = "STOR"
        /\ Then(<<Do("waitForConnection"), Do("writeData")>>) /\ UNCHANGED pi
     \/ /\ ~raw /\ Arg \notin {227, 229, 230} /\ ~(Class(Arg) = 1 /\ pi.cmd.verb = "STOR")
        /\ Then(<<>>) /\ UNCHANGED pi
  /\ UNCHANGED <<dtp, net, lines>>

\* The end of processReply, by the state that the calls before it left.
Fallback == [EPSV |-> "PASV", EPRT |-> "PORT"]
React ==
  /\ In("react")
  /\ \/ /\ pi.state \in {"Success", "Idle"}
        /\ pi' = [pi EXCEPT !.state = "Idle"]
        /\ dtp' = dtp
        /\ Then(IF dtp.err THEN <<PiError("UnknownError"), Do("clearError"), StartNextCmdCall>>
                ELSE <<StartNextCmdCall>>)
     \/ /\ pi.state \in {"Begin", "Waiting"} /\ Then(<<>>) /\ UNCHANGED <<pi, dtp>>
     \/ /\ pi.state = "Failure" /\ pi.cmd.verb \in DOMAIN Fallback
        /\ pi' = [pi EXCEPT !.extended = FALSE,
                            !.pending = <<Line(Fallback[pi.cmd.verb], pi.cmd.id)>> \o @]
        /\ Then(<<Do("failed")>>) /\ UNCHANGED dtp
     \/ /\ pi.state = "Failure" /\ pi.cmd.verb \notin DOMAIN Fallback
        /\ Then(<<PiError("UnknownError"), Do("failed")>>) /\ UNCHANGED <<pi, dtp>>
  /\ UNCHANGED <<net, lines>>
ClearError ==
  /\ In("clearError")
  /\ dtp' = [dtp EXCEPT !.err = FALSE]
  /\ Then(<<>>) /\ UNCHANGED <<pi, net, lines>>
\* Bug: the state of a failure is left.
FailedNotIdle ==
  /\ In("failed")
  /\ Then(IF pi.state = "Waiting" THEN <<>> ELSE <<StartNextCmdCall>>)
  /\ UNCHANGED <<dtp, pi, net, lines>>

Failed ==
  /\ In("failed")
  /\ IF pi.state = "Waiting" THEN Then(<<>>) /\ UNCHANGED pi
     ELSE pi' = [pi EXCEPT !.state = "Idle"] /\ Then(<<StartNextCmdCall>>)
  /\ UNCHANGED <<dtp, net, lines>>

\* PORT and PASV are edited in place; PORT has no form for IPv6.
Edited(line) ==
  IF IPv6 /\ pi.extended
  THEN CASE line.verb = "PORT" -> Line("EPRT", line.id)
         [] line.verb = "PASV" -> Line("EPSV", line.id)
         [] OTHER -> line
  ELSE line
\* Bug: the next line does not wait for the data connection.
StartUnconnected ==
  /\ In("startNextCmd")
  /\ IF pi.pending = <<>>
     THEN pi' = [pi EXCEPT !.cmd = NoLine] /\ Then(<<PiFinished>>) /\ UNCHANGED net
     ELSE /\ pi' = [pi EXCEPT !.cmd = Edited(Head(pi.pending)), !.pending = Tail(@),
                              !.state = "Waiting"]
          /\ net' = Wrote(net, Edited(Head(pi.pending))) /\ Then(<<>>)
  /\ UNCHANGED <<dtp, lines>>

StartNextCmd ==
  /\ In("startNextCmd")
  /\ \/ pi.waitConnect /\ Then(<<>>) /\ UNCHANGED <<pi, dtp, net>>
     \/ /\ ~pi.waitConnect /\ pi.pending = <<>>
        /\ pi' = [pi EXCEPT !.cmd = NoLine]
        /\ Then(<<PiFinished>>) /\ UNCHANGED <<dtp, net>>
     \/ /\ ~pi.waitConnect /\ pi.pending # <<>>
        /\ LET line == Edited(Head(pi.pending)) IN
           IF line.verb = "PORT" /\ IPv6
           THEN pi' = [pi EXCEPT !.cmd = line] /\ UNCHANGED <<dtp, net>>
           ELSE /\ pi' = [pi EXCEPT !.cmd = line, !.pending = Tail(@), !.state = "Waiting"]
                /\ dtp' = IF line.verb \in {"PORT", "EPRT"} THEN SetupListener(dtp) ELSE dtp
                /\ net' = Wrote(net, line)
        /\ Then(<<>>)
  /\ UNCHANGED lines

\* dtpConnectState(); a reply that waited for the data connection is processed.
DtpConnectState ==
  /\ In("dtpConnectState")
  /\ \/ /\ Arg = "CsClosed" /\ pi.waitClose
        /\ IF EndsTransfer(pi.code) /\ ~DtpClosed THEN Then(<<>>)
           ELSE Then(<<Do("processReply"), Do("processed"), Do("closed")>>)
        /\ UNCHANGED pi
     \/ /\ Arg = "CsClosed" /\ ~pi.waitClose /\ Then(<<Do("closed")>>) /\ UNCHANGED pi
     \/ /\ Arg = "CsConnected"
        /\ pi' = [pi EXCEPT !.waitConnect = FALSE] /\ Then(<<StartNextCmdCall>>)
     \/ /\ Arg = "CsConnectionRefused"
        /\ Then(<<PiError("ConnectionRefused"), StartNextCmdCall>>) /\ UNCHANGED pi
  /\ UNCHANGED <<dtp, net, lines>>
DtpConnectionClosed ==
  /\ In("closed")
  /\ pi' = [pi EXCEPT !.waitClose = FALSE]
  /\ Then(<<Do("readyRead")>>) /\ UNCHANGED <<dtp, net, lines>>

ControlCode == \/ PiConnectToHost \/ SendCommands \/ PiClear \/ PiCleared \/ PiAbort
               \/ ReadyRead \/ ReadLines \/ Processed \/ ProcessReply \/ React \/ ClearError
               \/ Failed \/ StartNextCmd \/ DtpConnectState \/ DtpConnectionClosed
               \/ (TransferCode /\ UNCHANGED lines)
-----------------------------------------------------------------------------
\* The event loop: the control connection.
HostFound ==
  /\ net.control = "lookup"
  /\ net' = [net EXCEPT !.control = "connecting"]
  /\ Event(<<PiConnectState("Connecting")>>) /\ UNCHANGED <<dtp, pi, lines>>

PiConnected ==
  /\ net.control = "connecting"
  /\ net' = [net EXCEPT !.control = "connected", !.up = <<Greeting>>]
  /\ pi' = [pi EXCEPT !.state = "Begin"]
  /\ Event(<<PiConnectState("Connected")>>) /\ UNCHANGED <<dtp, lines>>

\* error(): no host, a refusal or a timeout.
ControlError ==
  /\ Refusals /\ net.control \in {"lookup", "connecting"}
  /\ net' = [net EXCEPT !.control = "unconnected"]
  /\ Event(<<PiConnectState("Unconnected"), PiError("ConnectionRefused")>>)
  /\ UNCHANGED <<dtp, pi, lines>>

RowsArrive ==
  /\ Online /\ net.down # <<>>
  /\ \E n \in 1..Len(net.down) :
       /\ lines' = lines \o SubSeq(net.down, 1, n)
       /\ net' = [net EXCEPT !.down = SubSeq(@, n + 1, Len(@))]
  /\ Event(<<Do("readyRead")>>) /\ UNCHANGED <<dtp, pi>>

\* Bug: nobody is told.
ClosesSilently ==
  /\ Online /\ net.bye /\ net.down = <<>>
  /\ net' = [net EXCEPT !.control = "unconnected", !.up = <<>>, !.bye = FALSE]
  /\ lines' = <<>> /\ Event(<<>>) /\ UNCHANGED <<dtp, pi>>

\* connectionClosed(): close() drops what was not read.
ConnectionClosed ==
  /\ Online /\ net.bye /\ net.down = <<>>
  /\ net' = [net EXCEPT !.control = "unconnected", !.up = <<>>, !.bye = FALSE,
                        !.link = IF Reached THEN @ ELSE "none"]
  /\ lines' = <<>>
  /\ Event(<<PiConnectState("Unconnected")>>) /\ UNCHANGED <<dtp, pi>>

ControlEvents == \/ HostFound \/ PiConnected \/ ControlError \/ RowsArrive \/ ConnectionClosed
                 \/ (TransferEvents /\ UNCHANGED lines)
=============================================================================
