------------------------------ MODULE MiniFtp ------------------------------
(***************************************************************************)
(* The desktop client's MiniFtp: QFtp with a get() that waits, in an event *)
(* loop of its own, for the file.                                          *)
(*                                                                         *)
(* While a get() waits the rest of the client goes on, and may call again; *)
(* loops is the stack of those that wait, the innermost first.  Every loop *)
(* is told to quit by the same dataReceived(), and all of them return what *)
(* the last file was.                                                      *)
(***************************************************************************)
EXTENDS QFtp

CONSTANTS
  MaxCommands,   \* bound: commands of QFtp
  MaxWaiting     \* bound: calls of get() that wait at the same time

ASSUME MiniBounds == MaxCommands \in Nat /\ MaxWaiting \in Nat

\* state, lastGet, lastPut, received: m_state, lastGetCmd, lastPutCmd and
\*   lastDataReceived; the two numbers are not initialised.
\* returned: the file that each get() returned.
VARIABLE mini

miniVars == <<vars, mini>>

Loop(id) == [id |-> id, quit |-> FALSE]
MiniInit == /\ LibraryInit
            /\ \E get, put \in 0..1 :
                 mini = [state |-> "None", lastGet |-> get, lastPut |-> put, received |-> <<>>,
                         loops |-> <<>>, returned |-> [id \in 1..MaxCommands |-> <<0>>]]

\* connect(): nothing when it has logged in, and both commands again while it
\* is about to.
Connecting == mini.state = "None"
WithConnect(f) == IF Connecting THEN Add(Add(f, "ConnectToHost"), "Login") ELSE f
Connected(p) == IF Connecting THEN Extended(p, "ConnectToHost") ELSE p
Room(n) == ftp.last + n + (IF Connecting THEN 2 ELSE 0) <= MaxCommands

Request(command) ==
  /\ Room(1) /\ Quiet
  /\ ftp' = Add(WithConnect(ftp), command) /\ pi' = Connected(pi)
  /\ UNCHANGED <<net, dtp, calls, lines>>

Get == /\ Request("Get") /\ Len(mini.loops) < MaxWaiting
       /\ mini' = [mini EXCEPT !.lastGet = ftp'.last, !.loops = <<Loop(ftp'.last)>> \o @]

\* put() makes an event loop and does not run it.
Put == Request("Put") /\ mini' = [mini EXCEPT !.lastPut = ftp'.last]

Close == /\ ftp.last < MaxCommands /\ Quiet
         /\ ftp' = Add(ftp, "Close") /\ UNCHANGED <<net, dtp, pi, calls, lines, mini>>

\* The innermost get() returns once its loop was told to quit.
GetReturns ==
  /\ Quiet /\ mini.loops # <<>> /\ Head(mini.loops).quit
  /\ mini' = [mini EXCEPT !.loops = Tail(@), !.returned[Head(mini.loops).id] = mini.received]
  /\ UNCHANGED vars

Quit(loops) == [i \in DOMAIN loops |-> [loops[i] EXCEPT !.quit = TRUE]]
\* Bugs: the end of any command is taken for that of the get, or a failed get
\* is not told of.
OnAnyFinished ==
  /\ Returned({"finished", "failed"})
  /\ mini' = [mini EXCEPT !.loops = Quit(@), !.received = Available]
  /\ dtp' = ReadAll(dtp)
  /\ Then(<<>>) /\ UNCHANGED <<net, pi, lines, ftp>>
OnFinishedOnly ==
  /\ Returned({"finished", "failed"})
  /\ IF Arg.signal = "finished" /\ Arg.id = mini.lastGet
     THEN mini' = [mini EXCEPT !.loops = Quit(@), !.received = Available] /\ dtp' = ReadAll(dtp)
     ELSE UNCHANGED <<mini, dtp>>
  /\ Then(<<>>) /\ UNCHANGED <<net, pi, lines, ftp>>

OnFtpCommandFinished ==
  /\ Returned({"finished", "failed"})
  /\ IF Arg.id = mini.lastGet
     THEN /\ mini' = [mini EXCEPT !.loops = Quit(@),
                        !.received = IF Arg.signal = "failed" THEN <<>> ELSE Available]
          /\ dtp' = IF Arg.signal = "failed" THEN dtp ELSE ReadAll(dtp)
     ELSE UNCHANGED <<mini, dtp>>
  /\ Then(<<>>) /\ UNCHANGED <<net, pi, lines, ftp>>

OnFtpStateChanged ==
  /\ Returned({"stateChanged"})
  /\ mini' = [mini EXCEPT !.state = CASE ftp.state = "Unconnected" -> "None"
                                      [] ftp.state = "LoggedIn" -> "Connected"
                                      [] OTHER -> @]
  /\ Then(<<>>) /\ UNCHANGED <<net, dtp, pi, lines, ftp>>

\* onFtpReadReady() does nothing, and done() is connected to nothing.
OnOther == /\ Returned({"readyRead", "done", "undone"})
           /\ Then(<<>>) /\ UNCHANGED <<net, dtp, pi, lines, ftp, mini>>

\* A caller that waits for its last call to be over before the next.
Patient == Empty /\ mini.loops = <<>>

Slot == OnFtpCommandFinished \/ OnFtpStateChanged \/ OnOther
MiniStep == Slot \/ GetReturns \/ (Library /\ UNCHANGED mini)
MiniNext == (Patient /\ (Get \/ Put \/ Close)) \/ MiniStep
MiniSpec == MiniInit /\ [][MiniNext]_miniVars /\ WF_miniVars(MiniStep)
\* A caller that does not.
HastyNext == Get \/ Put \/ Close \/ MiniStep
HastySpec == MiniInit /\ [][HastyNext]_miniVars /\ WF_miniVars(MiniStep)
-----------------------------------------------------------------------------
WaitsFor(id) == \E i \in DOMAIN mini.loops : mini.loops[i].id = id

\* A file that get() returns is the one it asked for, whole, or nothing when
\* the command failed; readAll() of a file before it is not left over.
OwnFile == \A id \in 1..MaxCommands :
             mini.returned[id] \in {<<0>>, IF id \in ftp.failed THEN <<>> ELSE Whole(id)}

\* get() returns: the server answers every line, so its command ends, and the
\* commands of connect() before it.
GetsReturn == \A id \in 1..MaxCommands : WaitsFor(id) ~> ~WaitsFor(id)
=============================================================================
