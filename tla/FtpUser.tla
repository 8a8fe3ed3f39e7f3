------------------------------ MODULE FtpUser ------------------------------
(***************************************************************************)
(* QFtp with a user that adds commands in any order, from the event loop   *)
(* or in the slots of some signals, and aborts them: what QFtp promises    *)
(* to every program that uses it.                                          *)
(***************************************************************************)
EXTENDS QFtp

CONSTANTS
  Commands,     \* what the user asks for
  Slots,        \* the signals in whose slots it may ask for more
  MaxCommands,  \* bound: commands added
  MaxAborts     \* bound: calls of abort()

ASSUME UserBounds == MaxCommands \in Nat /\ MaxAborts \in Nat

VARIABLE aborts

userVars == <<vars, aborts>>

Ask(command) ==
  /\ ftp.last < MaxCommands
  /\ ftp' = Add(ftp, command) /\ pi' = Extended(pi, command)
  /\ UNCHANGED <<net, dtp, lines, aborts>>

AskLater  == Quiet /\ UNCHANGED calls /\ \E c \in Commands : Ask(c)
AskInSlot == Returned(Slots) /\ Then(<<>>) /\ \E c \in Commands : Ask(c)
Return    == In("slot") /\ Then(<<>>) /\ UNCHANGED <<net, dtp, pi, lines, ftp, aborts>>
AskAbort  == Quiet /\ aborts < MaxAborts /\ aborts' = aborts + 1 /\ Abort

UserInit == LibraryInit /\ aborts = 0
UserNext == \/ AskLater \/ AskInSlot \/ Return \/ AskAbort
            \/ (Library /\ UNCHANGED aborts)
UserSpec == UserInit /\ [][UserNext]_userVars
-----------------------------------------------------------------------------
Increasing(ids) == \A i, j \in DOMAIN ids : i < j => ids[i] < ids[j]
Ids == [i \in DOMAIN ftp.pending |-> ftp.pending[i].id]

\* The types of the three objects' fields; the identifiers of the queue are in
\* the order they were given, each once (addCommand).
FtpTypeOK ==
  /\ dtp.socket \in {"none", "connecting", "connected", "closing", "unconnected"}
  /\ dtp.data.kind \in {"none", "bytes", "device"}
  /\ pi.state \in {"Begin", "Idle", "Waiting", "Success", "Failure"}
  /\ pi.abort \in {"None", "AbortStarted", "WaitForAbortToFinish"}
  /\ pi.cmd.verb \in Verbs \cup {"none"}
  /\ ftp.state \in {"Unconnected", "HostLookup", "Connecting", "Connected", "LoggedIn", "Closing"}
  /\ ftp.timers \in 0..MaxCommands
  /\ Increasing(Ids) /\ \A i \in DOMAIN Ids : Ids[i] \in 1..ftp.last

\* commandStarted and commandFinished come once for each command, in turns and
\* in the order of the queue, whatever the server and the network do and even
\* if commands are added in the slot of a commandFinished without an error.
\* It may be broken
\*  - when a command is added in the slot of a commandFinished with an error, of a
\*    listing: processReply, which told of it, then calls startNextCmd in the
\*    state Waiting, so that the new command is finished before its answer, and
\*    the answer may finish the next before it was started (four commands);
\*  - after an abort: the 226 that answers ABOR leaves waitForDtpToClose set, and
\*    is then taken for the greeting of a connection (five commands).
Promised == INSTANCE CommandQueue
              WITH Ids <- 1..MaxCommands, queue <- Ids, last <- ftp.last, signals <- ftp.signals
Promise == Promised!Spec

\* An answer that moves QFtpPI on is the answer to the line it has sent: lines
\* and answers never get out of step (processReply), unless one was aborted.
RightReply == aborts = 0 /\ In("processReply") /\ pi.state = "Waiting" => pi.to = pi.cmd

\* startNextCmd sends a line only in the state Idle, as the message of its own
\* debug build says ("Internal error! QFtpPI called in non-Idle state").
StartsIdle == In("startNextCmd") /\ ~pi.waitConnect => pi.state = "Idle"

\* commandFinished of a command, as the slots connected to it run.
Telling(signals, c) == Returned(signals) /\ Arg.id = c.id

\* When a command in passive mode is reported finished QFtpDTP has let go of its
\* data and its device, which the user may then delete, unless one was aborted.
PassiveReleased == \A i \in DOMAIN ftp.pending :
  aborts = 0 /\ First.mode = "Passive" /\ Telling({"finished", "failed"}, ftp.pending[i]) =>
    dtp.data.id # Ids[i]

\* A get in passive mode that is reported finished without an error has the
\* whole file, in the device or for the user to read, and nothing else: the
\* answer 226 waits for the data (waitForDtpToClose), unless one was aborted.
GetsWhole == \A i \in DOMAIN ftp.pending : LET c == ftp.pending[i] IN
  aborts = 0 /\ c.mode = "Passive" /\ Telling({"finished"}, c) =>
    /\ c.command = "Get" => Available = Whole(c.id)
    /\ c.command = "GetTo" => dtp.file = Whole(c.id)

\* A put in passive mode that is reported finished without an error was stored
\* whole, unless one was aborted.
PutsWhole == \A i \in DOMAIN ftp.pending : LET c == ftp.pending[i] IN
  aborts = 0 /\ c.mode = "Passive" /\ Telling({"finished"}, c) /\ c.command \in Puts =>
    net.stored = Whole(c.id)

\* state() says Connected or LoggedIn only while there is a connection.
StateTrue == Quiet /\ ftp.state \in {"Connected", "LoggedIn"} => Online
=============================================================================
