-------------------------------- MODULE QFtp --------------------------------
(***************************************************************************)
(* QFtp: a queue of commands, of which the first is run by QFtpPI and      *)
(* QFtpDTP.  A user adds commands and is told of each with                 *)
(* commandStarted and commandFinished, and with done when none is left.    *)
(***************************************************************************)
EXTENDS FtpControl

VARIABLE ftp

\* pending: the commands, with the mode their lines were made for.
\* timers: singleShots of _q_startNextCommand still to come.
\* closeWait: close_waitForStateChange; last: the last id given.
\* signals: what the user was told, started and finished, in order.
\* failed: the commands that were finished with an error.
FtpInit == ftp = [pending |-> <<>>, state |-> "Unconnected", mode |-> "Passive",
                  closeWait |-> FALSE, timers |-> 0, last |-> 0, signals |-> <<>>,
                  failed |-> {}]

vars == <<net, dtp, pi, calls, lines, ftp>>

Told(what, id) == [what |-> what, id |-> id]
Empty == ftp.pending = <<>>
First == ftp.pending[1]

Immediate == {"Active", "Passive", "SetProxy"}   \* setTransferMode and setProxy
Gets == {"Get", "GetTo"}                         \* without and with a device
Puts == {"Put", "PutFrom"}                       \* of bytes and of a device

\* The lines a command is made of.
LinesOf(c) ==
  LET via == IF c.mode = "Passive" THEN "PASV" ELSE "PORT"
      verbs == CASE c.command = "Login"  -> <<"USER", "PASS">>
                 [] c.command = "Close"  -> <<"QUIT">>
                 [] c.command = "List"   -> <<"TYPE", via, "LIST">>
                 [] c.command \in Gets   -> <<"TYPE", "SIZE", via, "RETR">>
                 [] c.command \in Puts   -> <<"TYPE", via, "ALLO", "STOR">>
                 [] c.command = "Rename" -> <<"RNFR", "RNTO">>
                 [] c.command = "RawCommand" -> <<"RAW">>
                 [] OTHER -> <<"CWD">>   \* cd, and the like of it remove, mkdir and rmdir
  IN  [i \in DOMAIN verbs |-> Line(verbs[i], c.id)]

\* Bugs that the runs have to notice, here and below: an identifier given
\* twice, and a timer for every command.
AddSameId(f, command) ==
  [f EXCEPT !.pending = Append(@, [id |-> f.last + 1, command |-> command, mode |-> f.mode]),
            !.timers = IF f.pending = <<>> THEN @ + 1 ELSE @,
            !.last = IF f.pending = <<>> THEN @ + 1 ELSE @]
AddWithTimer(f, command) ==
  [f EXCEPT !.pending = Append(@, [id |-> f.last + 1, command |-> command, mode |-> f.mode]),
            !.last = @ + 1, !.timers = @ + 1]

\* addCommand(), with what its callers do after it.
Add(f, command) ==
  LET c == [id |-> f.last + 1, command |-> command, mode |-> f.mode]
  IN  [f EXCEPT !.pending = Append(@, c), !.last = c.id,
                !.timers = IF f.pending = <<>> THEN @ + 1 ELSE @,
                !.mode = IF command \in {"Active", "Passive"} THEN command ELSE @]
Extended(p, command) ==
  IF command \in {"ConnectToHost", "Active", "Passive"} THEN [p EXCEPT !.extended = TRUE] ELSE p

\* clearPendingCommands()
KeepFirst(f) == [f EXCEPT !.pending = IF @ = <<>> THEN @ ELSE <<Head(@)>>]

\* abort(), of the user.
Abort ==
  /\ IF Empty THEN UNCHANGED <<ftp, calls>>
     ELSE ftp' = KeepFirst(ftp) /\ calls' = <<Do("abort")>> \o calls
  /\ UNCHANGED <<net, dtp, pi, lines>>
-----------------------------------------------------------------------------
\* _q_startNextCommand(): what an earlier command left to read is dropped.
Run(c) ==
  CASE c.command \in Immediate -> <<PiFinished>>
    [] c.command = "ConnectToHost" -> <<PiConnectState("HostLookup"), Do("connectToHost")>>
    [] c.command = "Close" -> <<Signal("stateChanged", 0), Call("sendCommands", LinesOf(c))>>
    [] OTHER -> <<Call("sendCommands", LinesOf(c))>>
Loaded(c, d) ==
  CASE c.command = "Put"     -> SetData(d, c.id)
    [] c.command = "PutFrom" -> SetDevice(d, c.id, Whole(c.id))
    [] c.command = "GetTo"   -> SetDevice(d, c.id, <<>>)
    [] OTHER -> d
StartNextCommand ==
  /\ In("_q_startNextCommand")
  /\ IF Empty THEN Then(<<>>) /\ UNCHANGED <<ftp, dtp>>
     ELSE /\ ftp' = [ftp EXCEPT !.signals = Append(@, Told("started", First.id)),
                                !.state = IF First.command = "Close" THEN "Closing" ELSE @]
          /\ dtp' = Loaded(First, IF Available = <<>> THEN dtp ELSE ReadAll(dtp))
          /\ Then(Run(First))
  /\ UNCHANGED <<net, pi, lines>>

Finish(id, error) ==
  ftp' = [ftp EXCEPT !.signals = Append(@, Told("finished", id)),
                     !.failed = IF error THEN @ \cup {id} ELSE @]
Tell(id, error) == <<Signal(IF error THEN "failed" ELSE "finished", id),
                     Call("removeFirst", error)>>

\* _q_piFinished(): close is finished only when it is unconnected.
QPiFinished ==
  /\ In("_q_piFinished")
  /\ IF Empty THEN Then(<<>>) /\ UNCHANGED ftp
     ELSE IF First.command = "Close" /\ ftp.state # "Unconnected"
     THEN ftp' = [ftp EXCEPT !.closeWait = TRUE] /\ Then(<<>>)
     ELSE Finish(First.id, FALSE) /\ Then(Tell(First.id, FALSE))
  /\ UNCHANGED <<net, dtp, pi, lines>>

\* _q_piError(): a get does not need SIZE, nor a put ALLO.
NonFatal(c) == \/ c.command \in Gets /\ pi.cmd.verb = "SIZE"
               \/ c.command \in Puts /\ pi.cmd.verb = "ALLO"
QPiError ==
  /\ In("_q_piError")
  /\ Then(IF Empty \/ (~Empty /\ NonFatal(First)) THEN <<>>
          ELSE <<Do("clearPendingCommands"), Call("commandFailed", First.id)>>)
  /\ UNCHANGED <<net, dtp, pi, lines, ftp>>
CommandFailed ==
  /\ In("commandFailed")
  /\ ftp' = [KeepFirst(ftp) EXCEPT !.signals = Append(@, Told("finished", Arg)),
                                   !.failed = @ \cup {Arg}]
  /\ Then(Tell(Arg, TRUE))
  /\ UNCHANGED <<net, dtp, pi, lines>>

\* The end of both: the command leaves the queue, and the next one starts.
RemoveFirstCommand ==
  /\ In("removeFirst")
  /\ ftp' = [ftp EXCEPT !.pending = Tail(@)]
  /\ Then(IF Len(ftp.pending) = 1 THEN <<Signal(IF Arg THEN "undone" ELSE "done", 0)>>
          ELSE <<Do("_q_startNextCommand")>>)
  /\ UNCHANGED <<net, dtp, pi, lines>>

QPiConnectState ==
  /\ In("_q_piConnectState")
  /\ ftp' = [ftp EXCEPT !.state = Arg, !.closeWait = FALSE]
  /\ Then(<<Signal("stateChanged", 0)>> \o IF ftp.closeWait THEN <<PiFinished>> ELSE <<>>)
  /\ UNCHANGED <<net, dtp, pi, lines>>

\* _q_piFtpReply() makes the reply to a raw command one without special actions.
QPiFtpReply == Special(~Empty /\ First.command = "RawCommand") /\ UNCHANGED ftp

Timer ==
  /\ ftp.timers > 0
  /\ ftp' = [ftp EXCEPT !.timers = @ - 1]
  /\ Event(<<Do("_q_startNextCommand")>>) /\ UNCHANGED <<net, dtp, pi, lines>>

Code == \/ StartNextCommand \/ QPiFinished \/ QPiError \/ CommandFailed \/ RemoveFirstCommand
        \/ QPiConnectState \/ QPiFtpReply \/ (ControlCode /\ UNCHANGED ftp)
Events == Timer \/ (ControlEvents /\ UNCHANGED ftp)
World == Server /\ UNCHANGED <<dtp, pi, calls, lines, ftp>>

LibraryInit == NetInit /\ DtpInit /\ PiInit /\ FtpInit /\ calls = <<>>
Library == Code \/ Events \/ World
Returned(signals) == In("slot") /\ Arg.signal \in signals
=============================================================================
