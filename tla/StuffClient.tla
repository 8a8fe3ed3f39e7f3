---------------------------- MODULE StuffClient ----------------------------
(***************************************************************************)
(* StuffClient, the Qt class that talks to stuffserver, and a user that    *)
(* makes one request at a time and the next when it was answered.          *)
(*                                                                         *)
(* The class has no framing but the markers at the end of a command's      *)
(* answer and the size before a file.  What arrives is a sequence of       *)
(* cells: two NULs, the text ERROR, a half of the ten bytes of a size, or  *)
(* bytes of an output, a file or a device.  A read may end after any cell. *)
(***************************************************************************)
EXTENDS Integers, SequencesExt

CONSTANTS
  Bytes,      \* bytes that are no part of a marker or a size
  Outputs,    \* what the programs that are run may write
  Files,      \* the files and the data of devices there are
  MaxCalls,   \* bound: requests
  MaxDrops    \* bound: connections that are lost

NULs  == "nuls"
Error == "ERROR"
End   == <<NULs, NULs>>           \* the markers of cmd.c
Fail  == <<NULs, Error, NULs>>
Size  == <<"size", "size'">>      \* st_size, which && makes ten bytes of 0 or 1

Cells == Bytes \cup {NULs, Error, "size", "size'"}

EndsWith(cells, marker) == IsSuffix(marker, cells)

\* An output in which the start of an answer does not look like all of it:
\* the class does not escape the markers.
Text(output) ==
  LET answer == output \o End
  IN  \A n \in 0..(Len(answer) - 1) : /\ ~EndsWith(SubSeq(answer, 1, n), End)
                                      /\ ~EndsWith(SubSeq(answer, 1, n), Fail)

ASSUME OutputsAssumption == \A output \in Outputs : output \in Seq(Cells) /\ Text(output)
ASSUME FilesAssumption == Files \subseteq Seq(Cells)
ASSUME ClientBounds == MaxCalls \in Nat /\ MaxDrops \in Nat

VARIABLES
  state,           \* ClientState; the first one is not initialised
  commandDatas, fileSizeGot, fileSizeData,
  socket,          \* QTcpSocket: unconnected, connecting, connected
  connections,     \* are the signals of the socket connected to the class?
  typed,           \* the line under way to the console, or none
  wire,            \* cells under way to the class
  request,         \* what the user waits for, or none
  arrived, given,  \* what arrived for it, and what newFileData gave of it
  told,            \* the last commandFinished, with the command it answered
  calls, drops     \* requests made, connections lost

fields == <<state, commandDatas, fileSizeGot, fileSizeData>>
bounds == <<calls, drops>>
vars == <<fields, socket, connections, typed, wire, request, arrived, given, told, bounds>>

NoRequest == [verb |-> "none", content |-> <<>>, fails |-> FALSE]
Requests == [verb : {"CMD"}, content : Outputs, fails : BOOLEAN]
       \cup [verb : {"GET_FILE", "STREAM_FILE"}, content : Files, fails : {FALSE}]
       \cup {[verb |-> v, content |-> <<>>, fails |-> FALSE] : v \in {"PUT_FILE", "CMD_DETACHED"}}

\* fileSizeGot is not initialised either.
Init ==
  /\ state \in {"NONE", "DoingCommand", "StreamingFile", "SendingFile", "GettingFile"}
  /\ commandDatas = <<>> /\ fileSizeGot \in BOOLEAN /\ fileSizeData = <<>>
  /\ socket = "unconnected" /\ connections = TRUE
  /\ typed = NoRequest /\ wire = <<>>
  /\ request = NoRequest /\ arrived = <<>> /\ given = <<>>
  /\ told = [success |-> TRUE, datas |-> <<>>, of |-> NoRequest]
  /\ calls = 0 /\ drops = 0
-----------------------------------------------------------------------------
(* The calls.                                                              *)

\* connect() of a socket that is connected does nothing but warn.
Connect ==
  /\ socket = "unconnected" /\ socket' = "connecting"
  /\ UNCHANGED <<fields, connections, typed, wire, request, arrived, given, told, bounds>>

WriteSocket(line) == typed' = line

\* Requests, each with the state it sets.
Answered == {"CMD", "GET_FILE", "STREAM_FILE"}
\* Bug: what the last command left is kept.
ExecuteCommandKeeps(r) == r.verb = "CMD" /\ state' = "DoingCommand" /\ UNCHANGED commandDatas
ExecuteCommand(r) == r.verb = "CMD" /\ state' = "DoingCommand" /\ commandDatas' = <<>>
StreamFile(r)     == r.verb = "STREAM_FILE" /\ state' = "StreamingFile" /\ UNCHANGED commandDatas
GetFile(r)        == r.verb = "GET_FILE" /\ state' = "GettingFile" /\ UNCHANGED commandDatas
SendFile(r)       == r.verb = "PUT_FILE" /\ UNCHANGED <<state, commandDatas>>
DetachedCommand(r) == r.verb = "CMD_DETACHED" /\ UNCHANGED <<state, commandDatas>>

\* A user waits for the answer to its last request, asks isConnected(), and
\* does not use the object after close().
Ask(r) ==
  /\ request = NoRequest /\ typed = NoRequest /\ wire = <<>>
  /\ socket = "connected" /\ connections
  /\ calls < MaxCalls /\ calls' = calls + 1
  /\ ExecuteCommand(r) \/ StreamFile(r) \/ GetFile(r) \/ SendFile(r) \/ DetachedCommand(r)
  /\ WriteSocket(r)
  /\ request' = IF r.verb \in Answered THEN r ELSE NoRequest
  /\ arrived' = <<>> /\ given' = <<>>
  /\ UNCHANGED <<fileSizeGot, fileSizeData, socket, connections, wire, told, drops>>

\* A file has no end that can be seen: the user knows its size.
FileEnds ==
  /\ request.verb = "GET_FILE" /\ typed = NoRequest /\ wire = <<>>
  /\ request' = NoRequest
  /\ UNCHANGED <<fields, socket, connections, typed, wire, arrived, given, told, bounds>>

\* close() calls QObject::disconnect: the socket stays connected, and what it
\* receives is no longer heard of.
Close ==
  /\ request = NoRequest /\ connections
  /\ connections' = FALSE
  /\ UNCHANGED <<fields, socket, typed, wire, request, arrived, given, told, bounds>>
-----------------------------------------------------------------------------
(* onReadyRead.                                                            *)

StreamedData(data) ==
  /\ state = "StreamingFile"
  /\ given' = given \o data
  /\ UNCHANGED <<fields, request, told>>

Finished(success, datas) ==
  /\ commandDatas' = datas
  /\ told' = [success |-> success, datas |-> datas, of |-> request]
  /\ request' = NoRequest

\* Bug: only the end of what was just read is looked at.
CommandDataOfRead(data) ==
  /\ state = "DoingCommand"
  /\ \/ /\ EndsWith(data, End)
        /\ Finished(TRUE, SubSeq(commandDatas \o data, 1, Len(commandDatas \o data) - Len(End)))
     \/ /\ ~EndsWith(data, End) /\ EndsWith(data, Fail)
        /\ Finished(FALSE, <<>>)
     \/ /\ ~EndsWith(data, End) /\ ~EndsWith(data, Fail)
        /\ commandDatas' = commandDatas \o data /\ UNCHANGED <<request, told>>
  /\ UNCHANGED <<state, fileSizeGot, fileSizeData, given>>

CommandData(data) ==
  /\ state = "DoingCommand"
  /\ LET datas == commandDatas \o data IN
     \/ /\ EndsWith(datas, End)
        /\ Finished(TRUE, SubSeq(datas, 1, Len(datas) - Len(End)))
     \/ /\ ~EndsWith(datas, End) /\ EndsWith(datas, Fail)
        /\ Finished(FALSE, <<>>)
     \/ /\ ~EndsWith(datas, End) /\ ~EndsWith(datas, Fail)
        /\ commandDatas' = datas /\ UNCHANGED <<request, told>>
  /\ UNCHANGED <<state, fileSizeGot, fileSizeData, given>>

\* Bug: that the size was got is not remembered.
FileDataForgetful(data) ==
  /\ state = "GettingFile"
  /\ fileSizeData' = fileSizeData \o data
  /\ given' = IF Len(fileSizeData') > Len(Size)
              THEN given \o SubSeq(fileSizeData', Len(fileSizeData') - 1, Len(fileSizeData'))
              ELSE given
  /\ UNCHANGED <<state, commandDatas, fileSizeGot, request, told>>

\* What is given of the read that completes the size is its last ten bytes,
\* not what follows the first ten.
LastTen(cells) == SubSeq(cells, Len(cells) - 1, Len(cells))
FileData(data) ==
  /\ state = "GettingFile"
  /\ \/ /\ fileSizeGot
        /\ given' = given \o data /\ UNCHANGED <<fileSizeGot, fileSizeData>>
     \/ /\ ~fileSizeGot
        /\ fileSizeData' = fileSizeData \o data
        /\ fileSizeGot' = (Len(fileSizeData') >= Len(Size))
        /\ given' = IF Len(fileSizeData') > Len(Size) THEN given \o LastTen(fileSizeData') ELSE given
  /\ UNCHANGED <<state, commandDatas, request, told>>

OnReadyRead ==
  /\ connections /\ socket = "connected"
  /\ \E n \in 1..Len(wire) :
       LET data == SubSeq(wire, 1, n) IN
       /\ wire' = SubSeq(wire, n + 1, Len(wire))
       /\ arrived' = arrived \o data
       /\ StreamedData(data) \/ CommandData(data) \/ FileData(data)
  /\ UNCHANGED <<socket, connections, typed, bounds>>
-----------------------------------------------------------------------------
(* The network and the console.                                            *)

Connected ==
  /\ socket = "connecting" /\ socket' = "connected"
  /\ UNCHANGED <<fields, connections, typed, wire, request, arrived, given, told, bounds>>

\* What was under way is lost, and the user waits no longer.
Lost ==
  /\ socket # "unconnected" /\ drops < MaxDrops /\ drops' = drops + 1
  /\ socket' = "unconnected" /\ typed' = NoRequest /\ wire' = <<>> /\ request' = NoRequest
  /\ UNCHANGED <<fields, connections, arrived, given, told, calls>>

\* The answers of cmd.c.
Answer(r) ==
  CASE r.verb = "CMD" /\ r.fails  -> Fail
    [] r.verb = "CMD" /\ ~r.fails -> r.content \o End
    [] r.verb = "GET_FILE"        -> Size \o r.content
    [] r.verb = "STREAM_FILE"     -> r.content
    [] OTHER                      -> <<>>
Serve ==
  /\ typed # NoRequest /\ socket = "connected"
  /\ wire' = wire \o Answer(typed) /\ typed' = NoRequest
  /\ UNCHANGED <<fields, socket, connections, request, arrived, given, told, bounds>>

Next == \/ Connect \/ (\E r \in Requests : Ask(r)) \/ FileEnds \/ Close
        \/ OnReadyRead \/ Connected \/ Lost \/ Serve
Spec == Init /\ [][Next]_vars /\ WF_vars(OnReadyRead) /\ WF_vars(Serve)
-----------------------------------------------------------------------------
\* A command that finished with success has its whole output as commandDatas(),
\* and nothing of another request or of the marker, however the answer was cut
\* and whatever was lost before; it fails only if the console said so.
OwnOutput == /\ told.of.verb \in {"CMD", "none"}
             /\ told.success = ~told.of.fails
             /\ told.success => told.datas = told.of.content

\* From the first newFileData of a file on nothing is lost, given twice or out
\* of order: what was given is an end of what arrived, though the size may be
\* in it or the start of the file missing; of a device all of it is given.
GivesEnd == /\ request.verb = "GET_FILE" => IsSuffix(given, arrived)
            /\ request.verb = "STREAM_FILE" => given = arrived

\* A command finishes: the end of its answer is seen in whatever pieces it
\* comes.  The user is not deaf: it did not call close() while it waited.
CommandsEnd == request.verb = "CMD" ~> request = NoRequest

\* newFileData gives the file: getFile gets "10 bytes of size then the data".
FileWhole == request.verb = "GET_FILE" /\ typed = NoRequest /\ wire = <<>> =>
               given = request.content
=============================================================================
