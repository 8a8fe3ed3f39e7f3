------------------------------- MODULE Framing -------------------------------
(***************************************************************************)
(* One slot of stuffserver's client table and the connections that use it, *)
(* one after the other: read_client_data and preprocess_data of server.c,  *)
(* process_command and the handlers of cmd.c, as far as they decide how    *)
(* the bytes received become requests.                                     *)
(*                                                                         *)
(* One action is one pass through preprocess_data's while loop (pc =       *)
(* "scan"), or one return to select() (pc = "select").  A handler that     *)
(* never returns leaves pc = "spin"; a write outside a buffer, a use of    *)
(* freed memory or FD_SET(-1) leaves pc = "ub".                            *)
(*                                                                         *)
(* The variables carry the names of struct client's fields.  A buffer's    *)
(* contents and its length are one sequence where the code never lets them *)
(* differ: readed_data with readed_size, write_buffer with                 *)
(* write_buffer_size.                                                      *)
(***************************************************************************)
EXTENDS Protocol

CONSTANTS
  BUF,              \* cells in pending_data and in one read(): 2048 bytes
  Requests,         \* the whole requests a client may send
  MaxRequests,      \* bound: requests sent in a behaviour
  MaxConnections,   \* bound: connections accepted in a behaviour
  CutLines,         \* may a client vanish in the middle of a command line?
  TalkOverStream    \* may it send more after it asked for a streamed file?

ASSUME BufAssumption      == BUF \in Nat \ {0}
ASSUME RequestsAssumption == Requests \subseteq Seq(Cell) \ {<<>>}
ASSUME BoundsAssumption   == MaxRequests \in Nat /\ MaxConnections \in Nat
ASSUME FlagsAssumption    == CutLines \in BOOLEAN /\ TalkOverStream \in BOOLEAN

VARIABLES
  peer,               \* the other end: none, open, closing, reset
  wire,               \* sent and not yet read
  streaming,          \* the client has asked for a streamed file
  requests,           \* requests sent so far
  connections,        \* connections accepted so far
  pc,                 \* select, scan, spin, ub
  readed_data,        \* what read() returned, while it is being scanned
  read_pos,
  pending_data, pending_size, pending_pos,
  in_cmd, current_cmd,
  write_info_size,    \* write_info.size
  write_buffer,
  write_pointer,      \* where write_buffer points: null, live, freed
  upload_file_fd,     \* none (-1), open, closed (a number already closed)
  uploaded_size, uploaded_file_size,
  uploaded,           \* history: what went to upload_file_fd since its open()
  request,            \* history: the line whose payload in_cmd waits for
  log                 \* history: the requests carried out on this connection

clientVars  == <<peer, wire, streaming, requests, connections>>
scanVars    == <<pc, readed_data, read_pos>>
pendingVars == <<pending_data, pending_size, pending_pos>>
writeVars   == <<write_info_size, write_buffer, write_pointer>>
uploadVars  == <<upload_file_fd, uploaded_size, uploaded_file_size, uploaded>>
cmdVars     == <<in_cmd, current_cmd, request, log>>

vars == <<clientVars, scanVars, pendingVars, writeVars, uploadVars, cmdVars>>

\* The client table is static, so every field starts as zero.
Init ==
  /\ peer = "none" /\ wire = <<>> /\ streaming = FALSE
  /\ requests = 0 /\ connections = 0
  /\ pc = "select" /\ readed_data = <<>> /\ read_pos = 0
  /\ pending_data = [i \in 1..BUF |-> NUL] /\ pending_size = 0 /\ pending_pos = 0
  /\ in_cmd = FALSE /\ current_cmd = "CMD" /\ request = <<>> /\ log = <<>>
  /\ write_info_size = 0 /\ write_buffer = <<>> /\ write_pointer = "null"
  /\ upload_file_fd = "none" /\ uploaded_size = 0 /\ uploaded_file_size = 0
  /\ uploaded = <<>>

-----------------------------------------------------------------------------
(* The client and the network.                                             *)

MaySend == peer = "open" /\ requests < MaxRequests /\ (~streaming \/ TalkOverStream)

Send(r) ==
  /\ MaySend
  /\ wire' = wire \o r
  /\ requests' = requests + 1
  /\ streaming' = (streaming \/ Verb(r) = "STREAM_FILE")
  /\ UNCHANGED <<peer, connections, scanVars, pendingVars, writeVars, uploadVars, cmdVars>>

\* The client closes with only the first k cells of r sent.
SendPart(r, k) ==
  /\ MaySend
  /\ CutLines \/ \E i \in 1..k : r[i] = NL
  /\ wire' = wire \o SubSeq(r, 1, k)
  /\ requests' = requests + 1
  /\ peer' = "closing"
  /\ UNCHANGED <<streaming, connections, scanVars, pendingVars, writeVars, uploadVars, cmdVars>>

Close ==
  /\ peer = "open"
  /\ peer' = "closing"
  /\ UNCHANGED <<wire, streaming, requests, connections,
                 scanVars, pendingVars, writeVars, uploadVars, cmdVars>>

\* The connection is reset and what was not yet read is gone.
Abort ==
  /\ CutLines
  /\ peer \in {"open", "closing"}
  /\ peer' = "reset" /\ wire' = <<>>
  /\ UNCHANGED <<streaming, requests, connections,
                 scanVars, pendingVars, writeVars, uploadVars, cmdVars>>

-----------------------------------------------------------------------------
(* start_server: accept, read, disconnect.                                 *)

\* add_to_clients: what it resets, and pending_pos, current_cmd and
\* write_info, which it does not.
Accept ==
  /\ peer = "none" /\ pc = "select" /\ connections < MaxConnections
  /\ peer' = "open" /\ streaming' = FALSE /\ connections' = connections + 1
  /\ pending_data' = [pending_data EXCEPT ![1] = NUL]
  /\ pending_size' = 0
  /\ in_cmd' = FALSE
  /\ write_buffer' = <<>> /\ write_pointer' = "null"
  /\ upload_file_fd' = "none" /\ uploaded_size' = 0 /\ uploaded_file_size' = 0
  /\ uploaded' = <<>> /\ request' = <<>> /\ log' = <<>>
  /\ UNCHANGED <<wire, requests, scanVars, pending_pos, current_cmd, write_info_size>>

\* read_client_data, up to the call of preprocess_data.
Read(k) ==
  /\ pc = "select" /\ k <= Len(wire)
  /\ readed_data' = SubSeq(wire, 1, k)
  /\ wire' = SubSeq(wire, k + 1, Len(wire))
  /\ read_pos' = 0
  /\ pc' = "scan"
  /\ UNCHANGED <<peer, streaming, requests, connections,
                 pendingVars, writeVars, uploadVars, cmdVars>>

\* read() returns 0 or fails: remove_client, which resets socket_fd only.
\* The log is the connection's and goes with it.
Disconnect ==
  /\ pc = "select" /\ peer \in {"closing", "reset"} /\ wire = <<>>
  /\ peer' = "none"
  /\ log' = <<>>
  /\ UNCHANGED <<wire, streaming, requests, connections, scanVars, pendingVars,
                 writeVars, uploadVars, in_cmd, current_cmd, request>>

-----------------------------------------------------------------------------
(* preprocess_data: one iteration of its loop.                             *)

\* Mutant: the piece is copied to the start of the buffer, not after what
\* earlier reads left there.
CopiedToStart(buffer, at, bytes) ==
  [i \in 1..BUF |-> IF i <= Len(bytes) THEN bytes[i] ELSE buffer[i]]

\* memcpy(buffer + at, bytes, |bytes|)
Copied(buffer, at, bytes) ==
  [i \in 1..BUF |-> IF at < i /\ i <= at + Len(bytes) THEN bytes[i - at] ELSE buffer[i]]

\* Mutant: an off-by-one in the loop's condition.
LoopPast(pos) ==
  IF pos <= Len(readed_data)
    THEN /\ pc' = "scan" /\ read_pos' = pos
         /\ UNCHANGED readed_data
    ELSE /\ pc' = "select" /\ read_pos' = 0
         /\ readed_data' = <<>>

\* The loop's condition, with pos the new read_pos; readed_data is dead once
\* preprocess_data returns.
LoopFrom(pos) ==
  IF pos = 0 \/ pos < Len(readed_data)
    THEN /\ pc' = "scan" /\ read_pos' = pos
         /\ UNCHANGED readed_data
    ELSE /\ pc' = "select" /\ read_pos' = 0
         /\ readed_data' = <<>>

Fault == pc' = "ub" /\ UNCHANGED <<readed_data, read_pos>>

Carried(line, data, reply) ==
  log' = Append(log, [line |-> line, data |-> data, reply |-> reply])

\* No newline left: what is there waits in pending_data for the next read.
PartialLine ==
  LET rest == SubSeq(readed_data, read_pos + 1, Len(readed_data)) IN
  /\ pc = "scan" /\ ~in_cmd
  /\ \A i \in 1..Len(rest) : rest[i] # NL
  /\ IF pending_pos + Len(rest) > BUF
       THEN Fault /\ UNCHANGED pendingVars
       ELSE /\ pending_data' = Copied(pending_data, pending_pos, rest)
            /\ pending_pos' = pending_pos + Len(rest)
            /\ pending_size' = pending_size + Len(rest)
            /\ pc' = "select" /\ read_pos' = 0 /\ readed_data' = <<>>
  /\ UNCHANGED <<clientVars, writeVars, uploadVars, cmdVars>>

-----------------------------------------------------------------------------
(* process_command on a command line: one action per handler, for the line *)
(* whose newline is cell e of readed_data and which the handlers, reading  *)
(* a C string, see end at the NUL in cell z of pending_data.               *)

LineEnds(e) ==
  /\ pc = "scan" /\ ~in_cmd
  /\ e \in (read_pos + 1)..Len(readed_data)
  /\ readed_data[e] = NL
  /\ \A i \in (read_pos + 1)..(e - 1) : readed_data[i] # NL

Fits(e) == pending_pos + (e - read_pos) <= BUF

Block(e) ==
  [Copied(pending_data, pending_pos, SubSeq(readed_data, read_pos + 1, e))
     EXCEPT ![pending_size + (e - read_pos)] = NUL]

Line(e, z) == SubSeq(Block(e), 1, z - 1)

\* Mutant: pending_pos is not reset after the line.
DispatchKeepsPos(verb, e, z) ==
  /\ LineEnds(e) /\ Fits(e)
  /\ FirstAt(Block(e), NUL, z)
  /\ verb = Verb(Line(e, z))
  /\ current_cmd' = verb
  /\ request' = Line(e, z)
  /\ pending_data' = Block(e) /\ pending_size' = 0
  /\ UNCHANGED <<clientVars, pending_pos>>

\* The command whose handler runs, and what preprocess_data does around it.
Dispatch(verb, e, z) ==
  /\ LineEnds(e) /\ Fits(e)
  /\ FirstAt(Block(e), NUL, z)
  /\ verb = Verb(Line(e, z))
  /\ current_cmd' = verb
  /\ request' = Line(e, z)
  /\ pending_data' = Block(e) /\ pending_size' = 0 /\ pending_pos' = 0
  /\ UNCHANGED clientVars

\* Mutant: the handler leaves in_cmd set.
AnswerInCmd(e, z) ==
  /\ \E r \in Replies(Line(e, z)) : Carried(Line(e, z), <<>>, r)
  /\ in_cmd' = TRUE
  /\ LoopFrom(e)
  /\ UNCHANGED <<writeVars, uploadVars>>

\* The handlers that have answered when they return.
Answer(e, z) ==
  /\ \E r \in Replies(Line(e, z)) : Carried(Line(e, z), <<>>, r)
  /\ in_cmd' = FALSE
  /\ LoopFrom(e)
  /\ UNCHANGED <<writeVars, uploadVars>>

ExecCommand(e, z)     == Dispatch("CMD", e, z)          /\ Answer(e, z)
ReadMemory(e, z)      == Dispatch("READ_MEM", e, z)     /\ Answer(e, z)
DetachedCommand(e, z) == Dispatch("CMD_DETACHED", e, z) /\ Answer(e, z)

\* A file that read() fails on keeps the handler in its loop: the loop only
\* ends on 0.
GetFile(e, z) ==
  /\ Dispatch("GET_FILE", e, z)
  /\ \/ Object(Line(e, z)) # "dir" /\ Answer(e, z)
     \/ /\ Object(Line(e, z)) = "dir"
        /\ pc' = "spin" /\ in_cmd' = TRUE
        /\ UNCHANGED <<readed_data, read_pos, writeVars, uploadVars, log>>

\* Mutant: what sscanf returns is not looked at.
WriteMemoryUnchecked(e, z) ==
  /\ Dispatch("WRITE_MEM", e, z)
  /\ in_cmd' = TRUE
  /\ write_info_size' = Size(Line(e, z))
  /\ write_buffer' = <<>> /\ write_pointer' = "live"
  /\ LoopFrom(e)
  /\ UNCHANGED <<uploadVars, log>>

WriteMemory(e, z) ==
  /\ Dispatch("WRITE_MEM", e, z)
  /\ \/ Size(Line(e, z)) = NoSize /\ Answer(e, z)
     \/ /\ Size(Line(e, z)) # NoSize
        /\ in_cmd' = TRUE
        /\ write_info_size' = Size(Line(e, z))
        /\ write_buffer' = <<>> /\ write_pointer' = "live"
        /\ LoopFrom(e)
        /\ UNCHANGED <<uploadVars, log>>

\* open() fails with -1, which the handler takes for a descriptor.
StreamFile(e, z) ==
  /\ Dispatch("STREAM_FILE", e, z)
  /\ in_cmd' = TRUE
  /\ \/ Object(Line(e, z)) = "nowhere" /\ Fault /\ UNCHANGED log
     \/ /\ Object(Line(e, z)) # "nowhere"
        /\ LoopFrom(e)
        /\ \E r \in Replies(Line(e, z)) : Carried(Line(e, z), <<>>, r)
  /\ UNCHANGED <<writeVars, uploadVars>>

\* Mutant: what an earlier upload counted is not reset.
OpenUploadKeepsCount(line) ==
  /\ upload_file_fd' = "open" /\ uploaded' = <<>>
  /\ uploaded_file_size' = Size(line)
  /\ UNCHANGED uploaded_size

OpenUpload(line) ==
  /\ upload_file_fd' = "open" /\ uploaded' = <<>>
  /\ uploaded_file_size' = Size(line) /\ uploaded_size' = 0

\* Mutant: the line's error is printed and the file opened all the same.
PutFileUnchecked(e, z) ==
  /\ Dispatch("PUT_FILE", e, z)
  /\ in_cmd' = TRUE
  /\ upload_file_fd' = IF Object(Line(e, z)) = "path" THEN "open" ELSE "none"
  /\ uploaded' = <<>>
  /\ LoopFrom(e)
  /\ UNCHANGED <<writeVars, uploaded_size, uploaded_file_size, log>>

\* in_cmd stays TRUE on both of the handler's error returns.
PutFile(e, z) ==
  /\ Dispatch("PUT_FILE", e, z)
  /\ in_cmd' = TRUE
  /\ \/ Size(Line(e, z)) = NoSize /\ UNCHANGED uploadVars
     \/ /\ Size(Line(e, z)) # NoSize /\ Object(Line(e, z)) # "path"
        /\ upload_file_fd' = "none" /\ uploaded' = <<>>
        /\ UNCHANGED <<uploaded_size, uploaded_file_size>>
     \/ /\ Size(Line(e, z)) # NoSize /\ Object(Line(e, z)) = "path"
        /\ OpenUpload(Line(e, z))
  /\ LoopFrom(e)
  /\ UNCHANGED <<writeVars, log>>

\* No handler knows the line: in_cmd stays TRUE, current_cmd what it was.
UnknownLine(e, z) ==
  /\ LineEnds(e) /\ Fits(e)
  /\ FirstAt(Block(e), NUL, z)
  /\ Verb(Line(e, z)) \notin Verbs
  /\ request' = Line(e, z)
  /\ pending_data' = Block(e) /\ pending_size' = 0 /\ pending_pos' = 0
  /\ in_cmd' = TRUE
  /\ LoopFrom(e)
  /\ UNCHANGED <<clientVars, writeVars, uploadVars, current_cmd, log>>

LineTooLong(e) ==
  /\ LineEnds(e) /\ ~Fits(e)
  /\ Fault
  /\ UNCHANGED <<clientVars, pendingVars, writeVars, uploadVars, cmdVars>>

-----------------------------------------------------------------------------
(* preprocess_data while in_cmd: the next bytes are payload.               *)

\* Mutant: what is already gathered is not subtracted.
ToCompleteWhole ==
  CASE current_cmd = "WRITE_MEM" -> write_info_size
    [] current_cmd = "PUT_FILE"  -> uploaded_file_size
    [] OTHER                     -> 0

ToComplete ==
  CASE current_cmd = "WRITE_MEM" -> write_info_size - Len(write_buffer)
    [] current_cmd = "PUT_FILE"  -> uploaded_file_size - uploaded_size
    [] OTHER                     -> 0

Available == Len(readed_data) - read_pos

Taken == IF ToComplete <= Available THEN ToComplete ELSE Available

Chunk == SubSeq(readed_data, read_pos + 1, read_pos + Taken)

Feed(command) ==
  /\ pc = "scan" /\ in_cmd
  /\ current_cmd = command
  /\ pending_data' = Copied(pending_data, 0, Chunk)
  /\ pending_size' = 0 /\ pending_pos' = 0
  /\ UNCHANGED <<clientVars, current_cmd, request>>

FeedWrite ==
  /\ Feed("WRITE_MEM")
  /\ UNCHANGED <<uploadVars, write_info_size>>
  /\ \/ /\ write_pointer = "freed" \/ (write_pointer = "null" /\ Taken > 0)
        /\ Fault
        /\ UNCHANGED <<write_buffer, write_pointer, in_cmd, log>>
     \/ /\ write_pointer = "live" \/ (write_pointer = "null" /\ Taken = 0)
        /\ LoopFrom(read_pos + Taken)
        /\ \/ /\ Taken < ToComplete
              /\ write_buffer' = write_buffer \o Chunk
              /\ UNCHANGED <<write_pointer, in_cmd, log>>
           \/ /\ Taken = ToComplete
              /\ \E r \in Replies(request) : Carried(request, write_buffer \o Chunk, r)
              /\ in_cmd' = FALSE
              /\ write_buffer' = <<>> /\ write_pointer' = "freed"

FeedPut ==
  /\ Feed("PUT_FILE")
  /\ LoopFrom(read_pos + Taken)
  /\ uploaded_size' = uploaded_size + Taken
  /\ uploaded' = IF upload_file_fd = "open" THEN uploaded \o Chunk ELSE uploaded
  /\ \/ /\ Taken < ToComplete
        /\ UNCHANGED <<upload_file_fd, in_cmd, log>>
     \/ /\ Taken = ToComplete
        /\ in_cmd' = FALSE
        /\ \/ /\ upload_file_fd = "open"
              /\ upload_file_fd' = "closed"
              /\ Carried(request, uploaded', "none")
           \/ /\ upload_file_fd # "open"
              /\ UNCHANGED <<upload_file_fd, log>>
  /\ UNCHANGED <<writeVars, uploaded_file_size>>

\* in_cmd with a command that takes no payload: nothing is consumed.
FeedNobody ==
  /\ \E c \in Verbs \ {"WRITE_MEM", "PUT_FILE"} : Feed(c)
  /\ LoopFrom(read_pos)
  /\ UNCHANGED <<writeVars, uploadVars, in_cmd, log>>

-----------------------------------------------------------------------------
Client ==
  \/ \E r \in Requests : Send(r) \/ \E k \in 1..(Len(r) - 1) : SendPart(r, k)
  \/ Close
  \/ Abort

ProcessLine ==
  \E e \in 1..Len(readed_data) :
    \/ LineTooLong(e)
    \/ \E z \in 1..BUF :
         \/ ExecCommand(e, z) \/ ReadMemory(e, z) \/ WriteMemory(e, z)
         \/ StreamFile(e, z)  \/ GetFile(e, z)    \/ PutFile(e, z)
         \/ DetachedCommand(e, z) \/ UnknownLine(e, z)

Feeding == FeedWrite \/ FeedPut \/ FeedNobody

Preprocess == ProcessLine \/ Feeding \/ PartialLine

ReadSome == \E k \in 1..BUF : Read(k)

Server == Accept \/ ReadSome \/ Disconnect \/ Preprocess

Next == Client \/ Server

\* The server is one thread that runs until select() has nothing for it;
\* the client and the network owe nothing.
Spec == Init /\ [][Next]_vars /\ WF_vars(ReadSome \/ Disconnect) /\ WF_vars(Preprocess)

-----------------------------------------------------------------------------
(* Properties.                                                             *)

Entry == [line : Seq(Cell), data : Seq(Cell), reply : ReplyKinds]

TypeOK ==
  /\ peer \in {"none", "open", "closing", "reset"}
  /\ wire \in Seq(Cell) /\ readed_data \in Seq(Cell)
  /\ streaming \in BOOLEAN /\ requests \in Nat /\ connections \in Nat
  /\ pc \in {"select", "scan", "spin", "ub"}
  /\ read_pos \in Nat /\ read_pos <= Len(readed_data)
  /\ pending_data \in [1..BUF -> Cell]
  /\ pending_pos \in Nat /\ pending_size \in Nat
  /\ in_cmd \in BOOLEAN /\ current_cmd \in Verbs
  /\ request \in Seq(Cell)
  /\ write_info_size \in Nat /\ write_buffer \in Seq(Cell)
  /\ write_pointer \in {"null", "live", "freed"}
  /\ upload_file_fd \in {"none", "open", "closed"}
  /\ uploaded_size \in Nat /\ uploaded_file_size \in Nat
  /\ uploaded \in Seq(Cell)
  /\ log \in Seq(Entry)

\* However the payload is cut into reads, the bytes gathered never pass the
\* memory malloc'ed for them nor the file size announced: to_complete_size,
\* an unsigned difference, never wraps.
NoOverflow ==
  /\ Len(write_buffer) <= write_info_size
  /\ uploaded_size <= uploaded_file_size
  /\ pending_size <= pending_pos
  /\ pending_pos <= BUF

\* What a request carried out received as payload is exactly as long as the
\* line announced: no memory is written, and no upload is closed, short or
\* long, whatever the client sends and wherever the reads cut it.
ExactPayload ==
  \A i \in 1..Len(log) :
    Announces(log[i].line) => Len(log[i].data) = Size(log[i].line)

\* What is being gathered is gathered for the line in request: live memory
\* means a WRITE_MEM in progress, an open file a PUT_FILE in progress, and a
\* WRITE_MEM that goes on without live memory is none that a line asked for.
Gathering ==
  /\ write_pointer = "live" =>
       /\ in_cmd /\ current_cmd = "WRITE_MEM"
       /\ Verb(request) = "WRITE_MEM" /\ write_info_size = Size(request)
  /\ (in_cmd /\ current_cmd = "WRITE_MEM" /\ write_pointer # "live") => ~Announces(request)
  /\ upload_file_fd = "open" =>
       /\ in_cmd /\ current_cmd = "PUT_FILE"
       /\ Verb(request) = "PUT_FILE" /\ uploaded_file_size = Size(request)
       /\ Len(uploaded) = uploaded_size

\* The parser never leaves its buffers, uses freed memory or puts -1 in the
\* descriptor set.
NoFault == pc # "ub"

\* preprocess_data comes back to select() whatever was read: the one thread
\* of the server is free for the other clients.
Responsive == (pc = "scan") ~> (pc = "select")

\* A request that the server's author had in mind: a line that fits in
\* pending_data and whose handler returns having done what it says, followed
\* by what it announces, and that is something.
PoliteLine(line) ==
  /\ \A i \in 1..Len(line) : line[i] # NUL
  /\ Verb(line) \in Verbs
  /\ Announces(line) => Size(line) > 0
  /\ Verb(line) = "PUT_FILE" => Announces(line) /\ Object(line) = "path"
  /\ Verb(line) = "GET_FILE" => Object(line) # "dir"
  /\ Verb(line) = "STREAM_FILE" => Object(line) # "nowhere"

Polite(r) ==
  \E e \in 1..Len(r) :
    LET line == SubSeq(r, 1, e - 1) IN
    /\ FirstAt(r, NL, e) /\ e <= BUF /\ PoliteLine(line)
    /\ Len(r) = e + (IF Announces(line) THEN Size(line) ELSE 0)

\* The slot of the client table implements the abstract command stream.
Unparsed ==
  CASE pc = "ub"                                   -> <<>>
    [] in_cmd /\ current_cmd = "WRITE_MEM"         -> write_buffer
    [] in_cmd /\ current_cmd = "PUT_FILE"          -> uploaded
    [] OTHER -> SubSeq(pending_data, 1, pending_pos)

Untaken ==
  IF peer = "none" THEN <<>>
  ELSE Unparsed \o SubSeq(readed_data, read_pos + 1, Len(readed_data)) \o wire

AwaitedFor ==
  IF peer # "none" /\ in_cmd /\ current_cmd \in {"WRITE_MEM", "PUT_FILE"}
    THEN request ELSE <<>>

Stream == INSTANCE CommandStream WITH
  Messages <- UNION { { SubSeq(r, 1, k) : k \in 1..Len(r) } : r \in Requests },
  stream   <- Untaken,
  awaiting <- AwaitedFor

\* Reads of any size, pieces of lines kept across reads and payloads
\* gathered across reads add up to the requests the client sent.
Promise == Stream!Spec

\* A complete request that has arrived is carried out.
EveryRequestServed == Stream!Ready ~> ~Stream!Ready
=============================================================================
