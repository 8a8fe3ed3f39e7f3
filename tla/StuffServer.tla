----------------------------- MODULE StuffServer -----------------------------
(***************************************************************************)
(* start_server of server.c: one thread, one select() loop, a table of     *)
(* MAX_CLIENT slots and the process's file descriptors, which the kernel   *)
(* hands out lowest first and hands out again once they are closed.        *)
(*                                                                         *)
(* A pass takes a snapshot of the descriptors that are ready and handles   *)
(* them in increasing order; clients, the network and the streamed devices *)
(* go on between any two of them.  How bytes become requests is Framing's  *)
(* subject: here a request arrives whole, and is one of                    *)
(*   command   CMD: the server copies a program's output until it ends     *)
(*   get       GET_FILE: the same with a file                              *)
(*   stream    STREAM_FILE of a device                                     *)
(*   put       PUT_FILE that announces one more piece, payload             *)
(*   empty     PUT_FILE of an empty file                                   *)
(*   unknown   a line that is no command of the server's, an empty one say  *)
(* A payload is text and ends in a newline.                                *)
(* Nothing but select() waits for a client to send, but every write() waits *)
(* for its client to read what was written before, and no loop over a      *)
(* program's output, a file or a device is bounded: the one thread may stay *)
(* in any of them.                                                         *)
(* The process ends by exiting (start_server returns 1), by a null pointer *)
(* (crashed), by SIGPIPE (killed), or stays in preprocess_data for good    *)
(* (hung).                                                                 *)
(***************************************************************************)
EXTENDS Integers, Sequences

CONSTANTS
  Conns,          \* connections clients make
  Nobody,         \* no connection
  MaxClient,      \* slots of the client table: MAX_CLIENT, 5
  MaxFD,          \* the highest descriptor the process may have
  Requests,       \* what clients send first
  MaxRequests,    \* bound: requests sent in a behaviour
  MaxEvents,      \* bound: events unread on a streamed device
  Backlog,        \* bound: connections waiting for accept()
  CutUploads,     \* may a client close before the payload it announced?
  BadFiles,       \* may open(), stat() or read() of a file fail?
  Resets          \* may the network reset a connection?

\* stdin, stdout and stderr are /dev/null, so the listening socket is 3.
ServerSocket == 3

FD   == ServerSocket..MaxFD
Slot == 1..MaxClient

ASSUME NobodyAssumption == Nobody \notin Conns
ASSUME SlotsAssumption == MaxClient \in Nat \ {0}
ASSUME FDAssumption    == MaxFD \in Nat /\ MaxFD > ServerSocket
ASSUME ServerBounds    == MaxRequests \in Nat /\ MaxEvents \in Nat /\ Backlog \in Nat
ASSUME ServerRequests  == Requests \subseteq {"command", "get", "stream", "put", "empty", "unknown"}
ASSUME ServerFlags     == {CutUploads, BadFiles, Resets} \subseteq BOOLEAN

VARIABLES
  status,              \* up, exited, crashed, killed, hung
  scanning,            \* inside the for loop over the snapshot
  ready,               \* read_fd_set: what is left of the snapshot
  calling,             \* inside cmd_exec_command or cmd_get_file
  active_set,
  fds,                 \* the kernel's table: descriptor -> open file
  unread,              \* events a streamed device has for its descriptor
  socket_fd,           \* the slots' fields; 0 is none, upload_file_fd's -1 too
  file_to_stream,
  upload_file_fd,
  in_cmd, current_cmd,
  left,                \* pieces of payload to come: to_complete_size
  backlog,             \* connections made and not yet accepted
  conn,                \* new, made, closed, bounced, reset, refused, done
  inbox,               \* requests sent and not yet read
  sent,                \* requests sent so far
  full,                \* connections whose buffers take no more data
  got                  \* history: whose streamed data each connection got

kernelVars == <<fds, unread>>
slotVars   == <<socket_fd, file_to_stream, upload_file_fd, in_cmd, current_cmd, left>>
netVars    == <<backlog, conn, inbox, sent, full>>
loopVars   == <<scanning, ready, calling>>

vars == <<status, loopVars, active_set, kernelVars, slotVars, netVars, got>>

\* What a descriptor may be: one that a connection is behind is its socket,
\* the device it asked to stream, the file it uploads or a file it asked for.
\* A descriptor that a call opens and closes again, popen()'s pipe or the file
\* GET_FILE copies, is not in the table: nothing else is opened meanwhile.
Files == [kind : {"free", "listen", "socket", "device", "upload", "file"},
          of : Conns \cup {Nobody}]
File(k, c) == [kind |-> k, of |-> c]
Free   == File("free", Nobody)
Listen == File("listen", Nobody)

Init ==
  /\ status = "up" /\ scanning = FALSE /\ ready = {} /\ calling = FALSE
  /\ active_set = {ServerSocket}
  /\ fds = [f \in FD |-> IF f = ServerSocket THEN Listen ELSE Free]
  /\ unread = [f \in FD |-> 0]
  /\ socket_fd = [s \in Slot |-> 0] /\ file_to_stream = [s \in Slot |-> 0]
  /\ upload_file_fd = [s \in Slot |-> 0] /\ in_cmd = [s \in Slot |-> FALSE]
  /\ current_cmd = [s \in Slot |-> "command"] /\ left = [s \in Slot |-> 0]
  /\ backlog = <<>> /\ conn = [c \in Conns |-> "new"]
  /\ inbox = [c \in Conns |-> <<>>] /\ sent = 0 /\ full = {}
  /\ got = [c \in Conns |-> {}]

-----------------------------------------------------------------------------
(* Clients, the network and the devices.                                   *)

ServerUnchanged ==
  UNCHANGED <<status, loopVars, active_set, fds, slotVars, got>>

Connect(c) ==
  /\ conn[c] = "new" /\ Len(backlog) < Backlog
  /\ conn' = [conn EXCEPT ![c] = "made"]
  /\ backlog' = Append(backlog, c)
  /\ ServerUnchanged /\ UNCHANGED <<unread, inbox, sent, full>>

\* A request with its payload, which arrives in a read of its own.
Send(c, r) ==
  /\ conn[c] = "made" /\ sent < MaxRequests
  /\ inbox' = [inbox EXCEPT ![c] = @ \o (IF r = "put" THEN <<"put", "payload">> ELSE <<r>>)]
  /\ sent' = sent + 1
  /\ ServerUnchanged /\ UNCHANGED <<unread, backlog, conn, full>>

\* A client reads what the server wrote.  One that has gone reads nothing, and
\* then no write() waits for it.
Take(c) ==
  /\ c \in full
  /\ full' = full \ {c}
  /\ ServerUnchanged /\ UNCHANGED <<unread, backlog, conn, inbox, sent>>

\* A client that announces a payload and goes away instead of sending it.
SendCut(c) ==
  /\ CutUploads /\ "put" \in Requests
  /\ conn[c] = "made" /\ sent < MaxRequests
  /\ inbox' = [inbox EXCEPT ![c] = @ \o <<"put">>]
  /\ sent' = sent + 1
  /\ conn' = [conn EXCEPT ![c] = "closed"] /\ full' = full \ {c}
  /\ ServerUnchanged /\ UNCHANGED <<unread, backlog>>

Close(c) ==
  /\ conn[c] = "made"
  /\ conn' = [conn EXCEPT ![c] = "closed"] /\ full' = full \ {c}
  /\ ServerUnchanged /\ UNCHANGED <<unread, backlog, inbox, sent>>

\* The answer to something written to a closed connection, or to a client
\* that vanished: the connection is reset, with or without what is unread.
Reset(c) ==
  /\ Resets /\ conn[c] \in {"made", "bounced"}
  /\ conn' = [conn EXCEPT ![c] = "reset"] /\ full' = full \ {c}
  /\ \E rest \in {<<>>, inbox[c]} : inbox' = [inbox EXCEPT ![c] = rest]
  /\ ServerUnchanged /\ UNCHANGED <<unread, backlog, sent>>

DeviceEvent(f) ==
  /\ fds[f].kind = "device" /\ unread[f] < MaxEvents
  /\ unread' = [unread EXCEPT ![f] = @ + 1]
  /\ ServerUnchanged /\ UNCHANGED netVars

-----------------------------------------------------------------------------
(* The kernel, as the server's thread sees it.                             *)

NoneFree == \A f \in FD : fds[f] # Free

\* The descriptor that accept() or open() returns.
Lowest(f) == f \in FD /\ fds[f] = Free /\ \A g \in FD : fds[g] = Free => f <= g

Readable(f) ==
  CASE fds[f].kind = "listen" -> backlog # <<>>
    [] fds[f].kind = "socket" -> \/ inbox[fds[f].of] # <<>>
                                 \/ conn[fds[f].of] \in {"closed", "bounced", "reset"}
    [] fds[f].kind = "device" -> unread[f] > 0
    [] OTHER -> TRUE

\* open() of a file that a client names.
OpenFails == NoneFree \/ BadFiles

\* write() on c's socket waits until there is room for what is written, which
\* may then be taken.  The first one after c has closed is answered with a
\* reset, and after a reset one fails or raises SIGPIPE, which nothing handles.
Write(c) ==
  /\ c \notin full
  /\ full' \in IF conn[c] = "made" THEN {full, full \cup {c}} ELSE {full}
  /\ status' \in IF conn[c] = "reset" THEN {status, "killed"} ELSE {status}
  /\ conn' = [conn EXCEPT ![c] = IF @ = "closed" THEN "bounced" ELSE @]

-----------------------------------------------------------------------------
(* start_server's loops.                                                   *)

\* select() fails when the set names a descriptor that is not open.
BadSet == \E f \in active_set : fds[f] = Free

Select ==
  /\ status = "up" /\ ~scanning
  /\ ready' = IF BadSet THEN {} ELSE {f \in active_set : Readable(f)}
  /\ BadSet \/ ready' # {}
  /\ scanning' = ~BadSet
  /\ status' = IF BadSet THEN "exited" ELSE status
  /\ UNCHANGED <<calling, active_set, kernelVars, slotVars, netVars, got>>

\* The for loop has reached f.  The pass ends with the last of them.
Reached(f) == status = "up" /\ scanning /\ f \in ready /\ \A g \in ready : f <= g

Handled(f) == ready' = ready \ {f} /\ scanning' = (ready' # {}) /\ calling' = FALSE

FirstFree(s) == socket_fd[s] = 0 /\ \A t \in 1..(s - 1) : socket_fd[t] # 0

\* Mutant: the slot keeps the streamed file of the client before.
AddToClientsKeepsFile(s, f) ==
  /\ FirstFree(s)
  /\ active_set' = active_set \cup {f}
  /\ socket_fd' = [socket_fd EXCEPT ![s] = f]
  /\ upload_file_fd' = [upload_file_fd EXCEPT ![s] = 0]
  /\ in_cmd' = [in_cmd EXCEPT ![s] = FALSE]
  /\ left' = [left EXCEPT ![s] = 0]
  /\ UNCHANGED <<file_to_stream, current_cmd>>

\* Mutant: the new socket is not added to the set.
AddToClientsUnwatched(s, f) ==
  /\ FirstFree(s)
  /\ socket_fd' = [socket_fd EXCEPT ![s] = f]
  /\ file_to_stream' = [file_to_stream EXCEPT ![s] = 0]
  /\ upload_file_fd' = [upload_file_fd EXCEPT ![s] = 0]
  /\ in_cmd' = [in_cmd EXCEPT ![s] = FALSE]
  /\ left' = [left EXCEPT ![s] = 0]
  /\ UNCHANGED <<active_set, current_cmd>>

\* add_to_clients, into the first slot without a socket, and FD_SET.
AddToClients(s, f) ==
  /\ FirstFree(s)
  /\ active_set' = active_set \cup {f}
  /\ socket_fd' = [socket_fd EXCEPT ![s] = f]
  /\ file_to_stream' = [file_to_stream EXCEPT ![s] = 0]
  /\ upload_file_fd' = [upload_file_fd EXCEPT ![s] = 0]
  /\ in_cmd' = [in_cmd EXCEPT ![s] = FALSE]
  /\ left' = [left EXCEPT ![s] = 0]
  /\ UNCHANGED current_cmd

\* The table full, the connection is closed at once.
Refuse(c) ==
  /\ \A s \in Slot : socket_fd[s] # 0
  /\ conn' = [conn EXCEPT ![c] = "refused"]
  /\ UNCHANGED <<active_set, fds, slotVars>>

Accept ==
  /\ Reached(ServerSocket)
  /\ Handled(ServerSocket)
  /\ \/ /\ NoneFree                                       \* EMFILE
        /\ status' = "exited"
        /\ UNCHANGED <<active_set, fds, slotVars, backlog, conn>>
     \/ /\ ~NoneFree
        /\ backlog' = Tail(backlog)
        /\ \/ \E s \in Slot, f \in FD :
                /\ Lowest(f)
                /\ AddToClients(s, f)
                /\ fds' = [fds EXCEPT ![f] = File("socket", Head(backlog))]
                /\ UNCHANGED conn
           \/ Refuse(Head(backlog))
        /\ UNCHANGED status
  /\ UNCHANGED <<unread, inbox, sent, full, got>>

\* is_streaming_fd and get_client.
IsStreaming(s, f) ==
  /\ socket_fd[s] # 0 /\ file_to_stream[s] = f
  /\ \A t \in 1..(s - 1) : ~(socket_fd[t] # 0 /\ file_to_stream[t] = f)

IsClient(s, f) == socket_fd[s] = f /\ \A t \in 1..(s - 1) : socket_fd[t] # f

NobodyStreams(f) == \A s \in Slot : ~IsStreaming(s, f)

\* One read of a streamed file and the write of what it gave to its client.
StreamData(f) ==
  /\ Reached(f) /\ f # ServerSocket
  /\ unread[f] > 0
  /\ \E s \in Slot :
       LET c == fds[socket_fd[s]].of IN
       /\ IsStreaming(s, f)
       /\ Write(c)
       /\ got' = [got EXCEPT ![c] = @ \cup {fds[f].of}]
  /\ unread' = [unread EXCEPT ![f] = @ - 1]
  /\ UNCHANGED <<loopVars, active_set, fds, slotVars, backlog, inbox, sent>>

\* The loop ends with the read that finds nothing, and not before.
StreamEnds(f) ==
  /\ Reached(f) /\ f # ServerSocket
  /\ unread[f] = 0
  /\ \E s \in Slot : IsStreaming(s, f)
  /\ Handled(f)
  /\ UNCHANGED <<status, active_set, kernelVars, slotVars, netVars, got>>

\* Neither a client's nor a streamed file's: get_client returns NULL, and
\* whatever read() says, a field of that client is used.
NobodysData(f) ==
  /\ Reached(f) /\ f # ServerSocket
  /\ NobodyStreams(f)
  /\ \A s \in Slot : ~IsClient(s, f)
  /\ status' = "crashed"
  /\ UNCHANGED <<loopVars, active_set, kernelVars, slotVars, netVars, got>>

-----------------------------------------------------------------------------
(* read_client_data for the client of slot s.                              *)

AtClient(s, f) == Reached(f) /\ f # ServerSocket /\ NobodyStreams(f) /\ IsClient(s, f)

ReachedClient(s, f) == AtClient(s, f) /\ ~calling

Client(f) == fds[f].of

\* Mutant: the streamed file is closed and stays in the set.
ForgetWatched(s, f) ==
  LET gone == {f, file_to_stream[s]} IN
  /\ active_set' = active_set \ {f}
  /\ fds' = [g \in FD |-> IF g \in gone THEN Free ELSE fds[g]]
  /\ unread' = [g \in FD |-> IF g \in gone THEN 0 ELSE unread[g]]
  /\ socket_fd' = [socket_fd EXCEPT ![s] = 0]

\* Mutant: upload_file_fd is closed too, whether or not an upload goes on.
ForgetUpload(s, f) ==
  LET gone == {f, file_to_stream[s]} IN
  /\ active_set' = active_set \ gone
  /\ fds' = [g \in FD |-> IF g \in gone \cup {upload_file_fd[s]} THEN Free ELSE fds[g]]
  /\ unread' = [g \in FD |-> IF g \in gone THEN 0 ELSE unread[g]]
  /\ socket_fd' = [socket_fd EXCEPT ![s] = 0]

\* The end of a client's descriptors: FD_CLR and close(), for its streamed
\* file and its socket.
Forget(s, f) ==
  LET gone == {f, file_to_stream[s]} IN
  /\ active_set' = active_set \ gone
  /\ fds' = [g \in FD |-> IF g \in gone THEN Free ELSE fds[g]]
  /\ unread' = [g \in FD |-> IF g \in gone THEN 0 ELSE unread[g]]
  /\ socket_fd' = [socket_fd EXCEPT ![s] = 0]

\* read() returns 0 or -1.
Disconnect(s, f) ==
  /\ ReachedClient(s, f)
  /\ inbox[Client(f)] = <<>> /\ conn[Client(f)] \in {"closed", "bounced", "reset"}
  /\ Handled(f)
  /\ Forget(s, f)
  /\ conn' = [conn EXCEPT ![Client(f)] = "done"]
  /\ UNCHANGED <<status, file_to_stream, upload_file_fd, in_cmd, current_cmd, left,
                 backlog, inbox, sent, full, got>>

\* read() returns r, and preprocess_data parses it as a line.
Line(s, f, r) ==
  /\ ReachedClient(s, f)
  /\ inbox[Client(f)] # <<>> /\ Head(inbox[Client(f)]) = r
  /\ ~in_cmd[s]
  /\ inbox' = [inbox EXCEPT ![Client(f)] = Tail(@)]
  /\ UNCHANGED <<socket_fd, backlog, sent, got>>

\* cmd_exec_command up to its loop.  in_cmd is set for as long as the call
\* lasts, during which nobody looks at it.
Command(s, f) ==
  /\ Line(s, f, "command")
  /\ current_cmd' = [current_cmd EXCEPT ![s] = "command"]
  /\ calling' = TRUE
  /\ UNCHANGED <<status, scanning, ready, active_set, kernelVars, file_to_stream,
                 upload_file_fd, in_cmd, left, conn, full>>

\* cmd_get_file up to its loop.  Without a descriptor, or with a directory's,
\* read() returns -1, not 0, for ever.  When stat() fails the file stays open
\* if it was opened.
GetFile(s, f) ==
  /\ Line(s, f, "get")
  /\ current_cmd' = [current_cmd EXCEPT ![s] = "get"]
  /\ \/ /\ OpenFails
        /\ status' = "hung"
        /\ UNCHANGED <<scanning, ready, calling, fds, conn, full>>
     \/ /\ BadFiles
        /\ Handled(f)
        /\ Write(Client(f))
        /\ \/ UNCHANGED fds
           \/ \E g \in FD : Lowest(g) /\ fds' = [fds EXCEPT ![g] = File("file", Client(f))]
     \/ /\ ~NoneFree
        /\ calling' = TRUE
        /\ UNCHANGED <<status, scanning, ready, fds, conn, full>>
  /\ UNCHANGED <<active_set, unread, file_to_stream, upload_file_fd, in_cmd, left>>

Calling(s, f) == AtClient(s, f) /\ calling

\* fread() of the program's output, or read() of the file, gave something.
Output(s, f) ==
  /\ Calling(s, f)
  /\ Write(Client(f))
  /\ UNCHANGED <<loopVars, active_set, kernelVars, slotVars, backlog, inbox, sent, got>>

\* They gave nothing more: the call returns, cmd_exec_command after four more
\* bytes.
Return(s, f) ==
  /\ Calling(s, f)
  /\ Handled(f)
  /\ \/ current_cmd[s] = "command" /\ Write(Client(f))
     \/ current_cmd[s] = "get" /\ UNCHANGED <<status, conn, full>>
  /\ UNCHANGED <<active_set, kernelVars, slotVars, backlog, inbox, sent, got>>

\* cmd_stream_file: open() and add_streaming_fd.  When open() fails -1 goes
\* into the set; what FD_SET(-1) sets makes the next select() fail,
\* when it does not abort.
Stream(s, f) ==
  /\ Line(s, f, "stream")
  /\ Handled(f)
  /\ current_cmd' = [current_cmd EXCEPT ![s] = "stream"]
  /\ in_cmd' = [in_cmd EXCEPT ![s] = TRUE]
  /\ \/ /\ OpenFails
        /\ status' \in {"exited", "crashed"}
        /\ UNCHANGED <<active_set, fds, file_to_stream>>
     \/ \E g \in FD :
          /\ Lowest(g)
          /\ fds' = [fds EXCEPT ![g] = File("device", Client(f))]
          /\ file_to_stream' = [file_to_stream EXCEPT ![s] = g]
          /\ active_set' = active_set \cup {g}
          /\ UNCHANGED status
  /\ UNCHANGED <<unread, upload_file_fd, left, conn, full>>

\* cmd_put_file on the line, which announces pieces of payload; when open()
\* fails the sizes stay what they were, equal.
Put(s, f, r, pieces) ==
  /\ Line(s, f, r)
  /\ Handled(f)
  /\ current_cmd' = [current_cmd EXCEPT ![s] = "put"]
  /\ in_cmd' = [in_cmd EXCEPT ![s] = TRUE]
  /\ \/ /\ OpenFails
        /\ upload_file_fd' = [upload_file_fd EXCEPT ![s] = 0]
        /\ UNCHANGED <<fds, left>>
     \/ \E g \in FD :
          /\ Lowest(g)
          /\ fds' = [fds EXCEPT ![g] = File("upload", Client(f))]
          /\ upload_file_fd' = [upload_file_fd EXCEPT ![s] = g]
          /\ left' = [left EXCEPT ![s] = pieces]
  /\ UNCHANGED <<status, active_set, unread, file_to_stream, conn, full>>

\* No handler knows the line: in_cmd stays TRUE, with the command before it.
\* Payload that no upload waits for reads like that too.
Unknown(s, f) ==
  /\ \E r \in {"unknown", "payload"} : Line(s, f, r)
  /\ Handled(f)
  /\ in_cmd' = [in_cmd EXCEPT ![s] = TRUE]
  /\ UNCHANGED <<status, active_set, kernelVars, file_to_stream, upload_file_fd,
                 current_cmd, left, conn, full>>

\* Mutant: the file is not closed.
CloseUploadNot(s) ==
  /\ in_cmd' = [in_cmd EXCEPT ![s] = FALSE]
  /\ UNCHANGED kernelVars

\* The end of cmd_put_file: close(upload_file_fd), whatever that number is
\* by now, and the slot keeps it.
CloseUpload(s) ==
  /\ in_cmd' = [in_cmd EXCEPT ![s] = FALSE]
  /\ fds' = [g \in FD |-> IF g = upload_file_fd[s] THEN Free ELSE fds[g]]
  /\ unread' = [g \in FD |-> IF g = upload_file_fd[s] THEN 0 ELSE unread[g]]

\* Mutant: a piece is counted that was not to come.
TakePieceUncounted(s) == left' = [left EXCEPT ![s] = @ - 1]

\* What is to come is taken in one piece, if any is.
TakePiece(s) == left' = [left EXCEPT ![s] = 0]

\* preprocess_data in_cmd with PUT_FILE: the upload is complete when what
\* was to come, a piece or nothing, is there; with nothing to come, the loop
\* goes on with the same data.
FinishUpload(s, f) ==
  /\ ReachedClient(s, f)
  /\ inbox[Client(f)] # <<>>
  /\ in_cmd[s] /\ current_cmd[s] = "put"
  /\ \/ /\ left[s] = 0
        /\ UNCHANGED <<loopVars, inbox>>
     \/ /\ left[s] # 0
        /\ Handled(f)
        /\ inbox' = [inbox EXCEPT ![Client(f)] = Tail(@)]
  /\ TakePiece(s)
  /\ CloseUpload(s)
  /\ UNCHANGED <<status, active_set, socket_fd, file_to_stream, upload_file_fd,
                 current_cmd, backlog, conn, sent, full, got>>

\* preprocess_data in_cmd with a command that takes no payload.
Hang(s, f) ==
  /\ ReachedClient(s, f)
  /\ inbox[Client(f)] # <<>>
  /\ in_cmd[s] /\ current_cmd[s] # "put"
  /\ status' = "hung"
  /\ UNCHANGED <<loopVars, active_set, kernelVars, slotVars, netVars, got>>

ClientData(f) ==
  \E s \in Slot :
    \/ Disconnect(s, f) \/ Command(s, f) \/ GetFile(s, f) \/ Stream(s, f)
    \/ Put(s, f, "put", 1) \/ Put(s, f, "empty", 0) \/ Unknown(s, f)
    \/ FinishUpload(s, f) \/ Hang(s, f)

-----------------------------------------------------------------------------
Environment ==
  \/ \E c \in Conns : \/ Connect(c) \/ SendCut(c) \/ Close(c) \/ Reset(c) \/ Take(c)
                     \/ \E r \in Requests : Send(c, r)
  \/ \E f \in FD : DeviceEvent(f)

ServerStep ==
  \/ Select \/ Accept
  \/ \E f \in FD : StreamData(f) \/ StreamEnds(f) \/ NobodysData(f) \/ ClientData(f)

\* In a call the thread goes on when the program it runs does.
Outputs == \E f \in FD, s \in Slot : Output(s, f)
Returns == \E f \in FD, s \in Slot : Return(s, f)

Next == Environment \/ ServerStep \/ Outputs \/ Returns

\* The thread runs whenever select() and write() let it; nothing is owed by
\* the rest.
Spec == Init /\ [][Next]_vars /\ WF_vars(ServerStep)

\* What the one thread needs of all its clients to get round to each: that
\* they read what it writes, that the programs they run and the files they
\* get come to an end, and that no device has an event at every read for ever.
ClientsRead  == \A c \in Conns : WF_vars(Take(c))
CallsReturn  == SF_vars(Returns)
DevicesPause == SF_vars(\E f \in FD : StreamEnds(f))

FairSpec == Spec /\ ClientsRead /\ CallsReturn /\ DevicesPause

-----------------------------------------------------------------------------
(* Properties.                                                             *)

Numbers == FD \cup {0}

ServerTypeOK ==
  /\ status \in {"up", "exited", "crashed", "killed", "hung"}
  /\ scanning \in BOOLEAN /\ calling \in BOOLEAN /\ ready \in SUBSET FD /\ active_set \in SUBSET FD
  /\ fds \in [FD -> Files]
  /\ unread \in [FD -> Nat]
  /\ socket_fd \in [Slot -> Numbers] /\ file_to_stream \in [Slot -> Numbers]
  /\ upload_file_fd \in [Slot -> Numbers]
  /\ in_cmd \in [Slot -> BOOLEAN]
  /\ current_cmd \in [Slot -> {"command", "get", "stream", "put"}]
  /\ left \in [Slot -> {0, 1}]
  /\ backlog \in Seq(Conns)
  /\ conn \in [Conns -> {"new", "made", "closed", "bounced", "reset", "refused", "done"}]
  /\ inbox \in [Conns -> Seq({"command", "get", "stream", "put", "empty", "unknown", "payload"})]
  /\ sent \in Nat /\ full \in SUBSET Conns
  /\ got \in [Conns -> SUBSET Conns]

Used      == {s \in Slot : socket_fd[s] # 0}
Streaming == {s \in Used : file_to_stream[s] # 0}
Uploading == {s \in Used : in_cmd[s] /\ current_cmd[s] = "put" /\ upload_file_fd[s] # 0}

\* select() watches the listening socket, each client's socket and each
\* streamed file, and nothing that has been closed: a stale number would be
\* another client's socket or upload as soon as the kernel reuses it.
ActiveSetExact ==
  active_set = {ServerSocket} \cup {socket_fd[s] : s \in Used}
                              \cup {file_to_stream[s] : s \in Streaming}

\* The connection slot s serves.
Owner(s) == fds[socket_fd[s]].of

\* What a slot calls its socket, its streamed file or its upload is open and
\* is its own client's, and no client has two slots.
DescriptorsOwned ==
  /\ fds[ServerSocket] = Listen
  /\ \A s \in Used : Owner(s) \in Conns /\ fds[socket_fd[s]] = File("socket", Owner(s))
  /\ \A s, t \in Used : Owner(s) = Owner(t) => s = t
  /\ \A s \in Streaming : fds[file_to_stream[s]] = File("device", Owner(s))
  /\ \A s \in Uploading : fds[upload_file_fd[s]] = File("upload", Owner(s))

\* A client only gets data of the file it asked to stream.
Isolation == \A c \in Conns : got[c] \subseteq {c}

\* An open descriptor that select() does not watch is an upload's that goes on,
\* or is lost for good in one of two ways: its client went away before the
\* upload was finished (server.c:240-248 forgets upload_file_fd), or GET_FILE
\* could open the file and not stat() it (cmd.c:197-204).
Accounted(f) ==
  \/ fds[f] = Free
  \/ \E s \in Uploading : upload_file_fd[s] = f
  \/ \E c \in Conns : fds[f] = File("upload", c) /\ conn[c] = "done"
  \/ BadFiles /\ fds[f].kind = "file"

\* The server loses no descriptor in any other way: not when slots and numbers
\* are reused, not when an upload ends.
LeaksKnown == \A f \in FD \ active_set : Accounted(f)

\* start_server never returns: accept() and open() always find a descriptor
\* left, and select() is never given one that somebody else closed.
NeverExits == status # "exited"

\* A request that arrived is read, whatever the clients ask for and whenever
\* they come and go, for as long as the server lives and no request has hung
\* it, given what FairSpec assumes: one client that does not read, one program
\* that does not end or one device that never pauses is enough to stop the rest.
Served ==
  \A c \in Conns : (inbox[c] # <<>> /\ conn[c] # "refused")
                      ~> (inbox[c] = <<>> \/ conn[c] = "refused" \/ status # "up")
=============================================================================
