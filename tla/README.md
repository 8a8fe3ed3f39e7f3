# Specifications of snesclassicstuff

This directory holds TLA+ models of the programs of this repository, the TLC
configurations that check them on small instances, and TLAPS proofs of what the
models promise for every instance. It is kept beside the code: each definition
names the lines it stands for in `PROJECT.json` ("map").

## 1. The system

The repository lets a PC drive a SNES Classic mini console.

| part | where | state it keeps | operations | talks to |
|---|---|---|---|---|
| stuffserver, connections | `serverstuff/server.c` | `clients[5]`, `active_set`, the process's descriptors | accept, read, forward streamed data, disconnect | clients over TCP port 1042, streamed devices |
| stuffserver, framing and commands | `serverstuff/server.c` (`preprocess_data`), `serverstuff/cmd.c` | per slot: `pending_*`, `in_cmd`, `current_cmd`, `write_*`, `upload*` | one handler per command | processes' memory, files, `popen`, `fork` |
| stuffclient | `stuffclient/stuffclient.cpp` | `state`, `m_commandDatas`, `fileSizeGot`, `fileSizeData` | executeCommand, detachedCommand, streamFile, sendFile, getFile, onReadyRead | stuffserver; Qt signals to its user |
| TelnetConnection | `desktopclient/telnetconnection.cpp` | `m_state`, `m_istate`, `readBuffer`, `calcSizeSent` | conneect, executeCommand, syncExecuteCommand (a nested event loop), close, socket slots | the console's telnet daemon |
| MainWindow | `desktopclient/mainwindow.cpp` | `canoeRunning`, `existingSaveState`, a timer | timer tick, canoe started and stopped, button and key handlers | three TelnetConnections, InputDecoder |
| InputDecoder | `desktopclient/inputdecoder.cpp` | `Lpressed`, `Rpressed` | decodeHexdump, decodeBinary | gets hexdump lines or bytes, emits button signals |
| ROM mapping | `desktopclient/rommapping.c`, `mapping_*.c` | `rommapping_error_text` | SNES to file address and back | none |
| MiniFtp | `desktopclient/miniftp.cpp` | `m_state`, `lastGetCmd`, `lastPutCmd` | connect, get, put | QFtp |
| memstuff | `memstuff/main.c` | none | read or write memory, once | one process |
| qtftp | `qtftp/` | command queue, control and data connections | the Qt 4 FTP client, vendored with its tests | an FTP server |

What is hard to get right, and hard to test:

* stuffserver is one thread, but its clients, the network and the devices go on
  between any two descriptors of a pass over `select()`'s snapshot, and the
  kernel reuses descriptor numbers at once. Slots are reused too, and
  `add_to_clients` resets some fields only.
* Bytes arrive in pieces of any size. A command line, its payload and the next
  line may share a read or be spread over several; `in_cmd` and `pending_pos`
  carry the state from one read to the next.
* Clients vanish at any time: in a line, in a payload, before an answer.
* The desktop client runs nested event loops, so timers and buttons interleave
  with a command that waits for its prompt. So does `MiniFtp::get`.
* QFtp's slots call each other through signals, several objects deep, and users
  call back into it from the innermost one.

What makes each part correct:

* framing: the bytes of a connection are one stream; requests are carried out in
  order, once, with exactly the bytes announced; nothing of one client reaches
  the next; no write leaves a buffer; the parser always returns to `select()`.
* connections: the watched set is exactly what the table names; what a slot names
  is open and its own client's; streamed data reaches the client that asked;
  descriptors do not run out; the server survives its clients.
* stuffclient and TelnetConnection: each answer is paired with its command.
* InputDecoder: the signals are the presses and releases of the joystick.
* ROM mapping: the two directions are inverse where both are defined.
* qtftp: commands are reported once, in order, and started one at a time; lines
  and replies stay in step over the control connection; a transfer is reported
  finished when its data is complete and its device is no longer used, although
  data and replies come over two connections.
* MiniFtp: `get` returns, with the file it asked for.
* memstuff: a search misses no place of what it read.

## 2. The modules

| module | models |
|---|---|
| `Protocol` | what travels on a connection: cells, lines, what a line announces and may be answered with |
| `CommandStream` | abstract: what the server promises the client of one connection |
| `Framing` | one slot of the table and the connections that use it in turn: `read_client_data`, `preprocess_data`, `process_command` and the handlers of `cmd.c` |
| `MCFraming` | the requests clients send in TLC's instances of `Framing` |
| `FramingProofs`, `PromiseProofs` | proofs about `Framing`; the second, that it implements `CommandStream` |
| `StuffServer` | `start_server`: the select loop, the slots, the kernel's descriptors, any number of clients |
| `MCStuffServer` | TLC's instances of `StuffServer` |
| `StuffServerProofs` | proofs about `StuffServer` |
| `Telnet` | a `TelnetConnection`, its socket and the console's shell |
| `MainWindow` | the desktop client's window around one `Telnet`: polling, loading of states, nested event loops, and the console's emulator and saved states |
| `MCMainWindow` | TLC's instances of `MainWindow` |
| `MainWindowProofs` | proofs about `Telnet` and `MainWindow` |
| `StuffClient`, `MCStuffClient` | the Qt client of stuffserver: its requests and what it makes of the answers |
| `StuffClientProofs` | proofs about `StuffClient` |
| `FtpNetwork` | the FTP server and the two connections, as the environment of QFtp |
| `FtpTransfer` | `QFtpDTP`, the data connection |
| `FtpControl` | `QFtpPI`, the control connection |
| `QFtp` | `QFtp` and `QFtpPrivate`, the queue of commands |
| `CommandQueue` | abstract: what QFtp promises of its commands |
| `FtpUser`, `MCFtpUser` | QFtp with any user, and the properties of QFtp |
| `FtpUserProofs` | proofs about `FtpUser`: its invariants, and that it implements `CommandQueue` |
| `MiniFtp`, `MCMiniFtp` | the desktop client's `MiniFtp` over QFtp |
| `InputDecoder` | the joystick's events, hexdump's lines, `inputCo` and the decoder |
| `InputDecoderProofs` | proofs about `InputDecoder` |
| `RomMapping` | the address arithmetic |
| `Memstuff` | memstuff's commands on a process |
| `ConversionProofs` | proofs about `RomMapping` and `Memstuff` |
| `MCConversions` | TLC's instances of `InputDecoder`, `RomMapping` and `Memstuff` |

Each FTP module extends the one above it: `FtpNetwork`, `FtpTransfer`,
`FtpControl`, `QFtp`, and then `FtpUser` or `MiniFtp`.

### Framing

Bytes are grouped into *cells*, the pieces the parser tells apart: a verb with the
size it announces, an object (a file, a process), newline, NUL, junk. A read may
cut a request between any two cells and returns up to `BUF` of them, the 2048 bytes
of `readed_data` and `pending_data`. The variables have the names of `struct
client`'s fields. One action is one iteration of `preprocess_data`'s loop,
including the handler that it calls:

| action | code |
|---|---|
| `Accept` | `add_to_clients`, with the fields it does not reset |
| `Read` | `read_client_data` up to `preprocess_data` |
| `Disconnect` | `read()` returning 0 or -1, `remove_client` |
| `PartialLine` | no newline left: the rest goes to `pending_data` |
| `ExecCommand`, `ReadMemory`, `DetachedCommand`, `GetFile`, `WriteMemory`, `StreamFile`, `PutFile`, `UnknownLine` | a newline found, and the handler of the verb |
| `LineTooLong` | the same, the line past the end of `pending_data` |
| `FeedWrite`, `FeedPut`, `FeedNobody` | `in_cmd`: payload to the command in progress |
| `Send`, `SendPart`, `Close`, `Abort` | the client and the network |

`pc` is `"scan"` inside `preprocess_data`, `"select"` outside, `"spin"` in a
handler that never returns and `"ub"` after a write outside a buffer, a use of
freed memory or `FD_SET(-1)`. History variables: `uploaded`, `request`, `log`.

`CommandStream` says what is promised: a stream of bytes from which the server
takes lines and payloads, in order. `Framing` is shown to implement it (`Promise`)
under a refinement mapping that reads the stream off the slot: what is in
`pending_data`, `write_buffer` or the file, the rest of the read, the wire.

### StuffServer

Here requests arrive whole, one per read, and the subject is the slots and the
descriptors. `fds` is the kernel's table, which hands out the lowest free number
(`Lowest`); `ready` is what is left of the pass's `read_fd_set`.

| action | code |
|---|---|
| `Select` | `select()`; it fails, and the server returns, when the set names a closed descriptor |
| `Accept` | `accept()`, `add_to_clients`, `FD_SET`, or the refusal |
| `StreamData`, `StreamEnds` | a streamed file: one read and the write of what it gave, and the read that finds nothing |
| `NobodysData` | `get_client` returned NULL |
| `Disconnect` | `FD_CLR` and `close` of the streamed file and the socket |
| `Command`, `GetFile`, `Output`, `Return` | `cmd_exec_command` and `cmd_get_file`: up to their loop, a round of it, the end |
| `Stream`, `Put`, `Unknown` | a line and what its handler does to descriptors |
| `FinishUpload`, `Hang` | data while `in_cmd` |
| `Connect`, `Send`, `Take`, `SendCut`, `Close`, `Reset`, `DeviceEvent` | clients, network, devices |

`status` is how the process ended: exited, crashed, killed by SIGPIPE, hung. `full` are
the clients that have not read what was written to them: a `write()` to one waits until
it has (`Take`) or is gone, and the one thread with it. `calling` is a call whose loop
is as long as the program's output or the file.

### Telnet and MainWindow

What the console writes is a sequence of cells: a row of echo, a line of output, a
half of a prompt. `wire` is under way, `unread` is in Qt's buffer, `readBuffer` is
the class's. One `Receive` is one `readyRead`: any number of cells arrive and
`onSocketReadReady` reads once. `signal` is what a step emitted; `MainWindow`
conjoins the slots connected to it.

`syncExecuteCommand` waits in an event loop of its own. The slots that wait are
`stack`, the innermost last, each frame with the line it sent and what its loop
was told: `runs`, `quit`, or `refused` when nothing was sent. `commandReturn` makes
every loop quit (`Quit`), and only the innermost slot goes on (`Resumes`).

| action | code |
|---|---|
| `OnTimerTick`, `TickReturns`, `PsReturns`, `LsReturns` | `onTimerTick` with `onCanoeStarted` and `onCanoeStopped`, cut at its commands |
| `KeyPressEvent`, `CanoeKilled`, `ReedKilled` | `executeCanoe`, called for a key or a button |
| `CloseEvent`, `CloseReturns` | `closeEvent`, and the end of the application's loops |
| `Connected`, `Refused`, `Disconnected`, `Receive` | the socket's slots and those connected to the connection's signals |
| `Console`, `ConsoleRuns`, `UserStarts`, `UserStops`, `UserSaves`, `UserDeletes` | the console's shells and its players, who start and stop games and save and delete states |

`saves` is what is saved on the console now. Two variables are history: `printed`, what
the shell printed for the line it read last, and `listed`, the game and the states of the
`ls` it read last.

Qt's rules used: a timer's slot does not run inside itself; `readyRead` is emitted
once per arrival; once the application quits, a loop ends as soon as it is entered.
Assumed of the console: it answers lines one at a time, and its echo has the rows
that `calcSizeSent` counts.

### StuffClient

What arrives is a sequence of cells: two NULs, the text ERROR, half of the ten bytes
of a size, other bytes. A read (`OnReadyRead`) takes any number of them. The user
makes one request at a time; `request` is what it waits for, and `arrived`, `given`
and `told` are history. `state` and `fileSizeGot` start with any value, as the
constructor does not set them. An answer is what `cmd.c` sends for a file that exists.

### FtpNetwork, FtpTransfer, FtpControl, QFtp

A signal is a call: the slot that emits it goes on when everything connected to it
has returned, and meanwhile users may call back. So the running code is a stack,
`calls`, of what is still to be done, and an action is a stretch of code up to its
next call: `ProcessReply` pushes the special action on the reply (`Special`), which may
push `dtpConnectToHost`, and `React`, which reads the state that those left. Events of
sockets and timers come when the stack is empty.

| action | code |
|---|---|
| `ReadyRead`, `ReadLines`, `Processed`, `ProcessReply`, `Special`, `React`, `Failed` | `QFtpPI::readyRead` and `processReply` |
| `StartNextCmd`, `SendCommands`, `PiClear`, `PiAbort`, `DtpConnectState` | the other functions of `QFtpPI` |
| `HostFound`, `PiConnected`, `ConnectionClosed`, `ControlError`, `RowsArrive` | the control socket |
| `DtpConnectToHost`, `WaitForConnection`, `WriteData`, `AbortConnection`, `Socket...` | `QFtpDTP` |
| `StartNextCommand`, `QPiFinished`, `QPiError`, `CommandFailed`, `RemoveFirstCommand`, `QPiConnectState`, `QPiFtpReply`, `Timer` | `QFtpPrivate` |
| `Ask`, `AskInSlot`, `AskAbort` | the user's calls |
| `Server` | the FTP server: replies, 1xx and final replies of transfers, data, ABOR, giving up |

A file or listing is `Cells` cells, each named by the command that asked for it, so
that data of one command that turns up in another is seen. A row of an answer carries
the line it answers, which no code reads: `RightReply` compares it.

Relied on of Qt: `close()` and `abort()` of a connected socket emit `disconnected()`
before they return, of any other nothing; a socket that the peer closed keeps what it
received; `connectToHost()` of a socket that is not unconnected does nothing;
`waitForNewConnection()` waits for no time that matters.

### MiniFtp

`get()` waits in an event loop of its own (`mini.loops`, the innermost first), while
the rest goes on. `lastGetCmd` and `lastPutCmd` start with any value.

### InputDecoder, RomMapping, Memstuff

`Push` and `Hold` are the kernel's reports of the joystick, `HexDump` prints events in
pairs, `Receive` is `oneCommandMode`'s reading of a whole line with what it drops (a read
of several lines is several of these), and `DecodeHexdump` the decoder. `RomMapping` is pure, its one variable the question
asked. `Memstuff` runs the tool on memory that the process changes or unmaps between
two runs. The three share nothing; `MCConversions` runs one of them in a behaviour, so
that one run checks all three.

## 3. The runs

All runs check without deadlock detection: a server with nothing to do waits in
`select()`, and the bounds let clients run out of things to send.

Passing:

* `framing_polite` - clients that send whole lines, non-empty payloads and nothing
  behind a STREAM_FILE. `Promise` (the refinement), `NoFault`, `Responsive` (the
  loop always returns to `select()`), `EveryRequestServed`. Payloads contain
  commands, so that a parser out of step would carry them out. `BUF = 3` is one
  line: reads, lines and payloads of 2 and 4 cells overlap in every way. Two
  requests over two connections reach every reuse of the slot.
* `framing_rude` - any order of blank, unknown, malformed and refused requests,
  clients that vanish in mid-line, resets. `TypeOK`, `NoOverflow`, `Gathering`,
  `ExactPayload`.
* `server_churn` - three clients on two slots and three descriptors besides the
  listening socket, with cut uploads and resets: both tables fill, every number
  is reused, `accept()` and `open()` fail. `ServerTypeOK`, `ActiveSetExact`,
  `DescriptorsOwned`, `Isolation`, and `LeaksKnown`: which descriptors are lost for good,
  and that no others are.
* `server_served` - `Served`: a request that arrived is read, under `FairSpec`: every
  client reads what is written to it, programs and files come to an end, and no device
  has an event at every read for ever. The code bounds none of the three, and without any one of them
  TLC finds a behaviour in which the thread stays in `write()`, in `fread()` or in the
  loop over the device, and the others wait for ever.
  `NeverExits`: the listening socket and two descriptors per slot are enough for
  clients that finish what they begin, as long as there are no more clients than
  slots; one that is refused needs another while it is told so (section 4).
* `desktop_in_turn` - no slot is called while another one waits
  (`MaxInterrupts = 0`), but answers are cut anywhere, players start and stop games
  and save and delete states at any time, and the connection may break. `WindowTypeOK`,
  `OwnAnswer` (an answer is exactly what the shell printed for that line, which is the
  line it read last), `InStep` (nothing is left for the next one), `SavesOfGame` (the flags
  are what the last `ls` listed, and it was for the game whose arguments are kept),
  `LoadsListed` (a state is loaded only if the last `ls` listed it, for that game; that it
  still exists is not promised: it may have been deleted since), `InRange`. `MCSaves` bounds what may be saved: two
  states of one game, neither of them the first, and one of the other.
* `desktop_nested` - a timer, a key or the window's closing may come while a slot
  waits. Answers are mixed up then (`desktop_feedback`), but a loop that waits still
  ends: `LoopsEnd`. `LogsIn`: the login gets to the prompt of its own.

* `ftp_queue` - a user that asks for any three commands, at any time or in the slot of
  a `commandFinished` without an error, and may call `abort()`; a server that refuses, fails a transfer in
  the middle, answers in two rows, or hangs up; IPv6 (`EPSV`, `EPRT`, and back to
  `PASV`, `PORT`). `Promise` (the refinement of `CommandQueue`), `RightReply`,
  `StartsIdle`, `PassiveReleased`, `GetsWhole`, `PutsWhole`, `StateTrue`, `FtpTypeOK`.
  Two cells are a file that may be half there; three commands are one that runs, one
  that waits and one added meanwhile.
* `mini_ftp` - `OwnFile` and `GetsReturn` for a caller that waits for its last call:
  connect, login and four more commands, of which gets and puts may fail.
* `client_session` - three requests and a lost connection: `OwnOutput`, `GivesEnd`,
  `CommandsEnd`. The outputs have parts of the markers in them.
* `conversions` - `RoundTrip` at the ends of all ranges of banks and offsets that the
  code tells apart; `MirrorsJoystick` and `NoInventedInput` for three presses and
  releases of three buttons, two connections and two lines that lose their start;
  `SearchRight` on a mapping of three bytes of three values, one of them NUL and one negative as a char.

Expected violations, each a disagreement between the code and what the repository
says of it (`findings` in `PROJECT.json` quotes the lines):

* `desktop_feedback` - a command sent while another one waits leaves its echo in
  the other's answer, and the answers stay out of step from then on.
* `client_file` - the read that completes the size of a file gives its last ten bytes
  to the user, and the second file on a connection is given with its size.

### Misbehaviour that the runs exclude

The models contain it; a constant or an exception in the property leaves it out. A
property in parentheses fails with that constant or specification.

stuffserver:

* `pending_pos` outlives its client: after one that vanished in mid-line the next
  client's first command has the old piece in front (`CutLines`, `Promise`).
* Anything sent after STREAM_FILE keeps the one thread in `preprocess_data` for good
  (`TalkOverStream`, `Responsive`).
* Every upload cut short costs a descriptor, until `accept()` fails and the server
  returns (`CutUploads`, four clients, `MaxClient = 1`, `MaxFD = 6`: `NeverExits`).
* GET_FILE of a file that can be opened and not `stat()`ed costs a descriptor too; of one
  that cannot be opened, or of a directory, it never ends; STREAM_FILE of one puts -1 in
  the watched set (`BadFiles`: `NeverExits`, `Served`).
* A client's streamed file is closed while the pass still has it in its snapshot:
  `get_client` returns NULL, which is used (`status = "crashed"`).
* PUT_FILE of 0 bytes completes only when more data comes; after a failed `open()` the
  payload is read as lines; a second `close(upload_file_fd)` after an unknown line can
  close another client's socket; an answer to a client that reset its connection
  ends the server by SIGPIPE.

desktop client:

* A lost connection leaves the window's waiting slots waiting.
* A key may load a saved state that was deleted on the console since the last `ls`, and
  does not load one that was saved since (`LoadsListed` says no more).
* MiniFtp: of two gets at the same time both return the last file (`HastySpec`, `MaxWaiting = 2`, `OwnFile`); after
  a refused connection or login, or a put or close right before, `get()` waits for ever.
* InputDecoder: a dropped start of a line inverts L or R for good, or makes a signal that
  never was: with 6 or 8 digits dropped a press or release out of the code or the value at
  the end of a key, with about 15 to 28 of the first event any one out of the digits of a
  time. `NoInventedInput` allows one for each line that lost its start. A line after a
  lone newline is lost too. `readBuffer` outlives a lost connection, and with
  the start of a line in it the next login is not recognised.

stuffclient: `close()` calls `QObject::disconnect`, so that the socket stays connected
and the object is deaf; markers in an output are not escaped; a file has no end, as
the bytes of its size are 0 or 1.

qtftp:

* Active mode: a 226 that comes before the server's connection was accepted ends the
  command with its device still in use, though the comment of `put` calls it safe to
  delete then (`PassiveReleased` is about passive mode only).
* A listing that says "No such file or directory" as data is reported as an error, and
  a command added in the slot of that error is sent in the state Waiting (`Slots` with
  "failed", `StartsIdle`). If it is of one line it is finished before its answer, and the
  answer may finish the next command before that was started (the same with
  `MaxCommands = 4`, `Promise`; with three it holds). A command added in the slot of `done` may be finished before it was
  started (`Slots` with "done", `Promise`).
* `abort()` swallows the next reply, whatever it answers; an aborted put may be reported
  finished without an error, with nothing stored. The 226 of ABOR may leave
  `waitForDtpToClose` set: if the control connection is lost then and a later command
  connects again, the data connection's end makes `processReply` take the old 226
  for an answer (`processReply`, line 1022, called from `dtpConnectState`), and a command is
  reported finished that was not started. It takes five commands (two with a data connection
  between three connects), so that `ftp_queue`, with three, does not reach it.
* Modes mixed: a passive get after an active transfer that ended by its reply before its data
  connection was accepted may be reported finished with its device not wholly written
  (`GetsWhole`; it takes six commands, so that `ftp_queue` does not reach it).
* A LIST answered with 250 is finished before its data is there (`MCFinals`). After a
  refused data connection `waitForDtpToConnect` stays set. A refused EPRT over IPv6
  falls back to PORT, which is never sent.
* A lost connection leaves the running command without an end.

memstuff: a pattern ends at its first NUL; a place may be found in bytes that were never
read; a partial write is a success; where char is signed a byte from 80 on is printed
with eight digits; an odd digit is dropped.

ROM mapping: the copier's header is added to error codes; the last two banks of a 4 MB
LoROM file are mapped to where the console has its RAM.

Fairness. `Framing` assumes weak fairness of reading and of the loop, `StuffServer`
of the server's step: one thread that runs whenever `select()` and `write()` return.
In `Spec`, which the safety properties and `NeverExits` are about, clients, network and devices owe nothing;
`FairSpec` adds what `Served` needs of them: weak fairness of each client's reading, strong
fairness of the end of a call and of the read that finds a device empty, since each of
these may become possible and impossible again, as the client's buffer fills. `MainWindow` assumes it of the main thread, of
the network and of the console's shell: without an answer no loop can end. Timers,
keys and players owe nothing. `Served` then holds because a pass handles every ready
descriptor once, in order. `StuffClient` assumes it of reading and of the console's
answers, `MiniFtp` of QFtp with its server: Qt's event loop runs what is ready, and
without an answer no command can end.

Bounds. `MaxRequests`, `MaxConnections`, `MaxEvents`, `Backlog` limit what the
environment does; no guard of the server mentions them. The real `BUF` is 2048,
`MAX_CLIENT` is 5 and a process has 1024 descriptors: what the properties are about
happens at the edge of each, which small values reach with few requests.
`MaxInterrupts = 1` is two commands under way, the fewest that mix; `MaxRuns` bounds
the loads that a second shell has yet to start. `READ` is larger than an answer, as
1024 bytes are larger than the longest line of `ps`; `SplitPrompts = FALSE` keeps the
login's prompts in one piece, without which `LogsIn` fails.

## 4. The proofs

For every buffer size, set of requests, number of clients, slots and descriptors:

* `FramingProofs`: `TypeOK`, `NoOverflow`, `Gathering`, `ExactPayload`. The four are
  inductive together (`IInv`): what bounds `write_buffer` is that it is gathered for
  the line in `request`, which `Gathering` says; `ExactPayload` follows when the
  last piece arrives.
* `PromiseProofs`: `NoFault` and the refinement of `CommandStream` (`Promise`), for
  `PoliteClients`: no line is cut, nothing follows a STREAM_FILE, and every request is one
  that the server's author had in mind (`Polite`; TLC evaluates it for the requests of
  `framing_polite`). `CommandStream` itself knows nothing of politeness, so the invariant
  has to say what is behind the parser's position: what the client said and was not
  carried out (`Said`, the awaited line first, then what the slot holds, the rest of the
  read, the wire) is a conversation, whole requests one after another and perhaps the
  start of a last one (`InStep`). `Whole`, the set of whole requests one after another,
  is defined as the least set closed under adding a request, so that no induction over
  sequences is needed: `WholeStarts` gives the first request of such a text by exhibiting
  a set that has it. From it `FirstRequest` gets what the first newline tells: the line
  fits in `pending_data`, is polite, and what follows it and its payload is a conversation
  again. Every handler then is `TakeLine`, the last piece of a payload is `TakePayload`,
  and reads and pieces of lines are stutters (`Unseen`). The other parts of the invariant
  are small: a free slot is at rest, a payload is awaited by the line in `request`.
* `StuffServerProofs`: `ServerTypeOK`, `ActiveSetExact`, `DescriptorsOwned`,
  `Isolation`, `LeaksKnown`, for clients that send no line the server does not
  know. The hypothesis is needed: `close(upload_file_fd)` after an unknown line
  closes a number that may be another client's by then. The invariant adds
  `StreamsLast` (a slot that streams is in STREAM_FILE, so its file is never
  replaced), `BacklogFresh` (a connection is accepted once), and that payloads are
  where they are awaited (`PayloadsFollow`, `PayloadsAwaited`): a payload read as a
  line is the other way to close a stale number, and only happens when the upload
  has no file. `LeaksKnown` rests on what may become of a connection (`ConnsAge`): a
  descriptor accounted for by a client that is gone stays so, as no connection comes back.
  `NeverExits` needs two more hypotheses: clients finish their uploads (`Finishing`:
  requests are commands, files, streams and uploads, none cut short, of files that can be
  opened, and nobody resets), and there are more than two descriptors per slot beside the listening
  socket's. Every open descriptor belongs to a slot, which
  owns its socket and at most one file, a streamed or an uploaded one; so a free number
  is left for `accept()` and for `open()`. One descriptor fewer is not enough: TLC
  finds the refused client that takes the last one. The invariant `CInv` is `IInv`
  and `Finished`, that no upload is ever left behind.

* `StuffClientProofs`: `OwnOutput` and `GivesEnd`, for all outputs, files and cuts. The
  invariant (`ClientInv`) is that what the class holds, what Qt holds and what is
  on the wire are together the answer to `request` (`AnswerComes`, `SizeComes`), and that
  nothing else is under way when there is none (`OneConversation`, `InState`). `OutputsAssumption` says that no output looks like the end of an
  answer before its end: the class does not escape the markers.

* `MainWindowProofs`: `WindowTypeOK` holds whatever is called while a slot waits; the
  proof walks over every action and every slot connected to a signal (`TypesStep`).
  `OwnAnswer`, `InStep`, `SavesOfGame`, `LoadsListed` and `InRange` are proved for
  `MaxInterrupts = 0`, that is as long as no timer, key or button calls a slot while
  another one waits: with it they are false (`desktop_feedback`). Nothing else is bounded:
  any rows of echo, answers, games, cuts, and saved states that come and go. The invariant `InTurn` has
  three parts. `Dialogue` goes through the states of `m_istate` and says what is under
  way in each: what was typed, what the console has yet to write, and that `readBuffer`
  followed by what is coming is the echo of the line, its result and the prompt's
  mark. `Slot` ties the innermost slot to it: its line was sent and its loop still runs,
  or its answer is `lastCommandReturn`. `Flags` is about the game. The lemmas that carry
  it: the mark is found when and only when all of it has arrived (`MarkFound`,
  `MarkNotYet`), since a result has no half of a mark in it, and dropping `calcSizeSent`
  rows drops the echo and no more (`EchoDropped`).

* `FtpUserProofs`: `FtpTypeOK` whatever happens. Until something is aborted, `RightReply`
  and `StateTrue`, `StartsIdle` with any slots that the hypotheses allow, and the refinement
  of `CommandQueue` (`Promise`), for any server, files, number of commands and order of
  events. The invariant (`Core`) is about every stack of calls, and the proof needs no
  induction over stacks: what a call relies on is said twice, of the time when it runs
  (`On`) and of the time when something was called in it (`Under`), and for each call on
  the stack what may be above it (`Stacked`, `Pairs`). A step then has to look at the top
  of the stack only: a call that goes on gets `On` from `Under` and from what the one that
  returned leaves. The rest is about what travels: each line sent has one final answer to
  come and is not the next one's (`Pipe`), a piece of an answer that is in `replyText` is
  of the answer to the line under way (`Text`), the states of `QFtpPI` go with the line
  that was sent and with the queue (`Modes`), and nothing was signalled of a command still
  to be asked for (`Heard`). Each action has a lemma. Hypotheses: the greeting's codes are none of 226, 227, 229 and 230
  (`PlainGreeting`), which `processReply` takes for answers of transfers and logins in any
  state; users call back in the slots of `commandFinished` without an error, `readyRead`
  and `stateChanged` only (`PlainSlots`), as in those of `commandFinished` with an error and
  of `done` the promise is broken (section 3); and no `abort()`
  was called, for the same reason. `StartsIdle` and `StateTrue` are proved up to the first
  `abort()`; what TLC checks in `ftp_queue` is more, for three commands.

* `InputDecoderProofs`: `NoInventedInput` and `MirrorsJoystick`, for any number of buttons,
  presses and connections and any cuts. The invariant (`InputInv`) follows the events from the joystick to
  the signals: what is under way says the truth (`Truthful`) in the order it happened
  (`InOrder`), in lines of two events (`TwoByTwo`), about presses of which no signal was given yet, and, until something is lost, about all
  of those (`Remaining`). The axis events of a shoulder carry no direction: that the decoder's
  toggle is right rests on presses and releases coming by turns (`ByTurns`), so that the
  shoulder's last event among those given (`Held`) is the toggle. An event made of a
  cut line is numbered by the cut, below zero, so that the two kinds of signals do not
  disturb each other's order: it is alone in the first line under way (`Pending`), and no
  signal was made of its cut or of a later one (`Numbered`).

* `ConversionProofs`: `RoundTrip`, `HiromLinear`, `Mirrors`, `Bounded`, for every
  address of 24 bits. They are about one question, so each is a lemma of arithmetic
  by cases of the bank, which the temporal step only lifts. `SearchRight`, for every memory,
  pattern and mapping: when the
  pattern is in what memstuff read, its scan returns the first place of it; when it is
  not, the scan returns none, or a false place, which does not lie wholly within what was read.

Assumptions are those on the constants, named in the modules. Only model-checked:

* liveness (`Responsive`, `EveryRequestServed`, `Served`, `LoopsEnd`, `LogsIn`, `GetsReturn`,
  `CommandsEnd`), which is out of the prover's reach;
* `PassiveReleased`, `GetsWhole`, `PutsWhole` and MiniFtp's `OwnFile`: they need an
  invariant of the data of both connections, and hypotheses on the final codes of the
  server's answers;
* QFtp after an `abort()`.

## 5. Not modelled, and why

What commands do to processes, memory and files; a `sscanf` that matches some of a
line's fields only; sizes past 2^31; short writes to files; children that inherit
sockets (`CMD_DETACHED`). `mainserver.c` only calls `start_server`; `client.c`,
`testsocket.c` and the hmod scripts are test programs and packaging.

Of qtftp the parser of listings and `QUrlInfo` (text and dates), the proxy, replies that
are not replies, uploads of sequential devices, and the example program `ftpwindow`.
`decodeBinary` is called by nothing. `hirom_pc_to_snes` has no code. GET_FILE of a file
that is not there answers ten bytes of FF, which `StuffClient` leaves out.

## 6. Plan

1. Proofs: an invariant of QFtp's data connection, for `PassiveReleased`, `GetsWhole`,
   `PutsWhole` and `OwnFile`.
2. `StuffServer` with a reference count per open file, for CMD_DETACHED.
3. Framing with the two widths of an upload's size.
4. The listings' parser.
