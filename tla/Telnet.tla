------------------------------- MODULE Telnet -------------------------------
(***************************************************************************)
(* TelnetConnection of the desktop client, the socket it reads and the     *)
(* console's shell at the other end.                                       *)
(*                                                                         *)
(* The connection logs in, gives the shell a prompt of its own, and then   *)
(* finds where an answer ends by looking for that prompt in what arrives.  *)
(* What arrives is a stream of cells: a row of the terminal's echo, a line *)
(* of output, half a prompt (a read may end anywhere, within a prompt      *)
(* too).  calcSizeSent, in the code a number of bytes that allows for the  *)
(* line breaks of an 80-column terminal, is the number of rows that the    *)
(* terminal echoes for the line.                                           *)
(*                                                                         *)
(* Each slot of the class is an operator here; a user of the connection    *)
(* conjoins it with its own slots, which the signal tells apart.           *)
(***************************************************************************)
EXTENDS Naturals, Sequences

CONSTANTS
  READ,          \* cells that one socket.read(1024) returns at most
  Rows,          \* rows of the echo of each command's line
  SplitPrompts   \* may the network cut the prompts of the login?

ASSUME ReadAssumption  == READ \in Nat \ {0}
ASSUME RowsAssumption  == /\ Rows \in [DOMAIN Rows -> Nat \ {0}]
                          /\ {"root", "PS1", "exit"} \subseteq DOMAIN Rows
ASSUME SplitAssumption == SplitPrompts \in BOOLEAN

VARIABLES
  m_state,            \* Offline, Connected, Ready
  m_istate,           \* InternalState
  readBuffer, calcSizeSent, lastCommandReturn,
  socket,             \* QTcpSocket: unconnected, connecting, connected
  unread,             \* received by the socket and not yet read
  wire,               \* written by the console and not yet received
  typed,              \* lines the console has yet to read
  login,              \* the console: none, user (asks for a name), shell, marked
  signal              \* what this step emitted, or none

connectionVars == <<m_state, m_istate, readBuffer, calcSizeSent, lastCommandReturn>>
consoleVars    == <<wire, typed, login>>
telnetVars     == <<connectionVars, socket, unread, consoleVars, signal>>

States  == {"Offline", "Connected", "Ready"}
IStates == {"Init", "AttemptConnection", "SocketConnected", "LoginWritten",
            "PromptChangeWritten", "PromptChanged", "IReady", "DataWritten",
            "WaitingForCmd"}

\* m_istate >= PromptChanged.
Entered == {"PromptChanged", "IReady", "DataWritten", "WaitingForCmd"}

-----------------------------------------------------------------------------
(* Lines and cells.                                                        *)

Line(cmd, arg) == [cmd |-> cmd, arg |-> arg]
User      == Line("root", "")
SetPrompt == Line("PS1", "")
Exit      == Line("exit", "")

Text(what)       == [what |-> what, cmd |-> "", value |-> ""]
Echo(line)       == [i \in 1..Rows[line.cmd] |-> [Text("echo") EXCEPT !.cmd = line.cmd]]
Output(cmd, v)   == [what |-> "output", cmd |-> cmd, value |-> v]

Negotiation == Text("negotiation")
NotRunning  == Text("offline")
LoginPrompt == <<Text("login1"), Text("login2")>>
ShellPrompt == <<Text("shell1"), Text("shell2")>>
Mark        == <<Text("mark1"), Text("mark2")>>
FirstHalves == {"login1", "shell1"}

\* Where pattern starts in text, for the first time; 0 when it does not occur.
IndexOf(text, pattern) ==
  LET at == {i \in 1..(Len(text) - Len(pattern) + 1) :
               \A k \in DOMAIN pattern : text[i + k - 1].what = pattern[k].what}
  IN  IF at = {} THEN 0 ELSE CHOOSE i \in at : \A j \in at : i <= j

Has(text, pattern) == IndexOf(text, pattern) # 0
Cut(text, from, n) == SubSeq(text, 1, from - 1) \o SubSeq(text, from + n, Len(text))

-----------------------------------------------------------------------------
(* Writing.                                                                *)

\* Mutant: the size without the line's end.
WriteToTelnetWithoutEnd(line, istate) ==
  /\ m_istate' = IF istate \in {"IReady", "PromptChanged"} THEN "DataWritten" ELSE istate
  /\ calcSizeSent' = Rows[line.cmd] - 2
  /\ typed' = IF socket = "connected" THEN Append(typed, line) ELSE typed

\* writeToTelnet, from a state istate; write() on a closed socket fails.
WriteToTelnet(line, istate) ==
  /\ m_istate' = IF istate \in {"IReady", "PromptChanged"} THEN "DataWritten" ELSE istate
  /\ calcSizeSent' = Rows[line.cmd]
  /\ typed' = IF socket = "connected" THEN Append(typed, line) ELSE typed

\* syncExecuteCommand does nothing unless a session is up.
CanExecute == m_state \in {"Ready", "Connected"}

ExecuteCommand(line) ==
  /\ WriteToTelnet(line, m_istate)
  /\ UNCHANGED <<m_state, readBuffer, lastCommandReturn, socket, unread, wire, login>>

\* close: a last line when a command may be sent, an interrupt and it otherwise.
CloseConnection ==
  /\ IF m_state = "Ready"
     THEN WriteToTelnet(Exit, m_istate)
     ELSE UNCHANGED <<m_istate, calcSizeSent, typed>>
  /\ socket' = IF m_state # "Offline" THEN "unconnected" ELSE socket
  /\ UNCHANGED <<m_state, readBuffer, lastCommandReturn, unread, wire, login>>

-----------------------------------------------------------------------------
(* The socket's slots.                                                     *)

\* onSocketConnected; the console greets, or hakchi2 says there is none.
OnSocketConnected(greeting) ==
  /\ socket = "connecting"
  /\ socket' = "connected" /\ m_istate' = "SocketConnected"
  /\ wire' = greeting /\ typed' = <<>>
  /\ login' = IF Has(greeting, LoginPrompt) THEN "user" ELSE "none"
  /\ signal' = "none"
  /\ UNCHANGED <<m_state, readBuffer, calcSizeSent, lastCommandReturn, unread>>

\* onSocketError: the connection is refused.
OnSocketError ==
  /\ socket = "connecting"
  /\ socket' = "unconnected" /\ m_istate' = "Init" /\ signal' = "refused"
  /\ UNCHANGED <<m_state, readBuffer, calcSizeSent, lastCommandReturn, unread, consoleVars>>

\* onSocketDisconnected, after onSocketError: what was under way is lost.
OnSocketDisconnected ==
  /\ socket = "connected"
  /\ socket' = "unconnected" /\ m_state' = "Offline" /\ m_istate' = "Init"
  /\ wire' = <<>> /\ typed' = <<>> /\ login' = "none"
  /\ signal' = "disconnected"
  /\ UNCHANGED <<readBuffer, calcSizeSent, lastCommandReturn, unread>>

\* The telnet command that onSocketReadReady takes out of what it read.
WithoutCommand(data) ==
  LET at == IndexOf(data, <<Negotiation>>) IN IF at = 0 THEN data ELSE Cut(data, at, 1)

\* The login, by the prompts found in one read.
ReadLogin(data) ==
  IF m_istate = "LoginWritten" /\ Has(data, ShellPrompt)
  THEN /\ WriteToTelnet(SetPrompt, "PromptChangeWritten")
       /\ signal' = "none"
       /\ UNCHANGED <<m_state, readBuffer, lastCommandReturn>>
  ELSE IF Has(data, LoginPrompt)
  THEN /\ WriteToTelnet(User, "LoginWritten")
       /\ signal' = "none"
       /\ UNCHANGED <<m_state, readBuffer, lastCommandReturn>>
  ELSE /\ signal' = "none"
       /\ UNCHANGED <<connectionVars, typed>>

\* Mutant: the prompt is looked for in one read.
ReadPromptChangeOneRead(data) ==
  LET text == data IN
  /\ IF text = Echo(SetPrompt) \o Mark
     THEN /\ m_istate' = "PromptChanged" /\ m_state' = "Connected"
          /\ readBuffer' = <<>> /\ signal' = "connected"
     ELSE /\ readBuffer' = text /\ signal' = "none"
          /\ UNCHANGED <<m_istate, m_state>>
  /\ UNCHANGED <<calcSizeSent, lastCommandReturn, typed>>

\* The echo of PS1 and the new prompt are all there is between the two states.
ReadPromptChange(data) ==
  LET text == readBuffer \o data IN
  /\ IF text = Echo(SetPrompt) \o Mark
     THEN /\ m_istate' = "PromptChanged" /\ m_state' = "Connected"
          /\ readBuffer' = <<>> /\ signal' = "connected"
     ELSE /\ readBuffer' = text /\ signal' = "none"
          /\ UNCHANGED <<m_istate, m_state>>
  /\ UNCHANGED <<calcSizeSent, lastCommandReturn, typed>>

\* Mutant: one row more than the echo is dropped.
ReadAnswerShortened(data) ==
  LET text    == readBuffer \o data
      echoed  == m_istate = "DataWritten" /\ Len(text) >= calcSizeSent
      waiting == m_istate = "WaitingForCmd" \/ echoed
      answer  == IF echoed THEN SubSeq(text, calcSizeSent + 2, Len(text)) ELSE text
      at      == IndexOf(answer, Mark)
  IN  /\ IF waiting /\ at # 0
         THEN /\ m_state' = "Ready" /\ m_istate' = "IReady"
              /\ lastCommandReturn' = Cut(answer, at, Len(Mark))
              /\ readBuffer' = <<>> /\ signal' = "commandReturn"
         ELSE /\ m_istate' = IF waiting THEN "WaitingForCmd" ELSE m_istate
              /\ readBuffer' = answer /\ signal' = "none"
              /\ UNCHANGED <<m_state, lastCommandReturn>>
      /\ UNCHANGED <<calcSizeSent, typed>>

\* Mutant: readBuffer is not cleared.
ReadAnswerUncleared(data) ==
  LET text    == readBuffer \o data
      echoed  == m_istate = "DataWritten" /\ Len(text) >= calcSizeSent
      waiting == m_istate = "WaitingForCmd" \/ echoed
      answer  == IF echoed THEN SubSeq(text, calcSizeSent + 1, Len(text)) ELSE text
      at      == IndexOf(answer, Mark)
  IN  /\ IF waiting /\ at # 0
         THEN /\ m_state' = "Ready" /\ m_istate' = "IReady"
              /\ lastCommandReturn' = Cut(answer, at, Len(Mark))
              /\ readBuffer' = lastCommandReturn' /\ signal' = "commandReturn"
         ELSE /\ m_istate' = IF waiting THEN "WaitingForCmd" ELSE m_istate
              /\ readBuffer' = answer /\ signal' = "none"
              /\ UNCHANGED <<m_state, lastCommandReturn>>
      /\ UNCHANGED <<calcSizeSent, typed>>

\* The echo is dropped by its size, and the answer ends at the prompt.
ReadAnswer(data) ==
  LET text    == readBuffer \o data
      echoed  == m_istate = "DataWritten" /\ Len(text) >= calcSizeSent
      waiting == m_istate = "WaitingForCmd" \/ echoed
      answer  == IF echoed THEN SubSeq(text, calcSizeSent + 1, Len(text)) ELSE text
      at      == IndexOf(answer, Mark)
  IN  /\ IF waiting /\ at # 0
         THEN /\ m_state' = "Ready" /\ m_istate' = "IReady"
              /\ lastCommandReturn' = Cut(answer, at, Len(Mark))
              /\ readBuffer' = <<>> /\ signal' = "commandReturn"
         ELSE /\ m_istate' = IF waiting THEN "WaitingForCmd" ELSE m_istate
              /\ readBuffer' = answer /\ signal' = "none"
              /\ UNCHANGED <<m_state, lastCommandReturn>>
      /\ UNCHANGED <<calcSizeSent, typed>>

\* n cells arrive; readyRead is emitted once, and onSocketReadReady reads once.
OnSocketReadReady(n) ==
  LET received == unread \o SubSeq(wire, 1, n)
      size == IF Len(received) < READ THEN Len(received) ELSE READ
      raw  == SubSeq(received, 1, size)
      data == WithoutCommand(raw)
  IN  /\ socket = "connected" /\ n \in 1..Len(wire)
      /\ SplitPrompts \/ wire[n].what \notin FirstHalves
      /\ wire' = SubSeq(wire, n + 1, Len(wire))
      /\ unread' = SubSeq(received, size + 1, Len(received))
      /\ IF m_istate = "SocketConnected" /\ Has(raw, <<NotRunning>>)
         THEN signal' = "notRunning" /\ UNCHANGED <<connectionVars, typed>>
         ELSE IF m_istate = "PromptChangeWritten" THEN ReadPromptChange(data)
         ELSE IF \/ m_istate \notin Entered
                 \/ Has(data, LoginPrompt) THEN ReadLogin(data)
         ELSE ReadAnswer(data)
      /\ UNCHANGED <<socket, login>>

-----------------------------------------------------------------------------
(* The console.                                                            *)

\* getty and the shell read one line; a command's output is result.
ConsoleReads(result) ==
  /\ socket = "connected" /\ typed # <<>>
  /\ typed' = Tail(typed)
  /\ LET line == Head(typed) IN
     \/ /\ login = "user" /\ login' = "shell"
        /\ wire' = wire \o Echo(line) \o ShellPrompt
     \/ /\ login = "shell" /\ login' = "marked"
        /\ wire' = wire \o Echo(line) \o Mark
     \/ /\ login = "marked" /\ UNCHANGED login
        /\ wire' = wire \o Echo(line) \o result \o Mark
  /\ signal' = "none"
  /\ UNCHANGED <<connectionVars, socket, unread>>
=============================================================================
