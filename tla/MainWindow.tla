----------------------------- MODULE MainWindow -----------------------------
(***************************************************************************)
(* The desktop client's window: it asks the console every few seconds if   *)
(* the emulator (canoe) runs, with which game and with which saved states, *)
(* and restarts it with a state when a key is pressed.                     *)
(*                                                                         *)
(* A command is syncExecuteCommand, which waits for its answer in an event *)
(* loop of its own: timers, keys and the sockets go on in it.  The slots   *)
(* that wait are a stack of frames, the innermost last; every loop of the  *)
(* stack is told to quit by the same commandReturn, and a slot goes on     *)
(* when its loop has quit and those above it have returned.                *)
(*                                                                         *)
(* The buttons of a controller, which come over inputCo, do what keys do.  *)
(* canoeRunCo is a queue of lines for a second shell.                      *)
(***************************************************************************)
EXTENDS Telnet, FiniteSets

CONSTANTS
  Games,         \* games a user may start on the console
  Saves,         \* bound: game -> the numbers of the states that players save
  NoGame,        \* no game
  MaxInterrupts, \* bound: timers and keys that come while a slot waits
  MaxRuns,       \* bound: loads that canoeRunCo's shell has yet to start
  Drops          \* may the connection be lost?

SaveNumber == 1..4

ASSUME GamesAssumption  == NoGame \notin Games
ASSUME SavesAssumption  == Saves \in [Games -> SUBSET SaveNumber]
ASSUME LinesAssumption ==
  {"pidof", "ps", "ls", "kill canoe", "kill reed", "killall"} \subseteq DOMAIN Rows
ASSUME WindowBounds == MaxInterrupts \in Nat /\ MaxRuns \in Nat
ASSUME DropsAssumption  == Drops \in BOOLEAN

VARIABLES
  timer,                  \* is it running?
  canoeRunning,
  existingSaveState,      \* the numbers whose flag is set
  currentCanoeExecution,  \* [game, load] of the arguments, 0 when none is loaded
  stack,                  \* the slots that wait
  crashed,                \* existingSaveState was indexed out of range
  closing,                \* closeEvent has run
  interrupts,             \* times a slot was called while another one waits
  emulator,               \* the console: [game, load], or NotStarted
  saves,                  \* the console: game -> the numbers of its saved states
  runs,                   \* canoeRunCo: what its shell has yet to start
  printed,                \* history: the line the shell read last, what it printed
  listed                  \* history: the game and the states of the ls read last

windowVars == <<timer, canoeRunning, existingSaveState, currentCanoeExecution,
                stack, crashed, closing, interrupts>>
shellVars == <<emulator, saves, printed, listed>>
vars == <<telnetVars, windowVars, shellVars, runs>>

Execution(g, n) == [game |-> g, load |-> n]
NotStarted == Execution(NoGame, 0)

\* The line a slot waits for, and what its loop was told.
Frame(line, number, loop) == [line |-> line, number |-> number, loop |-> loop]
Top == stack[Len(stack)]
Below == SubSeq(stack, 1, Len(stack) - 1)
Waiting == {i \in 1..Len(stack) : stack[i].loop = "runs"}

PidofCanoe == Line("pidof", NoGame)
PsCanoe    == Line("ps", NoGame)
LsSaves(g) == Line("ls", g)
KillCanoe  == Line("kill canoe", NoGame)
KillReed   == Line("kill reed", NoGame)
KillHexdump == Line("killall", NoGame)

Init ==
  /\ m_state = "Offline" /\ m_istate = "AttemptConnection"
  /\ readBuffer = <<>> /\ calcSizeSent = 0 /\ lastCommandReturn = <<>>
  /\ socket = "connecting" /\ unread = <<>>
  /\ wire = <<>> /\ typed = <<>> /\ login = "none" /\ signal = "none"
  /\ timer = FALSE /\ canoeRunning = FALSE /\ existingSaveState = {}
  /\ currentCanoeExecution = NotStarted /\ stack = <<>>
  /\ crashed = FALSE /\ closing = FALSE /\ interrupts = 0
  /\ emulator = NotStarted /\ runs = <<>>
  /\ saves \in [Games -> SUBSET SaveNumber] /\ \A g \in Games : saves[g] \subseteq Saves[g]
  /\ printed = [line |-> User, result |-> <<>>] /\ listed = [game |-> NoGame, states |-> {}]

-----------------------------------------------------------------------------
(* syncExecuteCommand: the loop of a frame, and what it returns.  Once the  *)
(* application quits, a loop ends as soon as it is entered.                 *)

Sync(frames, line, number) ==
  /\ IF CanExecute
     THEN /\ ExecuteCommand(line)
          /\ stack' = Append(frames, Frame(line, number, IF closing THEN "quit" ELSE "runs"))
     ELSE /\ stack' = Append(frames, Frame(line, number, "refused"))
          /\ UNCHANGED <<connectionVars, socket, unread, consoleVars>>
  /\ signal' = "none"

\* The slot ends without another command.
Return ==
  /\ stack' = Below
  /\ signal' = "none"
  /\ UNCHANGED <<connectionVars, socket, unread, consoleVars>>

Result == IF Top.loop = "refused" THEN <<>> ELSE lastCommandReturn

Resumes(cmd) ==
  /\ stack # <<>> /\ ~crashed
  /\ Top.line.cmd = cmd /\ Top.loop # "runs"

\* Mutant: only the innermost loop is told.
QuitInnermost(frames) ==
  [i \in DOMAIN frames |-> IF i = Len(frames) THEN [frames[i] EXCEPT !.loop = "quit"] ELSE frames[i]]

\* commandReturn is connected to quit of every loop.
Quit(frames) ==
  [i \in DOMAIN frames |-> IF frames[i].loop = "runs" THEN [frames[i] EXCEPT !.loop = "quit"]
                                                      ELSE frames[i]]

Up == ~crashed /\ ~closing

\* The window's slots are called from any loop, the innermost one too.
Interrupt ==
  /\ Up
  /\ \/ stack = <<>> /\ UNCHANGED interrupts
     \/ stack # <<>> /\ interrupts < MaxInterrupts /\ interrupts' = interrupts + 1

-----------------------------------------------------------------------------
(* onTimerTick and the slots it reaches.                                   *)

\* A timer's slot does not run inside itself, whatever loops it runs.
OnTimerTick ==
  /\ timer /\ Interrupt /\ CanExecute
  /\ \A i \in 1..Len(stack) : stack[i].line.cmd \notin {"pidof", "ps", "ls"}
  /\ Sync(stack, PidofCanoe, 0)
  /\ UNCHANGED <<timer, canoeRunning, existingSaveState, currentCanoeExecution,
                 crashed, closing, shellVars, runs>>

IsOutput(cell, cmd) == cell.what = "output" /\ cell.cmd = cmd
IsOne(result) ==
  Len(result) = 1 /\ IsOutput(result[1], "pidof") /\ result[1].value = "1"

\* Mutant: onCanoeStopped leaves the flags.
TickReturnsKeepsFlags ==
  /\ Resumes("pidof")
  /\ canoeRunning' = IsOne(Result)
  /\ IF ~canoeRunning /\ canoeRunning' THEN Sync(Below, PsCanoe, 0) ELSE Return
  /\ UNCHANGED <<timer, existingSaveState, currentCanoeExecution, crashed, closing, interrupts, shellVars, runs>>

\* The tick goes on; onCanoeStarted and onCanoeStopped are called in it.
TickReturns ==
  /\ Resumes("pidof")
  /\ canoeRunning' = IsOne(Result)
  /\ IF ~canoeRunning /\ canoeRunning' THEN Sync(Below, PsCanoe, 0) ELSE Return
  /\ existingSaveState' = IF canoeRunning /\ ~canoeRunning' THEN {} ELSE existingSaveState
  /\ UNCHANGED <<timer, currentCanoeExecution, crashed, closing, interrupts, shellVars, runs>>

\* The arguments of the first process in an answer: those after --sram-file.
Processes(result) == {i \in DOMAIN result : IsOutput(result[i], "ps")}
FirstProcess(result) ==
  result[CHOOSE i \in Processes(result) : \A j \in Processes(result) : i <= j].value

PsReturns ==
  /\ Resumes("ps")
  /\ IF Processes(Result) = {}
     THEN Return /\ UNCHANGED currentCanoeExecution
     ELSE /\ currentCanoeExecution' = FirstProcess(Result)
          /\ Sync(Below, LsSaves(FirstProcess(Result).game), 0)
  /\ UNCHANGED <<timer, canoeRunning, existingSaveState, crashed, closing, interrupts, shellVars, runs>>

\* The last character of each line is a number, less one an index; 0 is any
\* character that is no digit, and a line's last cell is what it ends with.
NumberOf(cell) ==
  CASE IsOutput(cell, "ls")                            -> cell.value
    [] IsOutput(cell, "pidof") /\ cell.value = "1"     -> 1
    [] cell.what = "mark2"                             -> 4
    [] OTHER                                           -> 0
EndsLine(result, i) == i = Len(result) \/ result[i].what \notin {"mark1", "mark2"}

\* Mutant: an answer without lines is taken for one empty line.
NumbersOfNothing(result) ==
  IF result = <<>> THEN {0}
  ELSE {NumberOf(result[i]) : i \in {j \in DOMAIN result : EndsLine(result, j)}}

Numbers(result) ==
  {NumberOf(result[i]) : i \in {j \in DOMAIN result : EndsLine(result, j)}}

LsReturns ==
  /\ Resumes("ls")
  /\ crashed' = ~(Numbers(Result) \subseteq SaveNumber)
  /\ existingSaveState' = existingSaveState \cup (Numbers(Result) \cap SaveNumber)
  /\ Return
  /\ UNCHANGED <<timer, canoeRunning, currentCanoeExecution, closing, interrupts, shellVars, runs>>

-----------------------------------------------------------------------------
(* keyPressEvent and buttonPressed: executeCanoe.                          *)

\* Mutant: the flag is not looked at.
KeyPressEventUnchecked(n) ==
  /\ Interrupt /\ Len(runs) < MaxRuns
  /\ canoeRunning
  /\ currentCanoeExecution' = [currentCanoeExecution EXCEPT !.load = n]
  /\ Sync(stack, KillCanoe, n)
  /\ UNCHANGED <<timer, canoeRunning, existingSaveState, crashed, closing, shellVars, runs>>

KeyPressEvent(n) ==
  /\ Interrupt /\ Len(runs) < MaxRuns
  /\ canoeRunning /\ n \in existingSaveState
  /\ currentCanoeExecution' = [currentCanoeExecution EXCEPT !.load = n]
  /\ Sync(stack, KillCanoe, n)
  /\ UNCHANGED <<timer, canoeRunning, existingSaveState, crashed, closing, shellVars, runs>>

CanoeKilled ==
  /\ Resumes("kill canoe")
  /\ Sync(Below, KillReed, Top.number)
  /\ UNCHANGED <<timer, canoeRunning, existingSaveState, currentCanoeExecution,
                 crashed, closing, interrupts, shellVars, runs>>

\* canoeRunCo->executeCommand, with the arguments as they are by now.
ReedKilled ==
  /\ Resumes("kill reed")
  /\ runs' = Append(runs, currentCanoeExecution)
  /\ Return
  /\ UNCHANGED <<timer, canoeRunning, existingSaveState, currentCanoeExecution,
                 crashed, closing, interrupts, shellVars>>

-----------------------------------------------------------------------------
(* closeEvent.                                                             *)

CloseEvent ==
  /\ Interrupt
  /\ Sync(stack, KillHexdump, 0)
  /\ UNCHANGED <<timer, canoeRunning, existingSaveState, currentCanoeExecution,
                 crashed, closing, shellVars, runs>>

\* The connection is closed; the last window's end makes all loops quit.
CloseReturns ==
  /\ Resumes("killall")
  /\ CloseConnection
  /\ closing' = TRUE /\ signal' = "none"
  /\ stack' = Quit(Below)
  /\ UNCHANGED <<timer, canoeRunning, existingSaveState, currentCanoeExecution, crashed,
                 interrupts, shellVars, runs>>

-----------------------------------------------------------------------------
(* The connection, and the slots connected to its signals.                 *)

Connected ==
  /\ Up
  /\ \/ OnSocketConnected(<<Negotiation>> \o LoginPrompt)
     \/ OnSocketConnected(<<NotRunning>>)
  /\ UNCHANGED <<windowVars, shellVars, runs>>

\* onCommandCoConnectionError, onCommandCoDisconnected: the timer stops.
Refused ==
  /\ Up /\ OnSocketError
  /\ timer' = FALSE
  /\ UNCHANGED <<canoeRunning, existingSaveState, currentCanoeExecution, stack,
                 crashed, closing, interrupts, shellVars, runs>>

Disconnected ==
  /\ Drops /\ Up /\ OnSocketDisconnected
  /\ timer' = FALSE
  /\ UNCHANGED <<canoeRunning, existingSaveState, currentCanoeExecution, stack,
                 crashed, closing, interrupts, shellVars, runs>>

\* onCommandCoConnected starts the timer; commandReturn quits the loops.
Receive ==
  /\ Up
  /\ \E n \in 1..Len(wire) : OnSocketReadReady(n)
  /\ timer' = CASE signal' = "connected" -> TRUE
                [] signal' = "notRunning" -> FALSE
                [] OTHER -> timer
  /\ stack' = IF signal' = "commandReturn" THEN Quit(stack) ELSE stack
  /\ UNCHANGED <<canoeRunning, existingSaveState, currentCanoeExecution, crashed,
                 closing, interrupts, shellVars, runs>>

-----------------------------------------------------------------------------
(* The console.                                                            *)

IsUp == emulator # NotStarted

\* What the shell prints for a line.
ResultOf(line) ==
  CASE line.cmd = "pidof" -> <<Output("pidof", IF IsUp THEN "1" ELSE "0")>>
    [] line.cmd = "ps"    -> IF IsUp THEN <<Output("ps", emulator)>> ELSE <<>>
    [] line.cmd = "ls"    ->
         LET s == saves[line.arg]
         IN  [i \in 1..Cardinality(s) |->
                Output("ls", CHOOSE n \in s : Cardinality({m \in s : m <= n}) = i)]
    [] OTHER              -> <<>>

Console ==
  /\ ConsoleReads(ResultOf(Head(typed)))
  /\ emulator' = IF Head(typed).cmd = "kill canoe" THEN NotStarted ELSE emulator
  /\ printed' = IF login = "marked" THEN [line |-> Head(typed), result |-> ResultOf(Head(typed))]
                                    ELSE printed
  /\ listed' = IF login = "marked" /\ Head(typed).cmd = "ls"
               THEN [game |-> Head(typed).arg, states |-> saves[Head(typed).arg]]
               ELSE listed
  /\ UNCHANGED <<windowVars, saves, runs>>

\* The shell of canoeRunCo, in which the emulator it started runs.
ConsoleRuns ==
  /\ runs # <<>> /\ ~IsUp
  /\ emulator' = Head(runs) /\ runs' = Tail(runs)
  /\ signal' = "none"
  /\ UNCHANGED <<connectionVars, socket, unread, consoleVars, windowVars, saves, printed, listed>>

\* What players do, in the menu of the console or in a shell of their own.
UserStarts(g) ==
  /\ ~IsUp /\ emulator' = Execution(g, 0)
  /\ signal' = "none"
  /\ UNCHANGED <<connectionVars, socket, unread, consoleVars, windowVars, saves, printed, listed,
                 runs>>

UserStops ==
  /\ IsUp /\ emulator' = NotStarted
  /\ signal' = "none"
  /\ UNCHANGED <<connectionVars, socket, unread, consoleVars, windowVars, saves, printed, listed,
                 runs>>

UserSaves(g, n) ==
  /\ n \in Saves[g] \ saves[g] /\ saves' = [saves EXCEPT ![g] = @ \cup {n}]
  /\ signal' = "none"
  /\ UNCHANGED <<connectionVars, socket, unread, consoleVars, windowVars, emulator, printed, listed,
                 runs>>

UserDeletes(g, n) ==
  /\ n \in saves[g] /\ saves' = [saves EXCEPT ![g] = @ \ {n}]
  /\ signal' = "none"
  /\ UNCHANGED <<connectionVars, socket, unread, consoleVars, windowVars, emulator, printed, listed,
                 runs>>

-----------------------------------------------------------------------------

Resume  == TickReturns \/ PsReturns \/ LsReturns \/ CanoeKilled \/ ReedKilled \/ CloseReturns
Network == Connected \/ Refused \/ Receive
Events  == OnTimerTick \/ CloseEvent \/ \E n \in SaveNumber : KeyPressEvent(n)
Players ==
  \/ UserStops
  \/ \E g \in Games : \/ UserStarts(g)
                      \/ \E n \in SaveNumber : UserSaves(g, n) \/ UserDeletes(g, n)

Next == Resume \/ Network \/ Disconnected \/ Console \/ ConsoleRuns \/ Events \/ Players

Spec == Init /\ [][Next]_vars /\ WF_vars(Resume) /\ WF_vars(Network) /\ WF_vars(Console)

-----------------------------------------------------------------------------
(* Properties.                                                             *)

CellOK(c) ==
  /\ c.what \in {"negotiation", "offline", "login1", "login2", "shell1", "shell2",
                 "mark1", "mark2", "echo", "output"}
  /\ c.cmd \in DOMAIN Rows \cup {""}
  /\ IsOutput(c, "ls") => c.value \in SaveNumber
  /\ IsOutput(c, "ps") => c.value \in [game : Games, load : {0} \cup SaveNumber]

(* Types of the connection's and the window's state: m_state and m_istate   *)
(* of telnetconnection.h, what travels, and the members of MainWindow.       *)
WindowTypeOK ==
  /\ m_state \in States /\ m_istate \in IStates
  /\ \A s \in {readBuffer, lastCommandReturn, unread, wire} :
       \A i \in DOMAIN s : CellOK(s[i])
  /\ calcSizeSent \in Nat
  /\ existingSaveState \subseteq SaveNumber
  /\ Len(stack) <= MaxInterrupts + 1
  /\ \A i \in DOMAIN stack : stack[i].loop \in {"runs", "quit", "refused"}

(* A slot that goes on has what the shell printed for its own line, which is *)
(* the line the shell read last: all of it, in its order, and nothing else - *)
(* no echo, no prompt, no row of another answer (onSocketReadReady,          *)
(* syncExecuteCommand).  For runs where no slot is called from the loop of   *)
(* another one (MaxInterrupts = 0); FeedbackRemoved is what becomes of an    *)
(* answer when one is.                                                       *)
OwnAnswer ==
  ~closing =>
    \A i \in DOMAIN stack : stack[i].loop = "quit" =>
      /\ printed.line = stack[i].line
      /\ lastCommandReturn = printed.result

(* onSocketReadReady removes the feedback of a command from its answer.      *)
FeedbackRemoved ==
  \A j \in DOMAIN lastCommandReturn : lastCommandReturn[j].what # "echo"

(* Between two commands nothing of an answer is left anywhere, to be taken   *)
(* for a part of the next one.                                               *)
InStep ==
  m_istate = "IReady" =>
    /\ typed = <<>> /\ wire = <<>> /\ unread = <<>> /\ readBuffer = <<>>

(* The flags that executeCanoe trusts are the states that the shell listed   *)
(* last, and it listed them for the game whose arguments would be started:   *)
(* they are no older than the last ls, and never of another game.  Players   *)
(* may have saved and deleted some since (onCanoeStarted reads them once,    *)
(* and nothing reads them again until the emulator was seen stopped).        *)
SavesOfGame ==
  existingSaveState # {} =>
    listed = [game |-> currentCanoeExecution.game, states |-> existingSaveState]

(* A load that executeCanoe hands to canoeRunCo, two answers after it looked *)
(* at the flag, is still of a state in the last list, and of that game.  It  *)
(* is not said that the state still exists: a player may have deleted it.    *)
LoadsListed ==
  [][Len(runs') > Len(runs) =>
       LET started == runs'[Len(runs')]
       IN  started.game = listed.game /\ started.load \in listed.states]_vars

(* onCanoeStarted never indexes existingSaveState out of its four flags.     *)
InRange == ~crashed

(* A loop that waits is told to quit, unless the connection is lost: the     *)
(* prompt of the line sent last is found, whatever was mistaken for the echo *)
(* (syncExecuteCommand, onSocketReadReady).                                  *)
LoopsEnd == (Waiting # {}) ~> (signal = "commandReturn" \/ ~Up \/ m_state = "Offline")

(* A connection that the console greets ends with its prompt changed, the    *)
(* state from which commands are sent (onSocketReadReady).                   *)
LogsIn == (login = "user") ~> (signal = "connected" \/ socket = "unconnected" \/ ~Up)
=============================================================================
