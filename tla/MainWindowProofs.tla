-------------------------- MODULE MainWindowProofs --------------------------
(***************************************************************************)
(* For every number of games, of saved states and of rows, and every cut   *)
(* of what the console writes: the window's types hold whatever interrupts *)
(* a slot, and while no slot is called from the loop of another one each   *)
(* gets the answer to its own line, and keeps the saves of the right game. *)
(***************************************************************************)
EXTENDS MainWindow, Integers, FiniteSetTheorems, SequenceTheorems, TLAPS

-----------------------------------------------------------------------------
(* The types, of any run.                                                  *)

Loaded == [game : Games, load : {0} \cup SaveNumber]
SlotLines == {PidofCanoe, PsCanoe, KillCanoe, KillReed, KillHexdump}
             \cup {LsSaves(g) : g \in Games}
Lines == SlotLines \cup {User, SetPrompt, Exit}

Whats == {"negotiation", "offline", "login1", "login2", "shell1", "shell2",
          "mark1", "mark2", "echo", "output"}
Values == {"", "0", "1"} \cup SaveNumber \cup Loaded
Cell == {c \in [what : Whats, cmd : DOMAIN Rows \cup {""}, value : Values] : CellOK(c)}

Frames == [line : SlotLines, number : {0} \cup SaveNumber, loop : {"runs", "quit", "refused"}]

ConnectionTypes ==
  /\ m_state \in States /\ m_istate \in IStates
  /\ readBuffer \in Seq(Cell) /\ lastCommandReturn \in Seq(Cell)
  /\ unread \in Seq(Cell) /\ wire \in Seq(Cell)
  /\ calcSizeSent \in Nat /\ typed \in Seq(Lines)

\* Slots that trust currentCanoeExecution wait only when it is that of a game.
OfGame(line) == line.cmd \in {"ls", "kill canoe", "kill reed"}
WindowTypes ==
  /\ existingSaveState \subseteq SaveNumber
  /\ currentCanoeExecution \in [game : Games \cup {NoGame}, load : {0} \cup SaveNumber]
  /\ existingSaveState # {} => currentCanoeExecution \in Loaded
  /\ stack \in Seq(Frames) /\ interrupts \in 0..MaxInterrupts /\ Len(stack) <= interrupts + 1
  /\ \A i \in 1..Len(stack) : OfGame(stack[i].line) => currentCanoeExecution \in Loaded
  /\ emulator \in Loaded \cup {NotStarted} /\ runs \in Seq(Loaded)
  /\ saves \in [Games -> SUBSET SaveNumber]
  /\ listed \in [game : Games \cup {NoGame}, states : SUBSET SaveNumber]

TypesInv == ConnectionTypes /\ WindowTypes

-----------------------------------------------------------------------------
(* The dialogue with the console, while no slot is called from a loop.     *)

\* What is yet to be read.
Coming == unread \o wire

Only(cells, whats) == \A i \in 1..Len(cells) : cells[i].what \in whats
AtEnd(cells, what) == \A i \in 1..Len(cells) : cells[i].what = what => i = Len(cells)

\* What ls prints: the numbers of the saved states, in order.
Listed(s) == [i \in 1..Cardinality(s) |->
                CHOOSE n \in s : Cardinality({m \in s : m <= n}) = i]
ListedSaves(s) == [i \in 1..Cardinality(s) |-> Output("ls", Listed(s)[i])]

\* What the shell may print for a line.
IsResult(line, r) ==
  CASE line.cmd = "pidof" -> \E v \in {"0", "1"} : r = <<Output("pidof", v)>>
    [] line.cmd = "ps"    -> r = <<>> \/ \E e \in Loaded : r = <<Output("ps", e)>>
    [] line.cmd = "ls"    -> \E s \in SUBSET SaveNumber : r = ListedSaves(s)
    [] OTHER              -> r = <<>>

\* The line is the one that the shell read last, and printed for.
Told(line) ==
  /\ printed.line = line /\ IsResult(line, printed.result)
  /\ line.cmd = "ls" =>
       listed.game = line.arg /\ printed.result = ListedSaves(listed.states)

Greeted ==
  /\ typed = <<>> /\ readBuffer = <<>> /\ AtEnd(Coming, "login2")
  /\ \/ login = "user" /\ Only(Coming, {"negotiation", "login1", "login2"})
     \/ login = "none" /\ Only(Coming, {"offline"})
LoggingIn ==
  /\ readBuffer = <<>>
  /\ \/ login = "user" /\ typed = <<User>> /\ Coming = <<>>
     \/ /\ login = "shell" /\ typed = <<>>
        /\ Only(Coming, {"echo", "shell1", "shell2"}) /\ AtEnd(Coming, "shell2")
ChangingPrompt ==
  \/ login = "shell" /\ typed = <<SetPrompt>> /\ Coming = <<>> /\ readBuffer = <<>>
  \/ /\ login = "marked" /\ typed = <<>> /\ Coming # <<>>
     /\ readBuffer \o Coming = Echo(SetPrompt) \o Mark
InPrompt ==
  /\ login = "marked" /\ typed = <<>> /\ unread = <<>> /\ wire = <<>> /\ readBuffer = <<>>
\* The line is on its way, or what is left of its echo and its answer is.
Asked(line) ==
  /\ login = "marked" /\ calcSizeSent = Rows[line.cmd]
  /\ \/ typed = <<line>> /\ Coming = <<>> /\ readBuffer = <<>>
     \/ /\ typed = <<>> /\ Len(readBuffer) < Rows[line.cmd] /\ Told(line)
        /\ readBuffer \o Coming = Echo(line) \o (printed.result \o Mark)
Answering(line) ==
  /\ login = "marked" /\ typed = <<>> /\ Coming # <<>> /\ Told(line)
  /\ readBuffer \o Coming = printed.result \o Mark

InFlight == {"DataWritten", "WaitingForCmd"}
Dialogue ==
  /\ m_istate = "Init" => socket = "unconnected" /\ m_state = "Offline"
  /\ m_istate = "AttemptConnection" =>
       socket = "connecting" /\ m_state = "Offline" /\ unread = <<>> /\ readBuffer = <<>>
  /\ m_istate \notin {"Init", "AttemptConnection"} => socket = "connected"
  /\ m_istate = "SocketConnected" => m_state = "Offline" /\ Greeted
  /\ m_istate = "LoginWritten" => m_state = "Offline" /\ LoggingIn
  /\ m_istate = "PromptChangeWritten" => m_state = "Offline" /\ ChangingPrompt
  /\ m_istate = "PromptChanged" => m_state = "Connected" /\ InPrompt
  /\ m_istate = "IReady" => m_state = "Ready" /\ InPrompt
  /\ m_istate \in InFlight => m_state # "Offline" /\ stack # <<>> /\ Top.loop = "runs"
  /\ m_istate = "DataWritten" => Asked(Top.line)
  /\ m_istate = "WaitingForCmd" => Answering(Top.line)

\* What the loop of the slot that waits was told.
Slot ==
  stack # <<>> =>
    /\ Top.loop = "runs" => m_istate \in InFlight \cup {"Init"}
    /\ Top.loop = "quit" => /\ m_istate \in {"IReady", "Init"}
                            /\ Told(Top.line) /\ lastCommandReturn = printed.result
    /\ Top.loop = "refused" => m_istate \notin InFlight

\* The flags, the arguments and what the slot that waits will do with them.
InList(e) == e.game = listed.game /\ e.load \in listed.states
Flags ==
  /\ existingSaveState # {} =>
       canoeRunning /\ listed = [game |-> currentCanoeExecution.game, states |-> existingSaveState]
  /\ stack # <<>> =>
       /\ Top.line.cmd \in {"ps", "ls"} => canoeRunning /\ existingSaveState = {}
       /\ Top.line.cmd = "ls" => Top.line.arg = currentCanoeExecution.game
       /\ Top.line.cmd \in {"kill canoe", "kill reed"} => InList(currentCanoeExecution)
  /\ ~crashed

\* Once the window has closed, the console reads no ls any more.
NoList == socket # "connected" \/ typed \in Seq({line \in Lines : line.cmd # "ls"})
InTurn ==
  /\ Len(stack) <= 1 /\ canoeRunning \in BOOLEAN
  /\ Flags
  /\ closing => stack = <<>> /\ m_istate # "IReady" /\ NoList
  /\ ~closing => Dialogue /\ Slot

-----------------------------------------------------------------------------
(* Lines, cells and answers.                                               *)

\* A set of naturals has a least element.
LEMMA Least ==
  ASSUME NEW S, S \subseteq Nat, S # {}
  PROVE  \E m \in S : \A k \in S : m <= k
<1> DEFINE R == {p \in Nat \X Nat : p[1] < p[2]}
<1>1. R = OpToRel(<, Nat)
  BY DEF OpToRel
<1>2. IsWellFoundedOn(R, Nat)
  BY <1>1, NatLessThanWellFounded
<1>3. PICK m \in S : \A k \in S : <<k, m>> \notin R
  BY <1>2, WFMin
<1>4. ASSUME NEW k \in S PROVE m <= k
  <2>1. k \in Nat /\ m \in Nat
    OBVIOUS
  <2>2. ~(k < m)
    BY <1>3, <2>1
  <2>3. QED
    BY <2>1, <2>2
<1>5. QED
  BY <1>4

\* The commands, and the rows that each of them takes.
LEMMA LineTypes ==
  ASSUME NEW line \in Lines
  PROVE  /\ line.cmd \in DOMAIN Rows /\ Rows[line.cmd] \in Nat /\ Rows[line.cmd] >= 1
         /\ line.cmd \in {"pidof", "ps", "ls", "kill canoe", "kill reed", "killall",
                          "root", "PS1", "exit"}
         /\ line.cmd = "ls" => line.arg \in Games
<1>1. /\ line.cmd \in {"pidof", "ps", "ls", "kill canoe", "kill reed", "killall",
                       "root", "PS1", "exit"}
      /\ line.cmd = "ls" => line.arg \in Games
  <2>0. \A c, a : Line(c, a).cmd = c /\ Line(c, a).arg = a
    BY DEF Line
  <2>1. CASE line \in {PidofCanoe, PsCanoe, KillCanoe, KillReed, KillHexdump}
    <3>1. /\ PidofCanoe.cmd = "pidof" /\ PsCanoe.cmd = "ps" /\ KillCanoe.cmd = "kill canoe"
          /\ KillReed.cmd = "kill reed" /\ KillHexdump.cmd = "killall"
      BY <2>0 DEF PidofCanoe, PsCanoe, KillCanoe, KillReed, KillHexdump
    <3>2. line.cmd \in {"pidof", "ps", "kill canoe", "kill reed", "killall"}
      BY <2>1, <3>1
    <3>3. QED
      BY <3>2
  <2>2. CASE line \in {LsSaves(g) : g \in Games}
    <3>1. PICK g \in Games : line = LsSaves(g)
      BY <2>2
    <3>2. line.cmd = "ls" /\ line.arg = g
      BY <2>0, <3>1 DEF LsSaves
    <3>3. QED
      BY <3>1, <3>2
  <2>3. CASE line \in {User, SetPrompt, Exit}
    <3>1. line.cmd \in {"root", "PS1", "exit"}
      BY <2>0, <2>3, Zenon DEF User, SetPrompt, Exit
    <3>2. QED
      BY <3>1
  <2>4. QED
    BY <2>1, <2>2, <2>3 DEF Lines, SlotLines
<1>2. line.cmd \in DOMAIN Rows
  BY <1>1, RowsAssumption, LinesAssumption
<1>3. Rows[line.cmd] \in Nat \ {0}
  BY <1>2, RowsAssumption
<1>4. Rows[line.cmd] \in Nat /\ Rows[line.cmd] >= 1
  <2> DEFINE n == Rows[line.cmd]
  <2>1. n \in Nat \ {0}
    BY <1>3
  <2> HIDE DEF n
  <2>2. n \in Nat /\ n >= 1
    BY <2>1
  <2>3. QED
    BY <2>2 DEF n
<1>5. QED
  BY <1>1, <1>2, <1>4, Zenon

\* A row, a prompt or a line of output is a cell.
LEMMA TextType ==
  ASSUME NEW what \in Whats, what # "output"
  PROVE  Text(what) \in Cell /\ Text(what).what = what
BY DEF Text, Cell, CellOK, IsOutput, Values, Whats

LEMMA EchoType ==
  ASSUME NEW line \in Lines
  PROVE  /\ Echo(line) \in Seq(Cell) /\ Len(Echo(line)) = Rows[line.cmd]
         /\ \A i \in 1..Len(Echo(line)) : Echo(line)[i].what = "echo"
<1> DEFINE c == [Text("echo") EXCEPT !.cmd = line.cmd]
           n == Rows[line.cmd]
<1>1. n \in Nat /\ line.cmd \in DOMAIN Rows
  BY LineTypes
<1>2. c.what = "echo" /\ c.cmd = line.cmd /\ c.value = ""
      /\ c \in [what : Whats, cmd : DOMAIN Rows \cup {""}, value : Values]
  BY <1>1 DEF Text, Whats, Values
<1>3. c \in Cell
  BY <1>2 DEF Cell, CellOK, IsOutput, Whats
<1>4. Echo(line) = [i \in 1..n |-> c]
  BY DEF Echo
<1> HIDE DEF c, n
<1>5. [i \in 1..n |-> c] \in Seq(Cell) /\ Len([i \in 1..n |-> c]) = n
  BY <1>1, <1>3
<1>6. QED
  BY <1>1, <1>2, <1>4, <1>5 DEF n

LEMMA PromptTypes ==
  /\ LoginPrompt \in Seq(Cell) /\ Len(LoginPrompt) = 2 /\ DOMAIN LoginPrompt = 1..2
  /\ LoginPrompt[1].what = "login1" /\ LoginPrompt[2].what = "login2"
  /\ ShellPrompt \in Seq(Cell) /\ Len(ShellPrompt) = 2 /\ DOMAIN ShellPrompt = 1..2
  /\ ShellPrompt[1].what = "shell1" /\ ShellPrompt[2].what = "shell2"
  /\ Mark \in Seq(Cell) /\ Len(Mark) = 2 /\ DOMAIN Mark = 1..2
  /\ Mark[1].what = "mark1" /\ Mark[2].what = "mark2"
  /\ <<Negotiation>> \in Seq(Cell) /\ Len(<<Negotiation>>) = 1 /\ DOMAIN <<Negotiation>> = 1..1
  /\ Negotiation.what = "negotiation"
  /\ <<NotRunning>> \in Seq(Cell) /\ Len(<<NotRunning>>) = 1 /\ DOMAIN <<NotRunning>> = 1..1
  /\ NotRunning.what = "offline"
<1>1. \A a, b \in Cell : /\ <<a, b>> \in Seq(Cell) /\ Len(<<a, b>>) = 2 /\ DOMAIN <<a, b>> = 1..2
                         /\ <<a, b>>[1] = a /\ <<a, b>>[2] = b
  OBVIOUS
<1>2. \A a \in Cell : <<a>> \in Seq(Cell) /\ Len(<<a>>) = 1 /\ DOMAIN <<a>> = 1..1 /\ <<a>>[1] = a
  OBVIOUS
<1>3. \A w \in Whats \ {"output"} : Text(w) \in Cell /\ Text(w).what = w
  BY TextType
<1>4. {"login1", "login2", "shell1", "shell2", "mark1", "mark2", "negotiation", "offline"}
        \subseteq Whats \ {"output"}
  BY DEF Whats
<1> HIDE DEF Whats
<1>5. LoginPrompt = <<Text("login1"), Text("login2")>> /\ ShellPrompt = <<Text("shell1"), Text("shell2")>>
      /\ Mark = <<Text("mark1"), Text("mark2")>>
      /\ Negotiation = Text("negotiation") /\ NotRunning = Text("offline")
  BY DEF LoginPrompt, ShellPrompt, Mark, Negotiation, NotRunning
<1>6. /\ Text("login1") \in Cell /\ Text("login2") \in Cell
      /\ Text("login1").what = "login1" /\ Text("login2").what = "login2"
  BY <1>3, <1>4
<1>7. /\ Text("shell1") \in Cell /\ Text("shell2") \in Cell
      /\ Text("shell1").what = "shell1" /\ Text("shell2").what = "shell2"
  BY <1>3, <1>4
<1>8. /\ Text("mark1") \in Cell /\ Text("mark2") \in Cell
      /\ Text("mark1").what = "mark1" /\ Text("mark2").what = "mark2"
  BY <1>3, <1>4
<1>9. /\ Text("negotiation") \in Cell /\ Text("offline") \in Cell
      /\ Text("negotiation").what = "negotiation" /\ Text("offline").what = "offline"
  BY <1>3, <1>4
<1>10. QED
  BY <1>1, <1>2, <1>5, <1>6, <1>7, <1>8, <1>9

\* The shell lists the numbers of the saved states, each once: what ls prints
\* is a sequence of them with all of them in it.
LEMMA SavesListed ==
  ASSUME NEW s \in SUBSET SaveNumber
  PROVE  /\ Cardinality(s) \in Nat
         /\ \A i \in 1..Cardinality(s) : Listed(s)[i] \in s
         /\ \A n \in s : \E i \in 1..Cardinality(s) : Listed(s)[i] = n
<1> DEFINE upTo(n) == {m \in s : m <= n}
           rank(n) == Cardinality(upTo(n))
           c == Cardinality(s)
<1>1. s \subseteq Nat /\ IsFiniteSet(s) /\ c \in Nat
  <2>1. IsFiniteSet(SaveNumber)
    <3>1. IsFiniteSet(1..4)
      BY 1 \in Int, 4 \in Int, FS_Interval, Zenon
    <3>2. QED
      BY <3>1 DEF SaveNumber
  <2>2. IsFiniteSet(s)
    BY <2>1, FS_Subset
  <2>3. QED
    BY <2>2, FS_CardinalityType DEF SaveNumber
<1>2. ASSUME NEW n \in s
      PROVE  IsFiniteSet(upTo(n)) /\ rank(n) \in 1..c
  <2>1. upTo(n) \in SUBSET s /\ n \in upTo(n)
    BY <1>1
  <2> HIDE DEF upTo
  <2>2. IsFiniteSet(upTo(n)) /\ Cardinality(upTo(n)) <= c
    BY <1>1, <2>1, FS_Subset
  <2>3. Cardinality(upTo(n)) \in Nat /\ Cardinality(upTo(n)) # 0
    BY <2>1, <2>2, FS_CardinalityType, FS_EmptySet
  <2>4. QED
    BY <1>1, <2>2, <2>3
<1>3. ASSUME NEW n \in s, NEW k \in s, n < k
      PROVE  rank(n) # rank(k)
  <2>1. upTo(n) \in SUBSET upTo(k) /\ k \in upTo(k) /\ k \notin upTo(n)
    <3>1. n \in Nat /\ k \in Nat /\ k <= k /\ ~(k <= n) /\ \A m \in s : m <= n => m <= k
      BY <1>1, <1>3
    <3>2. QED
      BY <3>1
  <2>2. IsFiniteSet(upTo(k))
    BY <1>2
  <2> HIDE DEF upTo
  <2>3. QED
    BY <2>1, <2>2, FS_Subset
<1>4. \A n, k \in s : rank(n) = rank(k) => n = k
  BY <1>1, <1>3
<1>5. \A i \in 1..c : \E n \in s : rank(n) = i
  <2> DEFINE f == [n \in s |-> rank(n)]
  <2>1. f \in Injection(s, 1..c)
    <3>1. f \in [s -> 1..c]
      BY <1>2
    <3>2. \A n, k \in DOMAIN f : f[n] = f[k] => n = k
      BY <1>4
    <3> HIDE DEF f
    <3>3. QED
      BY <3>1, <3>2 DEF Injection, IsInjective
  <2>2. IsFiniteSet(1..c) /\ Cardinality(1..c) = c
    BY <1>1, FS_Interval
  <2> HIDE DEF f
  <2>3. f \in Surjection(s, 1..c)
    BY <2>1, <2>2, FS_Injection
  <2>4. \A i \in 1..c : \E n \in s : f[n] = i
    BY <2>3 DEF Surjection
  <2>5. QED
    BY <2>4 DEF f
<1> HIDE DEF rank
<1>6. \A i \in 1..c : Listed(s)[i] \in s /\ rank(Listed(s)[i]) = i
  BY <1>5 DEF Listed, rank
<1>7. \A n \in s : Listed(s)[rank(n)] = n
  BY <1>2, <1>4, <1>6
<1>8. QED
  BY <1>1, <1>2, <1>6, <1>7

\* What the shell may print are cells of output, all of them of the line.
LEMMA ResultCells ==
  ASSUME NEW line \in Lines, NEW r, IsResult(line, r)
  PROVE  /\ r \in Seq(Cell)
         /\ \A i \in 1..Len(r) : r[i] \in Cell /\ r[i].what = "output" /\ r[i].cmd = line.cmd
<1>1. /\ line.cmd \in DOMAIN Rows
      /\ line.cmd = "ls" => line.arg \in Games
  BY LineTypes
<1>2. \A c \in DOMAIN Rows, v \in Values :
        (c = "ls" => v \in SaveNumber) /\ (c = "ps" => v \in Loaded)
          => /\ Output(c, v) \in Cell /\ Output(c, v).what = "output" /\ Output(c, v).cmd = c
             /\ Output(c, v).value = v
  BY DEF Output, Cell, CellOK, IsOutput, Whats, Loaded
<1>3. \A c \in Cell : <<c>> \in Seq(Cell) /\ Len(<<c>>) = 1 /\ <<c>>[1] = c
  OBVIOUS
<1>4. <<>> \in Seq(Cell) /\ Len(<<>>) = 0
  BY EmptySeq
<1>5. CASE line.cmd = "pidof"
  <2>1. PICK v \in {"0", "1"} : r = <<Output("pidof", v)>>
    BY <1>5 DEF IsResult
  <2>2. v \in Values
    BY <2>1 DEF Values
  <2>3. Output("pidof", v) \in Cell /\ Output("pidof", v).what = "output" /\ Output("pidof", v).cmd = "pidof"
    BY <1>1, <1>2, <1>5, <2>2
  <2>4. QED
    BY <1>3, <1>5, <2>1, <2>3
<1>6. CASE line.cmd = "ps"
  <2>1. r = <<>> \/ \E e \in Loaded : r = <<Output("ps", e)>>
    BY <1>6 DEF IsResult
  <2>2. CASE r = <<>>
    BY <1>4, <2>2
  <2>3. ASSUME NEW e \in Loaded, r = <<Output("ps", e)>>
        PROVE  /\ r \in Seq(Cell)
               /\ \A i \in 1..Len(r) : r[i] \in Cell /\ r[i].what = "output" /\ r[i].cmd = line.cmd
    <3>1. e \in Values
      BY DEF Values
    <3>2. /\ Output("ps", e) \in Cell
          /\ Output("ps", e).what = "output" /\ Output("ps", e).cmd = "ps"
      BY <1>1, <1>2, <1>6, <3>1
    <3>3. QED
      BY <1>3, <1>6, <2>3, <3>2
  <2>4. QED
    BY <2>1, <2>2, <2>3
<1>7. CASE line.cmd = "ls"
  <2>1. PICK s \in SUBSET SaveNumber : r = ListedSaves(s)
    BY <1>7 DEF IsResult
  <2> DEFINE n == Cardinality(s)
  <2>2. r = [i \in 1..n |-> Output("ls", Listed(s)[i])]
    BY <2>1 DEF ListedSaves
  <2>3. n \in Nat /\ \A i \in 1..n : Listed(s)[i] \in SaveNumber
    BY <2>1, SavesListed
  <2> HIDE DEF n
  <2>4. \A i \in 1..n : /\ Output("ls", Listed(s)[i]) \in Cell
                        /\ Output("ls", Listed(s)[i]).what = "output"
                        /\ Output("ls", Listed(s)[i]).cmd = "ls"
    <3>1. \A i \in 1..n : Listed(s)[i] \in Values
      BY <2>3 DEF Values
    <3>2. QED
      BY <1>1, <1>2, <1>7, <2>3, <3>1
  <2>5. r \in Seq(Cell) /\ Len(r) = n /\ \A i \in 1..n : r[i] = Output("ls", Listed(s)[i])
    BY <2>2, <2>3, <2>4
  <2>6. QED
    BY <1>7, <2>4, <2>5
<1>8. CASE line.cmd \notin {"pidof", "ps", "ls"}
  <2>1. r = <<>>
    BY <1>8 DEF IsResult
  <2>2. QED
    BY <1>4, <2>1
<1>9. QED
  BY <1>5, <1>6, <1>7, <1>8

LEMMA ResultType ==
  ASSUME NEW line \in Lines, emulator \in Loaded \cup {NotStarted},
         saves \in [Games -> SUBSET SaveNumber]
  PROVE  /\ IsResult(line, ResultOf(line)) /\ ResultOf(line) \in Seq(Cell)
         /\ line.cmd = "ls" => ResultOf(line) = ListedSaves(saves[line.arg])
<1> SUFFICES IsResult(line, ResultOf(line))
             /\ (line.cmd = "ls" => ResultOf(line) = ListedSaves(saves[line.arg]))
  BY ResultCells
<1> DEFINE r == ResultOf(line)
<1>1. CASE line.cmd = "pidof"
  BY <1>1 DEF ResultOf, IsResult
<1>2. CASE line.cmd = "ps"
  BY <1>2 DEF ResultOf, IsResult, IsUp
<1>3. CASE line.cmd = "ls"
  <2> DEFINE s == saves[line.arg]
             n == Cardinality(s)
  <2>1. s \in SUBSET SaveNumber
    BY <1>3, LineTypes
  <2>2. r = [i \in 1..n |-> Output("ls", CHOOSE k \in s : Cardinality({m \in s : m <= k}) = i)]
    BY <1>3 DEF ResultOf
  <2> HIDE DEF r
  <2>3. r = [i \in 1..n |-> Output("ls", Listed(s)[i])]
    BY <2>2 DEF Listed
  <2>4. r = ListedSaves(s)
    BY <2>3 DEF ListedSaves
  <2>5. QED
    BY <1>3, <2>1, <2>4 DEF IsResult, r
<1>4. CASE line.cmd \notin {"pidof", "ps", "ls"}
  BY <1>4 DEF ResultOf, IsResult
<1>5. QED
  BY <1>1, <1>2, <1>3, <1>4

\* A piece of a text.
LEMMA PieceType ==
  ASSUME NEW S, NEW s \in Seq(S), NEW a \in Int, NEW b \in Int, 1 <= a, b <= Len(s)
  PROVE  /\ SubSeq(s, a, b) \in Seq(S)
         /\ Len(SubSeq(s, a, b)) = IF a <= b THEN b - a + 1 ELSE 0
         /\ \A i \in 1..(b - a + 1) : SubSeq(s, a, b)[i] = s[a + i - 1] /\ a + i - 1 \in 1..Len(s)
<1>1. Len(s) \in Nat /\ \A i \in 1..Len(s) : s[i] \in S
  BY LenProperties
<1>2. \A i \in a..b : s[i] \in S
  BY <1>1
<1>3. \A i \in 1..(b - a + 1) : a + i - 1 \in 1..Len(s)
  BY <1>1
<1>4. \A i \in 1..(b - a + 1) : SubSeq(s, a, b)[i] = s[a + i - 1]
  BY <1>2, SubSeqProperties
<1>5. SubSeq(s, a, b) \in Seq(S) /\ Len(SubSeq(s, a, b)) = IF a <= b THEN b - a + 1 ELSE 0
  BY <1>2, SubSeqProperties
<1>6. QED
  BY <1>3, <1>4, <1>5

LEMMA CellsConcat ==
  \A s, t, u \in Seq(Cell) : (s \o t) \o u = s \o (t \o u)
<1> DEFINE C == Cell
<1> HIDE DEF C
<1>1. \A s, t, u \in Seq(C) : (s \o t) \o u = s \o (t \o u)
  BY ConcatAssociative
<1>2. QED
  BY <1>1 DEF C

\* Both parts of a text that is cut are the text.
LEMMA ConcatSubSeqs ==
  ASSUME NEW S, NEW s \in Seq(S), NEW k \in Nat, k <= Len(s)
  PROVE  SubSeq(s, 1, k) \o SubSeq(s, k + 1, Len(s)) = s
<1>1. Len(s) \in Nat
  BY LenProperties
<1>2. 1 \in 1..(Len(s) + 1) /\ k \in (1 - 1)..Len(s) /\ Len(s) \in k..Len(s)
  BY <1>1
<1>3. SubSeq(s, 1, k) \o SubSeq(s, k + 1, Len(s)) = SubSeq(s, 1, Len(s))
  BY <1>2, ConcatAdjacentSubSeq
<1>4. QED
  BY <1>3, SubSeqFull

\* IndexOf finds a place where the pattern lies, if there is one.
Places(text, pattern) ==
  {i \in 1..(Len(text) - Len(pattern) + 1) :
     \A k \in DOMAIN pattern : text[i + k - 1].what = pattern[k].what}
LEMMA IndexFound ==
  ASSUME NEW text \in Seq(Cell), NEW pattern \in Seq(Cell)
  PROVE  /\ Places(text, pattern) = {} => IndexOf(text, pattern) = 0
         /\ Places(text, pattern) # {} => IndexOf(text, pattern) \in Places(text, pattern)
         /\ IndexOf(text, pattern) \in Nat
         /\ IndexOf(text, pattern) # 0 <=> Places(text, pattern) # {}
<1> DEFINE at == Places(text, pattern)
           n == Len(text) - Len(pattern) + 1
<1>1. n \in Int
  BY LenProperties
<1>2. at \subseteq 1..n
  BY DEF Places
<1> HIDE DEF n
<1>3. at \subseteq Nat /\ 0 \notin at
  BY <1>1, <1>2
<1>4. IndexOf(text, pattern) = IF at = {} THEN 0 ELSE CHOOSE i \in at : \A j \in at : i <= j
  BY DEF IndexOf, Places
<1> HIDE DEF at
<1>5. at # {} => IndexOf(text, pattern) \in at
  BY <1>3, <1>4, Least
<1>6. at = {} => IndexOf(text, pattern) = 0
  BY <1>4
<1> DEFINE found == IndexOf(text, pattern)
<1> HIDE DEF found
<1>7. /\ found \in Nat
      /\ found # 0 <=> at # {}
  <2>1. CASE at = {}
    <3>1. found = 0
      BY <1>6, <2>1 DEF found
    <3>2. QED
      BY <2>1, <3>1
  <2>2. CASE at # {}
    <3>1. found \in at
      BY <1>5, <2>2 DEF found
    <3>2. QED
      BY <1>3, <2>2, <3>1
  <2>3. QED
    BY <2>1, <2>2
<1>8. QED
  BY <1>5, <1>6, <1>7 DEF at, found

\* A pattern is not found where one of its cells is not.
LEMMA NotFound ==
  ASSUME NEW text \in Seq(Cell), NEW pattern \in Seq(Cell), NEW k \in DOMAIN pattern,
         \A i \in 1..Len(text) : text[i].what # pattern[k].what
  PROVE  IndexOf(text, pattern) = 0
<1>1. /\ Len(text) \in Nat /\ Len(pattern) \in Nat /\ k \in 1..Len(pattern)
  BY LenProperties
<1>2. ASSUME NEW i \in Places(text, pattern) PROVE FALSE
  <2>1. i \in 1..(Len(text) - Len(pattern) + 1) /\ text[i + k - 1].what = pattern[k].what
    BY DEF Places
  <2>2. i + k - 1 \in 1..Len(text)
    BY <1>1, <2>1
  <2>3. QED
    BY <2>1, <2>2
<1>3. QED
  BY <1>2, IndexFound

\* What is left of a text when a piece of it is taken out are cells of it.
LEMMA CutType ==
  ASSUME NEW text \in Seq(Cell), NEW at \in Nat, NEW n \in Nat, 1 <= at, at + n <= Len(text) + 1
  PROVE  /\ Cut(text, at, n) \in Seq(Cell)
         /\ \A i \in 1..Len(Cut(text, at, n)) : \E j \in 1..Len(text) : Cut(text, at, n)[i] = text[j]
<1> DEFINE l == SubSeq(text, 1, at - 1)
           r == SubSeq(text, at + n, Len(text))
           c == l \o r
<1>1. Len(text) \in Nat
  BY LenProperties
<1>2. /\ l \in Seq(Cell) /\ Len(l) = at - 1
      /\ \A i \in 1..(at - 1) : l[i] = text[i] /\ i \in 1..Len(text)
  <2>1. /\ l \in Seq(Cell) /\ Len(l) = IF 1 <= at - 1 THEN (at - 1) - 1 + 1 ELSE 0
        /\ \A i \in 1..((at - 1) - 1 + 1) : l[i] = text[1 + i - 1] /\ 1 + i - 1 \in 1..Len(text)
    BY <1>1, PieceType
  <2>2. QED
    BY <2>1
<1>3. /\ r \in Seq(Cell) /\ Len(r) \in Nat
      /\ \A i \in 1..Len(r) : r[i] = text[at + n + i - 1] /\ at + n + i - 1 \in 1..Len(text)
  <2>1. /\ r \in Seq(Cell) /\ Len(r) = IF at + n <= Len(text) THEN Len(text) - (at + n) + 1 ELSE 0
        /\ \A i \in 1..(Len(text) - (at + n) + 1) :
             r[i] = text[at + n + i - 1] /\ at + n + i - 1 \in 1..Len(text)
    BY <1>1, PieceType
  <2>2. QED
    BY <1>1, <2>1
<1> HIDE DEF l, r
<1>4. /\ c \in Seq(Cell) /\ Len(c) = Len(l) + Len(r)
      /\ \A i \in 1..(Len(l) + Len(r)) : c[i] = IF i <= Len(l) THEN l[i] ELSE r[i - Len(l)]
  BY <1>2, <1>3, ConcatProperties
<1> HIDE DEF c
<1>5. ASSUME NEW i \in 1..Len(c) PROVE \E j \in 1..Len(text) : c[i] = text[j]
  <2>1. CASE i <= Len(l)
    BY <1>2, <1>3, <1>4, <2>1
  <2>2. CASE ~(i <= Len(l))
    <3> DEFINE k == i - Len(l)
    <3>1. k \in 1..Len(r) /\ c[i] = r[k]
      BY <1>2, <1>3, <1>4, <2>2
    <3> HIDE DEF k
    <3>2. QED
      BY <1>3, <3>1
  <2>3. QED
    BY <2>1, <2>2
<1>6. Cut(text, at, n) = c
  BY DEF Cut, c, l, r
<1>7. QED
  BY <1>4, <1>5, <1>6

\* What is taken out of a read is no more than a telnet command.
LEMMA WithoutCommandType ==
  ASSUME NEW raw \in Seq(Cell)
  PROVE  /\ WithoutCommand(raw) \in Seq(Cell)
         /\ \A i \in 1..Len(WithoutCommand(raw)) :
              \E j \in 1..Len(raw) : WithoutCommand(raw)[i] = raw[j]
         /\ (\A i \in 1..Len(raw) : raw[i].what # "negotiation") => WithoutCommand(raw) = raw
<1> DEFINE p == <<Negotiation>>
           at == IndexOf(raw, p)
<1>1. p \in Seq(Cell) /\ Len(p) = 1 /\ 1 \in DOMAIN p /\ p[1].what = "negotiation"
  BY PromptTypes
<1>2. Len(raw) \in Nat
  BY LenProperties
<1>3. WithoutCommand(raw) = IF at = 0 THEN raw ELSE Cut(raw, at, 1)
  BY DEF WithoutCommand
<1> HIDE DEF p
<1>4. (\A i \in 1..Len(raw) : raw[i].what # "negotiation") => at = 0
  BY <1>1, NotFound
<1>5. at # 0 => at \in 1..Len(raw)
  <2>1. at # 0 => at \in Places(raw, p)
    BY <1>1, IndexFound
  <2> HIDE DEF at
  <2>2. QED
    BY <1>1, <1>2, <2>1 DEF Places
<1> HIDE DEF at
<1>6. CASE at = 0
  BY <1>3, <1>6
<1>7. CASE at # 0
  <2>1. at \in Nat /\ 1 <= at /\ at + 1 <= Len(raw) + 1
    BY <1>2, <1>5, <1>7
  <2>2. /\ Cut(raw, at, 1) \in Seq(Cell)
        /\ \A i \in 1..Len(Cut(raw, at, 1)) : \E j \in 1..Len(raw) : Cut(raw, at, 1)[i] = raw[j]
    BY <2>1, CutType
  <2>3. QED
    BY <1>3, <1>4, <1>7, <2>2
<1>8. QED
  BY <1>6, <1>7

\* One read: what is read and what is left to be read are what there was.
LEMMA ReadTypes ==
  ASSUME NEW u \in Seq(Cell), NEW w \in Seq(Cell), NEW n \in 1..Len(w), NEW size \in Nat,
         size = IF Len(u \o SubSeq(w, 1, n)) < READ THEN Len(u \o SubSeq(w, 1, n)) ELSE READ
  PROVE  LET received == u \o SubSeq(w, 1, n)
             raw == SubSeq(received, 1, size)
             u2 == SubSeq(received, size + 1, Len(received))
             w2 == SubSeq(w, n + 1, Len(w))
         IN  /\ raw \in Seq(Cell) /\ u2 \in Seq(Cell) /\ w2 \in Seq(Cell)
             /\ raw # <<>> /\ raw \o (u2 \o w2) = u \o w
<1> DEFINE w1 == SubSeq(w, 1, n)
           w2 == SubSeq(w, n + 1, Len(w))
           received == u \o w1
           raw == SubSeq(received, 1, size)
           u2 == SubSeq(received, size + 1, Len(received))
<1>1. Len(w) \in Nat /\ n \in Nat /\ 1 <= n /\ n <= Len(w) /\ Len(u) \in Nat
  BY LenProperties
<1>2. /\ w1 \in Seq(Cell) /\ Len(w1) = n /\ w2 \in Seq(Cell) /\ Len(w2) \in Nat
      /\ \A i \in 1..n : w1[i] = w[i]
  <2>1. /\ w1 \in Seq(Cell) /\ Len(w1) = IF 1 <= n THEN n - 1 + 1 ELSE 0
        /\ \A i \in 1..(n - 1 + 1) : w1[i] = w[1 + i - 1] /\ 1 + i - 1 \in 1..Len(w)
    BY <1>1, PieceType
  <2>2. w2 \in Seq(Cell)
    BY <1>1, PieceType
  <2> HIDE DEF w1, w2
  <2>3. QED
    BY <1>1, <2>1, <2>2, LenProperties
<1>3. w1 \o w2 = w
  BY <1>1, ConcatSubSeqs
<1>4. received \in Seq(Cell) /\ Len(received) \in Nat /\ Len(received) >= 1
  <2> HIDE DEF w1
  <2>1. received \in Seq(Cell) /\ Len(received) = Len(u) + Len(w1)
    BY <1>2, ConcatProperties
  <2>2. QED
    BY <1>1, <1>2, <2>1
<1> HIDE DEF received
<1>5. 1 <= size /\ size <= Len(received)
  <2>1. READ \in Nat /\ READ >= 1
    BY ReadAssumption
  <2>2. size = IF Len(received) < READ THEN Len(received) ELSE READ
    BY DEF received
  <2>3. QED
    BY <1>4, <2>1, <2>2
<1>6. raw \in Seq(Cell) /\ Len(raw) >= 1 /\ u2 \in Seq(Cell)
  <2>1. raw \in Seq(Cell) /\ Len(raw) = IF 1 <= size THEN size - 1 + 1 ELSE 0
    BY <1>4, <1>5, PieceType
  <2>2. u2 \in Seq(Cell)
    BY <1>4, <1>5, PieceType
  <2>3. QED
    BY <1>5, <2>1, <2>2
<1>7. raw \o u2 = received
  BY <1>4, <1>5, ConcatSubSeqs
<1> HIDE DEF raw, u2, w2, w1
<1>8. raw \o (u2 \o w2) = (raw \o u2) \o w2
  <2>1. raw \in Seq(Cell) /\ u2 \in Seq(Cell) /\ w2 \in Seq(Cell)
    BY <1>2, <1>6
  <2>2. (raw \o u2) \o w2 = raw \o (u2 \o w2)
    BY <2>1, CellsConcat
  <2>3. QED
    BY <2>2
<1>9. received \o w2 = u \o (w1 \o w2)
  <2>1. u \in Seq(Cell) /\ w1 \in Seq(Cell) /\ w2 \in Seq(Cell)
    BY <1>2
  <2>2. (u \o w1) \o w2 = u \o (w1 \o w2)
    BY <2>1, CellsConcat
  <2>3. QED
    BY <2>2 DEF received
<1>10. raw # <<>>
  BY <1>6, EmptySeq
<1>11. QED
  BY <1>2, <1>3, <1>6, <1>7, <1>8, <1>9, <1>10 DEF raw, u2, w2, w1, received


-----------------------------------------------------------------------------
(* The types hold, whatever interrupts a slot.                             *)

\* The slot that goes on is the last one; the others stay where they are.
LEMMA StackTypes ==
  ASSUME stack \in Seq(Frames), stack # <<>>
  PROVE  /\ Len(stack) \in Nat /\ Len(stack) >= 1
         /\ Top \in Frames /\ Top = stack[Len(stack)]
         /\ Below \in Seq(Frames) /\ Len(Below) = Len(stack) - 1
         /\ \A i \in 1..Len(Below) : Below[i] = stack[i] /\ i \in 1..Len(stack)
<1>1. Len(stack) \in Nat /\ Len(stack) >= 1 /\ \A i \in 1..Len(stack) : stack[i] \in Frames
  BY LenProperties, EmptySeq
<1> DEFINE n == Len(stack)
<1>2. n - 1 \in Int /\ n - 1 <= n
  BY <1>1
<1>3. /\ SubSeq(stack, 1, n - 1) \in Seq(Frames)
      /\ Len(SubSeq(stack, 1, n - 1)) = IF 1 <= n - 1 THEN (n - 1) - 1 + 1 ELSE 0
      /\ \A i \in 1..((n - 1) - 1 + 1) :
           SubSeq(stack, 1, n - 1)[i] = stack[1 + i - 1] /\ 1 + i - 1 \in 1..n
  BY <1>2, PieceType
<1> DEFINE b == SubSeq(stack, 1, n - 1)
<1>4. b \in Seq(Frames) /\ Len(b) = n - 1 /\ \A i \in 1..Len(b) : b[i] = stack[i] /\ i \in 1..n
  <2> HIDE DEF b
  <2>1. Len(b) = IF 1 <= n - 1 THEN (n - 1) - 1 + 1 ELSE 0
    BY <1>3 DEF b
  <2>2. b \in Seq(Frames)
    BY <1>3 DEF b
  <2>3. \A i \in 1..((n - 1) - 1 + 1) : b[i] = stack[1 + i - 1] /\ 1 + i - 1 \in 1..n
    BY <1>3 DEF b
  <2> HIDE DEF n
  <2>4. n \in Nat /\ n >= 1
    BY <1>1 DEF n
  <2>5. Len(b) = n - 1
    BY <2>1, <2>4
  <2>6. \A i \in 1..(n - 1) : b[i] = stack[i] /\ i \in 1..n
    <3>1. \A i \in 1..(n - 1) : i \in 1..((n - 1) - 1 + 1) /\ 1 + i - 1 = i
      BY <2>4
    <3>2. QED
      BY <2>3, <3>1
  <2>7. QED
    BY <2>2, <2>5, <2>6
<1>5. Below = b /\ Top = stack[n]
  BY DEF Below, Top
<1> HIDE DEF b
<1>6. QED
  BY <1>1, <1>4, <1>5

\* Another frame on a stack of them.
LEMMA PushTypes ==
  ASSUME NEW frames \in Seq(Frames), NEW f \in Frames
  PROVE  /\ Append(frames, f) \in Seq(Frames)
         /\ Len(frames) \in Nat /\ Len(Append(frames, f)) = Len(frames) + 1
         /\ \A i \in 1..Len(frames) : Append(frames, f)[i] = frames[i]
         /\ Append(frames, f)[Len(frames) + 1] = f
BY AppendProperties, LenProperties

\* Loops that are told to quit change nothing else.
LEMMA QuitTypes ==
  ASSUME NEW frames \in Seq(Frames)
  PROVE  /\ Quit(frames) \in Seq(Frames) /\ Len(Quit(frames)) = Len(frames)
         /\ \A i \in 1..Len(frames) :
              /\ Quit(frames)[i].line = frames[i].line /\ Quit(frames)[i].number = frames[i].number
              /\ Quit(frames)[i].loop = IF frames[i].loop = "runs" THEN "quit" ELSE frames[i].loop
<1> DEFINE q(f) == IF f.loop = "runs" THEN [f EXCEPT !.loop = "quit"] ELSE f
           n == Len(frames)
<1>1. n \in Nat /\ DOMAIN frames = 1..n /\ \A i \in 1..n : frames[i] \in Frames
  BY LenProperties
<1>2. ASSUME NEW f \in Frames
      PROVE  /\ q(f) \in Frames /\ q(f).line = f.line /\ q(f).number = f.number
             /\ q(f).loop = IF f.loop = "runs" THEN "quit" ELSE f.loop
  BY DEF Frames
<1>3. Quit(frames) = [i \in 1..n |-> q(frames[i])]
  BY <1>1 DEF Quit
<1> HIDE DEF q, n
<1>4. [i \in 1..n |-> q(frames[i])] \in Seq(Frames)
      /\ Len([i \in 1..n |-> q(frames[i])]) = n
  BY <1>1, <1>2
<1>5. QED
  BY <1>1, <1>2, <1>3, <1>4 DEF n

\* A line is written, or not: writeToTelnet.
LEMMA WriteTypes ==
  ASSUME ConnectionTypes, NEW line \in Lines, NEW istate \in IStates, WriteToTelnet(line, istate)
  PROVE  m_istate' \in IStates /\ calcSizeSent' \in Nat /\ typed' \in Seq(Lines)
<1>1. Rows[line.cmd] \in Nat
  BY LineTypes
<1>2. \A s \in Seq(Lines) : Append(s, line) \in Seq(Lines)
  OBVIOUS
<1>3. QED
  BY <1>1, <1>2 DEF ConnectionTypes, WriteToTelnet, IStates

\* syncExecuteCommand.
LEMMA SyncTypes ==
  ASSUME ConnectionTypes, NEW frames \in Seq(Frames), NEW line \in SlotLines,
         NEW number \in {0} \cup SaveNumber, Sync(frames, line, number)
  PROVE  /\ ConnectionTypes'
         /\ stack' \in Seq(Frames) /\ Len(frames) \in Nat /\ Len(stack') = Len(frames) + 1
         /\ \A i \in 1..Len(frames) : stack'[i] = frames[i]
         /\ stack'[Len(frames) + 1].line = line /\ stack'[Len(frames) + 1].number = number
         /\ stack'[Len(frames) + 1].loop =
              IF CanExecute THEN IF closing THEN "quit" ELSE "runs" ELSE "refused"
<1> DEFINE loop == IF CanExecute THEN IF closing THEN "quit" ELSE "runs" ELSE "refused"
           f == Frame(line, number, loop)
<1>1. line \in Lines
  BY DEF Lines
<1>2. f \in Frames /\ f.line = line /\ f.number = number /\ f.loop = loop
  BY DEF Frame, Frames
<1>3. stack' = Append(frames, f)
  BY DEF Sync
<1>4. ConnectionTypes'
  <2>1. CASE CanExecute
    <3>1. WriteToTelnet(line, m_istate)
          /\ UNCHANGED <<m_state, readBuffer, lastCommandReturn, socket, unread, wire, login>>
      BY <2>1 DEF Sync, ExecuteCommand
    <3>2. m_istate \in IStates
      BY DEF ConnectionTypes
    <3>3. m_istate' \in IStates /\ calcSizeSent' \in Nat /\ typed' \in Seq(Lines)
      BY <1>1, <3>1, <3>2, WriteTypes
    <3>4. QED
      BY <3>1, <3>3 DEF ConnectionTypes
  <2>2. CASE ~CanExecute
    BY <2>2 DEF Sync, ConnectionTypes, connectionVars, consoleVars
  <2>3. QED
    BY <2>1, <2>2
<1> HIDE DEF f
<1>5. QED
  BY <1>2, <1>3, <1>4, PushTypes


\* Appending what is read.
LEMMA CellsTypes ==
  /\ \A s, t \in Seq(Cell) : s \o t \in Seq(Cell) /\ Len(s \o t) = Len(s) + Len(t)
  /\ \A s \in Seq(Cell) : Len(s) \in Nat /\ DOMAIN s = 1..Len(s) /\ \A i \in 1..Len(s) : s[i] \in Cell
  /\ <<>> \in Seq(Cell)
<1> DEFINE C == Cell
<1> HIDE DEF C
<1>1. /\ \A s, t \in Seq(C) : s \o t \in Seq(C) /\ Len(s \o t) = Len(s) + Len(t)
      /\ \A s \in Seq(C) : Len(s) \in Nat /\ DOMAIN s = 1..Len(s) /\ \A i \in 1..Len(s) : s[i] \in C
      /\ <<>> \in Seq(C)
  BY ConcatProperties, LenProperties, EmptySeq
<1>2. QED
  BY <1>1 DEF C

LEMMA LineNames == User \in Lines /\ SetPrompt \in Lines /\ Exit \in Lines
BY DEF Lines

\* The login, the change of the prompt and an answer.
LEMMA ReadLoginTypes ==
  ASSUME ConnectionTypes, NEW data \in Seq(Cell), ReadLogin(data)
  PROVE  /\ m_state' \in States /\ m_istate' \in IStates /\ readBuffer' \in Seq(Cell)
         /\ lastCommandReturn' \in Seq(Cell) /\ calcSizeSent' \in Nat /\ typed' \in Seq(Lines)
<1>1. CASE m_istate = "LoginWritten" /\ Has(data, ShellPrompt)
  <2>1. WriteToTelnet(SetPrompt, "PromptChangeWritten")
        /\ UNCHANGED <<m_state, readBuffer, lastCommandReturn>>
    BY <1>1 DEF ReadLogin
  <2>2. m_istate' \in IStates /\ calcSizeSent' \in Nat /\ typed' \in Seq(Lines)
    BY <2>1, WriteTypes, LineNames DEF IStates
  <2>3. QED
    BY <2>1, <2>2 DEF ConnectionTypes
<1>2. CASE ~(m_istate = "LoginWritten" /\ Has(data, ShellPrompt)) /\ Has(data, LoginPrompt)
  <2>1. WriteToTelnet(User, "LoginWritten")
        /\ UNCHANGED <<m_state, readBuffer, lastCommandReturn>>
    BY <1>2, Zenon DEF ReadLogin
  <2>2. m_istate' \in IStates /\ calcSizeSent' \in Nat /\ typed' \in Seq(Lines)
    BY <2>1, WriteTypes, LineNames DEF IStates
  <2>3. QED
    BY <2>1, <2>2 DEF ConnectionTypes
<1>3. CASE ~(m_istate = "LoginWritten" /\ Has(data, ShellPrompt)) /\ ~Has(data, LoginPrompt)
  <2>1. UNCHANGED <<connectionVars, typed>>
    BY <1>3, Zenon DEF ReadLogin
  <2>2. QED
    BY <2>1 DEF ConnectionTypes, connectionVars
<1>4. QED
  BY <1>1, <1>2, <1>3

LEMMA ReadPromptChangeTypes ==
  ASSUME ConnectionTypes, NEW data \in Seq(Cell), ReadPromptChange(data)
  PROVE  /\ m_state' \in States /\ m_istate' \in IStates /\ readBuffer' \in Seq(Cell)
         /\ lastCommandReturn' \in Seq(Cell) /\ calcSizeSent' \in Nat /\ typed' \in Seq(Lines)
<1>1. readBuffer \o data \in Seq(Cell) /\ <<>> \in Seq(Cell)
  BY CellsTypes DEF ConnectionTypes
<1>2. readBuffer' \in Seq(Cell) /\ UNCHANGED <<calcSizeSent, lastCommandReturn, typed>>
  BY <1>1 DEF ReadPromptChange
<1>3. m_istate' \in IStates /\ m_state' \in States
  BY DEF ReadPromptChange, ConnectionTypes, IStates, States
<1>4. QED
  BY <1>2, <1>3 DEF ConnectionTypes

LEMMA ReadAnswerTypes ==
  ASSUME ConnectionTypes, NEW data \in Seq(Cell), ReadAnswer(data)
  PROVE  /\ m_state' \in States /\ m_istate' \in IStates /\ readBuffer' \in Seq(Cell)
         /\ lastCommandReturn' \in Seq(Cell) /\ calcSizeSent' \in Nat /\ typed' \in Seq(Lines)
<1> DEFINE text == readBuffer \o data
           echoed == m_istate = "DataWritten" /\ Len(text) >= calcSizeSent
           waiting == m_istate = "WaitingForCmd" \/ echoed
           answer == IF echoed THEN SubSeq(text, calcSizeSent + 1, Len(text)) ELSE text
           at == IndexOf(answer, Mark)
           cut == Cut(answer, at, Len(Mark))
<1>1. text \in Seq(Cell) /\ Len(text) \in Nat /\ calcSizeSent \in Nat
  BY CellsTypes DEF ConnectionTypes
<1>2. answer \in Seq(Cell) /\ Len(answer) \in Nat
  <2> HIDE DEF text
  <2>1. SubSeq(text, calcSizeSent + 1, Len(text)) \in Seq(Cell)
    BY <1>1, PieceType
  <2>2. answer \in Seq(Cell)
    BY <1>1, <2>1
  <2> HIDE DEF answer
  <2>3. QED
    BY <2>2, CellsTypes
<1>3. IF waiting /\ at # 0
      THEN /\ m_state' = "Ready" /\ m_istate' = "IReady" /\ lastCommandReturn' = cut
           /\ readBuffer' = <<>>
      ELSE /\ m_istate' = IF waiting THEN "WaitingForCmd" ELSE m_istate
           /\ readBuffer' = answer /\ UNCHANGED <<m_state, lastCommandReturn>>
  BY DEF ReadAnswer
<1>4. UNCHANGED <<calcSizeSent, typed>>
  BY DEF ReadAnswer
<1> HIDE DEF text, echoed, answer
<1>5. at # 0 => cut \in Seq(Cell)
  <2>1. Mark \in Seq(Cell) /\ Len(Mark) = 2
    BY PromptTypes
  <2>2. at # 0 => at \in Places(answer, Mark)
    BY <1>2, <2>1, IndexFound
  <2> HIDE DEF at
  <2>3. at # 0 => at \in Nat /\ 1 <= at /\ at + 2 <= Len(answer) + 1
    BY <1>2, <2>1, <2>2 DEF Places
  <2>4. at # 0 => Cut(answer, at, 2) \in Seq(Cell)
    BY <1>2, <2>3, CutType
  <2>5. QED
    BY <2>1, <2>4
<1> HIDE DEF waiting, at, cut
<1>6. QED
  BY <1>2, <1>3, <1>4, <1>5, CellsTypes DEF ConnectionTypes, IStates, States

\* onSocketReadReady.
LEMMA ReceiveTypes ==
  ASSUME ConnectionTypes, NEW n \in 1..Len(wire), OnSocketReadReady(n)
  PROVE  ConnectionTypes'
<1> DEFINE received == unread \o SubSeq(wire, 1, n)
           size == IF Len(received) < READ THEN Len(received) ELSE READ
           raw == SubSeq(received, 1, size)
           data == WithoutCommand(raw)
           u2 == SubSeq(received, size + 1, Len(received))
           w2 == SubSeq(wire, n + 1, Len(wire))
<1>1. size \in Nat
  <2>1. received \in Seq(Cell)
    <3>1. Len(wire) \in Nat /\ n \in Nat /\ n <= Len(wire)
      BY CellsTypes DEF ConnectionTypes
    <3>2. SubSeq(wire, 1, n) \in Seq(Cell)
      BY <3>1, PieceType DEF ConnectionTypes
    <3>3. QED
      BY <3>2, CellsTypes DEF ConnectionTypes
  <2> HIDE DEF received
  <2>2. QED
    BY <2>1, CellsTypes, ReadAssumption
<1>2. raw \in Seq(Cell) /\ u2 \in Seq(Cell) /\ w2 \in Seq(Cell)
  <2>1. unread \in Seq(Cell) /\ wire \in Seq(Cell)
    BY DEF ConnectionTypes
  <2>2. QED
    BY <1>1, <2>1, ReadTypes
<1>3. wire' = w2 /\ unread' = u2
  BY DEF OnSocketReadReady
<1>4. \/ UNCHANGED <<connectionVars, typed>>
      \/ ReadPromptChange(data)
      \/ ReadLogin(data)
      \/ ReadAnswer(data)
  BY DEF OnSocketReadReady
<1> HIDE DEF raw, u2, w2
<1>5. data \in Seq(Cell)
  BY <1>2, WithoutCommandType
<1> HIDE DEF data
<1>6. /\ m_state' \in States /\ m_istate' \in IStates /\ readBuffer' \in Seq(Cell)
      /\ lastCommandReturn' \in Seq(Cell) /\ calcSizeSent' \in Nat /\ typed' \in Seq(Lines)
  <2>1. CASE UNCHANGED <<connectionVars, typed>>
    BY <2>1 DEF ConnectionTypes, connectionVars
  <2>2. CASE ReadPromptChange(data)
    BY <1>5, <2>2, ReadPromptChangeTypes
  <2>3. CASE ReadLogin(data)
    BY <1>5, <2>3, ReadLoginTypes
  <2>4. CASE ReadAnswer(data)
    BY <1>5, <2>4, ReadAnswerTypes
  <2>5. QED
    BY <1>4, <2>1, <2>2, <2>3, <2>4
<1>7. QED
  BY <1>2, <1>3, <1>6 DEF ConnectionTypes

\* The console's answer.
LEMMA ConsoleTypes ==
  ASSUME ConnectionTypes, emulator \in Loaded \cup {NotStarted},
         saves \in [Games -> SUBSET SaveNumber],
         ConsoleReads(ResultOf(Head(typed)))
  PROVE  ConnectionTypes'
<1> DEFINE line == Head(typed)
           r == ResultOf(line)
<1>1. typed # <<>> /\ typed \in Seq(Lines) /\ typed' = Tail(typed)
  BY DEF ConsoleReads, ConnectionTypes
<1>2. line \in Lines /\ typed' \in Seq(Lines)
  BY <1>1, HeadTailProperties
<1> HIDE DEF line
<1>3. Echo(line) \in Seq(Cell) /\ r \in Seq(Cell) /\ ShellPrompt \in Seq(Cell) /\ Mark \in Seq(Cell)
  BY <1>2, EchoType, ResultType, PromptTypes
<1>4. \/ wire' = wire \o Echo(line) \o ShellPrompt
      \/ wire' = wire \o Echo(line) \o Mark
      \/ wire' = wire \o Echo(line) \o r \o Mark
  BY DEF ConsoleReads, line
<1>5. wire \in Seq(Cell) /\ wire \o Echo(line) \in Seq(Cell)
  BY <1>3, CellsTypes DEF ConnectionTypes
<1> HIDE DEF r
<1>6. /\ wire \o Echo(line) \o ShellPrompt \in Seq(Cell)
      /\ wire \o Echo(line) \o Mark \in Seq(Cell)
      /\ wire \o Echo(line) \o r \in Seq(Cell)
  BY <1>3, <1>5, CellsTypes
<1>7. wire \o Echo(line) \o r \o Mark \in Seq(Cell)
  BY <1>3, <1>6, CellsTypes
<1>8. wire' \in Seq(Cell)
  BY <1>4, <1>6, <1>7
<1>9. UNCHANGED <<connectionVars, unread>>
  BY DEF ConsoleReads
<1>10. QED
  BY <1>2, <1>8, <1>9 DEF ConnectionTypes, connectionVars


LEMMA SlotNames ==
  /\ PidofCanoe \in SlotLines /\ PsCanoe \in SlotLines /\ KillCanoe \in SlotLines
  /\ KillReed \in SlotLines /\ KillHexdump \in SlotLines
  /\ \A g \in Games : LsSaves(g) \in SlotLines
  /\ PidofCanoe.cmd = "pidof" /\ PsCanoe.cmd = "ps" /\ KillCanoe.cmd = "kill canoe"
  /\ KillReed.cmd = "kill reed" /\ KillHexdump.cmd = "killall"
  /\ \A g : LsSaves(g).cmd = "ls" /\ LsSaves(g).arg = g
  /\ ~OfGame(PidofCanoe) /\ ~OfGame(PsCanoe) /\ ~OfGame(KillHexdump)
<1>1. \A c, a : Line(c, a).cmd = c /\ Line(c, a).arg = a
  BY DEF Line
<1>2. /\ PidofCanoe.cmd = "pidof" /\ PsCanoe.cmd = "ps" /\ KillCanoe.cmd = "kill canoe"
      /\ KillReed.cmd = "kill reed" /\ KillHexdump.cmd = "killall"
  BY <1>1 DEF PidofCanoe, PsCanoe, KillCanoe, KillReed, KillHexdump
<1>3. \A g : LsSaves(g).cmd = "ls" /\ LsSaves(g).arg = g
  BY <1>1 DEF LsSaves
<1>4. ~OfGame(PidofCanoe) /\ ~OfGame(PsCanoe) /\ ~OfGame(KillHexdump)
  BY <1>2 DEF OfGame
<1>5. QED
  BY <1>2, <1>3, <1>4 DEF SlotLines

\* A slot is called: its frame is put on the stack of those that wait.
LEMMA CallTypes ==
  ASSUME TypesInv, Interrupt, NEW line \in SlotLines, NEW number \in {0} \cup SaveNumber,
         Sync(stack, line, number),
         currentCanoeExecution' # currentCanoeExecution => currentCanoeExecution' \in Loaded,
         OfGame(line) => currentCanoeExecution' \in Loaded,
         UNCHANGED <<existingSaveState, shellVars, runs>>
  PROVE  TypesInv'
<1>1. /\ ConnectionTypes'
      /\ stack' \in Seq(Frames) /\ Len(stack) \in Nat /\ Len(stack') = Len(stack) + 1
      /\ \A i \in 1..Len(stack) : stack'[i] = stack[i]
      /\ stack'[Len(stack) + 1].line = line
  BY SyncTypes DEF TypesInv, WindowTypes
<1>2. interrupts' \in 0..MaxInterrupts /\ Len(stack') <= interrupts' + 1
  <2>1. interrupts \in 0..MaxInterrupts /\ MaxInterrupts \in Nat /\ Len(stack) <= interrupts + 1
    BY WindowBounds DEF TypesInv, WindowTypes
  <2>2. CASE stack = <<>> /\ UNCHANGED interrupts
    BY <1>1, <2>1, <2>2
  <2>3. CASE interrupts < MaxInterrupts /\ interrupts' = interrupts + 1
    BY <1>1, <2>1, <2>3
  <2>4. QED
    BY <2>2, <2>3 DEF Interrupt
<1>3. currentCanoeExecution' \in [game : Games \cup {NoGame}, load : {0} \cup SaveNumber]
  BY DEF TypesInv, WindowTypes, Loaded
<1>4. /\ existingSaveState' \subseteq SaveNumber
      /\ existingSaveState' # {} => currentCanoeExecution' \in Loaded
  BY DEF TypesInv, WindowTypes
<1>5. ASSUME NEW i \in 1..Len(stack'), OfGame(stack'[i].line)
      PROVE  currentCanoeExecution' \in Loaded
  <2>1. CASE i = Len(stack) + 1
    BY <1>1, <1>5, <2>1
  <2>2. CASE i \in 1..Len(stack)
    BY <1>1, <1>5, <2>2 DEF TypesInv, WindowTypes
  <2>3. QED
    BY <1>1, <2>1, <2>2
<1>6. /\ emulator' \in Loaded \cup {NotStarted} /\ runs' \in Seq(Loaded)
      /\ saves' \in [Games -> SUBSET SaveNumber]
      /\ listed' \in [game : Games \cup {NoGame}, states : SUBSET SaveNumber]
  BY DEF TypesInv, WindowTypes, shellVars
<1>7. WindowTypes'
  <2>1. \A i \in 1..Len(stack') : OfGame(stack'[i].line) => currentCanoeExecution' \in Loaded
    BY <1>5
  <2>2. stack' \in Seq(Frames)
    BY <1>1
  <2>3. QED
    BY <1>2, <1>3, <1>4, <1>6, <2>1, <2>2 DEF WindowTypes
<1>8. QED
  BY <1>1, <1>7 DEF TypesInv

\* The slot on top goes on: with another command or, Return, to its end.
LEMMA ResumeTypes ==
  ASSUME TypesInv, stack # <<>>,
         ConnectionTypes', stack' \in Seq(Frames), Len(stack') <= Len(stack),
         \A i \in 1..Len(stack') :
           i < Len(stack) => stack'[i].line = stack[i].line,
         Len(stack') = Len(stack) =>
           (OfGame(stack'[Len(stack)].line) => currentCanoeExecution' \in Loaded),
         currentCanoeExecution' = currentCanoeExecution \/ currentCanoeExecution' \in Loaded,
         existingSaveState' \subseteq SaveNumber,
         existingSaveState' # {} => currentCanoeExecution' \in Loaded,
         runs' \in Seq(Loaded), UNCHANGED <<interrupts, shellVars>>
  PROVE  TypesInv'
<1>1. /\ Len(stack) \in Nat /\ Len(stack) >= 1
      /\ Len(stack') \in Nat
  BY StackTypes, LenProperties DEF TypesInv, WindowTypes
<1>2. interrupts' \in 0..MaxInterrupts /\ Len(stack') <= interrupts' + 1
  BY <1>1, WindowBounds DEF TypesInv, WindowTypes
<1>3. currentCanoeExecution' \in [game : Games \cup {NoGame}, load : {0} \cup SaveNumber]
  BY DEF TypesInv, WindowTypes, Loaded
<1>4. ASSUME NEW i \in 1..Len(stack'), OfGame(stack'[i].line)
      PROVE  currentCanoeExecution' \in Loaded
  <2>1. CASE i < Len(stack)
    <3>1. OfGame(stack[i].line) /\ i \in 1..Len(stack)
      BY <1>1, <1>4, <2>1
    <3>2. currentCanoeExecution \in Loaded
      BY <3>1 DEF TypesInv, WindowTypes
    <3>3. QED
      BY <3>2
  <2>2. CASE ~(i < Len(stack))
    <3>1. Len(stack') = Len(stack) /\ i = Len(stack)
      BY <1>1, <2>2
    <3>2. QED
      BY <1>4, <3>1
  <2>3. QED
    BY <2>1, <2>2
<1>5. /\ emulator' \in Loaded \cup {NotStarted} /\ saves' \in [Games -> SUBSET SaveNumber]
      /\ listed' \in [game : Games \cup {NoGame}, states : SUBSET SaveNumber]
  BY DEF TypesInv, WindowTypes, shellVars
<1>6. WindowTypes'
  BY <1>2, <1>3, <1>4, <1>5 DEF WindowTypes
<1>7. QED
  BY <1>6 DEF TypesInv

\* The frames below the top, and the line of the next command on them.
LEMMA ReturnTypes ==
  ASSUME TypesInv, stack # <<>>, Return
  PROVE  /\ ConnectionTypes' /\ stack' \in Seq(Frames)
         /\ Len(stack) \in Nat /\ Len(stack') = Len(stack) - 1
         /\ \A i \in 1..Len(stack') : stack'[i] = stack[i]
<1>1. stack' = Below /\ UNCHANGED <<connectionVars, socket, unread, consoleVars>>
  BY DEF Return
<1>2. QED
  BY <1>1, StackTypes DEF TypesInv, ConnectionTypes, WindowTypes, connectionVars, consoleVars

LEMMA NextCommandTypes ==
  ASSUME TypesInv, stack # <<>>, NEW line \in SlotLines, NEW number \in {0} \cup SaveNumber,
         Sync(Below, line, number)
  PROVE  /\ ConnectionTypes' /\ stack' \in Seq(Frames)
         /\ Len(stack) \in Nat /\ Len(stack) >= 1 /\ Len(stack') = Len(stack)
         /\ \A i \in 1..Len(stack') : i < Len(stack) => stack'[i] = stack[i]
         /\ stack'[Len(stack)].line = line /\ stack'[Len(stack)].number = number
<1>1. /\ Len(stack) \in Nat /\ Len(stack) >= 1
      /\ Below \in Seq(Frames) /\ Len(Below) = Len(stack) - 1
      /\ \A i \in 1..Len(Below) : Below[i] = stack[i] /\ i \in 1..Len(stack)
  BY StackTypes DEF TypesInv, WindowTypes
<1>2. /\ ConnectionTypes'
      /\ stack' \in Seq(Frames) /\ Len(stack') = Len(Below) + 1
      /\ \A i \in 1..Len(Below) : stack'[i] = Below[i]
      /\ stack'[Len(Below) + 1].line = line /\ stack'[Len(Below) + 1].number = number
  <2>1. ConnectionTypes
    BY DEF TypesInv
  <2>2. QED
    BY <1>1, <2>1, SyncTypes
<1>3. Len(stack') = Len(stack) /\ Len(Below) + 1 = Len(stack)
  BY <1>1, <1>2
<1>4. \A i \in 1..Len(stack') : i < Len(stack) => i \in 1..Len(Below)
  BY <1>1, <1>3
<1>5. QED
  BY <1>1, <1>2, <1>3, <1>4

\* Each slot that goes on.
LEMMA TickReturnsTypes == TypesInv /\ TickReturns => TypesInv'
<1> SUFFICES ASSUME TypesInv, TickReturns PROVE TypesInv'
  OBVIOUS
<1>1. stack # <<>> /\ UNCHANGED <<currentCanoeExecution, interrupts, shellVars, runs>>
      /\ (Sync(Below, PsCanoe, 0) \/ Return)
      /\ existingSaveState' \subseteq existingSaveState
  BY DEF TickReturns, Resumes
<1>2. /\ ConnectionTypes' /\ stack' \in Seq(Frames) /\ Len(stack') <= Len(stack)
      /\ \A i \in 1..Len(stack') : i < Len(stack) => stack'[i] = stack[i]
      /\ Len(stack') = Len(stack) => stack'[Len(stack)].line = PsCanoe
  <2>1. CASE Sync(Below, PsCanoe, 0)
    <3>1. PsCanoe \in SlotLines /\ 0 \in {0} \cup SaveNumber
      BY SlotNames
    <3>2. /\ ConnectionTypes' /\ stack' \in Seq(Frames)
          /\ Len(stack) \in Nat /\ Len(stack') = Len(stack)
          /\ \A i \in 1..Len(stack') : i < Len(stack) => stack'[i] = stack[i]
          /\ stack'[Len(stack)].line = PsCanoe
      BY <1>1, <2>1, <3>1, NextCommandTypes
    <3>3. QED
      BY <3>2
  <2>2. CASE Return
    BY <1>1, <2>2, ReturnTypes
  <2>3. QED
    BY <1>1, <2>1, <2>2
<1>3. /\ existingSaveState' \subseteq SaveNumber
      /\ existingSaveState' # {} => currentCanoeExecution' \in Loaded
      /\ runs' \in Seq(Loaded)
  BY <1>1 DEF TypesInv, WindowTypes
<1>4. \A i \in 1..Len(stack') : i < Len(stack) => stack'[i].line = stack[i].line
  BY <1>2
<1>5. Len(stack') = Len(stack) => ~OfGame(stack'[Len(stack)].line)
  BY <1>2, SlotNames
<1>6. QED
  BY <1>1, <1>2, <1>3, <1>4, <1>5, ResumeTypes

LEMMA FirstProcessType ==
  ASSUME NEW result \in Seq(Cell), Processes(result) # {}
  PROVE  \E i \in 1..Len(result) : /\ FirstProcess(result) = result[i].value
                                   /\ FirstProcess(result) \in Loaded
<1>1. Processes(result) \subseteq 1..Len(result) /\ Len(result) \in Nat
  BY CellsTypes DEF Processes
<1> DEFINE P == Processes(result)
<1>2. P \subseteq Nat
  BY <1>1
<1>3. PICK i \in P : \A j \in P : i <= j
  <2> HIDE DEF P
  <2>1. QED
    BY <1>2, Least DEF P
<1> DEFINE k == CHOOSE x \in P : \A j \in P : x <= j
<1>4. k \in P
  BY <1>3
<1>5. FirstProcess(result) = result[k].value
  BY DEF FirstProcess
<1> HIDE DEF k
<1>6. k \in 1..Len(result) /\ IsOutput(result[k], "ps") /\ result[k] \in Cell
  BY <1>1, <1>4, CellsTypes DEF Processes
<1>7. result[k].value \in Loaded
  BY <1>6 DEF Cell, CellOK, Loaded
<1>8. QED
  BY <1>5, <1>6, <1>7

LEMMA AnswerType ==
  ASSUME TypesInv
  PROVE  Result \in Seq(Cell)
BY CellsTypes DEF Result, TypesInv, ConnectionTypes

LEMMA PsReturnsTypes == TypesInv /\ PsReturns => TypesInv'
<1> SUFFICES ASSUME TypesInv, PsReturns PROVE TypesInv'
  OBVIOUS
<1>1. stack # <<>> /\ UNCHANGED <<existingSaveState, interrupts, shellVars, runs>>
  BY DEF PsReturns, Resumes
<1>2. CASE Processes(Result) = {}
  <2>1. Return /\ UNCHANGED currentCanoeExecution
    BY <1>2 DEF PsReturns
  <2>2. QED
    BY <1>1, <2>1, ReturnTypes, ResumeTypes DEF TypesInv, WindowTypes
<1>3. CASE Processes(Result) # {}
  <2> DEFINE e == FirstProcess(Result)
  <2>1. currentCanoeExecution' = e /\ Sync(Below, LsSaves(e.game), 0)
    BY <1>3 DEF PsReturns
  <2>2. e \in Loaded
    BY <1>3, FirstProcessType, AnswerType
  <2> HIDE DEF e
  <2>3. e.game \in Games
    BY <2>2 DEF Loaded
  <2>4. /\ ConnectionTypes' /\ stack' \in Seq(Frames)
        /\ Len(stack) \in Nat /\ Len(stack') = Len(stack)
        /\ \A i \in 1..Len(stack') : i < Len(stack) => stack'[i] = stack[i]
    BY <1>1, <2>1, <2>3, NextCommandTypes, SlotNames
  <2>5. /\ existingSaveState' \subseteq SaveNumber /\ currentCanoeExecution' \in Loaded
        /\ runs' \in Seq(Loaded)
    BY <1>1, <2>1, <2>2 DEF TypesInv, WindowTypes
  <2>6. QED
    BY <1>1, <2>4, <2>5, ResumeTypes
<1>4. QED
  BY <1>2, <1>3

LEMMA LsReturnsTypes == TypesInv /\ LsReturns => TypesInv'
<1> SUFFICES ASSUME TypesInv, LsReturns PROVE TypesInv'
  OBVIOUS
<1>1. stack # <<>> /\ UNCHANGED <<currentCanoeExecution, interrupts, shellVars, runs>>
      /\ Return /\ existingSaveState' = existingSaveState \cup (Numbers(Result) \cap SaveNumber)
      /\ OfGame(Top.line)
  BY DEF LsReturns, Resumes, OfGame
<1>2. currentCanoeExecution \in Loaded
  BY <1>1, StackTypes DEF TypesInv, WindowTypes
<1>3. existingSaveState' \subseteq SaveNumber /\ runs' \in Seq(Loaded)
  BY <1>1 DEF TypesInv, WindowTypes
<1>4. QED
  BY <1>1, <1>2, <1>3, ReturnTypes, ResumeTypes

LEMMA CanoeKilledTypes == TypesInv /\ CanoeKilled => TypesInv'
<1> SUFFICES ASSUME TypesInv, CanoeKilled PROVE TypesInv'
  OBVIOUS
<1>1. stack # <<>> /\ UNCHANGED <<existingSaveState, currentCanoeExecution, interrupts, shellVars, runs>>
      /\ Sync(Below, KillReed, Top.number) /\ OfGame(Top.line)
  BY DEF CanoeKilled, Resumes, OfGame
<1>2. currentCanoeExecution \in Loaded /\ Top.number \in {0} \cup SaveNumber
  BY <1>1, StackTypes DEF TypesInv, WindowTypes, Frames
<1>3. /\ ConnectionTypes' /\ stack' \in Seq(Frames)
      /\ Len(stack) \in Nat /\ Len(stack') = Len(stack)
      /\ \A i \in 1..Len(stack') : i < Len(stack) => stack'[i] = stack[i]
  BY <1>1, <1>2, NextCommandTypes, SlotNames
<1>4. existingSaveState' \subseteq SaveNumber /\ runs' \in Seq(Loaded)
  BY <1>1 DEF TypesInv, WindowTypes
<1>5. QED
  BY <1>1, <1>2, <1>3, <1>4, ResumeTypes

LEMMA ReedKilledTypes == TypesInv /\ ReedKilled => TypesInv'
<1> SUFFICES ASSUME TypesInv, ReedKilled PROVE TypesInv'
  OBVIOUS
<1>1. stack # <<>> /\ UNCHANGED <<existingSaveState, currentCanoeExecution, interrupts, shellVars>>
      /\ Return /\ OfGame(Top.line) /\ runs' = Append(runs, currentCanoeExecution)
  BY DEF ReedKilled, Resumes, OfGame
<1>2. currentCanoeExecution \in Loaded
  BY <1>1, StackTypes DEF TypesInv, WindowTypes
<1>3. existingSaveState' \subseteq SaveNumber /\ runs' \in Seq(Loaded)
  <2>1. runs \in Seq(Loaded)
    BY DEF TypesInv, WindowTypes
  <2>2. runs' \in Seq(Loaded)
    BY <1>1, <1>2, <2>1, AppendProperties
  <2>3. QED
    BY <1>1, <2>2 DEF TypesInv, WindowTypes
<1>4. QED
  BY <1>1, <1>2, <1>3, ReturnTypes, ResumeTypes

LEMMA CloseReturnsTypes == TypesInv /\ CloseReturns => TypesInv'
<1> SUFFICES ASSUME TypesInv, CloseReturns PROVE TypesInv'
  OBVIOUS
<1>1. stack # <<>> /\ UNCHANGED <<existingSaveState, currentCanoeExecution, interrupts, shellVars, runs>>
      /\ CloseConnection /\ stack' = Quit(Below)
  BY DEF CloseReturns, Resumes
<1>2. ConnectionTypes'
  <2>1. UNCHANGED <<m_state, readBuffer, lastCommandReturn, unread, wire>>
    BY <1>1 DEF CloseConnection
  <2>2. CASE m_state = "Ready"
    <3>1. WriteToTelnet(Exit, m_istate) /\ m_istate \in IStates /\ ConnectionTypes
      BY <1>1, <2>2 DEF CloseConnection, TypesInv, ConnectionTypes
    <3>2. m_istate' \in IStates /\ calcSizeSent' \in Nat /\ typed' \in Seq(Lines)
      BY <3>1, WriteTypes, LineNames
    <3>3. QED
      BY <2>1, <3>2 DEF TypesInv, ConnectionTypes
  <2>3. CASE m_state # "Ready"
    <3>1. UNCHANGED <<m_istate, calcSizeSent, typed>>
      BY <1>1, <2>3 DEF CloseConnection
    <3>2. QED
      BY <2>1, <3>1 DEF TypesInv, ConnectionTypes
  <2>4. QED
    BY <2>2, <2>3
<1>3. /\ stack' \in Seq(Frames) /\ Len(stack) \in Nat /\ Len(stack') = Len(stack) - 1
      /\ \A i \in 1..Len(stack') : stack'[i].line = stack[i].line
  BY <1>1, StackTypes, QuitTypes DEF TypesInv, WindowTypes
<1>4. /\ existingSaveState' \subseteq SaveNumber /\ runs' \in Seq(Loaded)
      /\ existingSaveState' # {} => currentCanoeExecution' \in Loaded
  BY <1>1 DEF TypesInv, WindowTypes
<1>5. QED
  BY <1>1, <1>2, <1>3, <1>4, ResumeTypes


\* Each slot that is called.
LEMMA CallsTypes ==
  TypesInv /\ (OnTimerTick \/ CloseEvent \/ \E n \in SaveNumber : KeyPressEvent(n)) => TypesInv'
<1> SUFFICES ASSUME TypesInv,
                    OnTimerTick \/ CloseEvent \/ \E n \in SaveNumber : KeyPressEvent(n)
             PROVE  TypesInv'
  OBVIOUS
<1>1. CASE OnTimerTick
  <2>1. /\ Interrupt /\ Sync(stack, PidofCanoe, 0)
        /\ UNCHANGED <<existingSaveState, currentCanoeExecution, shellVars, runs>>
    BY <1>1 DEF OnTimerTick
  <2>2. PidofCanoe \in SlotLines /\ 0 \in {0} \cup SaveNumber /\ ~OfGame(PidofCanoe)
    BY SlotNames
  <2>3. QED
    BY <2>1, <2>2, CallTypes
<1>2. CASE CloseEvent
  <2>1. /\ Interrupt /\ Sync(stack, KillHexdump, 0)
        /\ UNCHANGED <<existingSaveState, currentCanoeExecution, shellVars, runs>>
    BY <1>2 DEF CloseEvent
  <2>2. KillHexdump \in SlotLines /\ 0 \in {0} \cup SaveNumber /\ ~OfGame(KillHexdump)
    BY SlotNames
  <2>3. QED
    BY <2>1, <2>2, CallTypes
<1>3. ASSUME NEW n \in SaveNumber, KeyPressEvent(n)
      PROVE  TypesInv'
  <2>1. /\ Interrupt /\ Sync(stack, KillCanoe, n) /\ n \in existingSaveState
        /\ currentCanoeExecution' = [currentCanoeExecution EXCEPT !.load = n]
        /\ UNCHANGED <<existingSaveState, shellVars, runs>>
    BY <1>3 DEF KeyPressEvent
  <2>2. currentCanoeExecution \in Loaded
    BY <2>1 DEF TypesInv, WindowTypes
  <2>3. currentCanoeExecution' \in Loaded
    BY <2>1, <2>2 DEF Loaded
  <2>4. KillCanoe \in SlotLines /\ n \in {0} \cup SaveNumber
    BY SlotNames
  <2>5. QED
    BY <2>1, <2>3, <2>4, CallTypes
<1>4. QED
  BY <1>1, <1>2, <1>3

\* The connection's slots and the console: the window's state stays.
LEMMA NetworkTypes ==
  TypesInv /\ (Network \/ Disconnected \/ Console) => TypesInv'
<1> SUFFICES ASSUME TypesInv, Network \/ Disconnected \/ Console
             PROVE  TypesInv'
  OBVIOUS
<1>1. CASE Connected
  <2>1. UNCHANGED <<existingSaveState, currentCanoeExecution, stack, interrupts, shellVars, runs>>
    BY <1>1 DEF Connected, windowVars
  <2>2. \E greeting \in {<<Negotiation>> \o LoginPrompt, <<NotRunning>>} :
          OnSocketConnected(greeting)
    BY <1>1 DEF Connected
  <2>3. PICK greeting \in {<<Negotiation>> \o LoginPrompt, <<NotRunning>>} :
          OnSocketConnected(greeting)
    BY <2>2
  <2>4. greeting \in Seq(Cell)
    <3>1. <<Negotiation>> \in Seq(Cell) /\ LoginPrompt \in Seq(Cell) /\ <<NotRunning>> \in Seq(Cell)
      BY PromptTypes
    <3>2. QED
      BY <2>3, <3>1, CellsTypes
  <2>5. /\ wire' = greeting /\ typed' = <<>> /\ m_istate' = "SocketConnected"
        /\ UNCHANGED <<m_state, readBuffer, calcSizeSent, lastCommandReturn, unread>>
    BY <2>3 DEF OnSocketConnected
  <2>6. <<>> \in Seq(Lines)
    BY EmptySeq
  <2>7. QED
    BY <2>1, <2>4, <2>5, <2>6 DEF TypesInv, ConnectionTypes, WindowTypes, IStates, shellVars
<1>2. CASE Refused
  BY <1>2 DEF Refused, OnSocketError, consoleVars, TypesInv, ConnectionTypes, WindowTypes, IStates,
              shellVars
<1>3. CASE Disconnected
  <2>1. <<>> \in Seq(Lines) /\ <<>> \in Seq(Cell)
    BY EmptySeq
  <2>2. QED
    BY <1>3, <2>1 DEF Disconnected, OnSocketDisconnected, TypesInv, ConnectionTypes, WindowTypes,
                      IStates, States, shellVars
<1>4. CASE Receive
  <2>1. PICK n \in 1..Len(wire) : OnSocketReadReady(n)
    BY <1>4 DEF Receive
  <2>2. ConnectionTypes'
    BY <2>1, ReceiveTypes DEF TypesInv
  <2>3. /\ UNCHANGED <<existingSaveState, currentCanoeExecution, interrupts, shellVars, runs>>
        /\ stack' = IF signal' = "commandReturn" THEN Quit(stack) ELSE stack
    BY <1>4 DEF Receive
  <2>4. stack' = stack \/ stack' = Quit(stack)
    BY <2>3
  <2>5. /\ stack' \in Seq(Frames) /\ Len(stack') = Len(stack)
        /\ \A i \in 1..Len(stack) : stack'[i].line = stack[i].line
    BY <2>4, QuitTypes DEF TypesInv, WindowTypes
  <2>6. Len(stack') <= interrupts' + 1
    BY <2>3, <2>5 DEF TypesInv, WindowTypes
  <2>7. \A i \in 1..Len(stack') : OfGame(stack'[i].line) => currentCanoeExecution' \in Loaded
    BY <2>3, <2>5 DEF TypesInv, WindowTypes
  <2>8. QED
    BY <2>2, <2>3, <2>5, <2>6, <2>7 DEF TypesInv, WindowTypes, shellVars
<1>5. CASE Console
  <2>1. /\ ConsoleReads(ResultOf(Head(typed))) /\ emulator' \in {emulator, NotStarted}
        /\ UNCHANGED <<windowVars, saves, runs>>
        /\ \/ UNCHANGED listed
           \/ /\ Head(typed).cmd = "ls"
              /\ listed' = [game |-> Head(typed).arg, states |-> saves[Head(typed).arg]]
    BY <1>5 DEF Console
  <2>a. Head(typed) \in Lines
    <3>1. typed # <<>> /\ typed \in Seq(Lines)
      BY <2>1 DEF ConsoleReads, TypesInv, ConnectionTypes
    <3>2. QED
      BY <3>1, HeadTailProperties
  <2>b. listed' \in [game : Games \cup {NoGame}, states : SUBSET SaveNumber]
    <3>1. PICK line \in Lines : line = Head(typed)
      BY <2>a
    <3>2. line.cmd = "ls" => line.arg \in Games
      BY LineTypes
    <3>3. QED
      BY <2>1, <3>1, <3>2 DEF TypesInv, WindowTypes
  <2>2. ConnectionTypes'
    BY <2>1, ConsoleTypes DEF TypesInv, WindowTypes
  <2>3. QED
    BY <2>1, <2>2, <2>b DEF TypesInv, WindowTypes, windowVars
<1>6. QED
  BY <1>1, <1>2, <1>3, <1>4, <1>5 DEF Network

\* The emulator, and those who start and stop it.
LEMMA EmulatorTypes == TypesInv /\ (ConsoleRuns \/ Players) => TypesInv'
<1> SUFFICES ASSUME TypesInv, ConsoleRuns \/ Players PROVE TypesInv'
  OBVIOUS
<1>1. UNCHANGED <<connectionVars, socket, unread, consoleVars, windowVars, listed>>
  BY DEF ConsoleRuns, Players, UserStarts, UserStops, UserSaves, UserDeletes
<1>2. ConnectionTypes'
  BY <1>1 DEF TypesInv, ConnectionTypes, connectionVars, consoleVars
<1>3. /\ emulator' \in Loaded \cup {NotStarted} /\ runs' \in Seq(Loaded)
      /\ saves' \in [Games -> SUBSET SaveNumber]
  <2>1. CASE ConsoleRuns
    <3>1. /\ runs # <<>> /\ runs \in Seq(Loaded) /\ emulator' = Head(runs) /\ runs' = Tail(runs)
          /\ saves' = saves /\ saves \in [Games -> SUBSET SaveNumber]
      BY <2>1 DEF ConsoleRuns, TypesInv, WindowTypes
    <3>2. QED
      BY <3>1, HeadTailProperties
  <2>2. CASE UserStops
    BY <2>2 DEF UserStops, TypesInv, WindowTypes
  <2>3. CASE \E g \in Games : UserStarts(g)
    BY <2>3 DEF UserStarts, Execution, Loaded, TypesInv, WindowTypes
  <2>4. CASE \E g \in Games, n \in SaveNumber : UserSaves(g, n) \/ UserDeletes(g, n)
    BY <2>4 DEF UserSaves, UserDeletes, TypesInv, WindowTypes
  <2>5. QED
    BY <2>1, <2>2, <2>3, <2>4 DEF Players
<1>4. QED
  BY <1>1, <1>2, <1>3 DEF TypesInv, WindowTypes, windowVars

LEMMA TypesInit == Init => TypesInv
<1> SUFFICES ASSUME Init PROVE TypesInv
  OBVIOUS
<1>1. ConnectionTypes
  BY EmptySeq DEF Init, ConnectionTypes, States, IStates
<1>2. stack \in Seq(Frames) /\ Len(stack) = 0 /\ runs \in Seq(Loaded)
  BY EmptySeq DEF Init
<1>3. NotStarted \in [game : Games \cup {NoGame}, load : {0} \cup SaveNumber]
  BY DEF NotStarted, Execution
<1>4. interrupts \in 0..MaxInterrupts /\ interrupts = 0
  BY WindowBounds DEF Init
<1>5. listed \in [game : Games \cup {NoGame}, states : SUBSET SaveNumber]
  BY DEF Init
<1>6. QED
  BY <1>1, <1>2, <1>3, <1>4, <1>5 DEF Init, TypesInv, WindowTypes

LEMMA TypesStep == TypesInv /\ [Next]_vars => TypesInv'
<1> SUFFICES ASSUME TypesInv, [Next]_vars PROVE TypesInv'
  OBVIOUS
<1>1. CASE Resume
  BY <1>1, TickReturnsTypes, PsReturnsTypes, LsReturnsTypes, CanoeKilledTypes, ReedKilledTypes,
     CloseReturnsTypes DEF Resume
<1>2. CASE Events
  BY <1>2, CallsTypes DEF Events
<1>3. CASE Network \/ Disconnected \/ Console
  BY <1>3, NetworkTypes
<1>4. CASE ConsoleRuns \/ Players
  BY <1>4, EmulatorTypes
<1>5. CASE UNCHANGED vars
  BY <1>5 DEF vars, telnetVars, connectionVars, consoleVars, windowVars, shellVars, TypesInv,
              ConnectionTypes, WindowTypes
<1>6. QED
  BY <1>1, <1>2, <1>3, <1>4, <1>5 DEF Next

\* Whatever the network cuts and whatever is called from a slot's loop: what
\* travels are the console's cells, the flags are four, and no more slots wait
\* than were called (TelnetConnection, MainWindow).
THEOREM TypesHold == Spec => []WindowTypeOK
<1>1. TypesInv => WindowTypeOK
  <2> SUFFICES ASSUME TypesInv PROVE WindowTypeOK
    OBVIOUS
  <2>1. \A s \in {readBuffer, lastCommandReturn, unread, wire} : s \in Seq(Cell)
    BY DEF TypesInv, ConnectionTypes
  <2>2. \A s \in {readBuffer, lastCommandReturn, unread, wire} :
          \A i \in DOMAIN s : CellOK(s[i])
    BY <2>1, CellsTypes DEF Cell
  <2>3. Len(stack) <= MaxInterrupts + 1
    <3>1. Len(stack) \in Nat /\ interrupts \in 0..MaxInterrupts /\ Len(stack) <= interrupts + 1
      BY LenProperties DEF TypesInv, WindowTypes
    <3>2. QED
      BY <3>1, WindowBounds
  <2>4. \A i \in DOMAIN stack : stack[i].loop \in {"runs", "quit", "refused"}
    <3>1. DOMAIN stack = 1..Len(stack) /\ \A i \in 1..Len(stack) : stack[i] \in Frames
      BY LenProperties DEF TypesInv, WindowTypes
    <3>2. QED
      BY <3>1 DEF Frames
  <2>5. m_state \in States /\ m_istate \in IStates /\ calcSizeSent \in Nat
        /\ existingSaveState \subseteq SaveNumber
    BY DEF TypesInv, ConnectionTypes, WindowTypes
  <2>6. QED
    BY <2>2, <2>3, <2>4, <2>5 DEF WindowTypeOK
<1>2. QED
  BY <1>1, TypesInit, TypesStep, PTL DEF Spec


-----------------------------------------------------------------------------
(* What is found in a piece of the dialogue.                               *)

LEMMA CellAt ==
  ASSUME NEW s \in Seq(Cell), NEW t \in Seq(Cell)
  PROVE  /\ s \o t \in Seq(Cell) /\ Len(s) \in Nat /\ Len(t) \in Nat
         /\ Len(s \o t) = Len(s) + Len(t)
         /\ \A i \in 1..Len(s) : (s \o t)[i] = s[i]
         /\ \A i \in 1..Len(t) : (s \o t)[Len(s) + i] = t[i]
         /\ \A i \in 1..(Len(s) + Len(t)) :
              (s \o t)[i] = IF i <= Len(s) THEN s[i] ELSE t[i - Len(s)]
<1> DEFINE C == Cell
<1> HIDE DEF C
<1>1. s \in Seq(C) /\ t \in Seq(C)
  BY DEF C
<1>2. /\ s \o t \in Seq(C) /\ Len(s) \in Nat /\ Len(t) \in Nat
      /\ Len(s \o t) = Len(s) + Len(t)
      /\ \A i \in 1..(Len(s) + Len(t)) :
           (s \o t)[i] = IF i <= Len(s) THEN s[i] ELSE t[i - Len(s)]
  BY <1>1, ConcatProperties, LenProperties
<1>3. ASSUME NEW i \in 1..Len(s) PROVE (s \o t)[i] = s[i]
  BY <1>2
<1>4. ASSUME NEW i \in 1..Len(t) PROVE (s \o t)[Len(s) + i] = t[i]
  <2> DEFINE k == Len(s) + i
  <2>1. k \in 1..(Len(s) + Len(t)) /\ ~(k <= Len(s)) /\ k - Len(s) = i
    BY <1>2
  <2> HIDE DEF k
  <2>2. (s \o t)[k] = t[k - Len(s)]
    BY <1>2, <2>1
  <2>3. QED
    BY <2>1, <2>2 DEF k
<1>5. QED
  BY <1>2, <1>3, <1>4 DEF C

\* The same cells are the same text.
LEMMA SameText ==
  ASSUME NEW s \in Seq(Cell), NEW t \in Seq(Cell), Len(s) = Len(t),
         \A i \in 1..Len(s) : s[i] = t[i]
  PROVE  s = t
BY SeqEqual

\* A pattern lies where its cells do.
LEMMA TwoCells ==
  ASSUME NEW text \in Seq(Cell), NEW pattern \in Seq(Cell), Len(pattern) = 2,
         DOMAIN pattern = 1..2
  PROVE  Places(text, pattern) =
           {i \in 1..(Len(text) - 1) : /\ text[i].what = pattern[1].what
                                       /\ text[i + 1].what = pattern[2].what}
<1> DEFINE P(i) == \A k \in 1..2 : text[i + k - 1].what = pattern[k].what
           Q(i) == text[i].what = pattern[1].what /\ text[i + 1].what = pattern[2].what
           n == Len(text) - 1
<1>1. n \in Int /\ Len(text) - Len(pattern) + 1 = n
  BY LenProperties
<1>2. ASSUME NEW i \in 1..n PROVE P(i) <=> Q(i)
  <2>1. i \in Int /\ i + 1 - 1 = i /\ i + 2 - 1 = i + 1
    BY <1>1
  <2>2. 1 \in 1..2 /\ 2 \in 1..2 /\ \A k \in 1..2 : k = 1 \/ k = 2
    OBVIOUS
  <2>3. P(i) <=> /\ text[i + 1 - 1].what = pattern[1].what
                 /\ text[i + 2 - 1].what = pattern[2].what
    BY <2>2, Zenon
  <2>4. QED
    BY <2>1, <2>3
<1>3. Places(text, pattern) = {i \in 1..n : P(i)}
  BY <1>1 DEF Places
<1> HIDE DEF P, Q, n
<1>4. {i \in 1..n : P(i)} = {i \in 1..n : Q(i)}
  BY <1>2
<1>5. QED
  BY <1>3, <1>4 DEF Q, n

\* The prompt ends an answer: it is found where it ends, and there only.
LEMMA MarkFound ==
  ASSUME NEW r \in Seq(Cell), \A i \in 1..Len(r) : r[i].what = "output"
  PROVE  IndexOf(r \o Mark, Mark) # 0 /\ Cut(r \o Mark, IndexOf(r \o Mark, Mark), Len(Mark)) = r
<1> DEFINE text == r \o Mark
           n == Len(r)
<1>1. /\ Mark \in Seq(Cell) /\ Len(Mark) = 2 /\ DOMAIN Mark = 1..2
      /\ Mark[1].what = "mark1" /\ Mark[2].what = "mark2"
  BY PromptTypes
<1>2. /\ text \in Seq(Cell) /\ n \in Nat /\ Len(text) = n + 2
      /\ \A i \in 1..n : text[i] = r[i]
      /\ \A i \in 1..2 : text[n + i] = Mark[i]
  BY <1>1, CellAt
<1>3. text[n + 1].what = "mark1" /\ text[n + 2].what = "mark2"
  BY <1>1, <1>2
<1> HIDE DEF text
<1>4. Places(text, Mark) = {i \in 1..(n + 1) : text[i].what = "mark1" /\ text[i + 1].what = "mark2"}
  <2>1. Len(text) - 1 = n + 1
    BY <1>2
  <2>2. Places(text, Mark) = {i \in 1..(Len(text) - 1) : /\ text[i].what = Mark[1].what
                                                         /\ text[i + 1].what = Mark[2].what}
    BY <1>1, <1>2, TwoCells
  <2>3. QED
    BY <1>1, <2>1, <2>2
<1>5. n + 1 \in Places(text, Mark)
  <2>1. n + 1 \in 1..(n + 1) /\ (n + 1) + 1 = n + 2
    BY <1>2
  <2>2. QED
    BY <1>3, <1>4, <2>1
<1>6. ASSUME NEW i \in Places(text, Mark) PROVE i = n + 1
  <2>1. i \in 1..(n + 1) /\ text[i].what = "mark1"
    BY <1>4
  <2>2. i \notin 1..n
    BY <1>2, <2>1
  <2>3. QED
    BY <1>2, <2>1, <2>2
<1>7. IndexOf(text, Mark) = n + 1
  BY <1>1, <1>2, <1>5, <1>6, IndexFound
<1>8. Cut(text, n + 1, 2) = r
  <2> DEFINE a == SubSeq(text, 1, n)
             b == SubSeq(text, n + 3, n + 2)
  <2>1. (n + 1) - 1 = n /\ (n + 1) + 2 = n + 3
    BY <1>2
  <2>2. Cut(text, n + 1, 2) = a \o b
    BY <1>2, <2>1 DEF Cut
  <2>3. /\ a \in Seq(Cell) /\ Len(a) = n
        /\ \A i \in 1..n : a[i] = text[i]
    <3>1. /\ a \in Seq(Cell) /\ Len(a) = IF 1 <= n THEN n - 1 + 1 ELSE 0
          /\ \A i \in 1..(n - 1 + 1) : a[i] = text[1 + i - 1] /\ 1 + i - 1 \in 1..Len(text)
      BY <1>2, PieceType
    <3>2. \A i \in 1..n : i \in 1..(n - 1 + 1) /\ 1 + i - 1 = i
      BY <1>2
    <3> HIDE DEF a
    <3>3. QED
      BY <1>2, <3>1, <3>2
  <2>4. b = <<>>
    <3>1. b \in Seq(Cell) /\ Len(b) = IF n + 3 <= n + 2 THEN n + 2 - (n + 3) + 1 ELSE 0
      BY <1>2, PieceType
    <3> HIDE DEF b
    <3>2. Len(b) = 0
      BY <1>2, <3>1
    <3>3. QED
      BY <3>1, <3>2, EmptySeq
  <2> HIDE DEF a, b
  <2>5. a \o b = a
    BY <2>3, <2>4, ConcatEmptySeq
  <2>6. a = r
    BY <1>2, <2>3, SameText
  <2>7. QED
    BY <2>2, <2>5, <2>6
<1>9. QED
  BY <1>1, <1>2, <1>7, <1>8 DEF text

\* A piece that is not all of it does not end with the prompt.
LEMMA MarkNotYet ==
  ASSUME NEW r \in Seq(Cell), \A i \in 1..Len(r) : r[i].what = "output",
         NEW text \in Seq(Cell), NEW rest \in Seq(Cell), rest # <<>>,
         text \o rest = r \o Mark
  PROVE  IndexOf(text, Mark) = 0
<1>1. /\ Mark \in Seq(Cell) /\ Len(Mark) = 2 /\ 2 \in DOMAIN Mark
      /\ Mark[1].what = "mark1" /\ Mark[2].what = "mark2"
  BY PromptTypes
<1>2. /\ Len(text \o rest) = Len(text) + Len(rest)
      /\ \A i \in 1..Len(text) : (text \o rest)[i] = text[i]
      /\ Len(text) \in Nat /\ Len(rest) \in Nat
  BY CellAt
<1>3. /\ Len(r \o Mark) = Len(r) + 2 /\ Len(r) \in Nat
      /\ \A i \in 1..Len(r) : (r \o Mark)[i] = r[i]
      /\ \A i \in 1..2 : (r \o Mark)[Len(r) + i] = Mark[i]
  <2>1. Mark \in Seq(Cell)
    BY <1>1
  <2>2. /\ Len(r \o Mark) = Len(r) + Len(Mark) /\ Len(r) \in Nat
        /\ \A i \in 1..Len(r) : (r \o Mark)[i] = r[i]
        /\ \A i \in 1..Len(Mark) : (r \o Mark)[Len(r) + i] = Mark[i]
    BY <2>1, CellAt
  <2>3. QED
    BY <1>1, <2>2
<1>4. Len(rest) # 0
  BY EmptySeq
<1>5. Len(text) <= Len(r) + 1
  BY <1>2, <1>3, <1>4
<1>6. ASSUME NEW i \in 1..Len(text) PROVE text[i].what # Mark[2].what
  <2>1. text[i] = (r \o Mark)[i]
    BY <1>2
  <2>2. CASE i \in 1..Len(r)
    BY <1>1, <1>3, <2>1, <2>2
  <2>3. CASE i = Len(r) + 1
    BY <1>1, <1>3, <2>1, <2>3
  <2>4. QED
    BY <1>2, <1>3, <1>5, <2>2, <2>3
<1>7. QED
  BY <1>1, <1>6, NotFound

\* What follows the echo is left when the echo is dropped.
After(text, e) == SubSeq(text, Len(e) + 1, Len(text))
Echoed(e, m, text, rest) == text \o rest = e \o m /\ Len(e) <= Len(text)
LEMMA EchoDropped ==
  ASSUME NEW e \in Seq(Cell), NEW m \in Seq(Cell), NEW text \in Seq(Cell), NEW rest \in Seq(Cell),
         Echoed(e, m, text, rest)
  PROVE  After(text, e) \in Seq(Cell) /\ After(text, e) \o rest = m
<1> DEFINE left == SubSeq(text, Len(e) + 1, Len(text))
           n == Len(e)
           k == Len(text) - n
<1>0. text \o rest = e \o m /\ n <= Len(text)
  BY DEF Echoed
<1>1. /\ Len(text \o rest) = Len(text) + Len(rest)
      /\ \A i \in 1..(Len(text) + Len(rest)) :
           (text \o rest)[i] = IF i <= Len(text) THEN text[i] ELSE rest[i - Len(text)]
      /\ Len(text) \in Nat /\ Len(rest) \in Nat
  BY CellAt
<1>2. /\ Len(e \o m) = n + Len(m) /\ n \in Nat /\ Len(m) \in Nat
      /\ \A i \in 1..Len(m) : (e \o m)[n + i] = m[i]
  BY CellAt
<1>3. k \in Nat /\ Len(text) = n + k
  BY <1>0, <1>1, <1>2
<1>4. /\ left \in Seq(Cell) /\ Len(left) = k
      /\ \A i \in 1..k : left[i] = text[n + i]
  <2>1. /\ left \in Seq(Cell)
        /\ Len(left) = IF n + 1 <= Len(text) THEN Len(text) - (n + 1) + 1 ELSE 0
        /\ \A i \in 1..(Len(text) - (n + 1) + 1) :
             left[i] = text[(n + 1) + i - 1] /\ (n + 1) + i - 1 \in 1..Len(text)
    BY <1>1, <1>2, PieceType
  <2> HIDE DEF left, k, n
  <2>2. Len(left) = k
    BY <1>2, <1>3, <2>1
  <2>3. \A i \in 1..k : i \in 1..(Len(text) - (n + 1) + 1) /\ (n + 1) + i - 1 = n + i
    BY <1>2, <1>3
  <2>4. QED
    BY <2>1, <2>2, <2>3
<1> HIDE DEF left, k, n
<1>5. /\ left \o rest \in Seq(Cell) /\ Len(left \o rest) = k + Len(rest)
      /\ \A i \in 1..(k + Len(rest)) :
           (left \o rest)[i] = IF i <= k THEN left[i] ELSE rest[i - k]
  BY <1>4, CellAt
<1>6. k + Len(rest) = Len(m)
  BY <1>0, <1>1, <1>2, <1>3
<1>7. ASSUME NEW i \in 1..Len(m) PROVE (left \o rest)[i] = m[i]
  <2>1. m[i] = (text \o rest)[n + i]
    BY <1>0, <1>2
  <2>2. n + i \in 1..(Len(text) + Len(rest)) /\ (n + i <= Len(text) <=> i <= k)
        /\ (n + i) - Len(text) = i - k
    BY <1>1, <1>2, <1>3, <1>6
  <2>3. (text \o rest)[n + i] = IF i <= k THEN text[n + i] ELSE rest[i - k]
    BY <1>1, <2>2
  <2>4. (left \o rest)[i] = IF i <= k THEN text[n + i] ELSE rest[i - k]
    BY <1>3, <1>4, <1>5, <1>6
  <2>5. QED
    BY <2>1, <2>3, <2>4
<1>8. left \o rest = m
  BY <1>5, <1>6, <1>7, SameText
<1>9. QED
  BY <1>4, <1>8 DEF left, n, After


-----------------------------------------------------------------------------
(* One read, in each state of the connection.                              *)

\* What onSocketReadReady reads is the first of what is to come.
OneRead(raw) ==
  /\ raw \in Seq(Cell) /\ raw # <<>> /\ raw \o Coming' = Coming
  /\ socket = "connected" /\ UNCHANGED <<socket, login>>
  /\ IF m_istate = "SocketConnected" /\ Has(raw, <<NotRunning>>)
     THEN signal' = "notRunning" /\ UNCHANGED <<connectionVars, typed>>
     ELSE IF m_istate = "PromptChangeWritten" THEN ReadPromptChange(WithoutCommand(raw))
     ELSE IF m_istate \notin Entered \/ Has(WithoutCommand(raw), LoginPrompt)
          THEN ReadLogin(WithoutCommand(raw))
     ELSE ReadAnswer(WithoutCommand(raw))

LEMMA ReadsOne ==
  ASSUME ConnectionTypes, NEW n \in 1..Len(wire), OnSocketReadReady(n)
  PROVE  \E raw : OneRead(raw)
<1> DEFINE received == unread \o SubSeq(wire, 1, n)
           size == IF Len(received) < READ THEN Len(received) ELSE READ
           raw == SubSeq(received, 1, size)
           u2 == SubSeq(received, size + 1, Len(received))
           w2 == SubSeq(wire, n + 1, Len(wire))
<1>1. size \in Nat
  <2>1. received \in Seq(Cell)
    <3>1. Len(wire) \in Nat /\ n \in Nat /\ n <= Len(wire)
      BY CellsTypes DEF ConnectionTypes
    <3>2. SubSeq(wire, 1, n) \in Seq(Cell)
      BY <3>1, PieceType DEF ConnectionTypes
    <3>3. QED
      BY <3>2, CellsTypes DEF ConnectionTypes
  <2> HIDE DEF received
  <2>2. QED
    BY <2>1, CellsTypes, ReadAssumption
<1>2. /\ raw \in Seq(Cell) /\ raw # <<>> /\ raw \o (u2 \o w2) = unread \o wire
  <2>1. unread \in Seq(Cell) /\ wire \in Seq(Cell)
    BY DEF ConnectionTypes
  <2>2. QED
    BY <1>1, <2>1, ReadTypes
<1>3. wire' = w2 /\ unread' = u2
  BY DEF OnSocketReadReady
<1>4. socket = "connected" /\ UNCHANGED <<socket, login>>
  BY DEF OnSocketReadReady
<1>5. IF m_istate = "SocketConnected" /\ Has(raw, <<NotRunning>>)
      THEN signal' = "notRunning" /\ UNCHANGED <<connectionVars, typed>>
      ELSE IF m_istate = "PromptChangeWritten" THEN ReadPromptChange(WithoutCommand(raw))
      ELSE IF m_istate \notin Entered \/ Has(WithoutCommand(raw), LoginPrompt)
           THEN ReadLogin(WithoutCommand(raw))
      ELSE ReadAnswer(WithoutCommand(raw))
  BY DEF OnSocketReadReady
<1> HIDE DEF raw, u2, w2
<1>6. raw \o Coming' = Coming
  BY <1>2, <1>3 DEF Coming
<1>7. OneRead(raw)
  BY <1>2, <1>4, <1>5, <1>6 DEF OneRead
<1>8. QED
  BY <1>7

LEMMA ComingTypes ==
  ASSUME ConnectionTypes, ConnectionTypes'
  PROVE  /\ Coming \in Seq(Cell) /\ Coming' \in Seq(Cell)
         /\ Coming = <<>> => unread = <<>> /\ wire = <<>>
         /\ Coming' = <<>> => unread' = <<>> /\ wire' = <<>>
         /\ readBuffer \in Seq(Cell) /\ readBuffer' \in Seq(Cell)
<1>1. \A s, t \in Seq(Cell) : s \o t = <<>> => s = <<>> /\ t = <<>>
  <2>1. \A s, t \in Seq(Cell) : Len(s \o t) = 0 => Len(s) = 0 /\ Len(t) = 0
    BY CellsTypes
  <2>2. \A s \in Seq(Cell) : s = <<>> <=> Len(s) = 0
    BY EmptySeq
  <2>3. QED
    BY <2>1, <2>2, CellsTypes
<1>2. /\ readBuffer \in Seq(Cell) /\ unread \in Seq(Cell) /\ wire \in Seq(Cell)
      /\ readBuffer' \in Seq(Cell) /\ unread' \in Seq(Cell) /\ wire' \in Seq(Cell)
  BY DEF ConnectionTypes
<1>3. QED
  BY <1>1, <1>2, CellsTypes DEF Coming

\* The parts of a text have its cells, in its order.
LEMMA Parts ==
  ASSUME NEW s \in Seq(Cell), NEW t \in Seq(Cell)
  PROVE  /\ \A W : Only(s \o t, W) <=> Only(s, W) /\ Only(t, W)
         /\ \A w : AtEnd(s \o t, w) => /\ AtEnd(t, w)
                                       /\ (\E i \in 1..Len(s) : s[i].what = w) => t = <<>>
<1>1. /\ Len(s \o t) = Len(s) + Len(t) /\ Len(s) \in Nat /\ Len(t) \in Nat
      /\ \A i \in 1..Len(s) : (s \o t)[i] = s[i]
      /\ \A i \in 1..Len(t) : (s \o t)[Len(s) + i] = t[i]
      /\ \A i \in 1..(Len(s) + Len(t)) :
           (s \o t)[i] = IF i <= Len(s) THEN s[i] ELSE t[i - Len(s)]
  BY CellAt
<1>2. ASSUME NEW W, Only(s \o t, W) PROVE Only(s, W) /\ Only(t, W)
  <2>1. \A i \in 1..Len(s) : i \in 1..Len(s \o t)
    BY <1>1
  <2>2. \A i \in 1..Len(t) : Len(s) + i \in 1..Len(s \o t)
    BY <1>1
  <2>3. QED
    BY <1>1, <1>2, <2>1, <2>2 DEF Only
<1>3. ASSUME NEW W, Only(s, W), Only(t, W) PROVE Only(s \o t, W)
  <2>1. ASSUME NEW i \in 1..(Len(s) + Len(t)) PROVE (s \o t)[i].what \in W
    <3>1. CASE i <= Len(s)
      BY <1>1, <1>3, <3>1 DEF Only
    <3>2. CASE ~(i <= Len(s))
      <4>1. i - Len(s) \in 1..Len(t) /\ (s \o t)[i] = t[i - Len(s)]
        BY <1>1, <3>2
      <4>2. QED
        BY <1>3, <4>1 DEF Only
    <3>3. QED
      BY <3>1, <3>2
  <2>2. QED
    BY <1>1, <2>1 DEF Only
<1>4. ASSUME NEW w, AtEnd(s \o t, w)
      PROVE  /\ AtEnd(t, w)
             /\ (\E i \in 1..Len(s) : s[i].what = w) => t = <<>>
  <2>1. ASSUME NEW i \in 1..Len(t), t[i].what = w PROVE i = Len(t)
    <3>1. Len(s) + i \in 1..Len(s \o t)
      BY <1>1
    <3>2. Len(s) + i = Len(s \o t)
      BY <1>1, <1>4, <2>1, <3>1 DEF AtEnd
    <3>3. QED
      BY <1>1, <3>2
  <2>2. ASSUME NEW i \in 1..Len(s), s[i].what = w PROVE t = <<>>
    <3>1. i \in 1..Len(s \o t)
      BY <1>1
    <3>2. i = Len(s \o t)
      BY <1>1, <1>4, <2>2, <3>1 DEF AtEnd
    <3>3. Len(t) = 0
      BY <1>1, <3>2
    <3>4. QED
      BY <3>3, EmptySeq
  <2>3. QED
    BY <2>1, <2>2 DEF AtEnd
<1>5. QED
  BY <1>2, <1>3, <1>4

\* A prompt is found where there are both of its halves.
LEMMA HasCells ==
  ASSUME NEW text \in Seq(Cell), NEW pattern \in Seq(Cell), Has(text, pattern),
         NEW k \in DOMAIN pattern
  PROVE  \E i \in 1..Len(text) : text[i].what = pattern[k].what
BY NotFound DEF Has

LEMMA Waited ==
  /\ (\A raw \in Seq(Cell) :
        Only(raw, Whats \ {"negotiation"}) => WithoutCommand(raw) = raw)
  /\ (\A raw \in Seq(Cell) :
        Only(raw, Whats \ {"login2"}) => ~Has(raw, LoginPrompt))
  /\ (\A raw \in Seq(Cell) :
        Has(raw, ShellPrompt) => \E i \in 1..Len(raw) : raw[i].what = "shell2")
  /\ (\A raw \in Seq(Cell) :
        Has(WithoutCommand(raw), LoginPrompt) => \E i \in 1..Len(raw) : raw[i].what = "login2")
<1>1. ASSUME NEW raw \in Seq(Cell), Only(raw, Whats \ {"negotiation"})
      PROVE  WithoutCommand(raw) = raw
  BY <1>1, WithoutCommandType DEF Only
<1>2. /\ LoginPrompt \in Seq(Cell) /\ 2 \in DOMAIN LoginPrompt /\ LoginPrompt[2].what = "login2"
      /\ ShellPrompt \in Seq(Cell) /\ 2 \in DOMAIN ShellPrompt /\ ShellPrompt[2].what = "shell2"
  BY PromptTypes
<1>3. \A raw \in Seq(Cell) :
        Has(raw, LoginPrompt) => \E i \in 1..Len(raw) : raw[i].what = "login2"
  BY <1>2, HasCells
<1>4. \A raw \in Seq(Cell) :
        Has(raw, ShellPrompt) => \E i \in 1..Len(raw) : raw[i].what = "shell2"
  BY <1>2, HasCells
<1>5. ASSUME NEW raw \in Seq(Cell), Only(raw, Whats \ {"login2"}) PROVE ~Has(raw, LoginPrompt)
  BY <1>3, <1>5 DEF Only
<1>6. ASSUME NEW raw \in Seq(Cell), Has(WithoutCommand(raw), LoginPrompt)
      PROVE  \E i \in 1..Len(raw) : raw[i].what = "login2"
  BY <1>3, <1>6, WithoutCommandType
<1>7. QED
  BY <1>1, <1>4, <1>5, <1>6

\* The console greets, or hakchi2 says that it is not running.
LEMMA GreetingRead ==
  ASSUME ConnectionTypes, ConnectionTypes', m_istate = "SocketConnected", Greeted,
         NEW raw, OneRead(raw)
  PROVE  /\ UNCHANGED <<m_state, lastCommandReturn>> /\ signal' # "commandReturn"
         /\ \/ m_istate' = "SocketConnected" /\ Greeted'
            \/ m_istate' = "LoginWritten" /\ LoggingIn'
<1> DEFINE rest == Coming'
           data == WithoutCommand(raw)
<1>1. /\ Coming \in Seq(Cell) /\ rest \in Seq(Cell) /\ raw \in Seq(Cell) /\ raw \o rest = Coming
      /\ socket = "connected" /\ UNCHANGED <<socket, login>>
  BY ComingTypes DEF OneRead
<1> HIDE DEF rest
<1>2. /\ AtEnd(rest, "login2") /\ \A W : Only(Coming, W) => Only(raw, W) /\ Only(rest, W)
      /\ (\E i \in 1..Len(raw) : raw[i].what = "login2") => rest = <<>>
  BY <1>1, Parts DEF Greeted
<1>3. CASE UNCHANGED <<connectionVars, typed>> /\ signal' # "commandReturn"
  <2>1. Greeted'
    <3>1. typed' = <<>> /\ readBuffer' = <<>> /\ AtEnd(Coming', "login2")
      BY <1>2, <1>3 DEF Greeted, connectionVars, rest
    <3>2. \/ login' = "user" /\ Only(Coming', {"negotiation", "login1", "login2"})
          \/ login' = "none" /\ Only(Coming', {"offline"})
      BY <1>1, <1>2 DEF Greeted, rest
    <3>3. QED
      BY <3>1, <3>2 DEF Greeted
  <2>2. QED
    BY <1>3, <2>1 DEF connectionVars
<1>4. CASE /\ Has(data, LoginPrompt) /\ WriteToTelnet(User, "LoginWritten") /\ signal' = "none"
           /\ UNCHANGED <<m_state, readBuffer, lastCommandReturn>>
  <2>1. PICK i \in 1..Len(raw) : raw[i].what = "login2"
    BY <1>1, <1>4, Waited
  <2>2. login = "user" /\ rest = <<>>
    <3>1. ~Only(raw, {"offline"})
      BY <2>1 DEF Only
    <3>2. QED
      BY <1>2, <2>1, <3>1 DEF Greeted
  <2>3. m_istate' = "LoginWritten" /\ typed' = <<User>>
    BY <1>1, <1>4 DEF WriteToTelnet, Greeted
  <2>4. LoggingIn'
    BY <1>1, <1>4, <2>2, <2>3 DEF LoggingIn, Greeted, rest
  <2>5. QED
    BY <1>4, <2>3, <2>4
<1>5. \/ signal' = "notRunning" /\ UNCHANGED <<connectionVars, typed>>
      \/ ReadLogin(data)
  BY DEF OneRead, Entered
<1>6. CASE ReadLogin(data)
  <2>1. m_istate # "LoginWritten"
    OBVIOUS
  <2>2. CASE Has(data, LoginPrompt)
    BY <1>4, <1>6, <2>1, <2>2, Zenon DEF ReadLogin
  <2>3. CASE ~Has(data, LoginPrompt)
    <3>1. signal' = "none" /\ UNCHANGED <<connectionVars, typed>>
      BY <1>6, <2>1, <2>3, Zenon DEF ReadLogin
    <3>2. QED
      BY <1>3, <3>1
  <2>4. QED
    BY <2>2, <2>3
<1>7. QED
  BY <1>3, <1>5, <1>6

\* The name is typed and the shell greets.
LEMMA LoginRead ==
  ASSUME ConnectionTypes, ConnectionTypes', m_istate = "LoginWritten", LoggingIn,
         NEW raw, OneRead(raw), Coming # <<>>
  PROVE  /\ UNCHANGED <<m_state, lastCommandReturn>> /\ signal' # "commandReturn"
         /\ \/ m_istate' = "LoginWritten" /\ LoggingIn'
            \/ m_istate' = "PromptChangeWritten" /\ ChangingPrompt'
<1> DEFINE rest == Coming'
<1>1. /\ Coming \in Seq(Cell) /\ rest \in Seq(Cell) /\ raw \in Seq(Cell) /\ raw \o rest = Coming
      /\ socket = "connected" /\ UNCHANGED <<socket, login>>
  BY ComingTypes DEF OneRead
<1>2. /\ readBuffer = <<>> /\ login = "shell" /\ typed = <<>>
      /\ Only(Coming, {"echo", "shell1", "shell2"}) /\ AtEnd(Coming, "shell2")
  BY DEF LoggingIn
<1> HIDE DEF rest
<1>3. /\ AtEnd(rest, "shell2") /\ Only(raw, {"echo", "shell1", "shell2"})
      /\ Only(rest, {"echo", "shell1", "shell2"})
      /\ (\E i \in 1..Len(raw) : raw[i].what = "shell2") => rest = <<>>
  <2>1. /\ \A W : Only(Coming, W) => Only(raw, W) /\ Only(rest, W)
        /\ \A w : AtEnd(Coming, w) => /\ AtEnd(rest, w)
                                      /\ (\E i \in 1..Len(raw) : raw[i].what = w) => rest = <<>>
    BY <1>1, Parts
  <2>2. QED
    BY <1>2, <2>1
<1>4. WithoutCommand(raw) = raw /\ ~Has(raw, LoginPrompt)
  <2>1. Only(raw, Whats \ {"negotiation"}) /\ Only(raw, Whats \ {"login2"})
    BY <1>3 DEF Only, Whats
  <2>2. QED
    BY <1>1, <2>1, Waited
<1>5. ReadLogin(raw)
  BY <1>4 DEF OneRead, Entered
<1>6. CASE Has(raw, ShellPrompt)
  <2>1. /\ WriteToTelnet(SetPrompt, "PromptChangeWritten") /\ signal' = "none"
        /\ UNCHANGED <<m_state, readBuffer, lastCommandReturn>>
    BY <1>5, <1>6 DEF ReadLogin
  <2>2. rest = <<>>
    BY <1>1, <1>3, <1>6, Waited
  <2>3. m_istate' = "PromptChangeWritten" /\ typed' = <<SetPrompt>>
    BY <1>1, <1>2, <2>1 DEF WriteToTelnet
  <2>4. ChangingPrompt'
    BY <1>1, <1>2, <2>1, <2>2, <2>3 DEF ChangingPrompt, rest
  <2>5. QED
    BY <2>1, <2>3, <2>4
<1>7. CASE ~Has(raw, ShellPrompt)
  <2>1. signal' = "none" /\ UNCHANGED <<connectionVars, typed>>
    BY <1>4, <1>5, <1>7, Zenon DEF ReadLogin
  <2>2. LoggingIn'
    BY <1>1, <1>2, <1>3, <2>1 DEF LoggingIn, rest, connectionVars
  <2>3. QED
    BY <2>1, <2>2 DEF connectionVars
<1>8. QED
  BY <1>6, <1>7


\* Nothing in an answer is taken for a telnet command or for the login.
Plain == {"echo", "output", "mark1", "mark2"}
LEMMA AnswerCells ==
  ASSUME NEW line \in Lines
  PROVE  /\ Echo(line) \in Seq(Cell) /\ Mark \in Seq(Cell) /\ Echo(line) \o Mark \in Seq(Cell)
         /\ Only(Echo(line) \o Mark, Plain)
         /\ \A r : IsResult(line, r) =>
              /\ r \in Seq(Cell) /\ r \o Mark \in Seq(Cell) /\ Only(r \o Mark, Plain)
              /\ Echo(line) \o (r \o Mark) \in Seq(Cell) /\ Only(Echo(line) \o (r \o Mark), Plain)
              /\ \A i \in 1..Len(r) : r[i].what = "output"
<1>1. Echo(line) \in Seq(Cell) /\ Only(Echo(line), Plain)
  BY EchoType DEF Only, Plain
<1>2. Mark \in Seq(Cell) /\ Only(Mark, Plain)
  <2>1. \A i \in 1..2 : i = 1 \/ i = 2
    OBVIOUS
  <2>2. \A i \in 1..2 : Mark[i].what \in {"mark1", "mark2"}
    BY <2>1, PromptTypes
  <2>3. QED
    BY <2>2, PromptTypes DEF Only, Plain
<1>3. ASSUME NEW r, IsResult(line, r)
      PROVE  r \in Seq(Cell) /\ Only(r, Plain) /\ \A i \in 1..Len(r) : r[i].what = "output"
  BY <1>3, ResultCells DEF Only, Plain
<1>4. \A s, t \in Seq(Cell) :
        Only(s, Plain) /\ Only(t, Plain) => s \o t \in Seq(Cell) /\ Only(s \o t, Plain)
  BY Parts, CellsTypes
<1>5. Echo(line) \o Mark \in Seq(Cell) /\ Only(Echo(line) \o Mark, Plain)
  BY <1>1, <1>2, <1>4
<1>6. ASSUME NEW r, IsResult(line, r)
      PROVE  r \o Mark \in Seq(Cell) /\ Only(r \o Mark, Plain)
  BY <1>2, <1>3, <1>4, <1>6
<1>7. ASSUME NEW r, IsResult(line, r)
      PROVE  Echo(line) \o (r \o Mark) \in Seq(Cell) /\ Only(Echo(line) \o (r \o Mark), Plain)
  BY <1>1, <1>4, <1>6, <1>7
<1>8. QED
  BY <1>1, <1>2, <1>3, <1>5, <1>6, <1>7

\* What is read of it is added to the buffer as it is.
LEMMA PlainRead ==
  ASSUME ConnectionTypes, ConnectionTypes', NEW raw, OneRead(raw),
         NEW whole \in Seq(Cell), Only(whole, Plain), readBuffer \o Coming = whole
  PROVE  /\ raw \in Seq(Cell) /\ WithoutCommand(raw) = raw /\ ~Has(raw, LoginPrompt)
         /\ readBuffer \o raw \in Seq(Cell) /\ (readBuffer \o raw) \o Coming' = whole
<1>1. /\ Coming \in Seq(Cell) /\ Coming' \in Seq(Cell) /\ raw \in Seq(Cell)
      /\ raw \o Coming' = Coming /\ readBuffer \in Seq(Cell)
  BY ComingTypes DEF OneRead
<1> DEFINE rest == Coming'
           old == Coming
<1> HIDE DEF rest, old
<1>2. Only(raw, Plain)
  <2>1. raw \in Seq(Cell) /\ rest \in Seq(Cell) /\ old \in Seq(Cell) /\ readBuffer \in Seq(Cell)
    BY <1>1 DEF rest, old
  <2>2. raw \o rest = old /\ readBuffer \o old = whole
    BY <1>1 DEF rest, old
  <2>3. Only(readBuffer \o old, Plain) => Only(old, Plain)
    BY <2>1, Parts
  <2>4. Only(raw \o rest, Plain) => Only(raw, Plain)
    BY <2>1, Parts
  <2>5. QED
    BY <2>2, <2>3, <2>4
<1>3. WithoutCommand(raw) = raw /\ ~Has(raw, LoginPrompt)
  <2>1. Only(raw, Whats \ {"negotiation"}) /\ Only(raw, Whats \ {"login2"})
    BY <1>2 DEF Only, Whats, Plain
  <2>2. QED
    BY <1>1, <2>1, Waited
<1>4. (readBuffer \o raw) \o rest = readBuffer \o (raw \o rest)
  <2>1. raw \in Seq(Cell) /\ rest \in Seq(Cell) /\ readBuffer \in Seq(Cell)
    BY <1>1 DEF rest
  <2>2. QED
    BY <2>1, CellsConcat
<1>5. readBuffer \o raw \in Seq(Cell)
  BY <1>1, CellsTypes
<1>6. QED
  BY <1>1, <1>3, <1>4, <1>5 DEF rest

\* All of a text is there when nothing is to come, and only then.
LEMMA AllOfIt ==
  ASSUME NEW text \in Seq(Cell), NEW rest \in Seq(Cell), NEW whole \in Seq(Cell),
         text \o rest = whole
  PROVE  text = whole <=> rest = <<>>
<1>1. Len(whole) = Len(text) + Len(rest) /\ Len(text) \in Nat /\ Len(rest) \in Nat
  BY CellsTypes
<1>2. ASSUME text = whole PROVE rest = <<>>
  <2>1. Len(rest) = 0
    BY <1>1, <1>2
  <2>2. QED
    BY <2>1, EmptySeq
<1>3. ASSUME rest = <<>> PROVE text = whole
  BY <1>3, ConcatEmptySeq
<1>4. QED
  BY <1>2, <1>3

\* The shell is told its prompt.
LEMMA PromptRead ==
  ASSUME ConnectionTypes, ConnectionTypes', m_istate = "PromptChangeWritten", ChangingPrompt,
         NEW raw, OneRead(raw), Coming # <<>>
  PROVE  /\ UNCHANGED lastCommandReturn /\ signal' # "commandReturn"
         /\ \/ m_istate' = "PromptChangeWritten" /\ UNCHANGED m_state /\ ChangingPrompt'
            \/ m_istate' = "PromptChanged" /\ m_state' = "Connected" /\ InPrompt'
<1> DEFINE whole == Echo(SetPrompt) \o Mark
           text == readBuffer \o raw
           rest == Coming'
<1>1. login = "marked" /\ typed = <<>> /\ readBuffer \o Coming = whole
  BY DEF ChangingPrompt
<1>2. whole \in Seq(Cell) /\ Only(whole, Plain)
  BY AnswerCells, LineNames
<1>3. rest \in Seq(Cell) /\ (rest = <<>> => unread' = <<>> /\ wire' = <<>>)
      /\ UNCHANGED login
  BY ComingTypes DEF OneRead
<1> HIDE DEF whole
<1>4. WithoutCommand(raw) = raw /\ text \in Seq(Cell) /\ text \o rest = whole
  BY <1>1, <1>2, PlainRead
<1>5. ReadPromptChange(raw)
  BY <1>4 DEF OneRead
<1>6. text = whole <=> rest = <<>>
  BY <1>2, <1>3, <1>4, AllOfIt
<1>7. CASE text = whole
  <2>1. /\ m_istate' = "PromptChanged" /\ m_state' = "Connected" /\ readBuffer' = <<>>
        /\ signal' = "none" \/ signal' = "connected"
        /\ UNCHANGED <<lastCommandReturn, typed>>
    BY <1>5, <1>7 DEF ReadPromptChange, whole
  <2>2. InPrompt'
    BY <1>1, <1>3, <1>6, <1>7, <2>1 DEF InPrompt
  <2>3. QED
    BY <2>1, <2>2
<1>8. CASE text # whole
  <2>1. /\ readBuffer' = text /\ signal' = "none"
        /\ UNCHANGED <<m_istate, m_state, lastCommandReturn, typed>>
    BY <1>5, <1>8 DEF ReadPromptChange, whole
  <2>2. ChangingPrompt'
    BY <1>1, <1>3, <1>4, <1>6, <1>8, <2>1 DEF ChangingPrompt, whole
  <2>3. QED
    BY <2>1, <2>2
<1>9. QED
  BY <1>7, <1>8

\* The answer: its echo is dropped by its size, and it ends with the prompt.
LEMMA AnswerRead ==
  ASSUME ConnectionTypes, ConnectionTypes', NEW line \in Lines,
         \/ m_istate = "DataWritten" /\ Asked(line)
         \/ m_istate = "WaitingForCmd" /\ Answering(line),
         NEW raw, OneRead(raw), Coming # <<>>, UNCHANGED <<printed, listed>>
  PROVE  \/ /\ m_istate' = "IReady" /\ m_state' = "Ready" /\ InPrompt'
            /\ Told(line)' /\ lastCommandReturn' = printed'.result /\ signal' = "commandReturn"
         \/ /\ UNCHANGED m_state /\ signal' # "commandReturn"
            /\ \/ m_istate' = "DataWritten" /\ Asked(line)'
               \/ m_istate' = "WaitingForCmd" /\ Answering(line)'
<1> DEFINE text == readBuffer \o raw
           rest == Coming'
           echoed == m_istate = "DataWritten" /\ Len(text) >= calcSizeSent
           waiting == m_istate = "WaitingForCmd" \/ echoed
           answer == IF echoed THEN SubSeq(text, calcSizeSent + 1, Len(text)) ELSE text
           at == IndexOf(answer, Mark)
<1>1. login = "marked" /\ typed = <<>> /\ Told(line) /\ Told(line)'
  <2>1. Coming # <<>>
    OBVIOUS
  <2>2. login = "marked" /\ typed = <<>> /\ Told(line)
    BY <2>1 DEF Asked, Answering
  <2>3. QED
    BY <2>2 DEF Told
<1>2. PICK r \in Seq(Cell) :
        /\ r = printed.result /\ r = printed'.result /\ IsResult(line, r)
        /\ \/ /\ m_istate = "DataWritten" /\ calcSizeSent = Rows[line.cmd]
              /\ readBuffer \o Coming = Echo(line) \o (r \o Mark)
           \/ m_istate = "WaitingForCmd" /\ readBuffer \o Coming = r \o Mark
  <2>1. PICK r : r = printed.result /\ r = printed'.result
    OBVIOUS
  <2>2. IsResult(line, r)
    BY <1>1, <2>1 DEF Told
  <2>3. r \in Seq(Cell)
    BY <2>2, ResultCells
  <2>4. \/ /\ m_istate = "DataWritten" /\ calcSizeSent = Rows[line.cmd]
           /\ readBuffer \o Coming = Echo(line) \o (r \o Mark)
        \/ m_istate = "WaitingForCmd" /\ readBuffer \o Coming = r \o Mark
    BY <2>1 DEF Asked, Answering
  <2>5. QED
    BY <2>1, <2>2, <2>3, <2>4
<1> DEFINE whole == IF m_istate = "DataWritten" THEN Echo(line) \o (r \o Mark) ELSE r \o Mark
<1>3. /\ whole \in Seq(Cell) /\ Only(whole, Plain) /\ readBuffer \o Coming = whole
      /\ r \o Mark \in Seq(Cell) /\ \A i \in 1..Len(r) : r[i].what = "output"
      /\ Echo(line) \in Seq(Cell)
  BY <1>2, AnswerCells
<1>4. /\ rest \in Seq(Cell) /\ (rest = <<>> => unread' = <<>> /\ wire' = <<>>)
      /\ UNCHANGED login
  BY ComingTypes DEF OneRead
<1> HIDE DEF whole
<1>5. /\ WithoutCommand(raw) = raw /\ ~Has(raw, LoginPrompt)
      /\ text \in Seq(Cell) /\ text \o rest = whole
  BY <1>3, PlainRead
<1>6. /\ IF waiting /\ at # 0
         THEN /\ m_state' = "Ready" /\ m_istate' = "IReady"
              /\ lastCommandReturn' = Cut(answer, at, Len(Mark))
              /\ readBuffer' = <<>> /\ signal' = "commandReturn"
         ELSE /\ m_istate' = IF waiting THEN "WaitingForCmd" ELSE m_istate
              /\ readBuffer' = answer /\ signal' = "none"
              /\ UNCHANGED <<m_state, lastCommandReturn>>
      /\ UNCHANGED <<calcSizeSent, typed>>
  <2>1. ReadAnswer(raw)
    BY <1>5 DEF OneRead, Entered
  <2>2. QED
    BY <2>1 DEF ReadAnswer
<1>7. Len(Echo(line)) = Rows[line.cmd] /\ Len(text) \in Nat /\ calcSizeSent \in Nat
  BY <1>5, EchoType, CellsTypes DEF ConnectionTypes
<1>8. CASE waiting
  <2>1. answer \in Seq(Cell) /\ answer \o rest = r \o Mark
    <3>1. CASE m_istate = "WaitingForCmd"
      BY <1>5, <3>1 DEF whole
    <3>2. CASE echoed
      <4>1. /\ m_istate = "DataWritten" /\ calcSizeSent = Len(Echo(line))
            /\ Len(text) >= Len(Echo(line)) /\ text \o rest = Echo(line) \o (r \o Mark)
        BY <1>2, <1>5, <1>7, <3>2 DEF whole
      <4>2. answer = SubSeq(text, Len(Echo(line)) + 1, Len(text))
        BY <3>2, <4>1
      <4> DEFINE e == Echo(line)
                 m == r \o Mark
      <4> HIDE DEF text, rest, answer, echoed, e, m
      <4>3. e \in Seq(Cell) /\ m \in Seq(Cell) /\ text \in Seq(Cell) /\ rest \in Seq(Cell)
        BY <1>3, <1>4, <1>5 DEF e, m
      <4>4. Echoed(e, m, text, rest)
        BY <1>7, <4>1 DEF e, m, Echoed
      <4>5. answer = After(text, e)
        BY <4>2 DEF e, After
      <4>6. After(text, e) \in Seq(Cell) /\ After(text, e) \o rest = m
        BY <4>3, <4>4, EchoDropped
      <4>7. QED
        BY <4>5, <4>6 DEF m
    <3>3. QED
      BY <1>8, <3>1, <3>2
  <2> HIDE DEF answer, rest, waiting, echoed, text
  <2>2. CASE rest = <<>>
    <3>1. answer = r \o Mark
      BY <1>3, <1>4, <2>1, <2>2, AllOfIt
    <3>2. at # 0 /\ Cut(answer, at, Len(Mark)) = r
      BY <1>3, <3>1, MarkFound
    <3>3. /\ m_state' = "Ready" /\ m_istate' = "IReady" /\ lastCommandReturn' = r
          /\ readBuffer' = <<>> /\ signal' = "commandReturn" /\ typed' = <<>>
      BY <1>1, <1>6, <1>8, <3>2
    <3>4. InPrompt'
      BY <1>1, <1>4, <2>2, <3>3 DEF InPrompt
    <3>5. QED
      BY <1>1, <1>2, <3>3, <3>4
  <2>3. CASE rest # <<>>
    <3>1. at = 0
      BY <1>3, <1>4, <2>1, <2>3, MarkNotYet
    <3>2. /\ m_istate' = "WaitingForCmd" /\ readBuffer' = answer /\ signal' = "none"
          /\ UNCHANGED m_state /\ typed' = <<>>
      BY <1>1, <1>6, <1>8, <3>1
    <3>3. readBuffer' \o Coming' = r \o Mark
      BY <2>1, <3>2 DEF rest
    <3>4. Answering(line)'
      BY <1>1, <1>2, <1>4, <2>3, <3>2, <3>3 DEF Answering, rest
    <3>5. QED
      BY <3>2, <3>4
  <2>4. QED
    BY <2>2, <2>3
<1>9. CASE ~waiting
  <2>1. m_istate = "DataWritten" /\ ~(Len(text) >= calcSizeSent)
    BY <1>2, <1>9
  <2>2. /\ m_istate' = "DataWritten" /\ readBuffer' = text /\ signal' = "none"
        /\ UNCHANGED <<m_state, calcSizeSent>> /\ typed' = <<>>
    BY <1>1, <1>6, <1>9, <2>1
  <2>3. calcSizeSent = Rows[line.cmd] /\ whole = Echo(line) \o (r \o Mark)
    BY <1>2, <2>1 DEF whole
  <2>4. Len(readBuffer') < Rows[line.cmd]
    BY <1>7, <2>1, <2>2, <2>3
  <2>5. readBuffer' \o Coming' = Echo(line) \o (r \o Mark)
    BY <1>5, <2>2, <2>3
  <2>6. Asked(line)'
    BY <1>1, <1>2, <1>4, <2>2, <2>3, <2>4, <2>5 DEF Asked
  <2>7. QED
    BY <2>2, <2>6
<1>10. QED
  BY <1>8, <1>9


-----------------------------------------------------------------------------
(* The slots, one at a time.                                               *)

LEMMA OneSlot ==
  ASSUME TypesInv, MaxInterrupts = 0
  PROVE  /\ Len(stack) \in Nat /\ Len(stack) <= 1
         /\ stack # <<>> => Len(stack) = 1 /\ Top = stack[1] /\ Top \in Frames /\ Below = <<>>
         /\ Interrupt => stack = <<>> /\ ~closing
<1>1. Len(stack) \in Nat /\ interrupts \in 0..0 /\ Len(stack) <= interrupts + 1
  BY LenProperties DEF TypesInv, WindowTypes
<1>2. Len(stack) <= 1 /\ ~(interrupts < 0)
  BY <1>1
<1>3. ASSUME stack # <<>>
      PROVE  Len(stack) = 1 /\ Top = stack[1] /\ Top \in Frames /\ Below = <<>>
  <2>1. /\ Len(stack) >= 1 /\ Top \in Frames /\ Top = stack[Len(stack)]
        /\ Below \in Seq(Frames) /\ Len(Below) = Len(stack) - 1
    BY <1>3, StackTypes DEF TypesInv, WindowTypes
  <2>2. Len(stack) = 1
    BY <1>1, <1>2, <2>1
  <2>3. Len(Below) = 0
    BY <2>1, <2>2
  <2>4. Below = <<>>
    BY <2>1, <2>3, EmptySeq
  <2>5. QED
    BY <2>1, <2>2, <2>4
<1>4. Interrupt => stack = <<>> /\ ~closing
  BY <1>2 DEF Interrupt, Up
<1>5. QED
  BY <1>1, <1>2, <1>3, <1>4

\* What the connection does not touch stays as it is.
LEMMA SameDialogue ==
  ASSUME Dialogue, m_istate \notin InFlight,
         UNCHANGED <<connectionVars, socket, unread, consoleVars>>
  PROVE  Dialogue'
<1>1. UNCHANGED <<m_state, m_istate, readBuffer, socket, unread, wire, typed, login, Coming>>
  BY DEF connectionVars, consoleVars, Coming
<1>2. (Greeted' <=> Greeted) /\ (LoggingIn' <=> LoggingIn)
      /\ (ChangingPrompt' <=> ChangingPrompt) /\ (InPrompt' <=> InPrompt)
  BY <1>1 DEF Greeted, LoggingIn, ChangingPrompt, InPrompt
<1>3. QED
  BY <1>1, <1>2 DEF Dialogue, InFlight

\* A command is sent when nothing is left of the one before it, or not at all.
LEMMA SyncInTurn ==
  ASSUME TypesInv, Dialogue, ~closing, m_istate \notin InFlight,
         NEW line \in SlotLines, NEW number \in {0} \cup SaveNumber, Sync(<<>>, line, number)
  PROVE  Dialogue' /\ Slot' /\ Len(stack') = 1 /\ stack' # <<>> /\ Top'.line = line
<1>1. /\ stack' \in Seq(Frames) /\ Len(stack') = 1 /\ stack'[1].line = line
      /\ stack'[1].loop = IF CanExecute THEN "runs" ELSE "refused"
  <2>1. <<>> \in Seq(Frames) /\ Len(<<>>) = 0
    BY EmptySeq
  <2>2. /\ stack' \in Seq(Frames) /\ Len(stack') = 0 + 1 /\ stack'[0 + 1].line = line
        /\ stack'[0 + 1].loop = IF CanExecute THEN IF closing THEN "quit" ELSE "runs" ELSE "refused"
    BY <2>1, SyncTypes DEF TypesInv
  <2>3. QED
    BY <2>2
<1>2. stack' # <<>> /\ Top' = stack'[1]
  <2>1. Len(stack') # 0
    BY <1>1
  <2>2. stack' # <<>>
    BY <2>1, EmptySeq
  <2>3. Top' = stack'[1]
    BY <1>1 DEF Top
  <2>4. QED
    BY <2>2, <2>3
<1>3. CASE CanExecute
  <2>1. /\ WriteToTelnet(line, m_istate)
        /\ UNCHANGED <<m_state, readBuffer, lastCommandReturn, socket, unread, wire, login>>
    BY <1>3 DEF Sync, ExecuteCommand
  <2>2. m_istate \in {"PromptChanged", "IReady"}
    BY <1>3 DEF CanExecute, Dialogue, TypesInv, ConnectionTypes, IStates, InFlight
  <2>3. InPrompt /\ socket = "connected" /\ m_state # "Offline"
    BY <2>2 DEF Dialogue
  <2>4. /\ m_istate' = "DataWritten" /\ calcSizeSent' = Rows[line.cmd]
        /\ typed' = <<line>>
    BY <2>1, <2>2, <2>3 DEF WriteToTelnet, InPrompt
  <2>5. Coming' = <<>> /\ readBuffer' = <<>> /\ login' = "marked" /\ socket' = "connected"
    BY <2>1, <2>3, ConcatEmptySeq, EmptySeq DEF InPrompt, Coming
  <2>6. Top'.line = line /\ Top'.loop = "runs"
    BY <1>1, <1>2, <1>3
  <2>7. Asked(Top.line)'
    BY <2>4, <2>5, <2>6 DEF Asked
  <2>8. Dialogue'
    BY <1>2, <2>1, <2>3, <2>4, <2>5, <2>6, <2>7 DEF Dialogue, InFlight
  <2>9. Slot'
    BY <2>4, <2>6 DEF Slot, InFlight
  <2>10. QED
    BY <1>1, <1>2, <2>6, <2>8, <2>9
<1>4. CASE ~CanExecute
  <2>1. UNCHANGED <<connectionVars, socket, unread, consoleVars>>
    BY <1>4 DEF Sync
  <2>2. Dialogue'
    BY <2>1, SameDialogue
  <2>3. Top'.line = line /\ Top'.loop = "refused" /\ m_istate' \notin InFlight
    BY <1>1, <1>2, <1>4, <2>1 DEF connectionVars
  <2>4. Slot'
    BY <2>3 DEF Slot
  <2>5. QED
    BY <1>1, <1>2, <2>2, <2>3, <2>4
<1>5. QED
  BY <1>3, <1>4

LEMMA ReturnInTurn ==
  ASSUME TypesInv, MaxInterrupts = 0, Dialogue, m_istate \notin InFlight, stack # <<>>, Return
  PROVE  Dialogue' /\ Slot' /\ stack' = <<>> /\ Len(stack') = 0
<1>1. stack' = <<>> /\ UNCHANGED <<connectionVars, socket, unread, consoleVars>>
  BY OneSlot DEF Return
<1>2. Dialogue'
  BY <1>1, SameDialogue
<1>3. Slot' /\ Len(stack') = 0
  BY <1>1, EmptySeq DEF Slot
<1>4. QED
  BY <1>1, <1>2, <1>3

\* A slot goes on when its answer is complete, or when none was asked for.
LEMMA ResumesInTurn ==
  ASSUME TypesInv, MaxInterrupts = 0, InTurn, NEW cmd, Resumes(cmd)
  PROVE  /\ stack # <<>> /\ ~closing /\ Dialogue /\ Slot /\ Flags
         /\ m_istate \notin InFlight /\ Top.line.cmd = cmd
         /\ Below = <<>> /\ Top \in Frames /\ Top.line \in SlotLines
         /\ Result = <<>> \/ (Told(Top.line) /\ Result = printed.result)
<1>1. stack # <<>> /\ Top.line.cmd = cmd /\ Top.loop # "runs"
  BY DEF Resumes
<1>2. ~closing /\ Dialogue /\ Slot /\ Flags
  BY <1>1 DEF InTurn
<1>3. m_istate \notin InFlight
  BY <1>1, <1>2 DEF Dialogue
<1>4. Below = <<>> /\ Top \in Frames
  BY <1>1, OneSlot
<1>5. Top.line \in SlotLines /\ Top.loop \in {"runs", "quit", "refused"}
  BY <1>4 DEF Frames
<1>6. Result = <<>> \/ (Told(Top.line) /\ Result = printed.result)
  BY <1>1, <1>2, <1>5 DEF Result, Slot
<1>7. QED
  BY <1>1, <1>2, <1>3, <1>4, <1>5, <1>6


\* The numbers in the answer of ls are those of the saved states.
LEMMA NumbersListed ==
  ASSUME NEW s \in SUBSET SaveNumber
  PROVE  Numbers(ListedSaves(s)) = s
<1> DEFINE n == Cardinality(s)
           r == ListedSaves(s)
<1>1. /\ n \in Nat /\ \A i \in 1..n : Listed(s)[i] \in s
      /\ \A k \in s : \E i \in 1..n : Listed(s)[i] = k
  BY SavesListed
<1> HIDE DEF n
<1>2. r = [i \in 1..n |-> Output("ls", Listed(s)[i])]
  BY DEF ListedSaves, n
<1> HIDE DEF r
<1>3. DOMAIN r = 1..n /\ Len(r) = n /\ \A i \in 1..n : r[i] = Output("ls", Listed(s)[i])
  BY <1>1, <1>2
<1>4. ASSUME NEW v PROVE /\ NumberOf(Output("ls", v)) = v
                         /\ Output("ls", v).what \notin {"mark1", "mark2"}
  <2>1. IsOutput(Output("ls", v), "ls") /\ Output("ls", v).value = v
        /\ Output("ls", v).what = "output"
    BY DEF IsOutput, Output
  <2>2. ~(IsOutput(Output("ls", v), "pidof") /\ Output("ls", v).value = "1")
        /\ Output("ls", v).what # "mark2"
    BY DEF IsOutput, Output
  <2>3. QED
    BY <2>1, <2>2 DEF NumberOf
<1>5. \A i \in 1..n : NumberOf(r[i]) = Listed(s)[i] /\ EndsLine(r, i)
  BY <1>3, <1>4 DEF EndsLine
<1>6. Numbers(r) = {Listed(s)[i] : i \in 1..n}
  BY <1>3, <1>5 DEF Numbers
<1>7. {Listed(s)[i] : i \in 1..n} = s
  BY <1>1
<1>8. QED
  BY <1>6, <1>7 DEF r

LEMMA TickReturnsInTurn ==
  MaxInterrupts = 0 /\ TypesInv /\ InTurn /\ TickReturns => InTurn'
<1> SUFFICES ASSUME MaxInterrupts = 0, TypesInv, InTurn, TickReturns PROVE InTurn'
  OBVIOUS
<1>1. /\ stack # <<>> /\ ~closing /\ Dialogue /\ Slot /\ Flags /\ m_istate \notin InFlight
      /\ Top.line.cmd = "pidof" /\ Below = <<>>
  BY ResumesInTurn DEF TickReturns
<1>2. /\ canoeRunning' = IsOne(Result)
      /\ existingSaveState' = IF canoeRunning /\ ~canoeRunning' THEN {} ELSE existingSaveState
      /\ UNCHANGED <<currentCanoeExecution, crashed, closing, listed>>
  BY DEF TickReturns, shellVars
<1>3. canoeRunning' \in BOOLEAN /\ canoeRunning \in BOOLEAN
  BY <1>2 DEF IsOne, IsOutput, InTurn
<1>4. CASE ~canoeRunning /\ canoeRunning'
  <2>1. Sync(<<>>, PsCanoe, 0)
    BY <1>1, <1>4 DEF TickReturns
  <2>2. Dialogue' /\ Slot' /\ Len(stack') = 1 /\ stack' # <<>> /\ Top'.line = PsCanoe
    BY <1>1, <2>1, SlotNames, SyncInTurn
  <2>3. existingSaveState' = {}
    BY <1>1, <1>2, <1>4 DEF Flags
  <2>4. Top'.line.cmd = "ps"
    BY <2>2, SlotNames
  <2>5. Flags'
    BY <1>1, <1>2, <1>4, <2>3, <2>4 DEF Flags
  <2>6. QED
    BY <1>1, <1>2, <1>3, <2>2, <2>5 DEF InTurn
<1>5. CASE ~(~canoeRunning /\ canoeRunning')
  <2>1. Return
    BY <1>5, Zenon DEF TickReturns
  <2>2. Dialogue' /\ Slot' /\ stack' = <<>> /\ Len(stack') = 0
    BY <1>1, <2>1, ReturnInTurn
  <2>3. existingSaveState' # {} =>
          /\ canoeRunning'
          /\ listed' = [game |-> currentCanoeExecution'.game, states |-> existingSaveState']
    BY <1>1, <1>2, <1>3, <1>5 DEF Flags
  <2>4. Flags'
    BY <1>1, <1>2, <2>2, <2>3 DEF Flags
  <2>5. QED
    BY <1>1, <1>2, <1>3, <2>2, <2>4 DEF InTurn
<1>6. QED
  BY <1>4, <1>5

LEMMA PsReturnsInTurn ==
  MaxInterrupts = 0 /\ TypesInv /\ InTurn /\ PsReturns => InTurn'
<1> SUFFICES ASSUME MaxInterrupts = 0, TypesInv, InTurn, PsReturns PROVE InTurn'
  OBVIOUS
<1>1. /\ stack # <<>> /\ ~closing /\ Dialogue /\ Slot /\ Flags /\ m_istate \notin InFlight
      /\ Top.line.cmd = "ps" /\ Below = <<>>
  BY ResumesInTurn DEF PsReturns
<1>2. UNCHANGED <<canoeRunning, existingSaveState, crashed, closing, listed>>
  BY DEF PsReturns, shellVars
<1>3. canoeRunning /\ existingSaveState = {} /\ canoeRunning \in BOOLEAN
  BY <1>1 DEF Flags, InTurn
<1>4. CASE Processes(Result) = {}
  <2>1. Return
    BY <1>4 DEF PsReturns
  <2>2. Dialogue' /\ Slot' /\ stack' = <<>> /\ Len(stack') = 0
    BY <1>1, <2>1, ReturnInTurn
  <2>3. Flags'
    BY <1>1, <1>2, <1>3, <2>2 DEF Flags
  <2>4. QED
    BY <1>1, <1>2, <1>3, <2>2, <2>3 DEF InTurn
<1>5. CASE Processes(Result) # {}
  <2> DEFINE e == FirstProcess(Result)
  <2>1. currentCanoeExecution' = e /\ Sync(<<>>, LsSaves(e.game), 0)
    BY <1>1, <1>5 DEF PsReturns
  <2>2. e \in Loaded
    BY <1>5, FirstProcessType, AnswerType
  <2> HIDE DEF e
  <2>3. e.game \in Games
    BY <2>2 DEF Loaded
  <2>4. Dialogue' /\ Slot' /\ Len(stack') = 1 /\ stack' # <<>> /\ Top'.line = LsSaves(e.game)
    BY <1>1, <2>1, <2>3, SlotNames, SyncInTurn
  <2>5. Top'.line.cmd = "ls" /\ Top'.line.arg = e.game
    BY <2>4, SlotNames
  <2>6. Flags'
    BY <1>1, <1>2, <1>3, <2>1, <2>5 DEF Flags
  <2>7. QED
    BY <1>1, <1>2, <1>3, <2>4, <2>6 DEF InTurn
<1>6. QED
  BY <1>4, <1>5

LEMMA LsReturnsInTurn ==
  MaxInterrupts = 0 /\ TypesInv /\ InTurn /\ LsReturns => InTurn'
<1> SUFFICES ASSUME MaxInterrupts = 0, TypesInv, InTurn, LsReturns PROVE InTurn'
  OBVIOUS
<1>1. /\ stack # <<>> /\ ~closing /\ Dialogue /\ Slot /\ Flags /\ m_istate \notin InFlight
      /\ Top.line.cmd = "ls" /\ Below = <<>> /\ Top.line \in SlotLines
      /\ Result = <<>> \/ (Told(Top.line) /\ Result = printed.result)
  BY ResumesInTurn DEF LsReturns
<1>2. /\ crashed' = ~(Numbers(Result) \subseteq SaveNumber)
      /\ existingSaveState' = existingSaveState \cup (Numbers(Result) \cap SaveNumber)
      /\ Return /\ UNCHANGED <<canoeRunning, currentCanoeExecution, closing, listed>>
  BY DEF LsReturns, shellVars
<1>3. canoeRunning /\ existingSaveState = {} /\ canoeRunning \in BOOLEAN
      /\ Top.line.arg = currentCanoeExecution.game
  BY <1>1 DEF Flags, InTurn
<1>4. \/ Numbers(Result) = {}
      \/ /\ Numbers(Result) = listed.states /\ listed.states \in SUBSET SaveNumber
         /\ listed.game = currentCanoeExecution.game
  <2>1. CASE Result = <<>>
    BY <2>1 DEF Numbers
  <2>2. CASE Told(Top.line) /\ Result = printed.result
    <3>1. Result = ListedSaves(listed.states) /\ listed.game = Top.line.arg
      BY <1>1, <2>2 DEF Told
    <3>2. listed.states \in SUBSET SaveNumber
      BY DEF TypesInv, WindowTypes
    <3>3. QED
      BY <1>3, <3>1, <3>2, NumbersListed
  <2>3. QED
    BY <1>1, <2>1, <2>2
<1>5. Numbers(Result) \subseteq SaveNumber
  BY <1>4
<1>6. existingSaveState' # {} =>
        listed' = [game |-> currentCanoeExecution'.game, states |-> existingSaveState']
  <2>1. listed = [game |-> listed.game, states |-> listed.states]
    BY DEF TypesInv, WindowTypes
  <2>2. existingSaveState' = Numbers(Result)
    BY <1>2, <1>3, <1>5
  <2>3. QED
    BY <1>2, <1>4, <2>1, <2>2
<1>7. Dialogue' /\ Slot' /\ stack' = <<>> /\ Len(stack') = 0
  BY <1>1, <1>2, ReturnInTurn
<1>8. Flags'
  BY <1>1, <1>2, <1>3, <1>5, <1>6, <1>7 DEF Flags
<1>9. QED
  BY <1>1, <1>2, <1>3, <1>7, <1>8 DEF InTurn

LEMMA CanoeKilledInTurn ==
  MaxInterrupts = 0 /\ TypesInv /\ InTurn /\ CanoeKilled => InTurn'
<1> SUFFICES ASSUME MaxInterrupts = 0, TypesInv, InTurn, CanoeKilled PROVE InTurn'
  OBVIOUS
<1>1. /\ stack # <<>> /\ ~closing /\ Dialogue /\ Slot /\ Flags /\ m_istate \notin InFlight
      /\ Top.line.cmd = "kill canoe" /\ Below = <<>> /\ Top \in Frames
  BY ResumesInTurn DEF CanoeKilled
<1>2. /\ Sync(<<>>, KillReed, Top.number)
      /\ UNCHANGED <<canoeRunning, existingSaveState, currentCanoeExecution, crashed, closing, listed>>
  BY <1>1 DEF CanoeKilled, shellVars
<1>3. Top.number \in {0} \cup SaveNumber
  BY <1>1 DEF Frames
<1>4. Dialogue' /\ Slot' /\ Len(stack') = 1 /\ stack' # <<>> /\ Top'.line = KillReed
  BY <1>1, <1>2, <1>3, SlotNames, SyncInTurn
<1>5. Top'.line.cmd = "kill reed"
  BY <1>4, SlotNames
<1>6. Flags'
  BY <1>1, <1>2, <1>5 DEF Flags, InList
<1>7. canoeRunning' \in BOOLEAN /\ Len(stack') <= 1 /\ ~closing'
  <2>1. canoeRunning' = canoeRunning /\ canoeRunning \in BOOLEAN
    BY <1>2 DEF InTurn
  <2>2. closing' = closing /\ ~closing
    BY <1>1, <1>2
  <2>3. Len(stack') <= 1
    BY <1>4
  <2>4. QED
    BY <2>1, <2>2, <2>3, Zenon
<1>8. QED
  BY <1>4, <1>6, <1>7 DEF InTurn

LEMMA ReedKilledInTurn ==
  MaxInterrupts = 0 /\ TypesInv /\ InTurn /\ ReedKilled => InTurn'
<1> SUFFICES ASSUME MaxInterrupts = 0, TypesInv, InTurn, ReedKilled PROVE InTurn'
  OBVIOUS
<1>1. /\ stack # <<>> /\ ~closing /\ Dialogue /\ Slot /\ Flags /\ m_istate \notin InFlight
      /\ Top.line.cmd = "kill reed"
  BY ResumesInTurn DEF ReedKilled
<1>2. /\ Return
      /\ UNCHANGED <<canoeRunning, existingSaveState, currentCanoeExecution, crashed, closing, listed>>
  BY <1>1 DEF ReedKilled, shellVars
<1>3. Dialogue' /\ Slot' /\ stack' = <<>> /\ Len(stack') = 0
  BY <1>1, <1>2, ReturnInTurn
<1>4. Flags'
  BY <1>1, <1>2, <1>3 DEF Flags
<1>5. canoeRunning' \in BOOLEAN /\ Len(stack') <= 1 /\ ~closing'
  <2>1. canoeRunning' = canoeRunning /\ canoeRunning \in BOOLEAN
    BY <1>2 DEF InTurn
  <2>2. closing' = closing /\ ~closing
    BY <1>1, <1>2
  <2>3. Len(stack') <= 1
    BY <1>3
  <2>4. QED
    BY <2>1, <2>2, <2>3, Zenon
<1>6. QED
  BY <1>3, <1>4, <1>5 DEF InTurn

LEMMA CloseReturnsInTurn ==
  MaxInterrupts = 0 /\ TypesInv /\ InTurn /\ CloseReturns => InTurn'
<1> SUFFICES ASSUME MaxInterrupts = 0, TypesInv, InTurn, CloseReturns PROVE InTurn'
  OBVIOUS
<1>1. /\ stack # <<>> /\ ~closing /\ Dialogue /\ Slot /\ Flags /\ m_istate \notin InFlight
      /\ Below = <<>>
  BY ResumesInTurn DEF CloseReturns
<1>2. /\ CloseConnection /\ closing' = TRUE /\ stack' = Quit(<<>>)
      /\ UNCHANGED <<canoeRunning, existingSaveState, currentCanoeExecution, crashed, listed>>
  BY <1>1 DEF CloseReturns, shellVars
<1>3. stack' = <<>> /\ Len(stack') = 0
  <2>1. <<>> \in Seq(Frames) /\ Len(<<>>) = 0
    BY EmptySeq
  <2>2. stack' \in Seq(Frames) /\ Len(stack') = 0
    BY <1>2, <2>1, QuitTypes
  <2>3. QED
    BY <2>2, EmptySeq
<1>4. m_istate' # "IReady"
  <2>1. CASE m_state = "Ready"
    BY <1>2, <2>1 DEF CloseConnection, WriteToTelnet
  <2>2. CASE m_state # "Ready"
    BY <1>1, <1>2, <2>2 DEF CloseConnection, Dialogue
  <2>3. QED
    BY <2>1, <2>2
<1>5. Flags'
  BY <1>1, <1>2, <1>3 DEF Flags
<1>6. NoList'
  <2>1. CASE m_state # "Offline"
    BY <1>2, <2>1 DEF CloseConnection, NoList
  <2>2. CASE m_state = "Offline" /\ socket = "connected"
    <3>1. m_istate \in {"SocketConnected", "LoginWritten", "PromptChangeWritten"}
      BY <1>1, <2>2 DEF Dialogue, TypesInv, ConnectionTypes, IStates, InFlight
    <3>2. typed = <<>> \/ typed = <<User>> \/ typed = <<SetPrompt>>
      BY <1>1, <3>1 DEF Dialogue, Greeted, LoggingIn, ChangingPrompt
    <3> DEFINE L == {line \in Lines : line.cmd # "ls"}
    <3>3. User \in L /\ SetPrompt \in L
      BY LineNames DEF User, SetPrompt, Line
    <3> HIDE DEF L
    <3>4. typed \in Seq(L)
      <4>1. <<>> \in Seq(L)
        BY EmptySeq
      <4>2. \A a \in L : <<a>> \in Seq(L)
        OBVIOUS
      <4>3. <<User>> \in Seq(L) /\ <<SetPrompt>> \in Seq(L)
        BY <3>3, <4>2
      <4>4. QED
        BY <3>2, <4>1, <4>3
    <3>5. typed' = typed
      BY <1>2, <2>2 DEF CloseConnection
    <3>6. QED
      BY <3>4, <3>5 DEF NoList, L
  <2>3. CASE m_state = "Offline" /\ socket # "connected"
    BY <1>2, <2>3 DEF CloseConnection, NoList
  <2>4. QED
    BY <2>1, <2>2, <2>3
<1>7. canoeRunning' \in BOOLEAN /\ Len(stack') <= 1
  <2>1. canoeRunning' = canoeRunning /\ canoeRunning \in BOOLEAN
    BY <1>2 DEF InTurn
  <2>2. QED
    BY <1>3, <2>1
<1>8. QED
  BY <1>2, <1>3, <1>4, <1>5, <1>6, <1>7, Zenon DEF InTurn


\* A slot is called: no other one waits.
LEMMA CallsInTurn ==
  MaxInterrupts = 0 /\ TypesInv /\ InTurn
    /\ (OnTimerTick \/ CloseEvent \/ \E n \in SaveNumber : KeyPressEvent(n)) => InTurn'
<1> SUFFICES ASSUME MaxInterrupts = 0, TypesInv, InTurn,
                    OnTimerTick \/ CloseEvent \/ \E n \in SaveNumber : KeyPressEvent(n)
             PROVE  InTurn'
  OBVIOUS
<1>1. stack = <<>> /\ ~closing /\ Dialogue /\ Flags /\ canoeRunning \in BOOLEAN
      /\ m_istate \notin InFlight
  <2>1. Interrupt
    BY DEF OnTimerTick, CloseEvent, KeyPressEvent
  <2>2. stack = <<>> /\ ~closing
    BY <2>1, OneSlot
  <2>3. QED
    BY <2>2 DEF InTurn, Dialogue
<1>2. UNCHANGED <<canoeRunning, existingSaveState, crashed, closing, listed>>
  BY DEF OnTimerTick, CloseEvent, KeyPressEvent, shellVars
<1>3. ASSUME NEW line \in SlotLines, NEW number \in {0} \cup SaveNumber,
             Sync(<<>>, line, number),
             Top'.line = line => Flags'
      PROVE  InTurn'
  <2>1. Dialogue' /\ Slot' /\ Len(stack') = 1 /\ stack' # <<>> /\ Top'.line = line
    BY <1>1, <1>3, SyncInTurn
  <2>2. canoeRunning' = canoeRunning /\ closing' = closing /\ Len(stack') <= 1
    BY <1>2, <2>1
  <2>3. QED
    BY <1>1, <1>3, <2>1, <2>2, Zenon DEF InTurn
<1>4. CASE OnTimerTick
  <2>1. Sync(<<>>, PidofCanoe, 0) /\ UNCHANGED currentCanoeExecution
    BY <1>1, <1>4 DEF OnTimerTick
  <2>2. PidofCanoe \in SlotLines /\ 0 \in {0} \cup SaveNumber /\ PidofCanoe.cmd = "pidof"
    BY SlotNames
  <2>3. ASSUME Top'.line = PidofCanoe PROVE Flags'
    BY <1>1, <1>2, <2>1, <2>2, <2>3 DEF Flags
  <2>4. QED
    BY <1>3, <2>1, <2>2, <2>3
<1>5. CASE CloseEvent
  <2>1. Sync(<<>>, KillHexdump, 0) /\ UNCHANGED currentCanoeExecution
    BY <1>1, <1>5 DEF CloseEvent
  <2>2. KillHexdump \in SlotLines /\ 0 \in {0} \cup SaveNumber /\ KillHexdump.cmd = "killall"
    BY SlotNames
  <2>3. ASSUME Top'.line = KillHexdump PROVE Flags'
    BY <1>1, <1>2, <2>1, <2>2, <2>3 DEF Flags
  <2>4. QED
    BY <1>3, <2>1, <2>2, <2>3
<1>6. ASSUME NEW n \in SaveNumber, KeyPressEvent(n)
      PROVE  InTurn'
  <2>1. /\ Sync(<<>>, KillCanoe, n) /\ n \in existingSaveState
        /\ currentCanoeExecution' = [currentCanoeExecution EXCEPT !.load = n]
    BY <1>1, <1>6 DEF KeyPressEvent
  <2>2. currentCanoeExecution \in Loaded
    BY <2>1 DEF TypesInv, WindowTypes
  <2>3. /\ currentCanoeExecution' \in Loaded /\ currentCanoeExecution'.load = n
        /\ currentCanoeExecution'.game = currentCanoeExecution.game
    BY <2>1, <2>2 DEF Loaded
  <2>4. /\ canoeRunning
        /\ listed = [game |-> currentCanoeExecution.game, states |-> existingSaveState]
    BY <1>1, <2>1 DEF Flags
  <2>5. InList(currentCanoeExecution)'
    BY <1>2, <2>1, <2>3, <2>4 DEF InList
  <2>6. KillCanoe \in SlotLines /\ n \in {0} \cup SaveNumber /\ KillCanoe.cmd = "kill canoe"
    BY SlotNames
  <2>7. ASSUME Top'.line = KillCanoe PROVE Flags'
    BY <1>1, <1>2, <2>3, <2>4, <2>5, <2>6, <2>7 DEF Flags
  <2>8. QED
    BY <1>3, <2>1, <2>6, <2>7
<1>7. QED
  BY <1>4, <1>5, <1>6

\* The connection is made, refused or lost.
LEMMA ConnectedInTurn ==
  MaxInterrupts = 0 /\ TypesInv /\ InTurn /\ Connected => InTurn'
<1> SUFFICES ASSUME MaxInterrupts = 0, TypesInv, InTurn, Connected PROVE InTurn'
  OBVIOUS
<1> DEFINE greetings == {<<Negotiation>> \o LoginPrompt, <<NotRunning>>}
<1>1. ~closing /\ Dialogue /\ Slot /\ Flags /\ canoeRunning \in BOOLEAN /\ Len(stack) <= 1
  BY DEF InTurn, Connected, Up
<1>2. PICK greeting \in greetings : OnSocketConnected(greeting)
  BY DEF Connected
<1>3. UNCHANGED windowVars
  BY DEF Connected
<1>4. /\ socket = "connecting" /\ socket' = "connected" /\ m_istate' = "SocketConnected"
      /\ wire' = greeting /\ typed' = <<>>
      /\ login' = IF Has(greeting, LoginPrompt) THEN "user" ELSE "none"
      /\ UNCHANGED <<m_state, readBuffer, calcSizeSent, lastCommandReturn, unread>>
  BY <1>2 DEF OnSocketConnected
<1>5. m_istate = "AttemptConnection" /\ m_state = "Offline" /\ unread = <<>> /\ readBuffer = <<>>
  BY <1>1, <1>4 DEF Dialogue
<1>6. greeting \in Seq(Cell) /\ Coming' = greeting
  <2>1. <<Negotiation>> \in Seq(Cell) /\ LoginPrompt \in Seq(Cell) /\ <<NotRunning>> \in Seq(Cell)
    BY PromptTypes
  <2>2. greeting \in Seq(Cell)
    BY <1>2, <2>1, CellsTypes
  <2>3. <<>> \o greeting = greeting
    BY <2>2, ConcatEmptySeq
  <2>4. QED
    BY <1>4, <1>5, <2>2, <2>3 DEF Coming
<1>7. /\ AtEnd(greeting, "login2")
      /\ \/ Has(greeting, LoginPrompt) /\ Only(greeting, {"negotiation", "login1", "login2"})
         \/ ~Has(greeting, LoginPrompt) /\ Only(greeting, {"offline"})
  <2>1. CASE greeting = <<Negotiation>> \o LoginPrompt
    <3>1. /\ <<Negotiation>> \in Seq(Cell) /\ Len(<<Negotiation>>) = 1
          /\ <<Negotiation>>[1] = Negotiation /\ Negotiation.what = "negotiation"
          /\ LoginPrompt \in Seq(Cell) /\ Len(LoginPrompt) = 2 /\ DOMAIN LoginPrompt = 1..2
          /\ LoginPrompt[1].what = "login1" /\ LoginPrompt[2].what = "login2"
      BY PromptTypes
    <3>2. /\ Len(greeting) = 3 /\ greeting[1] = Negotiation
          /\ \A i \in 1..2 : greeting[1 + i] = LoginPrompt[i]
      <4>1. /\ Len(greeting) = 1 + 2
            /\ \A i \in 1..1 : greeting[i] = <<Negotiation>>[i]
            /\ \A i \in 1..2 : greeting[1 + i] = LoginPrompt[i]
        BY <2>1, <3>1, CellAt
      <4>2. QED
        BY <3>1, <4>1
    <3>3. greeting[1].what = "negotiation" /\ greeting[2].what = "login1" /\ greeting[3].what = "login2"
      <4>1. greeting[1 + 1] = LoginPrompt[1] /\ greeting[1 + 2] = LoginPrompt[2]
        BY <3>2
      <4>2. QED
        BY <3>1, <3>2, <4>1
    <3>4. \A i \in 1..3 : i = 1 \/ i = 2 \/ i = 3
      OBVIOUS
    <3>5. Only(greeting, {"negotiation", "login1", "login2"}) /\ AtEnd(greeting, "login2")
      BY <3>2, <3>3, <3>4 DEF Only, AtEnd
    <3>6. 2 \in Places(greeting, LoginPrompt)
      <4>1. Places(greeting, LoginPrompt) =
              {i \in 1..(Len(greeting) - 1) : /\ greeting[i].what = LoginPrompt[1].what
                                              /\ greeting[i + 1].what = LoginPrompt[2].what}
        BY <1>6, <3>1, TwoCells
      <4>2. 2 \in 1..(Len(greeting) - 1) /\ 2 + 1 = 3
        BY <3>2
      <4>3. QED
        BY <3>1, <3>3, <4>1, <4>2
    <3>7. Has(greeting, LoginPrompt)
      BY <1>6, <3>1, <3>6, IndexFound DEF Has
    <3>8. QED
      BY <3>5, <3>7
  <2>2. CASE greeting = <<NotRunning>>
    <3>1. Len(<<NotRunning>>) = 1 /\ <<NotRunning>>[1] = NotRunning /\ NotRunning.what = "offline"
      BY PromptTypes
    <3>2. \A i \in 1..Len(greeting) : i = 1 /\ greeting[i].what = "offline"
      BY <2>2, <3>1
    <3>3. Only(greeting, {"offline"}) /\ AtEnd(greeting, "login2")
      BY <3>2 DEF Only, AtEnd
    <3>4. Only(greeting, Whats \ {"login2"})
      BY <3>2 DEF Only, Whats
    <3>5. QED
      BY <1>6, <3>3, <3>4, Waited
  <2>3. QED
    BY <1>2, <2>1, <2>2
<1>8. Greeted'
  BY <1>4, <1>5, <1>6, <1>7 DEF Greeted
<1>9. Dialogue'
  BY <1>4, <1>5, <1>8 DEF Dialogue, InFlight
<1>10. UNCHANGED <<canoeRunning, existingSaveState, currentCanoeExecution, stack, crashed, listed,
                   Top>>
  BY <1>3 DEF windowVars, Top, Connected, shellVars
<1>11. Slot'
  BY <1>1, <1>4, <1>5, <1>10 DEF Slot, InFlight
<1>12. Flags'
  BY <1>1, <1>10 DEF Flags, InList
<1>13. canoeRunning' = canoeRunning /\ closing' = closing /\ stack' = stack
  BY <1>3 DEF windowVars
<1>14. QED
  BY <1>1, <1>9, <1>11, <1>12, <1>13, Zenon DEF InTurn

LEMMA LostInTurn ==
  MaxInterrupts = 0 /\ TypesInv /\ InTurn /\ (Refused \/ Disconnected) => InTurn'
<1> SUFFICES ASSUME MaxInterrupts = 0, TypesInv, InTurn, Refused \/ Disconnected PROVE InTurn'
  OBVIOUS
<1>1. ~closing /\ Dialogue /\ Slot /\ Flags /\ canoeRunning \in BOOLEAN /\ Len(stack) <= 1
  BY DEF InTurn, Refused, Disconnected, Up
<1>2. UNCHANGED <<canoeRunning, existingSaveState, currentCanoeExecution, stack, crashed, closing,
                  printed, listed, Top>>
  BY DEF Refused, Disconnected, Top, shellVars
<1>3. /\ m_istate' = "Init" /\ socket' = "unconnected" /\ UNCHANGED lastCommandReturn
      /\ m_state' = "Offline"
      /\ socket = "connecting" => m_istate = "AttemptConnection"
  BY <1>1 DEF Refused, Disconnected, OnSocketError, OnSocketDisconnected, Dialogue
<1>4. Dialogue'
  BY <1>3 DEF Dialogue, InFlight
<1>5. Slot'
  BY <1>1, <1>2, <1>3 DEF Slot, InFlight, Told
<1>6. Flags'
  BY <1>1, <1>2 DEF Flags, InList
<1>7. canoeRunning' = canoeRunning /\ closing' = closing /\ stack' = stack
  BY <1>2
<1>8. QED
  BY <1>1, <1>4, <1>5, <1>6, <1>7, Zenon DEF InTurn

\* A read: the answer's end lets the slot that waits go on.
LEMMA ReceiveInTurn ==
  MaxInterrupts = 0 /\ TypesInv /\ TypesInv' /\ InTurn /\ Receive => InTurn'
<1> SUFFICES ASSUME MaxInterrupts = 0, TypesInv, TypesInv', InTurn, Receive PROVE InTurn'
  OBVIOUS
<1>1. ~closing /\ Dialogue /\ Slot /\ Flags /\ canoeRunning \in BOOLEAN /\ Len(stack) <= 1
  BY DEF InTurn, Receive, Up
<1>2. PICK n \in 1..Len(wire) : OnSocketReadReady(n)
  BY DEF Receive
<1>3. /\ UNCHANGED <<canoeRunning, existingSaveState, currentCanoeExecution, crashed, closing>>
      /\ UNCHANGED <<printed, listed>>
      /\ stack' = IF signal' = "commandReturn" THEN Quit(stack) ELSE stack
  BY DEF Receive, shellVars
<1>4. ConnectionTypes /\ ConnectionTypes'
  BY DEF TypesInv
<1>5. PICK raw : OneRead(raw)
  BY <1>2, <1>4, ReadsOne
<1>6. Coming # <<>> /\ ~InPrompt
  <2>1. wire # <<>>
    <3>1. Len(wire) # 0
      BY <1>2
    <3>2. QED
      BY <3>1, EmptySeq
  <2>2. QED
    BY <1>4, <2>1, ComingTypes DEF InPrompt
<1>7. socket = "connected" /\ UNCHANGED socket
  BY <1>5 DEF OneRead
<1>8. m_istate \in {"SocketConnected", "LoginWritten", "PromptChangeWritten", "DataWritten",
                    "WaitingForCmd"}
  BY <1>1, <1>4, <1>6, <1>7 DEF Dialogue, ConnectionTypes, IStates
<1>9. /\ Len(stack') = Len(stack) /\ (stack' # <<>> <=> stack # <<>>)
      /\ stack # <<>> =>
           /\ Top'.line = Top.line
           /\ Top'.loop = IF signal' = "commandReturn" /\ Top.loop = "runs" THEN "quit" ELSE Top.loop
  <2>1. /\ Len(stack) \in Nat /\ stack \in Seq(Frames)
        /\ stack # <<>> => Len(stack) = 1 /\ Top = stack[1]
    BY OneSlot DEF TypesInv, WindowTypes
  <2>2. CASE signal' # "commandReturn"
    BY <1>3, <2>2 DEF Top
  <2>3. CASE signal' = "commandReturn"
    <3>1. stack' = Quit(stack)
      BY <1>3, <2>3
    <3>2. /\ stack' \in Seq(Frames) /\ Len(stack') = Len(stack)
          /\ \A i \in 1..Len(stack) :
               /\ stack'[i].line = stack[i].line
               /\ stack'[i].loop = IF stack[i].loop = "runs" THEN "quit" ELSE stack[i].loop
      BY <2>1, <3>1, QuitTypes
    <3>3. stack' # <<>> <=> stack # <<>>
      BY <2>1, <3>2, EmptySeq
    <3>4. stack # <<>> => Top' = stack'[1] /\ 1 \in 1..Len(stack)
      BY <2>1, <3>2 DEF Top
    <3>5. QED
      BY <2>1, <2>3, <3>2, <3>3, <3>4
  <2>4. QED
    BY <2>2, <2>3
<1>10. Flags'
  BY <1>1, <1>3, <1>9 DEF Flags, InList
<1>11. Dialogue' /\ Slot'
  <2>1. CASE m_istate = "SocketConnected"
    <3>1. /\ UNCHANGED <<m_state, lastCommandReturn>> /\ signal' # "commandReturn"
          /\ \/ m_istate' = "SocketConnected" /\ Greeted'
             \/ m_istate' = "LoginWritten" /\ LoggingIn'
      BY <1>1, <1>4, <1>5, <2>1, GreetingRead DEF Dialogue
    <3>2. Dialogue'
      BY <1>1, <1>7, <2>1, <3>1 DEF Dialogue, InFlight
    <3>3. Slot'
      BY <1>1, <1>9, <2>1, <3>1 DEF Slot, InFlight
    <3>4. QED
      BY <3>2, <3>3
  <2>2. CASE m_istate = "LoginWritten"
    <3>1. /\ UNCHANGED <<m_state, lastCommandReturn>> /\ signal' # "commandReturn"
          /\ \/ m_istate' = "LoginWritten" /\ LoggingIn'
             \/ m_istate' = "PromptChangeWritten" /\ ChangingPrompt'
      BY <1>1, <1>4, <1>5, <1>6, <2>2, LoginRead DEF Dialogue
    <3>2. Dialogue'
      BY <1>1, <1>7, <2>2, <3>1 DEF Dialogue, InFlight
    <3>3. Slot'
      BY <1>1, <1>9, <2>2, <3>1 DEF Slot, InFlight
    <3>4. QED
      BY <3>2, <3>3
  <2>3. CASE m_istate = "PromptChangeWritten"
    <3>1. /\ UNCHANGED lastCommandReturn /\ signal' # "commandReturn"
          /\ \/ m_istate' = "PromptChangeWritten" /\ UNCHANGED m_state /\ ChangingPrompt'
             \/ m_istate' = "PromptChanged" /\ m_state' = "Connected" /\ InPrompt'
      BY <1>1, <1>4, <1>5, <1>6, <2>3, PromptRead DEF Dialogue
    <3>2. Dialogue'
      BY <1>1, <1>7, <2>3, <3>1 DEF Dialogue, InFlight
    <3>3. Slot'
      BY <1>1, <1>9, <2>3, <3>1 DEF Slot, InFlight
    <3>4. QED
      BY <3>2, <3>3
  <2>4. CASE m_istate \in InFlight
    <3>1. m_state # "Offline" /\ stack # <<>> /\ Top.loop = "runs"
      BY <1>1, <2>4 DEF Dialogue
    <3>2. PICK line \in Lines : Top.line = line
      <4>1. Top.line \in Lines
        BY <3>1, OneSlot DEF Frames, Lines
      <4>2. QED
        BY <4>1
    <3>3. \/ m_istate = "DataWritten" /\ Asked(line)
          \/ m_istate = "WaitingForCmd" /\ Answering(line)
      BY <1>1, <2>4, <3>2 DEF Dialogue, InFlight
    <3>4. Top'.line = line
      BY <1>9, <3>1, <3>2
    <3>5. \/ /\ m_istate' = "IReady" /\ m_state' = "Ready" /\ InPrompt'
             /\ Told(line)' /\ lastCommandReturn' = printed'.result /\ signal' = "commandReturn"
          \/ /\ UNCHANGED m_state /\ signal' # "commandReturn"
             /\ \/ m_istate' = "DataWritten" /\ Asked(line)'
                \/ m_istate' = "WaitingForCmd" /\ Answering(line)'
      BY <1>3, <1>4, <1>5, <1>6, <3>3, AnswerRead
    <3>6. CASE /\ m_istate' = "IReady" /\ m_state' = "Ready" /\ InPrompt'
               /\ Told(line)' /\ lastCommandReturn' = printed'.result /\ signal' = "commandReturn"
      <4>1. Top'.loop = "quit"
        BY <1>9, <3>1, <3>6
      <4>2. Dialogue'
        BY <1>7, <3>6 DEF Dialogue, InFlight
      <4>3. Told(Top.line)' /\ lastCommandReturn' = printed'.result
        BY <3>4, <3>6 DEF Told
      <4>4. Slot'
        BY <3>6, <4>1, <4>3 DEF Slot
      <4>5. QED
        BY <4>2, <4>4
    <3>7. CASE /\ UNCHANGED m_state /\ signal' # "commandReturn"
               /\ \/ m_istate' = "DataWritten" /\ Asked(line)'
                  \/ m_istate' = "WaitingForCmd" /\ Answering(line)'
      <4>1. Top'.loop = "runs" /\ stack' # <<>>
        BY <1>9, <3>1, <3>7
      <4>2. \/ m_istate' = "DataWritten" /\ Asked(Top.line)'
            \/ m_istate' = "WaitingForCmd" /\ Answering(Top.line)'
        BY <3>4, <3>7 DEF Asked, Answering, Told
      <4>3. Dialogue'
        BY <1>7, <3>1, <3>7, <4>1, <4>2 DEF Dialogue, InFlight
      <4>4. Slot'
        BY <3>7, <4>1 DEF Slot, InFlight
      <4>5. QED
        BY <4>3, <4>4
    <3>8. QED
      BY <3>5, <3>6, <3>7
  <2>5. QED
    BY <1>8, <2>1, <2>2, <2>3, <2>4 DEF InFlight
<1>12. canoeRunning' = canoeRunning /\ closing' = closing /\ Len(stack') = Len(stack)
  BY <1>3, <1>9
<1>13. QED
  BY <1>1, <1>10, <1>11, <1>12, Zenon DEF InTurn


\* The console reads the line and writes all of its answer.
LEMMA ConsoleInTurn ==
  MaxInterrupts = 0 /\ TypesInv /\ TypesInv' /\ InTurn /\ Console => InTurn'
<1> SUFFICES ASSUME MaxInterrupts = 0, TypesInv, TypesInv', InTurn, Console PROVE InTurn'
  OBVIOUS
<1>1. /\ ConsoleReads(ResultOf(Head(typed)))
      /\ UNCHANGED <<connectionVars, socket, unread, canoeRunning, existingSaveState,
                     currentCanoeExecution, stack, crashed, closing, Top>>
  BY DEF Console, ConsoleReads, windowVars, Top
<1>2. UNCHANGED <<m_state, m_istate, readBuffer, calcSizeSent, lastCommandReturn, socket, unread>>
  BY <1>1 DEF connectionVars
<1>3. Head(typed).cmd # "ls" => Flags'
  <2>1. Head(typed).cmd # "ls" => UNCHANGED listed
    BY DEF Console
  <2>2. QED
    BY <1>1, <2>1 DEF InTurn, Flags, InList
<1>4. canoeRunning' = canoeRunning /\ closing' = closing /\ stack' = stack
  BY <1>1
<1>5. ASSUME closing PROVE InTurn'
  <2>1. stack' = <<>> /\ m_istate' # "IReady" /\ Len(stack') <= 1 /\ NoList
    BY <1>2, <1>4, <1>5 DEF InTurn
  <2>2. canoeRunning \in BOOLEAN
    BY DEF InTurn
  <2> DEFINE L == {line \in Lines : line.cmd # "ls"}
  <2>3. Head(typed) \in L /\ Tail(typed) \in Seq(L)
    <3>1. typed \in Seq(L) /\ typed # <<>>
      BY <1>1, <2>1 DEF NoList, ConsoleReads
    <3> HIDE DEF L
    <3>2. QED
      BY <3>1, HeadTailProperties
  <2>4. NoList' /\ Head(typed).cmd # "ls"
    BY <1>1, <2>3 DEF NoList, ConsoleReads
  <2>5. QED
    BY <1>3, <1>4, <1>5, <2>1, <2>2, <2>4, Zenon DEF InTurn
<1>6. ASSUME ~closing PROVE InTurn'
  <2>1. Dialogue /\ Slot /\ Flags /\ canoeRunning \in BOOLEAN /\ Len(stack) <= 1
    BY <1>6 DEF InTurn
  <2>2. PICK line \in Lines : line = Head(typed)
    <3>1. typed # <<>> /\ typed \in Seq(Lines)
      BY <1>1 DEF ConsoleReads, TypesInv, ConnectionTypes
    <3>2. Head(typed) \in Lines
      BY <3>1, HeadTailProperties
    <3>3. QED
      BY <3>2
  <2>3. PICK r : r = ResultOf(line)
    OBVIOUS
  <2>4. /\ socket = "connected" /\ typed # <<>> /\ typed' = Tail(typed)
        /\ \/ /\ login = "user" /\ login' = "shell"
              /\ wire' = wire \o Echo(line) \o ShellPrompt
           \/ /\ login = "shell" /\ login' = "marked"
              /\ wire' = wire \o Echo(line) \o Mark
           \/ /\ login = "marked" /\ UNCHANGED login
              /\ wire' = wire \o Echo(line) \o r \o Mark
    BY <1>1, <2>2, <2>3 DEF ConsoleReads
  <2>5. /\ IsResult(line, r) /\ r \in Seq(Cell)
        /\ line.cmd = "ls" => r = ListedSaves(saves[line.arg])
    BY <2>3, ResultType DEF TypesInv, WindowTypes
  <2>a. login = "marked" =>
          /\ printed' = [line |-> line, result |-> r]
          /\ line.cmd = "ls" => listed' = [game |-> line.arg, states |-> saves[line.arg]]
    BY <2>2, <2>3 DEF Console
  <2>b. m_istate \notin {"IReady", "Init"} => Slot'
    BY <1>1, <1>2, <2>1 DEF Slot
  <2>6. /\ Echo(line) \in Seq(Cell) /\ Mark \in Seq(Cell) /\ ShellPrompt \in Seq(Cell)
        /\ Len(Echo(line)) = Rows[line.cmd] /\ Rows[line.cmd] \in Nat /\ Rows[line.cmd] >= 1
    BY AnswerCells, EchoType, LineTypes, PromptTypes
  <2>7. ASSUME Coming = <<>>, NEW t \in Seq(Cell), wire' = wire \o t PROVE Coming' = t
    <3>1. unread = <<>> /\ wire = <<>>
      BY <2>7, ComingTypes DEF TypesInv
    <3>2. QED
      BY <1>2, <2>7, <3>1, ConcatEmptySeq DEF Coming
  <2>8. ASSUME NEW s, typed = <<s>> PROVE line = s /\ typed' = <<>>
    <3>1. Head(typed) = s /\ Tail(typed) = <<>>
      BY <2>8, HeadTailProperties
    <3>2. QED
      BY <2>2, <2>4, <3>1
  <2>9. m_istate \in {"LoginWritten", "PromptChangeWritten", "DataWritten"}
    BY <2>1, <2>4 DEF Dialogue, Greeted, InPrompt, Answering, TypesInv, ConnectionTypes, IStates,
                      InFlight
  <2>10. CASE m_istate = "LoginWritten"
    <3>1. /\ login = "user" /\ typed = <<User>> /\ Coming = <<>> /\ readBuffer = <<>>
          /\ m_state = "Offline"
      BY <2>1, <2>4, <2>10 DEF Dialogue, LoggingIn
    <3>2. typed' = <<>> /\ login' = "shell" /\ wire' = wire \o Echo(line) \o ShellPrompt
      BY <2>4, <2>8, <3>1
    <3>3. PICK t \in Seq(Cell) : t = Echo(line) \o ShellPrompt
      BY <2>6, CellsTypes
    <3>4. wire' = wire \o t
      <4>1. wire \in Seq(Cell)
        BY DEF TypesInv, ConnectionTypes
      <4>2. QED
        BY <2>6, <3>2, <3>3, <4>1, CellsConcat
    <3>5. Coming' = t
      BY <2>7, <3>1, <3>4
    <3>6. Only(t, {"echo", "shell1", "shell2"}) /\ AtEnd(t, "shell2")
      <4>1. /\ ShellPrompt \in Seq(Cell) /\ Len(ShellPrompt) = 2
            /\ ShellPrompt[1].what = "shell1" /\ ShellPrompt[2].what = "shell2"
        BY PromptTypes
      <4>2. \A i \in 1..2 : i = 1 \/ i = 2
        OBVIOUS
      <4>3. Only(ShellPrompt, {"echo", "shell1", "shell2"}) /\ AtEnd(ShellPrompt, "shell2")
        BY <4>1, <4>2 DEF Only, AtEnd
      <4>4. \A i \in 1..Len(Echo(line)) : Echo(line)[i].what = "echo"
        BY EchoType
      <4>5. Only(Echo(line), {"echo", "shell1", "shell2"})
        BY <4>4 DEF Only
      <4>6. Only(t, {"echo", "shell1", "shell2"})
        BY <2>6, <3>3, <4>3, <4>5, Parts
      <4>7. ASSUME NEW i \in 1..Len(t), t[i].what = "shell2" PROVE i = Len(t)
        <5>1. /\ Len(t) = Len(Echo(line)) + 2 /\ Len(Echo(line)) \in Nat
              /\ \A k \in 1..(Len(Echo(line)) + 2) :
                   t[k] = IF k <= Len(Echo(line)) THEN Echo(line)[k]
                          ELSE ShellPrompt[k - Len(Echo(line))]
          <6>1. Echo(line) \in Seq(Cell) /\ ShellPrompt \in Seq(Cell)
            BY <2>6, <4>1
          <6>2. /\ Len(Echo(line)) \in Nat
                /\ Len(Echo(line) \o ShellPrompt) = Len(Echo(line)) + Len(ShellPrompt)
                /\ \A k \in 1..(Len(Echo(line)) + Len(ShellPrompt)) :
                     (Echo(line) \o ShellPrompt)[k] =
                       IF k <= Len(Echo(line)) THEN Echo(line)[k]
                       ELSE ShellPrompt[k - Len(Echo(line))]
            BY <6>1, CellAt
          <6>3. QED
            BY <3>3, <4>1, <6>2
        <5>2. ~(i <= Len(Echo(line)))
          <6>1. SUFFICES ASSUME i <= Len(Echo(line)) PROVE FALSE
            OBVIOUS
          <6>2. i \in 1..Len(Echo(line)) /\ t[i] = Echo(line)[i]
            BY <5>1, <6>1
          <6>3. QED
            BY <4>4, <4>7, <6>2
        <5>3. i - Len(Echo(line)) \in 1..2 /\ t[i] = ShellPrompt[i - Len(Echo(line))]
          BY <5>1, <5>2
        <5>4. i - Len(Echo(line)) = 2
          BY <4>1, <4>2, <4>7, <5>3
        <5>5. QED
          BY <5>1, <5>4
      <4>8. QED
        BY <4>6, <4>7 DEF AtEnd
    <3>7. LoggingIn'
      BY <1>2, <3>1, <3>2, <3>5, <3>6 DEF LoggingIn
    <3>8. Dialogue'
      BY <1>2, <2>4, <2>10, <3>1, <3>7 DEF Dialogue, InFlight
    <3>9. Slot'
      BY <2>10, <2>b
    <3>10. Flags'
      <4>1. line = User
        BY <2>8, <3>1
      <4>2. User.cmd = "root"
        BY DEF User, Line
      <4>3. Head(typed).cmd # "ls"
        BY <2>2, <4>1, <4>2
      <4>4. QED
        BY <1>3, <4>3
    <3>11. QED
      BY <1>4, <1>6, <2>1, <3>8, <3>9, <3>10, Zenon DEF InTurn
  <2>11. CASE m_istate = "PromptChangeWritten"
    <3>1. /\ login = "shell" /\ typed = <<SetPrompt>> /\ Coming = <<>> /\ readBuffer = <<>>
          /\ m_state = "Offline"
      BY <2>1, <2>4, <2>11 DEF Dialogue, ChangingPrompt
    <3>2. line = SetPrompt /\ typed' = <<>> /\ login' = "marked" /\ wire' = wire \o Echo(line) \o Mark
      BY <2>4, <2>8, <3>1
    <3>3. PICK t \in Seq(Cell) : t = Echo(line) \o Mark
      BY <2>6, CellsTypes
    <3>4. wire' = wire \o t
      <4>1. wire \in Seq(Cell)
        BY DEF TypesInv, ConnectionTypes
      <4>2. QED
        BY <2>6, <3>2, <3>3, <4>1, CellsConcat
    <3>5. Coming' = t
      BY <2>7, <3>1, <3>4
    <3>6. t # <<>> /\ <<>> \o t = t
      <4>1. Echo(line) \in Seq(Cell) /\ Mark \in Seq(Cell) /\ Len(Mark) = 2
        BY <2>6, PromptTypes
      <4>a. Len(Echo(line)) \in Nat /\ Len(Echo(line) \o Mark) = Len(Echo(line)) + Len(Mark)
        BY <4>1, CellAt
      <4>2. Len(t) # 0
        BY <3>3, <4>1, <4>a
      <4>3. QED
        BY <4>2, EmptySeq, ConcatEmptySeq
    <3>7. ChangingPrompt'
      BY <1>2, <3>1, <3>2, <3>3, <3>5, <3>6 DEF ChangingPrompt
    <3>8. Dialogue'
      BY <1>2, <2>4, <2>11, <3>1, <3>7 DEF Dialogue, InFlight
    <3>9. Slot'
      BY <2>11, <2>b
    <3>10. Flags'
      <4>1. SetPrompt.cmd = "PS1"
        BY DEF SetPrompt, Line
      <4>2. Head(typed).cmd # "ls"
        BY <2>2, <3>2, <4>1
      <4>3. QED
        BY <1>3, <4>2
    <3>11. QED
      BY <1>4, <1>6, <2>1, <3>8, <3>9, <3>10, Zenon DEF InTurn
  <2>12. CASE m_istate = "DataWritten"
    <3>1. Asked(Top.line) /\ m_state # "Offline" /\ stack # <<>> /\ Top.loop = "runs"
      BY <2>1, <2>12 DEF Dialogue, InFlight
    <3>2. /\ login = "marked" /\ typed = <<Top.line>> /\ Coming = <<>> /\ readBuffer = <<>>
          /\ calcSizeSent = Rows[Top.line.cmd]
      BY <2>4, <3>1 DEF Asked
    <3>3. line = Top.line /\ typed' = <<>> /\ login' = "marked"
          /\ wire' = wire \o Echo(line) \o r \o Mark
      BY <2>4, <2>8, <3>2
    <3>4. PICK t \in Seq(Cell) : t = Echo(line) \o (r \o Mark)
      BY <2>5, AnswerCells
    <3>5. wire' = wire \o t
      <4>1. wire \in Seq(Cell) /\ r \o Mark \in Seq(Cell) /\ wire \o Echo(line) \in Seq(Cell)
        BY <2>5, <2>6, CellsTypes DEF TypesInv, ConnectionTypes
      <4>a. r \in Seq(Cell) /\ Mark \in Seq(Cell) /\ Echo(line) \in Seq(Cell)
        BY <2>5, <2>6, PromptTypes
      <4>2. wire \o Echo(line) \o r \o Mark = (wire \o Echo(line)) \o (r \o Mark)
        <5> DEFINE w == wire \o Echo(line)
        <5> HIDE DEF w
        <5>1. w \in Seq(Cell) /\ r \in Seq(Cell) /\ Mark \in Seq(Cell)
          BY <4>1, <4>a DEF w
        <5>2. (w \o r) \o Mark = w \o (r \o Mark)
          BY <5>1, CellsConcat
        <5>3. QED
          BY <5>2 DEF w
      <4>3. (wire \o Echo(line)) \o (r \o Mark) = wire \o (Echo(line) \o (r \o Mark))
        <5> DEFINE m == r \o Mark
        <5> HIDE DEF m
        <5>1. wire \in Seq(Cell) /\ Echo(line) \in Seq(Cell) /\ m \in Seq(Cell)
          BY <4>1, <4>a DEF m
        <5>2. (wire \o Echo(line)) \o m = wire \o (Echo(line) \o m)
          BY <5>1, CellsConcat
        <5>3. QED
          BY <5>2 DEF m
      <4>4. QED
        BY <3>3, <3>4, <4>2, <4>3
    <3>6. Coming' = t /\ <<>> \o t = t
      BY <2>7, <3>2, <3>5, ConcatEmptySeq
    <3>7. Top' = Top /\ readBuffer' = <<>> /\ calcSizeSent' = Rows[line.cmd]
      BY <1>1, <1>2, <3>2, <3>3
    <3>8. Len(readBuffer') < Rows[line.cmd]
      BY <2>6, <3>7, EmptySeq
    <3>9. readBuffer' \o Coming' = Echo(line) \o (r \o Mark)
      BY <3>4, <3>6, <3>7
    <3>10. Top'.line = line
      BY <3>3, <3>7
    <3>a. Told(line)' /\ printed'.result = r
      <4>1. printed'.line = line /\ printed'.result = r
        BY <2>a, <3>2
      <4>2. line.cmd = "ls" => listed'.game = line.arg /\ listed'.states = saves[line.arg]
        BY <2>a, <3>2
      <4>3. QED
        BY <2>5, <4>1, <4>2 DEF Told
    <3>11. Asked(Top.line)'
      BY <3>3, <3>7, <3>8, <3>9, <3>10, <3>a DEF Asked, Told
    <3>12. Dialogue'
      BY <1>1, <1>2, <2>4, <2>12, <3>1, <3>7, <3>11 DEF Dialogue, InFlight
    <3>13. Slot'
      BY <2>12, <2>b
    <3>14. Flags'
      <4>1. CASE line.cmd # "ls"
        BY <1>3, <2>2, <4>1
      <4>2. CASE line.cmd = "ls"
        BY <1>1, <2>1, <3>1, <3>3, <4>2 DEF Flags
      <4>3. QED
        BY <4>1, <4>2
    <3>15. QED
      BY <1>4, <1>6, <2>1, <3>12, <3>13, <3>14, Zenon DEF InTurn
  <2>13. QED
    BY <2>9, <2>10, <2>11, <2>12
<1>7. QED
  BY <1>5, <1>6

LEMMA EmulatorInTurn ==
  TypesInv /\ InTurn /\ (ConsoleRuns \/ Players) => InTurn'
<1> SUFFICES ASSUME TypesInv, InTurn, ConsoleRuns \/ Players PROVE InTurn'
  OBVIOUS
<1>1. UNCHANGED <<connectionVars, socket, unread, consoleVars, canoeRunning, existingSaveState,
                  currentCanoeExecution, stack, crashed, closing, printed, listed, Top>>
  BY DEF ConsoleRuns, Players, UserStarts, UserStops, UserSaves, UserDeletes, windowVars, Top
<1>2. Flags'
  BY <1>1 DEF InTurn, Flags, InList
<1>3. UNCHANGED <<socket, typed>>
  BY <1>1 DEF consoleVars
<1>4. UNCHANGED <<m_state, m_istate, readBuffer, calcSizeSent, lastCommandReturn, wire, typed, login,
                  Coming>>
  BY <1>1 DEF connectionVars, consoleVars, Coming
<1>5. /\ (Greeted' <=> Greeted) /\ (LoggingIn' <=> LoggingIn)
      /\ (ChangingPrompt' <=> ChangingPrompt) /\ (InPrompt' <=> InPrompt)
      /\ (Asked(Top.line)' <=> Asked(Top.line)) /\ (Answering(Top.line)' <=> Answering(Top.line))
  BY <1>1, <1>4 DEF Greeted, LoggingIn, ChangingPrompt, InPrompt, Asked, Answering, Told
<1>6. Dialogue => Dialogue'
  BY <1>1, <1>4, <1>5 DEF Dialogue
<1>7. Slot => Slot'
  BY <1>1, <1>4 DEF Slot, Told
<1>8. canoeRunning' = canoeRunning /\ closing' = closing /\ stack' = stack /\ m_istate' = m_istate
      /\ NoList' = NoList
  BY <1>1, <1>3, <1>4 DEF NoList
<1>9. QED
  BY <1>2, <1>6, <1>7, <1>8, Zenon DEF InTurn

LEMMA InTurnInit == Init => InTurn
<1> SUFFICES ASSUME Init PROVE InTurn
  OBVIOUS
<1>1. Len(<<>>) = 0
  BY EmptySeq
<1>2. Flags
  BY <1>1 DEF Init, Flags
<1>3. Dialogue
  BY DEF Init, Dialogue, InFlight
<1>4. Slot
  BY DEF Init, Slot
<1>5. Len(stack) <= 1
  BY <1>1 DEF Init
<1>6. canoeRunning = FALSE /\ closing = FALSE
  BY Zenon DEF Init
<1>7. canoeRunning \in BOOLEAN /\ ~closing
  BY <1>6, Zenon
<1>8. QED
  BY <1>2, <1>3, <1>4, <1>5, <1>7, Zenon DEF InTurn

LEMMA InTurnStep ==
  MaxInterrupts = 0 /\ TypesInv /\ InTurn /\ [Next]_vars => InTurn'
<1> SUFFICES ASSUME MaxInterrupts = 0, TypesInv, InTurn, [Next]_vars PROVE InTurn'
  OBVIOUS
<1>1. TypesInv'
  BY TypesStep
<1>2. CASE Resume
  BY <1>2, TickReturnsInTurn, PsReturnsInTurn, LsReturnsInTurn, CanoeKilledInTurn, ReedKilledInTurn,
     CloseReturnsInTurn DEF Resume
<1>3. CASE Events
  BY <1>3, CallsInTurn DEF Events
<1>4. CASE Network \/ Disconnected
  BY <1>1, <1>4, ConnectedInTurn, LostInTurn, ReceiveInTurn DEF Network
<1>5. CASE Console
  BY <1>1, <1>5, ConsoleInTurn
<1>6. CASE ConsoleRuns \/ Players
  BY <1>6, EmulatorInTurn
<1>7. CASE UNCHANGED vars
  <2>1. /\ UNCHANGED <<m_state, m_istate, readBuffer, calcSizeSent, lastCommandReturn, socket, unread,
                       wire, typed, login, canoeRunning, existingSaveState, currentCanoeExecution,
                       stack, crashed, closing, printed, listed, Coming, Top>>
    BY <1>7 DEF vars, telnetVars, connectionVars, consoleVars, windowVars, shellVars, Coming, Top
  <2>2. /\ (Greeted' <=> Greeted) /\ (LoggingIn' <=> LoggingIn)
        /\ (ChangingPrompt' <=> ChangingPrompt) /\ (InPrompt' <=> InPrompt)
        /\ (Asked(Top.line)' <=> Asked(Top.line)) /\ (Answering(Top.line)' <=> Answering(Top.line))
    BY <2>1 DEF Greeted, LoggingIn, ChangingPrompt, InPrompt, Asked, Answering, Told
  <2>3. (Dialogue => Dialogue') /\ (Slot => Slot') /\ (Flags => Flags')
    BY <2>1, <2>2 DEF Dialogue, Slot, Flags, Told, InList
  <2>4. canoeRunning' = canoeRunning /\ closing' = closing /\ stack' = stack /\ m_istate' = m_istate
        /\ NoList' = NoList
    BY <2>1 DEF NoList
  <2>5. QED
    BY <2>3, <2>4, Zenon DEF InTurn
<1>8. QED
  BY <1>2, <1>3, <1>4, <1>5, <1>6, <1>7 DEF Next

\* While no slot is called from the loop of another one, wherever the network
\* cuts the answers: the invariant from which the theorems below follow.
LEMMA InTurnHolds ==
  ASSUME MaxInterrupts = 0
  PROVE  Spec => [](TypesInv /\ InTurn)
<1>1. Init => TypesInv /\ InTurn
  BY TypesInit, InTurnInit
<1>2. TypesInv /\ InTurn /\ [Next]_vars => (TypesInv /\ InTurn)'
  BY TypesStep, InTurnStep
<1>3. QED
  BY <1>1, <1>2, PTL DEF Spec

\* A slot that goes on has what the shell printed for its own line, the one it
\* read last: all of it, in its order, with no echo, no prompt and no row of
\* another answer (onSocketReadReady, syncExecuteCommand).
THEOREM AnswersAreOwn ==
  ASSUME MaxInterrupts = 0
  PROVE  Spec => []OwnAnswer
<1>1. TypesInv /\ InTurn => OwnAnswer
  <2> SUFFICES ASSUME TypesInv, InTurn, ~closing,
                      NEW i \in DOMAIN stack, stack[i].loop = "quit"
               PROVE  printed.line = stack[i].line /\ lastCommandReturn = printed.result
    BY DEF OwnAnswer
  <2>1. Len(stack) \in Nat /\ Len(stack) <= 1 /\ DOMAIN stack = 1..Len(stack)
    BY LenProperties, OneSlot DEF TypesInv, WindowTypes
  <2>2. stack # <<>> /\ i = Len(stack)
    BY <2>1, EmptySeq
  <2>3. Top = stack[i]
    BY <2>2 DEF Top
  <2>4. Told(Top.line) /\ lastCommandReturn = printed.result
    BY <2>2, <2>3 DEF InTurn, Slot
  <2>5. QED
    BY <2>3, <2>4 DEF Told
<1>2. QED
  BY <1>1, InTurnHolds, PTL

\* Between two commands nothing is on its way (readBuffer, the socket).
THEOREM CommandsDoNotMix ==
  ASSUME MaxInterrupts = 0
  PROVE  Spec => []InStep
<1>1. TypesInv /\ InTurn => InStep
  BY DEF InTurn, Dialogue, InPrompt, InStep
<1>2. QED
  BY <1>1, InTurnHolds, PTL

\* The flags are what the shell listed last, and it listed it for the game whose
\* arguments are kept (onCanoeStarted, onCanoeStopped, currentCanoeExecution).
THEOREM FlagsAreOfTheGame ==
  ASSUME MaxInterrupts = 0
  PROVE  Spec => []SavesOfGame
<1>1. TypesInv /\ InTurn => SavesOfGame
  BY DEF InTurn, Flags, SavesOfGame
<1>2. QED
  BY <1>1, InTurnHolds, PTL

\* Only executeCanoe adds to what canoeRunCo's shell has to start.
LEMMA OnlyLoadsRun ==
  ASSUME [Next]_vars, ~ReedKilled
  PROVE  runs' = runs \/ (runs # <<>> /\ runs' = Tail(runs))
<1>1. CASE Resume
  BY <1>1 DEF Resume, TickReturns, PsReturns, LsReturns, CanoeKilled, CloseReturns
<1>2. CASE Network \/ Disconnected \/ Console
  BY <1>2 DEF Network, Connected, Refused, Receive, Disconnected, Console
<1>3. CASE Events
  BY <1>3 DEF Events, OnTimerTick, CloseEvent, KeyPressEvent
<1>4. CASE ConsoleRuns \/ Players
  BY <1>4 DEF ConsoleRuns, Players, UserStarts, UserStops, UserSaves, UserDeletes
<1>5. CASE UNCHANGED vars
  BY <1>5 DEF vars
<1>6. QED
  BY <1>1, <1>2, <1>3, <1>4, <1>5 DEF Next

\* A load that executeCanoe hands over is of a state in the list that the shell
\* printed last, and of that game (executeCanoe, two answers after its check).
THEOREM LoadsAreListed ==
  ASSUME MaxInterrupts = 0
  PROVE  Spec => LoadsListed
<1> DEFINE FromList ==
      Len(runs') > Len(runs) =>
        LET started == runs'[Len(runs')]
        IN  started.game = listed.game /\ started.load \in listed.states
<1>1. TypesInv /\ InTurn /\ [Next]_vars => [FromList]_vars
  <2> SUFFICES ASSUME TypesInv, InTurn, [Next]_vars, Len(runs') > Len(runs)
               PROVE  /\ runs'[Len(runs')].game = listed.game
                      /\ runs'[Len(runs')].load \in listed.states
    OBVIOUS
  <2>1. runs \in Seq(Loaded) /\ Len(runs) \in Nat
    BY LenProperties DEF TypesInv, WindowTypes
  <2>2. ReedKilled
    <3>1. SUFFICES ASSUME ~ReedKilled PROVE FALSE
      OBVIOUS
    <3>2. CASE runs' = runs
      BY <2>1, <3>2
    <3>3. CASE runs # <<>> /\ runs' = Tail(runs)
      <4>1. Len(Tail(runs)) = Len(runs) - 1
        BY <2>1, <3>3, HeadTailProperties
      <4>2. QED
        BY <2>1, <3>3, <4>1
    <3>4. QED
      BY <3>1, <3>2, <3>3, OnlyLoadsRun
  <2>3. /\ stack # <<>> /\ Top.line.cmd = "kill reed" /\ Top.loop # "runs"
        /\ runs' = Append(runs, currentCanoeExecution)
    BY <2>2 DEF ReedKilled, Resumes
  <2>4. InList(currentCanoeExecution)
    BY <2>3 DEF InTurn, Flags
  <2>5. currentCanoeExecution \in Loaded
    <3>1. OfGame(Top.line)
      BY <2>3 DEF OfGame
    <3>2. Top = stack[Len(stack)] /\ Len(stack) \in 1..Len(stack)
      <4>1. Len(stack) = 1 /\ Top = stack[1]
        BY <2>3, OneSlot
      <4>2. QED
        BY <4>1
    <3>3. QED
      BY <3>1, <3>2 DEF TypesInv, WindowTypes
  <2>6. runs'[Len(runs')] = currentCanoeExecution
    <3>1. PICK e \in Loaded : e = currentCanoeExecution
      BY <2>5
    <3>2. \A q \in Seq(Loaded) : Append(q, e)[Len(Append(q, e))] = e
      OBVIOUS
    <3>3. QED
      BY <2>1, <2>3, <3>1, <3>2
  <2>7. QED
    BY <2>4, <2>6 DEF InList
<1>2. QED
  BY <1>1, InTurnHolds, PTL DEF Spec, LoadsListed

\* existingSaveState is indexed within its four flags (onCanoeStarted).
THEOREM FlagsInRange ==
  ASSUME MaxInterrupts = 0
  PROVE  Spec => []InRange
<1>1. TypesInv /\ InTurn => InRange
  BY DEF InTurn, Flags, InRange
<1>2. QED
  BY <1>1, InTurnHolds, PTL
=============================================================================
