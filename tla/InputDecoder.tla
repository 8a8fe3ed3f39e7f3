---------------------------- MODULE InputDecoder ----------------------------
(***************************************************************************)
(* The buttons of the joystick, from the console to MainWindow: hexdump    *)
(* prints two events to a line, inputCo (a TelnetConnection in             *)
(* oneCommandMode) takes lines out of what it reads, and InputDecoder      *)
(* makes signals of them.                                                  *)
(*                                                                         *)
(* A line is the sequence of its events; id is the number of the press or  *)
(* the release an event belongs to.  inputCo drops the start of a line in   *)
(* some cases; digits that are then not where the decoder expects them can  *)
(* be read as an event that never was (MadeUp), which has the negative      *)
(* number of the cut as its id.                                             *)
(***************************************************************************)
EXTENDS Integers, SequencesExt

CONSTANTS
  Plain,        \* the buttons but L and R
  MaxEvents,    \* bound: presses and releases
  MaxSessions,  \* bound: connections of inputCo
  MaxCuts       \* bound: lines whose start is dropped

ASSUME InputBounds == MaxEvents \in Nat /\ MaxSessions \in Nat /\ MaxCuts \in Nat

VARIABLES
  decoder,    \* InputDecoder: Lpressed, Rpressed and what it emitted
  partial,    \* is there the start of a line in readBuffer?
  wire,       \* lines under way to inputCo
  newline,    \* is there the '\n' of a dropped line before them?
  cuts,       \* lines whose start was dropped so far
  dump,       \* events that hexdump has not printed
  pressed,    \* the buttons that are held down
  done,       \* presses and releases so far: <<button, pressed>>
  sessions,   \* connections of inputCo so far
  session,    \* is it connected?
  lost        \* was any part of a line lost?

inputVars ==
  <<decoder, partial, wire, newline, cuts, dump, pressed, done, sessions, session, lost>>
L == "L"
R == "R"
Shoulders == {L, R}
Buttons == Plain \cup Shoulders
NoButton == "no button"   \* a code that is no button's
ASSUME PlainAssumption == Plain \cap (Shoulders \cup {NoButton}) = {}

InputInit ==
  /\ decoder = [Lpressed |-> FALSE, Rpressed |-> FALSE, emitted |-> <<>>]
  /\ partial = FALSE /\ wire = <<>> /\ dump = <<>> /\ pressed = {} /\ done = <<>>
  /\ newline = FALSE /\ cuts = 0 /\ sessions = 1 /\ session = TRUE /\ lost = FALSE
-----------------------------------------------------------------------------
(* InputDecoder.                                                           *)

Event(type, button, value, id) == [type |-> type, button |-> button, value |-> value, id |-> id]
Signal(button, down, id) == [button |-> button, down |-> down, id |-> id]
Emit(d, button, down, id) == [d EXCEPT !.emitted = Append(@, Signal(button, down, id))]

\* Bug: a release is a press.
KeyEventPressed(d, ev) == IF ev.button \in Shoulders THEN d ELSE Emit(d, ev.button, TRUE, ev.id)
\* The keys 310 and 311, of the shoulders, are left to their axes; a key that
\* repeats has the value 2.
KeyEvent(d, ev) ==
  IF ev.button \in Shoulders \/ ev.value \notin {0, 1} THEN d
  ELSE Emit(d, ev.button, ev.value = 1, ev.id)

\* An axis event of a shoulder is a press or a release by turns.
AxisEvent(d, ev) ==
  CASE ev.button = L -> [Emit(d, L, ~d.Lpressed, ev.id) EXCEPT !.Lpressed = ~@]
    [] ev.button = R -> [Emit(d, R, ~d.Rpressed, ev.id) EXCEPT !.Rpressed = ~@]
    [] OTHER         -> d

\* processEvent
ProcessEvent(d, ev) ==
  CASE ev.type = "key"  -> KeyEvent(d, ev)
    [] ev.type = "axis" -> AxisEvent(d, ev)
    [] OTHER            -> d

\* decodeHexdump: the two events of a line, those that are there.
DecodeHexdump(d, line) ==
  LET first == IF line # <<>> THEN ProcessEvent(d, line[1]) ELSE d IN
  IF Len(line) > 1 THEN ProcessEvent(first, line[2]) ELSE first
-----------------------------------------------------------------------------
(* inputCo.                                                                *)

\* The events that digits in the wrong place can be read as, and of which the
\* decoder makes a signal.  With 6 or 8 digits of a key dropped its code's end
\* or its value is where the type is expected, and with about 15 to 28 of the
\* first event the time of the second one is: any code and value may be read.
MadeUp(id) == {Event("key", button, value, id) : button \in Plain \cup {NoButton}, value \in {0, 1}}
                \cup {Event("axis", button, 0, id) : button \in Shoulders}

\* What is left of a line for the next read when its start is dropped.  Cut
\* between its events, the second one is read as it is.  Cut within one of them
\* there is one signal at most: digits left over for a second event have a type
\* only if 6 or 8 are gone and the line ends with a key, and then the event
\* before it, which is no key, has 0 where the first type is expected.
Rests(line, cut) == {<<>>, <<line[2]>>} \cup {<<ev>> : ev \in MadeUp(-cut)}

\* readBuffer.clear: the start of the next line, which is in the buffer already,
\* is dropped; it may be all of it but the '\n'.
DropStart(lines) ==
  /\ lines # <<>> /\ cuts < MaxCuts
  /\ cuts' = cuts + 1 /\ lost' = TRUE
  /\ \/ newline' = FALSE /\ \E tail \in Rests(lines[1], cuts') : wire' = <<tail>> \o Tail(lines)
     \/ newline' = TRUE /\ wire' = Tail(lines)

\* Bug: a line is given away, and kept.
ReadLineAgain ==
  /\ wire # <<>> /\ partial' = FALSE
  /\ decoder' = DecodeHexdump(decoder, wire[1])
  /\ UNCHANGED <<wire, newline, cuts, lost>>

\* onSocketReadReady with a command that does not end: a whole line is given
\* away, and what follows it in the buffer is dropped.  A read of several lines
\* is several of these, of which the last one drops.  With a '\n' before it
\* every digit is one place late, and no type is that of an event.
ReadLine ==
  /\ wire # <<>> /\ partial' = FALSE
  /\ decoder' = IF newline THEN decoder ELSE DecodeHexdump(decoder, wire[1])
  /\ \/ wire' = Tail(wire) /\ newline' = FALSE /\ UNCHANGED <<cuts, lost>>
     \/ DropStart(Tail(wire))

\* The start of a line alone is kept.
ReadPart ==
  /\ wire # <<>> \/ newline
  /\ partial' = TRUE
  /\ UNCHANGED <<decoder, wire, newline, cuts, lost>>

Receive == /\ session
           /\ ReadLine \/ ReadPart
           /\ UNCHANGED <<dump, pressed, done, sessions, session>>

\* The connection is lost, and with it what was under way; hexdump ends.
Disconnect ==
  /\ session /\ session' = FALSE
  /\ wire' = <<>> /\ newline' = FALSE /\ dump' = <<>> /\ lost' = TRUE
  /\ UNCHANGED <<decoder, partial, cuts, pressed, done, sessions>>

\* A new session and a new hexdump.  readBuffer is what it was, and with the
\* start of a line in it the login is not recognised.
Reconnect ==
  /\ ~session /\ ~partial /\ sessions < MaxSessions
  /\ session' = TRUE /\ sessions' = sessions + 1
  /\ UNCHANGED <<decoder, partial, wire, newline, cuts, dump, pressed, done, lost>>
-----------------------------------------------------------------------------
(* The console.                                                            *)

\* What the kernel reports of a button: a key, for a shoulder an axis before
\* it, and the end of the report; the key may repeat.
Report(button, down, id) ==
  LET key == Event("key", button, IF down THEN 1 ELSE 0, id)
      end == Event("end", button, 0, id)
  IN IF button \in Shoulders THEN <<Event("axis", button, 0, id), key, end>> ELSE <<key, end>>
Repeat(button, id) == <<Event("key", button, 2, id), Event("end", button, 0, id)>>

\* hexdump prints the events in pairs, and keeps what is left.
Lines(events) == [i \in 1..(Len(events) \div 2) |-> <<events[2 * i - 1], events[2 * i]>>]
HexDump(events) ==
  /\ wire' = IF session THEN wire \o Lines(dump \o events) ELSE wire
  /\ dump' = IF session /\ Len(dump \o events) % 2 = 1 THEN <<Last(events)>> ELSE <<>>

Push(button) ==
  /\ Len(done) < MaxEvents
  /\ LET down == button \notin pressed IN
     /\ pressed' = IF down THEN pressed \cup {button} ELSE pressed \ {button}
     /\ done' = Append(done, <<button, down>>)
     /\ HexDump(Report(button, down, Len(done')))
  /\ UNCHANGED <<decoder, partial, newline, cuts, sessions, session, lost>>

Hold(button) ==
  /\ button \in pressed /\ Len(wire) < 2 /\ HexDump(Repeat(button, Len(done)))
  /\ UNCHANGED <<decoder, partial, newline, cuts, pressed, done, sessions, session, lost>>

InputNext == \/ Receive \/ Disconnect \/ Reconnect
             \/ \E button \in Buttons : Push(button) \/ Hold(button)
InputSpec == InputInit /\ [][InputNext]_inputVars
-----------------------------------------------------------------------------
Emitted == [i \in DOMAIN decoder.emitted |->
              <<decoder.emitted[i].button, decoder.emitted[i].down>>]

\* Until a part of a line is lost the signals are the presses and releases of
\* the joystick, in their order, and all of them once every line has been read:
\* what hexdump keeps is never more than the end of a report, and the shoulders
\* that are pressed are those the joystick holds.
MirrorsJoystick == ~lost =>
  /\ IsPrefix(Emitted, done)
  /\ wire = <<>> =>
       /\ Emitted = done
       /\ decoder.Lpressed = (L \in pressed) /\ decoder.Rpressed = (R \in pressed)

\* Whatever is lost, the signals that come of events are about a press or a
\* release of their button, no two about the same and none out of order; only
\* of a shoulder they may say the one for the other.  Every other signal is of a
\* line that lost its start, and no two are of the same line.
NoInventedInput == \A i \in DOMAIN decoder.emitted :
  LET e == decoder.emitted[i]
      earlier == {decoder.emitted[k].id : k \in 1..(i - 1)}
  IN \/ /\ e.id > 0 /\ \A id \in earlier : id < e.id
        /\ e.button = done[e.id][1] /\ (e.button \in Plain => e.down = done[e.id][2])
     \/ /\ e.id < 0 /\ -e.id <= cuts /\ \A id \in earlier : id > e.id
=============================================================================
