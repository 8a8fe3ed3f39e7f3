------------------------- MODULE InputDecoderProofs -------------------------
(***************************************************************************)
(* For any buttons, any number of presses and connections, and any loss:   *)
(* what InputDecoder emits is about the joystick (NoInventedInput), and it *)
(* is exactly what the joystick did as long as nothing is lost             *)
(* (MirrorsJoystick).                                                      *)
(*                                                                         *)
(* Of what is under way only the signals matter, the events of which the   *)
(* decoder makes a signal: each press and each release has one at most,    *)
(* they come in order, and until something is lost none is missing.  The   *)
(* shoulders, whose signals only toggle, are right because the joystick    *)
(* presses and releases a button by turns.  An event that was made of a     *)
(* line without its start has the negative number of that cut: it is alone  *)
(* in its line, the first one, and of a later cut than all signals so far.  *)
(***************************************************************************)
EXTENDS InputDecoder, SequenceTheorems, TLAPS

Names == Buttons \cup {NoButton}
EventSet == [type : {"key", "axis", "end"}, button : Names, value : 0..2, id : Nat]
AnyEvent == [type : {"key", "axis", "end"}, button : Names, value : 0..2, id : Int]
SignalSet == [button : Names, down : BOOLEAN, id : Int]
DecoderSet == [Lpressed : BOOLEAN, Rpressed : BOOLEAN, emitted : Seq(SignalSet)]
Printed == {line \in Seq(EventSet) : Len(line) <= 2}
LineSet == {line \in Seq(AnyEvent) : Len(line) <= 2}

\* Every variable of the decoder and of the connection is of its type.
InputTypeOK ==
  /\ decoder \in DecoderSet
  /\ wire \in Seq(LineSet)
  /\ dump \in Seq(EventSet)
  /\ pressed \subseteq Buttons
  /\ done \in Seq(Buttons \X BOOLEAN)
  /\ session \in BOOLEAN /\ lost \in BOOLEAN /\ newline \in BOOLEAN /\ cuts \in Nat

\* Is it an event of which the decoder makes a signal, and one of the joystick?
Makes(ev) == \/ ev.type = "key" /\ ev.button \notin Shoulders /\ ev.value \in {0, 1}
             \/ ev.type = "axis" /\ ev.button \in Shoulders
IsSignal(ev) == Makes(ev) /\ ev.id >= 0

\* Is the button held down after the first n of the presses and releases s?
Held(s, button, n) == \E i \in 1..n : /\ s[i] = <<button, TRUE>>
                                      /\ \A k \in (i + 1)..n : s[k][1] # button

\* What is said of a button is true of the press or release it belongs to.
Truthful(ev) ==
  /\ ev.id \in 1..Len(done)
  /\ ev.button = done[ev.id][1]
  /\ ev.button \in Plain => (ev.value = 1) = done[ev.id][2]

\* A signal was given for each press and release, in order, and true; for some
\* only, and with others between them, once something was lost.
Given(d) ==
  /\ \A i \in 1..Len(d.emitted) : d.emitted[i].id >= 0 =>
       \A k \in 1..(i - 1) : d.emitted[k].id < d.emitted[i].id
  /\ \A i \in 1..Len(d.emitted) : LET e == d.emitted[i] IN e.id >= 0 =>
       /\ e.id \in 1..Len(done)
       /\ e.button = done[e.id][1]
       /\ e.button \in Plain => e.down = done[e.id][2]
  /\ ~lost => /\ \A i \in 1..Len(d.emitted) : LET e == d.emitted[i] IN
                    e.id = i /\ done[i] = <<e.button, e.down>>
              /\ d.Lpressed = Held(done, L, Len(d.emitted))
              /\ d.Rpressed = Held(done, R, Len(d.emitted))

\* Is the j-th event of line i of w a signal?
Signals(w, i, j) == i \in 1..Len(w) /\ j \in 1..Len(w[i]) /\ IsSignal(w[i][j])

\* The joystick presses and releases a button by turns.
ByTurns == /\ \A i \in 1..Len(done) : done[i][2] = ~Held(done, done[i][1], i - 1)
           /\ \A button \in Buttons : button \in pressed <=> Held(done, button, Len(done))

\* The lines under way have two events, but for the first one when a part of it
\* was lost.
TwoByTwo ==
  /\ \A i \in 1..Len(wire) : i > 1 \/ ~lost => Len(wire[i]) = 2
  /\ dump = <<>> \/ (Len(dump) = 1 /\ dump[1].type = "end")

\* The signals under way are true, and in order.
InOrder ==
  /\ \A i \in 1..Len(wire) : \A j \in 1..Len(wire[i]) :
       Signals(wire, i, j) => Truthful(wire[i][j])
  /\ \A i, k \in 1..Len(wire) : \A j \in 1..Len(wire[i]), l \in 1..Len(wire[k]) :
       Signals(wire, i, j) /\ Signals(wire, k, l) /\ (i < k \/ (i = k /\ j < l)) =>
         wire[i][j].id < wire[k][l].id

\* What follows the first m events was not given, and until something is lost
\* none is missing.
Follows(m, i, j) == Signals(wire, i, j) /\ (i > 1 \/ j > m)
Remaining(d, m) ==
  /\ \A i \in 1..Len(wire) : \A j \in 1..Len(wire[i]) : Follows(m, i, j) =>
       \A k \in 1..Len(d.emitted) : d.emitted[k].id < wire[i][j].id
  /\ ~lost => \A n \in 1..Len(done) : n > Len(d.emitted) =>
       \E i \in 1..Len(wire) : \E j \in 1..Len(wire[i]) : Follows(m, i, j) /\ wire[i][j].id = n

\* Without a connection nothing is under way.
Offline == ~session => wire = <<>> /\ dump = <<>> /\ lost

\* The signals that are of no event were made of cuts, in order and one of each.
Numbered(d, c) ==
  \A i \in 1..Len(d.emitted) : d.emitted[i].id < 0 =>
    /\ -c <= d.emitted[i].id
    /\ \A k \in 1..(i - 1) : d.emitted[i].id < d.emitted[k].id

\* An event made of a cut is alone in the first line, and of a cut that no signal
\* was made of.
Pending ==
  /\ \A i \in 1..Len(wire) : \A j \in 1..Len(wire[i]) : wire[i][j].id < 0 =>
       /\ i = 1 /\ j = 1 /\ Len(wire[i]) = 1 /\ lost
       /\ -cuts <= wire[i][j].id
       /\ \A k \in 1..Len(decoder.emitted) : wire[i][j].id < decoder.emitted[k].id
  /\ newline => lost

InputInv == InputTypeOK /\ Given(decoder) /\ ByTurns /\ TwoByTwo /\ InOrder
              /\ Remaining(decoder, 0) /\ Offline /\ Numbered(decoder, cuts) /\ Pending
-----------------------------------------------------------------------------
(* What is held down.                                                      *)

\* One more press or release.
LEMMA HeldStep ==
  ASSUME NEW s \in Seq(Buttons \X BOOLEAN), NEW b, NEW m \in 1..Len(s)
  PROVE  Held(s, b, m) = IF s[m][1] = b THEN s[m][2] ELSE Held(s, b, m - 1)
<1>0. PICK n \in Nat : m = n + 1 /\ n = m - 1 /\ n + 1 \in 1..Len(s)
  <2>1. m - 1 \in Nat /\ m = (m - 1) + 1
    BY LenProperties
  <2>. QED
    BY <2>1
<1>2. s[n + 1] \in Buttons \X BOOLEAN
  BY <1>0, ElementOfSeq
<1>3. PICK c \in Buttons, down \in BOOLEAN : s[n + 1] = <<c, down>>
  BY <1>2
<1>4. CASE c = b /\ down = TRUE
  <2>1. n + 1 \in 1..(n + 1) /\ (n + 1 + 1)..(n + 1) = {}
    OBVIOUS
  <2>2. Held(s, b, n + 1)
    BY <1>3, <1>4, <2>1 DEF Held
  <2>3. s[n + 1][1] = b /\ s[n + 1][2] = TRUE
    BY <1>3, <1>4
  <2>4. Held(s, b, n + 1) = TRUE
    BY <2>2 DEF Held
  <2>. QED
    BY <1>0, <2>3, <2>4
<1>5. CASE c = b /\ down = FALSE
  <2>1. ASSUME NEW i \in 1..(n + 1), s[i] = <<b, TRUE>>,
               \A k \in (i + 1)..(n + 1) : s[k][1] # b
        PROVE  FALSE
    <3>1. i # n + 1
      <4>1. s[n + 1][2] = FALSE /\ s[i][2] = TRUE
        BY <1>3, <1>5, <2>1
      <4>. QED
        BY <4>1
    <3>2. n + 1 \in (i + 1)..(n + 1)
      BY <3>1
    <3>3. s[n + 1][1] = b
      BY <1>3, <1>5
    <3>. QED
      BY <2>1, <3>2, <3>3
  <2>2. Held(s, b, n + 1) = FALSE
    BY <2>1 DEF Held
  <2>3. s[n + 1][1] = b /\ s[n + 1][2] = FALSE
    BY <1>3, <1>5
  <2>. QED
    BY <1>0, <2>2, <2>3
<1>6. CASE c # b
  <2>1. ASSUME NEW i \in 1..(n + 1), s[i] = <<b, TRUE>>,
               \A k \in (i + 1)..(n + 1) : s[k][1] # b
        PROVE  Held(s, b, n)
    <3>1. i # n + 1
      BY <1>3, <1>6, <2>1
    <3>2. i \in 1..n /\ \A k \in (i + 1)..n : k \in (i + 1)..(n + 1)
      BY <3>1
    <3>. QED
      BY <2>1, <3>2 DEF Held
  <2>2. ASSUME NEW i \in 1..n, s[i] = <<b, TRUE>>, \A k \in (i + 1)..n : s[k][1] # b
        PROVE  Held(s, b, n + 1)
    <3>1. i \in 1..(n + 1)
      OBVIOUS
    <3>2. ASSUME NEW k \in (i + 1)..(n + 1) PROVE s[k][1] # b
      <4>1. k \in (i + 1)..n \/ k = n + 1
        OBVIOUS
      <4>. QED
        BY <1>3, <1>6, <2>2, <4>1
    <3>. QED
      BY <2>2, <3>1, <3>2 DEF Held
  <2>3. Held(s, b, n + 1) <=> Held(s, b, n)
    BY <2>1, <2>2 DEF Held
  <2>4. Held(s, b, n + 1) \in BOOLEAN /\ Held(s, b, n) \in BOOLEAN
    BY DEF Held
  <2>. QED
    BY <1>0, <1>3, <1>6, <2>3, <2>4
<1>. QED
  BY <1>0, <1>3, <1>4, <1>5, <1>6

\* What was done stays done.
LEMMA HeldKept ==
  ASSUME NEW s \in Seq(Buttons \X BOOLEAN), NEW x \in Buttons \X BOOLEAN, NEW n \in 0..Len(s), NEW b
  PROVE  Held(Append(s, x), b, n) = Held(s, b, n)
<1>1. PICK m \in Nat : m = Len(s)
  BY LenProperties
<1>2. \A i \in 1..m : Append(s, x)[i] = s[i]
  BY <1>1, AppendProperties
<1>3. \A i \in 1..n : i \in 1..m /\ \A k \in (i + 1)..n : k \in 1..m
  BY <1>1
<1>. QED
  BY <1>2, <1>3 DEF Held
-----------------------------------------------------------------------------
(* The decoder.                                                            *)

\* What an event makes of the decoder.
LEMMA OneEvent ==
  ASSUME NEW d \in DecoderSet, NEW ev \in AnyEvent
  PROVE  LET new == ProcessEvent(d, ev) IN
         /\ ~Makes(ev) => new = d
         /\ Makes(ev) => \E down \in BOOLEAN :
              /\ new.emitted = Append(d.emitted, Signal(ev.button, down, ev.id))
              /\ ev.button = L => new.Lpressed = down /\ down = ~d.Lpressed
              /\ ev.button # L => new.Lpressed = d.Lpressed
              /\ ev.button = R => new.Rpressed = down /\ down = ~d.Rpressed
              /\ ev.button # R => new.Rpressed = d.Rpressed
              /\ ev.type = "key" => ev.button \notin Shoulders /\ down = (ev.value = 1)
         /\ new \in DecoderSet
<1>. L # R
  BY DEF L, R
<1>0. \A b \in Names, down \in BOOLEAN, id \in Int :
        /\ Emit(d, b, down, id).emitted = Append(d.emitted, Signal(b, down, id))
        /\ Emit(d, b, down, id).Lpressed = d.Lpressed /\ Emit(d, b, down, id).Rpressed = d.Rpressed
        /\ Emit(d, b, down, id) \in DecoderSet
  <2>1. ASSUME NEW b \in Names, NEW down \in BOOLEAN, NEW id \in Int
        PROVE  Append(d.emitted, Signal(b, down, id)) \in Seq(SignalSet)
    <3>1. Signal(b, down, id) \in SignalSet
      BY DEF Signal, SignalSet
    <3>. QED
      BY <3>1, AppendProperties DEF DecoderSet
  <2>. QED
    BY <2>1 DEF Emit, DecoderSet
<1>1. CASE ev.type = "key"
  <2>1. ProcessEvent(d, ev) = KeyEvent(d, ev)
    BY <1>1 DEF ProcessEvent
  <2>2. ~Makes(ev) => KeyEvent(d, ev) = d
    BY <1>1 DEF KeyEvent, Makes
  <2>3. ASSUME Makes(ev)
        PROVE  KeyEvent(d, ev) = Emit(d, ev.button, ev.value = 1, ev.id)
    BY <1>1, <2>3 DEF KeyEvent, Makes
  <2>4. Makes(ev) => ev.button # L /\ ev.button # R /\ ev.button \notin Shoulders
    BY <1>1 DEF Makes, Shoulders
  <2>5. PICK down \in BOOLEAN : down = (ev.value = 1)
    OBVIOUS
  <2>. QED
    <3>1. CASE ~Makes(ev)
      BY <2>1, <2>2, <3>1
    <3>2. CASE Makes(ev)
      <4>1. ProcessEvent(d, ev) = Emit(d, ev.button, down, ev.id)
        BY <2>1, <2>3, <2>5, <3>2
      <4>2. ev.button \in Names /\ ev.id \in Int
        BY DEF AnyEvent
      <4>3. PICK new : new = ProcessEvent(d, ev)
        OBVIOUS
      <4>4. /\ new.emitted = Append(d.emitted, Signal(ev.button, down, ev.id))
            /\ new.Lpressed = d.Lpressed /\ new.Rpressed = d.Rpressed /\ new \in DecoderSet
        BY <1>0, <4>1, <4>2, <4>3
      <4>. QED
        BY <2>4, <2>5, <3>2, <4>3, <4>4
    <3>. QED
      BY <3>1, <3>2
<1>2. CASE ev.type = "axis"
  <2>1. ProcessEvent(d, ev) = AxisEvent(d, ev)
    BY <1>2 DEF ProcessEvent
  <2>2. ~Makes(ev) => AxisEvent(d, ev) = d
    BY <1>2 DEF AxisEvent, Makes, Shoulders
  <2>3. CASE ev.button = L
    <3>1. PICK down \in BOOLEAN : down = ~d.Lpressed
      OBVIOUS
    <3>2. PICK e : e = Emit(d, L, down, ev.id)
      OBVIOUS
    <3>3. AxisEvent(d, ev) = [e EXCEPT !.Lpressed = ~@]
      BY <2>3, <3>1, <3>2 DEF AxisEvent
    <3>4. L \in Names /\ ev.id \in Int
      BY DEF Names, Buttons, Shoulders, AnyEvent
    <3>5. /\ e.emitted = Append(d.emitted, Signal(L, down, ev.id))
          /\ e.Lpressed = d.Lpressed /\ e.Rpressed = d.Rpressed /\ e \in DecoderSet
      BY <1>0, <3>2, <3>4
    <3>6. PICK new : new = AxisEvent(d, ev)
      OBVIOUS
    <3>7. /\ new.emitted = e.emitted /\ new.Lpressed = ~e.Lpressed /\ new.Rpressed = e.Rpressed
          /\ new \in DecoderSet
      BY <3>3, <3>5, <3>6 DEF DecoderSet
    <3>. QED
      BY <1>2, <2>1, <2>2, <2>3, <3>1, <3>5, <3>6, <3>7
  <2>4. CASE ev.button = R
    <3>1. PICK down \in BOOLEAN : down = ~d.Rpressed
      OBVIOUS
    <3>2. PICK e : e = Emit(d, R, down, ev.id)
      OBVIOUS
    <3>3. AxisEvent(d, ev) = [e EXCEPT !.Rpressed = ~@]
      BY <2>4, <3>1, <3>2 DEF AxisEvent
    <3>4. R \in Names /\ ev.id \in Int
      BY DEF Names, Buttons, Shoulders, AnyEvent
    <3>5. /\ e.emitted = Append(d.emitted, Signal(R, down, ev.id))
          /\ e.Lpressed = d.Lpressed /\ e.Rpressed = d.Rpressed /\ e \in DecoderSet
      BY <1>0, <3>2, <3>4
    <3>6. PICK new : new = AxisEvent(d, ev)
      OBVIOUS
    <3>7. /\ new.emitted = e.emitted /\ new.Rpressed = ~e.Rpressed /\ new.Lpressed = e.Lpressed
          /\ new \in DecoderSet
      BY <3>3, <3>5, <3>6 DEF DecoderSet
    <3>. QED
      BY <1>2, <2>1, <2>2, <2>4, <3>1, <3>5, <3>6, <3>7
  <2>5. CASE ev.button \notin Shoulders
    <3>1. ~Makes(ev)
      BY <1>2, <2>5 DEF Makes
    <3>. QED
      BY <2>1, <2>2, <3>1
  <2>. QED
    BY <2>3, <2>4, <2>5 DEF Shoulders
<1>3. CASE ev.type = "end"
  BY <1>3 DEF ProcessEvent, Makes
<1>. QED
  BY <1>1, <1>2, <1>3 DEF AnyEvent

\* A true signal that comes in its turn is given as it should be.
LEMMA SignalGiven ==
  ASSUME InputTypeOK, ByTurns,
         NEW d \in DecoderSet,
         Given(d), NEW ev \in AnyEvent, IsSignal(ev), Truthful(ev),
         \A k \in 1..Len(d.emitted) : d.emitted[k].id < ev.id,
         ~lost => ev.id = Len(d.emitted) + 1
  PROVE  LET new == ProcessEvent(d, ev) IN
         /\ new \in DecoderSet
         /\ Given(new)
         /\ Len(new.emitted) = Len(d.emitted) + 1
         /\ \A k \in 1..Len(new.emitted) : new.emitted[k].id <= ev.id
<1> DEFINE s == d.emitted
           new == ProcessEvent(d, ev)
<1>1. PICK down \in BOOLEAN :
              /\ new.emitted = Append(d.emitted, Signal(ev.button, down, ev.id))
              /\ ev.button = L => new.Lpressed = down /\ down = ~d.Lpressed
              /\ ev.button # L => new.Lpressed = d.Lpressed
              /\ ev.button = R => new.Rpressed = down /\ down = ~d.Rpressed
              /\ ev.button # R => new.Rpressed = d.Rpressed
              /\ ev.type = "key" => ev.button \notin Shoulders /\ down = (ev.value = 1)
  BY OneEvent DEF IsSignal
<1> DEFINE e == Signal(ev.button, down, ev.id)
           t == Append(s, e)
<1>2. e \in SignalSet /\ s \in Seq(SignalSet)
  BY DEF Signal, SignalSet, AnyEvent, DecoderSet
<1>3. t \in Seq(SignalSet) /\ Len(t) = Len(s) + 1 /\ t[Len(s) + 1] = e /\ \A i \in 1..Len(s) : t[i] = s[i]
  BY <1>2, AppendProperties
<1>4. new.emitted = t
  BY <1>1
<1>5. new \in DecoderSet
  BY OneEvent
<1>6. e.button = ev.button /\ e.down = down /\ e.id = ev.id
  BY DEF Signal
<1> HIDE DEF s, e, t, new
<1>7. PICK n \in Nat : n = Len(s)
  BY <1>2, LenProperties
<1>8. Len(t) = n + 1 /\ t[n + 1] = e /\ \A i \in 1..n : t[i] = s[i]
  BY <1>3, <1>7
<1>9. done \in Seq(Buttons \X BOOLEAN) /\ ev.id \in 1..Len(done)
  BY DEF InputTypeOK, Truthful
<1>10. PICK c \in Buttons, was \in BOOLEAN : done[ev.id] = <<c, was>>
  <2>1. done[ev.id] \in Buttons \X BOOLEAN
    BY <1>9, ElementOfSeq
  <2>. QED
    BY <2>1
<1>11. /\ ev.button = c
       /\ ev.button \in Plain => (ev.value = 1) = was
  BY <1>10 DEF Truthful
<1>12. ev.button = c /\ (ev.button \in Plain => down = was)
  BY <1>1, <1>11, PlainAssumption DEF IsSignal, Makes
<1>13. \A k \in 1..n : s[k].id < ev.id
  BY <1>7 DEF s
<1>14. \A i \in 1..(n + 1) : t[i].id >= 0 => \A k \in 1..(i - 1) : t[k].id < t[i].id
  <2>1. \A i \in 1..n : s[i].id >= 0 => \A k \in 1..(i - 1) : s[k].id < s[i].id
    BY <1>7 DEF Given, s
  <2>2. ASSUME NEW i \in 1..(n + 1), t[i].id >= 0, NEW k \in 1..(i - 1) PROVE t[k].id < t[i].id
    <3>1. k \in 1..n /\ t[k] = s[k]
      BY <1>8
    <3>2. CASE i = n + 1
      BY <1>6, <1>8, <1>13, <3>1, <3>2
    <3>3. CASE i \in 1..n
      BY <1>8, <2>1, <2>2, <3>1, <3>3
    <3>. QED
      BY <3>2, <3>3
  <2>. QED
    BY <2>2
<1>15. \A i \in 1..(n + 1) : t[i].id >= 0 =>
         /\ t[i].id \in 1..Len(done) /\ t[i].button = done[t[i].id][1]
         /\ t[i].button \in Plain => t[i].down = done[t[i].id][2]
  <2>1. \A i \in 1..n : s[i].id >= 0 =>
          /\ s[i].id \in 1..Len(done) /\ s[i].button = done[s[i].id][1]
          /\ s[i].button \in Plain => s[i].down = done[s[i].id][2]
    BY <1>7 DEF Given, s
  <2>2. /\ e.id \in 1..Len(done)
        /\ e.button = done[e.id][1]
        /\ e.button \in Plain => e.down = done[e.id][2]
    BY <1>6, <1>9, <1>10, <1>12
  <2>3. \A i \in 1..(n + 1) : i \in 1..n \/ i = n + 1
    OBVIOUS
  <2>. QED
    BY <1>8, <2>1, <2>2, <2>3
<1>16. ASSUME ~lost
       PROVE  /\ \A i \in 1..(n + 1) : t[i].id = i /\ done[i] = <<t[i].button, t[i].down>>
              /\ new.Lpressed = Held(done, L, n + 1) /\ new.Rpressed = Held(done, R, n + 1)
  <2>1. /\ \A i \in 1..n : s[i].id = i /\ done[i] = <<s[i].button, s[i].down>>
        /\ d.Lpressed = Held(done, L, n) /\ d.Rpressed = Held(done, R, n)
    BY <1>7, <1>16 DEF Given, s
  <2>2. ev.id = n + 1 /\ ev.button = c
    BY <1>7, <1>11, <1>16 DEF s
  <2>3. was = ~Held(done, c, n)
    <3>1. done[n + 1][2] = ~Held(done, done[n + 1][1], (n + 1) - 1)
      BY <1>9, <2>2 DEF ByTurns
    <3>. QED
      BY <1>10, <2>2, <3>1
  <2>4. down = was
    <3>1. CASE c \in Plain
      BY <1>12, <2>2, <3>1
    <3>2. CASE c = L \/ c = R
      BY <1>1, <2>1, <2>2, <2>3, <3>2
    <3>. QED
      BY <3>1, <3>2 DEF Buttons, Shoulders
  <2>5. ASSUME NEW b PROVE Held(done, b, n + 1) = IF c = b THEN was ELSE Held(done, b, n)
    <3>1. n + 1 \in 1..Len(done) /\ done[n + 1][1] = c /\ done[n + 1][2] = was
      BY <1>9, <1>10, <2>2
    <3>2. PICK m \in 1..Len(done) : m = n + 1 /\ m - 1 = n
      BY <3>1
    <3>3. Held(done, b, m) = IF done[m][1] = b THEN done[m][2] ELSE Held(done, b, m - 1)
      BY SMTT(30), <1>9, HeldStep
    <3>. QED
      BY <3>1, <3>2, <3>3
  <2>6. new.Lpressed = Held(done, L, n + 1) /\ new.Rpressed = Held(done, R, n + 1)
    BY <1>1, <2>1, <2>2, <2>4, <2>5
  <2>7. e.id = n + 1 /\ done[n + 1] = <<e.button, e.down>>
    BY <1>6, <1>10, <2>2, <2>4
  <2>8. \A i \in 1..(n + 1) : i \in 1..n \/ i = n + 1
    OBVIOUS
  <2>. QED
    BY <1>8, <2>1, <2>6, <2>7, <2>8
<1>17. Given(new)
  BY <1>4, <1>8, <1>14, <1>15, <1>16 DEF Given
<1>18. \A k \in 1..(n + 1) : t[k].id <= ev.id
  <2>1. ASSUME NEW k \in 1..n PROVE t[k].id \in Int /\ t[k].id < ev.id
    <3>1. t[k] = s[k] /\ s[k] \in SignalSet
      BY <1>2, <1>7, <1>8, ElementOfSeq
    <3>. QED
      BY <1>13, <3>1 DEF SignalSet
  <2>2. ev.id \in Nat /\ t[n + 1].id = ev.id
    BY <1>6, <1>8, <1>9
  <2>3. \A k \in 1..(n + 1) : k \in 1..n \/ k = n + 1
    OBVIOUS
  <2>. QED
    BY <2>1, <2>2, <2>3
<1>. QED
  BY <1>4, <1>5, <1>7, <1>8, <1>17, <1>18 DEF new, s

\* The next event of the first line.
LEMMA StepOne ==
  ASSUME InputTypeOK, ByTurns, InOrder, NEW d \in DecoderSet, Given(d), NEW m \in Nat,
         1 \in 1..Len(wire), m + 1 \in 1..Len(wire[1]), Remaining(d, m), Pending
  PROVE  LET new == ProcessEvent(d, wire[1][m + 1]) IN
         new \in DecoderSet /\ Given(new) /\ Remaining(new, m + 1)
<1>1. PICK w \in Seq(LineSet) : w = wire
  BY DEF InputTypeOK
<1>2. w[1] \in LineSet
  BY <1>1, ElementOfSeq
<1>3. PICK line \in Seq(AnyEvent) : line = w[1]
  BY <1>2 DEF LineSet
<1>4. PICK ev \in AnyEvent : ev = line[m + 1]
  <2>1. line[m + 1] \in AnyEvent
    BY <1>1, <1>3, ElementOfSeq
  <2>. QED
    BY <2>1
<1>5. PICK new : new = ProcessEvent(d, ev)
  OBVIOUS
<1>6. ev = wire[1][m + 1] /\ new = ProcessEvent(d, wire[1][m + 1])
  BY <1>1, <1>3, <1>4, <1>5
<1>7. Signals(wire, 1, m + 1) <=> IsSignal(ev)
  BY <1>6 DEF Signals
<1>8. \A i \in 1..Len(wire) : \A j \in 1..Len(wire[i]) :
        Follows(m, i, j) <=> Follows(m + 1, i, j) \/ (i = 1 /\ j = m + 1 /\ IsSignal(ev))
  <2>1. ASSUME NEW i \in 1..Len(wire), NEW j \in 1..Len(wire[i])
        PROVE  Follows(m, i, j) <=> Follows(m + 1, i, j) \/ (i = 1 /\ j = m + 1 /\ IsSignal(ev))
    <3>. j \in Nat
      OBVIOUS
    <3>1. (i > 1 \/ j > m) <=> (i > 1 \/ j > m + 1 \/ (i = 1 /\ j = m + 1))
      BY SMT
    <3>. QED
      BY <1>7, <3>1 DEF Follows
  <2>. QED
    BY <2>1
<1>9. CASE ~Makes(ev)
  <2>1. new = d
    BY <1>5, <1>9, OneEvent
  <2>2. Remaining(d, m + 1)
    BY <1>8, <1>9 DEF Remaining, IsSignal
  <2>. QED
    BY <1>6, <2>1, <2>2
<1>10. CASE IsSignal(ev)
  <2>1. Signals(wire, 1, m + 1) /\ Follows(m, 1, m + 1)
    BY <1>7, <1>10 DEF Follows
  <2>2. Truthful(ev) /\ ev.id \in 1..Len(done)
    BY <1>6, <2>1 DEF InOrder, Truthful
  <2>3. \A k \in 1..Len(d.emitted) : d.emitted[k].id < ev.id
    BY <1>6, <2>1 DEF Remaining
  <2>4. \A i \in 1..Len(wire) : \A j \in 1..Len(wire[i]) :
          Follows(m + 1, i, j) => ev.id < wire[i][j].id
    <3>1. ASSUME NEW i \in 1..Len(wire), NEW j \in 1..Len(wire[i]), Follows(m + 1, i, j)
          PROVE  ev.id < wire[i][j].id
      <4>1. Signals(wire, i, j) /\ (1 < i \/ (1 = i /\ m + 1 < j))
        BY <3>1 DEF Follows
      <4>. QED
        BY <1>6, <2>1, <4>1 DEF InOrder
    <3>. QED
      BY <3>1
  <2>5. PICK n \in Nat : n = Len(d.emitted)
    BY LenProperties DEF DecoderSet
  <2>a. ev.id \in Nat
    BY <2>2
  <2>b. ~lost => \A k \in 1..Len(done) : k > n =>
          \E i \in 1..Len(wire) : \E j \in 1..Len(wire[i]) : Follows(m, i, j) /\ wire[i][j].id = k
    BY <2>5 DEF Remaining
  <2>6. ASSUME ~lost PROVE ev.id = n + 1
    <3>1. ev.id >= n + 1
      <4>1. CASE n = 0
        BY <2>2, <4>1
      <4>2. CASE n > 0
        <5>1. n \in 1..Len(d.emitted) /\ d.emitted[n].id = n
          BY <2>5, <2>6, <4>2 DEF Given
        <5>. QED
          BY <2>2, <2>3, <5>1
      <4>. QED
        BY <4>1, <4>2
    <3>2. PICK i \in 1..Len(wire) : \E j \in 1..Len(wire[i]) : Follows(m, i, j) /\ wire[i][j].id = n + 1
      <4>1. PICK k \in 1..Len(done) : k = n + 1 /\ k > n
        BY <2>2, <3>1, LenProperties DEF InputTypeOK
      <4>2. \E i \in 1..Len(wire) : \E j \in 1..Len(wire[i]) : Follows(m, i, j) /\ wire[i][j].id = k
        BY <2>6, <2>b, <4>1
      <4>. QED
        BY <4>1, <4>2
    <3>3. PICK j \in 1..Len(wire[i]) : Follows(m, i, j) /\ wire[i][j].id = n + 1
      BY <3>2
    <3>4. CASE Follows(m + 1, i, j)
      BY <2>2, <2>4, <3>1, <3>3, <3>4
    <3>5. CASE i = 1 /\ j = m + 1
      BY <1>6, <3>3, <3>5
    <3>. QED
      BY <1>8, <3>3, <3>4, <3>5
  <2>7. /\ new \in DecoderSet /\ Given(new) /\ Len(new.emitted) = n + 1
        /\ \A k \in 1..Len(new.emitted) : new.emitted[k].id <= ev.id
    BY <1>5, <1>10, <2>2, <2>3, <2>5, <2>6, SignalGiven
  <2>8. ASSUME NEW i \in 1..Len(wire), NEW j \in 1..Len(wire[i]), Follows(m + 1, i, j),
               NEW k \in 1..Len(new.emitted)
        PROVE  new.emitted[k].id < wire[i][j].id
    <3>1. new.emitted[k].id <= ev.id /\ ev.id < wire[i][j].id
      BY <2>4, <2>7, <2>8
    <3>2. new.emitted[k].id \in Int
      <4>1. new.emitted \in Seq(SignalSet)
        BY <2>7 DEF DecoderSet
      <4>2. new.emitted[k] \in SignalSet
        BY <4>1, ElementOfSeq
      <4>. QED
        BY <4>2 DEF SignalSet
    <3>3. wire[i][j].id \in Nat
      BY <2>8 DEF Follows, Signals, InOrder, Truthful
    <3>. QED
      <4>1. PICK x \in Int, y \in Nat, z \in Nat :
              x = new.emitted[k].id /\ y = ev.id /\ z = wire[i][j].id
        BY <2>a, <3>2, <3>3
      <4>2. x <= y /\ y < z
        BY <3>1, <4>1
      <4>3. x < z
        BY <4>2
      <4>. QED
        BY <4>1, <4>3
  <2>9. ASSUME ~lost, NEW k \in 1..Len(done), k > n + 1
        PROVE  \E i \in 1..Len(wire) : \E j \in 1..Len(wire[i]) : Follows(m + 1, i, j) /\ wire[i][j].id = k
    <3>1. PICK i \in 1..Len(wire) : \E j \in 1..Len(wire[i]) : Follows(m, i, j) /\ wire[i][j].id = k
      <4>1. k > n
        BY <2>9
      <4>. QED
        BY <2>9, <2>b, <4>1
    <3>2. PICK j \in 1..Len(wire[i]) : Follows(m, i, j) /\ wire[i][j].id = k
      BY <3>1
    <3>3. ~(i = 1 /\ j = m + 1)
      BY <1>6, <2>6, <2>9, <3>2
    <3>. QED
      BY <1>8, <3>2, <3>3
  <2>10. Remaining(new, m + 1)
    BY <2>7, <2>8, <2>9 DEF Remaining
  <2>. QED
    BY <1>6, <2>7, <2>10
<1>11. CASE Makes(ev) /\ ~IsSignal(ev)
  <2>1. ev.id < 0 /\ ev.id \in Int
    BY <1>11 DEF IsSignal, AnyEvent
  <2>2. lost
    BY <1>6, <2>1 DEF Pending
  <2>3. PICK x \in SignalSet : new.emitted = Append(d.emitted, x) /\ x.id = ev.id
    <3>1. PICK down \in BOOLEAN : new.emitted = Append(d.emitted, Signal(ev.button, down, ev.id))
      BY <1>5, <1>11, OneEvent
    <3>2. Signal(ev.button, down, ev.id) \in SignalSet /\ Signal(ev.button, down, ev.id).id = ev.id
      BY DEF Signal, SignalSet, AnyEvent
    <3>. QED
      BY <3>1, <3>2
  <2>4. new \in DecoderSet
    BY <1>5, OneEvent
  <2>5. PICK s \in Seq(SignalSet), t \in Seq(SignalSet), n \in Nat :
          /\ s = d.emitted /\ t = new.emitted /\ n = Len(s) /\ Len(t) = n + 1 /\ t[n + 1] = x
          /\ \A k \in 1..n : t[k] = s[k]
    BY <2>3, <2>4, AppendProperties, LenProperties DEF DecoderSet
  <2>6. \A k \in 1..(n + 1) : k \in 1..n \/ k = n + 1
    OBVIOUS
  <2>7. ASSUME NEW k \in 1..(n + 1), t[k].id >= 0 PROVE k \in 1..n /\ t[k] = s[k]
    BY <2>1, <2>3, <2>5, <2>6, <2>7
  <2>8. Given(new)
    <3>1. ASSUME NEW i \in 1..(n + 1), t[i].id >= 0, NEW k \in 1..(i - 1) PROVE t[k].id < t[i].id
      <4>1. i \in 1..n /\ t[i] = s[i] /\ k \in 1..n /\ t[k] = s[k]
        BY <2>5, <2>7, <3>1
      <4>2. s[k].id < s[i].id
        BY <2>5, <3>1, <4>1 DEF Given
      <4>. QED
        BY <4>1, <4>2
    <3>2. ASSUME NEW i \in 1..(n + 1), t[i].id >= 0
          PROVE  /\ t[i].id \in 1..Len(done) /\ t[i].button = done[t[i].id][1]
                 /\ t[i].button \in Plain => t[i].down = done[t[i].id][2]
      <4>1. i \in 1..n /\ t[i] = s[i]
        BY <2>7, <3>2
      <4>. QED
        BY <2>5, <3>2, <4>1 DEF Given
    <3>. QED
      BY <2>2, <2>5, <3>1, <3>2 DEF Given
  <2>9. Remaining(new, m + 1)
    <3>1. ASSUME NEW i \in 1..Len(wire), NEW j \in 1..Len(wire[i]), Follows(m + 1, i, j),
                 NEW k \in 1..(n + 1)
          PROVE  t[k].id < wire[i][j].id
      <4>1. Follows(m, i, j) /\ wire[i][j].id \in 1..Len(done)
        BY <1>8, <3>1 DEF Follows, Signals, InOrder, Truthful
      <4>2. CASE k \in 1..n
        <5>1. s[k].id < wire[i][j].id
          BY <2>5, <4>1, <4>2 DEF Remaining
        <5>. QED
          BY <2>5, <4>2, <5>1
      <4>3. CASE k = n + 1
        <5>1. PICK z \in Nat : z = wire[i][j].id
          BY <4>1
        <5>2. ev.id < z
          BY <2>1
        <5>. QED
          BY <2>3, <2>5, <4>3, <5>1, <5>2
      <4>. QED
        BY <2>6, <4>2, <4>3
    <3>. QED
      BY <2>2, <2>5, <3>1 DEF Remaining
  <2>. QED
    BY <1>6, <2>4, <2>8, <2>9
<1>. QED
  BY <1>9, <1>10, <1>11

\* decodeHexdump: a line, of one event or none when a part of it was lost.
LEMMA DecodeLine ==
  ASSUME InputTypeOK, ByTurns, InOrder, Given(decoder), Remaining(decoder, 0), Pending,
         wire # <<>>
  PROVE  LET new == DecodeHexdump(decoder, wire[1]) IN
         new \in DecoderSet /\ Given(new) /\ Remaining(new, Len(wire[1]))
<1>1. 1 \in 1..Len(wire)
  BY EmptySeq, LenProperties DEF InputTypeOK
<1>2. wire[1] \in Seq(AnyEvent) /\ Len(wire[1]) <= 2
  <2>1. wire[1] \in LineSet
    BY <1>1, ElementOfSeq DEF InputTypeOK
  <2>. QED
    BY <2>1 DEF LineSet
<1>3. PICK line \in Seq(AnyEvent), n \in Nat : line = wire[1] /\ n = Len(line) /\ n <= 2
  BY <1>2, LenProperties
<1>4. (line = <<>>) <=> n = 0
  BY <1>3, EmptySeq
<1>5. decoder \in DecoderSet
  BY DEF InputTypeOK
<1>6. CASE n = 0
  BY <1>3, <1>4, <1>5, <1>6 DEF DecodeHexdump
<1>7. CASE n > 0
  <2>1. PICK first : first = ProcessEvent(decoder, line[1])
    OBVIOUS
  <2>2. first \in DecoderSet /\ Given(first) /\ Remaining(first, 1)
    <3>1. 0 + 1 \in 1..Len(wire[1]) /\ 0 + 1 = 1
      BY <1>3, <1>7
    <3>. QED
      BY <1>1, <1>3, <1>5, <2>1, <3>1, StepOne
  <2>3. CASE n = 1
    BY <1>3, <1>4, <2>1, <2>2, <2>3 DEF DecodeHexdump
  <2>4. CASE n = 2
    <3>1. 1 + 1 \in 1..Len(wire[1]) /\ 1 + 1 = 2
      BY <1>3, <2>4
    <3>2. PICK second : second = ProcessEvent(first, line[2])
      OBVIOUS
    <3>3. second \in DecoderSet /\ Given(second) /\ Remaining(second, 2)
      BY <1>1, <1>3, <2>2, <3>1, <3>2, StepOne
    <3>4. DecodeHexdump(decoder, wire[1]) = second
      BY <1>3, <1>4, <2>1, <2>4, <3>2 DEF DecodeHexdump
    <3>. QED
      BY <1>3, <2>4, <3>3, <3>4
  <2>5. n <= 2
    BY <1>3
  <2>6. n = 1 \/ n = 2
    BY <1>7, <2>5
  <2>. QED
    BY <2>3, <2>4, <2>6
<1>8. n = 0 \/ n > 0
  OBVIOUS
<1>. QED
  BY <1>6, <1>7, <1>8
-----------------------------------------------------------------------------
(* The signals that are of no event.                                       *)

\* One more signal, of a later cut or of an event.
LEMMA NumberedStep ==
  ASSUME NEW d \in DecoderSet, NEW ev \in AnyEvent, NEW c \in Nat, Numbered(d, c),
         ev.id < 0 => -c <= ev.id /\ \A k \in 1..Len(d.emitted) : ev.id < d.emitted[k].id
  PROVE  LET new == ProcessEvent(d, ev) IN new \in DecoderSet /\ Numbered(new, c)
<1>1. PICK new \in DecoderSet : new = ProcessEvent(d, ev)
  BY OneEvent
<1>2. CASE ~Makes(ev)
  <2>1. new = d
    BY <1>1, <1>2, OneEvent
  <2>. QED
    BY <1>1, <2>1
<1>3. CASE Makes(ev)
  <2>1. PICK x \in SignalSet : new.emitted = Append(d.emitted, x) /\ x.id = ev.id
    <3>1. PICK down \in BOOLEAN : new.emitted = Append(d.emitted, Signal(ev.button, down, ev.id))
      BY <1>1, <1>3, OneEvent
    <3>2. Signal(ev.button, down, ev.id) \in SignalSet /\ Signal(ev.button, down, ev.id).id = ev.id
      BY DEF Signal, SignalSet, AnyEvent
    <3>. QED
      BY <3>1, <3>2
  <2>2. PICK s \in Seq(SignalSet), t \in Seq(SignalSet), n \in Nat :
          /\ s = d.emitted /\ t = new.emitted /\ n = Len(s) /\ Len(t) = n + 1 /\ t[n + 1] = x
          /\ \A k \in 1..n : t[k] = s[k]
    <3>1. d.emitted \in Seq(SignalSet) /\ new.emitted \in Seq(SignalSet)
      BY <1>1 DEF DecoderSet
    <3>2. Len(d.emitted) \in Nat
      BY <3>1, LenProperties
    <3>3. /\ Len(new.emitted) = Len(d.emitted) + 1 /\ new.emitted[Len(d.emitted) + 1] = x
          /\ \A k \in 1..Len(d.emitted) : new.emitted[k] = d.emitted[k]
      BY <2>1, <3>1, AppendProperties
    <3>. QED
      BY <3>1, <3>2, <3>3
  <2>3. ASSUME NEW i \in 1..(n + 1), t[i].id < 0
        PROVE  -c <= t[i].id /\ \A k \in 1..(i - 1) : t[i].id < t[k].id
    <3>1. CASE i \in 1..n
      <4>1. t[i] = s[i] /\ \A k \in 1..(i - 1) : t[k] = s[k]
        BY <2>2, <3>1
      <4>2. -c <= s[i].id /\ \A k \in 1..(i - 1) : s[i].id < s[k].id
        BY <2>2, <2>3, <3>1, <4>1 DEF Numbered
      <4>. QED
        BY <4>1, <4>2
    <3>2. CASE i = n + 1
      <4>1. t[i].id = ev.id /\ \A k \in 1..(i - 1) : k \in 1..n /\ t[k] = s[k]
        BY <2>1, <2>2, <3>2
      <4>. QED
        BY <2>2, <2>3, <4>1
    <3>. QED
      BY <3>1, <3>2
  <2>4. Numbered(new, c)
    BY <2>2, <2>3 DEF Numbered
  <2>. QED
    BY <1>1, <2>4
<1>. QED
  BY <1>2, <1>3

\* decodeHexdump: such an event is the only one of its line.
LEMMA NumberedLine ==
  ASSUME InputTypeOK, Pending, Numbered(decoder, cuts), wire # <<>>
  PROVE  Numbered(DecodeHexdump(decoder, wire[1]), cuts)
<1>1. 1 \in 1..Len(wire)
  BY EmptySeq, LenProperties DEF InputTypeOK
<1>2. PICK line \in Seq(AnyEvent), n \in 0..2 : line = wire[1] /\ n = Len(line)
  <2>1. wire[1] \in LineSet
    BY <1>1, ElementOfSeq DEF InputTypeOK
  <2>2. wire[1] \in Seq(AnyEvent) /\ Len(wire[1]) <= 2
    BY <2>1 DEF LineSet
  <2>3. PICK n \in Nat : n = Len(wire[1]) /\ n <= 2
    BY <2>2, LenProperties
  <2>4. n <= 2
    BY <2>3
  <2>5. n \in 0..2
    BY <2>4
  <2>. QED
    BY <2>2, <2>3, <2>5
<1>3. (line = <<>>) <=> n = 0
  BY <1>2, EmptySeq
<1>4. decoder \in DecoderSet /\ cuts \in Nat
  BY DEF InputTypeOK
<1>5. CASE n = 0
  BY <1>2, <1>3, <1>5 DEF DecodeHexdump
<1>6. CASE n > 0
  <2>1. 1 \in 1..n /\ line[1] \in AnyEvent
    BY <1>2, <1>6, ElementOfSeq
  <2>2. PICK first : first = ProcessEvent(decoder, line[1])
    OBVIOUS
  <2>3. line[1].id < 0 =>
          -cuts <= line[1].id /\ \A k \in 1..Len(decoder.emitted) : line[1].id < decoder.emitted[k].id
    BY <1>1, <1>2, <2>1 DEF Pending
  <2>4. first \in DecoderSet /\ Numbered(first, cuts)
    BY <1>4, <2>1, <2>2, <2>3, NumberedStep
  <2>5. CASE n = 1
    BY <1>2, <1>3, <2>2, <2>4, <2>5 DEF DecodeHexdump
  <2>6. CASE n = 2
    <3>1. 2 \in 1..Len(line) /\ line[2] \in AnyEvent
      <4>1. 2 \in 1..Len(line)
        BY <1>2, <2>6
      <4>. QED
        BY <4>1, ElementOfSeq
    <3>2. ~(line[2].id < 0)
      <4>1. wire[1][2].id < 0 => 2 = 1
        BY <1>1, <1>2, <3>1 DEF Pending
      <4>. QED
        BY <1>2, <4>1
    <3>3. Numbered(ProcessEvent(first, line[2]), cuts)
      BY <1>4, <2>4, <3>1, <3>2, NumberedStep
    <3>4. DecodeHexdump(decoder, wire[1]) = ProcessEvent(first, line[2])
      BY <1>2, <1>3, <2>2, <2>6 DEF DecodeHexdump
    <3>. QED
      BY <3>3, <3>4
  <2>7. n = 1 \/ n = 2
    BY <1>2, <1>6
  <2>. QED
    BY <2>5, <2>6, <2>7
<1>. QED
  BY <1>5, <1>6
-----------------------------------------------------------------------------
(* The lines under way.                                                    *)

\* What is left of a line is its second event, or one made of the cut.
LEMMA RestOf ==
  ASSUME NEW line \in LineSet, Len(line) = 2, NEW c \in Nat, c > 0, NEW tail \in Rests(line, c)
  PROVE  /\ tail \in LineSet /\ Len(tail) <= 1
         /\ \A j \in 1..Len(tail) : j = 1 /\ (tail[1] = line[2] \/ tail[1].id = -c)
<1>1. line \in Seq(AnyEvent) /\ 2 \in 1..Len(line)
  BY DEF LineSet
<1>2. PICK ev \in AnyEvent : ev = line[2]
  BY <1>1, ElementOfSeq
<1>3. \A e \in MadeUp(-c) : e \in AnyEvent /\ e.id = -c
  <2>1. ASSUME NEW type \in {"key", "axis"}, NEW b \in Names, NEW value \in {0, 1}
        PROVE  Event(type, b, value, -c) \in AnyEvent /\ Event(type, b, value, -c).id = -c
    BY DEF Event, AnyEvent
  <2>. QED
    BY <2>1 DEF MadeUp, Names, Buttons
<1>4. tail = <<>> \/ \E e \in AnyEvent : tail = <<e>> /\ (e = line[2] \/ e.id = -c)
  BY <1>2, <1>3 DEF Rests
<1>5. CASE tail = <<>>
  BY <1>5 DEF LineSet
<1>6. ASSUME NEW e \in AnyEvent, tail = <<e>>
      PROVE  tail \in LineSet /\ Len(tail) <= 1 /\ tail[1] = e /\ \A j \in 1..Len(tail) : j = 1
  BY <1>6 DEF LineSet
<1>. QED
  BY <1>4, <1>5, <1>6

\* The lines that follow the first one, of the next of which a part may be lost.
Shortened ==
  /\ wire # <<>>
  /\ \/ wire' = Tail(wire) /\ newline' = FALSE /\ UNCHANGED <<cuts, lost>>
     \/ DropStart(Tail(wire))

\* What it is line by line: o lines are gone, and the next one may be cut.
Without(o) ==
  /\ wire' \in Seq(LineSet) /\ Len(wire') = Len(wire) - o
  /\ \A i \in 1..Len(wire') :
       \/ wire'[i] = wire[i + o]
       \/ i = 1 /\ o = 1 /\ lost' /\ cuts' = cuts + 1 /\ wire'[1] \in Rests(wire[2], cuts')
  /\ ~lost' => o = 1

LEMMA NextLines ==
  ASSUME InputTypeOK, TwoByTwo, Shortened
  PROVE  /\ Without(1) \/ Without(2)
         /\ lost => lost'
         /\ ~lost' => ~lost /\ wire' = Tail(wire)
         /\ cuts' \in Nat /\ cuts' >= cuts /\ newline' \in BOOLEAN /\ lost' \in BOOLEAN
         /\ newline' => lost'
<1>1. PICK w \in Seq(LineSet), n \in Nat : w = wire /\ n = Len(w) /\ n > 0
  BY LenProperties, EmptySeq DEF InputTypeOK, Shortened
<1>2. PICK t \in Seq(LineSet) : t = Tail(w) /\ Len(t) = n - 1 /\ \A i \in 1..(n - 1) : t[i] = w[i + 1]
  <2>1. w # <<>>
    BY <1>1, EmptySeq
  <2>2. Tail(w) \in Seq(LineSet) /\ Len(Tail(w)) = n - 1 /\ \A i \in 1..(n - 1) : Tail(w)[i] = w[i + 1]
    BY <1>1, <2>1, HeadTailProperties
  <2>. QED
    BY <2>2
<1>3. CASE wire' = Tail(wire) /\ newline' = FALSE /\ UNCHANGED <<cuts, lost>>
  <2>1. Without(1)
    BY <1>1, <1>2, <1>3 DEF Without
  <2>2. cuts' \in Nat /\ cuts' >= cuts
    BY <1>3 DEF InputTypeOK
  <2>3. newline' \in BOOLEAN /\ lost' \in BOOLEAN /\ (lost => lost') /\ (~lost' => ~lost) /\ ~newline'
    BY Zenon, <1>3 DEF InputTypeOK
  <2>. QED
    BY <1>3, <2>1, <2>2, <2>3
<1>4. CASE DropStart(Tail(wire))
  <2>0. t # <<>> /\ lost' = TRUE /\ cuts' = cuts + 1 /\ newline' \in BOOLEAN /\ cuts \in Nat
    BY <1>1, <1>2, <1>4 DEF DropStart, InputTypeOK
  <2>1. n - 1 > 0
    BY <1>1, <1>2, <2>0, EmptySeq
  <2>2. PICK u \in Seq(LineSet) : u = Tail(t) /\ Len(u) = n - 2 /\ \A i \in 1..(n - 2) : u[i] = t[i + 1]
    <3>1. Tail(t) \in Seq(LineSet) /\ Len(Tail(t)) = Len(t) - 1 /\ \A i \in 1..(Len(t) - 1) : Tail(t)[i] = t[i + 1]
      BY <2>0, HeadTailProperties
    <3>2. Len(t) - 1 = n - 2
      BY <1>2
    <3>. QED
      BY <3>1, <3>2
  <2>3. t[1] = w[2] /\ w[2] \in LineSet /\ Len(w[2]) = 2
    <3>1. 1 \in 1..(n - 1) /\ 2 \in 1..n
      BY <2>1
    <3>2. t[1] = w[1 + 1]
      BY <1>2, <3>1
    <3>3. w[2] \in LineSet
      BY <1>1, <3>1, ElementOfSeq
    <3>4. Len(w[2]) = 2
      BY <1>1, <3>1 DEF TwoByTwo
    <3>. QED
      BY <3>2, <3>3, <3>4
  <2>4. CASE wire' = u
    <3>1. \A i \in 1..(n - 2) : u[i] = w[i + 2]
      <4>1. ASSUME NEW i \in 1..(n - 2) PROVE u[i] = w[i + 2]
        <5>1. i + 1 \in 1..(n - 1) /\ (i + 1) + 1 = i + 2
          OBVIOUS
        <5>2. t[i + 1] = w[(i + 1) + 1]
          BY <1>2, <5>1
        <5>. QED
          BY <2>2, <5>1, <5>2
      <4>. QED
        BY <4>1
    <3>2. Without(2)
      BY <1>1, <2>0, <2>2, <2>4, <3>1 DEF Without
    <3>. QED
      BY <2>0, <3>2
  <2>5. ASSUME NEW tail \in Rests(w[2], cuts'), wire' = <<tail>> \o u
        PROVE  /\ wire' \in Seq(LineSet) /\ Len(wire') = n - 1
               /\ \A i \in 1..(n - 1) : wire'[i] = w[i + 1] \/ (i = 1 /\ wire'[1] \in Rests(w[2], cuts'))
    <3>0. tail \in LineSet
      <4>1. cuts' \in Nat /\ cuts' > 0
        BY <2>0
      <4>. QED
        BY <2>3, <4>1, RestOf
    <3>a. PICK a \in Seq(LineSet) : a = <<tail>> /\ Len(a) = 1 /\ a[1] = tail
      <4>1. <<tail>> \in Seq(LineSet)
        BY <3>0
      <4>2. Len(<<tail>>) = 1 /\ <<tail>>[1] = tail
        OBVIOUS
      <4>. QED
        BY <4>1, <4>2
    <3>b. /\ a \o u \in Seq(LineSet) /\ Len(a \o u) = 1 + (n - 2)
          /\ \A i \in 1..(1 + (n - 2)) : (a \o u)[i] = IF i <= 1 THEN a[i] ELSE u[i - 1]
      BY <2>2, <3>a, ConcatProperties
    <3>c. PICK x : x = a \o u /\ x = wire'
      BY <2>5, <3>a
    <3>d. x \in Seq(LineSet) /\ Len(x) = n - 1
      BY <1>1, <2>1, <3>b, <3>c
    <3>e. ASSUME NEW i \in 1..(n - 1) PROVE x[i] = w[i + 1] \/ (i = 1 /\ x[1] \in Rests(w[2], cuts'))
      <4>1. i \in 1..(1 + (n - 2))
        BY <1>1
      <4>2. x[i] = IF i <= 1 THEN a[i] ELSE u[i - 1]
        BY <3>b, <3>c, <4>1
      <4>3. CASE i = 1
        BY <3>a, <4>2, <4>3
      <4>4. CASE i > 1
        <5>1. i - 1 \in 1..(n - 2) /\ (i - 1) + 1 = i /\ i \in 1..(n - 1) /\ ~(i <= 1)
          BY <1>1, <4>4
        <5>2. x[i] = u[i - 1] /\ u[i - 1] = t[(i - 1) + 1] /\ t[i] = w[i + 1]
          BY <1>2, <2>2, <4>2, <5>1
        <5>. QED
          BY <5>1, <5>2
      <4>. QED
        BY <4>3, <4>4
    <3>. QED
      BY <3>c, <3>d, <3>e
  <2>6. wire' = u \/ \E tail \in Rests(w[2], cuts') : wire' = <<tail>> \o u
    BY <1>1, <1>2, <1>4, <2>2, <2>3 DEF DropStart
  <2>7. CASE \E tail \in Rests(w[2], cuts') : wire' = <<tail>> \o u
    <3>1. Without(1)
      BY <1>1, <2>0, <2>5, <2>7 DEF Without
    <3>. QED
      BY <2>0, <3>1
  <2>. QED
    BY <2>4, <2>6, <2>7
<1>. QED
  BY <1>3, <1>4 DEF Shortened

\* What is under way is as it should be without the line that was given.
LEMMA ShortenedInv ==
  ASSUME InputInv, Shortened, UNCHANGED <<dump, pressed, done>>, NEW d \in DecoderSet, d = decoder',
         Given(d), Remaining(d, Len(wire[1])), Numbered(d, cuts)
  PROVE  /\ Given(decoder)' /\ ByTurns' /\ TwoByTwo' /\ InOrder' /\ Remaining(decoder, 0)'
         /\ Numbered(decoder, cuts)' /\ Pending' /\ wire' \in Seq(LineSet)
<1>0. InputTypeOK /\ TwoByTwo /\ InOrder /\ Pending
  BY DEF InputInv
<1>a. PICK o \in {1, 2} : Without(o)
  BY <1>0, NextLines
<1>b. PICK w \in Seq(LineSet), n \in Nat : w = wire /\ Len(w) = n
  BY <1>0, LenProperties DEF InputTypeOK
<1>c. PICK v \in Seq(LineSet), p \in Nat : v = wire' /\ Len(v) = p
  BY <1>a, LenProperties DEF Without
<1>1. /\ w = wire /\ v = wire' /\ Len(w) = n /\ Len(v) = p /\ n = p + o
      /\ \A i \in 1..p :
           \/ v[i] = w[i + o]
           \/ i = 1 /\ o = 1 /\ lost' /\ cuts' = cuts + 1 /\ v[1] \in Rests(w[2], cuts')
      /\ ~lost' => o = 1
  <2>1. p = n - o
    BY <1>a, <1>b, <1>c DEF Without
  <2>2. n = p + o
    BY <2>1
  <2>. QED
    BY <1>a, <1>b, <1>c, <2>2 DEF Without
<1>2. /\ (lost => lost') /\ (~lost' => ~lost)
      /\ cuts \in Nat /\ cuts' \in Nat /\ cuts' >= cuts /\ (newline' => lost')
  BY <1>0, NextLines DEF InputTypeOK
<1>3. \A i \in 1..p : i + o \in 1..n /\ Len(w[i + o]) = 2 /\ w[i + o] \in LineSet /\ v[i] \in LineSet
  <2>1. ASSUME NEW i \in 1..p
        PROVE  i + o \in 1..n /\ Len(w[i + o]) = 2 /\ w[i + o] \in LineSet /\ v[i] \in LineSet
    <3>1. i + o \in 1..n /\ i + o > 1
      BY <1>1
    <3>2. w[i + o] \in LineSet /\ v[i] \in LineSet
      BY <1>1, <3>1, ElementOfSeq
    <3>. QED
      BY <1>0, <1>1, <3>1, <3>2 DEF TwoByTwo
  <2>. QED
    BY <2>1
<1>4. ASSUME NEW i \in 1..p, v[i] # w[i + o]
      PROVE  /\ i = 1 /\ o = 1 /\ lost' /\ cuts' = cuts + 1 /\ Len(v[i]) <= 1
             /\ \A j \in 1..Len(v[i]) : j = 1 /\ (v[1][1] = w[2][2] \/ v[1][1].id = -cuts')
             /\ w[2] \in LineSet /\ Len(w[2]) = 2
  <2>1. i = 1 /\ o = 1 /\ lost' /\ cuts' = cuts + 1 /\ v[1] \in Rests(w[2], cuts')
    BY <1>1, <1>4
  <2>2. w[2] \in LineSet /\ Len(w[2]) = 2
    <3>1. 1 \in 1..p /\ 1 + o = 2
      BY <2>1
    <3>. QED
      BY <1>3, <3>1
  <2>3. cuts' > 0
    BY <1>2, <2>1
  <2>. QED
    BY <1>2, <2>1, <2>2, <2>3, RestOf
\* A signal is one that was there.
<1>5. ASSUME NEW i \in 1..p, NEW j \in 1..Len(v[i]), IsSignal(v[i][j])
      PROVE  /\ Truthful(v[i][j])'
             /\ \E k \in 1..Len(w[i + o]) : /\ IsSignal(w[i + o][k]) /\ w[i + o][k].id = v[i][j].id
                                            /\ v[i] = w[i + o] => k = j
  <2>1. \A k \in 1..Len(w[i + o]) : IsSignal(w[i + o][k]) => Truthful(w[i + o][k]) /\ Truthful(w[i + o][k])'
    <3>1. ASSUME NEW k \in 1..Len(w[i + o]), IsSignal(w[i + o][k]) PROVE Truthful(w[i + o][k])
      BY <1>0, <1>1, <1>3, <3>1 DEF InOrder, Signals
    <3>2. \A ev : Truthful(ev) => Truthful(ev)'
      BY <1>2 DEF Truthful
    <3>. QED
      BY <3>1, <3>2
  <2>2. CASE v[i] = w[i + o]
    BY <1>5, <2>1, <2>2
  <2>3. CASE v[i] # w[i + o]
    <3>1. i = 1 /\ j = 1 /\ o = 1 /\ i + o = 2 /\ w[2] \in LineSet /\ Len(w[2]) = 2
      BY <1>4, <2>3
    <3>2. v[1][1] = w[2][2]
      <4>1. v[1][1] = w[2][2] \/ v[1][1].id = -cuts'
        BY <1>4, <2>3, <3>1
      <4>2. v[1][1].id >= 0
        BY <1>5, <3>1 DEF IsSignal
      <4>3. ~(-cuts' >= 0)
        <5>1. cuts' = cuts + 1
          BY <1>4, <2>3
        <5>. QED
          BY <1>2, <5>1
      <4>. QED
        BY <4>1, <4>2, <4>3
    <3>3. 2 \in 1..2
      OBVIOUS
    <3>. QED
      BY <1>5, <2>1, <2>3, <3>1, <3>2, <3>3
  <2>. QED
    BY <2>2, <2>3
<1>6. Given(decoder)'
  BY <1>2 DEF Given, Held
<1>7. ByTurns'
  <2>1. ByTurns
    BY DEF InputInv
  <2>. QED
    BY <2>1 DEF ByTurns
<1>8. TwoByTwo'
  <2>1. \A i \in 1..p : i > 1 \/ ~lost' => Len(v[i]) = 2
    <3>1. ASSUME NEW i \in 1..p, i > 1 \/ ~lost' PROVE v[i] = w[i + o]
      BY <1>4, <3>1
    <3>. QED
      BY <1>3, <3>1
  <2>3. (dump = <<>> \/ (Len(dump) = 1 /\ dump[1].type = "end"))'
    BY <1>0 DEF TwoByTwo
  <2>. QED
    BY <1>1, <2>1, <2>3 DEF TwoByTwo
<1>9. InOrder'
  <2>1. \A i \in 1..Len(v) : \A j \in 1..Len(v[i]) : Signals(v, i, j) => Truthful(v[i][j])'
    BY <1>1, <1>5 DEF Signals
  <2>2. ASSUME NEW i \in 1..p, NEW k \in 1..p, NEW j \in 1..Len(v[i]), NEW l \in 1..Len(v[k]),
               IsSignal(v[i][j]), IsSignal(v[k][l]), i < k \/ (i = k /\ j < l)
        PROVE  v[i][j].id < v[k][l].id
    <3>1. PICK h \in 1..Len(w[i + o]) : /\ IsSignal(w[i + o][h]) /\ w[i + o][h].id = v[i][j].id
                                        /\ v[i] = w[i + o] => h = j
      BY <1>5, <2>2
    <3>2. PICK q \in 1..Len(w[k + o]) : /\ IsSignal(w[k + o][q]) /\ w[k + o][q].id = v[k][l].id
                                        /\ v[k] = w[k + o] => q = l
      BY <1>5, <2>2
    <3>3. i + o < k + o \/ (i + o = k + o /\ h < q)
      <4>1. CASE i < k
        BY <4>1
      <4>2. CASE i = k /\ j < l
        <5>1. v[i] = w[i + o]
          <6>1. j \in 1..Len(v[i]) /\ l \in 1..Len(v[i])
            BY <4>2
          <6>2. ~(j = 1 /\ l = 1)
            BY <4>2
          <6>. QED
            BY <1>4, <6>1, <6>2
        <5>. QED
          BY <3>1, <3>2, <4>2, <5>1
      <4>. QED
        BY <2>2, <4>1, <4>2
    <3>4. Signals(w, i + o, h) /\ Signals(w, k + o, q)
      BY <1>1, <1>3, <3>1, <3>2 DEF Signals
    <3>5. i + o \in 1..Len(wire) /\ k + o \in 1..Len(wire)
      BY <1>1, <1>3
    <3>6. wire[i + o][h].id < wire[k + o][q].id
      BY <1>0, <1>1, <3>3, <3>4, <3>5 DEF InOrder
    <3>. QED
      BY <1>1, <3>1, <3>2, <3>6
  <2>. QED
    BY <1>1, <2>1, <2>2 DEF InOrder, Signals
<1>10. Remaining(decoder, 0)'
  <2>1. ASSUME NEW i \in 1..p, NEW j \in 1..Len(v[i]), IsSignal(v[i][j]),
               NEW k \in 1..Len(d.emitted)
        PROVE  d.emitted[k].id < v[i][j].id
    <3>1. PICK h \in 1..Len(w[i + o]) : IsSignal(w[i + o][h]) /\ w[i + o][h].id = v[i][j].id
      BY <1>5, <2>1
    <3>2. Follows(Len(wire[1]), i + o, h) /\ i + o \in 1..Len(wire)
      BY <1>1, <1>3, <3>1 DEF Follows, Signals
    <3>3. d.emitted[k].id < wire[i + o][h].id
      BY <1>1, <3>2 DEF Remaining
    <3>. QED
      BY <1>1, <3>1, <3>3
  <2>2. ASSUME ~lost', NEW m \in 1..Len(done'), m > Len(decoder'.emitted)
        PROVE  \E i \in 1..Len(wire') : \E j \in 1..Len(wire'[i]) : Follows(0, i, j)' /\ wire'[i][j].id = m
    <3>1. PICK i \in 1..Len(wire) : \E j \in 1..Len(wire[i]) : Follows(Len(wire[1]), i, j) /\ wire[i][j].id = m
      BY <1>2, <2>2 DEF Remaining
    <3>2. PICK j \in 1..Len(wire[i]) : Follows(Len(wire[1]), i, j) /\ wire[i][j].id = m
      BY <3>1
    <3>3. i > 1 /\ IsSignal(wire[i][j])
      <4>1. CASE i = 1
        <5>1. Len(wire[1]) \in Nat /\ j \in 1..Len(wire[1]) /\ j > Len(wire[1])
          <6>1. 1 \in 1..n
            BY <1>1
          <6>2. w[1] \in Seq(AnyEvent)
            BY <1>1, <6>1, ElementOfSeq DEF LineSet
          <6>. QED
            BY <1>1, <3>2, <4>1, <6>2, LenProperties DEF Follows
        <5>. QED
          BY <5>1
      <4>. QED
        BY <3>2, <4>1 DEF Follows, Signals
    <3>4. PICK h \in 1..p : h + 1 = i /\ o = 1
      <4>1. o = 1 /\ n = p + 1
        BY <1>1, <2>2
      <4>2. i - 1 \in 1..p /\ (i - 1) + 1 = i
        BY <1>1, <3>3, <4>1
      <4>. QED
        BY <4>1, <4>2
    <3>5. v[h] = w[i]
      BY <1>4, <2>2, <3>4
    <3>6. j > 0 /\ h \in 1..Len(v) /\ j \in 1..Len(v[h]) /\ v[h][j] = wire[i][j]
      BY <1>1, <3>5
    <3>7. h \in 1..Len(wire') /\ j \in 1..Len(wire'[h]) /\ wire'[h][j].id = m /\ IsSignal(wire'[h][j])
      BY <1>1, <3>2, <3>3, <3>6
    <3>8. Follows(0, h, j)'
      BY <3>6, <3>7 DEF Follows, Signals
    <3>. QED
      BY <3>7, <3>8
  <2>3. d.emitted = decoder'.emitted
    OBVIOUS
  <2>4. \A i \in 1..Len(wire') : \A j \in 1..Len(wire'[i]) : Follows(0, i, j)' =>
          \A k \in 1..Len(decoder'.emitted) : decoder'.emitted[k].id < wire'[i][j].id
    BY <1>1, <2>1, <2>3 DEF Follows, Signals
  <2>5. ~lost' => \A m \in 1..Len(done') : m > Len(decoder'.emitted) =>
          \E i \in 1..Len(wire') : \E j \in 1..Len(wire'[i]) : Follows(0, i, j)' /\ wire'[i][j].id = m
    BY <2>2
  <2>. QED
    BY <2>4, <2>5 DEF Remaining
<1>11. Numbered(decoder, cuts)'
  <2>1. ASSUME NEW i \in 1..Len(d.emitted), d.emitted[i].id < 0
        PROVE  -cuts' <= d.emitted[i].id /\ \A k \in 1..(i - 1) : d.emitted[i].id < d.emitted[k].id
    <3>1. -cuts <= d.emitted[i].id /\ \A k \in 1..(i - 1) : d.emitted[i].id < d.emitted[k].id
      BY <2>1 DEF Numbered
    <3>2. d.emitted[i].id \in Int
      <4>1. d.emitted \in Seq(SignalSet)
        BY DEF DecoderSet
      <4>2. d.emitted[i] \in SignalSet
        BY <4>1, ElementOfSeq
      <4>. QED
        BY <4>2 DEF SignalSet
    <3>. QED
      BY <1>2, <3>1, <3>2
  <2>. QED
    BY <2>1 DEF Numbered
<1>12. Pending'
  <2>1. ASSUME NEW i \in 1..p, NEW j \in 1..Len(v[i]), v[i][j].id < 0
        PROVE  /\ i = 1 /\ j = 1 /\ Len(v[i]) = 1 /\ lost' /\ -cuts' <= v[i][j].id
               /\ \A k \in 1..Len(d.emitted) : v[i][j].id < d.emitted[k].id
    <3>1. ASSUME NEW h \in 1..n, NEW l \in 1..Len(w[h]), h # 1 PROVE ~(w[h][l].id < 0)
      BY <1>0, <1>1, <3>1 DEF Pending
    <3>2. v[i] # w[i + o]
      <4>1. i + o \in 1..n /\ i + o # 1
        BY <1>1, <1>3
      <4>. QED
        BY <2>1, <3>1, <4>1
    <3>3. /\ i = 1 /\ o = 1 /\ lost' /\ cuts' = cuts + 1 /\ Len(v[i]) <= 1 /\ j = 1
          /\ v[1][1] = w[2][2] \/ v[1][1].id = -cuts'
          /\ Len(w[2]) = 2
      BY <1>4, <3>2
    <3>4. v[1][1].id = -cuts'
      <4>1. 2 \in 1..n /\ 2 # 1 /\ 2 \in 1..Len(w[2])
        BY <1>1, <3>3
      <4>. QED
        BY <2>1, <3>1, <3>3, <4>1
    <3>5. Len(v[i]) = 1
      <4>1. v[i] \in Seq(AnyEvent)
        BY <1>3 DEF LineSet
      <4>2. PICK l \in Nat : l = Len(v[i]) /\ l <= 1 /\ j \in 1..l
        BY <3>3, <4>1, LenProperties
      <4>a. l <= 1 /\ l # 0
        BY <4>2
      <4>3. l = 1
        BY <4>a
      <4>. QED
        BY <4>2, <4>3
    <3>6. ASSUME NEW k \in 1..Len(d.emitted) PROVE -cuts' < d.emitted[k].id
      <4>1. d.emitted[k].id \in Int
        <5>1. d.emitted \in Seq(SignalSet)
          BY DEF DecoderSet
        <5>2. d.emitted[k] \in SignalSet
          BY <5>1, ElementOfSeq
        <5>. QED
          BY <5>2 DEF SignalSet
      <4>2. d.emitted[k].id < 0 => -cuts <= d.emitted[k].id
        BY DEF Numbered
      <4>. QED
        BY <1>2, <3>3, <4>1, <4>2
    <3>. QED
      BY <1>2, <3>3, <3>4, <3>5, <3>6
  <2>. QED
    BY <1>1, <1>2, <2>1 DEF Pending
<1>. QED
  BY <1>1, <1>6, <1>7, <1>8, <1>9, <1>10, <1>11, <1>12

\* A line of the console is a line.
LEMMA PrintedLines == ASSUME NEW new \in Seq(Printed) PROVE new \in Seq(LineSet)
<1>1. ASSUME NEW line \in Printed PROVE line \in LineSet
  <2>1. \A e \in EventSet : e \in AnyEvent
    BY DEF EventSet, AnyEvent
  <2>2. \A i \in 1..Len(line) : line[i] \in AnyEvent
    BY <2>1, ElementOfSeq DEF Printed
  <2>3. line \in Seq(AnyEvent)
    BY <2>2, SeqDef, LenProperties DEF Printed
  <2>. QED
    BY <2>3 DEF Printed, LineSet
<1>2. \A i \in 1..Len(new) : new[i] \in LineSet
  BY <1>1, ElementOfSeq
<1>. QED
  BY <1>2, SeqDef, LenProperties

\* What hexdump printed comes last.  Its lines have two events each, and of one
\* press or release at most, of which nothing was under way.
Appended(new, n) ==
  /\ new \in Seq(Printed) /\ \A i \in 1..Len(new) : Len(new[i]) = 2
  /\ \A i \in 1..Len(new) : \A j \in 1..2 : IsSignal(new[i][j]) =>
       /\ new[i][j].id = n
       /\ \A k \in 1..Len(new) : \A l \in 1..2 : IsSignal(new[k][l]) => k = i /\ l = j

\* Nothing else happens but that a press or release may be done, of which the
\* new lines tell.
Printing(new) ==
  /\ wire' = wire \o new /\ Appended(new, Len(done) + 1)
  /\ UNCHANGED <<decoder, lost, newline, cuts>>
  /\ done' = done \/ \E x \in Buttons \X BOOLEAN : done' = Append(done, x)
  /\ (dump = <<>> \/ (Len(dump) = 1 /\ dump[1].type = "end"))'
  /\ \A i \in 1..Len(new) : \A j \in 1..2 : IsSignal(new[i][j]) => Truthful(new[i][j])'
  /\ ~lost /\ done' # done => \E i \in 1..Len(new) : \E j \in 1..2 : IsSignal(new[i][j])

\* What is under way is as it should be with what was printed.
LEMMA AppendedInv ==
  ASSUME InputTypeOK, Given(decoder), TwoByTwo, InOrder, Remaining(decoder, 0), Pending,
         NEW new, Printing(new)
  PROVE  /\ Given(decoder)' /\ TwoByTwo' /\ InOrder' /\ Remaining(decoder, 0)' /\ Pending'
         /\ wire' \in Seq(LineSet)
<1>0. UNCHANGED <<decoder, lost, newline, cuts>> /\ Appended(new, Len(done) + 1)
  BY DEF Printing
<1>1. PICK w \in Seq(LineSet), v \in Seq(LineSet), n \in Nat, m \in Nat, c \in Nat :
        /\ w = wire /\ v = wire' /\ Len(w) = n /\ Len(new) = m /\ Len(v) = n + m /\ c = Len(done)
        /\ \A i \in 1..(n + m) : v[i] = IF i <= n THEN w[i] ELSE new[i - n]
  <2>1. wire \in Seq(LineSet) /\ new \in Seq(LineSet)
    <3>1. new \in Seq(Printed)
      BY <1>0 DEF Appended
    <3>. QED
      BY <3>1, PrintedLines DEF InputTypeOK
  <2>2. Len(wire) \in Nat /\ Len(new) \in Nat /\ Len(done) \in Nat
    BY <2>1, LenProperties DEF InputTypeOK
  <2>3. /\ wire \o new \in Seq(LineSet) /\ Len(wire \o new) = Len(wire) + Len(new)
        /\ \A i \in 1..(Len(wire) + Len(new)) :
             (wire \o new)[i] = IF i <= Len(wire) THEN wire[i] ELSE new[i - Len(wire)]
    BY <2>1, ConcatProperties
  <2>4. wire' = wire \o new
    BY DEF Printing
  <2>. QED
    BY <2>1, <2>2, <2>3, <2>4
\* A line of either kind.
<1>2. ASSUME NEW i \in 1..(n + m)
      PROVE  \/ ~(i > n) /\ i \in 1..n /\ v[i] = w[i]
             \/ i > n /\ i - n \in 1..m /\ v[i] = new[i - n] /\ Len(v[i]) = 2
  <2>1. CASE i <= n
    BY <1>1, <2>1
  <2>2. CASE i > n
    <3>1. i - n \in 1..m /\ ~(i <= n)
      BY <2>2
    <3>2. v[i] = new[i - n]
      BY <1>1, <3>1
    <3>. QED
      BY <1>0, <1>1, <2>2, <3>1, <3>2 DEF Appended
  <2>. QED
    BY <2>1, <2>2
<1>3. \A i \in 1..n : i \in 1..(n + m) /\ v[i] = w[i]
  BY <1>1
<1>4. \A k \in 1..c : done'[k] = done[k] /\ k \in 1..Len(done')
  <2>1. CASE done' = done
    BY <1>1, <2>1
  <2>2. ASSUME NEW x \in Buttons \X BOOLEAN, done' = Append(done, x)
        PROVE  \A k \in 1..c : done'[k] = done[k] /\ k \in 1..Len(done')
    <3>1. Len(done') = c + 1 /\ \A k \in 1..c : done'[k] = done[k]
      BY <1>1, <2>2, AppendProperties DEF InputTypeOK
    <3>. QED
      BY <3>1
  <2>3. done' = done \/ \E x \in Buttons \X BOOLEAN : done' = Append(done, x)
    BY DEF Printing
  <2>. QED
    BY <2>1, <2>2, <2>3
<1>5. \A ev : Truthful(ev) => Truthful(ev)'
  BY <1>0, <1>1, <1>4 DEF Truthful
<1>6. Given(decoder)'
  <2>1. PICK e \in Nat : e = Len(decoder.emitted)
    BY LenProperties DEF InputTypeOK, DecoderSet
  <2>2. \A i \in 1..e : LET x == decoder.emitted[i] IN x.id >= 0 =>
          /\ x.id \in 1..c
          /\ x.button = done[x.id][1]
          /\ x.button \in Plain => x.down = done[x.id][2]
    BY <1>1, <2>1 DEF Given
  <2>3. \A i \in 1..e : LET x == decoder.emitted[i] IN x.id >= 0 =>
          /\ x.id \in 1..Len(done')
          /\ x.button = done'[x.id][1]
          /\ x.button \in Plain => x.down = done'[x.id][2]
    BY <1>4, <2>2
  <2>4. ASSUME ~lost
        PROVE  /\ \A i \in 1..e : LET x == decoder.emitted[i] IN x.id = i /\ done'[i] = <<x.button, x.down>>
               /\ decoder.Lpressed = Held(done', L, e) /\ decoder.Rpressed = Held(done', R, e)
    <3>1. /\ \A i \in 1..e : LET x == decoder.emitted[i] IN x.id = i /\ done[i] = <<x.button, x.down>>
          /\ decoder.Lpressed = Held(done, L, e) /\ decoder.Rpressed = Held(done, R, e)
      BY <2>1, <2>4 DEF Given
    <3>2. \A i \in 1..e : i \in 1..c
      <4>1. ASSUME NEW i \in 1..e PROVE i \in 1..c
        <5>1. decoder.emitted[i].id = i /\ i >= 0
          BY <3>1
        <5>. QED
          BY <2>2, <5>1
      <4>. QED
        BY <4>1
    <3>3. e \in 0..Len(done)
      <4>1. CASE e = 0
        BY <1>1, <4>1
      <4>2. CASE e > 0
        <5>1. e \in 1..e
          BY <4>2
        <5>. QED
          BY <1>1, <3>2, <5>1
      <4>. QED
        BY <4>1, <4>2
    <3>4. Held(done', L, e) = Held(done, L, e) /\ Held(done', R, e) = Held(done, R, e)
      <4>1. CASE done' = done
        BY <4>1
      <4>2. ASSUME NEW x \in Buttons \X BOOLEAN, done' = Append(done, x)
            PROVE  \A b : Held(done', b, e) = Held(done, b, e)
        <5>1. ASSUME NEW b PROVE Held(Append(done, x), b, e) = Held(done, b, e)
          BY <3>3, HeldKept DEF InputTypeOK
        <5>. QED
          BY <4>2, <5>1
      <4>3. done' = done \/ \E x \in Buttons \X BOOLEAN : done' = Append(done, x)
        BY DEF Printing
      <4>. QED
        BY <4>1, <4>2, <4>3
    <3>. QED
      BY <1>4, <3>1, <3>2, <3>4
  <2>5. \A i \in 1..e : decoder.emitted[i].id >= 0 => \A k \in 1..(i - 1) : decoder.emitted[k].id < decoder.emitted[i].id
    BY <2>1 DEF Given
  <2>. QED
    BY <1>0, <2>1, <2>3, <2>4, <2>5 DEF Given
<1>7. TwoByTwo'
  <2>1. ASSUME NEW i \in 1..(n + m), i > 1 \/ ~lost PROVE Len(v[i]) = 2
    <3>1. CASE i \in 1..n /\ v[i] = w[i]
      BY <1>1, <2>1, <3>1 DEF TwoByTwo
    <3>. QED
      BY <1>2, <3>1
  <2>3. (dump = <<>> \/ (Len(dump) = 1 /\ dump[1].type = "end"))'
    BY DEF Printing
  <2>. QED
    BY <1>0, <1>1, <2>1, <2>3 DEF TwoByTwo
\* A signal of either kind.
<1>8. ASSUME NEW i \in 1..(n + m), NEW j \in 1..Len(v[i]), IsSignal(v[i][j])
      PROVE  \/ ~(i > n) /\ i \in 1..n /\ v[i] = w[i] /\ Signals(wire, i, j) /\ v[i][j].id \in 1..c
             \/ /\ i > n /\ i - n \in 1..m /\ v[i] = new[i - n] /\ j \in 1..2 /\ v[i][j].id = c + 1
                /\ \A k \in 1..m : \A l \in 1..2 : IsSignal(new[k][l]) => k = i - n /\ l = j
  <2>1. CASE ~(i > n) /\ i \in 1..n /\ v[i] = w[i]
    <3>1. Signals(wire, i, j)
      BY <1>1, <1>8, <2>1 DEF Signals
    <3>2. Truthful(wire[i][j])
      BY <3>1 DEF InOrder, Signals
    <3>. QED
      BY <1>1, <2>1, <3>1, <3>2 DEF Truthful
  <2>2. CASE i > n /\ i - n \in 1..m /\ v[i] = new[i - n] /\ Len(v[i]) = 2
    <3>1. PICK h \in 1..m : h = i - n /\ v[i] = new[h] /\ h \in 1..Len(new)
      BY <1>1, <2>2
    <3>2. j \in 1..2 /\ IsSignal(new[h][j])
      BY <1>8, <2>2, <3>1
    <3>3. new[h][j].id = Len(done) + 1 /\ \A k \in 1..Len(new) : \A l \in 1..2 :
            IsSignal(new[k][l]) => k = h /\ l = j
      BY <1>0, <3>1, <3>2 DEF Appended
    <3>. QED
      BY <1>1, <2>2, <3>1, <3>2, <3>3
  <2>. QED
    BY <1>2, <2>1, <2>2
<1>9. InOrder'
  <2>1. ASSUME NEW i \in 1..(n + m), NEW j \in 1..Len(v[i]), IsSignal(v[i][j])
        PROVE  Truthful(v[i][j])'
    <3>1. CASE i \in 1..n /\ v[i] = w[i] /\ Signals(wire, i, j)
      <4>1. Truthful(wire[i][j])
        BY <3>1 DEF InOrder, Signals
      <4>. QED
        BY <1>1, <1>5, <3>1, <4>1
    <3>2. CASE i - n \in 1..m /\ v[i] = new[i - n] /\ j \in 1..2
      <4>1. PICK h \in 1..Len(new) : h = i - n /\ v[i] = new[h]
        BY <1>1, <3>2
      <4>. QED
        BY <2>1, <3>2, <4>1 DEF Printing
    <3>. QED
      BY <1>8, <2>1, <3>1, <3>2
  <2>2. ASSUME NEW i \in 1..(n + m), NEW k \in 1..(n + m), NEW j \in 1..Len(v[i]), NEW l \in 1..Len(v[k]),
               IsSignal(v[i][j]), IsSignal(v[k][l]), i < k \/ (i = k /\ j < l)
        PROVE  v[i][j].id < v[k][l].id
    <3>1. CASE ~(i > n) /\ ~(k > n)
      <4>1. /\ Signals(wire, i, j) /\ v[i] = w[i]
            /\ Signals(wire, k, l) /\ v[k] = w[k]
        BY <1>8, <2>2, <3>1
      <4>2. wire[i][j].id < wire[k][l].id
        BY <2>2, <4>1 DEF InOrder, Signals
      <4>. QED
        BY <1>1, <4>1, <4>2
    <3>2. CASE ~(i > n) /\ k > n
      <4>2. PICK p \in 1..c : p = v[i][j].id
        BY <1>8, <2>2, <3>2
      <4>3. v[k][l].id = c + 1
        BY <1>8, <2>2, <3>2
      <4>4. p < c + 1
        OBVIOUS
      <4>. QED
        BY <4>2, <4>3, <4>4
    <3>3. CASE i > n
      <4>1. k > n
        BY <2>2, <3>3
      <4>2. /\ i - n \in 1..m /\ v[i] = new[i - n] /\ j \in 1..2
            /\ \A p \in 1..m : \A q \in 1..2 : IsSignal(new[p][q]) => p = i - n /\ q = j
        BY <1>8, <2>2, <3>3
      <4>3. k - n \in 1..m /\ v[k] = new[k - n] /\ l \in 1..2
        BY <1>8, <2>2, <4>1
      <4>4. k - n = i - n /\ l = j
        BY <2>2, <4>2, <4>3
      <4>. QED
        BY <2>2, <4>4
    <3>. QED
      BY <3>1, <3>2, <3>3
  <2>3. ASSUME NEW i \in 1..Len(wire'), NEW j \in 1..Len(wire'[i]), Signals(wire, i, j)'
        PROVE  Truthful(wire[i][j])'
    <3>1. Truthful(v[i][j])'
      BY <1>1, <2>1, <2>3 DEF Signals
    <3>. QED
      BY <1>1, <3>1 DEF Truthful
  <2>4. ASSUME NEW i \in 1..Len(wire'), NEW k \in 1..Len(wire'), NEW j \in 1..Len(wire'[i]),
               NEW l \in 1..Len(wire'[k]), Signals(wire, i, j)', Signals(wire, k, l)',
               i < k \/ (i = k /\ j < l)
        PROVE  wire'[i][j].id < wire'[k][l].id
    BY <1>1, <2>2, <2>4 DEF Signals
  <2>. QED
    BY <2>3, <2>4 DEF InOrder
<1>10. Remaining(decoder, 0)'
  <2>1. \A k \in 1..Len(decoder.emitted) : decoder.emitted[k].id \in Int /\ decoder.emitted[k].id < c + 1
    <3>1. ASSUME NEW k \in 1..Len(decoder.emitted)
          PROVE  decoder.emitted[k].id \in Int /\ decoder.emitted[k].id < c + 1
      <4>1. decoder.emitted[k].id \in Int
        <5>1. decoder.emitted \in Seq(SignalSet)
          BY DEF InputTypeOK, DecoderSet
        <5>2. decoder.emitted[k] \in SignalSet
          BY <5>1, ElementOfSeq
        <5>. QED
          BY <5>2 DEF SignalSet
      <4>2. decoder.emitted[k].id >= 0 => decoder.emitted[k].id \in 1..c
        BY <1>1 DEF Given
      <4>. QED
        BY <4>1, <4>2
    <3>. QED
      BY <3>1
  <2>2. ASSUME NEW i \in 1..Len(wire'), NEW j \in 1..Len(wire'[i]), Follows(0, i, j)',
               NEW k \in 1..Len(decoder'.emitted)
        PROVE  decoder'.emitted[k].id < wire'[i][j].id
    <3>1. i \in 1..(n + m) /\ j \in 1..Len(v[i]) /\ IsSignal(v[i][j])
      BY <1>1, <2>2 DEF Follows, Signals
    <3>2. CASE i \in 1..n /\ v[i] = w[i] /\ Signals(wire, i, j)
      <4>1. Follows(0, i, j)
        BY <3>2 DEF Follows, Signals
      <4>2. i \in 1..Len(wire) /\ j \in 1..Len(wire[i]) /\ wire[i] = wire'[i]
        BY <1>1, <3>1, <3>2
      <4>3. decoder.emitted[k].id < wire[i][j].id
        BY <1>0, <2>2, <4>1, <4>2 DEF Remaining
      <4>. QED
        BY <1>0, <4>2, <4>3
    <3>3. CASE v[i][j].id = c + 1
      <4>1. PICK p \in Int : p = decoder'.emitted[k].id /\ p < c + 1
        BY <1>0, <2>1, <2>2
      <4>2. v[i][j] = wire'[i][j]
        BY <1>1
      <4>. QED
        BY <3>3, <4>1, <4>2
    <3>. QED
      BY <1>8, <3>1, <3>2, <3>3
  <2>3. ASSUME ~lost', NEW k \in 1..Len(done'), k > Len(decoder'.emitted)
        PROVE  \E i \in 1..Len(wire') : \E j \in 1..Len(wire'[i]) : Follows(0, i, j)' /\ wire'[i][j].id = k
    <3>1. CASE k \in 1..c
      <4>1. PICK i \in 1..Len(wire) : \E j \in 1..Len(wire[i]) : Follows(0, i, j) /\ wire[i][j].id = k
        BY <1>0, <1>1, <2>3, <3>1 DEF Remaining
      <4>2. PICK j \in 1..Len(wire[i]) : Follows(0, i, j) /\ wire[i][j].id = k
        BY <4>1
      <4>3. i \in 1..Len(wire') /\ wire'[i] = wire[i]
        BY <1>1, <1>3
      <4>4. Follows(0, i, j)'
        BY <4>2, <4>3 DEF Follows, Signals
      <4>. QED
        BY <4>2, <4>3, <4>4
    <3>2. CASE k \notin 1..c
      <4>1. done' # done /\ k = c + 1
        <5>1. done' # done
          BY <1>1, <3>2
        <5>2. Len(done') = c + 1
          <6>1. PICK x \in Buttons \X BOOLEAN : done' = Append(done, x)
            BY <5>1 DEF Printing
          <6>. QED
            BY <1>1, <6>1, AppendProperties DEF InputTypeOK
        <5>. QED
          BY <3>2, <5>1, <5>2
      <4>2. PICK h \in 1..m, j \in 1..2 : IsSignal(new[h][j])
        BY <1>0, <1>1, <2>3, <4>1 DEF Printing
      <4>3. PICK i \in 1..(n + m) : i = n + h /\ i > n /\ i - n = h
        OBVIOUS
      <4>4. v[i] = new[h] /\ Len(v[i]) = 2
        BY <1>2, <4>3
      <4>5. j \in 1..Len(v[i]) /\ IsSignal(v[i][j])
        BY <4>2, <4>4
      <4>6. v[i][j].id = c + 1
        BY <1>8, <4>3, <4>5
      <4>7. i \in 1..Len(wire') /\ j \in 1..Len(wire'[i]) /\ wire'[i][j].id = k /\ IsSignal(wire'[i][j])
        BY <1>1, <4>1, <4>5, <4>6
      <4>8. Follows(0, i, j)'
        BY <4>7 DEF Follows, Signals
      <4>. QED
        BY <4>7, <4>8
    <3>. QED
      BY <3>1, <3>2
  <2>4. \A i \in 1..Len(wire') : \A j \in 1..Len(wire'[i]) : Follows(0, i, j)' =>
          \A k \in 1..Len(decoder'.emitted) : decoder'.emitted[k].id < wire'[i][j].id
    BY <2>2
  <2>5. ~lost' => \A k \in 1..Len(done') : k > Len(decoder'.emitted) =>
          \E i \in 1..Len(wire') : \E j \in 1..Len(wire'[i]) : Follows(0, i, j)' /\ wire'[i][j].id = k
    BY <2>3
  <2>. QED
    BY <2>4, <2>5 DEF Remaining
<1>11. Pending'
  <2>1. ASSUME NEW i \in 1..(n + m), NEW j \in 1..Len(v[i]), v[i][j].id < 0
        PROVE  i \in 1..n /\ v[i] = w[i]
    <3>1. ASSUME i > n, i - n \in 1..m, v[i] = new[i - n], Len(v[i]) = 2 PROVE FALSE
      <4>1. new[i - n] \in Printed
        BY <1>0, <1>1, <3>1, ElementOfSeq DEF Appended
      <4>2. v[i][j] \in EventSet
        BY <3>1, <4>1, ElementOfSeq DEF Printed
      <4>. QED
        BY <2>1, <4>2 DEF EventSet
    <3>. QED
      BY <1>2, <3>1
  <2>2. ASSUME NEW i \in 1..(n + m), NEW j \in 1..Len(v[i]), v[i][j].id < 0
        PROVE  /\ i = 1 /\ j = 1 /\ Len(v[i]) = 1 /\ lost /\ -cuts <= v[i][j].id
               /\ \A k \in 1..Len(decoder.emitted) : v[i][j].id < decoder.emitted[k].id
    BY <1>1, <2>1, <2>2 DEF Pending
  <2>3. newline => lost
    BY DEF Pending
  <2>. QED
    BY <1>0, <1>1, <2>2, <2>3 DEF Pending
<1>. QED
  BY <1>1, <1>6, <1>7, <1>9, <1>10, <1>11
-----------------------------------------------------------------------------
(* What hexdump prints.                                                    *)

\* What is kept for the next line is nothing or the end of a report.
Kept(s) == s = <<>> \/ (Len(s) = 1 /\ s[1].type = "end")

\* One event after another, two to a line.
LEMMA Pairing ==
  ASSUME NEW z \in Seq(EventSet), Kept(z), NEW ev \in Seq(EventSet), Len(ev) \in {2, 3}
  PROVE  LET new == Lines(z \o ev) IN
         /\ new \in Seq(Printed)
         /\ z = <<>> => Len(new) = 1 /\ new[1] = <<ev[1], ev[2]>>
         /\ z # <<>> => new[1] = <<z[1], ev[1]>>
         /\ z # <<>> /\ Len(ev) = 2 => Len(new) = 1
         /\ z # <<>> /\ Len(ev) = 3 => Len(new) = 2 /\ new[2] = <<ev[2], ev[3]>>
<1>1. PICK a \in {0, 1}, b \in {2, 3} : a = Len(z) /\ b = Len(ev) /\ (a = 0 <=> z = <<>>)
  <2>1. (Len(z) = 0 \/ Len(z) = 1) /\ (Len(z) = 0 <=> z = <<>>)
    BY EmptySeq DEF Kept
  <2>. QED
    BY <2>1
<1>2. PICK s \in Seq(EventSet) :
        /\ s = z \o ev /\ Len(s) = a + b
        /\ \A i \in 1..(a + b) : s[i] = IF i <= a THEN z[i] ELSE ev[i - a]
  <2>1. /\ z \o ev \in Seq(EventSet) /\ Len(z \o ev) = Len(z) + Len(ev)
        /\ \A i \in 1..(Len(z) + Len(ev)) : (z \o ev)[i] = IF i <= Len(z) THEN z[i] ELSE ev[i - Len(z)]
    BY ConcatProperties
  <2>. QED
    BY ZenonT(40), <1>1, <2>1
<1>3. PICK h \in Nat : h = Len(s) \div 2 /\ h = (IF a + b = 4 THEN 2 ELSE 1) /\ 2 * h <= a + b
  <2>1. CASE a + b = 2
    BY <1>2, <2>1
  <2>2. CASE a + b = 3
    BY <1>2, <2>2
  <2>3. CASE a + b = 4
    BY <1>2, <2>3
  <2>. QED
    BY <2>1, <2>2, <2>3
<1>4. PICK new : new = Lines(z \o ev)
  OBVIOUS
<1>5. new = [i \in 1..h |-> <<s[2 * i - 1], s[2 * i]>>]
  BY <1>2, <1>3, <1>4 DEF Lines
<1>6. ASSUME NEW i \in 1..h PROVE <<s[2 * i - 1], s[2 * i]>> \in Printed
  <2>1. 2 * i - 1 \in 1..Len(s) /\ 2 * i \in 1..Len(s)
    BY <1>2, <1>3
  <2>2. PICK x \in EventSet, y \in EventSet : x = s[2 * i - 1] /\ y = s[2 * i]
    BY <2>1, ElementOfSeq
  <2>3. <<x, y>> \in Seq(EventSet) /\ Len(<<x, y>>) = 2
    OBVIOUS
  <2>. QED
    BY <2>2, <2>3 DEF Printed
<1>7. new \in [1..h -> Printed]
  BY <1>5, <1>6
<1>8. new \in Seq(Printed) /\ Len(new) = h
  BY <1>7, SeqDef, LenProperties
<1>9. \A i \in 1..h : new[i] = <<s[2 * i - 1], s[2 * i]>>
  BY <1>5
<1>10. 1 \in 1..h /\ new[1] = <<s[1], s[2]>>
  BY <1>3, <1>9
<1>11. h = 2 => new[2] = <<s[3], s[4]>>
  BY <1>3, <1>9
<1>12. CASE a = 0
  <2>1. s[1] = ev[1] /\ s[2] = ev[2] /\ h = 1
    BY <1>1, <1>2, <1>3, <1>12
  <2>. QED
    BY <1>1, <1>4, <1>8, <1>10, <1>12, <2>1
<1>13. CASE a = 1
  <2>1. s[1] = z[1] /\ s[2] = ev[1] /\ s[3] = ev[2]
    BY <1>1, <1>2, <1>13
  <2>2. b = 3 => s[4] = ev[3] /\ h = 2
    BY <1>1, <1>2, <1>3, <1>13
  <2>3. b = 2 => h = 1
    BY <1>1, <1>2, <1>3, <1>13
  <2>. QED
    BY <1>1, <1>4, <1>8, <1>10, <1>11, <1>13, <2>1, <2>2, <2>3
<1>. QED
  BY <1>12, <1>13

\* A report of press or release id, or of a key that repeats: hexdump's lines of
\* it have a signal at one place at most.
Reported(ev, id) ==
  /\ ev \in Seq(EventSet)
  /\ \/ /\ Len(ev) = 2 /\ ev[1].type = "key" /\ ev[2].type = "end"
        /\ IsSignal(ev[1]) => ev[1].id = id
     \/ /\ Len(ev) = 3 /\ IsSignal(ev[1]) /\ ev[1].type = "axis" /\ ev[1].id = id
        /\ ~IsSignal(ev[2]) /\ ev[2].id = id /\ ev[3].type = "end"

LEMMA ReportPrinted ==
  ASSUME NEW z \in Seq(EventSet), Kept(z), NEW id \in Nat, NEW ev, Reported(ev, id)
  PROVE  LET new == Lines(z \o ev) IN
         /\ Appended(new, id)
         /\ \A i \in 1..Len(new) : \A j \in 1..2 : IsSignal(new[i][j]) => new[i][j] = ev[1]
         /\ IsSignal(ev[1]) => \E i \in 1..Len(new) : \E j \in 1..2 : IsSignal(new[i][j])
<1>1. PICK new : new = Lines(z \o ev)
  OBVIOUS
<1>2. /\ new \in Seq(Printed)
      /\ z = <<>> => Len(new) = 1 /\ new[1] = <<ev[1], ev[2]>>
      /\ z # <<>> => new[1] = <<z[1], ev[1]>>
      /\ z # <<>> /\ Len(ev) = 2 => Len(new) = 1
      /\ z # <<>> /\ Len(ev) = 3 => Len(new) = 2 /\ new[2] = <<ev[2], ev[3]>>
  BY <1>1, Pairing DEF Reported
<1>3. \A e : e.type = "end" => ~IsSignal(e) /\ e.type # "key"
  BY DEF IsSignal, Makes
<1>4. z # <<>> => z[1].type = "end"
  BY DEF Kept
<1>5. PICK x, y, u : x = ev[1] /\ y = ev[2] /\ u = z[1]
  OBVIOUS
<1>6. CASE z = <<>>
  <2>1. Len(new) = 1 /\ new[1] = <<x, y>>
    BY <1>2, <1>5, <1>6
  <2>2. ~IsSignal(y) /\ (IsSignal(x) => x.id = id)
    BY <1>3, <1>5 DEF Reported
  <2>3. Len(new[1]) = 2 /\ new[1][1] = x /\ new[1][2] = y
    BY <2>1
  <2>4. \A i \in 1..Len(new) : i = 1
    BY <2>1
  <2>5. \A i \in 1..Len(new) : \A j \in 1..2 : IsSignal(new[i][j]) => i = 1 /\ j = 1 /\ new[i][j] = x
    BY <2>2, <2>3, <2>4
  <2>6. Appended(new, id)
    BY <1>2, <2>2, <2>3, <2>4, <2>5 DEF Appended
  <2>7. 1 \in 1..Len(new) /\ 1 \in 1..2
    BY <2>1
  <2>8. IsSignal(x) => \E i \in 1..Len(new) : \E j \in 1..2 : IsSignal(new[i][j])
    BY <2>3, <2>7
  <2>. QED
    BY <1>1, <1>5, <2>5, <2>6, <2>8
<1>7. CASE z # <<>> /\ Len(ev) = 2
  <2>1. Len(new) = 1 /\ new[1] = <<u, x>>
    BY <1>2, <1>5, <1>7
  <2>2. ~IsSignal(u) /\ (IsSignal(x) => x.id = id)
    BY <1>3, <1>4, <1>5, <1>7 DEF Reported
  <2>3. Len(new[1]) = 2 /\ new[1][1] = u /\ new[1][2] = x
    BY <2>1
  <2>4. \A i \in 1..Len(new) : i = 1
    BY <2>1
  <2>5. \A i \in 1..Len(new) : \A j \in 1..2 : IsSignal(new[i][j]) => i = 1 /\ j = 2 /\ new[i][j] = x
    BY <2>2, <2>3, <2>4
  <2>6. Appended(new, id)
    BY <1>2, <2>2, <2>3, <2>4, <2>5 DEF Appended
  <2>7. 1 \in 1..Len(new) /\ 2 \in 1..2
    BY <2>1
  <2>8. IsSignal(x) => \E i \in 1..Len(new) : \E j \in 1..2 : IsSignal(new[i][j])
    BY <2>3, <2>7
  <2>. QED
    BY <1>1, <1>5, <2>5, <2>6, <2>8
<1>8. CASE z # <<>> /\ Len(ev) = 3
  <2>1. PICK e : e = ev[3]
    OBVIOUS
  <2>2. Len(new) = 2 /\ new[1] = <<u, x>> /\ new[2] = <<y, e>>
    BY <1>2, <1>5, <1>8, <2>1
  <2>3. /\ ~IsSignal(u) /\ IsSignal(x) /\ x.id = id /\ x.type = "axis"
        /\ ~IsSignal(y) /\ ~IsSignal(e) /\ e.type # "key"
    BY <1>3, <1>4, <1>5, <1>8, <2>1 DEF Reported
  <2>4. /\ Len(new[1]) = 2 /\ new[1][1] = u /\ new[1][2] = x
        /\ Len(new[2]) = 2 /\ new[2][1] = y /\ new[2][2] = e
    BY <2>2
  <2>5. \A i \in 1..Len(new) : i = 1 \/ i = 2
    BY <2>2
  <2>6. \A i \in 1..Len(new) : \A j \in 1..2 : IsSignal(new[i][j]) => i = 1 /\ j = 2 /\ new[i][j] = x
    BY <2>3, <2>4, <2>5
  <2>7. Appended(new, id)
    BY <1>2, <2>3, <2>4, <2>5, <2>6 DEF Appended
  <2>8. 1 \in 1..Len(new) /\ 2 \in 1..2
    BY <2>2
  <2>9. \E i \in 1..Len(new) : \E j \in 1..2 : IsSignal(new[i][j])
    BY <2>3, <2>4, <2>8
  <2>. QED
    BY <1>1, <1>5, <2>6, <2>7, <2>9
<1>. QED
  BY <1>6, <1>7, <1>8 DEF Reported
-----------------------------------------------------------------------------
(* The steps.                                                              *)

\* Short sequences.
LEMMA NoneSeq == ASSUME NEW S PROVE <<>> \in Seq(S) /\ Len(<<>>) = 0
OBVIOUS
LEMMA OneSeq ==
  ASSUME NEW S, NEW x \in S
  PROVE  <<x>> \in Seq(S) /\ Len(<<x>>) = 1 /\ <<x>>[1] = x
<1>1. <<x>> \in Seq(S)
  OBVIOUS
<1>2. Len(<<x>>) = 1 /\ <<x>>[1] = x
  OBVIOUS
<1>. QED
  BY <1>1, <1>2
LEMMA TwoSeq ==
  ASSUME NEW S, NEW x \in S, NEW y \in S
  PROVE  <<x, y>> \in Seq(S) /\ Len(<<x, y>>) = 2 /\ <<x, y>>[1] = x /\ <<x, y>>[2] = y
<1>1. <<x, y>> \in Seq(S)
  OBVIOUS
<1>2. Len(<<x, y>>) = 2 /\ <<x, y>>[1] = x /\ <<x, y>>[2] = y
  OBVIOUS
<1>. QED
  BY <1>1, <1>2
LEMMA ThreeSeq ==
  ASSUME NEW S, NEW x \in S, NEW y \in S, NEW z \in S
  PROVE  /\ <<x, y, z>> \in Seq(S) /\ Len(<<x, y, z>>) = 3
         /\ <<x, y, z>>[1] = x /\ <<x, y, z>>[2] = y /\ <<x, y, z>>[3] = z
<1>1. <<x, y, z>> \in Seq(S)
  OBVIOUS
<1>2. Len(<<x, y, z>>) = 3 /\ <<x, y, z>>[1] = x /\ <<x, y, z>>[2] = y /\ <<x, y, z>>[3] = z
  OBVIOUS
<1>. QED
  BY <1>1, <1>2

\* An event's parts.
LEMMA EventParts ==
  ASSUME NEW type \in {"key", "axis", "end"}, NEW b \in Names, NEW value \in 0..2, NEW id \in Nat
  PROVE  LET ev == Event(type, b, value, id) IN
         ev \in EventSet /\ ev.type = type /\ ev.button = b /\ ev.value = value /\ ev.id = id
BY DEF Event, EventSet

LEMMA InitInv == InputInit => InputInv
<1>. SUFFICES ASSUME InputInit PROVE InputInv
  OBVIOUS
<1>1. /\ decoder = [Lpressed |-> FALSE, Rpressed |-> FALSE, emitted |-> <<>>]
      /\ wire = <<>> /\ dump = <<>> /\ pressed = {} /\ done = <<>> /\ session = TRUE /\ lost = FALSE
      /\ newline = FALSE /\ cuts = 0
  BY DEF InputInit
<1>2. decoder.emitted = <<>> /\ decoder.Lpressed = FALSE /\ decoder.Rpressed = FALSE
  BY <1>1
<1>3. Len(wire) = 0 /\ Len(done) = 0 /\ Len(decoder.emitted) = 0
  BY <1>1, <1>2
<1>4. InputTypeOK
  <2>1. wire \in Seq(LineSet) /\ dump \in Seq(EventSet) /\ done \in Seq(Buttons \X BOOLEAN)
    BY <1>1, NoneSeq
  <2>2. decoder \in DecoderSet
    <3>1. <<>> \in Seq(SignalSet)
      BY NoneSeq
    <3>. QED
      BY <1>1, <3>1 DEF DecoderSet
  <2>. QED
    BY <1>1, <2>1, <2>2 DEF InputTypeOK
<1>5. \A b : Held(done, b, 0) = FALSE
  BY DEF Held
<1>6. Given(decoder)
  <2>1. Held(done, L, Len(decoder.emitted)) = FALSE /\ Held(done, R, Len(decoder.emitted)) = FALSE
    BY <1>3, <1>5
  <2>2. \A i \in 1..Len(decoder.emitted) : FALSE
    BY <1>3
  <2>3. \A i \in 1..Len(decoder.emitted) : decoder.emitted[i].id >= 0 =>
          \A k \in 1..(i - 1) : decoder.emitted[k].id < decoder.emitted[i].id
    BY <2>2
  <2>4. \A i \in 1..Len(decoder.emitted) : decoder.emitted[i].id >= 0 =>
          /\ decoder.emitted[i].id \in 1..Len(done)
          /\ decoder.emitted[i].button = done[decoder.emitted[i].id][1]
          /\ decoder.emitted[i].button \in Plain =>
               decoder.emitted[i].down = done[decoder.emitted[i].id][2]
    BY <2>2
  <2>5. \A i \in 1..Len(decoder.emitted) :
          decoder.emitted[i].id = i /\ done[i] = <<decoder.emitted[i].button, decoder.emitted[i].down>>
    BY <2>2
  <2>6. decoder.Lpressed = Held(done, L, Len(decoder.emitted))
    BY <1>2, <2>1
  <2>7. decoder.Rpressed = Held(done, R, Len(decoder.emitted))
    BY <1>2, <2>1
  <2>. QED
    BY <2>3, <2>4, <2>5, <2>6, <2>7 DEF Given
<1>7. ByTurns
  BY <1>1, <1>3, <1>5 DEF ByTurns
<1>8. TwoByTwo /\ InOrder /\ Remaining(decoder, 0) /\ Offline /\ Numbered(decoder, cuts) /\ Pending
  BY <1>1, <1>3 DEF TwoByTwo, InOrder, Remaining, Offline, Numbered, Pending
<1>. QED
  BY <1>4, <1>6, <1>7, <1>8 DEF InputInv

\* inputCo reads.
LEMMA ReceiveInv == InputInv /\ Receive => InputInv'
<1>. SUFFICES ASSUME InputInv, Receive PROVE InputInv'
  OBVIOUS
<1>0. /\ InputTypeOK /\ Given(decoder) /\ ByTurns /\ TwoByTwo /\ InOrder
      /\ Remaining(decoder, 0) /\ Offline /\ Numbered(decoder, cuts) /\ Pending
  BY DEF InputInv
<1>1. session /\ UNCHANGED <<dump, pressed, done, session>>
  BY DEF Receive
<1>2. CASE ReadLine
  <2>1. wire # <<>> /\ decoder' = IF newline THEN decoder ELSE DecodeHexdump(decoder, wire[1])
    BY <1>2 DEF ReadLine
  <2>2. PICK d : d = decoder'
    OBVIOUS
  <2>3. /\ d = decoder' /\ d \in DecoderSet /\ Given(d) /\ Remaining(d, Len(wire[1]))
        /\ Numbered(d, cuts)
    <3>1. CASE ~newline
      BY <1>0, <2>1, <2>2, <3>1, DecodeLine, NumberedLine
    <3>2. CASE newline
      <4>1. d = decoder /\ lost /\ d \in DecoderSet
        BY <1>0, <2>1, <2>2, <3>2 DEF Pending, InputTypeOK
      <4>2. Len(wire[1]) \in Nat
        <5>1. wire[1] \in LineSet
          BY <1>0, <2>1, EmptySeq, LenProperties, ElementOfSeq DEF InputTypeOK
        <5>. QED
          BY <5>1, LenProperties DEF LineSet
      <4>3. ASSUME NEW i \in 1..Len(wire), NEW j \in 1..Len(wire[i]), Follows(Len(wire[1]), i, j)
            PROVE  Follows(0, i, j)
        BY <4>3 DEF Follows
      <4>4. Remaining(decoder, Len(wire[1]))
        BY <1>0, <4>1, <4>3 DEF Remaining
      <4>. QED
        BY <1>0, <2>2, <4>1, <4>4
    <3>. QED
      BY <3>1, <3>2
  <2>4. Shortened
    BY <1>2 DEF ReadLine, Shortened
  <2>5. /\ Given(decoder)' /\ ByTurns' /\ TwoByTwo' /\ InOrder' /\ Remaining(decoder, 0)'
        /\ Numbered(decoder, cuts)' /\ Pending' /\ wire' \in Seq(LineSet)
    BY <1>1, <2>3, <2>4, ShortenedInv
  <2>6. InputTypeOK'
    <3>1. cuts' \in Nat /\ newline' \in BOOLEAN /\ lost' \in BOOLEAN
      BY <1>0, <2>4, NextLines
    <3>. QED
      BY <1>0, <1>1, <2>3, <2>5, <3>1 DEF InputTypeOK
  <2>7. Offline'
    BY <1>1 DEF Offline
  <2>. QED
    BY <2>5, <2>6, <2>7 DEF InputInv
<1>3. CASE ReadPart
  <2>1. UNCHANGED <<decoder, wire, newline, cuts, dump, pressed, done, session, lost>>
    BY <1>1, <1>3 DEF ReadPart
  <2>. QED
    BY <1>0, <2>1 DEF InputInv, InputTypeOK, Given, ByTurns, TwoByTwo, InOrder, Remaining, Follows,
      Truthful, Offline, Numbered, Pending
<1>. QED
  BY <1>2, <1>3 DEF Receive

\* Everything that was under way is lost.
LEMMA DisconnectInv == InputInv /\ Disconnect => InputInv'
<1>. SUFFICES ASSUME InputInv, Disconnect PROVE InputInv'
  OBVIOUS
<1>0. InputTypeOK /\ Given(decoder) /\ ByTurns /\ Numbered(decoder, cuts)
  BY DEF InputInv
<1>1. /\ wire' = <<>> /\ newline' = FALSE /\ dump' = <<>> /\ lost' = TRUE /\ session' = FALSE
      /\ UNCHANGED <<decoder, cuts, pressed, done>>
  BY DEF Disconnect
<1>2. Len(wire') = 0
  BY <1>1
<1>3. InputTypeOK'
  BY <1>0, <1>1, NoneSeq DEF InputTypeOK
<1>4. Given(decoder)'
  BY <1>0, <1>1 DEF Given
<1>5. ByTurns'
  BY <1>0, <1>1 DEF ByTurns
<1>6. TwoByTwo' /\ InOrder' /\ Remaining(decoder, 0)' /\ Offline' /\ Pending'
  BY <1>1, <1>2 DEF TwoByTwo, InOrder, Remaining, Offline, Pending
<1>7. Numbered(decoder, cuts)'
  BY <1>0, <1>1 DEF Numbered
<1>. QED
  BY <1>3, <1>4, <1>5, <1>6, <1>7 DEF InputInv

LEMMA ReconnectInv == InputInv /\ Reconnect => InputInv'
<1>. SUFFICES ASSUME InputInv, Reconnect PROVE InputInv'
  OBVIOUS
<1>1. UNCHANGED <<decoder, wire, newline, cuts, dump, pressed, done, lost>> /\ session' = TRUE
  BY DEF Reconnect
<1>2. /\ InputTypeOK /\ Given(decoder) /\ ByTurns /\ TwoByTwo /\ InOrder /\ Remaining(decoder, 0)
      /\ Numbered(decoder, cuts) /\ Pending
  BY DEF InputInv
<1>3. InputTypeOK' /\ ByTurns' /\ TwoByTwo' /\ Offline'
  BY <1>1, <1>2 DEF InputTypeOK, ByTurns, TwoByTwo, Offline
<1>4. Given(decoder)'
  BY <1>1, <1>2 DEF Given
<1>5. InOrder' /\ Remaining(decoder, 0)' /\ Numbered(decoder, cuts)' /\ Pending'
  BY <1>1, <1>2 DEF InOrder, Remaining, Follows, Truthful, Numbered, Pending
<1>. QED
  BY <1>3, <1>4, <1>5 DEF InputInv

\* A report is printed, if hexdump runs.
LEMMA HexDumpInv ==
  ASSUME InputTypeOK, Given(decoder), TwoByTwo, InOrder, Remaining(decoder, 0), Offline,
         Numbered(decoder, cuts), Pending,
         NEW ev, Reported(ev, Len(done) + 1), HexDump(ev),
         UNCHANGED <<decoder, session, lost, newline, cuts>>,
         done' = done \/ \E x \in Buttons \X BOOLEAN : done' = Append(done, x),
         IsSignal(ev[1]) => Truthful(ev[1])',
         done' # done => IsSignal(ev[1])
  PROVE  /\ Given(decoder)' /\ TwoByTwo' /\ InOrder' /\ Remaining(decoder, 0)' /\ Offline'
         /\ Numbered(decoder, cuts)' /\ Pending'
         /\ wire' \in Seq(LineSet) /\ dump' \in Seq(EventSet)
<1>1. dump \in Seq(EventSet) /\ Kept(dump) /\ wire \in Seq(LineSet)
  BY DEF InputTypeOK, TwoByTwo, Kept
<1>2. PICK e \in EventSet : e = Last(ev) /\ e.type = "end"
  <2>1. Len(ev) \in 1..Len(ev)
    BY DEF Reported
  <2>2. Last(ev) = ev[Len(ev)] /\ ev[Len(ev)] \in EventSet
    BY <2>1, ElementOfSeq DEF Last, Reported
  <2>. QED
    BY <2>2 DEF Reported
<1>3. dump' = <<>> \/ dump' = <<e>>
  BY <1>2 DEF HexDump
<1>4. dump' \in Seq(EventSet) /\ Kept(dump')
  <2>1. CASE dump' = <<>>
    BY <2>1, NoneSeq DEF Kept
  <2>2. CASE dump' = <<e>>
    <3>1. <<e>> \in Seq(EventSet) /\ Len(<<e>>) = 1 /\ <<e>>[1] = e
      BY OneSeq
    <3>. QED
      BY <1>2, <2>2, <3>1 DEF Kept
  <2>. QED
    BY <1>3, <2>1, <2>2
<1>5. PICK id \in Nat : id = Len(done) + 1
  BY LenProperties DEF InputTypeOK
<1>8. Numbered(decoder, cuts)'
  BY DEF Numbered
<1>6. CASE session
  <2>1. PICK new : new = Lines(dump \o ev) /\ wire' = wire \o new
    BY <1>6 DEF HexDump
  <2>2. /\ Appended(new, id)
        /\ \A i \in 1..Len(new) : \A j \in 1..2 : IsSignal(new[i][j]) => new[i][j] = ev[1]
        /\ IsSignal(ev[1]) => \E i \in 1..Len(new) : \E j \in 1..2 : IsSignal(new[i][j])
    BY <1>1, <1>5, <2>1, ReportPrinted
  <2>3. ASSUME NEW i \in 1..Len(new), NEW j \in 1..2, IsSignal(new[i][j])
        PROVE  Truthful(new[i][j])'
    <3>1. new[i][j] = ev[1]
      BY <2>2, <2>3
    <3>. QED
      BY <2>3, <3>1
  <2>4. Printing(new)
    BY <1>4, <1>5, <2>1, <2>2, <2>3 DEF Printing, Kept
  <2>5. Offline'
    BY <1>6 DEF Offline
  <2>. QED
    BY <1>4, <1>8, <2>4, <2>5, AppendedInv
<1>7. CASE ~session
  <2>1. wire = <<>> /\ lost /\ wire' = wire /\ dump' = <<>>
    BY <1>7 DEF HexDump, Offline
  <2>2. PICK new \in Seq(Printed) : new = <<>> /\ Len(new) = 0
    BY NoneSeq
  <2>3. wire' = wire \o new
    BY <1>1, <2>1, <2>2
  <2>4. Appended(new, id)
    BY <2>2 DEF Appended
  <2>5. Printing(new)
    BY <1>4, <1>5, <2>1, <2>2, <2>3, <2>4 DEF Printing, Kept
  <2>6. Offline'
    BY <1>7, <2>1 DEF Offline
  <2>. QED
    BY <1>4, <1>8, <2>5, <2>6, AppendedInv
<1>. QED
  BY <1>6, <1>7 DEF InputTypeOK

\* A button is pressed or released.
LEMMA PushInv == InputInv /\ (\E button \in Buttons : Push(button)) => InputInv'
<1>. SUFFICES ASSUME InputInv, NEW button \in Buttons, Push(button) PROVE InputInv'
  OBVIOUS
<1>0. /\ InputTypeOK /\ Given(decoder) /\ ByTurns /\ TwoByTwo /\ InOrder
      /\ Remaining(decoder, 0) /\ Offline /\ Numbered(decoder, cuts) /\ Pending
  BY DEF InputInv
<1>1. PICK c \in Nat : c = Len(done)
  BY <1>0, LenProperties DEF InputTypeOK
<1>2. PICK down \in BOOLEAN :
        /\ down = (button \notin pressed)
        /\ pressed' = IF down THEN pressed \cup {button} ELSE pressed \ {button}
        /\ done' = Append(done, <<button, down>>)
        /\ HexDump(Report(button, down, Len(done')))
        /\ UNCHANGED <<decoder, session, lost, newline, cuts>>
  BY DEF Push
<1>3. PICK x \in Buttons \X BOOLEAN : x = <<button, down>>
  OBVIOUS
<1>4. /\ done' \in Seq(Buttons \X BOOLEAN) /\ Len(done') = c + 1 /\ done'[c + 1] = x
      /\ \A i \in 1..c : done'[i] = done[i]
  BY <1>0, <1>1, <1>2, <1>3, AppendProperties DEF InputTypeOK
<1>5. \A b : \A n \in 0..c : Held(done', b, n) = Held(done, b, n)
  <2>1. ASSUME NEW b, NEW n \in 0..c PROVE Held(Append(done, x), b, n) = Held(done, b, n)
    BY <1>0, <1>1, HeldKept DEF InputTypeOK
  <2>. QED
    BY <1>2, <1>3, <2>1
<1>6. \A b : Held(done', b, c + 1) = IF button = b THEN down ELSE Held(done', b, c)
  <2>1. ASSUME NEW b PROVE Held(done', b, c + 1) = IF button = b THEN down ELSE Held(done', b, c)
    <3>1. PICK m \in 1..Len(done') : m = c + 1 /\ m - 1 = c
      BY <1>4
    <3>2. Held(done', b, m) = IF done'[m][1] = b THEN done'[m][2] ELSE Held(done', b, m - 1)
      BY <1>4, HeldStep
    <3>3. done'[m][1] = button /\ done'[m][2] = down
      BY <1>3, <1>4, <3>1
    <3>. QED
      BY <3>1, <3>2, <3>3
  <2>. QED
    BY <2>1
<1>7. \A b \in Buttons : b \in pressed <=> Held(done, b, c)
  BY <1>0, <1>1 DEF ByTurns
<1>8. ByTurns'
  <2>1. ASSUME NEW i \in 1..(c + 1) PROVE done'[i][2] = ~Held(done', done'[i][1], i - 1)
    <3>1. CASE i \in 1..c
      <4>1. done'[i] = done[i] /\ done[i][2] = ~Held(done, done[i][1], i - 1)
        BY <1>0, <1>1, <1>4, <3>1 DEF ByTurns
      <4>2. i - 1 \in 0..c
        BY <3>1
      <4>. QED
        BY <1>5, <4>1, <4>2
    <3>2. CASE i = c + 1
      <4>1. done'[i][1] = button /\ done'[i][2] = down /\ i - 1 = c /\ c \in 0..c
        BY <1>3, <1>4, <3>2
      <4>2. Held(done', button, c) = Held(done, button, c)
        BY <1>5, <4>1
      <4>3. down = ~Held(done, button, c)
        BY <1>2, <1>7
      <4>. QED
        BY <4>1, <4>2, <4>3
    <3>. QED
      BY <3>1, <3>2
  <2>2. ASSUME NEW b \in Buttons PROVE b \in pressed' <=> Held(done', b, c + 1)
    <3>1. c \in 0..c
      OBVIOUS
    <3>2. Held(done', b, c) = Held(done, b, c)
      BY <1>5, <3>1
    <3>3. CASE b = button
      BY <1>2, <1>6, <3>3
    <3>4. CASE b # button
      BY <1>2, <1>6, <1>7, <3>2, <3>4
    <3>. QED
      BY <3>3, <3>4
  <2>. QED
    BY <1>4, <2>1, <2>2 DEF ByTurns
<1>9. PICK id \in Nat : id = c + 1 /\ id = Len(done')
  BY <1>4
<1>10. button \in Names /\ (button \in Plain \/ button \in Shoulders) /\ ~(button \in Plain /\ button \in Shoulders)
  BY PlainAssumption DEF Names, Buttons
<1>11. PICK ev : /\ ev = Report(button, down, id)
                 /\ Reported(ev, id) /\ IsSignal(ev[1]) /\ ev[1].id = id /\ ev[1].button = button
                 /\ button \in Plain => (ev[1].value = 1) = down
  <2>a. PICK value \in {0, 1} : value = (IF down THEN 1 ELSE 0) /\ (value = 1) = down
    OBVIOUS
  <2>b. PICK k \in EventSet : k = Event("key", button, value, id)
          /\ k.type = "key" /\ k.button = button /\ k.value = value /\ k.id = id
    BY <1>10, EventParts
  <2>c. PICK e \in EventSet : e = Event("end", button, 0, id) /\ e.type = "end"
    BY <1>10, EventParts
  <2>d. PICK a \in EventSet : a = Event("axis", button, 0, id) /\ a.type = "axis" /\ a.button = button /\ a.id = id
    BY <1>10, EventParts
  <2>1. /\ k = Event("key", button, IF down THEN 1 ELSE 0, id)
        /\ e = Event("end", button, 0, id) /\ a = Event("axis", button, 0, id)
        /\ k.type = "key" /\ k.button = button /\ k.id = id /\ (k.value = 1) = down /\ k.value \in {0, 1}
        /\ e.type = "end" /\ a.type = "axis" /\ a.button = button /\ a.id = id
    BY <2>a, <2>b, <2>c, <2>d
  <2>2. CASE button \in Shoulders
    <3>1. Report(button, down, id) = <<a, k, e>>
      BY <2>1, <2>2 DEF Report
    <3>2. PICK ev \in Seq(EventSet) : ev = <<a, k, e>> /\ Len(ev) = 3 /\ ev[1] = a /\ ev[2] = k /\ ev[3] = e
      <4>1. /\ <<a, k, e>> \in Seq(EventSet) /\ Len(<<a, k, e>>) = 3
            /\ <<a, k, e>>[1] = a /\ <<a, k, e>>[2] = k /\ <<a, k, e>>[3] = e
        BY ThreeSeq
      <4>. QED
        BY <4>1
    <3>3. IsSignal(a) /\ ~IsSignal(k)
      BY <2>1, <2>2 DEF IsSignal, Makes
    <3>. QED
      BY <1>10, <2>1, <2>2, <3>1, <3>2, <3>3 DEF Reported
  <2>3. CASE button \in Plain
    <3>1. Report(button, down, id) = <<k, e>>
      BY <1>10, <2>1, <2>3 DEF Report
    <3>2. PICK ev \in Seq(EventSet) : ev = <<k, e>> /\ Len(ev) = 2 /\ ev[1] = k /\ ev[2] = e
      <4>1. <<k, e>> \in Seq(EventSet) /\ Len(<<k, e>>) = 2 /\ <<k, e>>[1] = k /\ <<k, e>>[2] = e
        BY TwoSeq
      <4>. QED
        BY <4>1
    <3>3. IsSignal(k)
      BY <1>10, <2>1, <2>3 DEF IsSignal, Makes
    <3>. QED
      BY ZenonT(40), <2>1, <2>3, <3>1, <3>2, <3>3 DEF Reported
  <2>. QED
    BY <1>10, <2>2, <2>3
<1>12. Truthful(ev[1])'
  <2>1. PICK s : s = ev[1] /\ s.id = c + 1 /\ s.button = button /\ (button \in Plain => (s.value = 1) = down)
    BY <1>9, <1>11
  <2>2. done'[c + 1][1] = button /\ done'[c + 1][2] = down /\ c + 1 \in 1..Len(done')
    BY <1>3, <1>4
  <2>3. Truthful(s)'
    BY <2>1, <2>2 DEF Truthful
  <2>. QED
    BY <2>1, <2>3
<1>13. HexDump(ev) /\ Reported(ev, Len(done) + 1)
  BY <1>1, <1>2, <1>9, <1>11
<1>14. /\ Given(decoder)' /\ TwoByTwo' /\ InOrder' /\ Remaining(decoder, 0)' /\ Offline'
       /\ Numbered(decoder, cuts)' /\ Pending' /\ wire' \in Seq(LineSet) /\ dump' \in Seq(EventSet)
  BY <1>0, <1>2, <1>3, <1>11, <1>12, <1>13, HexDumpInv
<1>15. InputTypeOK'
  BY <1>0, <1>2, <1>4, <1>14 DEF InputTypeOK
<1>. QED
  BY <1>8, <1>14, <1>15 DEF InputInv

\* The key of a button that is held down repeats.
LEMMA HoldInv == InputInv /\ (\E button \in Buttons : Hold(button)) => InputInv'
<1>. SUFFICES ASSUME InputInv, NEW button \in Buttons, Hold(button) PROVE InputInv'
  OBVIOUS
<1>0. /\ InputTypeOK /\ Given(decoder) /\ ByTurns /\ TwoByTwo /\ InOrder
      /\ Remaining(decoder, 0) /\ Offline /\ Numbered(decoder, cuts) /\ Pending
  BY DEF InputInv
<1>1. /\ HexDump(Repeat(button, Len(done)))
      /\ UNCHANGED <<decoder, pressed, done, session, lost, newline, cuts>>
  BY DEF Hold
<1>2. PICK c \in Nat : c = Len(done)
  BY <1>0, LenProperties DEF InputTypeOK
<1>a. button \in Names
  BY DEF Names
<1>b. PICK k \in EventSet : k = Event("key", button, 2, c) /\ k.type = "key" /\ k.value = 2
  BY <1>a, EventParts
<1>c. PICK e \in EventSet : e = Event("end", button, 0, c) /\ e.type = "end"
  BY <1>a, EventParts
<1>3. /\ k = Event("key", button, 2, c) /\ e = Event("end", button, 0, c)
      /\ k.type = "key" /\ k.value = 2 /\ e.type = "end"
  BY <1>b, <1>c
<1>4. PICK ev \in Seq(EventSet) : ev = <<k, e>> /\ Len(ev) = 2 /\ ev[1] = k /\ ev[2] = e
  <2>1. <<k, e>> \in Seq(EventSet) /\ Len(<<k, e>>) = 2 /\ <<k, e>>[1] = k /\ <<k, e>>[2] = e
    BY TwoSeq
  <2>. QED
    BY <2>1
<1>5. HexDump(ev)
  BY <1>1, <1>2, <1>3, <1>4 DEF Repeat
<1>6. ~IsSignal(ev[1])
  BY <1>3, <1>4 DEF IsSignal, Makes
<1>7. Reported(ev, Len(done) + 1)
  BY <1>3, <1>4, <1>6 DEF Reported
<1>8. /\ Given(decoder)' /\ TwoByTwo' /\ InOrder' /\ Remaining(decoder, 0)' /\ Offline'
      /\ Numbered(decoder, cuts)' /\ Pending' /\ wire' \in Seq(LineSet) /\ dump' \in Seq(EventSet)
  BY <1>0, <1>1, <1>5, <1>6, <1>7, HexDumpInv
<1>9. ByTurns' /\ InputTypeOK'
  BY <1>0, <1>1, <1>8 DEF ByTurns, InputTypeOK
<1>. QED
  BY <1>8, <1>9 DEF InputInv

\* The invariant.
LEMMA InputSound == InputSpec => []InputInv
<1>1. InputInv /\ [InputNext]_inputVars => InputInv'
  <2>. SUFFICES ASSUME InputInv, [InputNext]_inputVars PROVE InputInv'
    OBVIOUS
  <2>1. CASE InputNext
    BY <2>1, ReceiveInv, DisconnectInv, ReconnectInv, PushInv, HoldInv DEF InputNext
  <2>2. CASE UNCHANGED inputVars
    <3>1. UNCHANGED <<decoder, wire, newline, cuts, dump, pressed, done, session, lost>>
      BY <2>2 DEF inputVars
    <3>2. InputTypeOK' /\ ByTurns' /\ TwoByTwo' /\ Offline' /\ Numbered(decoder, cuts)' /\ Pending'
      BY <3>1 DEF InputInv, InputTypeOK, ByTurns, TwoByTwo, Offline, Numbered, Pending
    <3>3. Given(decoder)' /\ InOrder' /\ Remaining(decoder, 0)'
      BY <3>1 DEF InputInv, Given, InOrder, Remaining, Follows, Truthful
    <3>. QED
      BY <3>2, <3>3 DEF InputInv
  <2>. QED
    BY <2>1, <2>2
<1>. QED
  BY <1>1, InitInv, PTL DEF InputSpec

\* Whatever is lost, the signals of events are true, in order and one of each at
\* most, and the others are one at most of each line that lost its start: decoder
\* and connection for any joystick (NoInventedInput).
THEOREM NothingInvented == InputSpec => []NoInventedInput
<1>1. InputInv => NoInventedInput
  <2>. SUFFICES ASSUME InputInv, NEW i \in DOMAIN decoder.emitted
       PROVE  LET e == decoder.emitted[i]
                  earlier == {decoder.emitted[k].id : k \in 1..(i - 1)}
              IN \/ /\ e.id > 0 /\ \A id \in earlier : id < e.id
                    /\ e.button = done[e.id][1] /\ (e.button \in Plain => e.down = done[e.id][2])
                 \/ /\ e.id < 0 /\ -e.id <= cuts /\ \A id \in earlier : id > e.id
    BY DEF NoInventedInput
  <2>1. PICK s \in Seq(SignalSet) : s = decoder.emitted /\ i \in 1..Len(s)
    BY LenProperties DEF InputInv, InputTypeOK, DecoderSet
  <2>2. PICK id \in Int : id = s[i].id
    <3>1. s[i] \in SignalSet
      BY <2>1, ElementOfSeq
    <3>. QED
      BY <3>1 DEF SignalSet
  <2>3. ASSUME NEW k \in 1..(i - 1) PROVE k \in 1..Len(s) /\ s[k].id \in Int
    <3>1. k \in 1..Len(s)
      BY <2>1, LenProperties
    <3>2. s[k] \in SignalSet
      BY <3>1, ElementOfSeq
    <3>. QED
      BY <3>1, <3>2 DEF SignalSet
  <2>4. CASE id >= 0
    <3>1. /\ \A k \in 1..(i - 1) : s[k].id < id
          /\ id \in 1..Len(done) /\ s[i].button = done[id][1]
          /\ s[i].button \in Plain => s[i].down = done[id][2]
      BY <2>1, <2>2, <2>4 DEF InputInv, Given
    <3>2. id > 0
      BY <3>1
    <3>. QED
      BY <2>1, <2>2, <3>1, <3>2
  <2>5. CASE id < 0
    <3>1. -cuts <= id /\ \A k \in 1..(i - 1) : id < s[k].id
      BY <2>1, <2>2, <2>5 DEF InputInv, Numbered
    <3>2. -id <= cuts
      BY <3>1 DEF InputInv, InputTypeOK
    <3>3. \A k \in 1..(i - 1) : s[k].id > id
      BY <2>3, <3>1
    <3>. QED
      BY <2>1, <2>2, <2>5, <3>2, <3>3
  <2>. QED
    BY <2>2, <2>4, <2>5
<1>. QED
  BY <1>1, InputSound, PTL

\* As long as nothing is lost the signals are what the joystick did
\* (MirrorsJoystick).
THEOREM JoystickMirrored == InputSpec => []MirrorsJoystick
<1>1. InputInv => MirrorsJoystick
  <2>. SUFFICES ASSUME InputInv, ~lost PROVE
         /\ IsPrefix(Emitted, done)
         /\ wire = <<>> =>
              /\ Emitted = done
              /\ decoder.Lpressed = (L \in pressed) /\ decoder.Rpressed = (R \in pressed)
    BY DEF MirrorsJoystick
  <2>0. InputTypeOK /\ Given(decoder) /\ ByTurns /\ Remaining(decoder, 0)
    BY DEF InputInv
  <2>1. PICK s \in Seq(SignalSet), n \in Nat, c \in Nat : s = decoder.emitted /\ n = Len(s) /\ c = Len(done)
    BY <2>0, LenProperties DEF InputTypeOK, DecoderSet
  <2>2. \A i \in 1..n : s[i].id = i /\ done[i] = <<s[i].button, s[i].down>> /\ i \in 1..c
    <3>1. ASSUME NEW i \in 1..n PROVE s[i].id = i /\ done[i] = <<s[i].button, s[i].down>>
      BY <2>0, <2>1 DEF Given
    <3>2. ASSUME NEW i \in 1..n PROVE i \in 1..c
      <4>1. s[i].id = i /\ i >= 0
        BY <3>1
      <4>. QED
        BY <2>0, <2>1, <4>1 DEF Given
    <3>. QED
      BY <3>1, <3>2
  <2>3. n <= c
    <3>1. CASE n = 0
      BY <3>1
    <3>2. CASE n > 0
      <4>1. n \in 1..n
        BY <3>2
      <4>. QED
        BY <2>2, <4>1
    <3>. QED
      BY <3>1, <3>2
  <2>4. PICK t : t = Emitted
    OBVIOUS
  <2>5. t = [i \in 1..n |-> <<s[i].button, s[i].down>>]
    BY <2>1, <2>4, LenProperties DEF Emitted
  <2>6. \A i \in 1..n : t[i] = done[i]
    BY <2>2, <2>5
  <2>7. \A i \in 1..n : done[i] \in Buttons \X BOOLEAN
    BY <2>0, <2>1, <2>2, ElementOfSeq DEF InputTypeOK
  <2>8. t \in [1..n -> Buttons \X BOOLEAN]
    BY <2>5, <2>6, <2>7
  <2>9. t \in Seq(Buttons \X BOOLEAN) /\ Len(t) = n
    BY <2>8, SeqDef, LenProperties
  <2>10. IsPrefix(t, done)
    <3>1. SubSeq(t, 1, Len(t)) = SubSeq(done, 1, Len(t))
      BY <2>0, <2>1, <2>3, <2>6, <2>9 DEF InputTypeOK
    <3>. QED
      BY <2>1, <2>3, <2>9, <3>1 DEF IsPrefix
  <2>11. ASSUME wire = <<>>
         PROVE  t = done /\ decoder.Lpressed = (L \in pressed) /\ decoder.Rpressed = (R \in pressed)
    <3>1. n = c
      <4>1. ASSUME n < c PROVE FALSE
        <5>1. Len(wire) = 0
          BY <2>11
        <5>2. c \in 1..Len(done) /\ c > Len(decoder.emitted)
          BY <2>1, <4>1
        <5>. QED
          BY <2>0, <5>1, <5>2 DEF Remaining
      <4>. QED
        BY <2>3, <4>1
    <3>2. t = done
      BY <2>0, <2>1, <2>6, <2>9, <3>1, SeqEqual DEF InputTypeOK
    <3>3. decoder.Lpressed = Held(done, L, c) /\ decoder.Rpressed = Held(done, R, c)
      BY <2>0, <2>1, <3>1 DEF Given
    <3>4. (L \in pressed <=> Held(done, L, c)) /\ (R \in pressed <=> Held(done, R, c))
      BY <2>0, <2>1 DEF ByTurns, Buttons, Shoulders
    <3>5. Held(done, L, c) \in BOOLEAN /\ Held(done, R, c) \in BOOLEAN
      BY DEF Held
    <3>. QED
      BY <3>2, <3>3, <3>4, <3>5
  <2>. QED
    BY <2>4, <2>10, <2>11
<1>. QED
  BY <1>1, InputSound, PTL
=============================================================================
