---------------------------- MODULE CommandQueue ----------------------------
(***************************************************************************)
(* What QFtp promises: the commands are started one at a time and in their *)
(* order, each is reported started and then finished, once, and a command  *)
(* that is dropped from the queue is never heard of.                       *)
(***************************************************************************)
EXTENDS Integers, Sequences

CONSTANT Ids   \* the identifiers of commands, given in order

VARIABLES
  queue,    \* commands added and not yet removed
  last,     \* the last identifier given
  signals   \* what was reported

Report(what, id) == [what |-> what, id |-> id]
Reported(what, id) == signals # <<>> /\ signals[Len(signals)] = Report(what, id)

Init == queue = <<>> /\ last = 0 /\ signals = <<>>

Add == /\ last + 1 \in Ids
       /\ last' = last + 1 /\ queue' = Append(queue, last + 1) /\ UNCHANGED signals

Start == /\ queue # <<>>
         /\ ~Reported("started", Head(queue)) /\ ~Reported("finished", Head(queue))
         /\ signals' = Append(signals, Report("started", Head(queue)))
         /\ UNCHANGED <<queue, last>>

\* A command that fails takes those behind it along.
Finish == /\ queue # <<>> /\ Reported("started", Head(queue))
          /\ signals' = Append(signals, Report("finished", Head(queue)))
          /\ queue' \in {queue, SubSeq(queue, 1, 1)} /\ UNCHANGED last

Remove == /\ queue # <<>> /\ Reported("finished", Head(queue))
          /\ queue' = Tail(queue) /\ UNCHANGED <<last, signals>>

Clear == queue # <<>> /\ queue' = SubSeq(queue, 1, 1) /\ UNCHANGED <<last, signals>>

Next == Add \/ Start \/ Finish \/ Remove \/ Clear
Spec == Init /\ [][Next]_<<queue, last, signals>>
=============================================================================
