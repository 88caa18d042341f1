------------------------------ MODULE EventOrder ------------------------------
(***************************************************************************)
(* The delivery order of sim/scheduler/events.py: events are keyed by      *)
(* (time, phase, insertion number), and phases order the events of one     *)
(* timestamp, releases first and dispatches last.                          *)
(***************************************************************************)
EXTENDS Integers

RELEASE  == 0
ARRIVAL  == 1
TIMER    == 2
DISPATCH == 3
EventPhase == {RELEASE, ARRIVAL, TIMER, DISPATCH}

(* event_key: strict lexicographic order on (time, phase, seq). *)
Before(e, f) ==
  \/ e.time < f.time
  \/ e.time = f.time /\ e.phase < f.phase
  \/ e.time = f.time /\ e.phase = f.phase /\ e.seq < f.seq

(* e is the event to deliver next out of the queued events S. *)
IsFirst(e, S) == e \in S /\ \A f \in S \ {e} : Before(e, f)
=============================================================================
