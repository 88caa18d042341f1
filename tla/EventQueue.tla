------------------------------ MODULE EventQueue ------------------------------
(***************************************************************************)
(* The EventQueue class of sim/scheduler/events.py: a binary heap with     *)
(* lazy deletion.  cancel only notes the insertion number of an event in   *)
(* _cancelled; pop throws noted events away when they reach the top.       *)
(*                                                                         *)
(* The heap is the set of its events (heapq keeps the least key on top and *)
(* insertion numbers make keys distinct); payloads are opaque and left     *)
(* out.  Clients keep the Event objects push returned and may pass any of  *)
(* them to cancel, at any later time: `issued` is the set of those objects.*)
(***************************************************************************)
EXTENDS EventOrder, FiniteSets

CONSTANTS Time,            \* the event times clients use
          MaxEvents        \* bound on pushes

ASSUME EventQueueAssumption ==
  /\ Time \subseteq Nat
  /\ MaxEvents \in Nat

VARIABLES heap,            \* _heap
          cancelled,       \* _cancelled: insertion numbers
          nextSeq,         \* _seq
          issued,          \* every event push has returned
          result,          \* what the last operation returned
          strays           \* history: numbers cancelled after their event
                           \* had left the heap

vars == <<heap, cancelled, nextSeq, issued, result, strays>>

(* The events peek, pop and iteration can still see. *)
Live == {e \in heap : e.seq \notin cancelled}

(* What the last operation returned, as far as pop is concerned. *)
Answer ==
  [popped |-> result.kind = "popped",
   events |-> IF result.kind = "popped" THEN result.events ELSE {}]

Abstract == INSTANCE OrderedEvents WITH live <- Live, answer <- Answer

Event == Abstract!Event

(* __len__ *)
Len == Cardinality(heap) - Cardinality(cancelled)

(* No operation yet, or clear, which returns nothing. *)
None == [kind |-> "none"]

Init ==
  /\ heap = {} /\ cancelled = {} /\ nextSeq = 0
  /\ issued = {} /\ result = None /\ strays = {}

(***************************************************************************)
(* Operations.                                                             *)
(***************************************************************************)
Push(t, p) ==
  /\ nextSeq < MaxEvents
  /\ LET e == [time |-> t, phase |-> p, seq |-> nextSeq]
     IN  /\ heap' = heap \cup {e}
         /\ issued' = issued \cup {e}
         /\ result' = [kind |-> "pushed", event |-> e]
  /\ nextSeq' = nextSeq + 1
  /\ UNCHANGED <<cancelled, strays>>

Cancel(e) ==
  /\ cancelled' = cancelled \cup {e.seq}
  /\ result' = [kind |-> "cancel", event |-> e, ok |-> e.seq \notin cancelled]
  /\ strays' = IF e \in heap THEN strays ELSE strays \cup {e.seq}
  /\ UNCHANGED <<heap, nextSeq, issued>>

(* Faulty: noted events are delivered like the others. *)
PopAny(e) ==
  /\ IsFirst(e, heap)
  /\ heap' = heap \ {e}
  /\ result' = [kind |-> "popped", events |-> {e}]
  /\ UNCHANGED <<cancelled, nextSeq, issued, strays>>

(* Faulty: the numbers of discarded events stay noted. *)
PopKeepingNotes(e) ==
  /\ IsFirst(e, Live)
  /\ heap' = {f \in heap : Before(e, f)}
  /\ result' = [kind |-> "popped", events |-> {e}]
  /\ UNCHANGED <<cancelled, nextSeq, issued, strays>>

(* Discard noted events from the top; the first other event is returned. *)
Pop(e) ==
  /\ IsFirst(e, Live)
  /\ heap' = {f \in heap : Before(e, f)}
  /\ cancelled' = cancelled \ {f.seq : f \in {g \in heap : Before(g, e)}}
  /\ result' = [kind |-> "popped", events |-> {e}]
  /\ UNCHANGED <<nextSeq, issued, strays>>

PopEmpty ==
  /\ Live = {}
  /\ heap' = {}
  /\ cancelled' = cancelled \ {f.seq : f \in heap}
  /\ result' = [kind |-> "popped", events |-> {}]
  /\ UNCHANGED <<nextSeq, issued, strays>>

Clear ==
  /\ heap' = {} /\ cancelled' = {} /\ strays' = {}
  /\ result' = None
  /\ UNCHANGED <<nextSeq, issued>>

Next ==
  \/ \E t \in Time, p \in EventPhase : Push(t, p)
  \/ \E e \in issued : Cancel(e)
  \/ \E e \in heap : Pop(e)
  \/ PopEmpty
  \/ Clear

Spec == Init /\ [][Next]_vars

(***************************************************************************)
(* Properties.                                                             *)
(***************************************************************************)
(* Types: the heap holds events push returned, with fresh numbers. *)
TypeOK ==
  /\ heap \subseteq issued
  /\ issued \subseteq Event
  /\ nextSeq \in Nat
  /\ cancelled \subseteq 0 .. nextSeq - 1 /\ strays \subseteq 0 .. nextSeq - 1
  /\ \A e \in issued : e.seq < nextSeq

(* Insertion numbers identify events for the life of the queue, so that    *)
(* events.py's key (time, phase, seq) is a total order and noting a number *)
(* in _cancelled can never suppress another event, pushed later.           *)
UniqueSeq == \A e, f \in issued : e.seq = f.seq => e = f

(* __len__ counts the events that iteration shows and pop can return, less *)
(* one for each event that was cancelled after it had left the heap (which *)
(* cancel reports as a success): pop and clear leave no other number in    *)
(* _cancelled without its event.  It is exact for clients that cancel only *)
(* queued events.                                                          *)
LenCountsLive == Len = Cardinality(Live) - Cardinality(strays)

(* Lazy deletion is invisible: the queue behaves as a set of queued events *)
(* from which cancel removes, pop returns the least key of the rest, and   *)
(* None only when nothing is left.                                         *)
ImplementsOrderedEvents == Abstract!Spec
=============================================================================
