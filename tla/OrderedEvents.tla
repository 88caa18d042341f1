---------------------------- MODULE OrderedEvents ----------------------------
(***************************************************************************)
(* What an event queue of the scheduler promises to its clients: a set of  *)
(* queued events, delivered one at a time in the order of the key          *)
(* (time, phase, insertion number) of scheduler/events.py.  There is no    *)
(* heap and no lazy deletion here: cancelling takes the event out.         *)
(***************************************************************************)
EXTENDS EventOrder

CONSTANT Time              \* the event times clients use, a set of naturals

Event == [time : Time, phase : EventPhase, seq : Nat]

VARIABLES live,            \* the queued events
          nextSeq,         \* insertion number of the next event
          answer           \* whether the last operation was a delivery, and
                           \* the event delivered, if there was one

NoDelivery == [popped |-> FALSE, events |-> {}]
Delivery(S) == [popped |-> TRUE, events |-> S]

Init == live = {} /\ nextSeq = 0 /\ answer = NoDelivery

Push(t, p) ==
  /\ live' = live \cup {[time |-> t, phase |-> p, seq |-> nextSeq]}
  /\ nextSeq' = nextSeq + 1
  /\ answer' = NoDelivery

Withdraw(e) ==
  /\ live' = live \ {e}
  /\ answer' = NoDelivery
  /\ UNCHANGED nextSeq

(* The event to withdraw was not queued any more. *)
WithdrawNone == answer' = NoDelivery /\ UNCHANGED <<live, nextSeq>>

Deliver(e) ==
  /\ IsFirst(e, live)
  /\ live' = live \ {e}
  /\ answer' = Delivery({e})
  /\ UNCHANGED nextSeq

DeliverNone ==
  /\ live = {}
  /\ answer' = Delivery({})
  /\ UNCHANGED <<live, nextSeq>>

Clear == live' = {} /\ answer' = NoDelivery /\ UNCHANGED nextSeq

Next ==
  \/ \E t \in Time, p \in EventPhase : Push(t, p)
  \/ \E e \in live : Withdraw(e) \/ Deliver(e)
  \/ WithdrawNone
  \/ DeliverNone
  \/ Clear

Spec == Init /\ [][Next]_<<live, nextSeq, answer>>
=============================================================================
