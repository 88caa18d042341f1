--------------------------- MODULE EventQueueProofs ---------------------------
(***************************************************************************)
(* For every set of times and every bound: the heap with lazy deletion of  *)
(* sim/scheduler/events.py implements the set of queued events that        *)
(* OrderedEvents specifies.                                                *)
(***************************************************************************)
EXTENDS EventQueue, FiniteSetTheorems, TLAPS

(* The inductive invariant: types, and numbers that identify events. *)
IInv == TypeOK /\ UniqueSeq

LEMMA InitIInv == Init => IInv
BY DEF Init, IInv, TypeOK, UniqueSeq

(* The queue and its specification share the order of EventOrder. *)
LEMMA SamePhases == Abstract!EventPhase = EventPhase /\ EventPhase \subseteq Nat
BY DEF Abstract!EventPhase, Abstract!RELEASE, Abstract!ARRIVAL,
       Abstract!TIMER, Abstract!DISPATCH,
       EventPhase, RELEASE, ARRIVAL, TIMER, DISPATCH

(* The key order is irreflexive and transitive on events; two events with  *)
(* different numbers are always ordered.                                   *)
LEMMA BeforeIsOrder ==
  ASSUME NEW e \in Event, NEW f \in Event, NEW g \in Event
  PROVE  /\ ~ Before(e, e)
         /\ Before(e, f) /\ Before(f, g) => Before(e, g)
         /\ Before(e, f) => ~ Before(f, e)
         /\ e.seq # f.seq => Before(e, f) \/ Before(f, e)
<1>1. \A x \in Event : x.time \in Nat /\ x.phase \in Nat /\ x.seq \in Nat
  BY SamePhases, EventQueueAssumption DEF Event, Abstract!Event
<1>2. /\ e.time \in Nat /\ f.time \in Nat /\ g.time \in Nat
      /\ e.phase \in Nat /\ f.phase \in Nat /\ g.phase \in Nat
      /\ e.seq \in Nat /\ f.seq \in Nat /\ g.seq \in Nat
  BY <1>1
<1>3. QED
  BY <1>2 DEF Before

LEMMA NextIInv == IInv /\ [Next]_vars => IInv'
<1> SUFFICES ASSUME IInv, [Next]_vars PROVE IInv'
  OBVIOUS
<1> USE DEF IInv, TypeOK, UniqueSeq
<1>1. ASSUME NEW t \in Time, NEW p \in EventPhase, Push(t, p)
      PROVE  IInv'
  <2> DEFINE e == [time |-> t, phase |-> p, seq |-> nextSeq]
  <2>1. e \in Event /\ e.seq = nextSeq
    BY SamePhases DEF Event, Abstract!Event
  <2>2. /\ heap' = heap \cup {e} /\ issued' = issued \cup {e}
        /\ nextSeq' = nextSeq + 1 /\ cancelled' = cancelled
        /\ strays' = strays
    BY <1>1 DEF Push
  <2>3. TypeOK'
    <3>1. heap' \subseteq issued' /\ issued' \subseteq Event
      BY <2>1, <2>2
    <3>2. /\ nextSeq' \in Nat /\ cancelled' \subseteq 0 .. nextSeq' - 1
          /\ strays' \subseteq 0 .. nextSeq' - 1
      BY <2>2
    <3>3. \A f \in issued : f.seq \in Nat
      BY DEF Event, Abstract!Event
    <3>4. \A f \in issued' : f.seq < nextSeq'
      BY <2>1, <2>2, <3>3
    <3>5. QED
      BY <3>1, <3>2, <3>4
  <2>4. \A f \in issued : f.seq # nextSeq
    <3> TAKE f \in issued
    <3>1. f.seq \in Nat /\ f.seq < nextSeq
      BY DEF Event, Abstract!Event
    <3>2. QED
      BY <3>1
  <2>5. UniqueSeq'
    BY <2>1, <2>2, <2>4
  <2>6. QED
    BY <2>3, <2>5
<1>2. ASSUME NEW e \in issued, Cancel(e) PROVE IInv'
  <2>1. e.seq \in 0 .. nextSeq - 1
    BY DEF Event, Abstract!Event
  <2>2. QED
    BY <1>2, <2>1 DEF Cancel
<1>3. ASSUME NEW e \in heap, Pop(e) PROVE IInv'
  BY <1>3 DEF Pop
<1>4. CASE PopEmpty
  BY <1>4 DEF PopEmpty
<1>5. CASE Clear
  BY <1>5 DEF Clear
<1>6. CASE UNCHANGED vars
  BY <1>6 DEF vars
<1>7. QED
  BY <1>1, <1>2, <1>3, <1>4, <1>5, <1>6 DEF Next

(* The types of the queue, and unique insertion numbers, for any clients. *)
THEOREM TypeCorrect == Spec => [](TypeOK /\ UniqueSeq)
BY InitIInv, NextIInv, PTL DEF Spec, IInv

-----------------------------------------------------------------------------
(* How the noted numbers divide: each number in _cancelled is that of an   *)
(* event in the heap, or a stray, whose event left before it was cancelled.*)
Accounts ==
  /\ IsFiniteSet(heap)
  /\ strays \subseteq cancelled
  /\ \A e \in heap : e.seq \notin strays
  /\ \A n \in cancelled : n \in strays \/ \E e \in heap : e.seq = n

LEMMA InitAccounts == Init => Accounts
BY FS_EmptySet DEF Init, Accounts

LEMMA PopAccounts ==
  ASSUME IInv, Accounts, NEW e \in heap, Pop(e)
  PROVE  Accounts'
<1>1. e \in Live /\ \A f \in Live \ {e} : Before(e, f)
  BY DEF Pop, IsFirst
<1>2. /\ heap' = {f \in heap : Before(e, f)}
      /\ cancelled' = cancelled \ {f.seq : f \in {g \in heap : Before(g, e)}}
      /\ strays' = strays
  BY DEF Pop
<1>3. IsFiniteSet(heap')
  BY <1>2, FS_Subset DEF Accounts
<1>4. strays' \subseteq cancelled' /\ \A f \in heap' : f.seq \notin strays'
  BY <1>2 DEF Accounts
<1>5. ASSUME NEW n \in cancelled', n \notin strays
      PROVE  \E f \in heap' : f.seq = n
  <2>1. PICK f \in heap : f.seq = n
    BY <1>2, <1>5 DEF Accounts
  <2>2. ~ Before(f, e)
    BY <1>2, <2>1
  <2>3. f.seq # e.seq
    BY <1>1, <1>2, <2>1 DEF Live
  <2>4. e \in Event /\ f \in Event
    BY DEF IInv, TypeOK
  <2>5. Before(e, f)
    BY <2>2, <2>3, <2>4, BeforeIsOrder
  <2>6. QED
    BY <1>2, <2>1, <2>5
<1>6. QED
  BY <1>2, <1>3, <1>4, <1>5 DEF Accounts

LEMMA NextAccounts == IInv /\ Accounts /\ [Next]_vars => Accounts'
<1> SUFFICES ASSUME IInv, Accounts, [Next]_vars PROVE Accounts'
  OBVIOUS
<1>1. ASSUME NEW t \in Time, NEW p \in EventPhase, Push(t, p)
      PROVE  Accounts'
  <2> DEFINE e == [time |-> t, phase |-> p, seq |-> nextSeq]
  <2>1. heap' = heap \cup {e} /\ cancelled' = cancelled /\ strays' = strays
    BY <1>1 DEF Push
  <2>2. IsFiniteSet(heap')
    BY <2>1, FS_AddElement DEF Accounts
  <2>3. e.seq \notin strays
    BY DEF IInv, TypeOK
  <2>4. QED
    BY <2>1, <2>2, <2>3 DEF Accounts
<1>2. ASSUME NEW e \in issued, Cancel(e) PROVE Accounts'
  <2>1. \A f \in heap : f # e => f.seq # e.seq
    BY DEF IInv, TypeOK, UniqueSeq
  <2>2. QED
    BY <1>2, <2>1 DEF Cancel, Accounts
<1>3. ASSUME NEW e \in heap, Pop(e) PROVE Accounts'
  BY <1>3, PopAccounts
<1>4. CASE PopEmpty
  BY <1>4, FS_EmptySet DEF PopEmpty, Accounts
<1>5. CASE Clear
  BY <1>5, FS_EmptySet DEF Clear, Accounts
<1>6. CASE UNCHANGED vars
  BY <1>6 DEF vars, Accounts
<1>7. QED
  BY <1>1, <1>2, <1>3, <1>4, <1>5, <1>6 DEF Next

LEMMA AccountsGiveLen == IInv /\ Accounts => LenCountsLive
<1> SUFFICES ASSUME IInv, Accounts PROVE LenCountsLive
  OBVIOUS
<1> DEFINE noted == heap \ Live
           numbers == {e.seq : e \in noted}
           seqOf == [e \in noted |-> e.seq]
<1>1. IsFiniteSet(noted) /\ IsFiniteSet(Live) /\ IsFiniteSet(heap)
  BY FS_Subset DEF Accounts, Live
<1>2. \A e, f \in noted : e.seq = f.seq => e = f
  BY DEF IInv, TypeOK, UniqueSeq
<1>3. seqOf \in Bijection(noted, numbers)
  BY <1>2 DEF Bijection, Injection, IsInjective, Surjection
<1>4. IsFiniteSet(numbers) /\ Cardinality(numbers) = Cardinality(noted)
  BY <1>1, <1>3, FS_Bijection DEF ExistsBijection
<1>5. cancelled = strays \cup numbers /\ strays \cap numbers = {}
  BY DEF Accounts, Live
<1>6. IsFiniteSet(cancelled) /\ IsFiniteSet(strays)
  <2>1. cancelled \in SUBSET (0 .. nextSeq - 1)
    BY DEF IInv, TypeOK
  <2>2. IsFiniteSet(0 .. nextSeq - 1)
    BY FS_Interval DEF IInv, TypeOK
  <2>3. IsFiniteSet(cancelled)
    BY <2>1, <2>2, FS_Subset
  <2>4. QED
    BY <2>3, <1>5, FS_Subset
<1>7. Cardinality(cancelled) = Cardinality(strays) + Cardinality(noted)
  <2>1. Cardinality(strays \cup numbers)
          = Cardinality(strays) + Cardinality(numbers) - Cardinality({})
    BY <1>4, <1>5, <1>6, FS_Union
  <2>2. Cardinality({}) = 0
    BY FS_EmptySet
  <2>3. Cardinality(strays) \in Int /\ Cardinality(numbers) \in Int
    BY <1>4, <1>6, FS_CardinalityType
  <2>4. QED
    BY <1>4, <1>5, <2>1, <2>2, <2>3
<1>8. Cardinality(noted) = Cardinality(heap) - Cardinality(Live)
  <2>1. heap \cap Live = Live
    BY DEF Live
  <2>2. QED
    BY <1>1, <2>1, FS_Difference
<1>9. /\ Cardinality(heap) \in Int /\ Cardinality(Live) \in Int
      /\ Cardinality(noted) \in Int /\ Cardinality(strays) \in Int
      /\ Cardinality(cancelled) \in Int
  BY <1>1, <1>6, FS_CardinalityType
<1>10. QED
  BY <1>7, <1>8, <1>9 DEF LenCountsLive, Len

(* For any clients, __len__ is the number of events that can still be      *)
(* popped, less the events cancelled after they had left the queue: pop    *)
(* and clear never leave a number noted without its event.                 *)
THEOREM LenCounts == Spec => []LenCountsLive
<1>1. Init => IInv /\ Accounts
  BY InitIInv, InitAccounts
<1>2. IInv /\ Accounts /\ [Next]_vars => (IInv /\ Accounts)'
  BY NextIInv, NextAccounts
<1>3. IInv /\ Accounts => LenCountsLive
  BY AccountsGiveLen
<1>4. QED
  BY <1>1, <1>2, <1>3, PTL DEF Spec

-----------------------------------------------------------------------------
(* Every operation of the heap is one operation on the queued events.      *)
LEMMA PushRefines ==
  ASSUME IInv, NEW t \in Time, NEW p \in EventPhase, Push(t, p)
  PROVE  Abstract!Push(t, p)
<1> DEFINE e == [time |-> t, phase |-> p, seq |-> nextSeq]
<1>1. heap' = heap \cup {e} /\ cancelled' = cancelled /\ nextSeq' = nextSeq + 1
  BY DEF Push
<1>2. e.seq \notin cancelled
  BY DEF IInv, TypeOK
<1>3. Live' = Live \cup {e}
  BY <1>1, <1>2 DEF Live
<1>4. Answer' = Abstract!NoDelivery
  BY DEF Push, Answer, Abstract!NoDelivery
<1>5. QED
  BY <1>1, <1>3, <1>4 DEF Abstract!Push

LEMMA CancelRefines ==
  ASSUME IInv, NEW e \in issued, Cancel(e)
  PROVE  (e \in Live /\ Abstract!Withdraw(e)) \/ Abstract!WithdrawNone
<1>1. heap' = heap /\ cancelled' = cancelled \cup {e.seq} /\ nextSeq' = nextSeq
  BY DEF Cancel
<1>2. Live' = Live \ {e}
  BY <1>1 DEF Live, IInv, TypeOK, UniqueSeq
<1>3. Answer' = Abstract!NoDelivery
  BY DEF Cancel, Answer, Abstract!NoDelivery
<1>4. QED
  BY <1>1, <1>2, <1>3 DEF Abstract!Withdraw, Abstract!WithdrawNone

LEMMA PopRefines ==
  ASSUME IInv, NEW e \in heap, Pop(e)
  PROVE  e \in Live /\ Abstract!Deliver(e)
<1>1. e \in Live /\ \A f \in Live \ {e} : Before(e, f)
  BY DEF Pop, IsFirst
<1>2. /\ heap' = {f \in heap : Before(e, f)}
      /\ cancelled' = cancelled \ {f.seq : f \in {g \in heap : Before(g, e)}}
      /\ nextSeq' = nextSeq
  BY DEF Pop
<1>3. \A f \in heap : f \in Event
  BY DEF IInv, TypeOK
<1>4. ASSUME NEW f \in Live' PROVE f \in Live \ {e}
  <2>1. f \in heap /\ Before(e, f)
    BY <1>2 DEF Live
  <2>2. f # e
    BY <1>3, <2>1, BeforeIsOrder
  <2>3. \A g \in heap : Before(g, e) => g.seq # f.seq
    BY <1>3, <2>1, BeforeIsOrder DEF IInv, TypeOK, UniqueSeq
  <2>4. f.seq \notin cancelled
    BY <1>2, <2>3 DEF Live
  <2>5. QED
    BY <2>1, <2>2, <2>4 DEF Live
<1>5. ASSUME NEW f \in Live \ {e} PROVE f \in Live'
  BY <1>1, <1>2 DEF Live
<1>6. Live' = Live \ {e}
  BY <1>4, <1>5
<1>7. Answer' = Abstract!Delivery({e})
  BY DEF Pop, Answer, Abstract!Delivery
<1>8. QED
  BY <1>1, <1>2, <1>6, <1>7
     DEF Abstract!Deliver, Abstract!IsFirst, Abstract!Before, Before

LEMMA PopEmptyRefines ==
  ASSUME IInv, PopEmpty
  PROVE  Abstract!DeliverNone
BY DEF PopEmpty, Live, Answer, Abstract!DeliverNone, Abstract!Delivery

LEMMA ClearRefines ==
  ASSUME IInv, Clear
  PROVE  Abstract!Clear
BY DEF Clear, Live, Answer, None, Abstract!Clear, Abstract!NoDelivery

LEMMA StepRefines ==
  IInv /\ [Next]_vars => [Abstract!Next]_<<Live, nextSeq, Answer>>
<1> SUFFICES ASSUME IInv, [Next]_vars
             PROVE  [Abstract!Next]_<<Live, nextSeq, Answer>>
  OBVIOUS
<1>1. ASSUME NEW t \in Time, NEW p \in EventPhase, Push(t, p)
      PROVE  Abstract!Next
  BY <1>1, PushRefines, SamePhases DEF Abstract!Next
<1>2. ASSUME NEW e \in issued, Cancel(e)
      PROVE  Abstract!Next
  BY <1>2, CancelRefines DEF Abstract!Next
<1>3. ASSUME NEW e \in heap, Pop(e) PROVE Abstract!Next
  BY <1>3, PopRefines DEF Abstract!Next
<1>4. ASSUME PopEmpty PROVE Abstract!Next
  BY <1>4, PopEmptyRefines DEF Abstract!Next
<1>5. ASSUME Clear PROVE Abstract!Next
  BY <1>5, ClearRefines DEF Abstract!Next
<1>6. CASE UNCHANGED vars
  BY <1>6 DEF vars, Live, Answer
<1>7. QED
  BY <1>1, <1>2, <1>3, <1>4, <1>5, <1>6 DEF Next

(* The refinement, the property ImplementsOrderedEvents of the runs: with  *)
(* any clients, even those that cancel events long gone, the lazy heap     *)
(* delivers exactly what the set of queued events would.                   *)
THEOREM QueueImplementsOrderedEvents == Spec => ImplementsOrderedEvents
<1>1. ASSUME Init PROVE Abstract!Init
  <2>1. result.kind = "none"
    BY <1>1 DEF Init, None
  <2>2. Answer = Abstract!NoDelivery
    BY <2>1 DEF Answer, Abstract!NoDelivery
  <2>3. Live = {}
    BY <1>1 DEF Init, Live
  <2>4. QED
    BY <1>1, <2>2, <2>3 DEF Init, Abstract!Init
<1>2. QED
  BY <1>1, InitIInv, NextIInv, StepRefines, PTL
     DEF Spec, Abstract!Spec, ImplementsOrderedEvents
=============================================================================
