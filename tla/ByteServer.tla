----------------------------- MODULE ByteServer ----------------------------
(***************************************************************************)
(* The ByteServer of sim/scheduler/resources.py: it promises every member  *)
(* a completion time and revises all promises when its membership changes. *)
(* The caller supplies the time of each call.                              *)
(***************************************************************************)
EXTENDS Integers, FiniteSets, Functions

CONSTANTS Members,   \* member ids, numbers: ties are broken by id
          Bandwidth, \* bytes per time unit of the server
          Bytes, Priorities,
          MaxTime    \* bound on the callers' clock

ServerAssumption ==
  /\ Members \subseteq Int /\ Bandwidth \in Nat \ {0} /\ Bytes \subseteq Nat
  /\ Priorities \subseteq Int /\ MaxTime \in Nat

VARIABLES server,    \* _members: id -> bytes, priority, completion
          mode,      \* qos_mode
          at,        \* time of the last recomputation
          now        \* time of the caller

vars == <<server, mode, at, now>>

CeilDiv(a,b) == (a + b - 1) \div b
Without(f,m) == [x \in DOMAIN f \ {m} |-> f[x]]
With(f,m,v)  == [x \in DOMAIN f \cup {m} |-> IF x = m THEN v ELSE f[x]]

Init ==
  /\ server = [m \in {} |-> 0] /\ mode \in {"equal_share", "strict_priority"}
  /\ at = 0 /\ now = 0

(* Faulty: the order of the ids alone decides. *)
AheadById(members, m) == {k \in DOMAIN members : k <= m}

(* The members served before m under strict priority, and m itself. *)
Ahead(members, m) ==
  {k \in DOMAIN members : \/ members[k].priority > members[m].priority
                          \/ members[k].priority = members[m].priority /\ k <= m}

(* The time until m is done: its bytes over its share, or the whole         *)
(* bandwidth once all members ahead of it are done.                        *)
Duration(members, m) ==
  IF mode = "equal_share" THEN CeilDiv(members[m].bytes * Cardinality(DOMAIN members), Bandwidth)
  ELSE SumFunctionOnSet([k \in DOMAIN members |-> CeilDiv(members[k].bytes, Bandwidth)],
                        Ahead(members, m))

(* ByteServer._recompute: the promises of all members, counted from now. *)
Recompute(members) ==
  /\ server' = [m \in DOMAIN members |-> [members[m] EXCEPT !.done = now + Duration(members, m)]]
  /\ at' = IF members = [m \in {} |-> 0] THEN at ELSE now
  /\ UNCHANGED <<mode, now>>

AddMember(m, bytes, priority) ==
  Recompute(With(server, m, [bytes |-> bytes, priority |-> priority, done |-> 0]))

RemoveMember(m) == m \in DOMAIN server /\ Recompute(Without(server, m))

UpdateBytes(m, bytes) ==
  m \in DOMAIN server /\ Recompute([server EXCEPT ![m].bytes = bytes])

Clear == server' = [m \in {} |-> 0] /\ UNCHANGED <<mode, at, now>>

Tick == now < MaxTime /\ now' = now + 1 /\ UNCHANGED <<server, mode, at>>

Next ==
  \/ \E m \in Members, b \in Bytes : UpdateBytes(m, b) \/ \E p \in Priorities : AddMember(m, b, p)
  \/ \E m \in Members : RemoveMember(m)
  \/ Clear \/ Tick

Spec == Init /\ [][Next]_vars
----------------------------------------------------------------------------
TypeOK ==
  /\ \A m \in DOMAIN server : server[m].bytes \in Bytes /\ server[m].done >= at
  /\ at <= now

(* The promises can be kept: up to the completion of any member the server *)
(* has time to send the bytes of all members done by then.                 *)
PromisesFitBandwidth ==
  \A m \in DOMAIN server :
    SumFunctionOnSet([k \in DOMAIN server |-> server[k].bytes],
                     {k \in DOMAIN server : server[k].done <= server[m].done})
      <= Bandwidth * (server[m].done - at)

(* Under strict priority a newcomer does not delay a member of higher       *)
(* priority.                                                               *)
NewcomerStep ==
  mode = "strict_priority" /\ at' = at /\ DOMAIN server \subseteq DOMAIN server' =>
    \A n \in DOMAIN server' \ DOMAIN server, k \in DOMAIN server :
      server'[k].priority > server'[n].priority => server'[k].done <= server[k].done
NewcomerDelaysNobodyAhead == [][NewcomerStep]_vars
============================================================================
