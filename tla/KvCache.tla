------------------------------ MODULE KvCache ------------------------------
(***************************************************************************)
(* From a configuration to the tiers of the memory hierarchy, and the      *)
(* cache of keys and values on top of it: a window of the newest tokens of *)
(* a layer in SRAM, the older ones behind random accesses to the fastest   *)
(* tier the plan keeps any of them in.  Bandwidths are bytes per cycle.    *)
(***************************************************************************)
EXTENDS Integers, Sequences, SequencesExt, FiniteSetsExt

CONSTANTS
    Configs,       \* configurations: see Init
    TokenValues,   \* values a token has in one layer, num_kv_heads * head_dim * 2
    Layers,        \* the numbers of layers
    MaxContext,
    SramBw,        \* bandwidth of SRAM
    Hit,           \* cycles of an access that hits
    MaxTokens      \* bound: tokens decoded

CacheAssumption ==
    /\ \A c \in Configs :
          /\ {c.onchip_bw, c.bw, c.random} \subseteq Nat \ {0}
          /\ {c.sram, c.onchip, c.capacity, c.penalty, c.bits, c.kv_sram, c.region} \subseteq Nat
    /\ TokenValues \subseteq Nat \ {0} /\ Layers \subseteq Nat \ {0}
    /\ MaxContext \in Nat /\ SramBw \in Nat \ {0} /\ Hit \in Nat /\ MaxTokens \in Nat

VARIABLES
    config,  \* config
    tiers,   \* MemoryHierarchy.tiers
    plan,    \* tiers the plan keeps keys and values in; {"no plan"} without one
    cache,   \* [bw, per_token, window, max_tokens]
    pos,     \* token_pos
    result,  \* of the last call: [misses, cycles, estimate]
    status   \* "build", "model", "configure", "ready", "ZeroDivisionError"

vars == <<config, tiers, plan, cache, pos, result, status>>

-----------------------------------------------------------------------------
Tier(name, capacity, bw) == [name |-> name, capacity |-> capacity, bw |-> bw]

(* _infer_external_tier_name: a type nobody knows counts as LPDDR5. *)
ExternalName(type) ==
    CASE type = "LPDDR5X" -> "lpddr5x" [] type = "HBM3" -> "hbm3"
      [] type \in {"HBM2", "HBM2E"} -> "hbm2e" [] OTHER -> "lpddr5"
External == {"lpddr5", "lpddr5x", "hbm2e", "hbm3"}

(* build_hierarchy_from_config; which tiers then hold keys and values is   *)
(* up to the plan.                                                         *)
Build ==
    /\ status = "build"
    /\ tiers' = (IF config.sram > 0 THEN <<Tier("sram", config.sram, SramBw)>> ELSE <<>>)
           \o (IF config.onchip > 0 THEN <<Tier("on_chip_3d_dram", config.onchip, config.onchip_bw)>> ELSE <<>>)
           \o <<Tier(ExternalName(config.type), config.capacity, config.bw)>>
    /\ plan' \in {{"no plan"}} \cup SUBSET {t.name : t \in ToSet(tiers')}
    /\ status' = "model" /\ UNCHANGED <<config, cache, pos, result>>

(* fastest_allocated_tier: 0 if the plan keeps none anywhere. *)
FastestAllocated == SelectInSeq(tiers, LAMBDA t : t.name \in plan)

(* The constructor: the plan's tier replaces the configured bandwidth. *)
Model ==
    /\ status = "model"
    /\ cache' = [bw |-> IF FastestAllocated = 0 THEN config.bw ELSE tiers[FastestAllocated].bw,
                 per_token |-> 0, window |-> 0, max_tokens |-> 0]
    /\ status' = "configure" /\ UNCHANGED <<config, tiers, plan, pos, result>>

Lesser(a, b) == IF a <= b THEN a ELSE b
Larger(a, b) == IF a >= b THEN a ELSE b
CeilDiv(a, b) == (a + b - 1) \div b

(* configure_for_model: an element has whole bytes, so one of less than    *)
(* eight bits has none.                                                    *)
Configure(values, layers) ==
    /\ status = "configure"
    /\ LET per_token == values * (config.bits \div 8) IN
       IF per_token = 0 THEN status' = "ZeroDivisionError" /\ UNCHANGED cache
       ELSE /\ cache' = [cache EXCEPT !.per_token = per_token,
                            !.window = config.kv_sram \div per_token,
                            !.max_tokens = Lesser(config.region \div (per_token * layers), MaxContext)]
            /\ status' = "ready"
    /\ UNCHANGED <<config, tiers, plan, pos, result>>

(* Cycles of a miss, at the percentage of the bandwidth that random        *)
(* accesses get.                                                           *)
MissCost == CeilDiv(cache.per_token * 100, cache.bw * config.random) + config.penalty

(* Faulty: the window is not held to the tokens there are. *)
HitsWindow(entries) == cache.window

HitsOf(entries) == Lesser(cache.window, entries)

(* access: token_pos earlier tokens are read. *)
Access(entries) ==
    LET misses == Larger(0, entries - HitsOf(entries))
    IN [misses |-> misses, cycles |-> HitsOf(entries) * Hit + misses * MissCost]

(* estimate_per_decode of the next token: next to nothing while 85 in a    *)
(* hundred hit, otherwise a tenth of the cycles, in proportion to misses.  *)
Decode ==
    /\ status = "ready" /\ pos < MaxTokens
    /\ pos' = pos + 1
    /\ LET access == Access(pos + 1) IN
       result' = [misses |-> access.misses, cycles |-> access.cycles,
                  estimate |-> IF (pos + 1 - access.misses) * 100 >= 85 * (pos + 1) THEN Hit * 10
                               ELSE (access.cycles * access.misses) \div ((pos + 1) * 10)]
    /\ UNCHANGED <<config, tiers, plan, cache, status>>

(* layer_switch_cost: three tenths of a load of the whole cache. *)
SwitchCost == (config.kv_sram * 30) \div (cache.bw * config.random)

Init ==
    /\ config \in Configs /\ tiers = <<>> /\ plan = {"no plan"}
    /\ cache = [bw |-> 0, per_token |-> 0, window |-> 0, max_tokens |-> 0]
    /\ pos = 0 /\ result = [misses |-> 0, cycles |-> 0, estimate |-> 0] /\ status = "build"

Next == Build \/ Model \/ (\E v \in TokenValues, l \in Layers : Configure(v, l)) \/ Decode

Spec == Init /\ [][Next]_vars
-----------------------------------------------------------------------------
(* Type correctness of the cache. *)
TypeOK ==
    /\ status \in {"build", "model", "configure", "ready", "ZeroDivisionError"}
    /\ pos \in 0..MaxTokens /\ result.misses \in 0..pos

(* Tiers are looked up by name, so no two have one; the last is the only   *)
(* external one, and keys and values are read at the bandwidth of a tier   *)
(* that holds some of them, or of the external one when none does.         *)
OneTierPerName ==
    status \in {"configure", "ready"} =>
        /\ \A i, j \in 1..Len(tiers) : tiers[i].name = tiers[j].name => i = j
        /\ {i \in 1..Len(tiers) : tiers[i].name \in External} = {Len(tiers)}
        /\ \E i \in 1..Len(tiers) : cache.bw = tiers[i].bw /\ (tiers[i].name \in plan \/ i = Len(tiers))

(* What an access costs is what the tokens cost one by one when a window   *)
(* slides over them: those among the newest that fit SRAM hit, every other *)
(* pays the transfer and the penalty, and a switch never loads more than   *)
(* the transfer of all that fits.                                          *)
CostOfSlidingWindow ==
    status = "ready" =>
        /\ result.cycles = MapThenSumSet(LAMBDA j : IF j >= pos - cache.window THEN Hit ELSE MissCost, 0..(pos - 1))
        /\ cache.window * cache.per_token <= config.kv_sram
        /\ pos > 0 /\ pos <= cache.window => result.misses = 0 /\ result.estimate = Hit * 10
        /\ SwitchCost * cache.bw * config.random <= config.kv_sram * 100

(* Only an element of less than a byte has no cache. *)
FailsBelowAByte == status = "ZeroDivisionError" => config.bits < 8
=============================================================================
