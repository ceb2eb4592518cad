----------------------------- MODULE FastMblock -----------------------------
(***************************************************************************)
(* fast_mblock.c: a pool of nodes of one size, taken from trunks of        *)
(* PerTrunk nodes that malloc gives.  The first part has the operators on  *)
(* one pool, a record, which FastAllocator uses for each of its pools; the *)
(* second one pool and its callers: nodes are allocated, freed at once or  *)
(* after a delay, and trunks without users are given back.                  *)
(***************************************************************************)
EXTENDS Integers, Sequences, FiniteSets, Functions

CONSTANTS
  Trunks,      \* what malloc gives: an address is given again once freed
  PerTrunk,    \* alloc_elements_once
  Delays,      \* the delays given to fast_mblock_delay_free
  MaxTime      \* bound: the clock (g_current_time, in seconds)

VARIABLES
  pool,     \* the fast_mblock_man
  used,     \* the nodes in the hands of callers
  gone,     \* the trunks reclaimed and not yet freed
  now

vars == << pool, used, gone, now >>

Node == Trunks \X (1..PerTrunk)
TrunkOf(n) == n[1]                   \* FAST_MBLOCK_GET_TRUNK

\* fast_mblock_init_ex2: ref is defined on the trunks of the pool.
NewPool == [ref |-> << >>, free |-> << >>, delayed |-> << >>,
            trunkTotal |-> 0, trunkUsed |-> 0, elements |-> 0, elementsUsed |-> 0]

Ref(m, t, n) == [x \in DOMAIN m.ref \cup {t} |-> IF x = t THEN n ELSE m.ref[x]]

\* fast_mblock_ref_counter_op.
RefInc(m, t) ==
  [m EXCEPT !.ref = [m.ref EXCEPT ![t] = @ + 1], !.trunkUsed = IF m.ref[t] = 0 THEN @ + 1 ELSE @]
RefDec(m, t) ==
  [m EXCEPT !.ref = [m.ref EXCEPT ![t] = @ - 1], !.trunkUsed = IF m.ref[t] = 1 THEN @ - 1 ELSE @]

\* fast_mblock_prealloc: the free chain was empty and is now the trunk t.
Prealloc(m, t) ==
  [m EXCEPT !.ref = Ref(m, t, 0),
            !.free = [i \in 1..PerTrunk |-> << t, i >>],
            !.trunkTotal = @ + 1, !.elements = @ + PerTrunk]

TakeFree(m) ==
  RefInc([m EXCEPT !.free = Tail(@), !.elementsUsed = @ + 1], TrunkOf(m.free[1]))

\* Mutant: the time of recycling is not looked at.
DueFirstAny(m, time) == m.delayed # << >>

\* A delayed node that is due is taken as it is: it still counts as used.
DueFirst(m, time) == m.delayed # << >> /\ m.delayed[1].at <= time

\* fast_mblock_alloc with t the trunk that malloc gives if it is asked.
\* The results: the pool and the node.
AllocFree(m)    == [m |-> TakeFree(m), n |-> m.free[1]]
AllocDelayed(m) == [m |-> [m EXCEPT !.delayed = Tail(@)], n |-> m.delayed[1].node]
AllocTrunk(m, t) == AllocFree(Prealloc(m, t))

FreeNode(m, n) ==
  RefDec([m EXCEPT !.free = << n >> \o @, !.elementsUsed = @ - 1], TrunkOf(n))

DelayFree(m, n, at) == [m EXCEPT !.delayed = Append(@, [node |-> n, at |-> at])]

-----------------------------------------------------------------------------
(* Reclaiming.                                                             *)

\* The trunks do_reclaim takes: those without a user, in the order in which
\* their first nodes come in the free chain, up to the target (0 for all).
Idle(m, target) ==
  LET At(t)    == {i \in DOMAIN m.free : TrunkOf(m.free[i]) = t}
      idle     == {t \in DOMAIN m.ref : m.ref[t] = 0 /\ At(t) # {}}
      Sooner(t) == {u \in idle : \E i \in At(u) : \A j \in At(t) : i < j}
  IN {t \in idle : target = 0 \/ Cardinality(Sooner(t)) < target}

\* fast_mblock_remove_trunk, of the trunks T.
RemoveTrunks(m, T) ==
  [m EXCEPT !.ref = Restrict(@, DOMAIN @ \ T),
            !.trunkTotal = @ - Cardinality(T), !.elements = @ - PerTrunk * Cardinality(T)]

\* The chain s without the nodes N, the others in their order.
Without(s, N) ==
  LET rest == {i \in DOMAIN s : s[i] \notin N}
  IN [k \in 1..Cardinality(rest) |->
        s[CHOOSE i \in rest : Cardinality({j \in rest : j < i}) = k - 1]]

\* Mutant: only the node that triggers it leaves the free chain.
DoReclaimFirst(m, target) ==
  LET idle == Idle(m, target) IN
  RemoveTrunks([m EXCEPT !.free = Without(@, {<< t, 1 >> : t \in idle})], idle)

\* fast_mblock_do_reclaim: the nodes of those trunks leave the free chain, and
\* the others keep their order.
DoReclaim(m, target) ==
  LET idle == Idle(m, target) IN
  RemoveTrunks([m EXCEPT !.free = Without(@, idle \X (1..PerTrunk))], idle)

\* fast_mblock_reclaim: EINVAL and E2BIG leave the pool alone.
CanReclaim(m, target) ==
  /\ m.trunkTotal - m.trunkUsed > 0
  /\ target > 0 => m.trunkTotal - m.trunkUsed >= target

-----------------------------------------------------------------------------

\* The nodes in the hands of callers, U, those that wait and those that are
\* free are all the nodes of the pool's trunks, each once; and the counters
\* agree with them.
Partitioned(m, U) ==
  LET D == {m.delayed[i].node : i \in DOMAIN m.delayed}
      F == Range(m.free) IN
  /\ IsInjective(m.free)
  /\ \A i, j \in DOMAIN m.delayed : m.delayed[i].node = m.delayed[j].node => i = j
  /\ U \cap D = {} /\ U \cap F = {} /\ D \cap F = {}
  /\ U \cup D \cup F = (DOMAIN m.ref) \X (1..PerTrunk)
  /\ \A t \in DOMAIN m.ref : m.ref[t] = Cardinality({n \in U \cup D : TrunkOf(n) = t})
  /\ m.trunkTotal = Cardinality(DOMAIN m.ref)
  /\ m.trunkUsed = Cardinality({t \in DOMAIN m.ref : m.ref[t] > 0})
  /\ m.elements = PerTrunk * m.trunkTotal
  /\ m.elementsUsed = Cardinality(U \cup D)
-----------------------------------------------------------------------------
(* One pool and its callers.                                               *)

Init == pool = NewPool /\ used = {} /\ gone = {} /\ now = 0

\* The trunks malloc can give.
Available == Trunks \ (DOMAIN pool.ref \cup gone)

Alloc ==
  /\ \E res \in
       IF pool.free # << >> THEN {AllocFree(pool)}
       ELSE IF DueFirst(pool, now) THEN {AllocDelayed(pool)}
       ELSE {AllocTrunk(pool, t) : t \in Available} :
         pool' = res.m /\ used' = used \cup {res.n}
  /\ UNCHANGED << gone, now >>

Free(n) ==
  /\ n \in used
  /\ pool' = FreeNode(pool, n)
  /\ used' = used \ {n}
  /\ UNCHANGED << gone, now >>

DelayedFree(n, delay) ==
  /\ n \in used
  /\ pool' = DelayFree(pool, n, now + delay)
  /\ used' = used \ {n}
  /\ UNCHANGED << gone, now >>

\* fast_mblock_reclaim up to the unlock; its caller then frees the trunks.
Reclaim(target) ==
  /\ CanReclaim(pool, target)
  /\ pool' = DoReclaim(pool, target)
  /\ gone' = gone \cup Idle(pool, target)
  /\ UNCHANGED << used, now >>

FreeTrunks == gone # {} /\ gone' = {} /\ UNCHANGED << pool, used, now >>

\* fast_mblock_destroy and fast_mblock_init again.
Restart ==
  /\ pool' = NewPool
  /\ used' = {}
  /\ UNCHANGED << gone, now >>

Tick == now < MaxTime /\ now' = now + 1 /\ UNCHANGED << pool, used, gone >>

Next ==
  \/ Alloc \/ FreeTrunks \/ Restart \/ Tick
  \/ \E n \in Node : Free(n) \/ \E d \in Delays : DelayedFree(n, d)
  \/ \E target \in 0..Cardinality(Trunks) : Reclaim(target)

Spec == Init /\ [][Next]_vars

-----------------------------------------------------------------------------

\* Every node of every trunk is with a caller, waiting or free, exactly one of
\* them, and the pool's counters say so; a trunk that was given back is in none
\* of its chains.  fast_mblock_reclaim trusts those counters to free memory.
Exact == Partitioned(pool, used) /\ gone \cap DOMAIN pool.ref = {}

\* A node freed with a delay is given out again no sooner, whatever was freed,
\* reclaimed or delayed in between.
NeverEarly ==
  [][\A i \in DOMAIN pool.delayed :
       pool.delayed[i].node \in used' => pool.delayed[i].at <= now]_vars
=============================================================================
