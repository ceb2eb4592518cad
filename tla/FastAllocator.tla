--------------------------- MODULE FastAllocator ---------------------------
(***************************************************************************)
(* fast_allocator.c: blocks of any size from pools of sizes (FastMblock),  *)
(* and from malloc when no region holds the size.  Trunks are malloc'ed    *)
(* within a limit; when that fails, idle trunks of every pool are given    *)
(* back.  Sizes are scaled down.                                           *)
(***************************************************************************)
EXTENDS Integers, Sequences, FiniteSets, SequencesExt

CONSTANTS
  Trunks, PerTrunk,     \* of every pool, as in FastMblock
  Regions,        \* << start, end, step >>, as fast_allocator_init_ex takes them
  Sizes,          \* the sizes asked for
  BigBlocks,      \* what malloc gives for sizes above the regions
  BytesLimit,     \* alloc_bytes_limit, 0 for none
  RatioNum, RatioDen,   \* expect_usage_ratio
  ReclaimInterval,      \* <= 0 for never reclaim
  MaxTime         \* bound: the clock

Wrapper   == 1    \* sizeof(struct allocator_wrapper)
NodeBytes == 1    \* sizeof(struct fast_mblock_node)
TrunkHead == 1    \* sizeof(struct fast_mblock_malloc)

VARIABLES
  pools,      \* the allocators' mblocks, in the order of allocator_array
  objects,    \* the blocks given out, with what their wrappers say
  acc,        \* alloc_bytes, malloc_bytes and last_reclaim_time
  now

vars == << pools, objects, acc, now >>

\* Pool p is a fast_mblock; its nodes in the hands of callers are in the blocks
\* given out with that index.  Its trunks are freed as they are reclaimed.
Mblock(p) == INSTANCE FastMblock WITH
  pool <- pools[p], used <- {o.n : o \in {x \in objects : x.index = p}},
  gone <- {}, Delays <- {}

-----------------------------------------------------------------------------
(* The regions and their allocators.                                       *)

RegionCount(r) == (r[2] - r[1]) \div r[3]

\* allocator_array_check_capacity: the new `alloc' of the array for n more.
Doubled(alloc, n) ==
  LET enough == {k \in 1..n : alloc * 2^k >= n} IN alloc * 2^Min(enough)
CheckCapacity(a, n) ==
  CASE a.alloc >= a.count + n -> a.alloc
    [] a.alloc = 0            -> 2 * n
    [] OTHER                  -> Doubled(a.alloc, n)

Adding(a, n) == [alloc |-> CheckCapacity(a, n), count |-> a.count + n]

\* allocator_array after fast_allocator_init_ex: one entry for every size of
\* every region and one for malloc_allocator.
AllocatorArray ==
  Adding(FoldLeft(LAMBDA a, r : Adding(a, RegionCount(r)), [alloc |-> 0, count |-> 0], Regions), 1)

ElementSizes == FlattenSeq([i \in DOMAIN Regions |->
                   [j \in 1..RegionCount(Regions[i]) |-> Regions[i][1] + j * Regions[i][3]]])
Pools == DOMAIN ElementSizes
TrunkSize(p) == TrunkHead + PerTrunk * (NodeBytes + ElementSizes[p])


\* What fast_allocator_init_ex asks of the regions.
RegionsValid ==
  \A i \in DOMAIN Regions :
    LET r == Regions[i] IN
    /\ r[1] = IF i = 1 THEN 0 ELSE Regions[i - 1][2]
    /\ r[1] < r[2] /\ r[3] > 0 /\ r[1] % r[3] = 0 /\ r[2] % r[3] = 0

\* get_allocator: the allocator's index, 0 for malloc_allocator, and the bytes
\* rounded up to the region's step.
GetAllocator(n) ==
  LET fit   == {i \in DOMAIN Regions : n <= Regions[i][2]}
      i     == Min(fit)
      r     == Regions[i]
      bytes == ((n + r[3] - 1) \div r[3]) * r[3]
      below == FoldLeft(LAMBDA c, x : c + RegionCount(x), 0, SubSeq(Regions, 1, i - 1))
  IN IF fit = {} THEN [index |-> 0, bytes |-> n]
     ELSE [index |-> below + (bytes - r[1]) \div r[3], bytes |-> bytes]

-----------------------------------------------------------------------------
(* The accounts.                                                           *)

MallocLimit == (BytesLimit * RatioDen) \div RatioNum      \* malloc_bytes_limit

TrunkCheck(a, bytes) ==
  BytesLimit = 0 \/ (a.alloc + bytes <= BytesLimit /\ a.malloc + bytes <= MallocLimit)

TrunksInUse(ps) == UNION {DOMAIN ps[p].ref : p \in Pools}

\* fast_mblock_alloc_object on pool p: the states of pools and accounts it may
\* leave, with the node; no result when it returns NULL.  malloc may fail.
AllocObject(ps, a, p) ==
  IF ps[p].free # << >>
  THEN {[ps |-> [ps EXCEPT ![p] = Mblock(p)!AllocFree(ps[p]).m], acc |-> a, n |-> ps[p].free[1]]}
  ELSE {[ps |-> [ps EXCEPT ![p] = Mblock(p)!AllocTrunk(ps[p], t).m],
         acc |-> [a EXCEPT !.malloc = @ + TrunkSize(p)], n |-> << t, 1 >>] :
          t \in IF TrunkCheck(a, TrunkSize(p)) THEN Trunks \ TrunksInUse(ps) ELSE {}}

\* fast_allocator_retry_reclaim: with the wait over and the usage below the
\* expected ratio, every pool gives its idle trunks back.
MayRetry(a) == a.last + ReclaimInterval <= now
MayReclaim(a) == a.malloc # 0 /\ a.alloc * RatioDen < RatioNum * a.malloc
GivesBack(p) == Mblock(p)!CanReclaim(pools[p], 0)
Reclaimed(p) == IF GivesBack(p) THEN Cardinality(Mblock(p)!Idle(pools[p], 0)) * TrunkSize(p) ELSE 0
TotalReclaimed == FoldLeft(LAMBDA s, p : s + Reclaimed(p), 0, [p \in Pools |-> p])
PoolsReclaimed ==
  [p \in Pools |-> IF GivesBack(p) THEN Mblock(p)!DoReclaim(pools[p], 0) ELSE pools[p]]

-----------------------------------------------------------------------------

Init ==
  /\ RegionsValid
  /\ pools = [p \in Pools |-> Mblock(p)!NewPool]
  /\ objects = {}
  /\ acc = [alloc |-> 0, malloc |-> 0, last |-> 0]
  /\ now = ReclaimInterval

\* The wrapper is filled in and the bytes are accounted for.
Given(g, n, size, a) ==
  /\ objects' = objects \cup {[index |-> g.index, n |-> n, size |-> size, bytes |-> g.bytes]}
  /\ acc' = [a EXCEPT !.alloc = @ + g.bytes]

\* fast_allocator_alloc of a size that a pool has, at once.
AllocPooled(size) ==
  LET g == GetAllocator(Wrapper + size) IN
  /\ g.index # 0
  /\ \E res \in AllocObject(pools, acc, g.index) :
       pools' = res.ps /\ Given(g, res.n, size, res.acc)
  /\ UNCHANGED now

\* The same after the first try gave NULL.
AllocRetried(size) ==
  LET g       == GetAllocator(Wrapper + size)
      tried   == [acc EXCEPT !.last = now]
      freed   == [tried EXCEPT !.malloc = @ - TotalReclaimed]
      reclaim == MayReclaim(acc) /\ TotalReclaimed > 0
      enough  == reclaim /\ TotalReclaimed >= TrunkSize(g.index)
      results == AllocObject(PoolsReclaimed, freed, g.index) IN
  /\ g.index # 0
  /\ pools[g.index].free = << >>
  /\ ReclaimInterval > 0 /\ MayRetry(acc)
  /\ IF enough /\ results # {}
     THEN \E res \in results : pools' = res.ps /\ Given(g, res.n, size, res.acc)
     ELSE /\ pools' = IF reclaim THEN PoolsReclaimed ELSE pools
          /\ acc' = IF reclaim THEN freed ELSE tried
          /\ UNCHANGED objects
  /\ UNCHANGED now

\* A size above the regions comes from malloc.
AllocMalloc(size) ==
  LET g == GetAllocator(Wrapper + size) IN
  /\ g.index = 0
  /\ TrunkCheck(acc, g.bytes)
  /\ \E b \in BigBlocks \ {o.n : o \in objects} :
       Given(g, b, size, [acc EXCEPT !.malloc = @ + g.bytes])
  /\ UNCHANGED << pools, now >>

\* Mutant: malloc_bytes keeps the block.
FreeKept(o) ==
  /\ objects' = objects \ {o}
  /\ acc' = [acc EXCEPT !.alloc = @ - o.bytes]
  /\ pools' = IF o.index = 0 THEN pools
              ELSE [pools EXCEPT ![o.index] = Mblock(o.index)!FreeNode(@, o.n)]
  /\ UNCHANGED now

\* fast_allocator_free, of what was given out.
Free(o) ==
  /\ objects' = objects \ {o}
  /\ IF o.index = 0
     THEN acc' = [acc EXCEPT !.alloc = @ - o.bytes, !.malloc = @ - o.bytes] /\ UNCHANGED pools
     ELSE acc' = [acc EXCEPT !.alloc = @ - o.bytes]
          /\ pools' = [pools EXCEPT ![o.index] = Mblock(o.index)!FreeNode(@, o.n)]
  /\ UNCHANGED now

\* fast_allocator_destroy and a new init.
Restart ==
  /\ pools' = [p \in Pools |-> Mblock(p)!NewPool]
  /\ objects' = {}
  /\ acc' = [alloc |-> 0, malloc |-> 0, last |-> 0]
  /\ UNCHANGED now

Tick == now < MaxTime /\ now' = now + 1 /\ UNCHANGED << pools, objects, acc >>

Next ==
  \/ \E size \in Sizes : AllocPooled(size) \/ AllocRetried(size) \/ AllocMalloc(size)
  \/ \E o \in objects : Free(o)
  \/ Restart \/ Tick

Spec == Init /\ [][Next]_vars

-----------------------------------------------------------------------------

SumOf(f(_), S) == FoldSet(LAMBDA x, s : s + f(x), 0, S)

\* Whatever was allocated, freed and reclaimed: every pool's nodes are each in
\* one place and no trunk is in two pools; every block is as large as asked;
\* alloc_bytes is what the callers hold and malloc_bytes what was malloc'ed for
\* it, within the water mark; and the array of allocators has room for all.
Exact ==
  /\ \A p \in Pools : Mblock(p)!Exact
  /\ \A p, r \in Pools : p # r => (DOMAIN pools[p].ref) \cap (DOMAIN pools[r].ref) = {}
  /\ \A o \in objects : Wrapper + o.size <= IF o.index = 0 THEN o.bytes ELSE ElementSizes[o.index]
  /\ acc.alloc = SumOf(LAMBDA o : o.bytes, objects)
  /\ acc.malloc = SumOf(LAMBDA p : TrunkSize(p) * pools[p].trunkTotal, Pools)
                  + SumOf(LAMBDA o : o.bytes, {o \in objects : o.index = 0})
  /\ BytesLimit # 0 => acc.malloc <= MallocLimit
  /\ AllocatorArray.count <= AllocatorArray.alloc

\* "alloc_bytes_limit: the alloc limit, 0 for no limit".
WithinAllocLimit == BytesLimit # 0 => acc.alloc <= BytesLimit

=============================================================================
