---------------------------- MODULE TaskPipeline ----------------------------
(***************************************************************************)
(* fast_blocked_queue.c between two uses of the task pool, wired as in     *)
(* tests/test_blocked_queue.c: producers take a task from the pool and     *)
(* push it to the blocked queue, the main thread pops it there and gives   *)
(* it back, and a signal handler ends the program.                         *)
(*                                                                         *)
(* The task itself is the node of both queues (pTask->next), so a task in  *)
(* two places at once would splice one list into the other.  The pool's    *)
(* actions are those of FreeQueue.                                         *)
(***************************************************************************)
EXTENDS FreeQueue, FiniteSets, FiniteSetTheorems, WellFoundedInduction

CONSTANTS Producers, Main

ASSUME PipelineAssumption == Main \notin Producers /\ Threads = Producers \cup {Main}

VARIABLES
  bq,        \* blocked_queue: head chain and tail
  continue,  \* g_continue_flag
  handler    \* sigQuitHandler: "off", "terminate" between its two calls, "done"

vars == << poolVars, bq, continue, handler >>

pool == << fq, alloc, size, tries >>

Init ==
  /\ PoolInit
  /\ bq = EmptyQueue
  /\ continue = TRUE
  /\ handler = "off"

\* The process ends, with all its threads, when main returns.
Running == pc[Main] # "exit"

-----------------------------------------------------------------------------
\* `while (g_continue_flag)', read without any lock.
CheckFlag(t) ==
  /\ Running
  /\ pc[t] = "idle"
  /\ Go(t, IF continue THEN "enter" ELSE "exit")
  /\ UNCHANGED << pool, held, bq, continue, handler >>

\* free_queue_pop and, in main, free_queue_push.
PoolStep(t) ==
  /\ Running
  /\ \/ t # Main /\ pc[t] = "enter" /\ PopFirst(t)
     \/ PopCheck(t) \/ PopGrow(t) \/ PopRetry(t) \/ PopReturnedNull(t)
     \/ t = Main /\ pc[t] = "have" /\ PushShrink(t)
     \/ PushLink(t)
  /\ UNCHANGED << bq, continue, handler >>

\* Mutants: the producer keeps the task it pushed; ...
BlockedPushKeepsTask(p) ==
  /\ Running
  /\ p # Main /\ pc[p] = "have"
  /\ bq' = PushTail(bq, held[p])
  /\ Go(p, IF bq.tail = NULL THEN "notify" ELSE "idle")
  /\ UNCHANGED << pool, held, continue, handler >>

\* ... the task is linked at the head.
BlockedPushInFront(p) ==
  /\ Running
  /\ p # Main /\ pc[p] = "have"
  /\ bq' = PushHead(bq, held[p])
  /\ held' = [held EXCEPT ![p] = NULL]
  /\ Go(p, IF bq.tail = NULL THEN "notify" ELSE "idle")
  /\ UNCHANGED << pool, continue, handler >>

\* blocked_queue_push up to the unlock: only a push to an empty queue will
\* signal.
BlockedPush(p) ==
  /\ Running
  /\ p # Main /\ pc[p] = "have"
  /\ bq' = PushTail(bq, held[p])
  /\ held' = [held EXCEPT ![p] = NULL]
  /\ Go(p, IF bq.tail = NULL THEN "notify" ELSE "idle")
  /\ UNCHANGED << pool, continue, handler >>

\* pthread_cond_signal: main is the only thread that ever waits.
Wake(pcAfter) == pc' = [pcAfter EXCEPT ![Main] = IF @ = "waiting" THEN "woken" ELSE @]

Notify(p) ==
  /\ Running
  /\ pc[p] = "notify"
  /\ Wake([pc EXCEPT ![p] = "idle"])
  /\ UNCHANGED << pool, held, bq, continue, handler >>

\* blocked_queue_pop: the head is read, and read again once after a wait.
BlockedPop ==
  /\ pc[Main] \in {"enter", "woken"}
  /\ \/ /\ bq.chain # << >>
        /\ held' = [held EXCEPT ![Main] = Head(bq.chain)]
        /\ bq' = PopHead(bq)
        /\ Go(Main, "have")
     \/ /\ bq.chain = << >>
        /\ Go(Main, IF pc[Main] = "enter" THEN "waiting" ELSE "idle")
        /\ UNCHANGED << held, bq >>
  /\ UNCHANGED << pool, continue, handler >>

SpuriousWakeup ==
  /\ pc[Main] = "waiting"
  /\ Go(Main, "woken")
  /\ UNCHANGED << pool, held, bq, continue, handler >>

-----------------------------------------------------------------------------
\* sigQuitHandler: first the flag, then blocked_queue_terminate, which
\* signals without taking the queue's lock.
CatchSignal ==
  /\ Running
  /\ handler = "off"
  /\ continue' = FALSE
  /\ handler' = "terminate"
  /\ UNCHANGED << pool, pc, held, bq >>

\* Mutant: terminate does not signal.
BlockedQueueTerminateSilent ==
  /\ Running
  /\ handler = "terminate"
  /\ handler' = "done"
  /\ UNCHANGED << pool, pc, held, bq, continue >>

BlockedQueueTerminate ==
  /\ Running
  /\ handler = "terminate"
  /\ Wake(pc)
  /\ handler' = "done"
  /\ UNCHANGED << pool, held, bq, continue >>

-----------------------------------------------------------------------------
Step(t) == CheckFlag(t) \/ PoolStep(t) \/ BlockedPush(t) \/ Notify(t)

MainStep == Step(Main) \/ BlockedPop

Next ==
  \/ \E p \in Producers : Step(p)
  \/ MainStep
  \/ SpuriousWakeup
  \/ CatchSignal
  \/ BlockedQueueTerminate

Spec == Init /\ [][Next]_vars

\* Threads keep running and a handler that was entered returns; the signal
\* and a spurious wakeup may never come.
Fairness ==
  /\ \A p \in Producers : WF_vars(Step(p))
  /\ WF_vars(MainStep)
  /\ WF_vars(BlockedQueueTerminate)

FairSpec == Spec /\ Fairness

-----------------------------------------------------------------------------
\* The pool keeps its types, and only tasks are linked in the blocked queue.
TypeOK ==
  /\ PoolTypeOK
  /\ pc \in [Threads -> {"idle", "enter", "check", "grow", "retry", "none", "have",
                         "push", "notify", "waiting", "woken", "exit"}]
  /\ bq \in [chain : Seq(1..MaxConnections), tail : 1..MaxConnections \cup {NULL}]
  /\ continue \in BOOLEAN
  /\ handler \in {"off", "terminate", "done"}

\* The places where task k is.
Places(k) ==
  (IF OnChain(fq, k) THEN {"pool"} ELSE {}) \cup (IF OnChain(bq, k) THEN {"queue"} ELSE {})
    \cup {t \in Threads : held[t] = k}

\* Both lists run through the same pTask->next.  They stay apart and in
\* order: every allocated task is in exactly one of the pool, the blocked
\* queue and the hands of one thread.
OnePlacePerTask ==
  /\ TypeOK
  /\ WellLinked(fq) /\ WellLinked(bq)
  /\ \A k \in 1..MaxConnections :
       IF k <= alloc THEN Cardinality(Places(k)) = 1 ELSE Places(k) = {}

\* A task that was queued gets back to the pool, unless the program is told
\* to quit meanwhile.
TasksComeBack ==
  \A k \in 1..MaxConnections : OnChain(bq, k) ~> (OnChain(fq, k) \/ ~ continue)

\* blocked_queue_terminate: a main thread that is asleep in blocked_queue_pop
\* when the quit handler runs is woken, sees the flag and ends the program,
\* with whatever the producers still do.
QuitWakesSleeper ==
  (handler = "terminate" /\ pc[Main] = "waiting") ~> pc[Main] = "exit"
-----------------------------------------------------------------------------
(***************************************************************************)
(* The ownership of tasks in FreeQueue, for any number of threads and any  *)
(* sizes of the pool: every allocated task is on the free list or owned by *)
(* one thread, and only its owner resizes it.                              *)
(***************************************************************************)

\* A thread owns a task exactly between its pop and its push, and no two
\* threads own the same one.
Ownership ==
  /\ \A t \in Threads : held[t] # NULL <=> pc[t] \in {"have", "push"}
  /\ \A t, u \in Threads : held[t] # NULL /\ held[t] = held[u] => t = u

\* The free list and the owners share out the blocks 1..alloc.
Partition ==
  /\ \A t \in Threads : held[t] # NULL => held[t] <= alloc /\ ~ OnChain(fq, held[t])
  /\ \A k \in Tasks : OnChain(fq, k) => k <= alloc
  /\ \A k \in Tasks : k <= alloc => OnChain(fq, k) \/ \E t \in Threads : held[t] = k

\* The loop of free_queue_pop is left before its counter reaches MaxTries.
TriesLeft == \A t \in Threads : pc[t] \in {"grow", "retry"} => tries[t] < MaxTries

\* EachTaskHasOneOwner alone is not inductive: that a pushed task was owned
\* by the pusher, and that the counter stays in its type, depend on where
\* the thread is.
PoolInv == PoolPlacesOK /\ WellLinked(fq) /\ Ownership /\ Partition /\ TriesLeft
-----------------------------------------------------------------------------
\* A non-empty set of natural numbers has a least member.
LEMMA LeastExists ==
  ASSUME NEW T, T \subseteq Nat, T # {}
  PROVE  \E x \in T : \A y \in T : x <= y
<1> DEFINE R == OpToRel(<, Nat)
<1>1. PICK x \in T : \A y \in T : ~ (<< y, x >> \in R)
  <2>1. IsWellFoundedOn(R, Nat)
    BY NatLessThanWellFounded
  <2> HIDE DEF R
  <2> QED
    BY <2>1, WFMin
<1>2. ASSUME NEW y \in T PROVE x <= y
  <2>1. ~ (y < x)
    BY <1>1 DEF OpToRel
  <2> QED
    BY <2>1
<1> QED
  BY <1>2

\* task_queue_get_new_buffer_size (fast_task_queue.c:459-481) answers with a
\* size between min_buff_size and max_buff_size that holds what was asked for.
LEMMA NewBufferSizeFits ==
  ASSUME NEW expect \in Nat, expect <= MaxBuff
  PROVE  NewBufferSize(expect) \in MinBuff..MaxBuff /\ NewBufferSize(expect) >= expect
<1> DEFINE doubled == {MinBuff * 2^k : k \in 0..expect}
           fitting == {s \in MinBuff..MaxBuff : s \in doubled /\ s >= expect}
<1>1. NewBufferSize(expect) =
        IF fitting = {} THEN MaxBuff ELSE CHOOSE s \in fitting : \A r \in fitting : s <= r
  BY DEF NewBufferSize
<1>2. fitting \subseteq MinBuff..MaxBuff /\ \A s \in fitting : s >= expect
  OBVIOUS
<1> HIDE DEF fitting
<1>3. CASE fitting = {}
  BY <1>1, <1>3, PoolAssumption
<1>4. CASE fitting # {}
  <2>1. fitting \subseteq Nat
    BY <1>2, PoolAssumption
  <2>2. \E s \in fitting : \A r \in fitting : s <= r
    BY <1>4, <2>1, LeastExists
  <2>3. NewBufferSize(expect) \in fitting
    BY <1>1, <1>4, <2>2
  <2> QED
    BY <1>2, <2>3
<1> QED
  BY <1>3, <1>4
-----------------------------------------------------------------------------
\* free_queue_init_ex links the first InitConnections blocks.
LEMMA PoolInitInv == PoolInit => PoolInv
<1> SUFFICES ASSUME PoolInit PROVE PoolInv
  OBVIOUS
<1> DEFINE b == Blocks(0, InitConnections)
<1>1. /\ InitConnections \in Nat \ {0} /\ NULL \notin Nat /\ 0 \in Nat
      /\ Tasks \in SUBSET Nat /\ 1..InitConnections \subseteq Tasks
  BY PoolAssumption DEF Tasks
<1>2. /\ b \in Seq(Tasks) /\ b # << >> /\ Len(b) = InitConnections
      /\ \A i \in 1..Len(b) : b[i] = 0 + i
  BY <1>1 DEF Blocks
<1> HIDE DEF b
<1>3. fq = AddBlocks(EmptyQueue, b) /\ EmptyQueue.chain = << >>
  BY <1>1, <1>2 DEF PoolInit, InitPool, AddBlocks, EmptyQueue, b
<1>4. /\ fq \in [chain : Seq(Tasks), tail : Tasks \cup {NULL}]
      /\ WellLinked(fq)
      /\ \A k : OnChain(fq, k) <=> k \in 0 + 1..0 + InitConnections
  BY <1>1, <1>2, <1>3, AddBlocksWellLinked
<1>5. PoolPlacesOK
  BY <1>4, PoolAssumption DEF PoolInit, InitPool, PoolPlacesOK, PoolTypeOK
<1>6. Ownership /\ TriesLeft
  BY DEF PoolInit, Ownership, TriesLeft
<1>7. Partition
  <2>1. alloc = InitConnections /\ \A t \in Threads : held[t] = NULL
    BY DEF PoolInit, InitPool
  <2>2. \A k \in Tasks : OnChain(fq, k) <=> k <= alloc
    <3>1. SUFFICES ASSUME NEW k \in Tasks PROVE OnChain(fq, k) <=> k <= alloc
      OBVIOUS
    <3>2. k \in Nat \ {0} /\ alloc \in Nat
      BY <1>1, <2>1 DEF Tasks
    <3>3. OnChain(fq, k) <=> k \in 1..alloc
      BY <1>1, <1>4, <2>1
    <3> QED
      BY <3>2, <3>3
  <2> QED
    BY <2>1, <2>2 DEF Partition
<1> QED
  BY <1>4, <1>5, <1>6, <1>7 DEF PoolInv

\* A task taken from the free list (fast_task_queue.c:408-420) has no owner yet.
LEMMA PoolTakeInv ==
  ASSUME PoolInv, NEW t \in Threads, pc[t] \in {"idle", "retry"}, TakeTask(t)
  PROVE  PoolInv'
<1> DEFINE k == Head(fq.chain)
<1>1. NULL \notin Tasks
  BY PoolAssumption DEF Tasks
<1>2. /\ fq' \in [chain : Seq(Tasks), tail : Tasks \cup {NULL}]
      /\ WellLinked(fq')
      /\ k \in Tasks
  BY <1>1, PopHeadWellLinked DEF PoolInv, PoolPlacesOK, PoolTypeOK, TakeTask
<1>3. /\ OnChain(fq, k)
      /\ \A j : OnChain(fq', j) <=> OnChain(fq, j) /\ j # k
  BY <1>1, PopHeadOnChain DEF PoolInv, PoolPlacesOK, PoolTypeOK, TakeTask
<1>4. /\ held' = [held EXCEPT ![t] = k] /\ pc' = [pc EXCEPT ![t] = "have"]
      /\ UNCHANGED << alloc, size, tries >>
  BY DEF TakeTask, Go
<1> HIDE DEF k
<1>5. \A u \in Threads : held[u] # k
  BY <1>1, <1>2, <1>3 DEF PoolInv, Partition
<1>6. PoolPlacesOK'
  BY <1>2, <1>4 DEF PoolInv, PoolPlacesOK, PoolTypeOK
<1>7. Ownership'
  BY <1>1, <1>2, <1>4, <1>5 DEF PoolInv, PoolPlacesOK, PoolTypeOK, Ownership
<1>8. Partition'
  BY <1>1, <1>2, <1>3, <1>4, <1>5 DEF PoolInv, PoolPlacesOK, PoolTypeOK, Ownership, Partition
<1>9. TriesLeft'
  BY <1>4 DEF PoolInv, PoolPlacesOK, PoolTypeOK, TriesLeft
<1> QED
  BY <1>2, <1>6, <1>7, <1>8, <1>9 DEF PoolInv

\* A step that only moves a thread that owns nothing, and may set its counter.
LEMMA PoolMoveInv ==
  ASSUME PoolInv, NEW t \in Threads, pc[t] \notin {"have", "push"},
         NEW label \in {"idle", "check", "grow", "retry", "none"}, Go(t, label),
         UNCHANGED << fq, alloc, size, held >>,
         tries' \in [Threads -> 0..MaxTries],
         \A u \in Threads \ {t} : tries'[u] = tries[u],
         label \in {"grow", "retry"} => tries'[t] < MaxTries
  PROVE  PoolInv'
<1>1. PoolPlacesOK'
  BY DEF PoolInv, PoolPlacesOK, PoolTypeOK, Go
<1>2. Ownership'
  BY DEF PoolInv, PoolPlacesOK, PoolTypeOK, Ownership, Go
<1>3. Partition' /\ WellLinked(fq')
  BY DEF PoolInv, Partition, WellLinked, OnChain
<1>4. TriesLeft'
  BY DEF PoolInv, PoolPlacesOK, PoolTypeOK, TriesLeft, Go
<1> QED
  BY <1>1, <1>2, <1>3, <1>4 DEF PoolInv

\* free_queue_realloc adds the next blocks, which nobody has seen before.
LEMMA PopGrowInv ==
  ASSUME PoolInv, NEW t \in Threads, PopGrow(t)
  PROVE  PoolInv'
<1>1. CASE UNCHANGED << fq, alloc, size >> /\ (Go(t, "retry") \/ Go(t, "none"))
  BY <1>1, PoolMoveInv DEF PopGrow, PoolInv, PoolPlacesOK, PoolTypeOK, TriesLeft
<1>2. CASE /\ fq.chain = << >> /\ alloc < MaxConnections
           /\ fq' = AddBlocks(fq, Blocks(alloc, alloc + AllocCount))
           /\ alloc' = alloc + AllocCount
           /\ size' = [k \in Tasks |-> IF k \in alloc + 1..alloc' THEN MinBuff ELSE size[k]]
           /\ Go(t, "retry")
  <2> DEFINE n == AllocCount
             b == Blocks(alloc, alloc + n)
  <2>1. alloc \in Nat /\ n \in Nat \ {0} /\ alloc + n <= MaxConnections
    BY <1>2, PoolAssumption DEF PoolInv, PoolPlacesOK, PoolTypeOK, AllocCount
  <2>2. /\ alloc + 1..alloc + n \subseteq Tasks /\ NULL \notin Tasks /\ NULL \notin Nat
        /\ Tasks \in SUBSET Nat
    BY <2>1, PoolAssumption DEF Tasks
  <2> HIDE DEF n
  <2>3. b \in Seq(Tasks) /\ b # << >> /\ Len(b) = n /\ \A i \in 1..Len(b) : b[i] = alloc + i
    BY <2>1, <2>2 DEF Blocks
  <2> HIDE DEF b
  <2>4. /\ fq' \in [chain : Seq(Tasks), tail : Tasks \cup {NULL}]
        /\ WellLinked(fq')
        /\ \A k : OnChain(fq', k) <=> k \in alloc + 1..alloc + n
    <3>1. fq' = AddBlocks(fq, b) /\ fq.chain = << >>
      BY <1>2 DEF b, n
    <3> QED
      BY <3>1, <2>1, <2>2, <2>3, AddBlocksWellLinked
  <2>5. alloc' = alloc + n /\ UNCHANGED << held, tries >>
    BY <1>2 DEF n, PopGrow
  <2>6. \A k : ~ OnChain(fq, k)
    BY <1>2 DEF OnChain
  <2>7. PoolPlacesOK'
    BY <1>2, <2>1, <2>4, <2>5, PoolAssumption DEF PoolInv, PoolPlacesOK, PoolTypeOK, Go
  <2>8. Ownership'
    BY <1>2, <2>5 DEF PopGrow, PoolInv, PoolPlacesOK, Ownership, Go
  <2>9. Partition'
    <3>1. \A u \in Threads : held'[u] # NULL => held'[u] <= alloc' /\ ~ OnChain(fq', held'[u])
      BY <2>1, <2>4, <2>5, PoolAssumption DEF PoolInv, Partition, PoolPlacesOK, PoolTypeOK, Tasks
    <3>2. \A k \in Tasks : OnChain(fq', k) => k <= alloc'
      BY <2>1, <2>4, <2>5
    <3>3. ASSUME NEW k \in Tasks, k <= alloc'
          PROVE  OnChain(fq', k) \/ \E u \in Threads : held'[u] = k
      BY <2>1, <2>4, <2>5, <2>6, <3>3 DEF PoolInv, Partition, Tasks
    <3> QED
      BY <3>1, <3>2, <3>3 DEF Partition
  <2>10. TriesLeft'
    BY <1>2, <2>5 DEF PopGrow, PoolInv, PoolPlacesOK, TriesLeft, Go
  <2> QED
    BY <2>4, <2>7, <2>8, <2>9, <2>10 DEF PoolInv
<1> QED
  BY <1>1, <1>2 DEF PopGrow

\* A step that resizes one task and leaves the list and the owners alone.
LEMMA ResizeInv ==
  ASSUME PoolInv, NEW t \in Threads, pc[t] = "have", Go(t, "have") \/ Go(t, "push"),
         NEW newSize \in MinBuff..MaxBuff, ReallocBuffer(held[t], newSize),
         UNCHANGED << fq, alloc, held, tries >>
  PROVE  PoolInv'
<1>1. PoolPlacesOK'
  BY DEF PoolInv, PoolPlacesOK, PoolTypeOK, ReallocBuffer, Go
<1>2. Ownership'
  BY DEF PoolInv, PoolPlacesOK, Ownership, Go
<1>3. Partition' /\ WellLinked(fq')
  BY DEF PoolInv, Partition, WellLinked, OnChain
<1>4. TriesLeft'
  BY DEF PoolInv, PoolPlacesOK, TriesLeft, Go
<1> QED
  BY <1>1, <1>2, <1>3, <1>4 DEF PoolInv

\* free_queue_push gives up the task it links.
LEMMA PushLinkInv ==
  ASSUME PoolInv, NEW t \in Threads, PushLink(t)
  PROVE  PoolInv'
<1> DEFINE k == held[t]
<1>1. NULL \notin Tasks
  BY PoolAssumption DEF Tasks
<1>2. k \in Tasks /\ k <= alloc /\ ~ OnChain(fq, k)
  BY DEF PushLink, PoolInv, PoolPlacesOK, PoolTypeOK, Ownership, Partition
<1>3. /\ fq' \in [chain : Seq(Tasks), tail : Tasks \cup {NULL}]
      /\ WellLinked(fq')
      /\ \A j : OnChain(fq', j) <=> j = k \/ OnChain(fq, j)
  BY <1>1, <1>2, PushHeadWellLinked DEF PushLink, PoolInv, PoolPlacesOK, PoolTypeOK
<1>4. /\ held' = [held EXCEPT ![t] = NULL] /\ pc' = [pc EXCEPT ![t] = "idle"]
      /\ UNCHANGED << alloc, size, tries >>
  BY DEF PushLink, Go
<1>5. \A u \in Threads \ {t} : held[u] # k
  BY <1>1, <1>2 DEF PoolInv, Ownership
<1>6. PoolPlacesOK'
  BY <1>3, <1>4 DEF PoolInv, PoolPlacesOK, PoolTypeOK
<1>7. Ownership'
  BY <1>4 DEF PoolInv, PoolPlacesOK, PoolTypeOK, Ownership
<1>8. Partition'
  BY <1>1, <1>2, <1>3, <1>4, <1>5 DEF PoolInv, PoolPlacesOK, PoolTypeOK, Partition
<1>9. TriesLeft'
  BY <1>4 DEF PoolInv, PoolPlacesOK, TriesLeft
<1> QED
  BY <1>3, <1>6, <1>7, <1>8, <1>9 DEF PoolInv

\* The invariant is inductive.
LEMMA PoolNextInv == PoolInv /\ [PoolNext]_poolVars => PoolInv'
<1> SUFFICES ASSUME PoolInv, [PoolNext]_poolVars PROVE PoolInv'
  OBVIOUS
<1>1. ASSUME NEW t \in Threads, Use(t) PROVE PoolInv'
  <2>1. CASE pc[t] = "idle" /\ PopFirst(t)
    BY <2>1, PoolTakeInv, PoolMoveInv DEF PopFirst, PoolInv, PoolPlacesOK, PoolTypeOK
  <2>2. CASE PopCheck(t)
    <3> DEFINE label == IF alloc >= MaxConnections THEN "none" ELSE "grow"
    <3>1. /\ tries' \in [Threads -> 0..MaxTries] /\ tries'[t] = 0 /\ 0 < MaxTries
          /\ \A u \in Threads \ {t} : tries'[u] = tries[u]
      BY <2>2, PoolAssumption DEF PopCheck, PoolInv, PoolPlacesOK, PoolTypeOK
    <3>2. label \in {"none", "grow"} /\ Go(t, label)
      BY <2>2 DEF PopCheck
    <3> HIDE DEF label
    <3> QED
      BY <2>2, <3>1, <3>2, PoolMoveInv DEF PopCheck
  <2>3. CASE PopGrow(t)
    BY <2>3, PopGrowInv
  <2>4. CASE PopRetry(t)
    <3>1. CASE TakeTask(t)
      BY <2>4, <3>1, PoolTakeInv DEF PopRetry
    <3>2. CASE ~ TakeTask(t)
      <4>1. tries[t] \in 0..MaxTries /\ tries[t] < MaxTries
        BY <2>4 DEF PopRetry, PoolInv, PoolPlacesOK, PoolTypeOK, TriesLeft
      <4> DEFINE label == IF tries[t] + 1 < MaxTries THEN "grow" ELSE "none"
      <4>2. tries' = [tries EXCEPT ![t] = @ + 1]
        BY <2>4, <3>2 DEF PopRetry
      <4>3. /\ tries' \in [Threads -> 0..MaxTries] /\ tries'[t] = tries[t] + 1
            /\ \A u \in Threads \ {t} : tries'[u] = tries[u]
        BY <4>1, <4>2, PoolAssumption DEF PoolInv, PoolPlacesOK, PoolTypeOK
      <4>4. label \in {"none", "grow"} /\ Go(t, label) /\ (label = "grow" => tries'[t] < MaxTries)
        BY <2>4, <3>2, <4>3 DEF PopRetry
      <4> HIDE DEF label
      <4> QED
        BY <2>4, <3>2, <4>3, <4>4, PoolMoveInv DEF PopRetry
    <3> QED
      BY <3>1, <3>2
  <2>5. CASE PopReturnedNull(t)
    BY <2>5, PoolMoveInv DEF PopReturnedNull, PoolInv, PoolPlacesOK, PoolTypeOK
  <2>6. ASSUME NEW expect \in 1..MaxBuff, SetBufferSize(t, expect) \/ GrowBuffer(t, expect)
        PROVE  PoolInv'
    <3>1. NewBufferSize(expect) \in MinBuff..MaxBuff
      BY <2>6, NewBufferSizeFits, PoolAssumption
    <3>2. Go(t, "have")
      BY <2>6 DEF SetBufferSize, GrowBuffer, Go, PoolInv, PoolPlacesOK
    <3> QED
      BY <2>6, <3>1, <3>2, ResizeInv DEF SetBufferSize, GrowBuffer
  <2>7. CASE pc[t] = "have" /\ PushShrink(t)
    <3>1. MinBuff \in MinBuff..MaxBuff
      BY PoolAssumption
    <3> QED
      BY <2>7, <3>1, ResizeInv DEF PushShrink, ReallocBuffer
  <2>8. CASE PushLink(t)
    BY <2>8, PushLinkInv
  <2> QED
    BY <1>1, <2>1, <2>2, <2>3, <2>4, <2>5, <2>6, <2>7, <2>8 DEF Use
<1>2. CASE UNCHANGED poolVars
  BY <1>2 DEF poolVars, PoolInv, PoolPlacesOK, PoolTypeOK, WellLinked, OnChain, Ownership, Partition, TriesLeft
<1> QED
  BY <1>1, <1>2 DEF PoolNext

\* Every block of the pool has one owner, the free list or one thread, at
\* every moment of every run, however many threads and blocks there are.
THEOREM OneOwner == PoolSpec => []EachTaskHasOneOwner
<1>1. PoolInv => EachTaskHasOneOwner
  <2> SUFFICES ASSUME PoolInv PROVE EachTaskHasOneOwner
    OBVIOUS
  <2>1. NULL \notin Tasks
    BY PoolAssumption DEF Tasks
  <2>2. ASSUME NEW k \in 1..alloc
        PROVE  \/ /\ OnChain(fq, k)
                  /\ \A t \in Threads : held[t] # k
               \/ /\ ~ OnChain(fq, k)
                  /\ \E t \in Threads : held[t] = k /\ \A u \in Threads \ {t} : held[u] # k
    <3>1. k \in Tasks /\ k <= alloc
      BY PoolAssumption DEF PoolInv, PoolPlacesOK, PoolTypeOK, Tasks
    <3> QED
      BY <2>1, <3>1 DEF PoolInv, Ownership, Partition
  <2>3. ASSUME NEW k \in Tasks, k > alloc
        PROVE  ~ OnChain(fq, k) /\ \A t \in Threads : held[t] # k
    <3>1. k \in Nat /\ alloc \in Nat
      BY PoolAssumption DEF PoolInv, PoolPlacesOK, PoolTypeOK, Tasks
    <3> QED
      BY <2>1, <2>3, <3>1 DEF PoolInv, Partition
  <2> QED
    BY <2>2, <2>3 DEF PoolInv, EachTaskHasOneOwner
<1> QED
  BY <1>1, PoolInitInv, PoolNextInv, PTL DEF PoolSpec
-----------------------------------------------------------------------------
\* Whoever gives up in free_queue_pop does so for a reason.
LEMMA GivesUpStep ==
  ASSUME PoolInv, PoolNext, NEW t \in Threads, pc[t] \in {"check", "retry"}, pc'[t] = "none"
  PROVE  alloc = MaxConnections \/ tries'[t] = MaxTries
<1>1. PICK u \in Threads : Use(u)
  BY DEF PoolNext
<1>2. \A l : Go(u, l) => u = t /\ l = "none"
  BY DEF Go, PoolInv, PoolPlacesOK
<1>3. alloc \in 0..MaxConnections /\ tries \in [Threads -> 0..MaxTries]
  BY DEF PoolInv, PoolPlacesOK, PoolTypeOK
<1>4. CASE PopCheck(u)
  <2>1. u = t /\ alloc >= MaxConnections
    BY <1>2, <1>4 DEF PopCheck
  <2> QED
    BY <1>3, <2>1, PoolAssumption
<1>5. CASE PopRetry(u)
  <2>1. ~ TakeTask(u)
    BY <1>2 DEF TakeTask
  <2>2. /\ tries' = [tries EXCEPT ![u] = @ + 1]
        /\ Go(u, IF tries[u] + 1 < MaxTries THEN "grow" ELSE "none")
        /\ pc[u] = "retry"
    BY <1>5, <2>1 DEF PopRetry
  <2>3. u = t /\ ~ (tries[u] + 1 < MaxTries)
    BY <1>2, <2>2
  <2>4. tries[t] < MaxTries
    BY <2>2, <2>3 DEF PoolInv, TriesLeft
  <2> QED
    BY <1>3, <2>2, <2>3, <2>4, PoolAssumption
<1>6. CASE PopGrow(u)
  BY <1>2, <1>6 DEF PopGrow
<1>7. CASE PopReturnedNull(u) \/ PushLink(u) \/ (pc[u] = "have" /\ PushShrink(u))
  BY <1>2, <1>7 DEF PopReturnedNull, PushLink, PushShrink
<1>8. CASE \E expect \in 1..MaxBuff : SetBufferSize(u, expect) \/ GrowBuffer(u, expect)
  BY <1>8 DEF SetBufferSize, GrowBuffer
<1>9. CASE pc[u] = "idle" /\ PopFirst(u)
  BY <1>2, <1>9 DEF PopFirst, TakeTask
<1> QED
  BY <1>1, <1>4, <1>5, <1>6, <1>7, <1>8, <1>9 DEF Use

\* Whoever resizes an allocated task owns it.
LEMMA ResizeStep ==
  ASSUME PoolInv, PoolNext, NEW k \in Tasks, k <= alloc, size'[k] # size[k]
  PROVE  \E t \in Threads :
           held[t] = k /\ pc[t] = "have" /\ \A u \in Threads \ {t} : pc'[u] = pc[u]
<1>1. PICK t \in Threads : Use(t)
  BY DEF PoolNext
<1>2. k \in Nat /\ alloc \in Nat /\ size \in [Tasks -> MinBuff..MaxBuff]
  BY PoolAssumption DEF Tasks, PoolInv, PoolPlacesOK, PoolTypeOK
<1>3. \A newSize : ReallocBuffer(held[t], newSize) => held[t] = k
  BY <1>2 DEF ReallocBuffer
<1>4. \A l : Go(t, l) => \A u \in Threads \ {t} : pc'[u] = pc[u]
  BY DEF Go, PoolInv, PoolPlacesOK
<1>5. CASE PopGrow(t)
  <2>1. size' = [j \in Tasks |-> IF j \in alloc + 1..alloc' THEN MinBuff ELSE size[j]]
    BY <1>5 DEF PopGrow
  <2>2. k \notin alloc + 1..alloc'
    BY <1>2
  <2> QED
    BY <2>1, <2>2
<1>6. CASE \E expect \in 1..MaxBuff : SetBufferSize(t, expect) \/ GrowBuffer(t, expect)
  BY <1>3, <1>6 DEF SetBufferSize, GrowBuffer
<1>7. CASE pc[t] = "have" /\ PushShrink(t)
  BY <1>3, <1>4, <1>7 DEF PushShrink
<1>8. CASE PopCheck(t) \/ PopRetry(t) \/ PopReturnedNull(t) \/ PushLink(t) \/ PopFirst(t)
  BY <1>8 DEF PopCheck, PopRetry, PopReturnedNull, PushLink, PopFirst, TakeTask
<1> QED
  BY <1>1, <1>5, <1>6, <1>7, <1>8 DEF Use

\* free_queue_pop gives up only with the pool at its limit, after MaxTries
\* lost races or for want of memory, and the buffers, which are resized
\* outside every lock, change only in the hands of the task's owner.
THEOREM OwnersOnly == PoolSpec => StepsOfOwnersOnly
<1> DEFINE GivesUp == \A t \in Threads :
             pc[t] \in {"check", "retry"} /\ pc'[t] = "none" =>
               alloc = MaxConnections \/ tries'[t] = MaxTries
           Resized == \A k \in Tasks :
             k <= alloc /\ size'[k] # size[k] =>
               \E t \in Threads :
                 /\ held[t] = k
                 /\ pc[t] = "have"
                 /\ \A u \in Threads \ {t} : pc'[u] = pc[u]
<1>1. PoolInv /\ [PoolNext]_poolVars => [GivesUp]_poolVars
  BY GivesUpStep
<1>2. PoolInv /\ [PoolNext]_poolVars => [Resized]_poolVars
  BY ResizeStep
<1>3. PoolSpec => [][GivesUp]_poolVars
  BY <1>1, PoolInitInv, PoolNextInv, PTL DEF PoolSpec
<1>4. PoolSpec => [][Resized]_poolVars
  BY <1>2, PoolInitInv, PoolNextInv, PTL DEF PoolSpec
<1> QED
  BY <1>3, <1>4 DEF StepsOfOwnersOnly, GivesUpOnlyAtLimit, ResizedOnlyByOwner
-----------------------------------------------------------------------------
(* The two lists never share a task, for any number of producers and tasks,   *)
(* although both are threaded through pTask->next.                             *)

\* No task is in both lists, or in a list and in hand.
Apart ==
  /\ \A k \in Tasks : ~ (OnChain(fq, k) /\ OnChain(bq, k))
  /\ \A t \in Threads : held[t] # NULL => ~ OnChain(fq, held[t]) /\ ~ OnChain(bq, held[t])

\* What is in a list or in hand was allocated, and nothing allocated is lost.
Accounted ==
  \A k \in Tasks :
    k <= alloc <=> OnChain(fq, k) \/ OnChain(bq, k) \/ \E t \in Threads : held[t] = k

\* OnePlacePerTask alone is not inductive: that the task a thread pushes was
\* its own depends on where the thread is.
Inv ==
  /\ TypeOK /\ WellLinked(fq) /\ WellLinked(bq)
  /\ Ownership /\ Apart /\ Accounted /\ TriesLeft

\* The type invariant, spelt out.
Labels == {"idle", "enter", "check", "grow", "retry", "none", "have", "push", "notify",
           "waiting", "woken", "exit"}
QueueType == [chain : Seq(Tasks), tail : Tasks \cup {NULL}]

\* The type invariant, its record types expanded once.
LEMMA TypeFacts ==
  TypeOK <=> /\ fq \in QueueType /\ bq \in QueueType
             /\ alloc \in 0..MaxConnections
             /\ size \in [Tasks -> MinBuff..MaxBuff]
             /\ held \in [Threads -> Tasks \cup {NULL}]
             /\ tries \in [Threads -> 0..MaxTries]
             /\ pc \in [Threads -> Labels]
             /\ continue \in BOOLEAN
             /\ handler \in {"off", "terminate", "done"}
  BY DEF TypeOK, PoolTypeOK, Tasks, Labels, QueueType

\* The same of the state after a step.
LEMMA TypeFactsNext ==
  TypeOK' <=> /\ fq' \in QueueType /\ bq' \in QueueType
              /\ alloc' \in 0..MaxConnections
              /\ size' \in [Tasks -> MinBuff..MaxBuff]
              /\ held' \in [Threads -> Tasks \cup {NULL}]
              /\ tries' \in [Threads -> 0..MaxTries]
              /\ pc' \in [Threads -> Labels]
              /\ continue' \in BOOLEAN
              /\ handler' \in {"off", "terminate", "done"}
  BY DEF TypeOK, PoolTypeOK, Tasks, Labels, QueueType

\* Tasks are numbers and NULL is none.
LEMMA Numbers ==
  /\ Tasks \in SUBSET Nat /\ NULL \notin Tasks /\ NULL \notin Nat
  /\ MaxTries \in Nat \ {0} /\ MinBuff \in MinBuff..MaxBuff /\ MaxConnections \in Nat
  BY PoolAssumption DEF Tasks
-----------------------------------------------------------------------------
\* The pool starts with the first blocks, the queue empty.
LEMMA InitInv == Init => Inv
<1> SUFFICES ASSUME Init PROVE Inv
  OBVIOUS
<1> DEFINE b == Blocks(0, InitConnections)
<1>1. /\ InitConnections \in Nat \ {0} /\ 0 \in Nat /\ 1..InitConnections \subseteq Tasks
      /\ InitConnections <= MaxConnections
  BY PoolAssumption DEF Tasks
<1>2. /\ b \in Seq(Tasks) /\ b # << >> /\ Len(b) = InitConnections
      /\ \A i \in 1..Len(b) : b[i] = 0 + i
  BY <1>1 DEF Blocks
<1> HIDE DEF b
<1>3. fq = AddBlocks(EmptyQueue, b) /\ EmptyQueue.chain = << >>
  BY <1>1, <1>2 DEF Init, PoolInit, InitPool, AddBlocks, EmptyQueue, b
<1>4. /\ fq \in QueueType
      /\ WellLinked(fq)
      /\ \A k : OnChain(fq, k) <=> k \in 0 + 1..0 + InitConnections
  BY <1>1, <1>2, <1>3, Numbers, AddBlocksWellLinked DEF QueueType
<1>5. bq \in QueueType /\ WellLinked(bq) /\ \A k : ~ OnChain(bq, k)
  BY DEF Init, EmptyQueue, QueueType, WellLinked, OnChain
<1>6. /\ alloc = InitConnections /\ size = [t \in Tasks |-> MinBuff]
      /\ pc = [t \in Threads |-> "idle"] /\ held = [t \in Threads |-> NULL]
      /\ tries = [t \in Threads |-> 0]
  BY DEF Init, PoolInit, InitPool, Tasks
<1>7. TypeOK
  BY <1>1, <1>4, <1>5, <1>6, Numbers, TypeFacts DEF Init, Labels
<1>8. Ownership /\ Apart /\ TriesLeft
  BY <1>5, <1>6 DEF Ownership, Apart, TriesLeft
<1>9. Accounted
  BY <1>1, <1>4, <1>5, <1>6, Numbers DEF Accounted, Tasks
<1> QED
  BY <1>4, <1>5, <1>7, <1>8, <1>9 DEF Inv

\* A step that moves threads about, and neither a task nor a list.
LEMMA MoveInv ==
  ASSUME Inv, UNCHANGED << fq, bq, alloc, held >>,
         size' \in [Tasks -> MinBuff..MaxBuff],
         tries' \in [Threads -> 0..MaxTries], pc' \in [Threads -> Labels],
         continue' \in BOOLEAN, handler' \in {"off", "terminate", "done"},
         \A t \in Threads : /\ pc'[t] \in {"have", "push"} <=> pc[t] \in {"have", "push"}
                            /\ pc'[t] \in {"grow", "retry"} => tries'[t] < MaxTries
  PROVE  Inv'
<1>1. TypeOK'
  BY TypeFacts, TypeFactsNext DEF Inv
<1>2. WellLinked(fq') /\ WellLinked(bq')
  BY DEF Inv
<1>3. Ownership'
  BY DEF Inv, Ownership
<1>4. Apart' /\ Accounted'
  BY DEF Inv, Apart, Accounted, OnChain
<1>5. TriesLeft'
  BY DEF TriesLeft
<1> QED
  BY <1>1, <1>2, <1>3, <1>4, <1>5 DEF Inv

\* A thread that holds nothing takes the head of a list.  As the two lists
\* are alike here, q is the one it takes from and r the other.
LEMMA TakeInv ==
  ASSUME Inv, NEW t \in Threads, pc[t] \notin {"have", "push"},
         NEW q, NEW r, q.chain # << >>,
         \/ q = fq /\ r = bq /\ fq' = PopHead(q) /\ bq' = r
         \/ q = bq /\ r = fq /\ bq' = PopHead(q) /\ fq' = r,
         held' = [held EXCEPT ![t] = Head(q.chain)], pc' = [pc EXCEPT ![t] = "have"],
         UNCHANGED << alloc, size, tries, continue, handler >>
  PROVE  Inv'
<1> DEFINE k == Head(q.chain)
           q2 == PopHead(q)
<1>1. q \in QueueType /\ WellLinked(q) /\ q.chain # << >>
  BY TypeFacts DEF Inv
<1>2. q2 \in QueueType /\ WellLinked(q2) /\ k \in Tasks
  BY <1>1, PopHeadWellLinked, Numbers DEF QueueType
<1>3. /\ OnChain(q, k)
      /\ \A j : OnChain(q2, j) <=> OnChain(q, j) /\ j # k
  BY <1>1, PopHeadOnChain, Numbers DEF QueueType
<1> HIDE DEF k, q2
<1>4. \A u \in Threads : held[u] # k
  BY <1>2, <1>3, Numbers DEF Inv, Apart
<1>5. ~ OnChain(r, k)
  BY <1>2, <1>3 DEF Inv, Apart
<1>6. k <= alloc
  BY <1>2, <1>3 DEF Inv, Accounted
<1>7. held' = [held EXCEPT ![t] = k] /\ held \in [Threads -> Tasks \cup {NULL}]
      /\ held[t] = NULL
  BY TypeFacts DEF k, Inv, Ownership
<1>8. \A j : /\ OnChain(fq', j) \/ OnChain(bq', j)
               <=> (OnChain(fq, j) \/ OnChain(bq, j)) /\ j # k
             /\ OnChain(fq', j) => OnChain(fq, j)
             /\ OnChain(bq', j) => OnChain(bq, j)
  BY <1>3, <1>5 DEF q2
<1>9. TypeOK' /\ WellLinked(fq') /\ WellLinked(bq')
  BY <1>2, <1>7, TypeFacts, TypeFactsNext DEF q2, Inv, Labels
<1>10. Ownership'
  BY <1>2, <1>4, <1>7, Numbers, TypeFacts DEF Inv, Ownership
<1>11. Apart'
  BY <1>2, <1>7, <1>8 DEF Inv, Apart
<1>12. Accounted'
  <2>1. \A j \in Tasks : (\E u \in Threads : held'[u] = j) <=> j = k \/ \E u \in Threads : held[u] = j
    BY <1>2, <1>7, Numbers
  <2> QED
    BY <1>2, <1>6, <1>8, <2>1 DEF Inv, Accounted
<1>13. TriesLeft'
  BY TypeFacts DEF Inv, TriesLeft
<1> QED
  BY <1>9, <1>10, <1>11, <1>12, <1>13 DEF Inv

\* A thread puts the task it holds into a list, at whichever end.
LEMMA GiveInv ==
  ASSUME Inv, NEW t \in Threads, pc[t] \in {"have", "push"},
         fq' \in QueueType, bq' \in QueueType, WellLinked(fq'), WellLinked(bq'),
         \/ /\ \A j : OnChain(fq', j) <=> j = held[t] \/ OnChain(fq, j)
            /\ bq' = bq
         \/ /\ \A j : OnChain(bq', j) <=> j = held[t] \/ OnChain(bq, j)
            /\ fq' = fq,
         held' = [held EXCEPT ![t] = NULL],
         NEW label \in {"idle", "notify"}, pc' = [pc EXCEPT ![t] = label],
         UNCHANGED << alloc, size, tries, continue, handler >>
  PROVE  Inv'
<1> DEFINE k == held[t]
<1>1. k \in Tasks /\ held \in [Threads -> Tasks \cup {NULL}]
  BY TypeFacts DEF Inv, Ownership
<1>2. ~ OnChain(fq, k) /\ ~ OnChain(bq, k) /\ \A u \in Threads \ {t} : held[u] # k
  BY <1>1, Numbers DEF Inv, Ownership, Apart
<1>3. k <= alloc
  BY <1>1 DEF Inv, Accounted
<1> HIDE DEF k
<1>4. \A j : /\ OnChain(fq', j) \/ OnChain(bq', j)
               <=> OnChain(fq, j) \/ OnChain(bq, j) \/ j = k
             /\ OnChain(fq', j) /\ OnChain(bq', j) => OnChain(fq, j) /\ OnChain(bq, j)
  BY <1>2 DEF k
<1>5. TypeOK'
  BY <1>1, TypeFacts, TypeFactsNext DEF Inv, Labels
<1>6. Ownership'
  BY <1>1, TypeFacts DEF Inv, Ownership
<1>7. Apart'
  BY <1>1, <1>2, <1>4 DEF Inv, Apart
<1>8. Accounted'
  <2>1. \A j \in Tasks : (\E u \in Threads : held[u] = j) <=> j = k \/ \E u \in Threads : held'[u] = j
    BY <1>1, Numbers DEF k
  <2> QED
    BY <1>1, <1>3, <1>4, <2>1 DEF Inv, Accounted
<1>9. TriesLeft'
  BY TypeFacts DEF Inv, TriesLeft
<1> QED
  BY <1>5, <1>6, <1>7, <1>8, <1>9 DEF Inv
-----------------------------------------------------------------------------
\* The step of free_queue_pop that takes a task, wherever it is tried.
LEMMA TakeTaskInv ==
  ASSUME Inv, NEW t \in Threads, pc[t] \notin {"have", "push"}, TakeTask(t),
         UNCHANGED << bq, continue, handler >>
  PROVE  Inv'
<1>1. /\ fq.chain # << >> /\ fq' = PopHead(fq)
      /\ held' = [held EXCEPT ![t] = Head(fq.chain)] /\ pc' = [pc EXCEPT ![t] = "have"]
      /\ UNCHANGED << alloc, size, tries >>
  BY DEF TakeTask, PopHead, Go
<1> QED
  BY <1>1, TakeInv

\* One thread moves on without a task and may count a try.
LEMMA GoInv ==
  ASSUME Inv, NEW t \in Threads, pc[t] \notin {"have", "push"},
         NEW label \in Labels \ {"have", "push"}, pc' = [pc EXCEPT ![t] = label],
         UNCHANGED << fq, bq, alloc, size, held, continue, handler >>,
         tries' \in [Threads -> 0..MaxTries],
         \A u \in Threads \ {t} : tries'[u] = tries[u],
         label \in {"grow", "retry"} => tries'[t] < MaxTries
  PROVE  Inv'
<1>1. pc' \in [Threads -> Labels] /\ pc'[t] = label /\ \A u \in Threads \ {t} : pc'[u] = pc[u]
  BY TypeFacts DEF Inv
<1>2. \A u \in Threads : /\ pc'[u] \in {"have", "push"} <=> pc[u] \in {"have", "push"}
                         /\ pc'[u] \in {"grow", "retry"} => tries'[u] < MaxTries
  BY <1>1 DEF Inv, TriesLeft
<1> QED
  BY <1>1, <1>2, MoveInv, TypeFacts DEF Inv

\* free_queue_realloc links blocks nobody has seen before.
LEMMA GrowInv ==
  ASSUME Inv, NEW t \in Threads, PopGrow(t), UNCHANGED << bq, continue, handler >>
  PROVE  Inv'
<1>1. CASE UNCHANGED << fq, alloc, size >> /\ (Go(t, "retry") \/ Go(t, "none"))
  BY <1>1, GoInv, TypeFacts DEF PopGrow, Go, Inv, TriesLeft, Labels
<1>2. CASE /\ fq.chain = << >> /\ alloc < MaxConnections
           /\ fq' = AddBlocks(fq, Blocks(alloc, alloc + AllocCount))
           /\ alloc' = alloc + AllocCount
           /\ size' = [k \in Tasks |-> IF k \in alloc + 1..alloc' THEN MinBuff ELSE size[k]]
           /\ Go(t, "retry")
  <2> DEFINE n == AllocCount
             b == Blocks(alloc, alloc + n)
  <2>1. alloc \in Nat /\ n \in Nat \ {0} /\ alloc + n <= MaxConnections
    <3>1. alloc \in 0..MaxConnections
      BY TypeFacts DEF Inv
    <3> QED
      BY <1>2, <3>1, PoolAssumption DEF AllocCount
  <2> HIDE DEF n
  <2>2. alloc + 1..alloc + n \subseteq Tasks
    BY <2>1, Numbers DEF Tasks
  <2>3. b \in Seq(Tasks) /\ b # << >> /\ Len(b) = n /\ \A i \in 1..Len(b) : b[i] = alloc + i
    BY <2>1, <2>2 DEF Blocks
  <2> HIDE DEF b
  <2>4. /\ fq' \in QueueType
        /\ WellLinked(fq')
        /\ \A k : OnChain(fq', k) <=> k \in alloc + 1..alloc + n
    <3>1. fq' = AddBlocks(fq, b) /\ fq.chain = << >>
      BY <1>2 DEF b, n, AddBlocks
    <3> QED
      BY <3>1, <2>1, <2>2, <2>3, Numbers, AddBlocksWellLinked DEF QueueType
  <2>5. /\ alloc' = alloc + n /\ UNCHANGED << held, tries >>
        /\ pc[t] = "grow" /\ pc' = [pc EXCEPT ![t] = "retry"]
        /\ size' = [k \in Tasks |-> IF k \in alloc + 1..alloc' THEN MinBuff ELSE size[k]]
    BY <1>2 DEF n, PopGrow, Go, Tasks
  <2>6. \A k : ~ OnChain(fq, k)
    BY <1>2 DEF OnChain
  <2>7. TypeOK'
    <3>1. alloc' \in 0..MaxConnections
      BY <2>1, <2>5, Numbers
    <3>2. size' \in [Tasks -> MinBuff..MaxBuff] /\ pc' \in [Threads -> Labels]
      BY <2>5, Numbers, TypeFacts DEF Inv, Labels
    <3> QED
      BY <2>4, <2>5, <3>1, <3>2, TypeFacts, TypeFactsNext DEF Inv
  <2>8. Ownership'
    BY <2>5, TypeFacts DEF Inv, Ownership
  <2>9. \A k \in Tasks : k \in alloc + 1..alloc + n => ~ OnChain(bq, k) /\ \A u \in Threads : held[u] # k
    BY <2>1, Numbers DEF Inv, Accounted
  <2>10. Apart'
    BY <2>2, <2>4, <2>5, <2>6, <2>9, TypeFacts, Numbers DEF Inv, Apart
  <2>11. Accounted'
    <3>1. ASSUME NEW k \in Tasks
          PROVE  k <= alloc' <=> k <= alloc \/ k \in alloc + 1..alloc + n
      BY <2>1, <2>5, Numbers
    <3> QED
      BY <2>4, <2>5, <2>6, <3>1 DEF Inv, Accounted
  <2>12. TriesLeft'
    BY <2>5, TypeFacts DEF Inv, TriesLeft
  <2> QED
    BY <2>4, <2>7, <2>8, <2>10, <2>11, <2>12 DEF Inv
<1> QED
  BY <1>1, <1>2 DEF PopGrow

\* free_queue_pop and free_queue_push, as the test uses them.
LEMMA PoolStepInv ==
  ASSUME Inv, NEW t \in Threads, PoolStep(t)
  PROVE  Inv'
<1>1. UNCHANGED << bq, continue, handler >>
  BY DEF PoolStep
<1>2. CASE t # Main /\ pc[t] = "enter" /\ PopFirst(t)
  <2>1. CASE TakeTask(t)
    BY <1>1, <1>2, <2>1, TakeTaskInv
  <2>2. CASE ~ TakeTask(t)
    BY <1>1, <1>2, <2>2, GoInv, TypeFacts DEF PopFirst, Go, Inv, Labels
  <2> QED
    BY <2>1, <2>2
<1>3. CASE PopCheck(t)
  <2> DEFINE label == IF alloc >= MaxConnections THEN "none" ELSE "grow"
  <2>1. /\ tries' \in [Threads -> 0..MaxTries] /\ tries'[t] = 0 /\ 0 < MaxTries
        /\ \A u \in Threads \ {t} : tries'[u] = tries[u]
    BY <1>3, Numbers, TypeFacts DEF PopCheck, Inv
  <2>2. /\ label \in Labels \ {"have", "push"} /\ pc' = [pc EXCEPT ![t] = label]
        /\ pc[t] = "check" /\ UNCHANGED << fq, alloc, size, held >>
    BY <1>3 DEF PopCheck, Go, Labels
  <2> HIDE DEF label
  <2> QED
    BY <1>1, <2>1, <2>2, GoInv
<1>4. CASE PopGrow(t)
  BY <1>1, <1>4, GrowInv
<1>5. CASE PopRetry(t)
  <2>1. CASE TakeTask(t)
    BY <1>1, <1>5, <2>1, TakeTaskInv DEF PopRetry
  <2>2. CASE ~ TakeTask(t)
    <3> DEFINE label == IF tries[t] + 1 < MaxTries THEN "grow" ELSE "none"
    <3>1. /\ tries' = [tries EXCEPT ![t] = @ + 1] /\ pc' = [pc EXCEPT ![t] = label]
          /\ pc[t] = "retry" /\ UNCHANGED << fq, alloc, size, held >>
      BY <1>5, <2>2 DEF PopRetry, Go
    <3>2. tries[t] \in 0..MaxTries /\ tries[t] < MaxTries /\ tries \in [Threads -> 0..MaxTries]
      BY <3>1, TypeFacts DEF Inv, TriesLeft
    <3>3. /\ tries' \in [Threads -> 0..MaxTries] /\ tries'[t] = tries[t] + 1
          /\ \A u \in Threads \ {t} : tries'[u] = tries[u]
      BY <3>1, <3>2, Numbers
    <3>4. label \in Labels \ {"have", "push"} /\ (label = "grow" => tries'[t] < MaxTries)
          /\ label # "retry"
      BY <3>3 DEF Labels
    <3> HIDE DEF label
    <3> QED
      BY <1>1, <3>1, <3>3, <3>4, GoInv
  <2> QED
    BY <2>1, <2>2
<1>6. CASE PopReturnedNull(t)
  BY <1>1, <1>6, GoInv, TypeFacts DEF PopReturnedNull, Go, Inv, Labels
<1>7. CASE t = Main /\ pc[t] = "have" /\ PushShrink(t)
  <2>1. /\ UNCHANGED << fq, alloc, held, tries >> /\ pc' = [pc EXCEPT ![t] = "push"]
        /\ size' = size \/ size' = [size EXCEPT ![held[t]] = MinBuff]
    BY <1>7 DEF PushShrink, Go, ReallocBuffer
  <2>2. size' \in [Tasks -> MinBuff..MaxBuff] /\ pc' \in [Threads -> Labels]
    BY <2>1, Numbers, TypeFacts DEF Inv, Labels
  <2>3. \A u \in Threads : /\ pc'[u] \in {"have", "push"} <=> pc[u] \in {"have", "push"}
                           /\ pc'[u] \in {"grow", "retry"} => tries'[u] < MaxTries
    BY <1>7, <2>1, TypeFacts DEF Inv, TriesLeft
  <2> QED
    BY <1>1, <2>1, <2>2, <2>3, MoveInv, TypeFacts DEF Inv
<1>8. CASE PushLink(t)
  <2>1. /\ fq' = PushHead(fq, held[t]) /\ held' = [held EXCEPT ![t] = NULL]
        /\ pc[t] = "push" /\ pc' = [pc EXCEPT ![t] = "idle"]
        /\ UNCHANGED << alloc, size, tries >>
    BY <1>8 DEF PushLink, Go, PushHead
  <2>2. held[t] \in Tasks /\ ~ OnChain(fq, held[t]) /\ fq \in QueueType /\ WellLinked(fq)
    BY <2>1, TypeFacts DEF Inv, Ownership, Apart
  <2>3. /\ fq' \in QueueType /\ WellLinked(fq')
        /\ \A j : OnChain(fq', j) <=> j = held[t] \/ OnChain(fq, j)
    BY <2>1, <2>2, Numbers, PushHeadWellLinked DEF QueueType
  <2> QED
    BY <1>1, <2>1, <2>3, GiveInv, TypeFacts DEF Inv
<1> QED
  BY <1>2, <1>3, <1>4, <1>5, <1>6, <1>7, <1>8 DEF PoolStep

\* blocked_queue_push hands over a task that is in neither list.
LEMMA BlockedPushInv ==
  ASSUME Inv, NEW t \in Threads, BlockedPush(t)
  PROVE  Inv'
<1> DEFINE k == held[t]
           label == IF bq.tail = NULL THEN "notify" ELSE "idle"
<1>1. /\ pc[t] = "have" /\ held' = [held EXCEPT ![t] = NULL] /\ pc' = [pc EXCEPT ![t] = label]
      /\ label \in {"idle", "notify"} /\ bq' = PushTail(bq, k)
      /\ UNCHANGED << fq, alloc, size, tries, continue, handler >>
  BY DEF BlockedPush, Go, pool
<1>2. k \in Tasks /\ ~ OnChain(bq, k) /\ bq \in QueueType /\ WellLinked(bq) /\ bq.chain \in Seq(Tasks)
  BY <1>1, TypeFacts DEF Inv, Ownership, Apart, QueueType
<1>3. \A i \in 1..Len(bq.chain) : bq.chain[i] # k
  BY <1>2 DEF OnChain
<1> HIDE DEF k, label
<1>4. bq' = [chain |-> Append(bq.chain, k), tail |-> k]
  BY <1>1, <1>2, Numbers, PushTailAppends DEF QueueType
<1>5. bq' \in QueueType /\ WellLinked(bq')
  BY <1>2, <1>3, <1>4, Numbers, AppendWellLinked DEF QueueType
<1>6. \A j : OnChain(bq', j) <=> j = k \/ OnChain(bq, j)
  BY <1>2, <1>4, AppendOnChain DEF OnChain
<1>7. /\ fq' \in QueueType /\ WellLinked(fq') /\ fq' = fq
  BY <1>1, TypeFacts DEF Inv
<1> QED
  BY <1>1, <1>5, <1>6, <1>7, GiveInv DEF k

\* blocked_queue_pop, the waits and the wakeups.
LEMMA OtherInv ==
  ASSUME Inv,
         \/ BlockedPop \/ SpuriousWakeup \/ CatchSignal \/ BlockedQueueTerminate
         \/ \E t \in Threads : CheckFlag(t) \/ Notify(t)
  PROVE  Inv'
<1>1. Main \in Threads /\ pc \in [Threads -> Labels] /\ tries \in [Threads -> 0..MaxTries]
      /\ continue \in BOOLEAN /\ handler \in {"off", "terminate", "done"}
  BY TypeFacts, PipelineAssumption DEF Inv
<1>2. ASSUME UNCHANGED << fq, bq, alloc, size, held, tries >>,
             continue' \in BOOLEAN, handler' \in {"off", "terminate", "done"},
             pc' \in [Threads -> Labels],
             \A u \in Threads :
               \/ pc'[u] = pc[u]
               \/ pc[u] \notin {"have", "push"} /\ pc'[u] \notin {"have", "push", "grow", "retry"}
      PROVE  Inv'
  BY <1>2, MoveInv, TypeFacts DEF Inv, TriesLeft
<1>3. CASE BlockedPop
  <2>1. CASE bq.chain # << >>
    BY <1>1, <1>3, <2>1, TakeInv DEF BlockedPop, Go, pool
  <2>2. CASE bq.chain = << >>
    BY <1>1, <1>2, <1>3, <2>2 DEF BlockedPop, Go, pool, Labels
  <2> QED
    BY <2>1, <2>2
<1>4. CASE SpuriousWakeup
  BY <1>1, <1>2, <1>4 DEF SpuriousWakeup, Go, pool, Labels
<1>5. CASE CatchSignal
  BY <1>1, <1>2, <1>5 DEF CatchSignal, pool
<1>6. CASE BlockedQueueTerminate
  BY <1>1, <1>2, <1>6 DEF BlockedQueueTerminate, Wake, pool, Labels
<1>7. ASSUME NEW t \in Threads, CheckFlag(t) PROVE Inv'
  BY <1>1, <1>2, <1>7 DEF CheckFlag, Go, pool, Labels
<1>8. ASSUME NEW t \in Threads, Notify(t) PROVE Inv'
  BY <1>1, <1>2, <1>8 DEF Notify, Wake, pool, Labels
<1> QED
  BY <1>3, <1>4, <1>5, <1>6, <1>7, <1>8

\* The invariant is inductive.
LEMMA NextInv == Inv /\ [Next]_vars => Inv'
<1> SUFFICES ASSUME Inv, [Next]_vars PROVE Inv'
  OBVIOUS
<1>1. ASSUME NEW t \in Threads, Step(t) PROVE Inv'
  BY <1>1, PoolStepInv, BlockedPushInv, OtherInv DEF Step
<1>2. CASE UNCHANGED vars
  BY <1>2, MoveInv, TypeFacts DEF vars, poolVars, Inv, TriesLeft
<1> QED
  BY <1>1, <1>2, OtherInv, PipelineAssumption DEF Next, MainStep

\* A task that is in one place has one member in Places.
LEMMA InvOnePlace == Inv => OnePlacePerTask
<1> SUFFICES ASSUME Inv, NEW k \in Tasks
             PROVE  IF k <= alloc THEN Cardinality(Places(k)) = 1 ELSE Places(k) = {}
  BY DEF OnePlacePerTask, Inv, Tasks
<1>1. CASE ~ (k <= alloc)
  BY <1>1 DEF Inv, Accounted, Places
<1>2. CASE k <= alloc
  <2>1. \E x : Places(k) = {x}
    <3>1. CASE OnChain(fq, k)
      <4>1. ~ OnChain(bq, k) /\ \A t \in Threads : held[t] # k
        BY <3>1, Numbers DEF Inv, Apart
      <4>2. Places(k) = {"pool"}
        BY <3>1, <4>1 DEF Places
      <4> QED
        BY <4>2
    <3>2. CASE OnChain(bq, k)
      <4>1. ~ OnChain(fq, k) /\ \A t \in Threads : held[t] # k
        BY <3>2, Numbers DEF Inv, Apart
      <4>2. Places(k) = {"queue"}
        BY <3>2, <4>1 DEF Places
      <4> QED
        BY <4>2
    <3>3. CASE \E t \in Threads : held[t] = k
      <4>1. PICK t \in Threads : held[t] = k
        BY <3>3
      <4>2. ~ OnChain(fq, k) /\ ~ OnChain(bq, k) /\ \A u \in Threads : held[u] = k => u = t
        BY <4>1, Numbers DEF Inv, Apart, Ownership
      <4>3. Places(k) = {t}
        BY <4>1, <4>2 DEF Places
      <4> QED
        BY <4>3
    <3> QED
      BY <1>2, <3>1, <3>2, <3>3 DEF Inv, Accounted
  <2> QED
    BY <1>2, <2>1, FS_Singleton
<1> QED
  BY <1>1, <1>2

\* Every allocated task is at every moment in exactly one of the pool, the
\* blocked queue and the hands of one thread, so that the two lists that run
\* through pTask->next never splice into each other.
THEOREM OnePlace == Spec => []OnePlacePerTask
  BY InitInv, NextInv, InvOnePlace, PTL DEF Spec
=============================================================================
