----------------------------- MODULE FreeQueue -----------------------------
(***************************************************************************)
(* The pool of task objects of fast_task_queue.c (g_free_queue): threads   *)
(* take a task with free_queue_pop, resize its buffer, and give it back    *)
(* with free_queue_push.  The pool starts with InitConnections tasks and   *)
(* grows by AllocTaskOnce at a time up to MaxConnections.                  *)
(*                                                                         *)
(* A task is the number of its block, in the order of allocation.  Code    *)
(* under g_free_queue.lock is one action; free_queue_pop is four, since it *)
(* takes the lock anew for every attempt and reads alloc_connections once  *)
(* without it.                                                             *)
(***************************************************************************)
EXTENDS LinkedQueue

CONSTANTS
  Threads,          \* the threads that use the pool
  MaxConnections,   \* g_free_queue.max_connections
  InitConnections,  \* tasks allocated by free_queue_init_ex
  AllocTaskOnce,    \* g_free_queue.alloc_task_once
  MaxTries,         \* attempts of free_queue_pop after growing (10)
  MinBuff, MaxBuff  \* g_free_queue.min_buff_size, max_buff_size, aligned

ASSUME PoolAssumption ==
  /\ MaxConnections \in Nat /\ InitConnections \in 1..MaxConnections
  /\ AllocTaskOnce \in Nat \ {0}
  /\ MaxTries \in Nat \ {0}
  /\ MinBuff \in Nat \ {0} /\ MaxBuff \in Nat /\ MinBuff <= MaxBuff
  /\ NULL \notin Nat

VARIABLES
  fq,        \* g_free_queue.head chain and tail
  alloc,     \* g_free_queue.alloc_connections
  size,      \* pTask->size of every task
  pc,        \* where each thread is
  held,      \* the task a thread owns
  tries      \* the counter i of free_queue_pop

poolVars == << fq, alloc, size, pc, held, tries >>

Tasks == 1..MaxConnections

\* The blocks from number a + 1 to number b, linked in order by malloc_mpool.
Blocks(a, b) == [i \in 1..(b - a) |-> a + i]

InitPool ==
  /\ fq = [chain |-> Blocks(0, InitConnections), tail |-> InitConnections]
  /\ alloc = InitConnections
  /\ size = [t \in Tasks |-> MinBuff]

PoolInit ==
  /\ InitPool
  /\ pc = [t \in Threads |-> "idle"]
  /\ held = [t \in Threads |-> NULL]
  /\ tries = [t \in Threads |-> 0]

Go(t, label) == pc' = [pc EXCEPT ![t] = label]

-----------------------------------------------------------------------------
\* task_queue_pop(&g_free_queue), with where to go when the queue is empty.
TakeTask(t) ==
  /\ fq.chain # << >>
  /\ held' = [held EXCEPT ![t] = Head(fq.chain)]
  /\ fq' = PopHead(fq)
  /\ Go(t, "have")
  /\ UNCHANGED << alloc, size, tries >>

\* free_queue_pop: the first attempt.
PopFirst(t) ==
  \/ TakeTask(t)
  \/ /\ fq.chain = << >>
     /\ Go(t, "check")
     /\ UNCHANGED << fq, alloc, size, held, tries >>

\* free_queue_pop: alloc_connections is read here without the lock.
PopCheck(t) ==
  /\ pc[t] = "check"
  /\ Go(t, IF alloc >= MaxConnections THEN "none" ELSE "grow")
  /\ tries' = [tries EXCEPT ![t] = 0]
  /\ UNCHANGED << fq, alloc, size, held >>

\* free_queue_realloc: how many blocks the next malloc_mpool gets.
AllocCount ==
  IF MaxConnections - alloc > AllocTaskOnce THEN AllocTaskOnce ELSE MaxConnections - alloc

\* free_queue_pop: one turn of the loop under the lock.  malloc_mpool may
\* fail, and then the pop returns NULL.
PopGrow(t) ==
  /\ pc[t] = "grow"
  /\ \/ /\ fq.chain # << >>
        /\ Go(t, "retry")
        /\ UNCHANGED << fq, alloc, size >>
     \/ /\ fq.chain = << >>
        /\ Go(t, "none")
        /\ UNCHANGED << fq, alloc, size >>
     \/ /\ fq.chain = << >>
        /\ alloc < MaxConnections
        /\ fq' = AddBlocks(fq, Blocks(alloc, alloc + AllocCount))
        /\ alloc' = alloc + AllocCount
        /\ size' = [k \in Tasks |-> IF k \in alloc + 1..alloc' THEN MinBuff ELSE size[k]]
        /\ Go(t, "retry")
  /\ UNCHANGED << held, tries >>

\* Mutant: one lost race ends the pop.
PopRetryOnce(t) ==
  /\ pc[t] = "retry"
  /\ \/ TakeTask(t)
     \/ /\ fq.chain = << >>
        /\ Go(t, "none")
        /\ UNCHANGED << fq, alloc, size, held, tries >>

\* free_queue_pop: the attempt after the loop's turn; another thread may have
\* emptied the queue in between, and after MaxTries turns the pop gives up.
PopRetry(t) ==
  /\ pc[t] = "retry"
  /\ \/ TakeTask(t)
     \/ /\ fq.chain = << >>
        /\ tries' = [tries EXCEPT ![t] = @ + 1]
        /\ Go(t, IF tries[t] + 1 < MaxTries THEN "grow" ELSE "none")
        /\ UNCHANGED << fq, alloc, size, held >>

-----------------------------------------------------------------------------
\* task_queue_get_new_buffer_size: the smallest MinBuff * 2^k that holds
\* `expect' bytes, but at most MaxBuff; defined when the queue resizes at all
\* (MinBuff < MaxBuff) and expect <= MaxBuff.
Resizable(expect) == MinBuff # MaxBuff /\ expect <= MaxBuff

\* Mutant: the doubled size is not cut to MaxBuff.
NewBufferSizeUncut(expect) ==
  IF expect <= MinBuff THEN MinBuff
  ELSE MinBuff * 2^(CHOOSE k \in 1..expect :
                      MinBuff * 2^k >= expect /\ MinBuff * 2^(k - 1) < expect)

NewBufferSize(expect) ==
  LET doubled == {MinBuff * 2^k : k \in 0..expect}
      fitting == {s \in MinBuff..MaxBuff : s \in doubled /\ s >= expect}
  IN  IF fitting = {} THEN MaxBuff ELSE CHOOSE s \in fitting : \A r \in fitting : s <= r

\* _realloc_buffer: a failed malloc leaves the old buffer in place.
ReallocBuffer(task, newSize) ==
  \/ size' = [size EXCEPT ![task] = newSize]
  \/ UNCHANGED size

\* free_queue_set_buffer_size: grow or shrink to what `expect' needs.
SetBufferSize(t, expect) ==
  /\ pc[t] = "have"
  /\ Resizable(expect)
  /\ size[held[t]] # NewBufferSize(expect)
  /\ ReallocBuffer(held[t], NewBufferSize(expect))
  /\ UNCHANGED << fq, alloc, pc, held, tries >>

\* free_queue_realloc_buffer: only ever grows.
GrowBuffer(t, expect) ==
  /\ pc[t] = "have"
  /\ size[held[t]] < expect
  /\ Resizable(expect)
  /\ ReallocBuffer(held[t], NewBufferSize(expect))
  /\ UNCHANGED << fq, alloc, pc, held, tries >>

-----------------------------------------------------------------------------
\* free_queue_push, the part before the lock: the buffer of a task that has
\* grown is cut back to MinBuff.
PushShrink(t) ==
  /\ IF size[held[t]] > MinBuff
     THEN ReallocBuffer(held[t], MinBuff)
     ELSE UNCHANGED size
  /\ Go(t, "push")
  /\ UNCHANGED << fq, alloc, held, tries >>

\* free_queue_push, under the lock: the task goes to the head.
PushLink(t) ==
  /\ pc[t] = "push"
  /\ fq' = PushHead(fq, held[t])
  /\ held' = [held EXCEPT ![t] = NULL]
  /\ Go(t, "idle")
  /\ UNCHANGED << alloc, size, tries >>

\* The caller of a pop that returned NULL goes on without a task.
PopReturnedNull(t) ==
  /\ pc[t] = "none"
  /\ Go(t, "idle")
  /\ UNCHANGED << fq, alloc, size, held, tries >>

-----------------------------------------------------------------------------
Use(t) ==
  \/ pc[t] = "idle" /\ PopFirst(t)
  \/ PopCheck(t) \/ PopGrow(t) \/ PopRetry(t) \/ PopReturnedNull(t)
  \/ \E expect \in 1..MaxBuff : SetBufferSize(t, expect) \/ GrowBuffer(t, expect)
  \/ pc[t] = "have" /\ PushShrink(t)
  \/ PushLink(t)

PoolNext == \E t \in Threads : Use(t)

PoolSpec == PoolInit /\ [][PoolNext]_poolVars

-----------------------------------------------------------------------------
\* The pool never grows past max_connections, and the buffers of its tasks
\* stay between min_buff_size and max_buff_size whatever sizes are asked for.
PoolTypeOK ==
  /\ fq \in [chain : Seq(Tasks), tail : Tasks \cup {NULL}]
  /\ alloc \in 0..MaxConnections
  /\ size \in [Tasks -> MinBuff..MaxBuff]
  /\ held \in [Threads -> Tasks \cup {NULL}]
  /\ tries \in [Threads -> 0..MaxTries]

\* The same, with the places a thread can be in.
PoolPlacesOK ==
  /\ PoolTypeOK
  /\ pc \in [Threads -> {"idle", "check", "grow", "retry", "have", "none", "push"}]

\* Threads race through free_queue_pop, one growing the pool while others
\* take what it added: every task allocated is at each moment either on the
\* free list or owned by exactly one thread, and never both.
EachTaskHasOneOwner ==
  /\ PoolPlacesOK
  /\ WellLinked(fq)
  /\ \A k \in 1..alloc :
       \/ /\ OnChain(fq, k)
          /\ \A t \in Threads : held[t] # k
       \/ /\ ~ OnChain(fq, k)
          /\ \E t \in Threads : held[t] = k /\ \A u \in Threads \ {t} : held[u] # k
  /\ \A k \in Tasks : k > alloc => ~ OnChain(fq, k) /\ \A t \in Threads : held[t] # k

\* A pop that gave up although the pool may still grow lost MaxTries races in
\* a row or met a failed malloc; without either, running dry means that every
\* task there can be is allocated.
GivesUpOnlyAtLimit ==
  [][\A t \in Threads :
       pc[t] \in {"check", "retry"} /\ pc'[t] = "none" =>
         alloc = MaxConnections \/ tries'[t] = MaxTries]_poolVars

\* Buffers are resized outside the lock, in free_queue_push too (before it
\* locks): that is safe only because nobody but the thread that owns the task
\* touches it.  When the size of an allocated task changes, one thread holds
\* it and every other thread stands still in that step.
ResizedOnlyByOwner ==
  [][\A k \in Tasks :
       k <= alloc /\ size'[k] # size[k] =>
         \E t \in Threads :
           /\ held[t] = k
           /\ pc[t] = "have"
           /\ \A u \in Threads \ {t} : pc'[u] = pc[u]]_poolVars

\* Both at once: who gives up, and who resizes.
StepsOfOwnersOnly == GivesUpOnlyAtLimit /\ ResizedOnlyByOwner
=============================================================================
