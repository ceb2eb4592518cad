----------------------------- MODULE ThreadPool -----------------------------
(***************************************************************************)
(* pthread_pool.c: callers hand a job to an idle worker or to a new one,   *)
(* workers put themselves back on pool->list and sleep, and                *)
(* threadpool_destroy waits for the jobs, stops the workers and frees the  *)
(* pool.                                                                   *)
(*                                                                         *)
(* A critical section of pool->mutex_locker is one action, except where    *)
(* the code takes a worker's own mutex inside it: there poolLock names the *)
(* holder.  A worker holds its own mutex at "push" and "pushed".           *)
(***************************************************************************)
EXTENDS Naturals, Sequences, FiniteSets, FiniteSetTheorems, SequenceTheorems, TLAPS

CONSTANTS
  Workers,    \* the threads the system can supply
  Callers,    \* threads that call threadpool_run
  Jobs,       \* (func, arg) pairs; each is handed in once
  Destroyer,  \* the thread that calls threadpool_destroy
  TotalSize,  \* pool->total_size
  NULL

ASSUME PoolAssumption ==
  /\ TotalSize \in Nat \ {0}
  /\ NULL \notin Workers \cup Callers \cup Jobs \cup {Destroyer}
  /\ Destroyer \notin Callers

VARIABLES
  state,      \* pool->state; "freed" when pool is NULL again
  list,       \* pool->list[0 .. current_index - 1]
  size,       \* pool->current_size
  poolLock,   \* the thread that keeps pool->mutex_locker between actions
  wpc, job,   \* of each worker: its place, and thread->func with its arg
  cpc, picked, asked,  \* of each caller: its place, the worker it took, its job
  dpc, i,     \* threadpool_destroy: its place and loop counter
  answer,     \* what threadpool_run said of each job
  runs        \* history: how often each job was run

vars == << state, list, size, poolLock, wpc, job, cpc, picked, asked, dpc, i, answer, runs >>

Init ==
  /\ state = "initialized" /\ list = << >> /\ size = 0 /\ poolLock = NULL
  /\ wpc = [w \in Workers |-> "none"] /\ job = [w \in Workers |-> NULL]
  /\ cpc = [c \in Callers |-> "idle"]
  /\ picked = [c \in Callers |-> NULL] /\ asked = [c \in Callers |-> NULL]
  /\ dpc = "no" /\ i = 1
  /\ answer = [j \in Jobs |-> "new"]
  /\ runs = [j \in Jobs |-> 0]

Listed(w) == \E k \in 1..Len(list) : list[k] = w
OwnMutexHeld(w) == wpc[w] \in {"push", "pushed"}

-----------------------------------------------------------------------------

\* Mutant: a thread that was created is not counted.
TakeWorkerUncounted(c, j) ==
  /\ asked' = [asked EXCEPT ![c] = NULL]
  /\ cpc' = [cpc EXCEPT ![c] = "idle"]
  /\ IF \E w \in Workers : wpc[w] = "none"
     THEN /\ \E w \in Workers :
               /\ wpc[w] = "none"
               /\ wpc' = [wpc EXCEPT ![w] = "start"]
               /\ job' = [job EXCEPT ![w] = j]
          /\ answer' = [answer EXCEPT ![j] = "accepted"]
     ELSE answer' = [answer EXCEPT ![j] = "refused"] /\ UNCHANGED << wpc, job >>
  /\ UNCHANGED << list, size, poolLock, picked >>

\* A worker is taken from the end of the list, or made when there is none
\* (malloc or pthread_create may fail).
TakeWorker(c, j) ==
  IF list # << >>
  THEN LET w == list[Len(list)]
       IN  /\ list' = SubSeq(list, 1, Len(list) - 1)
           /\ job' = [job EXCEPT ![w] = j]
           /\ picked' = [picked EXCEPT ![c] = w]
           /\ asked' = [asked EXCEPT ![c] = j]
           /\ answer' = [answer EXCEPT ![j] = "asked"]
           /\ poolLock' = c
           /\ cpc' = [cpc EXCEPT ![c] = "signal"]
           /\ UNCHANGED << size, wpc >>
  ELSE /\ \/ \E w \in Workers :
               /\ wpc[w] = "none"
               /\ wpc' = [wpc EXCEPT ![w] = "start"]
               /\ job' = [job EXCEPT ![w] = j]
               /\ size' = size + 1
               /\ answer' = [answer EXCEPT ![j] = "accepted"]
          \/ /\ answer' = [answer EXCEPT ![j] = "refused"]
             /\ UNCHANGED << wpc, job, size >>
       /\ asked' = [asked EXCEPT ![c] = NULL]
       /\ cpc' = [cpc EXCEPT ![c] = "idle"]
       /\ UNCHANGED << list, poolLock, picked >>

NoWorkerFree == list = << >> /\ size >= TotalSize

\* threadpool_run, from its start or after a wait on pool->run_locker.
RunLoop(c, j) ==
  IF NoWorkerFree
  THEN /\ cpc' = [cpc EXCEPT ![c] = "waiting"]
       /\ asked' = [asked EXCEPT ![c] = j]
       /\ answer' = [answer EXCEPT ![j] = "asked"]
       /\ UNCHANGED << list, size, poolLock, wpc, job, picked >>
  ELSE TakeWorker(c, j)

RunEnter(c, j) ==
  /\ cpc[c] = "idle" /\ answer[j] = "new" /\ poolLock = NULL
  /\ IF state = "initialized"
     THEN RunLoop(c, j)
     ELSE /\ answer' = [answer EXCEPT ![j] = "refused"]
          /\ UNCHANGED << list, size, poolLock, wpc, job, cpc, picked, asked >>
  /\ UNCHANGED << state, dpc, i, runs >>

RunWoken(c) ==
  /\ cpc[c] = "woken" /\ poolLock = NULL
  /\ RunLoop(c, asked[c])
  /\ UNCHANGED << state, dpc, i, runs >>

\* pthread_cond_signal(&thread->run_locker), under the worker's own mutex.
SignalWorker(w) ==
  /\ ~ OwnMutexHeld(w)
  /\ wpc' = [wpc EXCEPT ![w] = IF @ = "waiting" THEN "woken" ELSE @]

RunSignal(c) ==
  /\ cpc[c] = "signal"
  /\ SignalWorker(picked[c])
  /\ answer' = [answer EXCEPT ![asked[c]] = "accepted"]
  /\ poolLock' = NULL
  /\ cpc' = [cpc EXCEPT ![c] = "idle"]
  /\ asked' = [asked EXCEPT ![c] = NULL]
  /\ picked' = [picked EXCEPT ![c] = NULL]
  /\ UNCHANGED << state, list, size, job, dpc, i, runs >>

-----------------------------------------------------------------------------
\* callback_proxy: pool->state is read here without a lock.
WorkerLoop(w) ==
  /\ wpc[w] = "start"
  /\ wpc' = [wpc EXCEPT ![w] = IF state = "initialized" THEN "run" ELSE "exit"]
  /\ UNCHANGED << state, list, size, poolLock, job, cpc, picked, asked, dpc, i, answer, runs >>

WorkerRun(w) ==
  /\ wpc[w] = "run"
  /\ runs' = [runs EXCEPT ![job[w]] = @ + 1]
  /\ wpc' = [wpc EXCEPT ![w] = "check"]
  /\ UNCHANGED << state, list, size, poolLock, job, cpc, picked, asked, dpc, i, answer >>

\* pool->state again, and the worker's own mutex.
WorkerCheck(w) ==
  /\ wpc[w] = "check"
  /\ wpc' = [wpc EXCEPT ![w] = IF state = "initialized" THEN "push" ELSE "exit"]
  /\ UNCHANGED << state, list, size, poolLock, job, cpc, picked, asked, dpc, i, answer, runs >>

\* Mutant: push2pool does not signal run_locker.
SignalCallerForgotten == UNCHANGED cpc

\* pthread_cond_signal(&pool->run_locker) wakes a caller that waits.
SignalCaller ==
  IF \E c \in Callers : cpc[c] = "waiting"
  THEN \E c \in Callers : cpc[c] = "waiting" /\ cpc' = [cpc EXCEPT ![c] = "woken"]
  ELSE UNCHANGED cpc

\* push2pool; a worker that finds no room on the list ends.
WorkerPush(w) ==
  /\ wpc[w] = "push" /\ poolLock = NULL
  /\ IF Len(list) < TotalSize
     THEN /\ list' = Append(list, w)
          /\ SignalCaller
          /\ dpc' = IF dpc = "full" /\ Len(list) + 1 >= size THEN "full_woken" ELSE dpc
          /\ wpc' = [wpc EXCEPT ![w] = "pushed"]
     ELSE /\ wpc' = [wpc EXCEPT ![w] = "exit"]
          /\ UNCHANGED << list, cpc, dpc >>
  /\ UNCHANGED << state, size, poolLock, job, picked, asked, i, answer, runs >>

\* Mutant: the worker goes on without waiting.
WorkerWaitSkipped(w) ==
  /\ wpc[w] = "pushed"
  /\ wpc' = [wpc EXCEPT ![w] = "woken"]
  /\ UNCHANGED << state, list, size, poolLock, job, cpc, picked, asked, dpc, i, answer, runs >>

WorkerWait(w) ==
  /\ wpc[w] = "pushed"
  /\ wpc' = [wpc EXCEPT ![w] = "waiting"]
  /\ UNCHANGED << state, list, size, poolLock, job, cpc, picked, asked, dpc, i, answer, runs >>

WorkerWoken(w) ==
  /\ wpc[w] = "woken"
  /\ wpc' = [wpc EXCEPT ![w] = "start"]
  /\ UNCHANGED << state, list, size, poolLock, job, cpc, picked, asked, dpc, i, answer, runs >>

\* Mutant: the last worker does not signal empty_locker.
WorkerExitSilent(w) ==
  /\ wpc[w] = "exit" /\ poolLock = NULL
  /\ size' = size - 1
  /\ wpc' = [wpc EXCEPT ![w] = "gone"]
  /\ UNCHANGED << state, list, poolLock, job, cpc, picked, asked, dpc, i, answer, runs >>

WorkerExit(w) ==
  /\ wpc[w] = "exit" /\ poolLock = NULL
  /\ size' = size - 1
  /\ dpc' = IF dpc = "empty" /\ size' = 0 THEN "empty_woken" ELSE dpc
  /\ wpc' = [wpc EXCEPT ![w] = "gone"]
  /\ UNCHANGED << state, list, poolLock, job, cpc, picked, asked, i, answer, runs >>

-----------------------------------------------------------------------------
\* threadpool_destroy: wait, once, for the jobs.
Uninstall ==
  /\ state' = "uninstalling"
  /\ poolLock' = Destroyer
  /\ dpc' = "signal" /\ i' = 1
  /\ UNCHANGED << list, size, wpc, job, cpc, picked, asked, answer, runs >>

DestroyEnter ==
  /\ dpc = "no" /\ poolLock = NULL
  /\ IF Len(list) < size
     THEN /\ dpc' = "full"
          /\ UNCHANGED << state, list, size, poolLock, wpc, job, cpc, picked, asked, i, answer, runs >>
     ELSE Uninstall

DestroyFull == dpc = "full_woken" /\ poolLock = NULL /\ Uninstall

\* Every listed worker is signalled, under its own mutex.
DestroySignal ==
  /\ dpc = "signal" /\ i <= Len(list)
  /\ SignalWorker(list[i])
  /\ i' = i + 1
  /\ UNCHANGED << state, list, size, poolLock, job, cpc, picked, asked, dpc, answer, runs >>

\* Mutant: destroy does not wait for the workers.
DestroyNoWaitEmpty ==
  /\ dpc = "signal" /\ i > Len(list)
  /\ poolLock' = NULL
  /\ dpc' = "empty_woken"
  /\ UNCHANGED << state, list, size, wpc, job, cpc, picked, asked, i, answer, runs >>

\* Wait, once, for the workers.
DestroyWaitEmpty ==
  /\ dpc = "signal" /\ i > Len(list)
  /\ poolLock' = NULL
  /\ dpc' = IF size > 0 THEN "empty" ELSE "empty_woken"
  /\ UNCHANGED << state, list, size, wpc, job, cpc, picked, asked, i, answer, runs >>

DestroyFree ==
  /\ dpc = "empty_woken" /\ poolLock = NULL
  /\ state' = "freed" /\ list' = << >>
  /\ dpc' = "done"
  /\ UNCHANGED << size, poolLock, wpc, job, cpc, picked, asked, i, answer, runs >>

-----------------------------------------------------------------------------
Caller(c) == RunWoken(c) \/ RunSignal(c)

Worker(w) ==
  \/ WorkerLoop(w) \/ WorkerRun(w) \/ WorkerCheck(w) \/ WorkerPush(w) \/ WorkerWait(w)
  \/ WorkerWoken(w) \/ WorkerExit(w)

Destroying == DestroyFull \/ DestroySignal \/ DestroyWaitEmpty \/ DestroyFree

Working ==
  \/ \E c \in Callers : Caller(c) \/ \E j \in Jobs : RunEnter(c, j)
  \/ \E w \in Workers : Worker(w)
  \/ Destroying

\* threadpool_destroy called when every threadpool_run has returned.
QuietDestroy ==
  /\ \A j \in Jobs : answer[j] \in {"accepted", "refused"}
  /\ DestroyEnter

Next == Working \/ QuietDestroy

Fairness ==
  /\ \A c \in Callers : WF_vars(Caller(c))
  /\ \A w \in Workers : WF_vars(Worker(w))
  /\ WF_vars(Destroying)

Spec == Init /\ [][Next]_vars
FairSpec == Spec /\ Fairness

\* The same with threadpool_destroy called at any time.
RacySpec == Init /\ [][Working \/ DestroyEnter]_vars

-----------------------------------------------------------------------------
\* The counters stay in range and the list holds workers.
TypeOK ==
  /\ state \in {"initialized", "uninstalling", "freed"}
  /\ list \in Seq(Workers) /\ size \in Nat
  /\ poolLock \in Callers \cup {Destroyer, NULL}
  /\ wpc \in [Workers -> {"none", "start", "run", "check", "push", "pushed", "waiting",
                          "woken", "exit", "gone"}]
  /\ job \in [Workers -> Jobs \cup {NULL}]
  /\ cpc \in [Callers -> {"idle", "waiting", "woken", "signal"}]
  /\ picked \in [Callers -> Workers \cup {NULL}]
  /\ asked \in [Callers -> Jobs \cup {NULL}]
  /\ dpc \in {"no", "full", "full_woken", "signal", "empty", "empty_woken", "done"}
  /\ i \in 1..TotalSize + 1
  /\ answer \in [Jobs -> {"new", "asked", "accepted", "refused"}]
  /\ runs \in [Jobs -> Nat]

\* "wait for arg to be update by other users that need to use this thread"
\* (callback_proxy): no job is run twice, and none that was not handed in.
JobsRunOnce ==
  \A j \in Jobs : runs[j] <= (IF answer[j] \in {"accepted", "asked"} THEN 1 ELSE 0)

\* No worker is left that could touch the pool after it was freed.
NoWorkerOutlivesPool ==
  state = "freed" => \A w \in Workers : wpc[w] \in {"none", "gone"}

\* "when current_index is biger or equals to current_size this means all the
\* job in the thread pool is finished which means we can do the free related
\* jobs" (threadpool_destroy): the pool is not taken down over accepted jobs.
DestroyAfterAllJobs ==
  state # "initialized" => \A j \in Jobs : answer[j] = "accepted" => runs[j] = 1

\* pool->current_size counts the threads there are, also while they start,
\* push themselves back or die, and never exceeds total_size; a worker is on
\* the list once, and while the pool is in use only when it sleeps or is
\* about to, so that nobody overwrites the job of one that runs;
\* jobs run once, no worker outlives the pool, and a pool that is destroyed
\* when every threadpool_run has returned has run all it accepted.
PoolAccount ==
  /\ TypeOK /\ JobsRunOnce /\ NoWorkerOutlivesPool /\ DestroyAfterAllJobs
  /\ size = Cardinality({w \in Workers : wpc[w] \notin {"none", "gone"}})
  /\ size <= TotalSize
  /\ \A k, l \in 1..Len(list) : list[k] = list[l] => k = l
  /\ state = "initialized" =>
       \A w \in Workers : Listed(w) => wpc[w] \in {"pushed", "waiting"}

\* A caller that waits in threadpool_run for a free worker gets one, or is
\* refused, and a job that was accepted is run: neither the signals of
\* run_locker nor those to a worker, between the pool's lock and the worker's
\* own, are lost.
AskedJobsRun == \A j \in Jobs : answer[j] = "asked" ~> (answer[j] = "refused" \/ runs[j] = 1)

\* threadpool_destroy comes to its end although it waits for its workers to
\* take locks that it uses itself.
DestroyReturns == dpc # "no" ~> state = "freed"

-----------------------------------------------------------------------------
(***************************************************************************)
(* The account of pthread_pool.c, for any number of workers, callers and   *)
(* jobs, when threadpool_destroy is called after the last threadpool_run.  *)
(***************************************************************************)

\* The threads pool->current_size counts.
Alive == {w \in Workers : wpc[w] \notin {"none", "gone"}}

\* The worker will run, or is about to run, the job it was given.
Active(w) == wpc[w] = "run" \/ (state = "initialized" /\ wpc[w] \in {"start", "woken"})

\* A caller inside threadpool_run has asked for one job that nobody else
\* asks for; one that has taken a worker keeps the pool's lock until it has
\* signalled it, and that worker sleeps or is about to.
CallersOK ==
  \A c \in Callers :
    /\ cpc[c] = "idle" <=> asked[c] = NULL
    /\ cpc[c] = "signal" <=> poolLock = c
    /\ asked[c] # NULL => /\ answer[asked[c]] = "asked"
                          /\ \A b \in Callers : asked[b] = asked[c] => b = c
    /\ cpc[c] = "signal" => /\ picked[c] \in Workers /\ job[picked[c]] = asked[c]
                            /\ ~ Listed(picked[c])
                            /\ wpc[picked[c]] \in {"pushed", "waiting"}

\* Where threadpool_destroy is, the state it has set and what it waited for.
DestroyOK ==
  /\ dpc = "signal" <=> poolLock = Destroyer
  /\ state = "initialized" <=> dpc \in {"no", "full", "full_woken"}
  /\ state = "freed" <=> dpc = "done"
  /\ dpc # "no" => \A j \in Jobs : answer[j] \in {"accepted", "refused"}
  /\ dpc = "full_woken" => Len(list) >= size
  /\ dpc \in {"empty_woken", "done"} => size = 0

\* A job is run once, after it was accepted, and until then some worker has it.
JobsOK ==
  /\ \A w \in Workers : Active(w) => /\ job[w] \in Jobs /\ answer[job[w]] = "accepted"
                                     /\ runs[job[w]] = 0
  /\ \A w, v \in Workers : Active(w) /\ Active(v) /\ job[w] = job[v] => w = v
  /\ \A j \in Jobs : runs[j] = 0 \/ (answer[j] = "accepted" /\ runs[j] = 1)
  /\ \A j \in Jobs : answer[j] = "accepted" =>
                       runs[j] = 1 \/ \E w \in Workers : Active(w) /\ job[w] = j

\* A worker is on the list once.  While the pool is in use it sleeps there or
\* is about to; threadpool_destroy leaves the workers it stops on the list.
ListOK ==
  /\ Len(list) <= TotalSize
  /\ \A k, l \in 1..Len(list) : list[k] = list[l] => k = l
  /\ \A k \in 1..Len(list) :
       \/ wpc[list[k]] \in {"pushed", "waiting"}
       \/ state # "initialized" /\ wpc[list[k]] \in {"woken", "start", "exit", "gone"}

SizeOK == IsFiniteSet(Alive) /\ size = Cardinality(Alive) /\ size <= TotalSize

Inv ==
  /\ TypeOK /\ CallersOK /\ DestroyOK /\ JobsOK /\ ListOK /\ SizeOK /\ DestroyAfterAllJobs
-----------------------------------------------------------------------------
\* Nobody is counted and nobody asks in a new pool.
LEMMA InitInv == Init => Inv
<1> SUFFICES ASSUME Init PROVE Inv
  OBVIOUS
<1>1. TypeOK
  BY PoolAssumption DEF Init, TypeOK
<1>2. CallersOK /\ DestroyOK
  BY PoolAssumption DEF Init, CallersOK, DestroyOK
<1>3. JobsOK /\ DestroyAfterAllJobs
  BY DEF Init, JobsOK, Active, DestroyAfterAllJobs
<1>4. ListOK
  BY PoolAssumption DEF Init, ListOK
<1>5. SizeOK
  <2>1. Alive = {}
    BY DEF Init, Alive
  <2> QED
    BY <2>1, FS_EmptySet, PoolAssumption DEF Init, SizeOK
<1> QED
  BY <1>1, <1>2, <1>3, <1>4, <1>5 DEF Inv

\* pool->current_index == pool->current_size means what threadpool_destroy
\* takes it to mean (pthread_pool.c:238-244): every thread there is has put
\* itself back on the list.
LEMMA AllListed ==
  ASSUME Inv, state = "initialized", Len(list) >= size, NEW w \in Alive
  PROVE  wpc[w] \in {"pushed", "waiting"}
<1> DEFINE n == Len(list)
<1>1. n \in Nat /\ list \in [1..n -> Workers] /\ \A k \in 1..n : list[k] \in Alive
  <2>1. list \in Seq(Workers)
    BY DEF Inv, TypeOK
  <2>2. n \in Nat /\ list \in [1..n -> Workers]
    BY <2>1, LenProperties
  <2>3. ASSUME NEW k \in 1..n PROVE list[k] \in Alive
    BY <2>2 DEF Inv, ListOK, Alive
  <2> QED
    BY <2>2, <2>3
<1> HIDE DEF n
<1>2. list \in [1..n -> Alive]
  BY <1>1
<1>3. list \in Injection(1..n, Alive)
  BY <1>2 DEF n, Injection, IsInjective, Inv, ListOK
<1>4. Cardinality(1..n) = n
  BY <1>1, FS_Interval
<1>5. Cardinality(Alive) \in Nat /\ IsFiniteSet(Alive) /\ n >= Cardinality(Alive)
  BY FS_CardinalityType DEF n, Inv, SizeOK
<1>6. list \in Surjection(1..n, Alive)
  <2>1. n <= Cardinality(Alive) /\ (n = Cardinality(Alive) => list \in Surjection(1..n, Alive))
    BY <1>3, <1>4, <1>5, FS_Injection
  <2> QED
    BY <1>1, <1>5, <2>1
<1>7. PICK k \in 1..n : list[k] = w
  BY <1>6 DEF Surjection
<1> QED
  BY <1>7 DEF n, Inv, ListOK

\* The list holds workers.
LEMMA ListMembers ==
  ASSUME Inv
  PROVE  Len(list) \in Nat /\ \A k \in 1..Len(list) : list[k] \in Workers
  BY DEF Inv, TypeOK

\* No caller is inside threadpool_run once threadpool_destroy was entered.
LEMMA Quiet ==
  ASSUME Inv, NEW c \in Callers, dpc # "no"
  PROVE  cpc[c] = "idle"
<1>1. asked[c] \in Jobs \cup {NULL}
  BY DEF Inv, TypeOK
<1>2. asked[c] = NULL
  BY <1>1 DEF Inv, CallersOK, DestroyOK
<1> QED
  BY <1>2 DEF Inv, CallersOK

\* What is known of a caller c that looks for a worker for job j.
Asking(c, j) ==
  /\ state = "initialized" /\ dpc = "no" /\ poolLock = NULL
  /\ \/ cpc[c] = "idle" /\ answer[j] = "new"
     \/ cpc[c] = "woken" /\ asked[c] = j

\* A job that a caller asks for is nobody else's: it has not run, and no worker has it.
LEMMA AskingFacts ==
  ASSUME Inv, NEW c \in Callers, NEW j \in Jobs, Asking(c, j)
  PROVE  /\ answer[j] \in {"new", "asked"} /\ runs[j] = 0
         /\ \A b \in Callers : asked[b] = j => b = c
         /\ \A b \in Callers : cpc[b] # "signal"
         /\ \A w \in Workers : Active(w) => job[w] # j
<1>1. answer[j] \in {"new", "asked"} /\ \A b \in Callers : asked[b] = j => b = c
  BY PoolAssumption DEF Asking, Inv, CallersOK
<1>2. runs[j] = 0 /\ \A w \in Workers : Active(w) => job[w] # j
  BY <1>1 DEF Inv, JobsOK
<1>3. \A b \in Callers : cpc[b] # "signal"
  BY PoolAssumption DEF Asking, Inv, CallersOK
<1> QED
  BY <1>1, <1>2, <1>3

\* Every thread is busy: the caller waits.
LEMMA WaitInv ==
  ASSUME Inv, NEW c \in Callers, NEW j \in Jobs, Asking(c, j),
         cpc' = [cpc EXCEPT ![c] = "waiting"], asked' = [asked EXCEPT ![c] = j],
         answer' = [answer EXCEPT ![j] = "asked"],
         UNCHANGED << state, list, size, poolLock, wpc, job, picked, dpc, i, runs >>
  PROVE  Inv'
<1>1. TypeOK'
  BY DEF Inv, TypeOK
<1>2. CallersOK'
  BY AskingFacts, PoolAssumption DEF Inv, TypeOK, CallersOK, Asking, Listed
<1>3. DestroyOK' /\ DestroyAfterAllJobs'
  BY DEF Inv, TypeOK, DestroyOK, Asking, DestroyAfterAllJobs
<1>4. JobsOK'
  BY AskingFacts DEF Inv, TypeOK, JobsOK, Active
<1>5. ListOK' /\ SizeOK'
  BY DEF Inv, ListOK, SizeOK, Alive
<1> QED
  BY <1>1, <1>2, <1>3, <1>4, <1>5 DEF Inv

\* A sleeping worker is taken from the end of the list.
LEMMA TakeInv ==
  ASSUME Inv, NEW c \in Callers, NEW j \in Jobs, Asking(c, j), list # << >>,
         NEW w, w = list[Len(list)], list' = SubSeq(list, 1, Len(list) - 1),
         job' = [job EXCEPT ![w] = j], picked' = [picked EXCEPT ![c] = w],
         asked' = [asked EXCEPT ![c] = j], answer' = [answer EXCEPT ![j] = "asked"],
         poolLock' = c, cpc' = [cpc EXCEPT ![c] = "signal"],
         UNCHANGED << state, size, wpc, dpc, i, runs >>
  PROVE  Inv'
<1>1. /\ list' \in Seq(Workers) /\ Len(list') = Len(list) - 1 /\ Len(list) \in Nat \ {0}
      /\ \A k \in 1..Len(list') : list'[k] = list[k]
      /\ w \in Workers
  <2>1. list \in Seq(Workers) /\ Len(list) \in Nat \ {0}
    BY EmptySeq, LenProperties DEF Inv, TypeOK
  <2> DEFINE n == Len(list) - 1
  <2>2. /\ n \in Int /\ 1 \in Int /\ \A k \in 1..n : list[k] \in Workers
        /\ list' = SubSeq(list, 1, n)
    BY <2>1
  <2> HIDE DEF n
  <2>3. /\ list' \in Seq(Workers) /\ Len(list') = IF 1 <= n THEN n - 1 + 1 ELSE 0
        /\ \A k \in 1..n - 1 + 1 : list'[k] = list[1 + k - 1]
    BY <2>2, SubSeqProperties
  <2>4. n \in Nat /\ list[Len(list)] \in Workers /\ n = Len(list) - 1
    BY <2>1 DEF n
  <2> QED
    BY <2>1, <2>3, <2>4
<1>2. wpc[w] \in {"pushed", "waiting"}
  BY <1>1 DEF Inv, ListOK, Asking
<1>3. \A k \in 1..Len(list') : list'[k] # w
  <2> SUFFICES ASSUME NEW k \in 1..Len(list') PROVE list[k] # w
    BY <1>1
  <2>1. k \in 1..Len(list) /\ Len(list) \in 1..Len(list) /\ k # Len(list)
    BY <1>1
  <2> QED
    BY <2>1 DEF Inv, ListOK
<1>4. TypeOK'
  BY <1>1 DEF Inv, TypeOK
<1>5. CallersOK'
  <2>1. \A b \in Callers \ {c} : cpc[b] # "signal" /\ cpc'[b] = cpc[b] /\ asked'[b] = asked[b]
    BY AskingFacts DEF Inv, TypeOK
  <2>2. cpc'[c] = "signal" /\ asked'[c] = j /\ picked'[c] = w /\ job'[w] = j /\ answer'[j] = "asked"
    BY <1>1 DEF Inv, TypeOK
  <2>3. ~ Listed(w)'
    BY <1>3 DEF Listed
  <2>4. \A b \in Callers \ {c} : asked[b] # j
    BY AskingFacts
  <2>5. NULL \notin Jobs /\ answer \in [Jobs -> {"new", "asked", "accepted", "refused"}]
        /\ asked \in [Callers -> Jobs \cup {NULL}]
    BY PoolAssumption DEF Inv, TypeOK
  <2>6. \A b \in Callers : asked'[b] # NULL =>
          answer'[asked'[b]] = "asked" /\ \A d \in Callers : asked'[d] = asked'[b] => d = b
    BY <2>1, <2>2, <2>4, <2>5 DEF Inv, CallersOK
  <2> QED
    BY <1>1, <1>2, <2>1, <2>2, <2>3, <2>5, <2>6 DEF Inv, CallersOK
<1>6. DestroyOK' /\ DestroyAfterAllJobs'
  BY PoolAssumption DEF Inv, TypeOK, DestroyOK, Asking, DestroyAfterAllJobs
<1>7. JobsOK'
  <2>1. ~ Active(w) /\ \A v \in Workers : Active(v)' <=> Active(v)
    BY <1>2 DEF Active
  <2>2. \A v \in Workers : Active(v) => v # w /\ job'[v] = job[v] /\ job[v] # j
    BY <2>1, AskingFacts DEF Inv, TypeOK
  <2>3. answer'[j] = "asked" /\ \A k \in Jobs \ {j} : answer'[k] = answer[k]
    BY DEF Inv, TypeOK
  <2> QED
    BY <2>1, <2>2, <2>3, AskingFacts DEF Inv, JobsOK
<1>8. ListOK'
  <2>1. TotalSize \in Nat /\ 1..Len(list') \subseteq 1..Len(list) /\ Len(list') <= TotalSize
    BY <1>1, PoolAssumption DEF Inv, ListOK
  <2> QED
    BY <1>1, <2>1 DEF Inv, ListOK
<1>9. SizeOK'
  BY DEF Inv, SizeOK, Alive
<1> QED
  BY <1>4, <1>5, <1>6, <1>7, <1>8, <1>9 DEF Inv

\* A new thread is created for the job, while there is room for one.
LEMMA CreateInv ==
  ASSUME Inv, NEW c \in Callers, NEW j \in Jobs, Asking(c, j), size < TotalSize,
         NEW w \in Workers, wpc[w] = "none",
         wpc' = [wpc EXCEPT ![w] = "start"], job' = [job EXCEPT ![w] = j],
         size' = size + 1, answer' = [answer EXCEPT ![j] = "accepted"],
         asked' = [asked EXCEPT ![c] = NULL], cpc' = [cpc EXCEPT ![c] = "idle"],
         UNCHANGED << state, list, poolLock, picked, dpc, i, runs >>
  PROVE  Inv'
<1>1. TypeOK'
  BY DEF Inv, TypeOK
<1>2. CallersOK'
  <2>1. \A b \in Callers : asked'[b] # NULL => b # c /\ asked'[b] = asked[b] /\ asked[b] # j
    BY AskingFacts DEF Inv, TypeOK
  <2>2. \A b \in Callers : cpc'[b] # "signal" /\ (cpc'[b] = "idle" <=> asked'[b] = NULL)
    BY AskingFacts DEF Inv, TypeOK, CallersOK
  <2>3. \A b \in Callers : asked'[b] # NULL =>
          answer'[asked'[b]] = "asked" /\ \A d \in Callers : asked'[d] = asked'[b] => d = b
    BY <2>1 DEF Inv, TypeOK, CallersOK
  <2>4. \A b \in Callers : poolLock' # b
    BY PoolAssumption DEF Asking
  <2> QED
    BY <2>2, <2>3, <2>4 DEF CallersOK
<1>3. DestroyOK' /\ DestroyAfterAllJobs'
  BY DEF Inv, DestroyOK, Asking, DestroyAfterAllJobs
<1>4. JobsOK'
  <2>1. ~ Active(w) /\ Active(w)' /\ \A v \in Workers \ {w} : Active(v)' <=> Active(v)
    BY DEF Active, Asking, Inv, TypeOK
  <2>2. job'[w] = j /\ \A v \in Workers \ {w} : job'[v] = job[v]
    BY DEF Inv, TypeOK
  <2>3. answer'[j] = "accepted" /\ \A k \in Jobs \ {j} : answer'[k] = answer[k]
    BY DEF Inv, TypeOK
  <2> QED
    BY <2>1, <2>2, <2>3, AskingFacts DEF Inv, JobsOK
<1>5. ListOK'
  <2>1. \A k \in 1..Len(list) : list[k] # w /\ list[k] \in Workers
    BY ListMembers DEF Asking, Inv, ListOK
  <2> QED
    BY <2>1 DEF Inv, TypeOK, ListOK
<1>6. SizeOK'
  <2>1. Alive' = Alive \cup {w} /\ w \notin Alive
    BY DEF Alive, Inv, TypeOK
  <2>2. IsFiniteSet(Alive) /\ size = Cardinality(Alive)
    BY DEF Inv, SizeOK
  <2>3. IsFiniteSet(Alive') /\ Cardinality(Alive') = Cardinality(Alive) + 1
    BY <2>1, <2>2, FS_AddElement
  <2>4. size' <= TotalSize
    BY PoolAssumption DEF Inv, TypeOK
  <2> QED
    BY <2>2, <2>3, <2>4 DEF SizeOK
<1> QED
  BY <1>1, <1>2, <1>3, <1>4, <1>5, <1>6 DEF Inv

\* malloc or pthread_create failed: the job is refused.
LEMMA RefuseInv ==
  ASSUME Inv, NEW c \in Callers, NEW j \in Jobs, Asking(c, j),
         answer' = [answer EXCEPT ![j] = "refused"],
         asked' = [asked EXCEPT ![c] = NULL], cpc' = [cpc EXCEPT ![c] = "idle"],
         UNCHANGED << state, list, size, poolLock, wpc, job, picked, dpc, i, runs >>
  PROVE  Inv'
<1>1. TypeOK'
  BY DEF Inv, TypeOK
<1>2. CallersOK'
  <2>1. \A b \in Callers : asked'[b] # NULL => b # c /\ asked'[b] = asked[b] /\ asked[b] # j
    BY AskingFacts DEF Inv, TypeOK
  <2>2. \A b \in Callers : cpc'[b] # "signal" /\ (cpc'[b] = "idle" <=> asked'[b] = NULL)
    BY AskingFacts DEF Inv, TypeOK, CallersOK
  <2>3. \A b \in Callers : asked'[b] # NULL =>
          answer'[asked'[b]] = "asked" /\ \A d \in Callers : asked'[d] = asked'[b] => d = b
    BY <2>1 DEF Inv, TypeOK, CallersOK
  <2>4. \A b \in Callers : poolLock' # b
    BY PoolAssumption DEF Asking
  <2> QED
    BY <2>2, <2>3, <2>4 DEF CallersOK
<1>3. DestroyOK' /\ DestroyAfterAllJobs'
  BY DEF Inv, DestroyOK, Asking, DestroyAfterAllJobs
<1>4. JobsOK'
  <2>1. \A v \in Workers : Active(v)' <=> Active(v)
    BY DEF Active
  <2>2. answer'[j] = "refused" /\ \A k \in Jobs \ {j} : answer'[k] = answer[k]
    BY DEF Inv, TypeOK
  <2> QED
    BY <2>1, <2>2, AskingFacts DEF Inv, JobsOK
<1>5. ListOK' /\ SizeOK'
  BY DEF Inv, ListOK, SizeOK, Alive
<1> QED
  BY <1>1, <1>2, <1>3, <1>4, <1>5 DEF Inv

\* threadpool_run from the moment it looks for a worker.
LEMMA RunLoopInv ==
  ASSUME Inv, NEW c \in Callers, NEW j \in Jobs, Asking(c, j), RunLoop(c, j),
         UNCHANGED << state, dpc, i, runs >>
  PROVE  Inv'
<1>1. CASE NoWorkerFree
  BY <1>1, WaitInv DEF RunLoop
<1>2. CASE ~ NoWorkerFree /\ list # << >>
  BY <1>2, TakeInv DEF RunLoop, TakeWorker
<1>3. CASE ~ NoWorkerFree /\ list = << >>
  <2>1. size < TotalSize
    BY <1>3, PoolAssumption DEF NoWorkerFree, Inv, TypeOK
  <2>2. TakeWorker(c, j)
    BY <1>3 DEF RunLoop
  <2>3. /\ asked' = [asked EXCEPT ![c] = NULL] /\ cpc' = [cpc EXCEPT ![c] = "idle"]
        /\ UNCHANGED << list, poolLock, picked >>
        /\ \/ \E w \in Workers :
                /\ wpc[w] = "none"
                /\ wpc' = [wpc EXCEPT ![w] = "start"]
                /\ job' = [job EXCEPT ![w] = j]
                /\ size' = size + 1
                /\ answer' = [answer EXCEPT ![j] = "accepted"]
           \/ /\ answer' = [answer EXCEPT ![j] = "refused"]
              /\ UNCHANGED << wpc, job, size >>
    BY <1>3, <2>2 DEF TakeWorker
  <2> QED
    BY <2>1, <2>3, CreateInv, RefuseInv
<1> QED
  BY <1>1, <1>2, <1>3

\* threadpool_run: the call, and its return from a wait.
LEMMA RunInv ==
  ASSUME Inv, NEW c \in Callers,
         RunWoken(c) \/ \E j \in Jobs : RunEnter(c, j)
  PROVE  Inv'
<1>1. CASE RunWoken(c)
  <2> DEFINE j == asked[c]
  <2>1. j \in Jobs /\ answer[j] = "asked"
    BY <1>1 DEF RunWoken, Inv, TypeOK, CallersOK
  <2>2. dpc = "no" /\ state = "initialized"
    BY <2>1 DEF Inv, DestroyOK
  <2>3. Asking(c, j)
    BY <1>1, <2>2 DEF RunWoken, Asking
  <2> QED
    BY <1>1, <2>1, <2>3, RunLoopInv DEF RunWoken
<1>2. ASSUME NEW j \in Jobs, RunEnter(c, j) PROVE Inv'
  <2>1. dpc = "no" /\ state = "initialized"
    BY <1>2 DEF RunEnter, Inv, DestroyOK
  <2>2. Asking(c, j)
    BY <1>2, <2>1 DEF RunEnter, Asking
  <2> QED
    BY <1>2, <2>1, <2>2, RunLoopInv DEF RunEnter
<1> QED
  BY <1>1, <1>2

\* The caller wakes the worker it has taken: from here on its job is the
\* worker's to run.
LEMMA RunSignalInv ==
  ASSUME Inv, NEW c \in Callers, RunSignal(c)
  PROVE  Inv'
<1>1. PICK w \in Workers, j \in Jobs :
        /\ w = picked[c] /\ j = asked[c]
        /\ cpc[c] = "signal" /\ poolLock = c /\ answer[j] = "asked"
        /\ job[w] = j /\ ~ Listed(w) /\ wpc[w] \in {"pushed", "waiting"}
  BY DEF RunSignal, Inv, TypeOK, CallersOK
<1>2. wpc[w] = "waiting" /\ wpc' = [wpc EXCEPT ![w] = "woken"]
  BY <1>1 DEF RunSignal, SignalWorker, OwnMutexHeld
<1>3. /\ answer' = [answer EXCEPT ![j] = "accepted"] /\ poolLock' = NULL
      /\ cpc' = [cpc EXCEPT ![c] = "idle"]
      /\ asked' = [asked EXCEPT ![c] = NULL] /\ picked' = [picked EXCEPT ![c] = NULL]
      /\ UNCHANGED << state, list, size, job, dpc, i, runs >>
  BY <1>1 DEF RunSignal
<1>4. \A b \in Callers \ {c} : asked[b] # j /\ cpc[b] # "signal"
  BY <1>1 DEF Inv, CallersOK
<1>5. dpc = "no" /\ state = "initialized"
  BY <1>1 DEF Inv, DestroyOK
<1>6. TypeOK'
  BY <1>1, <1>2, <1>3 DEF Inv, TypeOK
<1>7. CallersOK'
  <2>1. \A b \in Callers : asked'[b] # NULL => b # c /\ asked'[b] = asked[b] /\ asked[b] # j
    BY <1>3, <1>4 DEF Inv, TypeOK
  <2>2. \A b \in Callers : cpc'[b] # "signal" /\ (cpc'[b] = "idle" <=> asked'[b] = NULL)
    BY <1>3, <1>4 DEF Inv, TypeOK, CallersOK
  <2>3. \A b \in Callers : asked'[b] # NULL =>
          answer'[asked'[b]] = "asked" /\ \A d \in Callers : asked'[d] = asked'[b] => d = b
    BY <1>3, <2>1 DEF Inv, TypeOK, CallersOK
  <2>4. \A b \in Callers : poolLock' # b
    BY <1>3, PoolAssumption
  <2> QED
    BY <2>2, <2>3, <2>4 DEF CallersOK
<1>8. DestroyOK' /\ DestroyAfterAllJobs'
  BY <1>3, <1>5, PoolAssumption DEF Inv, DestroyOK, DestroyAfterAllJobs
<1>9. JobsOK'
  <2>1. ~ Active(w) /\ Active(w)' /\ \A v \in Workers \ {w} : Active(v)' <=> Active(v)
    BY <1>1, <1>2, <1>3, <1>5 DEF Active, Inv, TypeOK
  <2>2. answer'[j] = "accepted" /\ \A k \in Jobs \ {j} : answer'[k] = answer[k]
    BY <1>1, <1>3 DEF Inv, TypeOK
  <2>3. runs[j] = 0 /\ \A v \in Workers : Active(v) => job[v] # j
    BY <1>1 DEF Inv, JobsOK
  <2> QED
    BY <1>1, <1>3, <2>1, <2>2, <2>3 DEF Inv, JobsOK
<1>10. ListOK'
  <2>1. \A k \in 1..Len(list) : list[k] # w /\ list[k] \in Workers
    BY <1>1 DEF Inv, TypeOK, Listed
  <2> QED
    BY <1>2, <1>3, <2>1 DEF Inv, TypeOK, ListOK
<1>11. SizeOK'
  <2>1. Alive' = Alive
    BY <1>2 DEF Alive, Inv, TypeOK
  <2> QED
    BY <1>3, <2>1 DEF Inv, SizeOK
<1> QED
  BY <1>6, <1>7, <1>8, <1>9, <1>10, <1>11 DEF Inv
-----------------------------------------------------------------------------
\* A worker goes on to place l, and it has a job to run there if it had one.
LEMMA MoveInv ==
  ASSUME Inv, NEW w \in Workers,
         NEW l \in {"start", "run", "check", "push", "pushed", "waiting", "woken", "exit"},
         wpc[w] \notin {"none", "gone"}, wpc' = [wpc EXCEPT ![w] = l],
         Active(w)' <=> Active(w),
         wpc[w] \in {"pushed", "waiting"} => l \in {"pushed", "waiting"},
         wpc[w] \in {"woken", "start", "exit"} /\ state # "initialized" =>
           l \in {"woken", "start", "exit"},
         UNCHANGED << state, list, size, poolLock, job, cpc, picked, asked, dpc, i, answer, runs >>
  PROVE  Inv'
<1>1. wpc'[w] = l /\ \A v \in Workers \ {w} : wpc'[v] = wpc[v]
  BY DEF Inv, TypeOK
<1>2. TypeOK'
  BY DEF Inv, TypeOK
<1>3. CallersOK'
  BY <1>1 DEF Inv, CallersOK, Listed
<1>4. DestroyOK' /\ DestroyAfterAllJobs'
  BY DEF Inv, DestroyOK, DestroyAfterAllJobs
<1>5. JobsOK'
  <2>1. \A v \in Workers : Active(v)' <=> Active(v)
    BY <1>1 DEF Active
  <2> QED
    BY <2>1 DEF Inv, JobsOK
<1>6. ListOK'
  BY <1>1, ListMembers DEF Inv, ListOK
<1>7. SizeOK'
  <2>1. Alive' = Alive
    BY <1>1 DEF Alive
  <2> QED
    BY <2>1 DEF Inv, SizeOK
<1> QED
  BY <1>2, <1>3, <1>4, <1>5, <1>6, <1>7 DEF Inv

\* callback_proxy between its locks.
LEMMA WorkerMoves ==
  ASSUME Inv, NEW w \in Workers,
         WorkerLoop(w) \/ WorkerCheck(w) \/ WorkerWait(w) \/ WorkerWoken(w)
  PROVE  Inv'
<1>1. wpc \in [Workers -> {"none", "start", "run", "check", "push", "pushed", "waiting",
                           "woken", "exit", "gone"}]
  BY DEF Inv, TypeOK
<1>2. CASE WorkerLoop(w)
  <2>1. CASE state = "initialized"
    BY <1>1, <1>2, <2>1, MoveInv DEF WorkerLoop, Active
  <2>2. CASE state # "initialized"
    BY <1>1, <1>2, <2>2, MoveInv DEF WorkerLoop, Active
  <2> QED
    BY <2>1, <2>2
<1>3. CASE WorkerCheck(w)
  <2>1. CASE state = "initialized"
    BY <1>1, <1>3, <2>1, MoveInv DEF WorkerCheck, Active
  <2>2. CASE state # "initialized"
    BY <1>1, <1>3, <2>2, MoveInv DEF WorkerCheck, Active
  <2> QED
    BY <2>1, <2>2
<1>4. CASE WorkerWait(w)
  BY <1>1, <1>4, MoveInv DEF WorkerWait, Active
<1>5. CASE WorkerWoken(w)
  BY <1>1, <1>5, MoveInv DEF WorkerWoken, Active
<1> QED
  BY <1>2, <1>3, <1>4, <1>5

\* The worker runs its job: nobody else has it.
LEMMA WorkerRunInv ==
  ASSUME Inv, NEW w \in Workers, WorkerRun(w)
  PROVE  Inv'
<1>1. PICK j \in Jobs : /\ j = job[w] /\ answer[j] = "accepted" /\ runs[j] = 0
                        /\ \A v \in Workers \ {w} : Active(v) => job[v] # j
  BY DEF WorkerRun, Active, Inv, JobsOK
<1>2. /\ wpc[w] = "run" /\ wpc' = [wpc EXCEPT ![w] = "check"]
      /\ runs' = [runs EXCEPT ![j] = @ + 1]
      /\ UNCHANGED << state, list, size, poolLock, job, cpc, picked, asked, dpc, i, answer >>
  BY <1>1 DEF WorkerRun
<1>3. wpc'[w] = "check" /\ \A v \in Workers \ {w} : wpc'[v] = wpc[v]
  BY <1>2 DEF Inv, TypeOK
<1>4. runs'[j] = 1 /\ \A k \in Jobs \ {j} : runs'[k] = runs[k]
  BY <1>1, <1>2 DEF Inv, TypeOK
<1>5. TypeOK'
  BY <1>2 DEF Inv, TypeOK
<1>6. CallersOK'
  BY <1>2, <1>3 DEF Inv, CallersOK, Listed
<1>7. DestroyOK' /\ DestroyAfterAllJobs'
  BY <1>2, <1>4 DEF Inv, DestroyOK, DestroyAfterAllJobs
<1>8. JobsOK'
  <2>1. ~ Active(w)' /\ \A v \in Workers \ {w} : Active(v)' <=> Active(v)
    BY <1>2, <1>3 DEF Active
  <2> QED
    BY <1>1, <1>2, <1>4, <2>1 DEF Inv, JobsOK
<1>9. ListOK'
  BY <1>2, <1>3, ListMembers DEF Inv, ListOK
<1>10. SizeOK'
  <2>1. Alive' = Alive
    BY <1>2, <1>3 DEF Alive
  <2> QED
    BY <1>2, <2>1 DEF Inv, SizeOK
<1> QED
  BY <1>5, <1>6, <1>7, <1>8, <1>9, <1>10 DEF Inv

\* push2pool: the worker was not on the list.
LEMMA WorkerPushInv ==
  ASSUME Inv, NEW w \in Workers, WorkerPush(w)
  PROVE  Inv'
<1>1. CASE Len(list) >= TotalSize
  <2>1. /\ wpc[w] = "push" /\ wpc' = [wpc EXCEPT ![w] = "exit"]
        /\ UNCHANGED << state, list, size, poolLock, job, cpc, picked, asked, dpc, i, answer, runs >>
    BY <1>1, ListMembers, PoolAssumption DEF WorkerPush
  <2>2. Active(w)' <=> Active(w)
    BY <2>1 DEF Active, Inv, TypeOK
  <2> QED
    BY <2>1, <2>2, MoveInv
<1>2. CASE Len(list) < TotalSize
  <2>1. /\ wpc[w] = "push" /\ poolLock = NULL
        /\ list' = Append(list, w) /\ SignalCaller
        /\ dpc' = IF dpc = "full" /\ Len(list) + 1 >= size THEN "full_woken" ELSE dpc
        /\ wpc' = [wpc EXCEPT ![w] = "pushed"]
        /\ UNCHANGED << state, size, poolLock, job, picked, asked, i, answer, runs >>
    BY <1>2 DEF WorkerPush
  <2>2. wpc'[w] = "pushed" /\ \A v \in Workers \ {w} : wpc'[v] = wpc[v]
    BY <2>1 DEF Inv, TypeOK
  <2>3. /\ list' \in Seq(Workers) /\ Len(list') = Len(list) + 1 /\ list'[Len(list) + 1] = w
        /\ \A k \in 1..Len(list) : list'[k] = list[k] /\ list[k] # w /\ list[k] \in Workers
        /\ Len(list) \in Nat
    <3>1. list \in Seq(Workers)
      BY DEF Inv, TypeOK
    <3>2. \A k \in 1..Len(list) : list[k] # w
      BY <2>1 DEF Inv, ListOK
    <3> QED
      BY <2>1, <3>1, <3>2, ListMembers, AppendProperties
  <2>4. /\ cpc' \in [Callers -> {"idle", "waiting", "woken", "signal"}]
        /\ \A c \in Callers : \/ cpc'[c] = cpc[c]
                              \/ cpc[c] = "waiting" /\ cpc'[c] = "woken"
    BY <2>1 DEF SignalCaller, Inv, TypeOK
  <2>5. TypeOK'
    BY <2>1, <2>3, <2>4 DEF Inv, TypeOK
  <2>6. CallersOK'
    <3>1. \A c \in Callers : cpc[c] # "signal" /\ cpc'[c] # "signal" /\ poolLock' # c
      BY <2>1, <2>4, PoolAssumption DEF Inv, CallersOK
    <3>2. \A c \in Callers : cpc'[c] = "idle" <=> asked'[c] = NULL
      BY <2>1, <2>4 DEF Inv, CallersOK
    <3> QED
      BY <2>1, <3>1, <3>2 DEF Inv, CallersOK
  <2>7. DestroyOK'
    <3>1. dpc' = "full_woken" => Len(list') >= size'
      BY <2>1, <2>3 DEF Inv, TypeOK, DestroyOK
    <3> QED
      BY <2>1, <3>1 DEF Inv, DestroyOK
  <2>8. JobsOK' /\ DestroyAfterAllJobs'
    <3>1. \A v \in Workers : Active(v)' <=> Active(v)
      BY <2>1, <2>2 DEF Active
    <3> QED
      BY <2>1, <3>1 DEF Inv, JobsOK, DestroyAfterAllJobs
  <2>9. ListOK'
    <3>1. Len(list') <= TotalSize
      BY <1>2, <2>3, PoolAssumption
    <3>2. ASSUME NEW k \in 1..Len(list'), NEW m \in 1..Len(list'), list'[k] = list'[m]
          PROVE  k = m
      BY <2>3, <3>2 DEF Inv, ListOK
    <3>3. ASSUME NEW k \in 1..Len(list')
          PROVE  \/ wpc'[list'[k]] \in {"pushed", "waiting"}
                 \/ state' # "initialized" /\ wpc'[list'[k]] \in {"woken", "start", "exit", "gone"}
      <4>1. CASE k = Len(list) + 1
        BY <2>2, <2>3, <4>1
      <4>2. CASE k # Len(list) + 1
        <5>1. k \in 1..Len(list) /\ list'[k] = list[k] /\ list[k] # w /\ list[k] \in Workers
          BY <2>3, <4>2
        <5> QED
          BY <2>1, <2>2, <5>1 DEF Inv, ListOK
      <4> QED
        BY <4>1, <4>2
    <3> QED
      BY <3>1, <3>2, <3>3 DEF ListOK
  <2>10. SizeOK'
    <3>1. Alive' = Alive
      BY <2>1, <2>2 DEF Alive
    <3> QED
      BY <2>1, <3>1 DEF Inv, SizeOK
  <2> QED
    BY <2>5, <2>6, <2>7, <2>8, <2>9, <2>10 DEF Inv
<1> QED
  BY <1>1, <1>2, ListMembers, PoolAssumption

\* A thread ends and is no longer counted.
LEMMA WorkerExitInv ==
  ASSUME Inv, NEW w \in Workers, WorkerExit(w)
  PROVE  Inv'
<1>1. /\ wpc[w] = "exit" /\ poolLock = NULL /\ size' = size - 1
      /\ dpc' = IF dpc = "empty" /\ size' = 0 THEN "empty_woken" ELSE dpc
      /\ wpc' = [wpc EXCEPT ![w] = "gone"]
      /\ UNCHANGED << state, list, poolLock, job, cpc, picked, asked, i, answer, runs >>
  BY DEF WorkerExit
<1>2. wpc'[w] = "gone" /\ \A v \in Workers \ {w} : wpc'[v] = wpc[v]
  BY <1>1 DEF Inv, TypeOK
<1>3. Alive' = Alive \ {w} /\ w \in Alive
  BY <1>1, <1>2 DEF Alive
<1>4. IsFiniteSet(Alive) /\ size = Cardinality(Alive) /\ size \in Nat /\ size <= TotalSize
  BY DEF Inv, SizeOK, TypeOK
<1>5. IsFiniteSet(Alive') /\ size' = Cardinality(Alive')
  BY <1>1, <1>3, <1>4, FS_RemoveElement
<1>6. size # 0 /\ size' \in Nat
  BY <1>1, <1>3, <1>4, FS_EmptySet
<1>7. TypeOK'
  BY <1>1, <1>6 DEF Inv, TypeOK
<1>8. CallersOK'
  BY <1>1, <1>2 DEF Inv, CallersOK, Listed
<1>9. DestroyOK'
  <2>1. dpc' = "full_woken" => Len(list') >= size'
    BY <1>1, <1>4, ListMembers DEF Inv, DestroyOK
  <2>2. dpc' \in {"empty_woken", "done"} => size' = 0
    BY <1>1, <1>6 DEF Inv, DestroyOK
  <2> QED
    BY <1>1, <2>1, <2>2 DEF Inv, DestroyOK
<1>10. JobsOK' /\ DestroyAfterAllJobs'
  <2>1. \A v \in Workers : Active(v)' <=> Active(v)
    BY <1>1, <1>2 DEF Active
  <2> QED
    BY <1>1, <2>1 DEF Inv, JobsOK, DestroyAfterAllJobs
<1>11. ListOK'
  BY <1>1, <1>2, ListMembers DEF Inv, ListOK
<1>12. SizeOK'
  BY <1>1, <1>4, <1>5, <1>6, PoolAssumption DEF SizeOK
<1> QED
  BY <1>7, <1>8, <1>9, <1>10, <1>11, <1>12 DEF Inv
-----------------------------------------------------------------------------
\* pool->state changes when every thread is back on the list and every
\* threadpool_run has returned: then every accepted job has been run.
LEMMA UninstallInv ==
  ASSUME Inv, state = "initialized", poolLock = NULL, Len(list) >= size,
         \A j \in Jobs : answer[j] \in {"accepted", "refused"}, Uninstall
  PROVE  Inv'
<1>1. /\ state' = "uninstalling" /\ poolLock' = Destroyer /\ dpc' = "signal" /\ i' = 1
      /\ UNCHANGED << list, size, wpc, job, cpc, picked, asked, answer, runs >>
  BY DEF Uninstall
<1>2. \A w \in Workers : ~ Active(w) /\ ~ Active(w)'
  <2>1. ASSUME NEW w \in Workers PROVE ~ Active(w)
    BY <2>1, AllListed DEF Alive, Active
  <2> QED
    BY <1>1, <2>1 DEF Active
<1>3. \A j \in Jobs : answer[j] = "accepted" => runs[j] = 1
  BY <1>2 DEF Inv, JobsOK
<1>4. TypeOK'
  BY <1>1, PoolAssumption DEF Inv, TypeOK
<1>5. CallersOK'
  <2>1. \A c \in Callers : cpc[c] # "signal" /\ poolLock' # c
    BY <1>1, PoolAssumption DEF Inv, CallersOK
  <2> QED
    BY <1>1, <2>1 DEF Inv, CallersOK
<1>6. DestroyOK' /\ DestroyAfterAllJobs'
  BY <1>1, <1>3 DEF Inv, DestroyOK, DestroyAfterAllJobs
<1>7. JobsOK'
  BY <1>1, <1>2, <1>3 DEF Inv, JobsOK
<1>8. ListOK' /\ SizeOK'
  BY <1>1 DEF Inv, ListOK, SizeOK, Alive
<1> QED
  BY <1>4, <1>5, <1>6, <1>7, <1>8 DEF Inv

\* threadpool_destroy up to the change of the state.
LEMMA DestroyBeginInv ==
  ASSUME Inv, QuietDestroy \/ DestroyFull
  PROVE  Inv'
<1>1. Len(list) \in Nat /\ size \in Nat
  BY ListMembers DEF Inv, TypeOK
<1>2. CASE QuietDestroy /\ Len(list) >= size
  <2>1. state = "initialized" /\ poolLock = NULL /\ Uninstall
        /\ \A j \in Jobs : answer[j] \in {"accepted", "refused"}
    BY <1>1, <1>2 DEF QuietDestroy, DestroyEnter, Inv, DestroyOK
  <2> QED
    BY <1>2, <2>1, UninstallInv
<1>3. CASE QuietDestroy /\ Len(list) < size
  <2>1. /\ dpc = "no" /\ dpc' = "full" /\ \A j \in Jobs : answer[j] \in {"accepted", "refused"}
        /\ UNCHANGED << state, list, size, poolLock, wpc, job, cpc, picked, asked, i, answer, runs >>
    BY <1>3 DEF QuietDestroy, DestroyEnter
  <2>2. TypeOK' /\ CallersOK' /\ ListOK' /\ SizeOK' /\ DestroyAfterAllJobs'
    BY <2>1 DEF Inv, TypeOK, CallersOK, Listed, ListOK, SizeOK, Alive, DestroyAfterAllJobs
  <2>3. DestroyOK' /\ JobsOK'
    BY <2>1 DEF Inv, DestroyOK, JobsOK, Active
  <2> QED
    BY <2>2, <2>3 DEF Inv
<1>4. CASE DestroyFull
  BY <1>4, UninstallInv DEF DestroyFull, Inv, DestroyOK
<1> QED
  BY <1>1, <1>2, <1>3, <1>4

\* The listed workers are woken with the job they ran last, and will not run
\* it again since the state has changed.
LEMMA DestroySignalInv ==
  ASSUME Inv, DestroySignal
  PROVE  Inv'
<1>1. PICK w \in Workers : w = list[i] /\ Listed(w)
  BY ListMembers DEF DestroySignal, Inv, TypeOK, Listed
<1>2. /\ dpc = "signal" /\ i' = i + 1 /\ i <= Len(list)
      /\ wpc[w] \notin {"push", "pushed"}
      /\ wpc' = [wpc EXCEPT ![w] = IF @ = "waiting" THEN "woken" ELSE @]
      /\ UNCHANGED << state, list, size, poolLock, job, cpc, picked, asked, dpc, answer, runs >>
  BY <1>1 DEF DestroySignal, SignalWorker, OwnMutexHeld
<1>3. state # "initialized" /\ \A c \in Callers : cpc[c] = "idle"
  BY <1>2, Quiet DEF Inv, DestroyOK
<1>4. /\ wpc'[w] = IF wpc[w] = "waiting" THEN "woken" ELSE wpc[w]
      /\ \A v \in Workers \ {w} : wpc'[v] = wpc[v]
  BY <1>2 DEF Inv, TypeOK
<1>5. TypeOK'
  <2>1. i' \in 1..TotalSize + 1
    BY <1>2, ListMembers, PoolAssumption DEF Inv, TypeOK, ListOK
  <2> QED
    BY <1>2, <2>1 DEF Inv, TypeOK
<1>6. CallersOK'
  BY <1>2, <1>3 DEF Inv, CallersOK
<1>7. DestroyOK' /\ DestroyAfterAllJobs'
  BY <1>2 DEF Inv, DestroyOK, DestroyAfterAllJobs
<1>8. JobsOK'
  <2>1. \A v \in Workers : Active(v)' <=> Active(v)
    BY <1>2, <1>3, <1>4 DEF Active
  <2> QED
    BY <1>2, <2>1 DEF Inv, JobsOK
<1>9. ListOK'
  BY <1>2, <1>3, <1>4, ListMembers DEF Inv, ListOK
<1>10. SizeOK'
  <2>1. Alive' = Alive
    BY <1>4 DEF Alive
  <2> QED
    BY <1>2, <2>1 DEF Inv, SizeOK
<1> QED
  BY <1>5, <1>6, <1>7, <1>8, <1>9, <1>10 DEF Inv

\* The wait for the workers, and the free.
LEMMA DestroyEndInv ==
  ASSUME Inv, DestroyWaitEmpty \/ DestroyFree
  PROVE  Inv'
<1>1. CASE DestroyWaitEmpty
  <2>1. /\ dpc = "signal" /\ poolLock' = NULL
        /\ dpc' = IF size > 0 THEN "empty" ELSE "empty_woken"
        /\ UNCHANGED << state, list, size, wpc, job, cpc, picked, asked, i, answer, runs >>
    BY <1>1 DEF DestroyWaitEmpty
  <2>2. \A c \in Callers : cpc[c] = "idle"
    BY <2>1, Quiet
  <2>3. TypeOK' /\ ListOK' /\ SizeOK' /\ DestroyAfterAllJobs'
    BY <2>1 DEF Inv, TypeOK, ListOK, SizeOK, Alive, DestroyAfterAllJobs
  <2>4. CallersOK'
    BY <2>1, <2>2, PoolAssumption DEF Inv, CallersOK
  <2>5. DestroyOK'
    BY <2>1, PoolAssumption DEF Inv, TypeOK, DestroyOK
  <2>6. JobsOK'
    BY <2>1 DEF Inv, JobsOK, Active
  <2> QED
    BY <2>3, <2>4, <2>5, <2>6 DEF Inv
<1>2. CASE DestroyFree
  <2>1. /\ dpc = "empty_woken" /\ poolLock = NULL /\ state' = "freed" /\ list' = << >>
        /\ dpc' = "done"
        /\ UNCHANGED << size, poolLock, wpc, job, cpc, picked, asked, i, answer, runs >>
    BY <1>2 DEF DestroyFree
  <2>2. state # "initialized" /\ \A c \in Callers : cpc[c] = "idle"
    BY <2>1, Quiet DEF Inv, DestroyOK
  <2>3. TypeOK' /\ SizeOK' /\ DestroyAfterAllJobs'
    BY <2>1, <2>2 DEF Inv, TypeOK, SizeOK, Alive, DestroyAfterAllJobs
  <2>4. CallersOK'
    BY <2>1, <2>2 DEF Inv, CallersOK
  <2>5. DestroyOK'
    BY <2>1 DEF Inv, DestroyOK
  <2>6. JobsOK'
    BY <2>1, <2>2 DEF Inv, JobsOK, Active
  <2>7. ListOK'
    BY <2>1, PoolAssumption DEF ListOK
  <2> QED
    BY <2>3, <2>4, <2>5, <2>6, <2>7 DEF Inv
<1> QED
  BY <1>1, <1>2

\* The invariant is inductive.
LEMMA NextInv == Inv /\ [Next]_vars => Inv'
<1> SUFFICES ASSUME Inv, [Next]_vars PROVE Inv'
  OBVIOUS
<1>1. ASSUME NEW c \in Callers, Caller(c) \/ \E j \in Jobs : RunEnter(c, j) PROVE Inv'
  BY <1>1, RunInv, RunSignalInv DEF Caller
<1>2. ASSUME NEW w \in Workers, Worker(w) PROVE Inv'
  BY <1>2, WorkerMoves, WorkerRunInv, WorkerPushInv, WorkerExitInv DEF Worker
<1>3. CASE Destroying
  BY <1>3, DestroyBeginInv, DestroySignalInv, DestroyEndInv DEF Destroying
<1>4. CASE QuietDestroy
  BY <1>4, DestroyBeginInv
<1>5. CASE UNCHANGED vars
  BY <1>5 DEF vars, Inv, TypeOK, CallersOK, DestroyOK, JobsOK, Active, ListOK, Listed, SizeOK,
              Alive, DestroyAfterAllJobs
<1> QED
  BY <1>1, <1>2, <1>3, <1>4, <1>5 DEF Next, Working

\* current_size counts the threads, the list holds each idle thread once,
\* every accepted job is run exactly once before the pool goes down, and no
\* thread is left when it is freed.
THEOREM Account == Spec => []PoolAccount
<1>1. Inv => PoolAccount
  <2> SUFFICES ASSUME Inv PROVE PoolAccount
    OBVIOUS
  <2>1. JobsRunOnce
    BY DEF Inv, JobsOK, JobsRunOnce
  <2>2. NoWorkerOutlivesPool
    <3> SUFFICES ASSUME state = "freed" PROVE Alive = {}
      BY DEF NoWorkerOutlivesPool, Alive
    <3> QED
      BY FS_EmptySet DEF Inv, DestroyOK, SizeOK
  <2>3. state = "initialized" =>
          \A w \in Workers : Listed(w) => wpc[w] \in {"pushed", "waiting"}
    BY DEF Inv, ListOK, Listed
  <2> QED
    BY <2>1, <2>2, <2>3 DEF Inv, ListOK, SizeOK, Alive, PoolAccount
<1> QED
  BY <1>1, InitInv, NextInv, PTL DEF Spec

\* threadpool_destroy called after the last threadpool_run has returned does
\* what its comment says: it takes the pool down when all jobs are finished.
THEOREM QuietDestroySafe == Spec => []DestroyAfterAllJobs
<1>1. Inv => DestroyAfterAllJobs
  BY DEF Inv
<1> QED
  BY <1>1, InitInv, NextInv, PTL DEF Spec
=============================================================================
