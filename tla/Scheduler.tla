----------------------------- MODULE Scheduler -----------------------------
(***************************************************************************)
(* sched_thread.c: one thread runs the scheduled entries from a chain      *)
(* sorted by the time of their next call.  Another thread adds entries and *)
(* deletes them by leaving requests in two variables without a lock, which *)
(* the schedule thread looks at between sleeps; delayed tasks come through *)
(* a locked queue.                                                         *)
(*                                                                         *)
(* Times are relative to g_current_time, which anyone moves who looks at   *)
(* the clock: due[e] = next_call_time - g_current_time.  The time of day   *)
(* is kept, modulo Day, for the entries that have a time base.             *)
(***************************************************************************)
EXTENDS Integers, Sequences, FiniteSets, SequencesExt

CONSTANTS
  Ids,           \* the entries' ids
  StartSets,     \* the sets of entries sched_start may be given
  Batches,       \* the arrays of entries given to sched_add_entries
  Interval,      \* interval of each entry
  Base,          \* time_base of each entry as a time of day, or NoBase
  NoBase,        \* TIME_NONE
  Day, Minute,   \* lengths in seconds, scaled down
  Deletable,     \* the ids given to sched_del_entry
  Tasks,         \* the delay tasks
  Delays,        \* the delays they are added with
  MaxStep        \* bound: how far the clock moves between two looks at it

NoId   == -1
Uninit == -100      \* next_call_time as the caller of sched_add_entries left it: long past

\* An interval is not 0 (sched_init_entries), an array has entries of finitely
\* many ids, and the day is a whole number of the intervals that have a base.
ASSUME ScheduleAssumption ==
  /\ Ids \in SUBSET Nat /\ IsFiniteSet(Ids)
  /\ StartSets \subseteq SUBSET Ids /\ Batches \subseteq Seq(Ids) /\ Deletable \subseteq Ids
  /\ Interval \in [Ids -> Nat \ {0}] /\ Day \in Nat \ {0} /\ MaxStep \in Nat
  /\ \A e \in Ids : Base[e] # NoBase => Base[e] \in 0 .. Day - 1 /\ Day % Interval[e] = 0

VARIABLES
  chain,      \* the entries from head to tail
  due, raced, \* of the entries in the chain; raced: those taken uninitialised
  waiting,    \* waiting_schedule_array: << [id, due] >>
  del,        \* waiting_del_id
  pc, pos,    \* the schedule thread: where it is; pCurrent's place in the chain
  last,       \* history: the entry the last step ran
  on,         \* *pcontinue_flag
  client,     \* the thread that adds and deletes: where it is, and with what
  wanted,     \* history: added, and not deleted since
  clock,      \* g_current_time modulo Day
  moved,      \* g_current_time moved since the timer was asked
  delayed     \* each delay task: "none", or where it is and when it expires

vars == << chain, due, raced, waiting, del, pc, pos, last, on, client, wanted, clock, moved, delayed >>

chainVars  == << chain, due, raced >>
clientVars == << client, wanted >>

Idle == [pc |-> "idle", ids |-> << >>]
None == [at |-> "none", due |-> 0]

\* g_current_time moves by d: what is kept relative to it.
ClockMoves(d) ==
  /\ clock' = (clock + d) % Day
  /\ due' = [e \in Ids |-> IF Contains(chain, e) THEN due[e] - d ELSE 0]
WaitingAt(d) == IF client.pc = "init" THEN waiting
                ELSE [i \in DOMAIN waiting |-> [waiting[i] EXCEPT !.due = @ - d]]
DelayedAt(d) == [t \in Tasks |-> IF delayed[t] = None THEN None
                                 ELSE [delayed[t] EXCEPT !.due = @ - d]]

-----------------------------------------------------------------------------
(* The chain.                                                              *)

\* The first call of an entry, seen from the time of day t: sched_init_entries.
\* The base is today's unless its minute is still to come.
FirstCall(e, t) ==
  IF Base[e] = NoBase THEN Interval[e]
  ELSE LET today  == t \div Minute >= Base[e] \div Minute
           remain == t - Base[e] + (IF today THEN 0 ELSE Day)
       IN CASE remain > 0 -> Interval[e] - (remain % Interval[e])
            [] remain < 0 -> (-remain) % Interval[e]
            [] OTHER      -> 0

\* sched_make_chain: qsort may leave entries that are due together in any order.
MakeChain(S, d) ==
  {s \in SetToSeqs(S) : \A i \in 1..(Len(s) - 1) : d[s[i]] <= d[s[i + 1]]}

\* Mutant: the entry goes behind the first one that is later.
PutBackLate(s, e, d) ==
  LET behind == SelectInSeq(s, LAMBDA x : d[x] >= d[e]) IN
  IF behind = 0 THEN Append(s, e) ELSE InsertAt(s, behind + 1, e)

\* Where an entry that ran goes back: the end, or before the first that is not
\* sooner.
PutBack(s, e, d) ==
  IF d[e] >= d[Last(s)] THEN Append(s, e)
  ELSE InsertAt(s, SelectInSeq(s, LAMBDA x : d[x] >= d[e]), e)

\* The chain after its first n entries ran.
Rechained(n) ==
  LET count == Len(chain) IN
  IF n = 0 \/ count = 1 THEN {chain}
  ELSE IF n > count \div 2 THEN MakeChain(ToSet(chain), due)
  ELSE LET after[k \in 0..n] == IF k = 0 THEN SubSeq(chain, n + 1, count)
                                ELSE PutBack(after[k - 1], chain[k], due)
       IN {after[n]}

-----------------------------------------------------------------------------
(* do_check_waiting.                                                       *)

Left == IF Contains(chain, del) THEN ToSet(chain) \ {del} ELSE ToSet(chain)

WaitingIds == {waiting[i].id : i \in DOMAIN waiting}

\* Entries are handed over before sched_add_entries initialises them.
TakenRaw == IF client.pc = "init" THEN WaitingIds ELSE {}

\* The last entry of the waiting array with this id counts.
WaitingDue(e) ==
  LET i == CHOOSE j \in DOMAIN waiting :
             waiting[j].id = e /\ \A k \in DOMAIN waiting : waiting[k].id = e => k <= j
  IN waiting[i].due

\* Mutant: a deletion that finds nothing is left there.
CheckWaitingKeepsDel(ok, no) ==
  LET S == Left \cup WaitingIds
      d == [e \in Ids |-> IF e \in WaitingIds THEN WaitingDue(e) ELSE due[e]]
      changed == waiting # << >> \/ S # ToSet(chain) IN
  /\ del' = IF Contains(chain, del) THEN NoId ELSE del
  /\ waiting' = << >>
  /\ due' = [e \in Ids |-> IF e \in S THEN d[e] ELSE 0]
  /\ raced' = (raced \cap (S \ WaitingIds)) \cup TakenRaw
  /\ chain' \in IF changed THEN MakeChain(S, d) ELSE {chain}
  /\ pc' = IF changed THEN ok ELSE no

\* The deletion, then the additions; goes on at ok, or at no with ENOENT.
CheckWaiting(ok, no) ==
  LET S == Left \cup WaitingIds
      d == [e \in Ids |-> IF e \in WaitingIds THEN WaitingDue(e) ELSE due[e]]
      changed == waiting # << >> \/ S # ToSet(chain) IN
  /\ del' = NoId
  /\ waiting' = << >>
  /\ due' = [e \in Ids |-> IF e \in S THEN d[e] ELSE 0]
  /\ raced' = (raced \cap (S \ WaitingIds)) \cup TakenRaw
  /\ chain' \in IF changed THEN MakeChain(S, d) ELSE {chain}
  /\ pc' = IF changed THEN ok ELSE no

\* No memory for the additions, which stay; the deletion is done.  Bound: it
\* does not fail until what waits is overdue.
CheckWaitingFails(no) ==
  /\ waiting # << >>
  /\ client.pc = "init" \/ \A i \in DOMAIN waiting : waiting[i].due > 0
  /\ del' = NoId
  /\ chain' \in IF Left # ToSet(chain) THEN MakeChain(Left, due) ELSE {chain}
  /\ due' = [e \in Ids |-> IF e \in Left THEN due[e] ELSE 0]
  /\ raced' = raced \cap Left
  /\ pc' = no
  /\ UNCHANGED waiting

-----------------------------------------------------------------------------
(* The schedule thread.                                                    *)

\* The thread looks at the clock, d seconds after the last look, and calls
\* sched_deal_delay_tasks: the queue goes into the timer, and the timer gives
\* what expired before the present second (fast_timer_timeouts_get).
Sample(d) ==
  /\ ClockMoves(d)
  /\ waiting' = WaitingAt(d)
  /\ delayed' = [t \in Tasks |->
       LET x == DelayedAt(d)[t] IN
       IF x = None \/ ((moved \/ d > 0) /\ x.due < 0) THEN None
       ELSE [x EXCEPT !.at = "timer"]]
  /\ moved' = FALSE
  /\ last' = NoId
  /\ UNCHANGED << chain, raced, del, pos, on, clientVars >>

LoopTopAfter(d) ==
  /\ pc \in {"top", "slept"} /\ on
  /\ pc = "slept" => d > 0
  /\ Sample(d)
  /\ pc' = "check"

LoopTop == \E d \in 0..MaxStep : LoopTopAfter(d)

\* The check at the top of the loop; with no entries the thread sleeps.
CheckTop ==
  /\ pc = "check"
  /\ CheckWaiting("wait", "wait") \/ CheckWaitingFails("wait")
  /\ UNCHANGED << pos, last, on, clientVars, clock, moved, delayed >>

NoEntries ==
  /\ pc = "wait" /\ chain = << >>
  /\ pc' = "slept"
  /\ UNCHANGED << chainVars, waiting, del, pos, last, on, clientVars, clock, moved, delayed >>

Sleep ==
  /\ pc = "wait" /\ on
  /\ chain # << >> /\ due[chain[1]] > 0
  /\ \E d \in 1..MaxStep : Sample(d)
  /\ pc' = "awake"

\* The check after a sleep.  When there is no memory and the last entry was
\* deleted, the thread reads through a null head.
CheckAwake ==
  /\ pc = "awake"
  /\ \/ CheckWaiting("exec", "wait")
     \/ CheckWaitingFails(IF Left = {} THEN "crashed" ELSE "wait")
  /\ pos' = 1
  /\ UNCHANGED << last, on, clientVars, clock, moved, delayed >>

\* Mutant: a head that is overdue is not run.
StartExecOnTime ==
  /\ pc = "wait" /\ on
  /\ chain # << >> /\ due[chain[1]] = 0
  /\ pc' = "exec" /\ pos' = 1
  /\ UNCHANGED << chainVars, waiting, del, last, on, clientVars, clock, moved, delayed >>

StartExec ==
  /\ pc = "wait" /\ on
  /\ chain # << >> /\ due[chain[1]] <= 0
  /\ pc' = "exec" /\ pos' = 1
  /\ UNCHANGED << chainVars, waiting, del, last, on, clientVars, clock, moved, delayed >>

\* The next multiple of the interval that is not past; an entry that was taken
\* before it was initialised came with any phase, and keeps it.
NextCall(e) ==
  IF e \in raced /\ due[e] <= Uninit THEN 1..Interval[e]
  ELSE {CHOOSE x \in 1..Interval[e] : (x - due[e]) % Interval[e] = 0}

\* The test of the loop over due entries.
DueNext == on /\ pos <= Len(chain) /\ due[chain[pos]] <= 0

\* The entry pCurrent is called, or a thread is started that calls it.
Exec ==
  LET e == chain[pos] IN
  /\ pc = "exec" /\ DueNext
  /\ \E x \in NextCall(e) : due' = [due EXCEPT ![e] = x]
  /\ pos' = pos + 1
  /\ last' = e
  /\ UNCHANGED << chain, raced, waiting, del, pc, on, clientVars, clock, moved, delayed >>

EndExec ==
  /\ pc = "exec"
  /\ ~DueNext
  /\ chain' \in Rechained(pos - 1)
  /\ pc' = "top" /\ pos' = 1 /\ last' = NoId
  /\ UNCHANGED << due, raced, waiting, del, on, clientVars, clock, moved, delayed >>

\* The thread ends: g_schedule_flag is false.
Stop ==
  /\ pc \in {"top", "slept", "wait"} /\ ~on
  /\ pc' = "stopped" /\ last' = NoId
  /\ UNCHANGED << chainVars, waiting, del, pos, on, clientVars, clock, moved, delayed >>

Running == pc \notin {"stopped", "crashed"}

-----------------------------------------------------------------------------
(* The other threads.                                                      *)

otherVars == << chain, raced, pc, pos, last >>

\* sched_append_array: entries that are not initialised yet.  With no memory
\* for them the call fails and nothing happens.
AppendArray(ids) ==
  /\ waiting' = waiting \o [i \in DOMAIN ids |-> [id |-> ids[i], due |-> Uninit]]
  /\ wanted' = wanted \cup ToSet(ids)
  /\ client' = [pc |-> "init", ids |-> << >>]
  /\ UNCHANGED << otherVars, due, del, on, clock, moved, delayed >>

\* sched_add_entries, which may first have to wait for the schedule thread to
\* take what is there.
CallAdd(ids) ==
  /\ client = Idle
  /\ waiting = << >>
  /\ AppendArray(ids)

CallAddWaits(ids) ==
  /\ client = Idle
  /\ waiting # << >>
  /\ client' = [pc |-> "add", ids |-> ids]
  /\ UNCHANGED << otherVars, due, waiting, del, on, wanted, clock, moved, delayed >>

AddWaited == client.pc = "add" /\ waiting = << >> /\ AppendArray(client.ids)

\* sched_init_entries on the waiting array, which the schedule thread may have
\* taken meanwhile.
AddInit ==
  /\ client.pc = "init"
  /\ client' = Idle
  /\ IF waiting = << >>
     THEN UNCHANGED << due, waiting, clock, moved, delayed >>
     ELSE \E d \in 0..MaxStep :
            /\ ClockMoves(d)
            /\ waiting' = [i \in DOMAIN waiting |->
                             [waiting[i] EXCEPT !.due = FirstCall(waiting[i].id, clock')]]
            /\ delayed' = DelayedAt(d)
            /\ moved' = (moved \/ d > 0)
  /\ UNCHANGED << otherVars, del, on, wanted >>

\* sched_del_entry, which may first have to wait for the last deletion to be
\* taken.
SetDel(e) ==
  /\ del = NoId
  /\ del' = e
  /\ wanted' = wanted \ {e}
  /\ client' = Idle
  /\ UNCHANGED << otherVars, due, waiting, on, clock, moved, delayed >>

CallDel(e) == client = Idle /\ SetDel(e)

CallDelWaits(e) ==
  /\ client = Idle
  /\ del # NoId
  /\ client' = [pc |-> "del", ids |-> << e >>]
  /\ UNCHANGED << otherVars, due, waiting, del, on, wanted, clock, moved, delayed >>

DelWaited == client.pc = "del" /\ SetDel(client.ids[1])

\* sched_add_delay_task_ex, of a task that is not under way.
AddDelayTask(t, delay) ==
  /\ delayed[t] = None
  /\ delayed' = [delayed EXCEPT ![t] = [at |-> "queue", due |-> delay]]
  /\ UNCHANGED << otherVars, due, waiting, del, on, clientVars, clock, moved >>

SetFlag ==
  /\ on
  /\ on' = FALSE
  /\ UNCHANGED << otherVars, due, waiting, del, clientVars, clock, moved, delayed >>

-----------------------------------------------------------------------------

\* sched_start_ex, and sched_thread_entrance up to its loop.
Init ==
  /\ clock = 0 /\ moved = FALSE
  /\ \E S \in StartSets :
       /\ due = [e \in Ids |-> IF e \in S THEN FirstCall(e, clock) ELSE 0]
       /\ chain \in MakeChain(S, due)
       /\ wanted = S
  /\ raced = {} /\ waiting = << >> /\ del = NoId
  /\ pc = "top" /\ pos = 1 /\ last = NoId /\ on = TRUE
  /\ client = Idle
  /\ delayed = [t \in Tasks |-> None]

ScheduleThread ==
  \/ LoopTop \/ CheckTop \/ NoEntries \/ Sleep \/ CheckAwake
  \/ StartExec \/ Exec \/ EndExec \/ Stop

\* The client's steps within a call.
InCall == AddWaited \/ AddInit \/ DelWaited

\* Bound: no calls once the thread was told to stop, or is gone.
Calls ==
  /\ on /\ Running
  /\ \/ \E ids \in Batches : CallAdd(ids) \/ CallAddWaits(ids)
     \/ \E e \in Deletable : CallDel(e) \/ CallDelWaits(e)
     \/ \E t \in Tasks, delay \in Delays : AddDelayTask(t, delay)
     \/ SetFlag

Next == ScheduleThread \/ InCall \/ Calls

\* The schedule thread runs and its sleeps end; a call in progress goes on; and
\* there is an end to the rounds of the loop within one second.
Fairness ==
  /\ WF_vars(ScheduleThread)
  /\ WF_vars(InCall)
  /\ SF_vars(\E d \in 1..MaxStep : LoopTopAfter(d))

Spec == Init /\ [][Next]_vars /\ Fairness

-----------------------------------------------------------------------------

\* Between rounds the chain is sorted by the time of the next call, so that no
\* due entry hides behind one that is not; it holds no entry twice; and an
\* entry that was added and not deleted is in it or about to be.
ChainWhole ==
  /\ pc # "exec" => \A i \in 1..(Len(chain) - 1) : due[chain[i]] <= due[chain[i + 1]]
  /\ Cardinality(ToSet(chain)) = Len(chain)
  /\ wanted \subseteq ToSet(chain) \cup WaitingIds

\* "the time base to execute task, such as 00:00, interval is 3600, means
\* execute the task every hour as 1:00, 2:00, 3:00": however late the thread
\* is, the next call stays on the grid of the time base, unless the entry was
\* taken before sched_add_entries had initialised it.
OnGrid ==
  \A e \in ToSet(chain) \ raced :
    Base[e] # NoBase =>
      (clock + due[e] - Base[e]) % Interval[e] = 0

\* Whatever is added, replaced, deleted and run late: the chain is whole and on
\* the grids of its entries.
ScheduleSound == ChainWhole /\ OnGrid

\* An entry in the chain is run again and again, and a delay task is run,
\* unless it is deleted or added anew or the thread is told to stop.
EveryTaskRuns ==
  /\ \A e \in Ids : Contains(chain, e) ~>
       (last = e \/ ~Contains(chain, e) \/ e \in WaitingIds \/ ~on \/ ~Running)
  /\ \A t \in Tasks : delayed[t] # None ~> (delayed[t] = None \/ ~on \/ ~Running)

\* "delete a schedule entry ... return: error no, 0 for success": once a
\* deletion was taken, the entry is not in the chain unless it was added again.
DeletedIsGone == ToSet(chain) \subseteq wanted \cup {del}

=============================================================================
