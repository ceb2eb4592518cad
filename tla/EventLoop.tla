------------------------------ MODULE EventLoop ------------------------------
(***************************************************************************)
(* ioevent_loop.c over ioevent.c: one thread polls its sockets, calls the  *)
(* tasks' callbacks, cleans up the tasks that were closed meanwhile and    *)
(* deals with timeouts.  Callbacks belong to the application (external):   *)
(* one may leave its task alone, give it a new time, or close a task, its  *)
(* own or another one, in the way the header means it: detach, remove the  *)
(* timer, ioevent_remove, iovent_add_to_deleted_list.  The timer wheel is  *)
(* FastTimer's; here it is the set of times it holds.                      *)
(***************************************************************************)
EXTENDS Naturals, Sequences, FiniteSets, Functions

CONSTANTS
  Tasks,
  Size,              \* events per poll
  Timeout,           \* seconds a task may be silent
  MaxTime,           \* bound on the clock
  OthersOnTimeout    \* may the callback of a timeout close another task?

VARIABLES
  st,         \* "free", "open" or "closed" (waiting for its clean up)
  attached,   \* tasks the poller watches
  wheel,      \* expiry times of the tasks in the timer, 0 for none
  deleted,    \* thread_data->deleted_list
  loop,       \* [pc, events, index, rest]: rest is what deal_timeouts has left
  now, lastCheck, flag,
  called      \* the task whose callback ran last, and its state at the call

vars == << st, attached, wheel, deleted, loop, now, lastCheck, flag, called >>

Notify == "notify"     \* the entry of the pipe; its timer.data is NULL
Null   == "null"       \* a cleared event
Nobody == "nobody"

Init ==
  /\ st = [t \in Tasks |-> "free"] /\ attached = {} /\ wheel = [t \in Tasks |-> 0]
  /\ deleted = << >> /\ now = 1 /\ lastCheck = 1 /\ flag = TRUE
  /\ loop = [pc |-> "poll", events |-> << >>, index |-> 1, rest |-> << >>]
  /\ called = << Nobody, "open" >>

\* ioevent_poll: at most Size of the watched descriptors, in any order; an
\* interrupted call counts as none, another failure ends the loop.
Poll ==
  /\ loop.pc = "poll"
  /\ \/ /\ flag
        /\ \E S \in SUBSET (attached \cup {Notify}) :
             /\ Cardinality(S) <= Size
             /\ \E q \in Injection(1 .. Cardinality(S), S) :
                  loop' = [loop EXCEPT !.pc = "deal", !.events = q, !.index = 1]
     \/ ~flag /\ loop' = [loop EXCEPT !.pc = "done"]
     \/ flag /\ loop' = [loop EXCEPT !.pc = "failed"]
  /\ UNCHANGED << st, attached, wheel, deleted, now, lastCheck, flag, called >>

Current == loop.events[loop.index]

\* A plausible slip: the events already fetched are not looked at.
IoeventRemoveNothing(u) == loop.events

\* ioevent_remove: the current event stays, the first later one with this task
\* is cleared.
IoeventRemove(u) ==
  IF loop.index > Len(loop.events) \/ Current = u THEN loop.events
  ELSE [i \in DOMAIN loop.events |->
          IF i > loop.index /\ loop.events[i] = u THEN Null ELSE loop.events[i]]

\* iovent_add_to_deleted_list
AddToDeletedList(u) == deleted' = << u >> \o deleted

\* What fast_timer_remove does to a list that deal_timeouts is walking: an
\* entry of another list does not touch it; one of this list leaves it, but
\* when it is the one saved as next its own link is cleared and the walk ends
\* behind it.
RestWithout(u, rest) ==
  IF u \notin Range(rest) THEN rest
  ELSE IF Head(rest) = u THEN << u >> ELSE SelectSeq(rest, LAMBDA t : t # u)

\* An application closes task u.
Close(u, l) ==
  /\ st[u] = "open" /\ st' = [st EXCEPT ![u] = "closed"]
  /\ attached' = attached \ {u} /\ wheel' = [wheel EXCEPT ![u] = 0]
  /\ AddToDeletedList(u)
  /\ loop' = [l EXCEPT !.events = IoeventRemove(u), !.rest = RestWithout(u, l.rest)]

\* ioevent_set: attach, which may fail, then the timer.
IoeventSet(t, l) ==
  /\ st[t] = "free" /\ loop' = l
  /\ \/ /\ st' = [st EXCEPT ![t] = "open"] /\ attached' = attached \cup {t}
        /\ wheel' = [wheel EXCEPT ![t] = now + Timeout]
     \/ UNCHANGED << st, attached, wheel >>
  /\ UNCHANGED deleted

Touch(t, l) ==
  /\ wheel' = [wheel EXCEPT ![t] = now + Timeout] /\ loop' = l
  /\ UNCHANGED << st, attached, deleted >>

Nothing(l) == loop' = l /\ UNCHANGED << st, attached, wheel, deleted >>

\* deal_ioevents: one round of its loop.
DealIoevents ==
  /\ loop.pc = "deal" /\ loop.index <= Len(loop.events)
  /\ \E l \in {[loop EXCEPT !.index = @ + 1]} :
       CASE Current = Null -> Nothing(l) /\ UNCHANGED called
         [] Current = Notify -> /\ (Nothing(l) \/ \E t \in Tasks : IoeventSet(t, l))
                                /\ UNCHANGED called
         [] OTHER -> /\ called' = << Current, st[Current] >>
                     /\ Nothing(l) \/ (st[Current] = "open" /\ Touch(Current, l))
                        \/ \E u \in Tasks : Close(u, l)
  /\ UNCHANGED << now, lastCheck, flag >>

EndDeal ==
  /\ loop.pc = "deal" /\ loop.index > Len(loop.events)
  /\ loop' = [loop EXCEPT !.pc = "clean"]
  /\ UNCHANGED << st, attached, wheel, deleted, now, lastCheck, flag, called >>

\* The list is emptied task by task with clean_up_callback, which gives the
\* task back to its pool.
CleanUp ==
  /\ loop.pc = "clean"
  /\ \/ /\ deleted # << >> /\ st' = [st EXCEPT ![Head(deleted)] = "free"]
        /\ deleted' = Tail(deleted) /\ UNCHANGED loop
     \/ deleted = << >> /\ loop' = [loop EXCEPT !.pc = "timer"] /\ UNCHANGED << st, deleted >>
  /\ UNCHANGED << attached, wheel, now, lastCheck, flag, called >>

Due == {t \in Tasks : wheel[t] # 0 /\ wheel[t] <= now}

\* Once a second the timer is asked for what is due.
CheckTimer ==
  /\ loop.pc = "timer"
  /\ \/ /\ now > lastCheck /\ lastCheck' = now
        /\ \E q \in Injection(1 .. Cardinality(Due), Due) : loop' = [loop EXCEPT !.pc = "timeouts", !.rest = q]
        /\ wheel' = [t \in Tasks |-> IF t \in Due THEN 0 ELSE wheel[t]]
     \/ now = lastCheck /\ loop' = [loop EXCEPT !.pc = "poll"] /\ UNCHANGED << wheel, lastCheck >>
  /\ UNCHANGED << st, attached, deleted, now, flag, called >>

\* deal_timeouts: next is saved and the entry unlinked before the callback.
DealTimeouts ==
  /\ loop.pc = "timeouts"
  /\ \/ /\ loop.rest # << >>
        /\ \E t \in {Head(loop.rest)}, l \in {[loop EXCEPT !.rest = Tail(@)]} :
             /\ called' = << t, st[t] >>
             /\ \/ st[t] = "open" /\ Touch(t, l)
                \/ Close(t, l)
                \/ OthersOnTimeout /\ \E u \in Tasks : Close(u, l)
                \/ st[t] # "open" /\ Nothing(l)
     \/ loop.rest = << >> /\ Nothing([loop EXCEPT !.pc = "poll"]) /\ UNCHANGED called
  /\ UNCHANGED << now, lastCheck, flag >>

Tick ==
  /\ now < MaxTime /\ now' = now + 1
  /\ UNCHANGED << st, attached, wheel, deleted, loop, lastCheck, flag, called >>

\* *continue_flag is cleared by another thread.
Quit ==
  /\ flag /\ flag' = FALSE
  /\ UNCHANGED << st, attached, wheel, deleted, loop, now, lastCheck, called >>

IoeventLoop == Poll \/ DealIoevents \/ EndDeal \/ CleanUp \/ CheckTimer \/ DealTimeouts

Next == IoeventLoop \/ Tick \/ Quit

\* The thread keeps running: every poll has a timeout.
Spec == Init /\ [][Next]_vars /\ WF_vars(IoeventLoop)
-----------------------------------------------------------------------------
\* A callback is never called for a task that has been closed, let alone given
\* back; tasks wait once for their clean up, and an open task is in the timer
\* unless its timeout is being dealt with.
Sound ==
  /\ called[1] # Nobody => called[2] = "open"
  /\ \A i \in DOMAIN deleted : st[deleted[i]] = "closed"
  /\ IsInjective(deleted)
  /\ \A t \in Tasks : st[t] = "closed" => t \in Range(deleted)
  /\ \A t \in Tasks : st[t] = "open" <=> t \in attached
  /\ \A t \in Tasks : st[t] = "open" <=> wheel[t] # 0 \/ t \in Range(loop.rest)
=============================================================================
