--------------------------- MODULE ServicesProofs ---------------------------
(***************************************************************************)
(* What MCServices checks of the event loop, of the file that is replaced, *)
(* of the serial numbers, of the pid file, of a file that goes over a      *)
(* socket, of one request on several sockets and of the schedule thread,   *)
(* proved for any number of tasks, inodes, callers, processes, servers and *)
(* schedule entries and any sizes and intervals.                           *)
(*                                                                         *)
(* A file that is replaced is whole in every directory that a power        *)
(* failure may leave, and the temporary file is the file of none of them.  *)
(* The transfer of a file is a stream: what the receiver has stored, what  *)
(* it holds in its buffer and what lies on the wire are neighbouring       *)
(* stretches of what the sender has sent.  The same goes for the answer of *)
(* a server, as long as no earlier request has failed on its socket.  The  *)
(* chain of the schedule is put together anew after each round: the step   *)
(* from one entry put back to the next keeps it sorted and whole.          *)
(***************************************************************************)
EXTENDS MCServices, FiniteSetTheorems, SequenceTheorems, WellFoundedInduction, TLAPS

LoopRecords ==
  [pc : {"poll", "deal", "clean", "timer", "timeouts", "done", "failed"},
   events : Seq(LoopTasks \cup {Looping!Notify, Looping!Null}),
   index : Nat \ {0}, rest : Seq(LoopTasks)]

LoopTypes ==
  /\ st \in [LoopTasks -> {"free", "open", "closed"}]
  /\ attached \in SUBSET LoopTasks
  /\ wheel \in [LoopTasks -> Nat]
  /\ deleted \in Seq(LoopTasks)
  /\ loop \in LoopRecords
  /\ now \in Nat \ {0}

\* Of the events that are still to be dealt with, each is of an open task or
\* was cleared, and no task has two.
EventsAhead ==
  loop.pc = "deal" =>
    \A i \in loop.index .. Len(loop.events) :
      loop.events[i] \in LoopTasks =>
        /\ st[loop.events[i]] = "open"
        /\ \A j \in i + 1 .. Len(loop.events) : loop.events[j] # loop.events[i]

\* The list deal_timeouts walks exists only while it walks it, and its tasks
\* are out of the wheel.
TimeoutsAhead ==
  /\ loop.pc # "timeouts" => loop.rest = << >>
  /\ Looping!IsInjective(loop.rest)
  /\ \A t \in Looping!Range(loop.rest) : wheel[t] = 0

\* The tasks that wait for their clean up are the closed ones, each once; the
\* watched ones are the open ones.
Lists ==
  /\ \A i \in DOMAIN deleted : st[deleted[i]] = "closed"
  /\ Looping!IsInjective(deleted)
  /\ \A t \in LoopTasks : st[t] = "closed" => t \in Looping!Range(deleted)
  /\ \A t \in LoopTasks : st[t] = "open" <=> t \in attached

Timers ==
  \A t \in LoopTasks : st[t] = "open" <=> wheel[t] # 0 \/ t \in Looping!Range(loop.rest)

CalledOpen == called[1] # Looping!Nobody => called[2] = "open"

LoopInv ==
  LoopTypes /\ EventsAhead /\ TimeoutsAhead /\ Lists /\ Timers /\ CalledOpen

\* The loop starts with no task and an empty list.
LEMMA LoopStarts ==
  ASSUME Looping!Init
  PROVE  LoopInv
<1>1. LoopTypes
  BY DEF Looping!Init, LoopTypes, LoopRecords
<1>2. EventsAhead /\ TimeoutsAhead
  BY DEF Looping!Init, EventsAhead, TimeoutsAhead, Looping!IsInjective, Looping!Range
<1>3. Lists /\ Timers /\ CalledOpen
  BY DEF Looping!Init, Lists, Timers, CalledOpen, Looping!IsInjective, Looping!Range
<1> QED
  BY <1>1, <1>2, <1>3 DEF LoopInv

\* An order of a finite set of tasks is a sequence that holds each of them once.
LEMMA Orders ==
  ASSUME NEW S, IsFiniteSet(S), NEW q \in Looping!Injection(1 .. Looping!Cardinality(S), S)
  PROVE  q \in Seq(S) /\ Looping!IsInjective(q) /\ Looping!Range(q) = S
<1> DEFINE n == Cardinality(S)
<1>1. n \in Nat
  BY FS_CardinalityType
<1>2. q \in [1..n -> S] /\ \A i, j \in 1..n : i # j => q[i] # q[j]
  <2>1. Looping!Cardinality(S) = n
    BY DEF Looping!Cardinality, Cardinality
  <2> QED
    BY <2>1 DEF Looping!Injection, Looping!IsInjective
<1>3. Cardinality(1..n) = n
  BY <1>1, FS_Interval
<1> HIDE DEF n
<1>4. q \in Seq(S) /\ DOMAIN q = 1..n
  BY <1>1, <1>2
<1>5. q \in Injection(1..n, S)
  BY <1>2 DEF Injection, IsInjective
<1>6. q \in Surjection(1..n, S)
  BY <1>3, <1>5, FS_Injection DEF n
<1>7. Looping!Range(q) = S
  BY <1>2, <1>4, <1>6 DEF Looping!Range, Surjection
<1> QED
  BY <1>2, <1>4, <1>7 DEF Looping!IsInjective

\* A poll fetches events of watched tasks, which are open, each once.
LEMMA PollStep ==
  ASSUME LoopConstants, LoopInv, Looping!Poll
  PROVE  LoopInv'
<1>1. UNCHANGED << st, attached, wheel, deleted, now, lastCheck, flag, called >> /\ loop.pc = "poll"
  BY DEF Looping!Poll
<1>2. CASE \E x \in {"done", "failed"} : loop' = [loop EXCEPT !.pc = x]
  <2>1. loop' \in LoopRecords /\ loop'.rest = loop.rest
        /\ loop'.pc \notin {"deal", "timeouts"}
    BY <1>2 DEF LoopInv, LoopTypes, LoopRecords
  <2> QED
    BY <1>1, <2>1 DEF LoopInv, LoopTypes, EventsAhead, TimeoutsAhead, Lists, Timers, CalledOpen,
       Looping!Range, Looping!IsInjective
<1>3. ASSUME NEW S \in SUBSET (attached \cup {Looping!Notify}), NEW q \in Looping!Injection(1 .. Looping!Cardinality(S), S),
             loop' = [loop EXCEPT !.pc = "deal", !.events = q, !.index = 1]
      PROVE  LoopInv'
  <2>1. IsFiniteSet(S)
    <3>1. IsFiniteSet(LoopTasks \cup {Looping!Notify})
      BY FS_AddElement DEF LoopConstants
    <3> QED
      BY <3>1, FS_Subset DEF LoopInv, LoopTypes
  <2>2. q \in Seq(S) /\ Looping!IsInjective(q)
    BY <2>1, Orders
  <2>3. S \subseteq LoopTasks \cup {Looping!Notify, Looping!Null}
    BY DEF LoopInv, LoopTypes
  <2>4. q \in Seq(LoopTasks \cup {Looping!Notify, Looping!Null})
    BY <2>2, <2>3
  <2>5. loop' \in LoopRecords
    <3>1. loop' = [pc |-> "deal", events |-> q, index |-> 1, rest |-> loop.rest]
      BY <1>3 DEF LoopInv, LoopTypes, LoopRecords
    <3>2. loop.rest \in Seq(LoopTasks)
      BY DEF LoopInv, LoopTypes, LoopRecords
    <3> QED
      BY <2>4, <3>1, <3>2 DEF LoopRecords
  <2>6. loop'.events = q /\ loop'.index = 1 /\ loop'.rest = << >>
    BY <1>1, <1>3 DEF LoopInv, LoopTypes, LoopRecords, TimeoutsAhead
  <2>7. EventsAhead'
    <3>1. ASSUME NEW i \in 1 .. Len(q), q[i] \in LoopTasks
          PROVE  st[q[i]] = "open" /\ \A j \in i + 1 .. Len(q) : q[j] # q[i]
      <4>1. q[i] \in S
        BY <2>2
      <4>2. q[i] \in attached
        BY <3>1, <4>1 DEF LoopConstants
      <4> QED
        BY <2>2, <3>1, <4>2 DEF LoopInv, Lists, Looping!IsInjective
    <3> QED
      BY <1>1, <2>6, <3>1 DEF EventsAhead
  <2>8. TimeoutsAhead'
    BY <2>6 DEF TimeoutsAhead, Looping!Range, Looping!IsInjective
  <2>9. Lists' /\ Timers' /\ CalledOpen'
    BY <1>1, <2>6 DEF LoopInv, TimeoutsAhead, Lists, Timers, CalledOpen, Looping!Range, Looping!IsInjective
  <2> QED
    BY <1>1, <2>5, <2>7, <2>8, <2>9 DEF LoopInv, LoopTypes
<1> QED
  BY <1>2, <1>3 DEF Looping!Poll

\* Closing a task takes it from the poller and puts it on the list of those to
\* be cleaned up, where it was not.
LEMMA CloseLists ==
  ASSUME LoopInv, NEW u \in LoopTasks, NEW l, Looping!Close(u, l)
  PROVE  /\ st[u] = "open" /\ st' = [st EXCEPT ![u] = "closed"]
         /\ wheel' = [wheel EXCEPT ![u] = 0]
         /\ st' \in [LoopTasks -> {"free", "open", "closed"}]
         /\ attached' \in SUBSET LoopTasks
         /\ wheel' \in [LoopTasks -> Nat]
         /\ deleted' \in Seq(LoopTasks)
         /\ Lists'
<1>1. /\ st[u] = "open" /\ st' = [st EXCEPT ![u] = "closed"]
      /\ attached' = attached \ {u} /\ wheel' = [wheel EXCEPT ![u] = 0]
      /\ deleted' = << u >> \o deleted
  BY DEF Looping!Close, Looping!AddToDeletedList
<1>2. /\ st \in [LoopTasks -> {"free", "open", "closed"}] /\ attached \in SUBSET LoopTasks
      /\ wheel \in [LoopTasks -> Nat] /\ deleted \in Seq(LoopTasks)
  BY DEF LoopInv, LoopTypes
<1>3. /\ deleted' \in Seq(LoopTasks)
      /\ Len(deleted') = Len(deleted) + 1 /\ deleted'[1] = u
      /\ \A i \in 1 .. Len(deleted) : deleted'[i + 1] = deleted[i]
      /\ \A i \in 2 .. Len(deleted') : i - 1 \in 1 .. Len(deleted) /\ deleted'[i] = deleted[i - 1]
  BY <1>1, <1>2
<1>4. \A i \in 1 .. Len(deleted) : st[deleted[i]] = "closed" /\ deleted[i] # u /\ deleted[i] \in LoopTasks
  BY <1>1, <1>2 DEF LoopInv, Lists
<1>5. \A i \in 1 .. Len(deleted') : i # 1 => deleted'[i] # u
  <2>1. ASSUME NEW i \in 1 .. Len(deleted'), i # 1 PROVE deleted'[i] # u
    <3>1. i \in 2 .. Len(deleted')
      BY <1>2, <1>3, <2>1
    <3>2. i - 1 \in 1 .. Len(deleted) /\ deleted'[i] = deleted[i - 1]
      BY <1>3, <3>1
    <3> QED
      BY <1>4, <3>2
  <2> QED
    BY <2>1
<1>9. \A i \in DOMAIN deleted' : st'[deleted'[i]] = "closed"
  <2>1. ASSUME NEW i \in 1 .. Len(deleted') PROVE st'[deleted'[i]] = "closed"
    <3>1. CASE i = 1
      BY <1>1, <1>2, <1>3, <3>1
    <3>2. CASE i # 1
      <4>1. i \in 2 .. Len(deleted')
        BY <1>2, <1>3, <3>2
      <4>2. i - 1 \in 1 .. Len(deleted) /\ deleted'[i] = deleted[i - 1]
        BY <1>3, <4>1
      <4> QED
        BY <1>1, <1>2, <1>4, <4>2
    <3> QED
      BY <3>1, <3>2
  <2> QED
    BY <1>3, <2>1
<1>6. Looping!IsInjective(deleted')
  <2>1. ASSUME NEW i \in 1 .. Len(deleted'), NEW j \in 1 .. Len(deleted'), deleted'[i] = deleted'[j]
        PROVE  i = j
    <3>1. CASE i = 1 /\ j # 1
      BY <1>3, <1>5, <2>1, <3>1
    <3>2. CASE i # 1 /\ j = 1
      BY <1>3, <1>5, <2>1, <3>2
    <3>3. CASE i # 1 /\ j # 1
      <4>1. i \in 2 .. Len(deleted') /\ j \in 2 .. Len(deleted')
        BY <1>2, <1>3, <3>3
      <4>2. /\ i - 1 \in 1 .. Len(deleted) /\ j - 1 \in 1 .. Len(deleted)
            /\ deleted[i - 1] = deleted[j - 1]
        BY <1>3, <2>1, <4>1
      <4>3. i - 1 = j - 1
        BY <1>2, <4>2 DEF LoopInv, Lists, Looping!IsInjective
      <4> QED
        BY <4>3
    <3> QED
      BY <3>1, <3>2, <3>3
  <2> QED
    BY <1>3, <2>1 DEF Looping!IsInjective
<1>7. \A t \in LoopTasks : st'[t] = "closed" => t \in Looping!Range(deleted')
  <2>1. ASSUME NEW t \in LoopTasks, st'[t] = "closed"
        PROVE  \E i \in 1 .. Len(deleted') : deleted'[i] = t
    <3>1. CASE t = u
      BY <1>2, <1>3, <3>1
    <3>2. CASE t # u
      <4>1. PICK i \in 1 .. Len(deleted) : deleted[i] = t
        BY <1>1, <1>2, <2>1, <3>2 DEF LoopInv, Lists, Looping!Range
      <4>2. i + 1 \in 1 .. Len(deleted') /\ deleted'[i + 1] = t
        BY <1>2, <1>3, <4>1
      <4> QED
        BY <4>2
    <3> QED
      BY <3>1, <3>2
  <2> QED
    BY <1>3, <2>1 DEF Looping!Range
<1>8. \A t \in LoopTasks : st'[t] = "open" <=> t \in attached'
  BY <1>1, <1>2 DEF LoopInv, Lists
<1> QED
  BY <1>1, <1>2, <1>3, <1>6, <1>7, <1>8, <1>9 DEF Lists

\* Replacing two fields of the loop's record.
LEMMA LoopExcept ==
  ASSUME NEW r \in LoopRecords, NEW e, NEW f, NEW x, x = [r EXCEPT !.events = e, !.rest = f]
  PROVE  x = [pc |-> r.pc, events |-> e, index |-> r.index, rest |-> f]
  BY DEF LoopRecords

\* What closing a task makes of that record.
LEMMA CloseLoop ==
  ASSUME NEW u, NEW l \in LoopRecords, Looping!Close(u, l)
  PROVE  loop' = [pc |-> l.pc, events |-> Looping!IoeventRemove(u), index |-> l.index,
                  rest |-> Looping!RestWithout(u, l.rest)]
<1>1. PICK e, f : e = Looping!IoeventRemove(u) /\ f = Looping!RestWithout(u, l.rest)
  OBVIOUS
<1>2. PICK x : x = loop'
  OBVIOUS
<1>3. x = [l EXCEPT !.events = e, !.rest = f]
  BY <1>1, <1>2 DEF Looping!Close
<1>4. x = [pc |-> l.pc, events |-> e, index |-> l.index, rest |-> f]
  BY <1>3, LoopExcept
<1> QED
  BY <1>1, <1>2, <1>4

\* The rest of a list without repetitions.
LEMMA TailInjective ==
  ASSUME NEW S, NEW s \in Seq(S), s # << >>, Looping!IsInjective(s)
  PROVE  /\ Head(s) \in S /\ Tail(s) \in Seq(S) /\ Looping!IsInjective(Tail(s))
         /\ Head(s) \in Looping!Range(s)
         /\ Looping!Range(Tail(s)) = Looping!Range(s) \ {Head(s)}
<1>1. /\ Len(s) \in Nat \ {0} /\ Head(s) = s[1] /\ s[1] \in S /\ Tail(s) \in Seq(S)
      /\ Len(Tail(s)) = Len(s) - 1 /\ \A i \in 1 .. Len(s) - 1 : Tail(s)[i] = s[i + 1]
  BY HeadTailProperties
<1>2. DOMAIN s = 1 .. Len(s) /\ DOMAIN Tail(s) = 1 .. Len(s) - 1
  BY <1>1
<1>3. \A i, j \in 1 .. Len(s) : s[i] = s[j] => i = j
  BY <1>2 DEF Looping!IsInjective
<1> DEFINE n == Len(s)
<1>4. \A i \in 1 .. n - 1 : i + 1 \in 1 .. n /\ i + 1 # 1
  BY <1>1
<1>5. \A i \in 1 .. n : i # 1 => i - 1 \in 1 .. n - 1 /\ (i - 1) + 1 = i
  BY <1>1
<1>6. 1 \in 1 .. n /\ n - 1 \in Nat
  BY <1>1
<1> HIDE DEF n
<1>7. Looping!IsInjective(Tail(s))
  <2>1. ASSUME NEW i \in 1 .. n - 1, NEW j \in 1 .. n - 1, Tail(s)[i] = Tail(s)[j]
        PROVE  i = j
    <3>1. i + 1 = j + 1
      BY <1>1, <1>3, <1>4, <2>1 DEF n
    <3> QED
      BY <1>6, <3>1
  <2> QED
    BY <1>2, <2>1 DEF n, Looping!IsInjective
<1>8. ASSUME NEW x \in Looping!Range(Tail(s)) PROVE x \in Looping!Range(s) \ {Head(s)}
  <2>1. PICK i \in 1 .. n - 1 : x = Tail(s)[i]
    BY <1>2 DEF n, Looping!Range
  <2>2. x = s[i + 1] /\ i + 1 \in 1 .. n /\ i + 1 # 1
    BY <1>1, <1>4, <2>1 DEF n
  <2>3. x # s[1]
    BY <1>3, <1>6, <2>2 DEF n
  <2> QED
    BY <1>1, <1>2, <2>2, <2>3 DEF n, Looping!Range
<1>9. ASSUME NEW x \in Looping!Range(s) \ {Head(s)} PROVE x \in Looping!Range(Tail(s))
  <2>1. PICK i \in 1 .. n : x = s[i]
    BY <1>2 DEF n, Looping!Range
  <2>2. i # 1
    BY <1>1, <2>1
  <2>3. i - 1 \in 1 .. n - 1 /\ Tail(s)[i - 1] = x
    BY <1>1, <1>5, <2>1, <2>2 DEF n
  <2> QED
    BY <1>2, <2>3 DEF n, Looping!Range
<1>10. Head(s) \in Looping!Range(s)
  BY <1>1, <1>2, <1>6 DEF n, Looping!Range
<1> QED
  BY <1>1, <1>7, <1>8, <1>9, <1>10

\* A callback of deal_ioevents closes a task, its own or another one: the
\* event of that task, when it is still to come, is cleared.
LEMMA DealClose ==
  ASSUME LoopConstants, LoopInv, NEW u \in LoopTasks, NEW l,
         l = [loop EXCEPT !.index = @ + 1], loop.pc = "deal", loop.index <= Len(loop.events),
         Looping!Close(u, l), UNCHANGED << now, lastCheck, flag >>
  PROVE  LoopTypes' /\ EventsAhead' /\ TimeoutsAhead' /\ Lists' /\ Timers'
<1> DEFINE E == LoopTasks \cup {Looping!Notify, Looping!Null}
<1>1. /\ st[u] = "open" /\ st' = [st EXCEPT ![u] = "closed"]
      /\ wheel' = [wheel EXCEPT ![u] = 0]
      /\ st' \in [LoopTasks -> {"free", "open", "closed"}]
      /\ attached' \in SUBSET LoopTasks /\ wheel' \in [LoopTasks -> Nat]
      /\ deleted' \in Seq(LoopTasks) /\ Lists'
  BY CloseLists
<1>2. /\ loop.events \in Seq(E) /\ loop.index \in Nat \ {0} /\ loop.rest = << >>
      /\ st \in [LoopTasks -> {"free", "open", "closed"}] /\ wheel \in [LoopTasks -> Nat]
      /\ now' \in Nat \ {0}
  BY DEF LoopInv, LoopTypes, LoopRecords, TimeoutsAhead
<1>3. l = [pc |-> "deal", events |-> loop.events, index |-> loop.index + 1, rest |-> << >>]
  BY <1>2 DEF LoopInv, LoopTypes, LoopRecords
<1>4. loop' = [pc |-> "deal", events |-> Looping!IoeventRemove(u), index |-> loop.index + 1,
               rest |-> Looping!RestWithout(u, << >>)]
  <2>1. loop.index + 1 \in Nat \ {0} /\ << >> \in Seq(LoopTasks)
    BY <1>2
  <2>2. l \in LoopRecords
    BY <1>2, <1>3, <2>1 DEF LoopRecords
  <2>3. /\ loop' = [pc |-> l.pc, events |-> Looping!IoeventRemove(u), index |-> l.index,
                   rest |-> Looping!RestWithout(u, l.rest)]
    BY <2>2, CloseLoop
  <2> QED
    BY <1>3, <2>3
<1>5. Looping!RestWithout(u, << >>) = << >>
  BY DEF Looping!RestWithout, Looping!Range
<1>6. /\ Looping!IoeventRemove(u) \in Seq(E)
      /\ Len(Looping!IoeventRemove(u)) = Len(loop.events)
      /\ \A i \in loop.index + 1 .. Len(loop.events) :
           /\ Looping!IoeventRemove(u)[i] \in {loop.events[i], Looping!Null}
           /\ Looping!IoeventRemove(u)[i] # u
  <2>1. CASE Looping!Current = u
    <3>1. Looping!IoeventRemove(u) = loop.events
      BY <2>1 DEF Looping!IoeventRemove
    <3>2. loop.events[loop.index] = u
      BY <2>1 DEF Looping!Current
    <3>3. \A j \in loop.index + 1 .. Len(loop.events) : loop.events[j] # u
      <4>1. loop.index \in loop.index .. Len(loop.events)
        BY <1>2
      <4>2. /\ loop.events[loop.index] \in LoopTasks =>
                 \A j \in loop.index + 1 .. Len(loop.events) : loop.events[j] # loop.events[loop.index]
        BY <4>1 DEF LoopInv, EventsAhead
      <4> QED
        BY <3>2, <4>2
    <3> QED
      BY <1>2, <3>1, <3>3
  <2>2. CASE Looping!Current # u
    <3>1. Looping!IoeventRemove(u) =
            [i \in 1 .. Len(loop.events) |->
               IF i > loop.index /\ loop.events[i] = u THEN Looping!Null ELSE loop.events[i]]
      <4>1. ~ (loop.index > Len(loop.events)) /\ DOMAIN loop.events = 1 .. Len(loop.events)
        BY <1>2
      <4> QED
        BY <2>2, <4>1 DEF Looping!IoeventRemove
    <3>2. Looping!IoeventRemove(u) \in Seq(E)
      BY <1>2, <3>1
    <3>3. \A i \in loop.index + 1 .. Len(loop.events) : i \in 1 .. Len(loop.events) /\ i > loop.index
      BY <1>2
    <3>4. Looping!Null # u
      BY DEF LoopConstants
    <3> QED
      BY <1>2, <3>1, <3>2, <3>3, <3>4
  <2> QED
    BY <2>1, <2>2
<1>7. LoopTypes'
  <2>1. loop.index + 1 \in Nat \ {0} /\ << >> \in Seq(LoopTasks)
    BY <1>2
  <2>2. loop' \in LoopRecords
    BY <1>4, <1>5, <1>6, <2>1 DEF LoopRecords
  <2> QED
    BY <1>1, <1>2, <2>2 DEF LoopTypes
<1>8. EventsAhead'
  <2> DEFINE ev == Looping!IoeventRemove(u)
  <2>1. ASSUME NEW i \in loop.index + 1 .. Len(loop.events), ev[i] \in LoopTasks
        PROVE  st'[ev[i]] = "open" /\ \A j \in i + 1 .. Len(loop.events) : ev[j] # ev[i]
    <3>1. ev[i] = loop.events[i] /\ ev[i] # u
      BY <1>6, <2>1 DEF LoopConstants
    <3>2. i \in loop.index .. Len(loop.events)
      BY <1>2
    <3>3. st[ev[i]] = "open" /\ \A j \in i + 1 .. Len(loop.events) : loop.events[j] # ev[i]
      BY <2>1, <3>1, <3>2 DEF LoopInv, EventsAhead
    <3>4. \A j \in i + 1 .. Len(loop.events) : ev[j] \in {loop.events[j], Looping!Null}
      BY <1>2, <1>6
    <3>5. \A j \in i + 1 .. Len(loop.events) : ev[j] # ev[i]
      BY <2>1, <3>3, <3>4 DEF LoopConstants
    <3>6. st'[ev[i]] = "open"
      BY <1>1, <1>2, <2>1, <3>1, <3>3
    <3> QED
      BY <3>5, <3>6
  <2> HIDE DEF ev
  <2>2. loop'.events = ev /\ loop'.index = loop.index + 1
    BY <1>4 DEF ev
  <2> QED
    BY <1>6, <2>1, <2>2 DEF EventsAhead, ev
<1>9. TimeoutsAhead' /\ Timers'
  <2>1. loop'.rest = << >>
    BY <1>4, <1>5
  <2>2. \A t \in LoopTasks : st'[t] = "open" <=> wheel'[t] # 0
    BY <1>1, <1>2 DEF LoopInv, Timers, Looping!Range
  <2> QED
    BY <2>1, <2>2 DEF TimeoutsAhead, Timers, Looping!Range, Looping!IsInjective
<1> QED
  BY <1>1, <1>7, <1>8, <1>9
\* One round of deal_ioevents.
LEMMA DealStep ==
  ASSUME LoopConstants, LoopInv, Looping!DealIoevents
  PROVE  LoopInv'
<1>1. PICK l : l = [loop EXCEPT !.index = @ + 1]
  OBVIOUS
<1>2. /\ loop.pc = "deal" /\ loop.index <= Len(loop.events) /\ UNCHANGED << now, lastCheck, flag >>
  BY DEF Looping!DealIoevents
<1>3. /\ loop.events \in Seq(LoopTasks \cup {Looping!Notify, Looping!Null})
      /\ loop.index \in Nat \ {0} /\ loop.rest = << >>
      /\ st \in [LoopTasks -> {"free", "open", "closed"}] /\ wheel \in [LoopTasks -> Nat]
      /\ attached \in SUBSET LoopTasks /\ deleted \in Seq(LoopTasks) /\ now \in Nat \ {0}
  BY <1>2 DEF LoopInv, LoopTypes, LoopRecords, TimeoutsAhead
<1>4. /\ l \in LoopRecords /\ l.pc = "deal" /\ l.events = loop.events
      /\ l.index = loop.index + 1 /\ l.rest = << >>
  <2>1. l = [pc |-> "deal", events |-> loop.events, index |-> loop.index + 1, rest |-> << >>]
    BY <1>1, <1>2, <1>3 DEF LoopInv, LoopTypes, LoopRecords
  <2>2. loop.index + 1 \in Nat \ {0} /\ << >> \in Seq(LoopTasks)
    BY <1>3
  <2> QED
    BY <1>3, <2>1, <2>2 DEF LoopRecords
<1>5. ASSUME loop' = l, st' \in [LoopTasks -> {"free", "open", "closed"}],
             \A t \in LoopTasks : st[t] = "open" => st'[t] = "open"
      PROVE  EventsAhead' /\ TimeoutsAhead'
  <2>1. \A i \in loop.index + 1 .. Len(loop.events) : i \in loop.index .. Len(loop.events)
    BY <1>3
  <2>2. EventsAhead'
    BY <1>2, <1>4, <1>5, <2>1 DEF LoopInv, EventsAhead
  <2>3. TimeoutsAhead'
    BY <1>4, <1>5 DEF TimeoutsAhead, Looping!Range, Looping!IsInjective
  <2> QED
    BY <2>2, <2>3
<1>6. ASSUME Looping!Nothing(l) PROVE LoopTypes' /\ EventsAhead' /\ TimeoutsAhead' /\ Lists' /\ Timers'
  <2>1. loop' = l /\ UNCHANGED << st, attached, wheel, deleted >>
    BY <1>6 DEF Looping!Nothing
  <2>2. EventsAhead' /\ TimeoutsAhead'
    BY <1>3, <1>5, <2>1
  <2>3. LoopTypes'
    BY <1>2, <1>3, <1>4, <2>1 DEF LoopTypes
  <2>4. Lists' /\ Timers'
    BY <1>3, <1>4, <2>1 DEF LoopInv, Lists, Timers
  <2> QED
    BY <2>2, <2>3, <2>4
<1>7. ASSUME NEW t \in LoopTasks, Looping!IoeventSet(t, l)
      PROVE  LoopTypes' /\ EventsAhead' /\ TimeoutsAhead' /\ Lists' /\ Timers'
  <2>1. CASE UNCHANGED << st, attached, wheel >>
    BY <1>6, <1>7, <2>1 DEF Looping!IoeventSet, Looping!Nothing
  <2>2. CASE ~ UNCHANGED << st, attached, wheel >>
    <3>1. /\ st[t] = "free" /\ loop' = l /\ st' = [st EXCEPT ![t] = "open"]
          /\ attached' = attached \cup {t} /\ wheel' = [wheel EXCEPT ![t] = now + 1]
          /\ UNCHANGED deleted
      BY <1>7, <2>2 DEF Looping!IoeventSet
    <3>2. /\ st' \in [LoopTasks -> {"free", "open", "closed"}] /\ attached' \in SUBSET LoopTasks
          /\ now + 1 \in Nat \ {0}
      BY <1>3, <3>1
    <3>3. wheel' \in [LoopTasks -> Nat] /\ wheel'[t] # 0
      BY <1>3, <3>1, <3>2
    <3>4. LoopTypes'
      BY <1>2, <1>3, <1>4, <3>1, <3>2, <3>3 DEF LoopTypes
    <3>5. EventsAhead' /\ TimeoutsAhead'
      BY <1>3, <1>5, <3>1, <3>2
    <3>6. Lists'
      BY <1>3, <3>1 DEF LoopInv, Lists
    <3>7. Timers'
      BY <1>3, <1>4, <3>1, <3>3 DEF LoopInv, Timers
    <3> QED
      BY <3>4, <3>5, <3>6, <3>7
  <2> QED
    BY <2>1, <2>2
<1>8. ASSUME Looping!Current \in LoopTasks, st[Looping!Current] = "open", Looping!Touch(Looping!Current, l)
      PROVE  LoopTypes' /\ EventsAhead' /\ TimeoutsAhead' /\ Lists' /\ Timers'
  <2>1. PICK t \in LoopTasks : t = Looping!Current
    BY <1>8
  <2>2. /\ wheel' = [wheel EXCEPT ![t] = now + 1] /\ loop' = l /\ UNCHANGED << st, attached, deleted >>
        /\ st[t] = "open"
    BY <1>8, <2>1 DEF Looping!Touch
  <2>3. now + 1 \in Nat \ {0}
    BY <1>3
  <2>4. wheel' \in [LoopTasks -> Nat] /\ wheel'[t] # 0
    BY <1>3, <2>2, <2>3
  <2>5. LoopTypes'
    BY <1>2, <1>3, <1>4, <2>2, <2>4 DEF LoopTypes
  <2>6. EventsAhead' /\ TimeoutsAhead'
    BY <1>3, <1>5, <2>2
  <2>7. Lists'
    BY <1>3, <2>2 DEF LoopInv, Lists
  <2>8. Timers'
    BY <1>3, <1>4, <2>2, <2>4 DEF LoopInv, Timers
  <2> QED
    BY <2>5, <2>6, <2>7, <2>8
<1>9. CASE Looping!Current \in {Looping!Null, Looping!Notify}
  <2>1. /\ UNCHANGED called
        /\ Looping!Nothing(l) \/ \E t \in LoopTasks : Looping!IoeventSet(t, l)
    BY <1>1, <1>9 DEF Looping!DealIoevents, Looping!Null, Looping!Notify
  <2>2. CalledOpen'
    BY <2>1 DEF LoopInv, CalledOpen
  <2> QED
    BY <1>6, <1>7, <2>1, <2>2 DEF LoopInv
<1>10. CASE Looping!Current \notin {Looping!Null, Looping!Notify}
  <2>1. /\ called' = << Looping!Current, st[Looping!Current] >>
        /\ \/ Looping!Nothing(l)
           \/ st[Looping!Current] = "open" /\ Looping!Touch(Looping!Current, l)
           \/ \E u \in LoopTasks : Looping!Close(u, l)
    BY <1>1, <1>10 DEF Looping!DealIoevents
  <2>2. Looping!Current \in LoopTasks /\ st[Looping!Current] = "open"
    <3>1. /\ loop.index \in 1 .. Len(loop.events) /\ loop.index \in loop.index .. Len(loop.events)
      BY <1>2, <1>3
    <3>2. loop.events[loop.index] \in LoopTasks \cup {Looping!Notify, Looping!Null}
      BY <1>3, <3>1
    <3>3. loop.events[loop.index] \in LoopTasks
      BY <1>10, <3>2 DEF Looping!Current
    <3>4. st[loop.events[loop.index]] = "open"
      BY <1>2, <3>1, <3>3 DEF LoopInv, EventsAhead
    <3> QED
      BY <3>3, <3>4 DEF Looping!Current
  <2>3. CalledOpen'
    BY <2>1, <2>2 DEF CalledOpen
  <2>4. ASSUME NEW u \in LoopTasks, Looping!Close(u, l)
        PROVE  LoopTypes' /\ EventsAhead' /\ TimeoutsAhead' /\ Lists' /\ Timers'
    BY <1>1, <1>2, <2>4, DealClose
  <2> QED
    BY <1>6, <1>8, <2>1, <2>2, <2>3, <2>4 DEF LoopInv
<1> QED
  BY <1>9, <1>10

\* The end of deal_ioevents, and a task that is cleaned up.
LEMMA CleanStep ==
  ASSUME LoopInv, Looping!EndDeal \/ Looping!CleanUp
  PROVE  LoopInv'
<1>1. /\ loop \in LoopRecords /\ loop.rest = << >> /\ loop.pc \in {"deal", "clean"}
      /\ st \in [LoopTasks -> {"free", "open", "closed"}] /\ deleted \in Seq(LoopTasks)
  BY DEF LoopInv, LoopTypes, TimeoutsAhead, Looping!EndDeal, Looping!CleanUp
<1>2. UNCHANGED << attached, wheel, now, lastCheck, flag, called >>
  BY DEF Looping!EndDeal, Looping!CleanUp
<1>3. ASSUME UNCHANGED << st, deleted >>, NEW x \in {"clean", "timer"}, loop' = [loop EXCEPT !.pc = x]
      PROVE  LoopInv'
  <2>1. loop' \in LoopRecords /\ loop'.rest = << >> /\ loop'.pc \in {"clean", "timer"}
    BY <1>1, <1>3 DEF LoopRecords
  <2>2. LoopTypes'
    BY <1>2, <1>3, <2>1 DEF LoopInv, LoopTypes
  <2>3. EventsAhead'
    BY <2>1 DEF EventsAhead
  <2>4. TimeoutsAhead'
    BY <2>1 DEF TimeoutsAhead, Looping!Range, Looping!IsInjective
  <2>5. Lists' /\ CalledOpen'
    BY <1>2, <1>3 DEF LoopInv, Lists, CalledOpen
  <2>6. Timers'
    BY <1>1, <1>2, <1>3, <2>1 DEF LoopInv, Timers
  <2> QED
    BY <2>2, <2>3, <2>4, <2>5, <2>6 DEF LoopInv
<1>4. ASSUME loop.pc = "clean", deleted # << >>, st' = [st EXCEPT ![Head(deleted)] = "free"],
             deleted' = Tail(deleted), UNCHANGED loop
      PROVE  LoopInv'
  <2>1. PICK u : u = Head(deleted)
    OBVIOUS
  <2>2. /\ u \in LoopTasks /\ Tail(deleted) \in Seq(LoopTasks) /\ u \in Looping!Range(deleted)
        /\ Looping!IsInjective(Tail(deleted))
        /\ Looping!Range(Tail(deleted)) = Looping!Range(deleted) \ {u}
    BY <1>1, <1>4, <2>1, TailInjective DEF LoopInv, Lists
  <2>3. st' = [st EXCEPT ![u] = "free"] /\ st' \in [LoopTasks -> {"free", "open", "closed"}]
    BY <1>1, <1>4, <2>1, <2>2
  <2>4. \A t \in Looping!Range(deleted) : st[t] = "closed" /\ t \in LoopTasks
    BY <1>1 DEF LoopInv, Lists, Looping!Range
  <2>5. LoopTypes'
    BY <1>2, <1>4, <2>2, <2>3 DEF LoopInv, LoopTypes
  <2>6. EventsAhead' /\ TimeoutsAhead' /\ CalledOpen'
    BY <1>2, <1>4 DEF LoopInv, EventsAhead, TimeoutsAhead, CalledOpen
  <2>7. Lists'
    <3>1. \A t \in Looping!Range(Tail(deleted)) : st'[t] = "closed"
      BY <1>1, <2>2, <2>3, <2>4
    <3>2. \A i \in DOMAIN Tail(deleted) : Tail(deleted)[i] \in Looping!Range(Tail(deleted))
      BY DEF Looping!Range
    <3>3. \A i \in DOMAIN deleted' : st'[deleted'[i]] = "closed"
      BY <1>4, <3>1, <3>2
    <3>4. \A t \in LoopTasks : st'[t] = "closed" => t \in Looping!Range(deleted')
      BY <1>1, <1>4, <2>2, <2>3 DEF LoopInv, Lists
    <3>5. \A t \in LoopTasks : st'[t] = "open" <=> t \in attached'
      BY <1>1, <1>2, <2>2, <2>3, <2>4 DEF LoopInv, Lists
    <3> QED
      BY <1>4, <2>2, <3>3, <3>4, <3>5 DEF Lists
  <2>8. Timers'
    BY <1>1, <1>2, <1>4, <2>2, <2>3, <2>4 DEF LoopInv, Timers
  <2> QED
    BY <2>5, <2>6, <2>7, <2>8 DEF LoopInv
<1> QED
  BY <1>3, <1>4 DEF Looping!EndDeal, Looping!CleanUp

\* The timer hands over the tasks that are due, and no longer holds them.
LEMMA TimerStep ==
  ASSUME LoopConstants, LoopInv, Looping!CheckTimer
  PROVE  LoopInv'
<1>1. /\ loop \in LoopRecords /\ loop.rest = << >> /\ wheel \in [LoopTasks -> Nat]
      /\ st \in [LoopTasks -> {"free", "open", "closed"}]
      /\ UNCHANGED << st, attached, deleted, now, flag, called >>
  BY DEF LoopInv, LoopTypes, TimeoutsAhead, Looping!CheckTimer
<1>2. CASE loop' = [loop EXCEPT !.pc = "poll"] /\ UNCHANGED wheel
  <2>1. loop' \in LoopRecords /\ loop'.rest = << >> /\ loop'.pc = "poll"
    BY <1>1, <1>2 DEF LoopRecords
  <2>2. LoopTypes'
    BY <1>1, <1>2, <2>1 DEF LoopInv, LoopTypes
  <2>3. EventsAhead' /\ TimeoutsAhead'
    BY <2>1 DEF EventsAhead, TimeoutsAhead, Looping!Range, Looping!IsInjective
  <2>4. Lists' /\ CalledOpen' /\ Timers'
    BY <1>1, <1>2, <2>1 DEF LoopInv, Lists, CalledOpen, Timers
  <2> QED
    BY <2>2, <2>3, <2>4 DEF LoopInv
<1>3. ASSUME NEW q \in Looping!Injection(1 .. Looping!Cardinality(Looping!Due), Looping!Due), loop' = [loop EXCEPT !.pc = "timeouts", !.rest = q],
             wheel' = [t \in LoopTasks |-> IF t \in Looping!Due THEN 0 ELSE wheel[t]]
      PROVE  LoopInv'
  <2>1. Looping!Due \in SUBSET LoopTasks /\ \A t \in Looping!Due : wheel[t] # 0
    BY DEF Looping!Due
  <2>2. IsFiniteSet(Looping!Due)
    BY <2>1, FS_Subset DEF LoopConstants
  <2>3. q \in Seq(Looping!Due) /\ Looping!IsInjective(q) /\ Looping!Range(q) = Looping!Due
    BY <2>2, Orders
  <2>4. q \in Seq(LoopTasks)
    BY <2>1, <2>3
  <2>5. loop' = [pc |-> "timeouts", events |-> loop.events, index |-> loop.index, rest |-> q]
    BY <1>1, <1>3 DEF LoopRecords
  <2>6. loop' \in LoopRecords /\ loop'.pc = "timeouts" /\ loop'.rest = q
    BY <1>1, <2>4, <2>5 DEF LoopRecords
  <2>7. wheel' \in [LoopTasks -> Nat]
    BY <1>1, <1>3
  <2>8. LoopTypes'
    BY <1>1, <2>6, <2>7 DEF LoopInv, LoopTypes
  <2>9. EventsAhead'
    BY <2>6 DEF EventsAhead
  <2>10. TimeoutsAhead'
    BY <1>3, <2>1, <2>3, <2>6 DEF TimeoutsAhead
  <2>11. Lists' /\ CalledOpen'
    BY <1>1 DEF LoopInv, Lists, CalledOpen
  <2>12. Timers'
    <3>1. \A t \in LoopTasks : st[t] = "open" <=> wheel[t] # 0
      BY <1>1 DEF LoopInv, Timers, Looping!Range
    <3> QED
      BY <1>1, <1>3, <2>1, <2>3, <2>6, <3>1 DEF Timers
  <2> QED
    BY <2>8, <2>9, <2>10, <2>11, <2>12 DEF LoopInv
<1> QED
  BY <1>2, <1>3 DEF Looping!CheckTimer

\* One round of deal_timeouts: the entry is out of the list before its callback
\* runs, and the callback touches or closes its own task.
LEMMA TimeoutStep ==
  ASSUME LoopConstants, LoopInv, Looping!DealTimeouts
  PROVE  LoopInv'
<1>1. /\ loop \in LoopRecords /\ loop.pc = "timeouts" /\ loop.rest \in Seq(LoopTasks)
      /\ st \in [LoopTasks -> {"free", "open", "closed"}] /\ wheel \in [LoopTasks -> Nat]
      /\ now \in Nat \ {0} /\ UNCHANGED << now, lastCheck, flag >>
  BY DEF LoopInv, LoopTypes, LoopRecords, Looping!DealTimeouts
<1>2. CASE loop.rest = << >>
  <2>1. loop' = [loop EXCEPT !.pc = "poll"] /\ UNCHANGED << st, attached, wheel, deleted, called >>
    BY <1>2 DEF Looping!DealTimeouts, Looping!Nothing
  <2>2. loop' \in LoopRecords /\ loop'.rest = << >> /\ loop'.pc = "poll"
    BY <1>1, <1>2, <2>1 DEF LoopRecords
  <2>3. LoopTypes'
    BY <1>1, <2>1, <2>2 DEF LoopInv, LoopTypes
  <2>4. EventsAhead' /\ TimeoutsAhead'
    BY <2>2 DEF EventsAhead, TimeoutsAhead, Looping!Range, Looping!IsInjective
  <2>5. Lists' /\ CalledOpen' /\ Timers'
    BY <1>2, <2>1, <2>2 DEF LoopInv, Lists, CalledOpen, Timers
  <2> QED
    BY <2>3, <2>4, <2>5 DEF LoopInv
<1>3. CASE loop.rest # << >>
  <2>1. PICK t, l : t = Head(loop.rest) /\ l = [loop EXCEPT !.rest = Tail(@)]
    OBVIOUS
  <2>2. /\ t \in LoopTasks /\ Tail(loop.rest) \in Seq(LoopTasks)
        /\ Looping!IsInjective(Tail(loop.rest)) /\ t \in Looping!Range(loop.rest)
        /\ Looping!Range(Tail(loop.rest)) = Looping!Range(loop.rest) \ {t}
    BY <1>1, <1>3, <2>1, TailInjective DEF LoopInv, TimeoutsAhead
  <2>3. /\ l = [pc |-> "timeouts", events |-> loop.events, index |-> loop.index,
                rest |-> Tail(loop.rest)]
    BY <1>1, <2>1 DEF LoopRecords
  <2>4. l \in LoopRecords /\ l.pc = "timeouts" /\ l.rest = Tail(loop.rest)
    BY <1>1, <2>2, <2>3 DEF LoopRecords
  <2>5. st[t] = "open" /\ wheel[t] = 0
    BY <2>2 DEF LoopInv, Timers, TimeoutsAhead
  <2>6. /\ called' = << t, st[t] >> /\ (Looping!Touch(t, l) \/ Looping!Close(t, l))
    BY <1>3, <2>1, <2>5 DEF Looping!DealTimeouts, LoopConstants
  <2>7. CalledOpen'
    BY <2>5, <2>6 DEF CalledOpen
  <2>8. ASSUME loop'.pc = "timeouts", loop'.rest = Tail(loop.rest), NEW x \in Nat,
               wheel' = [wheel EXCEPT ![t] = x]
        PROVE  EventsAhead' /\ TimeoutsAhead'
    <3>1. EventsAhead'
      BY <2>8 DEF EventsAhead
    <3>2. \A u \in Looping!Range(Tail(loop.rest)) : wheel'[u] = 0
      <4>1. \A u \in Looping!Range(loop.rest) : u \in LoopTasks /\ wheel[u] = 0
        BY <1>1 DEF LoopInv, TimeoutsAhead, Looping!Range
      <4> QED
        BY <1>1, <2>2, <2>8, <4>1
    <3> QED
      BY <2>2, <2>8, <3>1, <3>2 DEF TimeoutsAhead
  <2>9. CASE Looping!Touch(t, l)
    <3>1. wheel' = [wheel EXCEPT ![t] = now + 1] /\ loop' = l /\ UNCHANGED << st, attached, deleted >>
      BY <2>9 DEF Looping!Touch
    <3>2. now + 1 \in Nat \ {0}
      BY <1>1
    <3>3. wheel' \in [LoopTasks -> Nat] /\ wheel'[t] # 0
      BY <1>1, <2>2, <3>1, <3>2
    <3>4. LoopTypes'
      BY <1>1, <2>4, <3>1, <3>3 DEF LoopInv, LoopTypes
    <3>5. EventsAhead' /\ TimeoutsAhead'
      BY <2>4, <2>8, <3>1, <3>2
    <3>6. Lists'
      BY <3>1 DEF LoopInv, Lists
    <3>7. Timers'
      BY <1>1, <2>2, <2>4, <2>5, <3>1, <3>3 DEF LoopInv, Timers
    <3> QED
      BY <2>7, <3>4, <3>5, <3>6, <3>7 DEF LoopInv
  <2>10. CASE Looping!Close(t, l)
    <3>1. /\ st' = [st EXCEPT ![t] = "closed"] /\ wheel' = [wheel EXCEPT ![t] = 0]
          /\ st' \in [LoopTasks -> {"free", "open", "closed"}]
          /\ attached' \in SUBSET LoopTasks /\ wheel' \in [LoopTasks -> Nat]
          /\ deleted' \in Seq(LoopTasks) /\ Lists'
      BY <2>2, <2>10, CloseLists
    <3>2. loop' = [pc |-> l.pc, events |-> Looping!IoeventRemove(t), index |-> l.index,
                   rest |-> Looping!RestWithout(t, l.rest)]
      BY <2>4, <2>10, CloseLoop
    <3>3. Looping!RestWithout(t, l.rest) = Tail(loop.rest)
      BY <2>2, <2>4 DEF Looping!RestWithout
    <3>4. Looping!IoeventRemove(t) \in Seq(LoopTasks \cup {Looping!Notify, Looping!Null})
      <4>1. loop.events \in Seq(LoopTasks \cup {Looping!Notify, Looping!Null})
        BY <1>1 DEF LoopRecords
      <4> QED
        BY <4>1 DEF Looping!IoeventRemove
    <3>5. loop' \in LoopRecords /\ loop'.pc = "timeouts" /\ loop'.rest = Tail(loop.rest)
      <4>1. l.index \in Nat \ {0}
        BY <2>4 DEF LoopRecords
      <4> QED
        BY <2>2, <2>4, <3>2, <3>3, <3>4, <4>1 DEF LoopRecords
    <3>6. LoopTypes'
      BY <1>1, <3>1, <3>5 DEF LoopTypes
    <3>7. EventsAhead' /\ TimeoutsAhead'
      BY <2>8, <3>1, <3>5
    <3>8. Timers'
      BY <1>1, <2>2, <3>1, <3>5 DEF LoopInv, Timers
    <3> QED
      BY <2>7, <3>1, <3>6, <3>7, <3>8 DEF LoopInv
  <2> QED
    BY <2>6, <2>9, <2>10
<1> QED
  BY <1>2, <1>3

\* The clock, and the flag that ends the loop.
LEMMA ClockStep ==
  ASSUME LoopInv, Looping!Tick \/ Looping!Quit \/ UNCHANGED loopVars
  PROVE  LoopInv'
<1>1. UNCHANGED << st, attached, wheel, deleted, loop, called >> /\ now' \in Nat \ {0}
  BY DEF LoopInv, LoopTypes, Looping!Tick, Looping!Quit, loopVars
<1> QED
  BY <1>1 DEF LoopInv, LoopTypes, EventsAhead, TimeoutsAhead, Lists, Timers, CalledOpen

\* A step of the services is a step of the event loop or does not touch it.
LEMMA LoopUnit ==
  ASSUME [ServicesNext]_allVars
  PROVE  Looping!Next \/ UNCHANGED loopVars
  BY DEF ServicesNext, allVars, InSchedule, InTransfer, InLoop, InRequest, FilesStep, SerialsStep,
         DaemonStep

\* For any tasks: as long as the callback of a timeout closes no task but its
\* own, no callback of ioevent_loop (ioevent_loop.c) is called for a task that
\* has been closed, closed tasks wait once for their clean up, and an open task
\* has its timer.
THEOREM LoopSound == ServicesSpec => []EventLoopSound
<1>0. LoopConstants
  BY ServicesAssumption
<1>1. ServicesInit => LoopInv
  BY LoopStarts DEF ServicesInit
<1>2. LoopInv /\ [ServicesNext]_allVars => LoopInv'
  <2>1. SUFFICES ASSUME LoopInv, [ServicesNext]_allVars PROVE LoopInv'
    OBVIOUS
  <2>2. Looping!Next \/ UNCHANGED loopVars
    BY <2>1, LoopUnit
  <2> QED
    BY <1>0, <2>1, <2>2, PollStep, DealStep, CleanStep, TimerStep, TimeoutStep, ClockStep
    DEF Looping!Next, Looping!IoeventLoop
<1>3. LoopInv => EventLoopSound
  BY DEF LoopInv, Lists, Timers, CalledOpen, EventLoopSound, Looping!Sound
<1> QED
  BY <1>1, <1>2, <1>3, PTL DEF ServicesSpec

-----------------------------------------------------------------------------
FileTypes ==
  /\ dir \in [{"file", "tmp"} -> Inodes \cup {0}]
  /\ data \in [Inodes -> Seq(Nat)] /\ synced \in [Inodes -> Nat]
  /\ wr \in [pc : {"idle", "write", "fsync", "rename"}, ino : Inodes \cup {0},
             result : {"none", "open", "write", "fsync", "rename", "ok"}]
  /\ rd \in [pc : {"idle", "open", "size", "read", "done"}, ino : Inodes \cup {0}, size : Nat,
             result : {"none", "ENOENT", "open", "lseek", "read", "ok"}, got : Seq(Nat)]
  /\ started \in 0 .. Len(FileVersions) /\ done \in 0 .. started
  /\ ondisk \in SUBSET [dir : [{"file", "tmp"} -> Inodes \cup {0}], done : 0 .. started]
  /\ \A i \in Inodes : synced[i] <= Len(data[i])

\* Contents c are those of version lo or a later one that was begun.
Whole(c, lo) == \E v \in 1 .. started : c = FileVersions[v] /\ v >= lo

\* The file of directory d, in which version n was the last reported, is whole and
\* on the disk, and nobody writes to it.
Stands(d, n) ==
  /\ d["file"] # 0 =>
       /\ d["file"] # d["tmp"] /\ d["file"] # dir["tmp"]
       /\ Whole(data[d["file"]], n)
       /\ synced[d["file"]] = Len(data[d["file"]])
  /\ n > 0 => d["file"] # 0

\* That is so of the directory there is and of each that a power failure may
\* leave.
Now  == [dir |-> dir, done |-> done]
Kept == Now \in ondisk /\ \A k \in ondisk : Stands(k.dir, k.done)

\* The writer works on the temporary file only, and what it renames is whole
\* and on the disk.
Written ==
  /\ wr.pc # "idle" => started > 0 /\ dir["tmp"] # 0
  /\ wr.pc \in {"write", "fsync"} => wr.ino = dir["tmp"]
  /\ wr.pc = "write" => synced[dir["tmp"]] = 0
  /\ wr.pc \in {"fsync", "rename"} => data[dir["tmp"]] = FileVersions[started]
  /\ wr.pc = "rename" => synced[dir["tmp"]] = Len(data[dir["tmp"]])

\* The reader's inode is one the name stood for, and nobody writes to it.
BeingRead ==
  /\ rd.pc = "open" => dir["file"] # 0
  /\ rd.pc \in {"size", "read"} =>
       /\ rd.ino # 0 /\ rd.ino # dir["tmp"]
       /\ Whole(data[rd.ino], 1)
  /\ rd.pc = "read" => rd.size = Len(data[rd.ino])
  /\ rd.result = "ok" => Whole(rd.got, 1)

FileInv == FileTypes /\ Kept /\ Written /\ BeingRead

\* At first there is no file.
LEMMA FileStarts ==
  ASSUME FileConstants, Files!Init
  PROVE  FileInv
<1>1. FileTypes
  BY DEF FileConstants, Files!Init, Files!None, FileTypes
<1>2. Kept /\ Written /\ BeingRead
  BY DEF Files!Init, Kept, Now, Stands, Written, BeingRead
<1> QED
  BY <1>1, <1>2 DEF FileInv

\* What is so of every directory is so of the one there is.
LEMMA KeptNow ==
  ASSUME Kept
  PROVE  Stands(dir, done) /\ \A k \in ondisk : Stands(k.dir, k.done)
<1>1. Now \in ondisk /\ Now.dir = dir /\ Now.done = done
  BY DEF Kept, Now
<1> QED
  BY <1>1 DEF Kept

\* A directory of the disk that stood still stands, if its file is not touched and
\* is not the temporary one.
LEMMA StandsStays ==
  ASSUME NEW d, NEW n, Stands(d, n), started \in Nat, started' \in Nat, started' >= started,
         d["file"] # 0 => /\ data'[d["file"]] = data[d["file"]]
                          /\ synced'[d["file"]] = synced[d["file"]]
                          /\ d["file"] # dir'["tmp"]
  PROVE  Stands(d, n)'
<1>1. CASE d["file"] = 0
  BY <1>1 DEF Stands
<1>2. CASE d["file"] # 0
  <2>1. PICK v \in 1 .. started : data[d["file"]] = FileVersions[v] /\ v >= n
    BY <1>2 DEF Stands, Whole
  <2>2. v \in 1 .. started' /\ data'[d["file"]] = FileVersions[v]
    BY <1>2, <2>1
  <2>3. Whole(data[d["file"]], n)'
    BY <2>1, <2>2 DEF Whole
  <2> QED
    BY <1>2, <2>3 DEF Stands
<1> QED
  BY <1>1, <1>2

\* Types that the steps below use.
LEMMA FileFacts ==
  ASSUME FileConstants, FileTypes
  PROVE  /\ dir["file"] \in Inodes \cup {0} /\ dir["tmp"] \in Inodes \cup {0} /\ 0 \notin Inodes
         /\ Len(FileVersions) \in Nat /\ started \in Nat /\ done \in Nat /\ done <= started
         /\ \A v \in 1 .. started : FileVersions[v] \in Seq(Nat) /\ Len(FileVersions[v]) \in Nat
         /\ \A j \in Inodes : data[j] \in Seq(Nat) /\ Len(data[j]) \in Nat
<1>1. Len(FileVersions) \in Nat /\ \A v \in 1 .. Len(FileVersions) : FileVersions[v] \in Seq(Nat)
  BY DEF FileConstants
<1>2. started \in Nat /\ done \in Nat /\ done <= started /\ started <= Len(FileVersions)
  BY <1>1 DEF FileTypes
<1>3. \A v \in 1 .. started : v \in 1 .. Len(FileVersions)
  BY <1>1, <1>2
<1>4. \A v \in 1 .. started : FileVersions[v] \in Seq(Nat) /\ Len(FileVersions[v]) \in Nat
  BY <1>1, <1>3, LenProperties
<1>5. \A j \in Inodes : data[j] \in Seq(Nat) /\ Len(data[j]) \in Nat
  BY LenProperties DEF FileTypes
<1> QED
  BY <1>1, <1>2, <1>4, <1>5 DEF FileConstants, FileTypes

\* Nothing that is whole stops being so when a later version is begun.
LEMMA WholeStays ==
  ASSUME NEW c, NEW lo, Whole(c, lo), started \in Nat, started' \in Nat, started' >= started
  PROVE  Whole(c, lo)'
<1>1. PICK v \in 1 .. started : c = FileVersions[v] /\ v >= lo
  BY DEF Whole
<1>2. v \in 1 .. started'
  BY <1>1
<1> QED
  BY <1>1, <1>2 DEF Whole

\* A step that writes to no inode but i, which the name stands for in no
\* directory of the disk and the reader does not have open, and that reports
\* nothing, keeps the file and the reader as they are.
LEMMA TmpOnly ==
  ASSUME FileConstants, FileInv, started' \in Nat, started' >= started, UNCHANGED << rd, done >>,
         NEW i, i = 0 \/ ((\A k \in ondisk : k.dir["file"] # i) /\ (rd.pc \in {"size", "read"} => rd.ino # i)),
         \A j \in Inodes : j # i => data'[j] = data[j] /\ synced'[j] = synced[j],
         dir'["file"] = dir["file"], dir'["tmp"] \in {i, dir["tmp"]},
         Now' \in ondisk', ondisk' \subseteq ondisk \cup {Now'}
  PROVE  Kept' /\ BeingRead'
<1>1. /\ dir["file"] \in Inodes \cup {0} /\ 0 \notin Inodes /\ started \in Nat /\ done \in Nat
  BY FileFacts DEF FileInv
<1>2. \A c, lo : Whole(c, lo) => Whole(c, lo)'
  BY <1>1, WholeStays
<1>3. Kept'
  <2>1. ASSUME NEW k \in ondisk PROVE Stands(k.dir, k.done)' /\ (k.dir["file"] # 0 => k.dir["file"] # dir'["tmp"])
    <3>1. PICK d, n : d = k.dir /\ n = k.done
      OBVIOUS
    <3>2. Stands(d, n) /\ d["file"] \in Inodes \cup {0}
      BY <3>1, KeptNow DEF FileInv, FileTypes
    <3>3. d["file"] # 0 => d["file"] # i
      BY <3>1
    <3>4. d["file"] # 0 => d["file"] # dir'["tmp"]
      BY <3>2, <3>3 DEF Stands
    <3>5. Stands(d, n)'
      BY <1>1, <3>2, <3>3, <3>4, StandsStays
    <3>6. Stands(d, n)' => Stands(k.dir, k.done)'
      BY <3>1 DEF Stands, Whole
    <3> QED
      BY <3>1, <3>4, <3>5, <3>6
  <2>2. Now'.dir = dir' /\ Now'.done = done
    BY DEF Now
  <2>3. Now \in ondisk /\ Now.dir = dir /\ Now.done = done
    BY DEF FileInv, Kept, Now
  <2>4. Stands(dir, done)' /\ (dir["file"] # 0 => dir["file"] # dir'["tmp"])
    <3>1. PICK k \in ondisk : k.dir = dir /\ k.done = done
      BY <2>3
    <3>2. PICK d, n : d = dir /\ n = done
      OBVIOUS
    <3>3. Stands(k.dir, k.done)' /\ k.dir["file"] = d["file"] /\ k.done = n
      BY <2>1, <3>1, <3>2
    <3>4. dir["file"] # 0 => dir["file"] # dir'["tmp"]
      BY <2>1, <3>1
    <3>5. dir'["file"] = d["file"] /\ done' = n
      BY <3>2
    <3>6. Stands(dir, done)'
      BY <3>2, <3>3, <3>4, <3>5 DEF Stands, Whole
    <3> QED
      BY <3>4, <3>6
  <2>5. \A k \in ondisk' : Stands(k.dir, k.done)'
    BY <2>1, <2>2, <2>4
  <2> QED
    BY <2>5 DEF Kept
<1>4. BeingRead'
  <2>1. rd.pc = "open" => dir'["file"] # 0
    BY DEF FileInv, BeingRead
  <2>2. rd.result = "ok" => Whole(rd.got, 1)'
    <3>1. PICK c : c = rd.got
      OBVIOUS
    <3>2. rd.result = "ok" => Whole(c, 1)'
      BY <1>2, <3>1 DEF FileInv, BeingRead
    <3> QED
      BY <3>1, <3>2 DEF Whole
  <2>3. ASSUME rd.pc \in {"size", "read"}
        PROVE  rd.ino # 0 /\ rd.ino # dir'["tmp"] /\ Whole(data[rd.ino], 1)' /\ data'[rd.ino] = data[rd.ino]
    <3>1. rd.ino # 0 /\ rd.ino # i /\ rd.ino # dir["tmp"] /\ Whole(data[rd.ino], 1)
      BY <2>3 DEF FileInv, BeingRead
    <3>2. PICK r \in Inodes : r = rd.ino
      BY <3>1 DEF FileInv, FileTypes
    <3>3. data'[r] = data[r]
      BY <3>1, <3>2
    <3>4. PICK c : c = data[r]
      OBVIOUS
    <3>5. Whole(c, 1)'
      BY <1>2, <3>1, <3>2, <3>4
    <3>6. Whole(data[rd.ino], 1)'
      BY <3>2, <3>3, <3>4, <3>5 DEF Whole
    <3> QED
      BY <3>1, <3>2, <3>3, <3>6
  <2>4. rd' = rd /\ (rd.pc = "read" => rd.size = Len(data[rd.ino]))
    BY DEF FileInv, BeingRead
  <2> QED
    BY <2>1, <2>2, <2>3, <2>4 DEF BeingRead
<1> QED
  BY <1>3, <1>4

\* Directories of the disk have their type after a step that adds the new one.
LEMMA DirsTyped ==
  ASSUME FileTypes, started \in Nat, started' \in Nat, started' >= started,
         dir' \in [{"file", "tmp"} -> Inodes \cup {0}], done' \in 0 .. started',
         ondisk' \subseteq ondisk \cup {Now'}
  PROVE  ondisk' \in SUBSET [dir : [{"file", "tmp"} -> Inodes \cup {0}], done : 0 .. started']
<1>1. \A n \in 0 .. started : n \in 0 .. started'
  OBVIOUS
<1>2. ASSUME NEW k \in ondisk PROVE k \in [dir : [{"file", "tmp"} -> Inodes \cup {0}], done : 0 .. started']
  BY <1>1 DEF FileTypes
<1>3. Now' \in [dir : [{"file", "tmp"} -> Inodes \cup {0}], done : 0 .. started']
  BY DEF Now
<1> QED
  BY <1>2, <1>3

\* The directory is on the disk after a step that leaves it alone.
LEMMA NowStays ==
  ASSUME FileInv, UNCHANGED << dir, done, ondisk >>
  PROVE  Now' \in ondisk' /\ ondisk' \subseteq ondisk \cup {Now'}
  BY DEF FileInv, Kept, Now

\* The temporary file is made or emptied.
LEMMA OpenTmpStep ==
  ASSUME FileConstants, FileInv, Files!OpenTmp
  PROVE  FileInv'
<1>1. /\ wr.pc = "idle" /\ started < Len(FileVersions) /\ started' = started + 1 /\ UNCHANGED << rd, done >>
  BY DEF Files!OpenTmp, Files!DirChanges
<1>2. /\ dir["file"] \in Inodes \cup {0} /\ dir["tmp"] \in Inodes \cup {0} /\ 0 \notin Inodes
      /\ Len(FileVersions) \in Nat /\ started \in Nat /\ done \in Nat /\ done <= started
  BY FileFacts DEF FileInv
<1>3. /\ started' \in Nat /\ started' >= started /\ started' > 0
      /\ started' \in 0 .. Len(FileVersions) /\ done' \in 0 .. started'
  BY <1>1, <1>2
<1>4. ASSUME UNCHANGED << dir, data, synced, ondisk >>, Files!Fails("open")
      PROVE  FileInv'
  <2>1. wr' = [pc |-> "idle", ino |-> 0, result |-> "open"]
    BY <1>4 DEF Files!Fails
  <2>5. Now' \in ondisk' /\ ondisk' \subseteq ondisk \cup {Now'}
    BY <1>1, <1>4, NowStays
  <2>6. dir' \in [{"file", "tmp"} -> Inodes \cup {0}]
    BY <1>4 DEF FileInv, FileTypes
  <2>7. ondisk' \in SUBSET [dir : [{"file", "tmp"} -> Inodes \cup {0}], done : 0 .. started']
    BY <1>2, <1>3, <2>5, <2>6, DirsTyped DEF FileInv
  <2>2. FileTypes'
    BY <1>1, <1>3, <1>4, <2>1, <2>7 DEF FileInv, FileTypes
  <2>3. Kept' /\ BeingRead'
    <3>1. dir'["file"] = dir["file"] /\ dir'["tmp"] \in {0, dir["tmp"]}
      BY <1>4
    <3>2. \A j \in Inodes : j # 0 => data'[j] = data[j] /\ synced'[j] = synced[j]
      BY <1>4
    <3> QED
      BY <1>1, <1>3, <2>5, <3>1, <3>2, TmpOnly
  <2>4. Written'
    BY <2>1 DEF Written
  <2> QED
    BY <2>2, <2>3, <2>4 DEF FileInv
<1>5. ASSUME NEW i \in Inodes,
             IF dir["tmp"] # 0 THEN i = dir["tmp"] ELSE i \notin Files!InUse,
             dir' = [dir EXCEPT !["tmp"] = i], ondisk' = ondisk \cup {Now'},
             data' = [data EXCEPT ![i] = << >>], synced' = [synced EXCEPT ![i] = 0],
             wr' = [pc |-> "write", ino |-> i, result |-> "none"]
      PROVE  FileInv'
  <2>1. /\ dir' \in [{"file", "tmp"} -> Inodes \cup {0}] /\ dir'["file"] = dir["file"] /\ dir'["tmp"] = i
    BY <1>5 DEF FileInv, FileTypes
  <2>2. /\ data' \in [Inodes -> Seq(Nat)] /\ data'[i] = << >>
        /\ \A j \in Inodes : j # i => data'[j] = data[j] /\ synced'[j] = synced[j]
        /\ synced' \in [Inodes -> Nat] /\ synced'[i] = 0
    BY <1>5 DEF FileInv, FileTypes
  <2>3. i # 0 /\ (\A k \in ondisk : k.dir["file"] # i) /\ (rd.pc \in {"size", "read"} => rd.ino # i)
    <3>1. CASE dir["tmp"] # 0
      BY <1>2, <1>5, <3>1 DEF FileInv, Kept, Stands, BeingRead
    <3>2. CASE dir["tmp"] = 0
      BY <1>2, <1>5, <3>2 DEF Files!InUse
    <3> QED
      BY <3>1, <3>2
  <2>7. Now' \in ondisk' /\ ondisk' \subseteq ondisk \cup {Now'}
    BY <1>5
  <2>4. Kept' /\ BeingRead'
    BY <1>1, <1>3, <2>1, <2>2, <2>3, <2>7, TmpOnly
  <2>8. ondisk' \in SUBSET [dir : [{"file", "tmp"} -> Inodes \cup {0}], done : 0 .. started']
    BY <1>2, <1>3, <2>1, <2>7, DirsTyped DEF FileInv
  <2>5. FileTypes'
    <3>1. wr' \in [pc : {"idle", "write", "fsync", "rename"}, ino : Inodes \cup {0},
                   result : {"none", "open", "write", "fsync", "rename", "ok"}]
      BY <1>5
    <3>2. \A j \in Inodes : synced'[j] <= Len(data'[j])
      <4>1. \A j \in Inodes : synced[j] <= Len(data[j])
        BY DEF FileInv, FileTypes
      <4>2. synced'[i] <= Len(data'[i])
        BY <2>2
      <4>3. \A j \in Inodes : j # i => synced'[j] <= Len(data'[j])
        BY <2>2, <4>1
      <4> QED
        BY <4>2, <4>3
    <3> QED
      BY <1>1, <1>3, <2>1, <2>2, <2>8, <3>1, <3>2 DEF FileInv, FileTypes
  <2>6. Written'
    BY <1>3, <1>5, <2>1, <2>2, <2>3 DEF Written
  <2> QED
    BY <2>4, <2>5, <2>6 DEF FileInv
<1> QED
  BY <1>4, <1>5 DEF Files!OpenTmp, Files!DirChanges, Files!None, Now

\* Bytes are written to it, all or some.
LEMMA WriteTmpStep ==
  ASSUME FileConstants, FileInv, Files!WriteTmp
  PROVE  FileInv'
<1>1. /\ wr.pc = "write" /\ UNCHANGED << dir, synced, ondisk, started, rd, done >>
  BY DEF Files!WriteTmp, Files!Quiet
<1>2. /\ dir["file"] \in Inodes \cup {0} /\ dir["tmp"] \in Inodes \cup {0} /\ 0 \notin Inodes
      /\ started \in Nat /\ \A v \in 1 .. started : FileVersions[v] \in Seq(Nat) /\ Len(FileVersions[v]) \in Nat
  BY FileFacts DEF FileInv
<1>3. PICK t \in Inodes : t = dir["tmp"] /\ wr.ino = t /\ started > 0 /\ synced[t] = 0
  BY <1>1, <1>2 DEF FileInv, Written
<1>4. Files!Content = FileVersions[started] /\ FileVersions[started] \in Seq(Nat)
      /\ Len(FileVersions[started]) \in Nat
  <2>1. started \in 1 .. started
    BY <1>2, <1>3
  <2> QED
    BY <1>2, <2>1 DEF Files!Content
<1>5. ASSUME NEW c \in Seq(Nat), data' = [data EXCEPT ![t] = c],
             wr' \in [pc : {"idle", "fsync"}, ino : Inodes \cup {0},
                      result : {"none", "open", "write", "fsync", "rename", "ok"}],
             wr'.pc = "fsync" => wr'.ino = t /\ c = FileVersions[started]
      PROVE  FileInv'
  <2>1. /\ data' \in [Inodes -> Seq(Nat)] /\ data'[t] = c
        /\ \A j \in Inodes : j # t => data'[j] = data[j] /\ synced'[j] = synced[j]
    BY <1>1, <1>5 DEF FileInv, FileTypes
  <2>2. (\A k \in ondisk : k.dir["file"] # t) /\ (rd.pc \in {"size", "read"} => rd.ino # t)
    BY <1>2, <1>3 DEF FileInv, Kept, Stands, BeingRead
  <2>3. Kept' /\ BeingRead'
    <3>1. started' \in Nat /\ started' >= started /\ dir' = dir
      BY <1>1, <1>2
    <3>2. Now' \in ondisk' /\ ondisk' \subseteq ondisk \cup {Now'}
      BY <1>1, NowStays
    <3>3. dir'["file"] = dir["file"] /\ dir'["tmp"] \in {t, dir["tmp"]}
      BY <3>1
    <3> QED
      BY <1>1, <1>3, <2>1, <2>2, <3>1, <3>2, <3>3, TmpOnly
  <2>4. FileTypes'
    <3>1. \A j \in Inodes : synced'[j] <= Len(data'[j])
      <4>1. \A j \in Inodes : synced[j] <= Len(data[j])
        BY DEF FileInv, FileTypes
      <4>2. Len(data'[t]) >= 0 /\ synced'[t] = 0
        BY <1>1, <1>3, <2>1, LenProperties
      <4> QED
        BY <2>1, <4>1, <4>2
    <3>2. wr' \in [pc : {"idle", "write", "fsync", "rename"}, ino : Inodes \cup {0},
                   result : {"none", "open", "write", "fsync", "rename", "ok"}]
      BY <1>5
    <3> QED
      BY <1>1, <2>1, <3>1, <3>2 DEF FileInv, FileTypes
  <2>5. wr'.pc \in {"idle", "fsync"}
    BY <1>5
  <2>6. Written'
    BY <1>1, <1>2, <1>3, <1>5, <2>1, <2>5 DEF Written
  <2> QED
    BY <2>3, <2>4, <2>6 DEF FileInv
<1>6. CASE data' = [data EXCEPT ![wr.ino] = Files!Content] /\ wr' = [wr EXCEPT !.pc = "fsync"]
  <2>1. /\ wr' \in [pc : {"idle", "fsync"}, ino : Inodes \cup {0},
                    result : {"none", "open", "write", "fsync", "rename", "ok"}]
        /\ wr'.ino = t
    BY <1>3, <1>6 DEF FileInv, FileTypes
  <2> QED
    BY <1>3, <1>4, <1>5, <1>6, <2>1
<1>7. ASSUME NEW k \in 0 .. Len(Files!Content) - 1, data' = [data EXCEPT ![wr.ino] = SubSeq(Files!Content, 1, k)],
             Files!Fails("write")
      PROVE  FileInv'
  <2>1. wr' = [pc |-> "idle", ino |-> 0, result |-> "write"]
    BY <1>7 DEF Files!Fails
  <2>2. PICK c : c = SubSeq(Files!Content, 1, k)
    OBVIOUS
  <2>3. c \in Seq(Nat)
    <3>1. k \in Nat /\ k <= Len(FileVersions[started])
      BY <1>4
    <3> QED
      BY <1>4, <2>2, <3>1, SubSeqProperties
  <2> QED
    BY <1>3, <1>5, <1>7, <2>1, <2>2, <2>3
<1> QED
  BY <1>6, <1>7 DEF Files!WriteTmp

\* fsync, and a failure of it.
LEMMA FsyncTmpStep ==
  ASSUME FileConstants, FileInv, Files!FsyncTmp
  PROVE  FileInv'
<1>1. /\ wr.pc = "fsync" /\ UNCHANGED << dir, data, ondisk, started, rd, done >>
  BY DEF Files!FsyncTmp, Files!Quiet
<1>2. /\ dir["file"] \in Inodes \cup {0} /\ dir["tmp"] \in Inodes \cup {0} /\ 0 \notin Inodes
      /\ started \in Nat /\ \A j \in Inodes : data[j] \in Seq(Nat) /\ Len(data[j]) \in Nat
  BY FileFacts DEF FileInv
<1>3. PICK t \in Inodes : t = dir["tmp"] /\ wr.ino = t /\ started > 0 /\ data[t] = FileVersions[started]
  BY <1>1, <1>2 DEF FileInv, Written
<1>4. started' \in Nat /\ started' >= started /\ dir' = dir
  BY <1>1, <1>2
<1>5. (\A k \in ondisk : k.dir["file"] # t) /\ (rd.pc \in {"size", "read"} => rd.ino # t)
  BY <1>2, <1>3 DEF FileInv, Kept, Stands, BeingRead
<1>6. ASSUME synced' \in [Inodes -> Nat], \A j \in Inodes : j # t => synced'[j] = synced[j],
             synced'[t] <= Len(data[t]),
             wr' \in [pc : {"idle", "rename"}, ino : Inodes \cup {0},
                      result : {"none", "open", "write", "fsync", "rename", "ok"}],
             wr'.pc = "rename" => synced'[t] = Len(data[t])
      PROVE  FileInv'
  <2>1. \A j \in Inodes : j # t => data'[j] = data[j] /\ synced'[j] = synced[j]
    BY <1>1, <1>6
  <2>2. Kept' /\ BeingRead'
    <3>2. Now' \in ondisk' /\ ondisk' \subseteq ondisk \cup {Now'}
      BY <1>1, NowStays
    <3>3. dir'["file"] = dir["file"] /\ dir'["tmp"] \in {t, dir["tmp"]}
      BY <1>4
    <3> QED
      BY <1>1, <1>3, <1>4, <1>5, <2>1, <3>2, <3>3, TmpOnly
  <2>3. FileTypes'
    <3>1. \A j \in Inodes : synced[j] <= Len(data[j])
      BY DEF FileInv, FileTypes
    <3>2. \A j \in Inodes : synced'[j] <= Len(data'[j])
      BY <1>1, <1>6, <3>1
    <3>3. wr' \in [pc : {"idle", "write", "fsync", "rename"}, ino : Inodes \cup {0},
                   result : {"none", "open", "write", "fsync", "rename", "ok"}]
      BY <1>6
    <3> QED
      BY <1>1, <1>6, <3>2, <3>3 DEF FileInv, FileTypes
  <2>4. wr'.pc \in {"idle", "rename"}
    BY <1>6
  <2>5. Written'
    BY <1>1, <1>2, <1>3, <1>6, <2>4 DEF Written
  <2> QED
    BY <2>2, <2>3, <2>5 DEF FileInv
<1>7. CASE synced' = [synced EXCEPT ![wr.ino] = Len(data[wr.ino])] /\ wr' = [wr EXCEPT !.pc = "rename", !.ino = 0]
  <2>1. PICK n \in Nat : n = Len(data[t])
    BY <1>2
  <2>2. synced' = [synced EXCEPT ![t] = n]
    BY <1>3, <1>7, <2>1
  <2>3. /\ synced' \in [Inodes -> Nat] /\ synced'[t] = n
        /\ \A j \in Inodes : j # t => synced'[j] = synced[j]
    BY <2>2 DEF FileInv, FileTypes
  <2>4. wr' \in [pc : {"idle", "rename"}, ino : Inodes \cup {0},
                 result : {"none", "open", "write", "fsync", "rename", "ok"}]
    BY <1>7 DEF FileInv, FileTypes
  <2> QED
    BY <1>6, <2>1, <2>3, <2>4
<1>8. CASE Files!Fails("fsync") /\ UNCHANGED synced
  <2>1. wr' = [pc |-> "idle", ino |-> 0, result |-> "fsync"]
    BY <1>8 DEF Files!Fails
  <2>2. synced' \in [Inodes -> Nat] /\ synced'[t] <= Len(data[t])
    BY <1>8 DEF FileInv, FileTypes
  <2> QED
    BY <1>6, <1>8, <2>1, <2>2
<1> QED
  BY <1>7, <1>8 DEF Files!FsyncTmp

\* rename: the name stands for the new version, which is whole.
LEMMA RenameTmpStep ==
  ASSUME FileConstants, FileInv, Files!RenameTmp
  PROVE  FileInv'
<1>1. /\ wr.pc = "rename" /\ UNCHANGED << data, synced, started, rd >>
  BY DEF Files!RenameTmp
<1>2. /\ dir["file"] \in Inodes \cup {0} /\ dir["tmp"] \in Inodes \cup {0} /\ 0 \notin Inodes
      /\ started \in Nat /\ done \in Nat /\ done <= started
  BY FileFacts DEF FileInv
<1>3. PICK t \in Inodes : t = dir["tmp"]
  BY <1>1, <1>2 DEF FileInv, Written
<1>4. started > 0 /\ data[t] = FileVersions[started] /\ synced[t] = Len(data[t])
  BY <1>1, <1>3 DEF FileInv, Written
<1>5. PICK x \in {"ok", "rename"} : wr' = [pc |-> "idle", ino |-> 0, result |-> x]
  BY DEF Files!RenameTmp, Files!Fails
<1>6. Written'
  BY <1>5 DEF Written
<1>7. CASE UNCHANGED << dir, ondisk, done >>
  <2>1. FileTypes'
    BY <1>1, <1>5, <1>7 DEF FileInv, FileTypes
  <2>2. Kept' /\ BeingRead'
    BY <1>1, <1>7 DEF FileInv, Kept, Now, Stands, BeingRead, Whole
  <2> QED
    BY <1>6, <2>1, <2>2 DEF FileInv
<1>8. CASE /\ dir' = [dir EXCEPT !["file"] = dir["tmp"], !["tmp"] = 0] /\ done' = started
           /\ ondisk' = ondisk \cup {Now'}
  <2>1. dir' = [dir EXCEPT !["file"] = t, !["tmp"] = 0]
    BY <1>3, <1>8
  <2>2. dir' \in [{"file", "tmp"} -> Inodes \cup {0}] /\ dir'["file"] = t /\ dir'["tmp"] = 0
    BY <2>1 DEF FileInv, FileTypes
  <2>3. done' \in 0 .. started' /\ started \in 1 .. started'
    BY <1>1, <1>2, <1>4, <1>8
  <2>7. ondisk' \in SUBSET [dir : [{"file", "tmp"} -> Inodes \cup {0}], done : 0 .. started']
    <3>1. started' \in Nat /\ started' >= started /\ ondisk' \subseteq ondisk \cup {Now'}
      BY <1>1, <1>2, <1>8
    <3> QED
      BY <1>2, <2>2, <2>3, <3>1, DirsTyped DEF FileInv
  <2>4. FileTypes'
    BY <1>1, <1>5, <2>2, <2>3, <2>7 DEF FileInv, FileTypes
  <2>5. Kept'
    <3>1. Whole(data[t], done)'
      BY <1>1, <1>2, <1>4, <1>8, <2>3 DEF Whole
    <3>2. t # 0 /\ dir'["file"] # dir'["tmp"] /\ synced'[t] = Len(data'[t])
      BY <1>1, <1>2, <1>4, <2>2
    <3>3. Now'.dir = dir' /\ Now'.done = done'
      BY DEF Now
    <3>4. Stands(dir, done)'
      <4>1. PICK d, n : d = dir' /\ n = done'
        OBVIOUS
      <4>2. d["file"] = t /\ d["tmp"] = 0 /\ dir'["tmp"] = 0
        BY <2>2, <4>1
      <4>3. (d["file"] # d["tmp"] /\ d["file"] # dir'["tmp"]) /\ synced'[d["file"]] = Len(data'[d["file"]])
        BY <3>2, <4>2
      <4>4. Whole(data[t], done)' = (\E v \in 1 .. started' : data'[t] = FileVersions[v] /\ v >= done')
        BY DEF Whole
      <4>5. \E v \in 1 .. started' : data'[d["file"]] = FileVersions[v] /\ v >= n
        BY <3>1, <4>1, <4>2, <4>4
      <4>6. d["file"] # 0
        BY <3>2, <4>2
      <4> QED
        BY <4>1, <4>3, <4>5, <4>6 DEF Stands, Whole
    <3>5. ASSUME NEW k \in ondisk PROVE Stands(k.dir, k.done)'
      <4>1. PICK d, n : d = k.dir /\ n = k.done
        OBVIOUS
      <4>2. Stands(d, n) /\ d["file"] \in Inodes \cup {0}
        BY <4>1, KeptNow DEF FileInv, FileTypes
      <4>3. Stands(d, n)'
        <5>1. d["file"] # 0 => d["file"] # dir'["tmp"]
          BY <2>2
        <5> QED
          BY <1>1, <4>2, <5>1 DEF Stands, Whole
      <4> QED
        BY <4>1, <4>3 DEF Stands, Whole
    <3>6. Now' \in ondisk' /\ \A k \in ondisk' : k \in ondisk \/ k = Now'
      BY <1>8
    <3>7. Stands(Now.dir, Now.done)'
      BY <3>3, <3>4 DEF Stands, Whole
    <3> QED
      BY <3>5, <3>6, <3>7 DEF Kept
  <2>6. BeingRead'
    BY <1>1, <1>2, <2>2 DEF FileInv, BeingRead, Whole
  <2> QED
    BY <1>6, <2>4, <2>5, <2>6 DEF FileInv
<1> QED
  BY <1>7, <1>8 DEF Files!RenameTmp, Files!DirChanges, Now

\* The steps of the reader.
LEMMA ReaderStep ==
  ASSUME FileConstants, FileInv, Files!Stat \/ Files!OpenRead \/ Files!SeekEnd \/ Files!Read
  PROVE  FileInv'
<1>1. UNCHANGED << dir, data, synced, ondisk, wr, done, started >>
  BY DEF Files!Stat, Files!OpenRead, Files!SeekEnd, Files!Read, Files!Writing
<1>2. /\ dir["file"] \in Inodes \cup {0} /\ dir["tmp"] \in Inodes \cup {0} /\ 0 \notin Inodes
      /\ started \in Nat /\ done \in Nat /\ \A j \in Inodes : data[j] \in Seq(Nat) /\ Len(data[j]) \in Nat
  BY FileFacts DEF FileInv
<1> DEFINE R == [pc : {"idle", "open", "size", "read", "done"}, ino : Inodes \cup {0}, size : Nat,
                 result : {"none", "ENOENT", "open", "lseek", "read", "ok"}, got : Seq(Nat)]
<1>3. rd \in R
  BY DEF FileInv, FileTypes
<1>4. ASSUME rd' \in R, BeingRead' PROVE FileInv'
  <2>1. FileTypes'
    BY <1>1, <1>4 DEF FileInv, FileTypes
  <2>2. Kept' /\ Written'
    BY <1>1 DEF FileInv, Kept, Now, Stands, Written, Whole
  <2> QED
    BY <1>4, <2>1, <2>2 DEF FileInv
<1>5. ASSUME NEW x \in {"ENOENT", "open", "lseek", "read"}, Files!Ends(x, << >>) PROVE FileInv'
  <2>1. rd' = [pc |-> "done", ino |-> 0, size |-> 0, result |-> x, got |-> << >>]
    BY <1>5 DEF Files!Ends
  <2>2. rd' \in R
    BY <2>1
  <2>3. BeingRead'
    BY <2>1 DEF BeingRead
  <2> QED
    BY <1>4, <2>2, <2>3
<1>6. CASE Files!Stat
  <2>1. CASE dir["file"] # 0 /\ rd' = [rd EXCEPT !.pc = "open", !.result = "none", !.got = Files!None]
    <3>1. rd' = [pc |-> "open", ino |-> rd.ino, size |-> rd.size, result |-> "none", got |-> << >>]
      BY <1>3, <2>1 DEF Files!None
    <3>2. rd' \in R
      BY <1>3, <3>1
    <3>3. BeingRead'
      BY <1>1, <2>1, <3>1 DEF BeingRead
    <3> QED
      BY <1>4, <3>2, <3>3
  <2> QED
    BY <1>5, <1>6, <2>1 DEF Files!Stat, Files!None
<1>7. CASE Files!OpenRead
  <2>1. CASE rd' = [rd EXCEPT !.pc = "size", !.ino = dir["file"]]
    <3>1. PICK f \in Inodes : f = dir["file"]
      BY <1>2, <1>7 DEF Files!OpenRead, FileInv, BeingRead
    <3>2. rd' = [pc |-> "size", ino |-> f, size |-> rd.size, result |-> rd.result, got |-> rd.got]
      BY <1>3, <2>1, <3>1
    <3>3. rd' \in R
      BY <1>3, <3>2
    <3>4. Whole(data[f], 1) /\ f # dir["tmp"] /\ f # 0
      <4>1. Whole(data[f], done) /\ f # dir["tmp"] /\ f # 0
        BY <1>2, <3>1, KeptNow DEF FileInv, Stands
      <4> QED
        BY <1>2, <4>1 DEF Whole
    <3>5. rd.result = "ok" => Whole(rd.got, 1)
      BY DEF FileInv, BeingRead
    <3>6. BeingRead'
      BY <1>1, <3>2, <3>4, <3>5 DEF BeingRead, Whole
    <3> QED
      BY <1>4, <3>3, <3>6
  <2> QED
    BY <1>5, <1>7, <2>1 DEF Files!OpenRead, Files!None
<1>8. CASE Files!SeekEnd
  <2>1. PICK r \in Inodes : r = rd.ino /\ rd.pc = "size"
    BY <1>3, <1>8 DEF Files!SeekEnd, FileInv, BeingRead
  <2>2. CASE rd' = [rd EXCEPT !.pc = "read", !.size = Len(data[rd.ino])]
    <3>1. PICK n \in Nat : n = Len(data[r])
      BY <1>2
    <3>2. rd' = [pc |-> "read", ino |-> r, size |-> n, result |-> rd.result, got |-> rd.got]
      BY <1>3, <2>1, <2>2, <3>1
    <3>3. rd' \in R
      BY <1>3, <3>2
    <3>4. r # 0 /\ r # dir["tmp"] /\ Whole(data[r], 1) /\ (rd.result = "ok" => Whole(rd.got, 1))
      BY <2>1 DEF FileInv, BeingRead
    <3>5. BeingRead'
      BY <1>1, <3>1, <3>2, <3>4 DEF BeingRead, Whole
    <3> QED
      BY <1>4, <3>3, <3>5
  <2> QED
    BY <1>5, <1>8, <2>2 DEF Files!SeekEnd, Files!None
<1>9. CASE Files!Read
  <2>1. PICK r \in Inodes : r = rd.ino /\ rd.pc = "read"
    BY <1>3, <1>9 DEF Files!Read, FileInv, BeingRead
  <2>2. rd.size = Len(data[r]) /\ Whole(data[r], 1)
    BY <2>1 DEF FileInv, BeingRead
  <2>3. PICK c \in Seq(Nat) : c = data[r]
    BY <1>2
  <2>4. SubSeq(c, 1, Len(c)) = c
    BY SubSeqFull
  <2>5. CASE Files!Ends("ok", SubSeq(data[rd.ino], 1, rd.size))
    <3>1. rd' = [pc |-> "done", ino |-> 0, size |-> 0, result |-> "ok", got |-> c]
      BY <2>1, <2>2, <2>3, <2>4, <2>5 DEF Files!Ends
    <3>2. rd' \in R
      BY <3>1
    <3>3. Whole(c, 1)'
      BY <1>1, <2>2, <2>3 DEF Whole
    <3>4. BeingRead'
      BY <3>1, <3>3 DEF BeingRead, Whole
    <3> QED
      BY <1>4, <3>2, <3>4
  <2> QED
    BY <1>5, <1>9, <2>5 DEF Files!Read, Files!None
<1> QED
  BY <1>6, <1>7, <1>8, <1>9

\* The writer dies, or the power fails: what was synced is still there.
LEMMA FailureStep ==
  ASSUME FileConstants, FileInv, Files!Crash \/ Files!PowerLoss
  PROVE  FileInv'
<1>1. wr' = [pc |-> "idle", ino |-> 0, result |-> "none"] /\ UNCHANGED << synced, started >>
  BY DEF Files!Crash, Files!PowerLoss
<1>2. /\ 0 \notin Inodes /\ started \in Nat
      /\ \A j \in Inodes : data[j] \in Seq(Nat) /\ Len(data[j]) \in Nat
  BY FileFacts DEF FileInv
<1>3. Written'
  BY <1>1 DEF Written
<1>4. CASE Files!Crash
  <2>1. UNCHANGED << dir, data, ondisk, rd, done >>
    BY <1>4 DEF Files!Crash
  <2>2. FileTypes'
    BY <1>1, <2>1 DEF FileInv, FileTypes
  <2>3. Kept' /\ BeingRead'
    BY <1>1, <2>1 DEF FileInv, Kept, Now, Stands, BeingRead, Whole
  <2> QED
    BY <1>3, <2>2, <2>3 DEF FileInv
<1>5. CASE Files!PowerLoss
  <2>1. rd' = [pc |-> "idle", ino |-> 0, size |-> 0, result |-> "none", got |-> << >>]
    BY <1>5 DEF Files!PowerLoss, Files!None
  <2>2. PICK cut \in [Inodes -> BOOLEAN] :
          data' = [j \in Inodes |-> IF cut[j] THEN SubSeq(data[j], 1, synced[j]) ELSE data[j]]
    BY <1>5 DEF Files!PowerLoss
  <2>8. PICK p \in ondisk : dir' = p.dir /\ done' = p.done /\ ondisk' = {p}
    BY <1>5 DEF Files!PowerLoss
  <2>3. ASSUME NEW j \in Inodes
        PROVE  /\ data'[j] \in Seq(Nat) /\ synced'[j] <= Len(data'[j])
               /\ synced[j] = Len(data[j]) => data'[j] = data[j]
    <3>1. PICK c \in Seq(Nat), n \in Nat : c = data[j] /\ n = synced[j] /\ n <= Len(c)
      BY DEF FileInv, FileTypes
    <3>2. /\ SubSeq(c, 1, n) \in Seq(Nat) /\ Len(SubSeq(c, 1, n)) = n
          /\ n = Len(c) => SubSeq(c, 1, n) = c
      <4>1. Len(c) \in Nat /\ \A k \in 1 .. n : c[k] \in Nat
        BY <3>1, LenProperties
      <4>2. SubSeq(c, 1, n) \in Seq(Nat) /\ Len(SubSeq(c, 1, n)) = IF 1 <= n THEN n - 1 + 1 ELSE 0
        BY <4>1, SubSeqProperties
      <4>3. n = Len(c) => SubSeq(c, 1, n) = c
        BY SubSeqFull
      <4> QED
        BY <4>2, <4>3
    <3>3. data'[j] = SubSeq(c, 1, n) \/ data'[j] = c
      BY <2>2, <3>1
    <3>4. synced'[j] = n
      BY <1>1, <3>1
    <3>5. CASE data'[j] = c
      BY <3>1, <3>4, <3>5
    <3>6. CASE data'[j] = SubSeq(c, 1, n)
      <4>1. PICK d : d = SubSeq(c, 1, n)
        OBVIOUS
      <4>2. d \in Seq(Nat) /\ Len(d) = n /\ (n = Len(c) => d = c)
        BY <3>2, <4>1
      <4>3. n <= n
        OBVIOUS
      <4> QED
        BY <3>1, <3>4, <3>6, <4>1, <4>2, <4>3
    <3> QED
      BY <3>3, <3>5, <3>6
  <2>4. data' \in [Inodes -> Seq(Nat)]
    BY <2>2, <2>3
  <2>5. FileTypes'
    <3>1. /\ rd' \in [pc : {"idle", "open", "size", "read", "done"}, ino : Inodes \cup {0}, size : Nat,
                      result : {"none", "ENOENT", "open", "lseek", "read", "ok"}, got : Seq(Nat)]
          /\ wr' \in [pc : {"idle", "write", "fsync", "rename"}, ino : Inodes \cup {0},
                      result : {"none", "open", "write", "fsync", "rename", "ok"}]
      BY <1>1, <2>1
    <3>2. dir' \in [{"file", "tmp"} -> Inodes \cup {0}] /\ done' \in 0 .. started' /\ ondisk' \subseteq ondisk
      BY <1>1, <2>8 DEF FileInv, FileTypes
    <3> QED
      BY <1>1, <2>3, <2>4, <3>1, <3>2 DEF FileInv, FileTypes
  <2>6. Kept'
    <3>1. Stands(p.dir, p.done) /\ p.dir["file"] \in Inodes \cup {0}
      BY KeptNow DEF FileInv, FileTypes
    <3>2. p.dir["file"] # 0 => data'[p.dir["file"]] = data[p.dir["file"]]
      BY <2>3, <3>1 DEF Stands
    <3>3. PICK d, n : d = p.dir /\ n = p.done
      OBVIOUS
    <3>4. Stands(d, n) /\ (d["file"] # 0 => data'[d["file"]] = data[d["file"]] /\ d["file"] # dir'["tmp"])
      BY <2>8, <3>1, <3>2, <3>3 DEF Stands
    <3>5. Stands(d, n)'
      BY <1>1, <1>2, <3>4, StandsStays
    <3>6. \A k \in ondisk' : k = p
      BY <2>8
    <3>7. Stands(p.dir, p.done)'
      BY <3>3, <3>5 DEF Stands, Whole
    <3>8. Now' \in ondisk'
      <4>1. p = [dir |-> p.dir, done |-> p.done]
        BY DEF FileInv, FileTypes
      <4> QED
        BY <2>8, <4>1 DEF Now
    <3> QED
      BY <3>6, <3>7, <3>8 DEF Kept
  <2>7. BeingRead'
    BY <2>1 DEF BeingRead
  <2> QED
    BY <1>3, <2>5, <2>6, <2>7 DEF FileInv
<1> QED
  BY <1>4, <1>5

\* The invariant gives what FileHelpers states.
LEMMA FileMeans ==
  ASSUME FileInv
  PROVE  Files!Sound
  BY KeptNow DEF FileInv, Stands, BeingRead, Whole, Files!Sound

\* Every step keeps the invariant.
LEMMA FileNext ==
  ASSUME FileConstants, FileInv, Files!Next
  PROVE  FileInv'
  BY OpenTmpStep, WriteTmpStep, FsyncTmpStep, RenameTmpStep, ReaderStep, FailureStep
  DEF Files!Next


-----------------------------------------------------------------------------
SerialCalls == [pc : {"idle", "read", "write", "unlock", "make"}, sn : Nat,
          result : {"none", "ok", "read", "write"}]

SerialTypes ==
  /\ file \in Nat /\ idClock \in Nat /\ MachineId \in 0 .. 2 ^ MidBits - 1
  /\ th \in [Callers -> SerialCalls]
  /\ \A i \in ids : /\ i.sn \in Nat /\ i.extra \in Nat /\ i.time \in Nat
                    /\ i.id = Serials!Id(i.time, i.extra, i.sn)

\* Who reads or writes the file holds the lock.
Locked == \A c \in Callers : th[c].pc \in {"read", "write", "unlock"} => holder = c

\* A serial that was drawn and not yet given out.
Drawn(c) == th[c].pc \in {"unlock", "make"} /\ th[c].result = "ok"

\* The file holds the last serial drawn; those given out and those drawn are
\* all different, and not larger.
Distinct ==
  /\ \A c \in Callers : th[c].pc = "write" => th[c].sn = file + 1
  /\ \A c \in Callers : Drawn(c) => th[c].sn <= file /\ \A i \in ids : i.sn # th[c].sn
  /\ \A c, d \in Callers : Drawn(c) /\ Drawn(d) /\ c # d => th[c].sn # th[d].sn
  /\ \A i \in ids : i.sn <= file
  /\ \A i, j \in ids : i.sn = j.sn => i = j

SerialInv == SerialTypes /\ Locked /\ Distinct

\* At first nothing is drawn.
LEMMA SerialStarts ==
  ASSUME Serials!Init
  PROVE  SerialInv
<1>1. SerialTypes
  BY DEF Serials!Init, Serials!Idle, SerialTypes, SerialCalls
<1>2. \A c \in Callers : th[c].pc = "idle"
  BY DEF Serials!Init, Serials!Idle
<1>3. Locked /\ Distinct
  BY <1>2 DEF Serials!Init, Locked, Distinct, Drawn
<1> QED
  BY <1>1, <1>3 DEF SerialInv

\* A step that changes one caller's record and gives out nothing.
LEMMA OneCall ==
  ASSUME SerialInv, NEW c \in Callers, NEW r \in SerialCalls, th' = [th EXCEPT ![c] = r],
         file' \in Nat, file' >= file, idClock' = idClock, ids' = ids
  PROVE  /\ SerialTypes' /\ th'[c] = r
         /\ \A d \in Callers : d # c => th'[d] = th[d]
         /\ \A d \in Callers : d # c => Drawn(d)' = Drawn(d)
<1>1. th' \in [Callers -> SerialCalls] /\ th'[c] = r /\ \A d \in Callers : d # c => th'[d] = th[d]
  BY DEF SerialInv, SerialTypes
<1>2. SerialTypes'
  BY <1>1 DEF SerialInv, SerialTypes, Serials!Id, Serials!MaskedMid, Serials!ExtraPart, Serials!SnPart
<1> QED
  BY <1>1, <1>2 DEF Drawn

\* The lock is free, and the caller reads next.
LEMMA LockStep ==
  ASSUME SerialConstants, SerialInv, NEW c \in Callers, Serials!FileWriteLock(c)
  PROVE  SerialInv'
<1>1. /\ th[c].pc = "idle" /\ holder \in {"none", c} /\ holder' = c /\ UNCHANGED << file, idClock, ids >>
  BY DEF Serials!FileWriteLock
<1>2. PICK r : r = [Serials!Idle EXCEPT !.pc = "read"]
  OBVIOUS
<1>3. r = [pc |-> "read", sn |-> 0, result |-> "none"] /\ r \in SerialCalls
  BY <1>2 DEF Serials!Idle, SerialCalls
<1>4. th' = [th EXCEPT ![c] = r]
  BY <1>2 DEF Serials!FileWriteLock
<1>5. /\ SerialTypes' /\ th'[c] = r
      /\ \A d \in Callers : d # c => th'[d] = th[d]
      /\ \A d \in Callers : d # c => Drawn(d)' = Drawn(d)
  <2>1. file' \in Nat /\ file' >= file
    BY <1>1 DEF SerialInv, SerialTypes
  <2> QED
    BY <1>1, <1>3, <1>4, <2>1, OneCall
<1>6. ~ Drawn(c)' /\ th'[c].pc = "read"
  BY <1>3, <1>5 DEF Drawn
<1>7. Locked'
  <2>1. \A d \in Callers : d # c => th[d].pc \notin {"read", "write", "unlock"}
    BY <1>1 DEF SerialConstants, SerialInv, Locked
  <2> QED
    BY <1>1, <1>5, <2>1 DEF Locked
<1>8. Distinct'
  BY <1>1, <1>5, <1>6 DEF SerialInv, Distinct
<1> QED
  BY <1>5, <1>7, <1>8 DEF SerialInv

\* Two fields of a call's record set at once.
LEMMA SetPcSn ==
  ASSUME SerialInv, NEW c \in Callers, NEW x \in {"write", "unlock"}, NEW n \in Nat,
         NEW g, g = [th EXCEPT ![c].pc = x, ![c].sn = n]
  PROVE  \E r \in SerialCalls : /\ g = [th EXCEPT ![c] = r]
                                /\ r = [pc |-> x, sn |-> n, result |-> th[c].result]
<1>1. th \in [Callers -> SerialCalls] /\ th[c] \in SerialCalls
  BY DEF SerialInv, SerialTypes
<1>2. PICK f, q : f = [th EXCEPT ![c].pc = x] /\ q = [th[c] EXCEPT !.pc = x]
  OBVIOUS
<1>3. q = [pc |-> x, sn |-> th[c].sn, result |-> th[c].result] /\ q \in SerialCalls
  BY <1>1, <1>2 DEF SerialCalls
<1>4. f = [th EXCEPT ![c] = q] /\ f \in [Callers -> SerialCalls] /\ f[c] = q
  BY <1>1, <1>2, <1>3
<1>5. PICK r : r = [q EXCEPT !.sn = n]
  OBVIOUS
<1>6. r = [pc |-> x, sn |-> n, result |-> th[c].result] /\ r \in SerialCalls
  BY <1>1, <1>3, <1>5 DEF SerialCalls
<1>7. g = [f EXCEPT ![c].sn = n]
  BY <1>2
<1>8. g = [f EXCEPT ![c] = r]
  BY <1>4, <1>5, <1>7
<1>9. g = [th EXCEPT ![c] = r]
  BY <1>1, <1>4, <1>8
<1> QED
  BY <1>6, <1>9

\* The number that is read is the last one drawn, and stays it while the lock is held.
LEMMA ReadStep ==
  ASSUME SerialInv, NEW c \in Callers, Serials!ReadSerial(c)
  PROVE  SerialInv'
<1>1. th[c].pc = "read" /\ holder = c /\ UNCHANGED << file, holder, idClock, ids >> /\ th[c] \in SerialCalls
      /\ file \in Nat
  BY DEF Serials!ReadSerial, SerialInv, SerialTypes, Locked
<1>2. PICK r \in SerialCalls : /\ th' = [th EXCEPT ![c] = r]
                         /\ r.pc \in {"write", "unlock"} /\ (r.pc = "write" => r.sn = file + 1)
                         /\ (r.pc = "unlock" => r.result = "read")
  <2>1. CASE th' = [th EXCEPT ![c].pc = "write", ![c].sn = file + 1]
    <3>1. PICK n \in Nat : n = file + 1
      BY <1>1
    <3>2. th' = [th EXCEPT ![c].pc = "write", ![c].sn = n]
      BY <2>1, <3>1
    <3>3. PICK g : g = th'
      OBVIOUS
    <3>4. g = [th EXCEPT ![c].pc = "write", ![c].sn = n]
      BY <3>2, <3>3
    <3>5. PICK r \in SerialCalls : /\ g = [th EXCEPT ![c] = r]
                                  /\ r = [pc |-> "write", sn |-> n, result |-> th[c].result]
      BY <3>4, SetPcSn
    <3>6. r.pc = "write" /\ r.sn = n
      BY <3>5
    <3> QED
      BY <3>1, <3>3, <3>5, <3>6
  <2>2. CASE th' = [th EXCEPT ![c].pc = "unlock", ![c].sn = 0, ![c].result = "read"]
    <3>1. PICK f : f = [th EXCEPT ![c].pc = "unlock", ![c].sn = 0]
      OBVIOUS
    <3>2. PICK q \in SerialCalls : f = [th EXCEPT ![c] = q] /\ q = [pc |-> "unlock", sn |-> 0, result |-> th[c].result]
      BY <1>1, <3>1, SetPcSn
    <3>3. f \in [Callers -> SerialCalls] /\ f[c] = q
      BY <3>2 DEF SerialInv, SerialTypes
    <3>4. PICK r : r = [q EXCEPT !.result = "read"]
      OBVIOUS
    <3>5. r = [pc |-> "unlock", sn |-> 0, result |-> "read"] /\ r \in SerialCalls
      BY <3>2, <3>4 DEF SerialCalls
    <3>6. th' = [f EXCEPT ![c].result = "read"]
      BY <2>2, <3>1
    <3>7. th' = [f EXCEPT ![c] = r]
      BY <3>3, <3>4, <3>6
    <3>8. th' = [th EXCEPT ![c] = r]
      BY <3>2, <3>7 DEF SerialInv, SerialTypes
    <3> QED
      BY <3>5, <3>8
  <2> QED
    BY <2>1, <2>2 DEF Serials!ReadSerial
<1>3. /\ SerialTypes' /\ th'[c] = r
      /\ \A d \in Callers : d # c => th'[d] = th[d]
      /\ \A d \in Callers : d # c => Drawn(d)' = Drawn(d)
  <2>1. file' \in Nat /\ file' >= file
    BY <1>1
  <2> QED
    BY <1>1, <1>2, <2>1, OneCall
<1>4. ~ Drawn(c)'
  BY <1>2, <1>3 DEF Drawn
<1>5. Locked'
  BY <1>1, <1>3 DEF SerialInv, Locked
<1>6. Distinct'
  BY <1>1, <1>2, <1>3, <1>4 DEF SerialInv, Distinct
<1> QED
  BY <1>3, <1>5, <1>6 DEF SerialInv

\* The number written is larger than any that was drawn before.
LEMMA WriteSerialStep ==
  ASSUME SerialInv, NEW c \in Callers, Serials!WriteSerial(c)
  PROVE  SerialInv'
<1>1. th[c].pc = "write" /\ holder = c /\ UNCHANGED << holder, idClock, ids >> /\ th[c] \in SerialCalls
      /\ file \in Nat /\ th[c].sn = file + 1
  BY DEF Serials!WriteSerial, SerialInv, SerialTypes, Locked, Distinct
<1>2. PICK r \in SerialCalls : /\ th' = [th EXCEPT ![c] = r] /\ r.pc = "unlock" /\ r.sn = file + 1
                         /\ \/ r.result = "ok" /\ file' = file + 1
                            \/ r.result = "write" /\ file' = file
  <2>1. ASSUME NEW x \in {"ok", "write"}, th' = [th EXCEPT ![c].pc = "unlock", ![c].result = x]
        PROVE  \E r \in SerialCalls : th' = [th EXCEPT ![c] = r] /\ r.pc = "unlock" /\ r.sn = file + 1 /\ r.result = x
    <3>1. PICK f : f = [th EXCEPT ![c].pc = "unlock"]
      OBVIOUS
    <3>2. PICK q : q = [th[c] EXCEPT !.pc = "unlock"]
      OBVIOUS
    <3>3. q = [pc |-> "unlock", sn |-> file + 1, result |-> th[c].result] /\ q \in SerialCalls
      BY <1>1, <3>2 DEF SerialCalls
    <3>4. f = [th EXCEPT ![c] = q] /\ f \in [Callers -> SerialCalls] /\ f[c] = q
      BY <3>1, <3>2, <3>3 DEF SerialInv, SerialTypes
    <3>5. PICK r : r = [q EXCEPT !.result = x]
      OBVIOUS
    <3>6. r = [pc |-> "unlock", sn |-> file + 1, result |-> x] /\ r \in SerialCalls
      BY <1>1, <3>3, <3>5 DEF SerialCalls
    <3>7. th' = [f EXCEPT ![c].result = x]
      BY <2>1, <3>1
    <3>8. th' = [f EXCEPT ![c] = r]
      BY <3>4, <3>5, <3>7
    <3>9. th' = [th EXCEPT ![c] = r]
      BY <3>4, <3>8 DEF SerialInv, SerialTypes
    <3> QED
      BY <3>6, <3>9
  <2> QED
    BY <1>1, <2>1 DEF Serials!WriteSerial
<1>3. file' \in Nat /\ file' >= file
  BY <1>1, <1>2
<1>4. /\ SerialTypes' /\ th'[c] = r
      /\ \A d \in Callers : d # c => th'[d] = th[d]
      /\ \A d \in Callers : d # c => Drawn(d)' = Drawn(d)
  BY <1>1, <1>2, <1>3, OneCall
<1>5. \A d \in Callers : d # c => th[d].pc \notin {"read", "write", "unlock"}
  BY <1>1 DEF SerialInv, Locked
<1>6. Locked'
  BY <1>1, <1>4, <1>5 DEF Locked
<1>7. \A d \in Callers : th[d].sn \in Nat
  BY DEF SerialInv, SerialTypes, SerialCalls
<1>8. Drawn(c)' => th'[c].sn = file + 1 /\ file' = file + 1
  BY <1>2, <1>4 DEF Drawn
<1>9. \A d \in Callers : d # c /\ Drawn(d)' => th'[d].sn <= file /\ th'[d].sn \in Nat /\ \A i \in ids : i.sn # th'[d].sn
  BY <1>4, <1>7 DEF SerialInv, Distinct
<1>10. \A i \in ids : i.sn <= file /\ i.sn \in Nat
  BY DEF SerialInv, Distinct, SerialTypes
<1>11. Distinct'
  <2>1. \A d \in Callers : th'[d].pc # "write"
    BY <1>2, <1>4, <1>5
  <2>2. \A d \in Callers : Drawn(d)' => th'[d].sn <= file' /\ \A i \in ids' : i.sn # th'[d].sn
    <3>1. ASSUME NEW d \in Callers, Drawn(d)', d # c PROVE th'[d].sn <= file' /\ \A i \in ids' : i.sn # th'[d].sn
      BY <1>1, <1>3, <1>9, <3>1
    <3>2. ASSUME Drawn(c)' PROVE th'[c].sn <= file' /\ \A i \in ids' : i.sn # th'[c].sn
      BY <1>1, <1>8, <1>10, <3>2
    <3> QED
      BY <3>1, <3>2
  <2>3. ASSUME NEW d \in Callers, NEW e \in Callers, Drawn(d)', Drawn(e)', d # e PROVE th'[d].sn # th'[e].sn
    <3>1. CASE d = c
      BY <1>1, <1>8, <1>9, <2>3, <3>1
    <3>2. CASE e = c
      BY <1>1, <1>8, <1>9, <2>3, <3>2
    <3>3. CASE d # c /\ e # c
      BY <1>4, <2>3, <3>3 DEF SerialInv, Distinct
    <3> QED
      BY <3>1, <3>2, <3>3
  <2>4. \A i \in ids' : i.sn <= file'
    BY <1>1, <1>3, <1>10
  <2>5. \A i, j \in ids' : i.sn = j.sn => i = j
    BY <1>1 DEF SerialInv, Distinct
  <2> QED
    BY <2>1, <2>2, <2>3, <2>4, <2>5 DEF Distinct
<1> QED
  BY <1>4, <1>6, <1>11 DEF SerialInv

\* The lock is given up; the call keeps the serial it drew.
LEMMA UnlockStep ==
  ASSUME SerialInv, NEW c \in Callers, Serials!FileUnlock(c)
  PROVE  SerialInv'
<1>1. th[c].pc = "unlock" /\ holder = c /\ UNCHANGED << file, idClock, ids >> /\ th[c] \in SerialCalls
      /\ file' \in Nat /\ file' >= file
  BY DEF Serials!FileUnlock, SerialInv, SerialTypes, Locked
<1>2. PICK r : r = [th[c] EXCEPT !.pc = "make"]
  OBVIOUS
<1>3. r \in SerialCalls /\ r.pc = "make" /\ r.sn = th[c].sn /\ r.result = th[c].result
  BY <1>1, <1>2 DEF SerialCalls
<1>4. th' = [th EXCEPT ![c] = r]
  BY <1>2 DEF Serials!FileUnlock
<1>5. /\ SerialTypes' /\ th'[c] = r
      /\ \A d \in Callers : d # c => th'[d] = th[d]
      /\ \A d \in Callers : d # c => Drawn(d)' = Drawn(d)
  BY <1>1, <1>3, <1>4, OneCall
<1>6. /\ \A d \in Callers : Drawn(d)' <=> Drawn(d)
      /\ \A d \in Callers : th'[d].sn = th[d].sn /\ (th'[d].pc = "write" => th[d].pc = "write")
  BY <1>1, <1>3, <1>5 DEF Drawn
<1>7. Locked'
  <2>1. \A d \in Callers : d # c => th[d].pc \notin {"read", "write", "unlock"}
    BY <1>1 DEF SerialInv, Locked
  <2> QED
    BY <1>3, <1>5, <2>1 DEF Locked
<1>8. Distinct'
  BY <1>1, <1>6 DEF SerialInv, Distinct
<1> QED
  BY <1>5, <1>7, <1>8 DEF SerialInv

\* A serial that was drawn is given out, with the id made of it.
LEMMA MakeStep ==
  ASSUME SerialInv, NEW c \in Callers, NEW extra \in Nat, Serials!MakeId(c, extra)
  PROVE  SerialInv'
<1>1. /\ th[c].pc = "make" /\ th' = [th EXCEPT ![c] = Serials!Idle] /\ UNCHANGED << file, holder, idClock >>
  BY DEF Serials!MakeId
<1>2. Serials!Idle = [pc |-> "idle", sn |-> 0, result |-> "none"] /\ Serials!Idle \in SerialCalls
  BY DEF Serials!Idle, SerialCalls
<1>3. /\ th' \in [Callers -> SerialCalls] /\ th'[c].pc = "idle"
      /\ \A d \in Callers : d # c => th'[d] = th[d]
  BY <1>1, <1>2 DEF SerialInv, SerialTypes
<1>4. PICK new : new = [id |-> Serials!Id(idClock, extra, th[c].sn), sn |-> th[c].sn,
                        extra |-> extra, time |-> idClock, by |-> c]
  OBVIOUS
<1>5. CASE th[c].result # "ok" /\ ids' = ids
  <2>1. SerialTypes'
    BY <1>1, <1>3, <1>5
    DEF SerialInv, SerialTypes, Serials!Id, Serials!MaskedMid, Serials!ExtraPart, Serials!SnPart
  <2>2. Locked' /\ Distinct'
    BY <1>1, <1>3, <1>5 DEF SerialInv, Locked, Distinct, Drawn
  <2> QED
    BY <2>1, <2>2 DEF SerialInv
<1>6. CASE th[c].result = "ok" /\ ids' = ids \cup {new}
  <2>1. Drawn(c) /\ th[c].sn \in Nat /\ idClock \in Nat
    BY <1>1, <1>6 DEF Drawn, SerialInv, SerialTypes, SerialCalls
  <2>2. /\ new.sn = th[c].sn /\ new.extra = extra /\ new.time = idClock
        /\ new.id = Serials!Id(new.time, new.extra, new.sn)
    BY <1>4
  <2>3. SerialTypes'
    <3>1. \A i \in ids' : i.sn \in Nat /\ i.extra \in Nat /\ i.time \in Nat /\ i.id = Serials!Id(i.time, i.extra, i.sn)
      BY <1>6, <2>1, <2>2 DEF SerialInv, SerialTypes
    <3>2. \A i \in ids' : i.id = Serials!Id(i.time, i.extra, i.sn)'
      BY <3>1 DEF Serials!Id, Serials!MaskedMid, Serials!ExtraPart, Serials!SnPart
    <3> QED
      BY <1>1, <1>3, <3>1, <3>2 DEF SerialInv, SerialTypes
  <2>4. new.sn <= file /\ \A i \in ids : i.sn # new.sn
    BY <2>1, <2>2 DEF SerialInv, Distinct
  <2>5. Locked'
    BY <1>1, <1>3 DEF SerialInv, Locked
  <2>6. Distinct'
    <3>1. ~ Drawn(c)' /\ \A d \in Callers : d # c => Drawn(d)' = Drawn(d)
      BY <1>3 DEF Drawn
    <3>2. \A d \in Callers : Drawn(d)' => th'[d].sn <= file' /\ \A i \in ids' : i.sn # th'[d].sn
      <4>1. ASSUME NEW d \in Callers, Drawn(d)' PROVE d # c /\ Drawn(d) /\ th'[d].sn = th[d].sn
        BY <1>3, <3>1, <4>1
      <4>2. ASSUME NEW d \in Callers, Drawn(d), d # c
            PROVE  th[d].sn <= file /\ th[d].sn # new.sn /\ \A i \in ids : i.sn # th[d].sn
        BY <2>1, <2>2, <4>2 DEF SerialInv, Distinct
      <4> QED
        BY <1>1, <1>6, <4>1, <4>2
    <3>3. \A d, e \in Callers : Drawn(d)' /\ Drawn(e)' /\ d # e => th'[d].sn # th'[e].sn
      BY <1>3, <3>1 DEF SerialInv, Distinct
    <3>4. \A d \in Callers : th'[d].pc = "write" => th'[d].sn = file' + 1
      BY <1>1, <1>3 DEF SerialInv, Distinct
    <3>5. \A i \in ids' : i.sn <= file'
      BY <1>1, <1>6, <2>4 DEF SerialInv, Distinct
    <3>6. \A i, j \in ids' : i.sn = j.sn => i = j
      BY <1>6, <2>4 DEF SerialInv, Distinct
    <3> QED
      BY <3>2, <3>3, <3>4, <3>5, <3>6 DEF Distinct
  <2> QED
    BY <2>3, <2>5, <2>6 DEF SerialInv
<1> QED
  BY <1>4, <1>5, <1>6 DEF Serials!MakeId

\* A process dies: its call is forgotten, and its lock goes with it.
LEMMA CrashStep ==
  ASSUME SerialInv, NEW p \in Callers, Serials!Crash(p)
  PROVE  SerialInv'
<1>1. /\ th' = [c \in Callers |-> IF c = p THEN Serials!Idle ELSE th[c]]
      /\ UNCHANGED << file, idClock, ids >> /\ (holder # p => holder' = holder)
  BY DEF Serials!Crash
<1>2. Serials!Idle = [pc |-> "idle", sn |-> 0, result |-> "none"] /\ Serials!Idle \in SerialCalls
  BY DEF Serials!Idle, SerialCalls
<1>3. /\ th' \in [Callers -> SerialCalls] /\ th'[p].pc = "idle"
      /\ \A d \in Callers : d # p => th'[d] = th[d]
  BY <1>1, <1>2 DEF SerialInv, SerialTypes
<1>4. SerialTypes'
  BY <1>1, <1>3
  DEF SerialInv, SerialTypes, Serials!Id, Serials!MaskedMid, Serials!ExtraPart, Serials!SnPart
<1>5. Locked'
  BY <1>1, <1>3 DEF SerialInv, Locked
<1>6. Distinct'
  <2>1. ~ Drawn(p)' /\ \A d \in Callers : d # p => Drawn(d)' = Drawn(d)
    BY <1>3 DEF Drawn
  <2> QED
    BY <1>1, <1>3, <2>1 DEF SerialInv, Distinct
<1> QED
  BY <1>4, <1>5, <1>6 DEF SerialInv

\* Every step keeps the invariant.
LEMMA SerialNext ==
  ASSUME SerialConstants, SerialInv, Serials!Next
  PROVE  SerialInv'
<1>1. CASE Serials!Tick
  <2>1. idClock' \in Nat /\ UNCHANGED << file, holder, th, ids >>
    BY <1>1 DEF Serials!Tick, SerialInv, SerialTypes
  <2> QED
    BY <2>1 DEF SerialInv, SerialTypes, Locked, Distinct, Drawn,
                Serials!Id, Serials!MaskedMid, Serials!ExtraPart, Serials!SnPart
<1>2. CASE \E p \in Serials!Procs : Serials!Crash(p)
  <2>1. \E p \in Callers : Serials!Crash(p)
    BY <1>2 DEF Serials!Procs
  <2> QED
    BY <2>1, CrashStep
<1>3. ASSUME NEW c \in Callers,
             \/ Serials!FileWriteLock(c) \/ Serials!ReadSerial(c) \/ Serials!WriteSerial(c) \/ Serials!FileUnlock(c)
             \/ \E extra \in {th[c].sn % 2 ^ ExtraBits, 2 ^ ExtraBits + 1} : Serials!MakeId(c, extra)
      PROVE  SerialInv'
  <2>1. PICK e \in Nat \ {0} : e = 2 ^ ExtraBits
    BY DEF SerialConstants
  <2>2. th[c].sn \in Nat
    BY DEF SerialInv, SerialTypes, SerialCalls
  <2>3. th[c].sn % 2 ^ ExtraBits \in Nat /\ 2 ^ ExtraBits + 1 \in Nat
    BY <2>1, <2>2
  <2> QED
    BY <1>3, <2>3, LockStep, ReadStep, WriteSerialStep, UnlockStep, MakeStep
<1> QED
  BY <1>1, <1>2, <1>3 DEF Serials!Next

\* Arithmetic: a product grows by its factor at least.
LEMMA Mono ==
  ASSUME NEW a \in Int, NEW b \in Int, NEW d \in Nat, a >= b + 1
  PROVE  a * d >= b * d + d
<1>1. PICK k \in Nat : a = b + 1 + k
  OBVIOUS
<1>2. a * d = b * d + d + k * d
  BY <1>1
<1>3. k * d >= 0 /\ k * d \in Int
  OBVIOUS
<1> QED
  BY <1>2, <1>3

\* Quotient and remainder.
LEMMA Quotient ==
  ASSUME NEW x \in Nat, NEW d \in Nat \ {0}
  PROVE  x \div d \in Nat /\ x % d \in 0 .. d - 1 /\ x = (x \div d) * d + (x % d)
  OBVIOUS

\* They are the only ones.
LEMMA OneQuotient ==
  ASSUME NEW q \in Nat, NEW d \in Nat \ {0}, NEW r \in 0 .. d - 1
  PROVE  (q * d + r) \div d = q /\ (q * d + r) % d = r
<1>1. PICK x \in Nat : x = q * d + r
  OBVIOUS
<1>2. PICK k \in Nat, m \in 0 .. d - 1 : k = x \div d /\ m = x % d /\ x = k * d + m
  BY Quotient
<1>3. ~ (k >= q + 1)
  BY <1>1, <1>2, Mono
<1>4. ~ (q >= k + 1)
  BY <1>1, <1>2, Mono
<1>5. k = q
  BY <1>3, <1>4
<1>6. m = r
  BY <1>1, <1>2, <1>5
<1> QED
  BY <1>1, <1>2, <1>5, <1>6

\* A digit and what is below it stay below the next digit.
LEMMA Digits ==
  ASSUME NEW a \in Nat \ {0}, NEW b \in Nat \ {0}, NEW h \in 0 .. a - 1, NEW l \in 0 .. b - 1
  PROVE  h * b + l \in 0 .. a * b - 1
<1>1. a * b >= h * b + b
  BY Mono
<1>2. h * b \in Nat /\ a * b \in Nat
  OBVIOUS
<1> QED
  BY <1>1, <1>2

\* The seconds t, machine mid, extra data h and serial l, put together with the
\* weights mes, es, s and 1, can be read off again.
ComesApart(m, e, s, es, mes, t, mid, h, l) ==
  /\ (t * mes + mid * es + h * s + l) \div mes = t
  /\ ((t * mes + mid * es + h * s + l) \div es) % m = mid
  /\ (t * mes + mid * es + h * s + l) % s = l

\* The parts of an id come apart again: es is 2^(extra + sn bits), mes the unit
\* of the seconds, h the extra data, l the serial.
LEMMA IdParts ==
  ASSUME NEW m \in Nat \ {0}, NEW e \in Nat \ {0}, NEW s \in Nat \ {0},
         NEW es \in Nat \ {0}, es = e * s, NEW mes \in Nat \ {0}, mes = m * es,
         NEW t \in Nat, NEW mid \in 0 .. m - 1, NEW h \in 0 .. e - 1, NEW l \in 0 .. s - 1
  PROVE  ComesApart(m, e, s, es, mes, t, mid, h, l)
<1>1. PICK id \in Nat : id = t * mes + mid * es + h * s + l
  OBVIOUS
<1>3. PICK low \in 0 .. es - 1 : low = h * s + l
  BY Digits
<1>5. PICK mlow \in 0 .. mes - 1 : mlow = mid * es + low
  BY Digits
<1>6. id = t * mes + mlow
  <2>1. t * mes \in Int /\ mid * es \in Int /\ h * s \in Int
    OBVIOUS
  <2> QED
    BY <1>1, <1>3, <1>5, <2>1
<1>7. id \div mes = t
  BY <1>6, OneQuotient
<1>8. id = (t * m + mid) * es + low
  <2>1. t * mes = (t * m) * es
    OBVIOUS
  <2>2. (t * m + mid) * es = (t * m) * es + mid * es
    OBVIOUS
  <2> QED
    BY <1>5, <1>6, <2>1, <2>2
<1>9. id \div es = t * m + mid
  <2>1. PICK q \in Nat : q = t * m + mid
    OBVIOUS
  <2>2. id = q * es + low
    BY <1>8, <2>1
  <2>3. (q * es + low) \div es = q
    BY OneQuotient
  <2> QED
    BY <2>1, <2>2, <2>3
<1>10. (t * m + mid) % m = mid
  BY OneQuotient
<1>11. id % s = l
  <2>1. PICK q \in Nat : q = (t * m + mid) * e + h
    OBVIOUS
  <2>2. (t * m + mid) * es = ((t * m + mid) * e) * s
    OBVIOUS
  <2>3. q * s = ((t * m + mid) * e) * s + h * s
    BY <2>1
  <2>4. id = q * s + l
    BY <1>3, <1>8, <2>2, <2>3
  <2>5. (q * s + l) % s = l
    BY OneQuotient
  <2> QED
    BY <2>4, <2>5
<1> QED
  BY <1>1, <1>7, <1>9, <1>10, <1>11 DEF ComesApart

\* Equal remainders: the difference is a whole number of rounds.
LEMMA SameRemainder ==
  ASSUME NEW a \in Nat, NEW b \in Nat, NEW s \in Nat \ {0}, a % s = b % s
  PROVE  (a - b) % s = 0
<1>1. PICK k \in Nat, j \in Nat, r \in 0 .. s - 1 : a = k * s + r /\ b = j * s + r
  <2>1. /\ a \div s \in Nat /\ a % s \in 0 .. s - 1 /\ a = (a \div s) * s + (a % s)
        /\ b \div s \in Nat /\ b = (b \div s) * s + (b % s)
    BY Quotient
  <2> QED
    BY <2>1
<1>2. a - b = (k - j) * s
  BY <1>1
<1> QED
  BY <1>2

\* The promise follows.
LEMMA SerialMeans ==
  ASSUME SerialInv, SerialConstants
  PROVE  Serials!Sound
<1>1. PICK m \in Nat \ {0} : m = 2 ^ MidBits
  BY DEF SerialConstants
<1>2. PICK e \in Nat \ {0} : e = 2 ^ ExtraBits
  BY DEF SerialConstants
<1>3. PICK s \in Nat \ {0} : s = 2 ^ SnBits
  BY DEF SerialConstants
<1>4. PICK es \in Nat \ {0}, mes \in Nat \ {0} :
        /\ es = e * s /\ es = 2 ^ (ExtraBits + SnBits)
        /\ mes = m * es /\ mes = 2 ^ Serials!MesBitsSum
  <2>1. PICK es \in Nat \ {0}, mes \in Nat \ {0} : es = e * s /\ mes = m * es
    OBVIOUS
  <2>2. es = 2 ^ (ExtraBits + SnBits) /\ mes = 2 ^ Serials!MesBitsSum
    BY <1>1, <1>2, <1>3, <2>1 DEF SerialConstants, Serials!MesBitsSum
  <2> QED
    BY <2>1, <2>2
<1>5. ASSUME NEW i \in ids
      PROVE  /\ i.id \div 2 ^ Serials!MesBitsSum = i.time
             /\ (i.id \div 2 ^ (ExtraBits + SnBits)) % 2 ^ MidBits = MachineId
             /\ i.id % 2 ^ SnBits = i.sn % 2 ^ SnBits
  <2>1. PICK t \in Nat, x \in Nat, n \in Nat :
          t = i.time /\ x = i.extra /\ n = i.sn /\ i.id = Serials!Id(t, x, n)
    BY DEF SerialInv, SerialTypes
  <2>2. PICK mid \in 0 .. m - 1 : mid = MachineId
    BY <1>1 DEF SerialInv, SerialTypes
  <2>3. PICK h \in 0 .. e - 1, l \in 0 .. s - 1 : h = x % e /\ l = n % s
    BY Quotient
  <2>4. i.id = t * mes + mid * es + h * s + l
    BY <1>2, <1>3, <1>4, <2>1, <2>2, <2>3
    DEF Serials!Id, Serials!MaskedMid, Serials!ExtraPart, Serials!SnPart
  <2>5. ComesApart(m, e, s, es, mes, t, mid, h, l)
    BY <1>4, IdParts
  <2>6. i.id \div mes = t /\ (i.id \div es) % m = mid /\ i.id % s = l
    BY <2>4, <2>5 DEF ComesApart
  <2> QED
    BY <1>1, <1>3, <1>4, <2>1, <2>2, <2>3, <2>6
<1>6. ASSUME NEW i \in ids, NEW j \in ids, i.id = j.id
      PROVE  (i.sn - j.sn) % 2 ^ SnBits = 0
  <2>1. PICK a \in Nat, b \in Nat : a = i.sn /\ b = j.sn
    BY DEF SerialInv, SerialTypes
  <2>2. a % s = b % s
    BY <1>3, <1>5, <1>6, <2>1
  <2>3. (a - b) % s = 0
    BY <2>2, SameRemainder
  <2> QED
    BY <1>3, <2>1, <2>3
<1>7. \A i, j \in ids : i.sn = j.sn => i = j
  BY DEF SerialInv, Distinct
<1> QED
  BY <1>5, <1>6, <1>7 DEF Serials!Sound

-----------------------------------------------------------------------------
\* A command under way, and a daemon that is up.
Commanding == {"start", "open", "write", "stop", "restart", "waiting", "restarting"}
Up         == {"run", "unlink"}

DaemonTypes ==
  /\ proc \in [Pids -> [exe : {"none", "daemon", "other"}, pc : Commanding \cup Up \cup {"none"},
                        target : Pids \cup {Daemon!Nobody}, sig : BOOLEAN]]
  /\ \A p \in Pids : proc[p].exe = "daemon" <=> proc[p].pc # "none"

\* The pid file names the daemon that is up, whatever command is under way.
NamedUp == \A p \in Pids : proc[p].pc \in Up => pidfile = p

\* There is one command at a time; it writes the pid file when nothing is up,
\* and waits for the daemon that is up, if any.
OneCommand ==
  /\ \A p, q \in Pids : proc[p].pc \in Commanding /\ proc[q].pc \in Commanding => p = q
  /\ \A p, q \in Pids : proc[p].pc \in {"open", "write"} => proc[q].pc \notin Up
  /\ \A p \in Pids : proc[p].pc \in {"waiting", "restarting"} =>
       /\ proc[p].target \in Pids
       /\ \A q \in Pids : proc[q].pc \in Up => q = proc[p].target

Stopped == gone # Daemon!Nobody =>
             /\ \A p \in Pids : proc[p].pc \notin Commanding
             /\ \A p \in Pids : proc[p].pc = "run" => p # gone

DaemonInv == DaemonTypes /\ NamedUp /\ OneCommand /\ Stopped

\* What a step that moves one process on, or ends it, makes of the others.
LEMMA GoFacts ==
  ASSUME DaemonTypes, NEW p \in Pids, NEW x \in Commanding \cup Up, proc[p].pc # "none", Daemon!Go(p, x)
  PROVE  /\ DaemonTypes'
         /\ proc'[p].pc = x
         /\ \A q \in Pids : proc'[q].target = proc[q].target /\ (q # p => proc'[q].pc = proc[q].pc)
<1>1. proc' = [proc EXCEPT ![p].pc = x]
  BY DEF Daemon!Go
<1>2. x # "none"
  BY DEF Commanding, Up
<1>3. proc' \in [Pids -> [exe : {"none", "daemon", "other"}, pc : Commanding \cup Up \cup {"none"},
                        target : Pids \cup {Daemon!Nobody}, sig : BOOLEAN]]
  BY <1>1 DEF DaemonTypes
<1>4. /\ proc'[p].pc = x /\ proc'[p].exe = proc[p].exe /\ proc'[p].target = proc[p].target
      /\ \A q \in Pids : q # p => proc'[q] = proc[q]
  BY <1>1 DEF DaemonTypes
<1> QED
  BY <1>2, <1>3, <1>4 DEF DaemonTypes

\* What the end of a process makes of the others.
LEMMA ExitFacts ==
  ASSUME DaemonTypes, NEW p \in Pids, Daemon!Exit(p)
  PROVE  /\ DaemonTypes'
         /\ proc'[p].pc = "none"
         /\ \A q \in Pids : q # p => proc'[q] = proc[q]
  BY DEF DaemonTypes, Daemon!Exit, Daemon!Dead

\* A process that ends leaves the invariant as it is.
LEMMA Ends ==
  ASSUME DaemonInv, NEW p \in Pids, Daemon!Exit(p), UNCHANGED << pidfile, gone >>
  PROVE  DaemonInv'
<1>1. /\ DaemonTypes' /\ proc'[p].pc = "none" /\ \A q \in Pids : q # p => proc'[q] = proc[q]
  BY ExitFacts DEF DaemonInv
<1>2. "none" \notin Commanding /\ "none" \notin Up /\ "none" \notin {"open", "write"}
      /\ "none" \notin {"waiting", "restarting"} /\ "none" # "run"
  BY DEF Commanding, Up
<1>3. NamedUp'
  BY <1>1, <1>2 DEF DaemonInv, NamedUp
<1>4. OneCommand'
  BY <1>1, <1>2 DEF DaemonInv, OneCommand
<1>5. Stopped'
  BY <1>1, <1>2 DEF DaemonInv, Stopped
<1> QED
  BY <1>1, <1>3, <1>4, <1>5 DEF DaemonInv

\* A command is given, or another program started: only when no command is
\* under way, or none at all.
LEMMA SpawnStep ==
  ASSUME DaemonInv, NEW p \in Pids, NEW a \in {"start", "stop", "restart"}, Daemon!Spawn(p, a)
  PROVE  DaemonInv'
<1>1. /\ proc[p].exe = "none"
      /\ proc' = [proc EXCEPT ![p] = [exe |-> "daemon", pc |-> a, target |-> Daemon!Nobody, sig |-> FALSE]]
      /\ gone' = Daemon!Nobody /\ UNCHANGED pidfile
  <2>1. PICK r : r = [Daemon!Dead EXCEPT !.exe = "daemon", !.pc = a]
    OBVIOUS
  <2>2. r = [exe |-> "daemon", pc |-> a, target |-> Daemon!Nobody, sig |-> FALSE]
    BY <2>1 DEF Daemon!Dead
  <2>3. proc[p].exe = "none" /\ proc' = [proc EXCEPT ![p] = r] /\ gone' = Daemon!Nobody /\ UNCHANGED pidfile
    BY <2>1 DEF Daemon!Spawn, Daemon!Alive
  <2> QED
    BY <2>2, <2>3
<1>2. \A q \in Pids : proc[q].pc \notin Commanding /\ proc[q].pc # "unlink"
  BY DEF Daemon!Spawn, Daemon!Commands, DaemonInv, DaemonTypes, Commanding
<1>3. /\ DaemonTypes' /\ proc'[p].pc = a
      /\ \A q \in Pids : q # p => proc'[q] = proc[q]
  BY <1>1 DEF DaemonInv, DaemonTypes, Commanding
<1>4. NamedUp'
  BY <1>1, <1>3 DEF DaemonInv, NamedUp, Up
<1>5. OneCommand'
  BY <1>2, <1>3 DEF OneCommand, Commanding
<1>6. Stopped'
  BY <1>1 DEF Stopped
<1> QED
  BY <1>3, <1>4, <1>5, <1>6 DEF DaemonInv

\* A process that is no daemon takes a pid that is free.
LEMMA OtherStep ==
  ASSUME DaemonInv, NEW p \in Pids, Daemon!OtherProgram(p)
  PROVE  DaemonInv'
<1>1. /\ proc[p].exe = "none" /\ UNCHANGED << pidfile, gone >>
      /\ proc' = [proc EXCEPT ![p] = [exe |-> "other", pc |-> "none", target |-> Daemon!Nobody, sig |-> FALSE]]
  <2>1. PICK r : r = [Daemon!Dead EXCEPT !.exe = "other"]
    OBVIOUS
  <2>2. r = [exe |-> "other", pc |-> "none", target |-> Daemon!Nobody, sig |-> FALSE]
    BY <2>1 DEF Daemon!Dead
  <2>3. proc[p].exe = "none" /\ proc' = [proc EXCEPT ![p] = r] /\ UNCHANGED << pidfile, gone >>
    BY <2>1 DEF Daemon!OtherProgram, Daemon!Alive
  <2> QED
    BY <2>2, <2>3
<1>2. /\ DaemonTypes' /\ proc'[p].pc = "none"
      /\ \A q \in Pids : q # p => proc'[q] = proc[q]
  BY <1>1 DEF DaemonInv, DaemonTypes, Commanding
<1>3. "none" \notin Commanding /\ "none" \notin Up /\ "none" \notin {"open", "write"}
      /\ "none" \notin {"waiting", "restarting"} /\ "none" # "run"
  BY DEF Commanding, Up
<1>4. NamedUp' /\ OneCommand' /\ Stopped'
  BY <1>1, <1>2, <1>3 DEF DaemonInv, NamedUp, OneCommand, Stopped
<1> QED
  BY <1>2, <1>4 DEF DaemonInv

\* A start that goes on, or a restart that finds nothing to stop, finds no
\* daemon up: the one that is up is named by the file, and alive.
LEMMA NothingUp ==
  ASSUME DaemonInv, NEW q \in Pids, proc[q].pc \in Up
  PROVE  Daemon!Named /\ pidfile = q /\ Daemon!Alive(pidfile) /\ proc[pidfile].exe = "daemon"
<1>1. pidfile = q
  BY DEF DaemonInv, NamedUp
<1>2. proc[q].exe = "daemon"
  BY DEF DaemonInv, DaemonTypes, Up
<1> QED
  BY <1>1, <1>2 DEF Daemon!Named, Daemon!Alive

\* Moving on to open the pid file.
LEMMA OpensFile ==
  ASSUME DaemonInv, NEW p \in Pids, proc[p].pc \in Commanding, Daemon!Go(p, "open"),
         \A q \in Pids : proc[q].pc \notin Up, UNCHANGED << pidfile, gone >>
  PROVE  DaemonInv'
<1>1. "open" \in Commanding /\ "open" \notin Up /\ proc[p].pc # "none"
  BY DEF Commanding, Up
<1>2. /\ DaemonTypes' /\ proc'[p].pc = "open"
      /\ \A q \in Pids : proc'[q].target = proc[q].target /\ (q # p => proc'[q].pc = proc[q].pc)
  BY <1>1, GoFacts DEF DaemonInv
<1>3. \A q \in Pids : proc'[q].pc \notin Up
  BY <1>1, <1>2
<1>4. \A q \in Pids : proc'[q].pc \in Commanding => q = p
  BY <1>2 DEF DaemonInv, OneCommand
<1>5. \A q \in Pids : q # p => proc[q].pc \notin Commanding
  BY DEF DaemonInv, OneCommand
<1>6. NamedUp'
  BY <1>3 DEF NamedUp
<1>7. OneCommand'
  BY <1>2, <1>3, <1>4, <1>5 DEF OneCommand, Commanding
<1>8. Stopped'
  BY DEF DaemonInv, Stopped
<1> QED
  BY <1>2, <1>6, <1>7, <1>8 DEF DaemonInv

\* process_start goes on only when nothing is up.
LEMMA StartStep ==
  ASSUME DaemonInv, NEW p \in Pids, Daemon!ProcessStart(p)
  PROVE  DaemonInv'
<1>1. proc[p].pc = "start" /\ UNCHANGED << pidfile, gone >>
  BY DEF Daemon!ProcessStart
<1>2. CASE Daemon!Exit(p)
  BY <1>1, <1>2, Ends
<1>3. CASE ~ Daemon!Exit(p)
  <2>1. Daemon!Go(p, "open") /\ ~ (Daemon!Named /\ Daemon!Alive(pidfile) /\ proc[pidfile].exe = "daemon")
    BY <1>3 DEF Daemon!ProcessStart
  <2>2. \A q \in Pids : proc[q].pc \notin Up
    BY <2>1, NothingUp
  <2>3. proc[p].pc \in Commanding
    BY <1>1 DEF Commanding
  <2> QED
    BY <1>1, <2>1, <2>2, <2>3, OpensFile
<1> QED
  BY <1>2, <1>3

\* write_to_pid_file: nobody is up meanwhile.
LEMMA WriteStep ==
  ASSUME DaemonInv, NEW p \in Pids, Daemon!OpenPidFile(p) \/ Daemon!WritePidFile(p)
  PROVE  DaemonInv'
<1>1. proc[p].pc \in {"open", "write"} /\ UNCHANGED gone
  BY DEF Daemon!OpenPidFile, Daemon!WritePidFile
<1>2. proc[p].pc \in Commanding /\ proc[p].pc # "none"
  BY <1>1 DEF Commanding
<1>3. /\ \A q \in Pids : proc[q].pc \notin Up
      /\ \A q \in Pids : q # p => proc[q].pc \notin Commanding
      /\ gone = Daemon!Nobody
  BY <1>1, <1>2 DEF DaemonInv, OneCommand, Stopped
<1>4. CASE Daemon!OpenPidFile(p)
  <2>1. Daemon!Go(p, "write")
    BY <1>4 DEF Daemon!OpenPidFile
  <2>2. /\ DaemonTypes' /\ proc'[p].pc = "write"
        /\ \A q \in Pids : proc'[q].target = proc[q].target /\ (q # p => proc'[q].pc = proc[q].pc)
    BY <1>2, <2>1, GoFacts DEF DaemonInv, Commanding
  <2>3. NamedUp' /\ OneCommand'
    BY <1>3, <2>2 DEF NamedUp, OneCommand, Commanding, Up
  <2>4. Stopped'
    BY <1>1, <1>3 DEF Stopped
  <2> QED
    BY <2>2, <2>3, <2>4 DEF DaemonInv
<1>5. CASE Daemon!WritePidFile(p)
  <2>1. Daemon!Go(p, "run") /\ pidfile' = p
    BY <1>5 DEF Daemon!WritePidFile
  <2>2. /\ DaemonTypes' /\ proc'[p].pc = "run"
        /\ \A q \in Pids : proc'[q].target = proc[q].target /\ (q # p => proc'[q].pc = proc[q].pc)
    BY <1>2, <2>1, GoFacts DEF DaemonInv, Up
  <2>3. NamedUp' /\ OneCommand'
    BY <1>3, <2>1, <2>2 DEF NamedUp, OneCommand, Commanding, Up
  <2>4. Stopped'
    BY <1>1, <1>3 DEF Stopped
  <2> QED
    BY <2>2, <2>3, <2>4 DEF DaemonInv
<1> QED
  BY <1>4, <1>5

\* do_stop: a stop or a restart that finds a process waits for it.
LEMMA StopStep ==
  ASSUME DaemonInv, NEW p \in Pids, Daemon!DoStop(p)
  PROVE  DaemonInv'
<1>1. proc[p].pc \in {"stop", "restart"} /\ UNCHANGED << pidfile, gone >>
  BY DEF Daemon!DoStop
<1>2. proc[p].pc \in Commanding
  BY <1>1 DEF Commanding
<1>3. CASE Daemon!Named /\ Daemon!Alive(pidfile)
  <2>1. PICK x \in {"waiting", "restarting"} :
          proc' = [proc EXCEPT ![p].target = pidfile, ![p].pc = x, ![pidfile].sig = TRUE]
    BY <1>3 DEF Daemon!DoStop, DaemonInv, DaemonTypes
  <2>2. pidfile \in Pids
    BY <1>3 DEF Daemon!Named
  <2>3. /\ proc' \in [Pids -> [exe : {"none", "daemon", "other"}, pc : Commanding \cup Up \cup {"none"},
                        target : Pids \cup {Daemon!Nobody}, sig : BOOLEAN]]
        /\ proc'[p].pc = x /\ proc'[p].target = pidfile /\ proc'[p].exe = proc[p].exe
        /\ \A q \in Pids : q # p => /\ proc'[q].pc = proc[q].pc /\ proc'[q].exe = proc[q].exe
                                    /\ proc'[q].target = proc[q].target
    <3> DEFINE R == [exe : {"none", "daemon", "other"}, pc : Commanding \cup Up \cup {"none"},
                     target : Pids \cup {Daemon!Nobody}, sig : BOOLEAN]
    <3>1. PICK g : g = [proc EXCEPT ![p].target = pidfile]
      OBVIOUS
    <3>2. PICK f : f = [g EXCEPT ![p].pc = x]
      OBVIOUS
    <3>3. proc' = [f EXCEPT ![pidfile].sig = TRUE]
      BY <2>1, <3>1, <3>2
    <3>4. proc \in [Pids -> R]
      BY DEF DaemonInv, DaemonTypes
    <3>5. /\ g \in [Pids -> R] /\ g[p].target = pidfile /\ g[p].exe = proc[p].exe
          /\ \A q \in Pids : q # p => g[q] = proc[q]
      BY <2>2, <3>1, <3>4
    <3>6. /\ f \in [Pids -> R] /\ f[p].pc = x /\ f[p].target = pidfile /\ f[p].exe = proc[p].exe
          /\ \A q \in Pids : q # p => f[q] = proc[q]
      BY <3>2, <3>5 DEF Commanding
    <3>7. /\ proc' \in [Pids -> R]
          /\ \A q \in Pids : /\ proc'[q].pc = f[q].pc /\ proc'[q].exe = f[q].exe
                             /\ proc'[q].target = f[q].target
      <4>1. PICK t \in Pids : t = pidfile
        BY <2>2
      <4>2. proc' = [f EXCEPT ![t].sig = TRUE]
        BY <3>3, <4>1
      <4>3. proc' \in [Pids -> R]
        BY <3>6, <4>2
      <4>4. /\ \A q \in Pids : q # t => proc'[q] = f[q]
            /\ proc'[t].pc = f[t].pc /\ proc'[t].exe = f[t].exe /\ proc'[t].target = f[t].target
        BY <3>6, <4>2
      <4> QED
        BY <4>3, <4>4
    <3> QED
      BY <3>6, <3>7
  <2>4. DaemonTypes'
    BY <1>1, <2>3 DEF DaemonInv, DaemonTypes
  <2>5. \A q \in Pids : q # p => proc[q].pc \notin Commanding
    BY <1>2 DEF DaemonInv, OneCommand
  <2>6. \A q \in Pids : proc[q].pc \in Up => q = pidfile
    BY DEF DaemonInv, NamedUp
  <2>7. NamedUp'
    BY <1>1, <2>3, <2>6 DEF NamedUp, Up
  <2>8. OneCommand'
    BY <2>2, <2>3, <2>5, <2>6 DEF OneCommand, Commanding, Up
  <2>9. Stopped'
    BY <1>1, <1>2 DEF DaemonInv, Stopped
  <2> QED
    BY <2>4, <2>7, <2>8, <2>9 DEF DaemonInv
<1>4. CASE ~ (Daemon!Named /\ Daemon!Alive(pidfile))
  <2>1. Daemon!Go(p, "open") \/ Daemon!Exit(p)
    BY <1>4 DEF Daemon!DoStop
  <2>2. \A q \in Pids : proc[q].pc \notin Up
    BY <1>4, NothingUp
  <2> QED
    BY <1>1, <1>2, <2>1, <2>2, OpensFile, Ends
<1> QED
  BY <1>3, <1>4

\* A stop or a restart goes on when nobody has the pid it waits for.
LEMMA WaitStep ==
  ASSUME DaemonInv, NEW p \in Pids, Daemon!Wait(p)
  PROVE  DaemonInv'
<1>1. proc[p].pc \in {"waiting", "restarting"} /\ UNCHANGED pidfile
  BY DEF Daemon!Wait
<1>2. proc[p].pc \in Commanding
  BY <1>1 DEF Commanding
<1>3. PICK t \in Pids : t = proc[p].target /\ \A q \in Pids : proc[q].pc \in Up => q = t
  BY <1>1 DEF DaemonInv, OneCommand
<1>4. CASE proc' = [proc EXCEPT ![t].sig = TRUE] /\ UNCHANGED gone
  <2>1. /\ proc' \in [Pids -> [exe : {"none", "daemon", "other"}, pc : Commanding \cup Up \cup {"none"},
                        target : Pids \cup {Daemon!Nobody}, sig : BOOLEAN]]
        /\ \A q \in Pids : /\ proc'[q].pc = proc[q].pc /\ proc'[q].exe = proc[q].exe
                           /\ proc'[q].target = proc[q].target
    BY <1>4 DEF DaemonInv, DaemonTypes
  <2>2. DaemonTypes'
    BY <2>1 DEF DaemonInv, DaemonTypes
  <2>3. NamedUp' /\ OneCommand' /\ Stopped'
    BY <1>1, <1>4, <2>1 DEF DaemonInv, NamedUp, OneCommand, Stopped
  <2> QED
    BY <2>2, <2>3 DEF DaemonInv
<1>5. CASE proc[t].exe = "none" /\ Daemon!Exit(p) /\ gone' = t
  <2>1. /\ DaemonTypes' /\ proc'[p].pc = "none" /\ \A q \in Pids : q # p => proc'[q] = proc[q]
    BY <1>5, ExitFacts DEF DaemonInv
  <2>2. proc[t].pc \notin Up
    BY <1>5 DEF DaemonInv, DaemonTypes, Up
  <2>3. \A q \in Pids : proc[q].pc \notin Up
    BY <1>3, <2>2
  <2>4. \A q \in Pids : q # p => proc[q].pc \notin Commanding
    BY <1>2 DEF DaemonInv, OneCommand
  <2>5. \A q \in Pids : proc'[q].pc \notin Commanding /\ proc'[q].pc \notin Up
    BY <2>1, <2>3, <2>4 DEF Commanding, Up
  <2>6. NamedUp' /\ OneCommand' /\ Stopped'
    BY <2>5 DEF NamedUp, OneCommand, Stopped, Commanding, Up
  <2> QED
    BY <2>1, <2>6 DEF DaemonInv
<1>6. CASE proc[t].exe = "none" /\ Daemon!Go(p, "open") /\ UNCHANGED gone
  <2>1. proc[t].pc \notin Up
    BY <1>6 DEF DaemonInv, DaemonTypes, Up
  <2>2. \A q \in Pids : proc[q].pc \notin Up
    BY <1>3, <2>1
  <2> QED
    BY <1>1, <1>2, <1>6, <2>2, OpensFile
<1> QED
  BY <1>1, <1>3, <1>4, <1>5, <1>6 DEF Daemon!Wait, Daemon!Alive

\* The daemon ends: it removes the file only when the file names it, and then
\* no other daemon is up.
LEMMA TerminateStep ==
  ASSUME DaemonInv, NEW p \in Pids, Daemon!Terminate(p) \/ Daemon!DeletePidFile(p)
  PROVE  DaemonInv'
<1>1. CASE Daemon!Terminate(p)
  <2>1. proc[p].pc = "run" /\ UNCHANGED << pidfile, gone >> /\ pidfile = p
    BY <1>1 DEF Daemon!Terminate, DaemonInv, NamedUp, Up
  <2>2. Daemon!Go(p, "unlink")
    BY <1>1, <2>1 DEF Daemon!Terminate
  <2>3. /\ DaemonTypes' /\ proc'[p].pc = "unlink"
        /\ \A q \in Pids : proc'[q].target = proc[q].target /\ (q # p => proc'[q].pc = proc[q].pc)
    BY <2>1, <2>2, GoFacts DEF DaemonInv, Up
  <2>4. NamedUp'
    BY <2>1, <2>3 DEF DaemonInv, NamedUp
  <2>5. OneCommand'
    BY <2>1, <2>3 DEF DaemonInv, OneCommand, Commanding, Up
  <2>6. Stopped'
    BY <2>1, <2>3 DEF DaemonInv, Stopped, Commanding
  <2> QED
    BY <2>3, <2>4, <2>5, <2>6 DEF DaemonInv
<1>2. CASE Daemon!DeletePidFile(p)
  <2>1. proc[p].pc = "unlink" /\ Daemon!Exit(p) /\ UNCHANGED gone
    BY <1>2 DEF Daemon!DeletePidFile
  <2>2. /\ DaemonTypes' /\ proc'[p].pc = "none" /\ \A q \in Pids : q # p => proc'[q] = proc[q]
    BY <2>1, ExitFacts DEF DaemonInv
  <2>3. \A q \in Pids : q # p => proc[q].pc \notin Up
    BY <2>1 DEF DaemonInv, NamedUp, Up
  <2>4. NamedUp'
    BY <2>2, <2>3 DEF NamedUp, Up
  <2>5. OneCommand'
    BY <2>2 DEF DaemonInv, OneCommand, Commanding, Up
  <2>6. Stopped'
    BY <2>1, <2>2 DEF DaemonInv, Stopped, Commanding
  <2> QED
    BY <2>2, <2>4, <2>5, <2>6 DEF DaemonInv
<1> QED
  BY <1>1, <1>2

\* At first there is no process and no pid file.
LEMMA DaemonStarts ==
  ASSUME Daemon!Init
  PROVE  DaemonInv
<1>1. \A p \in Pids : proc[p] = [exe |-> "none", pc |-> "none", target |-> Daemon!Nobody, sig |-> FALSE]
  BY DEF Daemon!Init, Daemon!Dead
<1>2. DaemonTypes
  BY DEF Daemon!Init, Daemon!Dead, DaemonTypes
<1> QED
  BY <1>1, <1>2 DEF Daemon!Init, DaemonInv, NamedUp, OneCommand, Stopped, Commanding, Up

\* Every step of a process keeps the invariant.
LEMMA DaemonNext ==
  ASSUME DaemonInv, Daemon!Next
  PROVE  DaemonInv'
<1>1. PICK p \in Pids :
        \/ \E a \in {"start", "stop", "restart"} : Daemon!Spawn(p, a)
        \/ Daemon!ProcessStart(p) \/ Daemon!OpenPidFile(p) \/ Daemon!WritePidFile(p)
        \/ Daemon!DoStop(p) \/ Daemon!Wait(p) \/ Daemon!Terminate(p) \/ Daemon!DeletePidFile(p)
        \/ Daemon!Killed(p) \/ Daemon!OtherProgram(p)
  BY DEF Daemon!Next
<1>2. CASE Daemon!Killed(p)
  BY <1>2, Ends DEF Daemon!Killed
<1> QED
  BY <1>1, <1>2, SpawnStep, StartStep, WriteStep, StopStep, WaitStep, TerminateStep, OtherStep

\* The invariant gives what ProcessCtrl states.
LEMMA DaemonMeans ==
  ASSUME DaemonInv
  PROVE  Daemon!Sound
<1>1. \A p, q \in Daemon!Running : p = q
  BY DEF Daemon!Running, DaemonInv, NamedUp, Up
<1>2. Cardinality(Daemon!Running) <= 1
  <2>1. CASE Daemon!Running = {}
    BY <2>1, FS_EmptySet
  <2>2. CASE Daemon!Running # {}
    <3>1. PICK p : Daemon!Running = {p}
      BY <1>1, <2>2
    <3> QED
      BY <3>1, FS_Singleton
  <2> QED
    BY <2>1, <2>2
<1>3. Daemon!Cardinality(Daemon!Running) = Cardinality(Daemon!Running)
  BY DEF Daemon!Cardinality, Cardinality
<1>4. \A p \in Daemon!Running : pidfile = p
  BY DEF Daemon!Running, DaemonInv, NamedUp, Up
<1>5. gone # Daemon!Nobody => gone \notin Daemon!Running
  BY DEF Daemon!Running, DaemonInv, Stopped
<1> QED
  BY <1>2, <1>3, <1>4, <1>5 DEF Daemon!Sound
-----------------------------------------------------------------------------
\* A step of the services is a step of the file, of the serials, of the daemon,
\* or does not touch them.
LEMMA FileUnits ==
  ASSUME [ServicesNext]_allVars
  PROVE  /\ Files!Next \/ UNCHANGED fileVars
         /\ Serials!Next \/ UNCHANGED serialVars
         /\ Daemon!Next \/ UNCHANGED daemonVars
  BY DEF ServicesNext, allVars, InSchedule, InTransfer, InLoop, InRequest, FilesStep, SerialsStep,
         DaemonStep

\* A step elsewhere keeps the three invariants.
LEMMA Untouched ==
  /\ FileInv /\ UNCHANGED fileVars => FileInv'
  /\ SerialInv /\ UNCHANGED serialVars => SerialInv'
  /\ DaemonInv /\ UNCHANGED daemonVars => DaemonInv'
<1>1. FileInv /\ UNCHANGED fileVars => FileInv'
  BY DEF fileVars, FileInv, FileTypes, Kept, Now, Stands, Written, BeingRead, Whole
<1>2. SerialInv /\ UNCHANGED serialVars => SerialInv'
  BY DEF serialVars, SerialInv, SerialTypes, Locked, Distinct, Drawn, Serials!Id,
         Serials!MaskedMid, Serials!ExtraPart, Serials!SnPart
<1>3. DaemonInv /\ UNCHANGED daemonVars => DaemonInv'
  BY DEF daemonVars, DaemonInv, DaemonTypes, NamedUp, OneCommand, Stopped
<1> QED
  BY <1>1, <1>2, <1>3

\* For any inodes, versions, callers and processes: whatever fails and whenever
\* the writer dies, safeWriteToFile (shared_func.c) leaves the version last
\* reported written, or a later one, whole; when the power fails, the directory,
\* which it does not force out, may be any since the failure before, and the file
\* is then a whole version reported in that time or the one it began with, not
\* always the last; no serial number of id_generator.c is given to two
\* calls and its ids hold their parts; and the pid file of process_ctrl.c names
\* the one daemon that is up, as long as one command is given at a time.
THEOREM FilesAllSound == ServicesSpec => []FilesSound
<1> DEFINE Inv == FileInv /\ SerialInv /\ DaemonInv
<1>0. FileConstants /\ SerialConstants
  BY ServicesAssumption
<1>1. ServicesInit => Inv
  BY <1>0, FileStarts, SerialStarts, DaemonStarts DEF ServicesInit
<1>2. Inv /\ [ServicesNext]_allVars => Inv'
  <2>1. SUFFICES ASSUME Inv, [ServicesNext]_allVars PROVE Inv'
    OBVIOUS
  <2>2. FileInv'
    BY <1>0, <2>1, FileUnits, FileNext, Untouched
  <2>3. SerialInv'
    BY <1>0, <2>1, FileUnits, SerialNext, Untouched
  <2>4. DaemonInv'
    BY <2>1, FileUnits, DaemonNext, Untouched
  <2> QED
    BY <2>2, <2>3, <2>4
<1>3. Inv => FilesSound
  BY <1>0, FileMeans, SerialMeans, DaemonMeans DEF FilesSound
<1> QED
  BY <1>1, <1>2, <1>3, PTL DEF ServicesSpec

-----------------------------------------------------------------------------
(* Sockets: one file from the sender to the receiver.                      *)

\* How many units go over the wire, with the trailer of an infinite file.
Total == Len(Transfer!Units)

SendResults == {"none", "ok", "open", "fcntl", "read", "restore", "EINTR",
                "ENOTCONN", "ETIMEDOUT", "EPIPE"}
RecvResults == {"none", "ok", "open", "write", "fsync", "read_open", "lseek", "ftruncate",
                "EINVAL", "ENOTCONN", "ETIMEDOUT", "ECONNRESET"}
Senders   == [pc : {"open", "part", "poll", "send", "sendfile", "done"}, left : Nat, part : Nat,
              remain : Nat, total : Int, result : SendResults, restore : BOOLEAN]
Receivers == [pc : {"open", "fill", "poll", "recv", "store", "trailer", "done"}, remain : Nat,
              want : Nat, buf : Seq(Nat), unsynced : Nat, total : Nat, result : RecvResults]
Clients   == [pc : {"create", "connect", "poll", "connected", "done"}, open : BOOLEAN,
              nonblock : BOOLEAN, result : {"none", "ok", "create", "ECONNREFUSED", "EACCES",
                                            "ECONNRESET", "ETIMEDOUT", "EINTR"}]

TransferTypes ==
  /\ mode \in Transfer!Modes
  /\ cl \in Clients /\ tx \in Senders /\ rx \in Receivers
  /\ wire \in Seq(Nat)
  /\ disk \in [exists : BOOLEAN, data : Seq(Nat)]

\* The client's socket is open until it has failed or the sender is done; the
\* sender works on a connected socket.
Connecting ==
  /\ cl.pc \in {"create", "done"} => ~ cl.open
  /\ tx.pc # "open" => cl.pc = "connected"
  /\ cl.pc = "connected" /\ tx.pc # "sendfile" /\ tx.result # "restore" =>
       cl.nonblock = mode.sendNb

\* Where the sender is in the file, and what it has to give back.
SenderAt ==
  /\ tx.pc # "open" => tx.left <= tx.remain /\ tx.remain <= Total
  /\ tx.pc = "open" => tx.result = "none"
  /\ tx.pc = "part" => tx.remain = tx.left
  /\ tx.pc = "sendfile" <=> mode.send = "sendfile" /\ tx.pc \notin {"open", "done"}
  /\ tx.pc \in {"poll", "send"} => tx.part \in 1 .. tx.left
  /\ tx.pc = "sendfile" => /\ tx.restore = mode.sendNb /\ ~ cl.nonblock
                           /\ tx.result \in {"none", "EINTR"}
  /\ tx.pc \in {"open", "part", "poll", "send"} => ~ tx.restore
  /\ tx.pc # "done" => tx.result \notin {"ok", "restore"}
  /\ tx.pc = "open" => "send" \notin fds
  /\ tx.pc = "done" => /\ tx.result = "ok" => tx.left = 0
                       /\ mode.send = "read" => /\ tx.total <= Total - tx.left
                                                /\ tx.result = "ok" => tx.total = Total
                       /\ "send" \in fds => tx.result = "fcntl"

\* How many units were sent, and how many of them the receiver has taken.
SentUnits  == IF tx.pc = "open" THEN 0 ELSE Total - tx.left
TakenUnits == rx.total + Len(rx.buf)

\* The wire holds what was sent and not taken, as long as nobody reset it.
Stream ==
  /\ tx.pc = "open" => wire = << >>
  /\ rx.pc # "done" =>
       /\ TakenUnits <= SentUnits
       /\ link # "reset" => wire = SubSeq(Transfer!Units, TakenUnits + 1, SentUnits)

\* What the receiver is to take in all.
Goal == IF mode.recv = "infinite" THEN Transfer!Infinite ELSE Len(SentFile)

\* Where the receiver is in the file; the disk and the buffer hold the units it
\* has taken.
ReceiverAt ==
  /\ rx.pc = "open" => rx.total = 0 /\ rx.buf = << >> /\ ~ disk.exists /\ disk.data = << >>
  /\ rx.pc = "open" \/ mode.recv = "discard" => fds \cap {"write", "read"} = {}
  /\ "read" \notin fds
  /\ rx.pc \in {"fill", "trailer"} => rx.buf = << >>
  /\ rx.pc \in {"fill", "poll", "recv", "store"} => rx.remain + rx.total = Goal
  /\ rx.pc \in {"poll", "recv", "store"} =>
       /\ rx.want \in 1 .. rx.remain /\ Len(rx.buf) <= rx.want
       /\ rx.pc # "store" => Len(rx.buf) < rx.want
  /\ rx.pc = "trailer" => mode.recv = "infinite" /\ rx.result # "ok"
  /\ rx.pc # "done" =>
       /\ rx.result # "read_open"
       /\ rx.buf = SubSeq(Transfer!Units, rx.total + 1, TakenUnits)
       /\ rx.pc # "open" /\ mode.recv # "discard" =>
            disk.exists /\ disk.data = SubSeq(Transfer!Units, 1, rx.total)
  /\ rx.pc = "done" =>
       /\ Transfer!Received
       /\ fds \cap {"write", "read"} # {} => rx.result = "read_open"

TransferInv == TransferTypes /\ Connecting /\ SenderAt /\ Stream /\ ReceiverAt

\* What SubSeq makes of a stream: its length, a part taken off its front, what
\* is left behind that part, and one more part put on its end.
LEMMA Stretch ==
  ASSUME NEW S, NEW s \in Seq(S), NEW a \in Nat, NEW b \in Nat, a <= b, b <= Len(s)
  PROVE  /\ SubSeq(s, a + 1, b) \in Seq(S)
         /\ Len(SubSeq(s, a + 1, b)) = b - a
         /\ \A i \in 1 .. b - a : SubSeq(s, a + 1, b)[i] = s[a + i]
<1>1. \A i \in a + 1 .. b : s[i] \in S
  OBVIOUS
<1>2. /\ SubSeq(s, a + 1, b) \in Seq(S)
      /\ Len(SubSeq(s, a + 1, b)) = IF a + 1 <= b THEN b - (a + 1) + 1 ELSE 0
      /\ \A i \in 1 .. b - (a + 1) + 1 : SubSeq(s, a + 1, b)[i] = s[a + 1 + i - 1]
  BY <1>1, SubSeqProperties
<1> QED
  BY <1>2

\* One more stretch of a stream, put behind the last.
LEMMA StretchJoined ==
  ASSUME NEW S, NEW s \in Seq(S), NEW a \in Nat, NEW b \in Nat, NEW c \in Nat,
         a <= b, b <= c, c <= Len(s)
  PROVE  SubSeq(s, a + 1, b) \o SubSeq(s, b + 1, c) = SubSeq(s, a + 1, c)
<1>1. /\ a + 1 \in 1 .. Len(s) + 1 /\ b \in a + 1 - 1 .. Len(s) /\ c \in b .. Len(s)
  BY LenProperties
<1> QED
  BY <1>1, ConcatAdjacentSubSeq

\* The first k of a stretch, and the rest of it.
LEMMA StretchCut ==
  ASSUME NEW S, NEW s \in Seq(S), NEW a \in Nat, NEW b \in Nat, a <= b, b <= Len(s),
         NEW k \in 0 .. b - a
  PROVE  /\ SubSeq(SubSeq(s, a + 1, b), 1, k) = SubSeq(s, a + 1, a + k)
         /\ SubSeq(SubSeq(s, a + 1, b), k + 1, b - a) = SubSeq(s, a + k + 1, b)
<1> DEFINE w == SubSeq(s, a + 1, b)
<1>1. w \in Seq(S) /\ Len(w) = b - a /\ \A i \in 1 .. b - a : w[i] = s[a + i]
  BY Stretch
<1>2. /\ a + k \in Nat /\ a + k <= b /\ a + k <= Len(s)
      /\ k \in Nat /\ b - a \in Nat /\ k <= b - a
  BY LenProperties
<1>3. /\ SubSeq(s, a + 1, a + k) \in Seq(S) /\ Len(SubSeq(s, a + 1, a + k)) = k
      /\ \A i \in 1 .. k : SubSeq(s, a + 1, a + k)[i] = s[a + i]
  <2>1. a + k - a = k
    BY <1>2
  <2> QED
    BY <1>2, <2>1, Stretch
<1>4. /\ SubSeq(s, a + k + 1, b) \in Seq(S) /\ Len(SubSeq(s, a + k + 1, b)) = b - (a + k)
      /\ \A i \in 1 .. b - (a + k) : SubSeq(s, a + k + 1, b)[i] = s[a + k + i]
  BY <1>2, Stretch
<1> HIDE DEF w
<1>5. /\ SubSeq(w, 1, k) \in Seq(S) /\ Len(SubSeq(w, 1, k)) = k
      /\ \A i \in 1 .. k : SubSeq(w, 1, k)[i] = w[i]
  <2>1. \A i \in 1 .. k : w[i] \in S
    BY <1>1, <1>2
  <2>2. /\ SubSeq(w, 1, k) \in Seq(S)
        /\ Len(SubSeq(w, 1, k)) = IF 1 <= k THEN k - 1 + 1 ELSE 0
        /\ \A i \in 1 .. k - 1 + 1 : SubSeq(w, 1, k)[i] = w[1 + i - 1]
    BY <1>2, <2>1, SubSeqProperties
  <2> QED
    BY <1>2, <2>2
<1>6. /\ SubSeq(w, k + 1, b - a) \in Seq(S) /\ Len(SubSeq(w, k + 1, b - a)) = b - a - k
      /\ \A i \in 1 .. b - a - k : SubSeq(w, k + 1, b - a)[i] = w[k + i]
  BY <1>1, <1>2, Stretch
<1>7. SubSeq(w, 1, k) = SubSeq(s, a + 1, a + k)
  <2>1. \A i \in 1 .. k : SubSeq(w, 1, k)[i] = SubSeq(s, a + 1, a + k)[i]
    BY <1>1, <1>2, <1>3, <1>5
  <2> QED
    BY <1>3, <1>5, <2>1, SeqEqual
<1>8. SubSeq(w, k + 1, b - a) = SubSeq(s, a + k + 1, b)
  <2>1. b - (a + k) = b - a - k
    BY <1>2
  <2>2. \A i \in 1 .. b - a - k : SubSeq(w, k + 1, b - a)[i] = SubSeq(s, a + k + 1, b)[i]
    <3>1. TAKE i \in 1 .. b - a - k
    <3>2. k + i \in 1 .. b - a /\ a + (k + i) = a + k + i
      BY <1>2
    <3> QED
      BY <1>1, <1>4, <1>6, <2>1, <3>2
  <2> QED
    BY <1>4, <1>6, <2>1, <2>2, SeqEqual
<1> QED
  BY <1>7, <1>8 DEF w

\* The units of a transfer: those of the file, and in an infinite file their
\* number behind them.  A unit that holds the number of those before it is an end
\* for the receiver.
LEMMA UnitsFacts ==
  ASSUME TransferConstants
  PROVE  /\ Transfer!Units \in Seq(Nat) /\ Total \in Nat /\ Total < Transfer!Infinite
         /\ Len(SentFile) \in Nat /\ Len(SentFile) <= Total
         /\ \A m \in 0 .. Len(SentFile) : SubSeq(SentFile, 1, m) = SubSeq(Transfer!Units, 1, m)
         /\ mode.recv # "infinite" => Total = Len(SentFile) /\ Transfer!EndsAt = {Len(SentFile)}
         /\ mode.recv = "infinite" =>
              \A m \in Nat : m < Total /\ Transfer!Units[m + 1] = m =>
                m \in Transfer!EndsAt /\ m <= Len(SentFile)
<1> DEFINE n == Len(SentFile)
<1>1. n \in Nat /\ SentFile \in Seq(Nat) /\ \A i \in 1 .. n : SentFile[i] \in Nat
  BY LenProperties DEF TransferConstants
<1>2. n + 1 < Transfer!Infinite /\ Transfer!Infinite \in Nat
  BY DEF TransferConstants, Transfer!Infinite
<1>3. CASE mode.recv # "infinite"
  <2>1. Transfer!Units = SentFile /\ Transfer!EndsAt = {n}
    BY <1>3 DEF Transfer!Units, Transfer!EndsAt
  <2> QED
    BY <1>1, <1>2, <1>3, <2>1 DEF Total
<1>4. CASE mode.recv = "infinite"
  <2>1. Transfer!Units = Append(SentFile, n)
    BY <1>4 DEF Transfer!Units
  <2>2. PICK U : U = Append(SentFile, n)
    OBVIOUS
  <2>3. U \in Seq(Nat) /\ Len(U) = n + 1 /\ \A i \in 1 .. n : U[i] = SentFile[i]
    BY <1>1, <2>2
  <2>4. Transfer!Units = U /\ Total = n + 1
    BY <2>1, <2>2, <2>3 DEF Total
  <2>5. ASSUME NEW m \in 0 .. n PROVE SubSeq(SentFile, 1, m) = SubSeq(U, 1, m)
    <3>1. 0 \in Nat /\ m \in Nat /\ 0 <= m /\ m <= Len(U) /\ m <= Len(SentFile)
      BY <1>1, <2>3
    <3>2. /\ SubSeq(U, 0 + 1, m) \in Seq(Nat) /\ Len(SubSeq(U, 0 + 1, m)) = m - 0
          /\ \A i \in 1 .. m - 0 : SubSeq(U, 0 + 1, m)[i] = U[0 + i]
      BY <2>3, <3>1, Stretch
    <3>3. /\ SubSeq(SentFile, 0 + 1, m) \in Seq(Nat) /\ Len(SubSeq(SentFile, 0 + 1, m)) = m - 0
          /\ \A i \in 1 .. m - 0 : SubSeq(SentFile, 0 + 1, m)[i] = SentFile[0 + i]
      BY <1>1, <3>1, Stretch
    <3>4. \A i \in 1 .. m : SubSeq(SentFile, 0 + 1, m)[i] = SubSeq(U, 0 + 1, m)[i]
      <4>1. \A i \in 1 .. m : 0 + i = i /\ i \in 1 .. n
        BY <1>1, <3>1
      <4>2. m - 0 = m
        BY <3>1
      <4> QED
        BY <2>3, <3>2, <3>3, <4>1, <4>2
    <3>5. SubSeq(SentFile, 0 + 1, m) = SubSeq(U, 0 + 1, m)
      BY <3>2, <3>3, <3>4, SeqEqual
    <3> QED
      BY <3>5
  <2>6. ASSUME NEW m \in Nat, m < n + 1, Transfer!Units[m + 1] = m
        PROVE  m \in Transfer!EndsAt /\ m <= n
    BY <1>1, <1>4, <2>6 DEF Transfer!EndsAt
  <2> QED
    BY <1>1, <1>2, <1>4, <2>3, <2>4, <2>5, <2>6
<1> QED
  BY <1>3, <1>4

\* The units depend on the mode, which never changes.
LEMMA UnitsKept ==
  ASSUME mode' = mode
  PROVE  /\ Transfer!Units' = Transfer!Units /\ Total' = Total /\ Goal' = Goal
         /\ Transfer!EndsAt' = Transfer!EndsAt
BY DEF Transfer!Units, Transfer!EndsAt, Total, Goal, Transfer!Infinite

\* At first nothing was sent.
LEMMA TransferStarts ==
  ASSUME TransferConstants, Transfer!Init
  PROVE  TransferInv
<1>1. TransferTypes
  BY DEF Transfer!Init, Transfer!NotWritten, TransferTypes, Clients, Senders, Receivers, SendResults,
         RecvResults
<1>2. Connecting /\ SenderAt
  BY DEF Transfer!Init, Connecting, SenderAt
<1>3. SubSeq(Transfer!Units, 1, 0) = << >> /\ TakenUnits = 0 /\ SentUnits = 0
  BY SubSeqEmpty DEF Transfer!Init, TakenUnits, SentUnits
<1>4. Stream /\ ReceiverAt
  BY <1>3 DEF Transfer!Init, Stream, ReceiverAt
<1> QED
  BY <1>1, <1>2, <1>4 DEF TransferInv

-----------------------------------------------------------------------------
\* Setting up the connection leaves the transfer alone.
LEMMA SetUpKeeps ==
  ASSUME TransferInv, UNCHANGED << mode, wire, tx, rx, disk, fds >>,
         cl' \in Clients, Connecting', cl' = cl \/ tx.pc = "open",
         link' = "reset" \/ link # "reset" \/ tx.pc = "open"
  PROVE  TransferInv'
<1>1. TransferTypes'
  BY DEF TransferInv, TransferTypes
<1>2. /\ Transfer!Units' = Transfer!Units /\ Total' = Total /\ Goal' = Goal
      /\ Transfer!EndsAt' = Transfer!EndsAt
  BY UnitsKept
<1>3. TakenUnits' = TakenUnits /\ SentUnits' = SentUnits
  BY <1>2 DEF TakenUnits, SentUnits
<1>4. SenderAt'
  BY <1>2 DEF TransferInv, SenderAt
<1>5. Stream'
  <2>1. CASE tx.pc # "open" \/ rx.pc = "done"
    BY <1>2, <1>3, <2>1 DEF TransferInv, Stream
  <2>2. CASE tx.pc = "open" /\ rx.pc # "done"
    <3>1. SentUnits = 0 /\ wire = << >>
      BY <2>2 DEF SentUnits, TransferInv, Stream
    <3>2. TakenUnits \in Nat /\ TakenUnits <= 0
      BY <2>2, <3>1, LenProperties DEF TransferInv, TransferTypes, Receivers, Stream, TakenUnits
    <3>3. SubSeq(Transfer!Units, TakenUnits + 1, SentUnits) = << >>
      BY <3>1, <3>2, SubSeqEmpty
    <3> QED
      BY <1>2, <1>3, <3>1, <3>2, <3>3 DEF Stream
  <2> QED
    BY <2>1, <2>2
<1>6. ReceiverAt'
  BY <1>2, <1>3 DEF TransferInv, ReceiverAt, Transfer!Received, Transfer!Storing
<1> QED
  BY <1>1, <1>4, <1>5, <1>6 DEF TransferInv

\* The client and the server set the connection up.
LEMMA SetUpSteps ==
  ASSUME TransferInv, Transfer!ClientStep \/ Transfer!ServerStep
  PROVE  TransferInv'
<1>1. CASE Transfer!SocketServer
  BY <1>1, SetUpKeeps DEF Transfer!SocketServer, TransferInv, TransferTypes, Connecting
<1>2. CASE Transfer!Nbaccept
  <2>1. link' = "reset" \/ link # "reset"
    BY <1>2 DEF Transfer!Nbaccept
  <2> QED
    BY <1>2, <2>1, SetUpKeeps DEF Transfer!Nbaccept, TransferInv, TransferTypes, Connecting
<1>3. CASE Transfer!SocketCreate
  <2>1. cl' \in Clients /\ cl'.pc \in {"connect", "done"} /\ (cl'.pc = "done" => ~ cl'.open)
    BY <1>3 DEF Transfer!SocketCreate, TransferInv, TransferTypes, Clients, Connecting, Transfer!Modes
  <2>2. tx.pc = "open" /\ UNCHANGED << mode, wire, tx, rx, disk, fds, link >>
    BY <1>3 DEF Transfer!SocketCreate, TransferInv, Connecting
  <2> QED
    BY <2>1, <2>2, SetUpKeeps DEF Connecting
<1>4. ASSUME NEW res \in {"ok", "ECONNREFUSED", "EACCES", "ECONNRESET", "ETIMEDOUT", "EINTR"},
             Transfer!Connected(res), cl.pc \in {"connect", "poll"},
             UNCHANGED << mode, wire, tx, rx, disk, fds >>
      PROVE  TransferInv'
  <2>1. tx.pc = "open"
    BY <1>4 DEF TransferInv, Connecting
  <2>2. cl' \in Clients /\ cl'.pc \in {"connected", "done"} /\ (cl'.pc = "done" => ~ cl'.open)
        /\ cl'.nonblock = mode.sendNb
    BY <1>4 DEF Transfer!Connected, TransferInv, TransferTypes, Clients, Transfer!Modes
  <2> QED
    BY <1>4, <2>1, <2>2, SetUpKeeps DEF Connecting
<1>5. CASE Transfer!Connect
  <2>1. CASE cl' = [cl EXCEPT !.pc = "poll", !.nonblock = TRUE]
    <3>1. cl' \in Clients /\ cl'.pc = "poll"
      BY <2>1 DEF TransferInv, TransferTypes, Clients
    <3>2. tx.pc = "open" /\ UNCHANGED << mode, wire, tx, rx, disk, fds >>
      BY <1>5 DEF Transfer!Connect, TransferInv, Connecting
    <3> QED
      BY <3>1, <3>2, SetUpKeeps DEF Connecting
  <2> QED
    BY <1>4, <1>5, <2>1 DEF Transfer!Connect
<1>6. CASE Transfer!ConnectPoll
  BY <1>4, <1>6 DEF Transfer!ConnectPoll
<1> QED
  BY <1>1, <1>2, <1>3, <1>5, <1>6 DEF Transfer!ClientStep, Transfer!ServerStep

-----------------------------------------------------------------------------
\* A step of the sender does not touch what the receiver has.
LEMMA SenderKeeps ==
  ASSUME TransferInv, UNCHANGED << mode, rx, disk >>, tx' \in Senders, cl' \in Clients,
         wire' \in Seq(Nat), fds' \cap {"write", "read"} = fds \cap {"write", "read"},
         Connecting', SenderAt', Stream'
  PROVE  TransferInv'
<1>1. TransferTypes'
  BY DEF TransferInv, TransferTypes
<1>2. /\ Transfer!Units' = Transfer!Units /\ Goal' = Goal
      /\ Transfer!EndsAt' = Transfer!EndsAt
  BY UnitsKept
<1>3. TakenUnits' = TakenUnits
  BY DEF TakenUnits
<1>4. ReceiverAt'
  BY <1>2, <1>3 DEF TransferInv, ReceiverAt, Transfer!Received, Transfer!Storing
<1> QED
  BY <1>1, <1>4 DEF TransferInv

\* The stream stays as it is while nothing is sent.
LEMMA NothingSent ==
  ASSUME Stream, UNCHANGED << mode, rx, wire >>, SentUnits' = SentUnits,
         tx.pc = "open" \/ tx'.pc # "open", tx'.pc = "open" => tx.pc = "open",
         link' = "reset" \/ link # "reset"
  PROVE  Stream'
<1>1. Transfer!Units' = Transfer!Units /\ TakenUnits' = TakenUnits
  BY UnitsKept DEF TakenUnits
<1> QED
  BY <1>1 DEF Stream

\* More units have gone out: those between the b-th and the c-th.
LEMMA UnitsSent ==
  ASSUME TransferConstants, TransferTypes, Stream, UNCHANGED << mode, rx, link >>, link # "reset",
         tx.pc # "open", tx'.pc # "open", NEW b \in Nat, NEW c \in Nat, b <= c, c <= Total,
         SentUnits = b, SentUnits' = c,
         wire' = wire \o SubSeq(Transfer!Units, b + 1, c)
  PROVE  Stream' /\ wire' \in Seq(Nat)
<1>1. /\ Transfer!Units \in Seq(Nat) /\ Total = Len(Transfer!Units)
      /\ Transfer!Units' = Transfer!Units /\ TakenUnits' = TakenUnits
  BY UnitsFacts, UnitsKept DEF Total, TakenUnits
<1>2. PICK U \in Seq(Nat) : U = Transfer!Units
  BY <1>1
<1>3. b <= Len(U) /\ c <= Len(U)
  BY <1>1, <1>2
<1>4. SubSeq(U, b + 1, c) \in Seq(Nat)
  BY <1>3, Stretch
<1>5. wire' \in Seq(Nat)
  BY <1>2, <1>4, ConcatProperties DEF TransferTypes
<1>6. ASSUME rx.pc # "done"
      PROVE  TakenUnits <= c /\ wire' = SubSeq(U, TakenUnits + 1, c)
  <2>1. PICK a \in Nat : a = TakenUnits
    BY LenProperties DEF TransferTypes, Receivers, TakenUnits
  <2>2. a <= b /\ wire = SubSeq(U, a + 1, b)
    BY <1>2, <1>6, <2>1 DEF Stream
  <2>3. SubSeq(U, a + 1, b) \o SubSeq(U, b + 1, c) = SubSeq(U, a + 1, c)
    BY <1>3, <2>2, StretchJoined
  <2>4. a <= c
    BY <2>2
  <2> QED
    BY <1>2, <2>1, <2>2, <2>3, <2>4
<1> QED
  BY <1>1, <1>2, <1>5, <1>6 DEF Stream

\* The sender is done, for one reason or another.
LEMMA SenderEnds ==
  ASSUME TransferConstants, TransferInv, cl.pc = "connected", tx.pc # "done",
         UNCHANGED << mode, rx, disk, wire >>,
         NEW t \in Senders, NEW res \in SendResults, Transfer!TxEnd(t, res),
         fds' = fds \ {"send"} \/ (fds' = fds \cup {"send"} /\ res = "fcntl"),
         t.left = IF tx.pc = "open" THEN Total ELSE tx.left,
         t.left <= t.remain, t.remain <= Total,
         t.pc # "open" \/ t.left = Total,
         res = "ok" => t.left = 0 /\ t.pc # "open" /\ (mode.send = "read" => t.remain = 0),
         res # "restore" => (t.restore \/ cl.nonblock) = mode.sendNb
  PROVE  TransferInv'
<1>0. /\ Total' = Total /\ Total \in Nat /\ Len(Transfer!Units) = Total
      /\ t.left \in Nat /\ t.remain \in Nat /\ t.total \in Int
  BY UnitsKept, UnitsFacts DEF Total, Senders
<1>9. PICK total \in Int : total = Transfer!Reported(t)
  BY <1>0 DEF Transfer!Reported
<1>10. mode.send = "read" => total <= Total - t.left /\ (res = "ok" => total = Total)
  BY <1>0, <1>9 DEF Transfer!Reported
<1>1. /\ tx' \in Senders /\ tx'.pc = "done" /\ tx'.result = res
      /\ tx'.left = t.left /\ tx'.remain = t.remain /\ tx'.total = total
  <2>1. tx' = [t EXCEPT !.pc = "done", !.result = res, !.total = total]
    BY <1>9 DEF Transfer!TxEnd
  <2> QED
    BY <2>1 DEF Senders
<1>2. /\ cl' \in Clients /\ cl'.pc = "connected"
      /\ res # "restore" => cl'.nonblock = mode.sendNb
  <2>1. cl' = [cl EXCEPT !.open = FALSE, !.nonblock = (t.restore /\ res # "restore") \/ cl.nonblock]
    BY DEF Transfer!TxEnd
  <2>2. t.restore \in BOOLEAN /\ cl.nonblock \in BOOLEAN /\ mode.sendNb \in BOOLEAN
    BY DEF Senders, TransferInv, TransferTypes, Clients, Transfer!Modes
  <2>3. PICK x \in BOOLEAN : x = ((t.restore /\ res # "restore") \/ cl.nonblock)
    BY <2>2
  <2>4. res # "restore" => x = mode.sendNb
    BY <2>2, <2>3
  <2>5. cl' = [cl EXCEPT !.open = FALSE, !.nonblock = x]
    BY <2>1, <2>3
  <2> QED
    BY <2>4, <2>5 DEF TransferInv, TransferTypes, Clients
<1>5. Connecting'
  BY <1>1, <1>2 DEF Connecting
<1>6. SenderAt'
  BY <1>0, <1>1, <1>10 DEF SenderAt
<1>7. Stream'
  <2>1. SentUnits' = SentUnits
    BY <1>0, <1>1 DEF SentUnits
  <2>2. link' = "reset" \/ link # "reset"
    BY DEF Transfer!TxEnd
  <2> QED
    BY <1>1, <2>1, <2>2, NothingSent DEF TransferInv
<1>8. wire' \in Seq(Nat) /\ fds' \cap {"write", "read"} = fds \cap {"write", "read"}
  BY DEF TransferInv, TransferTypes
<1> QED
  BY <1>1, <1>2, <1>5, <1>6, <1>7, <1>8, SenderKeeps

\* The sender goes on to another place without sending.
LEMMA SenderMoves ==
  ASSUME TransferConstants, TransferInv, UNCHANGED << mode, rx, disk, wire, link >>,
         tx.pc # "done", tx' \in Senders, tx'.pc \notin {"open", "done"},
         tx'.left = IF tx.pc = "open" THEN Total ELSE tx.left,
         cl' \in Clients, cl'.pc = "connected",
         fds' = fds \/ fds' = fds \cup {"send"},
         SenderAt', Connecting'
  PROVE  TransferInv'
<1>1. Total' = Total /\ Total \in Nat
  BY UnitsKept, UnitsFacts
<1>2. SentUnits' = SentUnits
  BY <1>1 DEF SentUnits
<1>3. Stream'
  BY <1>2, NothingSent DEF TransferInv
<1>4. wire' \in Seq(Nat) /\ fds' \cap {"write", "read"} = fds \cap {"write", "read"}
  BY DEF TransferInv, TransferTypes
<1> QED
  BY <1>3, <1>4, SenderKeeps

\* The steps of tcpsendfile_ex and tcpsenddata.
LEMMA SenderSteps ==
  ASSUME TransferConstants, TransferInv, Transfer!SenderStep
  PROVE  TransferInv'
<1>1. cl.pc = "connected" /\ UNCHANGED << mode, rx, disk >>
  BY DEF Transfer!SenderStep, Transfer!TxOpen, Transfer!TxPart, Transfer!TxPoll, Transfer!TxSend,
         Transfer!TxSendfile, Transfer!Sending
<1>2. /\ tx \in Senders /\ cl \in Clients /\ mode \in Transfer!Modes /\ wire \in Seq(Nat)
      /\ mode.sendNb \in BOOLEAN /\ cl.nonblock \in BOOLEAN
      /\ Connecting /\ SenderAt
  BY DEF TransferInv, TransferTypes, Transfer!Modes, Clients
<1>3. /\ Transfer!Units \in Seq(Nat) /\ Len(Transfer!Units) = Total /\ Total \in Nat
      /\ Transfer!Units' = Transfer!Units /\ Total' = Total
  BY <1>1, UnitsFacts, UnitsKept DEF Total
<1>4. CASE Transfer!TxOpen
  <2>1. PICK t \in {[tx EXCEPT !.left = Total, !.remain = Total]} :
       \/ /\ mode.send = "data"
          /\ tx' = [t EXCEPT !.pc = "part"] /\ UNCHANGED << fds, link, cl >>
       \/ /\ mode.send # "data" /\ fds' = fds \cup {"send"}
          /\ tx' = [t EXCEPT !.pc = IF mode.send = "read" THEN "part" ELSE "sendfile",
                             !.restore = (mode.send = "sendfile" /\ cl.nonblock)]
          /\ cl' = [cl EXCEPT !.nonblock = @ /\ mode.send # "sendfile"]
          /\ UNCHANGED link
       \/ Transfer!TxEnd(t, "open") /\ UNCHANGED fds
       \/ Transfer!TxEnd(t, "fcntl") /\ fds' = fds \cup {"send"}
    BY <1>3, <1>4 DEF Transfer!TxOpen
  <2>2. /\ t \in Senders /\ t.left = Total /\ t.remain = Total /\ t.restore = tx.restore
        /\ t.result = tx.result /\ t.pc = "open" /\ tx.pc = "open" /\ ~ tx.restore
        /\ UNCHANGED wire /\ cl.nonblock = mode.sendNb /\ fds \ {"send"} = fds
        /\ tx.result \notin {"ok", "restore"} /\ t.left <= t.remain /\ t.remain <= Total
    <3>1. tx.pc = "open" /\ UNCHANGED wire
      BY <1>4 DEF Transfer!TxOpen
    <3>2. t = [tx EXCEPT !.left = Total, !.remain = Total]
      BY <2>1
    <3>3. /\ t \in Senders /\ t.left = Total /\ t.remain = Total /\ t.restore = tx.restore
          /\ t.result = tx.result /\ t.pc = tx.pc
      BY <1>2, <1>3, <3>2 DEF Senders
    <3>4. /\ ~ tx.restore /\ cl.nonblock = mode.sendNb /\ "send" \notin fds
          /\ tx.result \notin {"ok", "restore"}
      BY <1>1, <1>2, <3>1 DEF SenderAt, Connecting
    <3>5. fds \ {"send"} = fds
      BY <3>4
    <3> QED
      BY <1>3, <3>1, <3>3, <3>4, <3>5
  <2>3. CASE /\ mode.send = "data"
             /\ tx' = [t EXCEPT !.pc = "part"] /\ UNCHANGED << fds, link, cl >>
    <3>1. /\ tx' \in Senders /\ tx'.pc = "part" /\ tx'.left = Total /\ tx'.remain = Total
          /\ ~ tx'.restore /\ tx'.result = tx.result
      BY <2>2, <2>3 DEF Senders
    <3>2. SenderAt' /\ Connecting'
      BY <1>1, <1>2, <1>3, <2>2, <2>3, <3>1 DEF SenderAt, Connecting
    <3> QED
      BY <1>1, <1>2, <2>2, <2>3, <3>1, <3>2, SenderMoves
  <2>4. CASE /\ mode.send # "data" /\ fds' = fds \cup {"send"}
             /\ tx' = [t EXCEPT !.pc = IF mode.send = "read" THEN "part" ELSE "sendfile",
                                !.restore = (mode.send = "sendfile" /\ cl.nonblock)]
             /\ cl' = [cl EXCEPT !.nonblock = @ /\ mode.send # "sendfile"]
             /\ UNCHANGED link
    <3>1. CASE mode.send = "read"
      <4>1. tx' = [t EXCEPT !.pc = "part", !.restore = FALSE] /\ cl' = [cl EXCEPT !.nonblock = cl.nonblock]
        BY <1>2, <2>4, <3>1
      <4>2. /\ tx' \in Senders /\ tx'.pc = "part" /\ tx'.left = Total /\ tx'.remain = Total
            /\ ~ tx'.restore /\ tx'.result = tx.result /\ cl' = cl
        BY <1>2, <2>2, <4>1 DEF Senders, Clients
      <4>3. SenderAt' /\ Connecting'
        BY <1>1, <1>2, <1>3, <2>2, <3>1, <4>2 DEF SenderAt, Connecting
      <4> QED
        BY <1>1, <1>2, <2>2, <2>4, <4>2, <4>3, SenderMoves
    <3>2. CASE mode.send = "sendfile"
      <4>1. tx' = [t EXCEPT !.pc = "sendfile", !.restore = cl.nonblock] /\ cl' = [cl EXCEPT !.nonblock = FALSE]
        BY <1>2, <2>4, <3>2
      <4>2. /\ tx' \in Senders /\ tx'.pc = "sendfile" /\ tx'.left = Total /\ tx'.remain = Total
            /\ tx'.restore = mode.sendNb /\ tx'.result = tx.result
            /\ cl' \in Clients /\ cl'.pc = "connected" /\ cl'.nonblock = FALSE
        BY <1>1, <1>2, <2>2, <4>1 DEF Senders, Clients
      <4>3. tx.result \in {"none", "EINTR"}
        BY <1>2, <2>2 DEF SenderAt
      <4>4. SenderAt' /\ Connecting'
        BY <1>1, <1>2, <1>3, <2>2, <3>2, <4>2, <4>3 DEF SenderAt, Connecting
      <4> QED
        BY <1>1, <1>2, <2>2, <2>4, <4>2, <4>4, SenderMoves
    <3> QED
      BY <1>2, <2>4, <3>1, <3>2 DEF Transfer!Modes
  <2>7. ASSUME NEW res \in {"open", "fcntl"}, Transfer!TxEnd(t, res),
               fds' = fds \ {"send"} \/ (fds' = fds \cup {"send"} /\ res = "fcntl")
        PROVE  TransferInv'
    <3>1. res \in SendResults /\ res # "ok" /\ res # "restore"
      BY DEF SendResults
    <3>2. (t.restore \/ cl.nonblock) = mode.sendNb
      BY <1>2, <2>2
    <3>3. tx.pc # "done" /\ t.left = IF tx.pc = "open" THEN Total ELSE tx.left
      BY <2>2
    <3> QED
      BY <1>1, <2>2, <2>7, <3>1, <3>2, <3>3, SenderEnds
  <2>5. CASE Transfer!TxEnd(t, "open") /\ UNCHANGED fds
    BY <2>2, <2>5, <2>7
  <2>6. CASE Transfer!TxEnd(t, "fcntl") /\ fds' = fds \cup {"send"}
    BY <2>6, <2>7
  <2> QED
    BY <2>1, <2>3, <2>4, <2>5, <2>6
<1>5. ASSUME NEW res \in SendResults, Transfer!TxEnd(tx, res), UNCHANGED wire, fds' = fds \ {"send"},
             tx.pc \notin {"open", "done"},
             res = "ok" => tx.left = 0 /\ (mode.send = "read" => tx.remain = 0)
      PROVE  TransferInv'
  <2>2. tx.left <= tx.remain /\ tx.remain <= Total
    BY <1>2, <1>5 DEF SenderAt
  <2>1. (tx.restore \/ cl.nonblock) = mode.sendNb
    BY <1>1, <1>2, <1>5 DEF SenderAt, Connecting, Senders
  <2> QED
    BY <1>1, <1>2, <1>5, <2>1, <2>2, SenderEnds
<1>6. ASSUME UNCHANGED << link, fds, cl, wire >>, tx.pc \notin {"open", "done"},
             tx' \in Senders, tx'.pc \notin {"open", "done"}, tx'.left = tx.left,
             tx'.remain = tx.remain, tx'.restore = tx.restore,
             tx'.pc = "sendfile" <=> tx.pc = "sendfile",
             tx'.result = tx.result \/ tx'.result = "EINTR",
             tx'.pc = "part" => tx.pc = "part", tx'.pc \in {"poll", "send"} => tx'.part \in 1 .. tx'.left
      PROVE  TransferInv'
  <2>1. /\ tx.pc \in {"part", "poll", "send", "sendfile"}
        /\ tx'.pc \in {"part", "poll", "send", "sendfile"}
    BY <1>2, <1>6 DEF Senders
  <2>2. SenderAt'
    <3>1. /\ tx'.left <= tx'.remain /\ tx'.remain <= Total'
          /\ tx'.result \notin {"ok", "restore"}
          /\ tx'.pc = "sendfile" => tx'.result \in {"none", "EINTR"}
      BY <1>2, <1>3, <1>6, <2>1 DEF SenderAt
    <3>2. /\ tx'.pc = "part" => tx'.remain = tx'.left
          /\ tx'.pc = "sendfile" <=> mode'.send = "sendfile" /\ tx'.pc \notin {"open", "done"}
      BY <1>1, <1>2, <1>6, <2>1 DEF SenderAt
    <3>3. /\ tx'.pc = "sendfile" => tx'.restore = mode'.sendNb /\ ~ cl'.nonblock
          /\ tx'.pc \in {"open", "part", "poll", "send"} => ~ tx'.restore
      BY <1>1, <1>2, <1>6, <2>1 DEF SenderAt
    <3> QED
      BY <1>6, <2>1, <3>1, <3>2, <3>3 DEF SenderAt
  <2>3. Connecting'
    BY <1>1, <1>2, <1>6, <2>1 DEF SenderAt, Connecting
  <2> QED
    BY <1>1, <1>2, <1>6, <2>2, <2>3, SenderMoves
<1>7. ASSUME UNCHANGED << link, fds, cl >>, link # "reset", tx.pc \notin {"open", "done"},
             NEW k \in Nat, 1 <= k, k <= tx.left, Transfer!Sent(k), tx' \in Senders,
             tx'.pc \notin {"open", "done"}, tx'.left = tx.left - k, SenderAt', Connecting'
      PROVE  TransferInv'
  <2>1. tx.left \in Nat /\ tx.left <= Total
    BY <1>2, <1>3, <1>7 DEF Senders, SenderAt
  <2>2. PICK b \in Nat : b = Total - tx.left
    BY <1>3, <2>1
  <2>3. PICK c \in Nat : c = b + k
    BY <1>7, <2>2
  <2>4. b <= c /\ c <= Total /\ Total - (tx.left - k) = c
    BY <1>3, <1>7, <2>1, <2>2, <2>3
  <2>5. SentUnits = b /\ SentUnits' = c
    BY <1>3, <1>7, <2>2, <2>4 DEF SentUnits
  <2>6. wire' = wire \o SubSeq(Transfer!Units, b + 1, c)
    BY <1>3, <1>7, <2>2, <2>3 DEF Transfer!Sent
  <2>7. Stream' /\ wire' \in Seq(Nat)
    BY <1>1, <1>7, <2>4, <2>5, <2>6, UnitsSent DEF TransferInv
  <2> QED
    BY <1>1, <1>2, <1>7, <2>7, SenderKeeps
<1>8. CASE Transfer!TxPart
  <2>1. CASE Transfer!TxEnd(tx, "ok") \/ Transfer!TxEnd(tx, "read")
    <3>1. /\ tx.pc = "part" /\ UNCHANGED wire /\ fds' = fds \ {"send"} /\ tx'.result \in {"ok", "read"}
          /\ (Transfer!TxEnd(tx, "ok") /\ tx.left = 0) \/ Transfer!TxEnd(tx, "read")
      BY <1>2, <1>8, <2>1 DEF Transfer!TxPart, Transfer!TxEnd, Senders
    <3>2. tx.left = 0 => tx.remain = 0
      BY <1>2, <3>1 DEF SenderAt
    <3> QED
      BY <1>5, <3>1, <3>2 DEF SendResults
  <2>2. CASE /\ tx.left > 0
             /\ tx' = [tx EXCEPT !.pc = IF cl.nonblock THEN "send" ELSE "poll",
                                 !.part = IF mode.send = "data" THEN tx.left ELSE Transfer!Smaller(tx.left, Chunk)]
             /\ UNCHANGED << link, fds, cl >>
    <3>1. tx.pc = "part" /\ UNCHANGED wire
      BY <1>8 DEF Transfer!TxPart
    <3>2. PICK n \in Nat : n = IF mode.send = "data" THEN tx.left ELSE Transfer!Smaller(tx.left, Chunk)
      BY <1>2 DEF Senders, Transfer!Smaller, TransferConstants
    <3>3. n \in 1 .. tx.left
      BY <1>2, <2>2, <3>2 DEF Senders, Transfer!Smaller, TransferConstants
    <3>4. PICK p \in {"send", "poll"} : p = IF cl.nonblock THEN "send" ELSE "poll"
      OBVIOUS
    <3>5. tx' = [tx EXCEPT !.pc = p, !.part = n]
      BY <2>2, <3>2, <3>4
    <3>6. /\ tx' \in Senders /\ tx'.pc = p /\ tx'.part = n /\ tx'.left = tx.left
          /\ tx'.remain = tx.remain /\ tx'.restore = tx.restore /\ tx'.result = tx.result
      BY <1>2, <3>5 DEF Senders
    <3> QED
      BY <1>6, <2>2, <3>1, <3>3, <3>6
  <2> QED
    BY <1>8, <2>1, <2>2 DEF Transfer!TxPart
<1>9. CASE Transfer!TxPoll
  <2>1. CASE tx' = [tx EXCEPT !.pc = "send"] /\ UNCHANGED << link, fds, cl, wire >>
    <3>1. /\ tx' \in Senders /\ tx'.pc = "send" /\ tx'.part = tx.part /\ tx'.left = tx.left
          /\ tx'.remain = tx.remain /\ tx'.restore = tx.restore /\ tx'.result = tx.result /\ tx.pc = "poll"
      BY <1>2, <1>9, <2>1 DEF Senders, Transfer!TxPoll
    <3>2. tx.part \in 1 .. tx.left
      BY <1>2, <3>1 DEF SenderAt
    <3> QED
      BY <1>6, <2>1, <3>1, <3>2
  <2>2. CASE Transfer!Same
    <3>1. tx.pc = "poll" /\ tx.part \in 1 .. tx.left
      BY <1>2, <1>9 DEF Transfer!TxPoll, SenderAt
    <3> QED
      BY <1>2, <1>6, <2>2, <3>1 DEF Transfer!Same
  <2>3. ASSUME NEW res \in {"ENOTCONN", "ETIMEDOUT"}, Transfer!SendFails(res) PROVE TransferInv'
    BY <1>5, <1>9, <2>3 DEF Transfer!TxPoll, Transfer!SendFails, SendResults
  <2> QED
    BY <1>9, <2>1, <2>2, <2>3 DEF Transfer!TxPoll
<1>10. CASE Transfer!TxSend
  <2>1. /\ tx.pc = "send" /\ tx.part \in 1 .. tx.left /\ tx.part \in Nat /\ tx.left \in Nat
        /\ tx.remain \in Nat /\ tx.left <= tx.remain /\ tx.remain <= Total
    BY <1>2, <1>10 DEF Transfer!TxSend, SenderAt, Senders
  <2>2. CASE tx' = [tx EXCEPT !.pc = "poll"] /\ UNCHANGED << link, fds, cl, wire >>
    <3>1. /\ tx' \in Senders /\ tx'.pc = "poll" /\ tx'.part = tx.part /\ tx'.left = tx.left
          /\ tx'.remain = tx.remain /\ tx'.restore = tx.restore /\ tx'.result = tx.result
      BY <1>2, <2>2 DEF Senders
    <3> QED
      BY <1>6, <2>1, <2>2, <3>1
  <2>3. CASE Transfer!SendFails("EPIPE")
    BY <1>5, <2>1, <2>3 DEF Transfer!SendFails, SendResults
  <2>4. ASSUME link # "reset", NEW k \in 1 .. Transfer!Smaller(tx.part, Transfer!Room), Transfer!Sent(k),
               tx' = [tx EXCEPT !.left = @ - k, !.part = @ - k,
                                !.remain = IF tx.part = k THEN tx.left - k ELSE @,
                                !.pc = IF tx.part = k THEN "part" ELSE "send"]
        PROVE  TransferInv'
    <3>1. k \in Nat /\ 1 <= k /\ k <= tx.part /\ k <= tx.left
      <4>1. Transfer!Room \in Int
        BY <1>2, LenProperties DEF Transfer!Room, TransferConstants
      <4> QED
        BY <2>1, <2>4, <4>1 DEF Transfer!Smaller
    <3>2. PICK left \in Nat : left = tx.left - k
      BY <2>1, <3>1
    <3>3. PICK part \in Nat : part = tx.part - k
      BY <2>1, <3>1
    <3>4. PICK p \in {"part", "send"} : p = IF tx.part = k THEN "part" ELSE "send"
      OBVIOUS
    <3>5. PICK remain \in Nat : remain = IF tx.part = k THEN left ELSE tx.remain
      BY <2>1
    <3>6. tx' = [tx EXCEPT !.left = left, !.part = part, !.remain = remain, !.pc = p]
      BY <2>4, <3>2, <3>3, <3>4, <3>5
    <3>7. /\ tx' \in Senders /\ tx'.left = left /\ tx'.part = part /\ tx'.remain = remain /\ tx'.pc = p
          /\ tx'.restore = tx.restore /\ tx'.result = tx.result
      BY <1>2, <3>6 DEF Senders
    <3>8. UNCHANGED << link, fds, cl >>
      BY <2>4 DEF Transfer!Sent
    <3>9. /\ left <= remain /\ remain <= Total
          /\ p = "part" => remain = left
          /\ p \in {"poll", "send"} => part \in 1 .. left
      <4>1. CASE tx.part = k
        BY <1>3, <2>1, <3>1, <3>2, <3>4, <3>5, <4>1
      <4>2. CASE tx.part # k
        <5>1. p = "send" /\ remain = tx.remain
          BY <3>4, <3>5, <4>2
        <5>2. left <= tx.remain /\ part \in 1 .. left
          BY <2>1, <3>1, <3>2, <3>3, <4>2
        <5> QED
          BY <2>1, <5>1, <5>2
      <4> QED
        BY <4>1, <4>2
    <3>10. SenderAt' /\ Connecting'
      BY <1>1, <1>2, <1>3, <2>1, <3>4, <3>7, <3>8, <3>9 DEF SenderAt, Connecting
    <3> QED
      BY <1>7, <2>1, <2>4, <3>1, <3>2, <3>4, <3>7, <3>8, <3>10
  <2> QED
    BY <1>10, <2>2, <2>3, <2>4 DEF Transfer!TxSend
<1>11. CASE Transfer!TxSendfile
  <2>1. /\ tx.pc = "sendfile" /\ tx.left \in Nat /\ tx.remain \in Nat
        /\ tx.left <= tx.remain /\ tx.remain <= Total /\ mode.send = "sendfile"
        /\ tx.result \in {"none", "EINTR"} /\ ~ cl.nonblock /\ tx.restore = mode.sendNb
    BY <1>2, <1>11 DEF Transfer!TxSendfile, SenderAt, Senders
  <2>2. CASE tx' = [tx EXCEPT !.result = "EINTR"] /\ UNCHANGED << link, fds, cl, wire >>
    <3>1. /\ tx' \in Senders /\ tx'.pc = "sendfile" /\ tx'.left = tx.left
          /\ tx'.remain = tx.remain /\ tx'.restore = tx.restore /\ tx'.result = "EINTR"
      BY <1>2, <2>1, <2>2 DEF Senders, SendResults
    <3> QED
      BY <1>6, <2>1, <2>2, <3>1
  <2>3. CASE Transfer!SendFails("EPIPE")
    BY <1>5, <2>1, <2>3 DEF Transfer!SendFails, SendResults
  <2>4. CASE tx.left = 0 /\ Transfer!SendFails(IF tx.result = "none" THEN "ok" ELSE tx.result)
    <3>1. PICK res \in {"ok", "EINTR"} : res = IF tx.result = "none" THEN "ok" ELSE tx.result
      BY <2>1
    <3>2. Transfer!SendFails(res) /\ tx.left = 0
      BY <2>4, <3>1
    <3> QED
      BY <1>5, <2>1, <3>2 DEF Transfer!SendFails, SendResults
  <2>5. CASE tx.left = 0 /\ Transfer!SendFails("restore")
    <3>1. Transfer!TxEnd(tx, "restore") /\ fds' = fds \ {"send"} /\ UNCHANGED wire
      BY <2>5 DEF Transfer!SendFails
    <3> QED
      BY <1>5, <2>1, <3>1 DEF SendResults
  <2>6. ASSUME link # "reset", NEW k \in 1 .. Transfer!Smaller(tx.left, Transfer!Room), Transfer!Sent(k),
               tx' = [tx EXCEPT !.left = @ - k]
        PROVE  TransferInv'
    <3>1. k \in Nat /\ 1 <= k /\ k <= tx.left
      <4>1. Transfer!Room \in Int
        BY <1>2, LenProperties DEF Transfer!Room, TransferConstants
      <4> QED
        BY <2>1, <2>6, <4>1 DEF Transfer!Smaller
    <3>2. PICK left \in Nat : left = tx.left - k
      BY <2>1, <3>1
    <3>4. tx' = [tx EXCEPT !.left = left]
      BY <2>6, <3>2
    <3>5. /\ tx' \in Senders /\ tx'.left = left /\ tx'.remain = tx.remain /\ tx'.pc = "sendfile"
          /\ tx'.restore = tx.restore /\ tx'.result = tx.result
      BY <1>2, <2>1, <3>4 DEF Senders
    <3>6. UNCHANGED << link, fds, cl >>
      BY <2>6 DEF Transfer!Sent
    <3>7. left <= tx.remain
      BY <2>1, <3>1, <3>2
    <3>8. SenderAt' /\ Connecting'
      BY <1>1, <1>2, <1>3, <2>1, <3>5, <3>6, <3>7 DEF SenderAt, Connecting
    <3> QED
      BY <1>7, <2>1, <2>6, <3>1, <3>2, <3>5, <3>6, <3>8
  <2> QED
    BY <1>11, <2>2, <2>3, <2>4, <2>5, <2>6 DEF Transfer!TxSendfile
<1> QED
  BY <1>4, <1>8, <1>9, <1>10, <1>11 DEF Transfer!SenderStep

-----------------------------------------------------------------------------
\* The empty buffer.
LEMMA NoUnits == \E e \in Seq(Nat) : e = << >>
<1>1. << >> \in Seq(Nat)
  OBVIOUS
<1> QED
  BY <1>1

\* The receiver's function returns.
LEMMA ReceiverEnds ==
  ASSUME TransferConstants, TransferInv, UNCHANGED << mode, cl, tx >>, tx.pc = "open" => wire' = wire,
         NEW r \in Receivers, NEW res \in RecvResults, Transfer!RxEnd(r, res),
         wire' \in Seq(Nat), disk' \in [exists : BOOLEAN, data : Seq(Nat)],
         fds' \cap {"send"} = fds \cap {"send"},
         Transfer!Received',
         "read" \notin fds',
         fds' \cap {"write", "read"} # {} => res = "read_open" /\ mode.recv # "discard"
  PROVE  TransferInv'
<1>1. rx' \in Receivers /\ rx'.pc = "done" /\ rx'.result = res /\ rx'.total = r.total
  <2>1. PICK e \in Seq(Nat) : e = << >>
    BY NoUnits
  <2>2. rx' = [r EXCEPT !.pc = "done", !.result = res, !.buf = e]
    BY <2>1 DEF Transfer!RxEnd
  <2> QED
    BY <2>2 DEF Receivers
<1>2. Total' = Total
  BY UnitsKept
<1>3. TransferTypes' /\ Connecting'
  BY <1>1 DEF TransferInv, TransferTypes, Connecting
<1>4. SenderAt'
  BY <1>2 DEF TransferInv, SenderAt
<1>5. Stream'
  BY <1>1 DEF TransferInv, Stream
<1>6. ReceiverAt'
  <2>1. rx'.pc \notin {"open", "fill", "poll", "recv", "store", "trailer"}
    BY <1>1
  <2>2. mode'.recv = "discard" => fds' \cap {"write", "read"} = {}
    OBVIOUS
  <2> QED
    BY <1>1, <2>1, <2>2 DEF ReceiverAt
<1> QED
  BY <1>3, <1>4, <1>5, <1>6 DEF TransferInv

\* What is kept when nothing has come: the receiver is at another place.
LEMMA ReceiverMoves ==
  ASSUME TransferConstants, TransferInv, UNCHANGED << mode, cl, tx, wire, link >>, rx.pc # "done",
         rx' \in Receivers, rx'.pc # "done", rx'.total + Len(rx'.buf) = TakenUnits,
         disk' \in [exists : BOOLEAN, data : Seq(Nat)],
         fds' \cap {"send"} = fds \cap {"send"}, ReceiverAt'
  PROVE  TransferInv'
<1>1. Transfer!Units' = Transfer!Units /\ Total' = Total
  BY UnitsKept
<1>2. TakenUnits' = TakenUnits /\ SentUnits' = SentUnits
  BY <1>1 DEF TakenUnits, SentUnits
<1>3. TransferTypes' /\ Connecting'
  BY DEF TransferInv, TransferTypes, Connecting
<1>4. SenderAt'
  BY <1>1 DEF TransferInv, SenderAt
<1>5. Stream'
  BY <1>1, <1>2 DEF TransferInv, Stream
<1> QED
  BY <1>3, <1>4, <1>5 DEF TransferInv

\* Where the receiver is, in numbers: t units are stored, those up to the a-th
\* taken, those up to the s-th sent.
LEMMA ReceiverFacts ==
  ASSUME TransferConstants, TransferInv, rx.pc # "done"
  PROVE  \E U \in Seq(Nat), t \in Nat, a \in Nat, s \in Nat :
           /\ U = Transfer!Units /\ Len(U) = Total
           /\ t = rx.total /\ a = TakenUnits /\ s = SentUnits
           /\ Len(rx.buf) = a - t /\ t <= a /\ a <= s /\ s <= Total
<1>1. Transfer!Units \in Seq(Nat) /\ Len(Transfer!Units) = Total /\ Total \in Nat
  BY UnitsFacts DEF Total
<1>2. rx.total \in Nat /\ Len(rx.buf) \in Nat /\ tx.left \in Nat /\ tx.remain \in Nat
  BY LenProperties DEF TransferInv, TransferTypes, Receivers, Senders
<1>3. SentUnits \in Nat /\ SentUnits <= Total
  BY <1>1, <1>2 DEF SentUnits, TransferInv, SenderAt
<1>4. TakenUnits \in Nat /\ TakenUnits <= SentUnits
  BY <1>2 DEF TakenUnits, TransferInv, Stream
<1>5. Len(rx.buf) = TakenUnits - rx.total /\ rx.total <= TakenUnits
  BY <1>2 DEF TakenUnits
<1> QED
  BY <1>1, <1>2, <1>3, <1>4, <1>5

\* Nothing came: recv_func goes round or ends with an error.
LEMMA NothingCame ==
  ASSUME TransferConstants, TransferInv, UNCHANGED << mode, cl, tx, wire, link, disk, fds >>,
         rx.pc \in {"poll", "recv"}, NEW p \in {"poll", "recv", "store"},
         NEW res \in RecvResults, res # "read_open", rx' = [rx EXCEPT !.pc = p, !.result = res]
  PROVE  TransferInv'
<1>1. /\ rx' \in Receivers /\ rx'.pc = p /\ rx'.result = res /\ rx'.total = rx.total
      /\ rx'.buf = rx.buf /\ rx'.want = rx.want /\ rx'.remain = rx.remain
  BY DEF TransferInv, TransferTypes, Receivers
<1>2. rx'.total + Len(rx'.buf) = TakenUnits /\ TakenUnits' = TakenUnits
  BY <1>1 DEF TakenUnits
<1>3. Transfer!Units' = Transfer!Units /\ Goal' = Goal
  BY UnitsKept
<1>4. disk' \in [exists : BOOLEAN, data : Seq(Nat)]
  BY DEF TransferInv, TransferTypes
<1>5. ReceiverAt'
  BY <1>1, <1>2, <1>3 DEF TransferInv, ReceiverAt
<1> QED
  BY <1>1, <1>2, <1>4, <1>5, ReceiverMoves

\* The first k units of a stretch that lies on the wire, put behind those that
\* are in the buffer.
LEMMA StretchTaken ==
  ASSUME NEW S, NEW U \in Seq(S), NEW t \in Nat, NEW a \in Nat, NEW s \in Nat, NEW k \in Nat,
         NEW b \in Nat, b = a + k, t <= a, b <= s, s <= Len(U)
  PROVE  /\ SubSeq(U, t + 1, a) \o SubSeq(SubSeq(U, a + 1, s), 1, k) = SubSeq(U, t + 1, b)
         /\ SubSeq(SubSeq(U, a + 1, s), k + 1, s - a) = SubSeq(U, b + 1, s)
         /\ SubSeq(U, t + 1, b) \in Seq(S) /\ Len(SubSeq(U, t + 1, b)) = b - t
         /\ SubSeq(U, b + 1, s) \in Seq(S)
<1>1. a <= s /\ a <= Len(U) /\ k \in 0 .. s - a /\ a <= b /\ t <= b /\ b <= Len(U)
  BY LenProperties
<1>2. /\ SubSeq(SubSeq(U, a + 1, s), 1, k) = SubSeq(U, a + 1, b)
      /\ SubSeq(SubSeq(U, a + 1, s), k + 1, s - a) = SubSeq(U, b + 1, s)
  BY <1>1, StretchCut
<1>3. SubSeq(U, t + 1, a) \o SubSeq(U, a + 1, b) = SubSeq(U, t + 1, b)
  BY <1>1, StretchJoined
<1>4. SubSeq(U, t + 1, b) \in Seq(S) /\ Len(SubSeq(U, t + 1, b)) = b - t
  BY <1>1, Stretch
<1>5. SubSeq(U, b + 1, s) \in Seq(S)
  BY <1>1, Stretch
<1> QED
  BY <1>2, <1>3, <1>4, <1>5

\* recv has taken the units up to the b-th off the wire.
LEMMA UnitsCame ==
  ASSUME TransferConstants, TransferInv, UNCHANGED << mode, cl, tx, link, disk, fds >>,
         rx.pc = "recv", NEW b \in Nat, TakenUnits < b, b <= SentUnits, b - rx.total <= rx.want,
         NEW buf \in Seq(Nat), Len(buf) = b - rx.total, wire' \in Seq(Nat),
         buf = SubSeq(Transfer!Units, rx.total + 1, b),
         wire' = SubSeq(Transfer!Units, b + 1, SentUnits),
         NEW p \in {"poll", "recv", "store"}, NEW res \in RecvResults, res # "read_open",
         p # "store" => b - rx.total # rx.want,
         rx' = [rx EXCEPT !.buf = buf, !.pc = p, !.result = res]
  PROVE  TransferInv'
<1>1. /\ rx.total \in Nat /\ rx.total <= TakenUnits /\ TakenUnits \in Nat
      /\ SentUnits \in Nat /\ rx.want \in Nat
  BY ReceiverFacts DEF TransferInv, TransferTypes, Receivers
<1>2. /\ rx' \in Receivers /\ rx'.pc = p /\ rx'.result = res /\ rx'.total = rx.total
      /\ rx'.buf = buf /\ rx'.want = rx.want /\ rx'.remain = rx.remain
  BY DEF TransferInv, TransferTypes, Receivers
<1>3. Transfer!Units' = Transfer!Units /\ Total' = Total /\ Goal' = Goal
  BY UnitsKept
<1>4. TakenUnits' = b /\ SentUnits' = SentUnits
  <2>1. rx.total + (b - rx.total) = b
    BY <1>1
  <2> QED
    BY <1>2, <1>3, <2>1 DEF TakenUnits, SentUnits
<1>5. TransferTypes' /\ Connecting'
  BY <1>2 DEF TransferInv, TransferTypes, Connecting
<1>6. SenderAt'
  BY <1>3 DEF TransferInv, SenderAt
<1>7. Stream'
  <2>1. tx.pc # "open"
    <3>1. SentUnits # 0
      BY <1>1
    <3> QED
      BY <3>1 DEF SentUnits
  <2> QED
    BY <1>2, <1>3, <1>4, <2>1 DEF Stream
<1>8. ReceiverAt'
  <2>1. rx.want \in 1 .. rx.remain
    BY DEF TransferInv, ReceiverAt
  <2>2. Len(buf) <= rx.want /\ (p # "store" => Len(buf) < rx.want)
    <3>1. PICK d \in Int : d = b - rx.total
      BY <1>1
    <3>2. d <= rx.want /\ (p # "store" => d < rx.want)
      BY <1>1, <3>1
    <3> QED
      BY <3>1, <3>2
  <2>3. /\ rx.remain + rx.total = Goal /\ "read" \notin fds
        /\ mode.recv = "discard" => fds \cap {"write", "read"} = {}
        /\ mode.recv # "discard" => disk.exists /\ disk.data = SubSeq(Transfer!Units, 1, rx.total)
    BY DEF TransferInv, ReceiverAt
  <2> QED
    BY <1>2, <1>3, <1>4, <2>1, <2>2, <2>3 DEF ReceiverAt
<1> QED
  BY <1>5, <1>6, <1>7, <1>8 DEF TransferInv

\* The first k units on the wire go up to some b-th unit that was sent and not
\* yet taken.
LEMMA WireTaken ==
  ASSUME TransferConstants, TransferInv, rx.pc = "recv", link # "reset",
         NEW k \in Nat, 1 <= k, k <= Len(wire), k <= rx.want - Len(rx.buf)
  PROVE  \E b \in Nat :
           /\ TakenUnits < b /\ b <= SentUnits /\ b - rx.total <= rx.want
           /\ rx.buf \o SubSeq(wire, 1, k) = SubSeq(Transfer!Units, rx.total + 1, b)
           /\ rx.buf \o SubSeq(wire, 1, k) \in Seq(Nat)
           /\ Len(rx.buf \o SubSeq(wire, 1, k)) = b - rx.total
           /\ SubSeq(wire, k + 1, Len(wire)) = SubSeq(Transfer!Units, b + 1, SentUnits)
           /\ SubSeq(wire, k + 1, Len(wire)) \in Seq(Nat)
<1>1. PICK U \in Seq(Nat), t \in Nat, a \in Nat, s \in Nat :
           /\ U = Transfer!Units /\ Len(U) = Total
           /\ t = rx.total /\ a = TakenUnits /\ s = SentUnits
           /\ Len(rx.buf) = a - t /\ t <= a /\ a <= s /\ s <= Total
  BY ReceiverFacts
<1>2. wire = SubSeq(U, a + 1, s) /\ rx.buf = SubSeq(U, t + 1, a)
  BY <1>1 DEF TransferInv, Stream, ReceiverAt
<1>3. s <= Len(U) /\ a <= Len(U)
  BY <1>1
<1>4. Len(wire) = s - a
  <2>1. Len(SubSeq(U, a + 1, s)) = s - a
    BY <1>1, <1>3, Stretch
  <2> QED
    BY <1>2, <2>1
<1>5. rx.want \in Nat
  BY DEF TransferInv, TransferTypes, Receivers
<1>6. PICK b \in Nat : b = a + k
  OBVIOUS
<1>7. b <= s /\ a < b /\ b - t <= rx.want
  <2>1. PICK n \in Nat : n = rx.want
    BY <1>5
  <2>2. k <= s - a /\ k <= n - (a - t)
    BY <1>1, <1>4, <2>1, Zenon
  <2>3. b <= s /\ a < b /\ b - t <= n
    BY <1>6, <2>2
  <2> QED
    BY <2>1, <2>3
<1>8. /\ SubSeq(U, t + 1, a) \o SubSeq(SubSeq(U, a + 1, s), 1, k) = SubSeq(U, t + 1, b)
      /\ SubSeq(SubSeq(U, a + 1, s), k + 1, s - a) = SubSeq(U, b + 1, s)
      /\ SubSeq(U, t + 1, b) \in Seq(Nat) /\ Len(SubSeq(U, t + 1, b)) = b - t
      /\ SubSeq(U, b + 1, s) \in Seq(Nat)
  <2>1. /\ U \in Seq(Nat) /\ t \in Nat /\ a \in Nat /\ s \in Nat /\ k \in Nat /\ b \in Nat
        /\ b = a + k /\ t <= a /\ b <= s /\ s <= Len(U)
    BY <1>1, <1>3, <1>6, <1>7
  <2> QED
    BY ONLY <2>1, StretchTaken
<1>9. /\ rx.buf \o SubSeq(wire, 1, k) = SubSeq(U, t + 1, b)
      /\ SubSeq(wire, k + 1, Len(wire)) = SubSeq(U, b + 1, s)
  BY ONLY <1>2, <1>4, <1>8, Zenon
<1>10. TakenUnits < b /\ b <= SentUnits /\ b - rx.total <= rx.want
  BY ONLY <1>1, <1>7, Zenon
<1>11. /\ SubSeq(U, t + 1, b) = SubSeq(Transfer!Units, rx.total + 1, b)
       /\ SubSeq(U, b + 1, s) = SubSeq(Transfer!Units, b + 1, SentUnits)
       /\ b - t = b - rx.total
  BY ONLY <1>1, Zenon
<1>12. /\ rx.buf \o SubSeq(wire, 1, k) \in Seq(Nat)
       /\ Len(rx.buf \o SubSeq(wire, 1, k)) = b - rx.total
       /\ SubSeq(wire, k + 1, Len(wire)) \in Seq(Nat)
  BY ONLY <1>8, <1>9, <1>11, Zenon
<1>13. /\ rx.buf \o SubSeq(wire, 1, k) = SubSeq(Transfer!Units, rx.total + 1, b)
       /\ SubSeq(wire, k + 1, Len(wire)) = SubSeq(Transfer!Units, b + 1, SentUnits)
  BY ONLY <1>9, <1>11, Zenon
<1> QED
  BY ONLY <1>6, <1>10, <1>12, <1>13

\* A step of recv that takes k units off the wire.
LEMMA UnitsReceived ==
  ASSUME TransferConstants, TransferInv, UNCHANGED << mode, cl, tx, link, disk, fds >>,
         rx.pc = "recv", link # "reset", NEW k \in Nat, 1 <= k, k <= Len(wire), k <= rx.want - Len(rx.buf),
         NEW cutOff, cutOff = SubSeq(wire, k + 1, Len(wire)), wire' = cutOff,
         NEW joined, joined = rx.buf \o SubSeq(wire, 1, k),
         NEW p \in {"poll", "recv", "store"}, NEW res \in RecvResults, res # "read_open",
         p # "store" => Len(joined) # rx.want,
         rx' = [rx EXCEPT !.buf = joined, !.pc = p, !.result = res]
  PROVE  TransferInv'
<1>1. PICK b \in Nat :
           /\ TakenUnits < b /\ b <= SentUnits /\ b - rx.total <= rx.want
           /\ joined = SubSeq(Transfer!Units, rx.total + 1, b)
           /\ joined \in Seq(Nat) /\ Len(joined) = b - rx.total
           /\ cutOff = SubSeq(Transfer!Units, b + 1, SentUnits) /\ cutOff \in Seq(Nat)
  BY WireTaken, Zenon
<1> QED
  BY <1>1, UnitsCame, Zenon

\* The receiver's function fails: what it has stored is gone, unless it could
\* not be opened for reading.
LEMMA ReceiverFails ==
  ASSUME TransferConstants, TransferInv, UNCHANGED << mode, cl, tx, wire >>,
         NEW r \in Receivers, NEW res \in RecvResults, res # "ok", Transfer!RxEnd(r, res),
         \/ Transfer!Unlinked
         \/ /\ UNCHANGED << disk, fds >>
            /\ \/ rx.pc = "open"
               \/ mode.recv = "discard"
               \/ res = "read_open" /\ mode.recv # "discard"
  PROVE  TransferInv'
<1>1. disk' \in [exists : BOOLEAN, data : Seq(Nat)] /\ wire' \in Seq(Nat)
  <2>1. PICK e \in Seq(Nat) : e = << >>
    BY NoUnits
  <2>2. Transfer!Unlinked => disk' = [exists |-> FALSE, data |-> e]
    BY <2>1 DEF Transfer!Unlinked
  <2>3. Transfer!Unlinked => disk' \in [exists : BOOLEAN, data : Seq(Nat)]
    <3>1. [exists |-> FALSE, data |-> e] \in [exists : BOOLEAN, data : Seq(Nat)]
      OBVIOUS
    <3> QED
      BY <2>2, <3>1, Zenon
  <2>4. disk \in [exists : BOOLEAN, data : Seq(Nat)] /\ wire \in Seq(Nat)
    BY DEF TransferInv, TransferTypes
  <2> QED
    BY <2>3, <2>4
<1>2. /\ fds' \cap {"send"} = fds \cap {"send"} /\ "read" \notin fds'
      /\ fds' \cap {"write", "read"} # {} => res = "read_open" /\ mode.recv # "discard"
  BY DEF Transfer!Unlinked, TransferInv, ReceiverAt
<1>3. rx'.result = res
  BY DEF Transfer!RxEnd, Receivers
<1>4. Transfer!Received'
  <2>1. res # "read_open" /\ mode.recv # "discard" => ~ disk'.exists
    BY DEF Transfer!Unlinked, TransferInv, ReceiverAt
  <2> QED
    BY <1>3, <2>1 DEF Transfer!Received, Transfer!Storing
<1> QED
  BY <1>1, <1>2, <1>4, ReceiverEnds

\* The receiver opens the file it stores.
LEMMA ReceiverOpens ==
  ASSUME TransferConstants, TransferInv, Transfer!RxOpen
  PROVE  TransferInv'
<1>1. rx.pc = "open" /\ UNCHANGED << mode, cl, tx, wire >> /\ rx \in Receivers
  BY DEF Transfer!RxOpen, Transfer!Receiving, TransferInv, TransferTypes
<1>2. CASE Transfer!RxEnd(rx, "open") /\ UNCHANGED << disk, fds >>
  BY <1>1, <1>2, ReceiverFails DEF RecvResults
<1>3. CASE /\ Transfer!Keeps
           /\ rx' = [rx EXCEPT !.pc = "fill",
                               !.remain = IF mode.recv = "infinite" THEN Transfer!Infinite
                                          ELSE Len(SentFile)]
           /\ IF Transfer!Storing
              THEN disk' = [exists |-> TRUE, data |-> << >>] /\ fds' = fds \cup {"write"}
              ELSE UNCHANGED << disk, fds >>
  <2>1. PICK e \in Seq(Nat) : e = << >>
    BY NoUnits
  <2>2. Goal \in Nat /\ Goal' = Goal /\ Transfer!Units' = Transfer!Units
    <3>1. Goal \in Nat
      BY UnitsFacts DEF Goal, Transfer!Infinite
    <3>2. mode' = mode
      BY <1>1
    <3> QED
      BY <3>1, <3>2, UnitsKept
  <2>3. rx' = [rx EXCEPT !.pc = "fill", !.remain = Goal]
    BY <1>3 DEF Goal
  <2>4. /\ rx' \in Receivers /\ rx'.pc = "fill" /\ rx'.remain = Goal
        /\ rx'.total = 0 /\ rx'.buf = e /\ rx'.result = rx.result
    BY <1>1, <2>1, <2>2, <2>3 DEF Receivers, TransferInv, ReceiverAt
  <2>5. rx.total = 0 /\ rx.buf = e
    BY <1>1, <2>1 DEF TransferInv, ReceiverAt
  <2>6. /\ rx'.total + Len(rx'.buf) = TakenUnits /\ TakenUnits' = TakenUnits
        /\ disk \in [exists : BOOLEAN, data : Seq(Nat)]
    BY <2>4, <2>5 DEF TakenUnits, TransferInv, TransferTypes
  <2>7. disk' \in [exists : BOOLEAN, data : Seq(Nat)]
    <3>1. disk' = [exists |-> TRUE, data |-> e] \/ disk' = disk
      BY <1>3, <2>1
    <3>2. [exists |-> TRUE, data |-> e] \in [exists : BOOLEAN, data : Seq(Nat)]
      OBVIOUS
    <3> QED
      BY <2>6, <3>1, <3>2, Zenon
  <2>8. e = SubSeq(Transfer!Units, 1, 0)
    BY <2>1, SubSeqEmpty
  <2>9. /\ mode.recv # "discard" => disk'.exists /\ disk'.data = e
        /\ mode.recv = "discard" => fds' \cap {"write", "read"} = {}
        /\ "read" \notin fds' /\ fds' \cap {"send"} = fds \cap {"send"}
    BY <1>1, <1>3, <2>1 DEF Transfer!Storing, TransferInv, ReceiverAt
  <2>10. rx.buf = SubSeq(Transfer!Units, rx.total + 1, TakenUnits) /\ rx.result # "read_open"
    BY <1>1 DEF TransferInv, ReceiverAt
  <2>11. ReceiverAt'
    <3>1. /\ rx'.buf = SubSeq(Transfer!Units', rx'.total + 1, TakenUnits')
          /\ mode'.recv # "discard" =>
               disk'.exists /\ disk'.data = SubSeq(Transfer!Units', 1, rx'.total)
      BY <1>1, <2>2, <2>4, <2>5, <2>6, <2>8, <2>9, <2>10
    <3>2. rx'.remain + rx'.total = Goal' /\ rx'.buf = << >>
      BY <2>1, <2>2, <2>4
    <3> HIDE <2>1
    <3> QED
      BY <1>1, <2>4, <2>9, <2>10, <3>1, <3>2 DEF ReceiverAt
  <2> QED
    BY <1>1, <1>3, <2>4, <2>6, <2>7, <2>9, <2>11, ReceiverMoves DEF Transfer!Keeps
<1> QED
  BY <1>2, <1>3 DEF Transfer!RxOpen

\* The next buffer, or the end of a file of known length.
LEMMA ReceiverFills ==
  ASSUME TransferConstants, TransferInv, Transfer!RxFill
  PROVE  TransferInv'
<1>1. /\ rx.pc = "fill" /\ UNCHANGED << mode, cl, tx, wire, disk >> /\ rx \in Receivers
      /\ rx.remain \in Nat /\ rx.total \in Nat /\ rx.remain + rx.total = Goal
  BY DEF Transfer!RxFill, Transfer!Receiving, TransferInv, TransferTypes, Receivers, ReceiverAt
<1>2. /\ disk' \in [exists : BOOLEAN, data : Seq(Nat)] /\ wire' \in Seq(Nat)
  BY <1>1 DEF TransferInv, TransferTypes
<1>3. CASE /\ rx.remain > 0 /\ Transfer!Keeps /\ UNCHANGED fds
           /\ rx' = [rx EXCEPT !.pc = IF mode.recvNb THEN "recv" ELSE "poll",
                               !.want = Transfer!Smaller(rx.remain, Chunk), !.buf = << >>]
  <2>1. PICK e \in Seq(Nat) : e = << >>
    BY NoUnits
  <2>2. PICK n \in Nat : n = Transfer!Smaller(rx.remain, Chunk) /\ n \in 1 .. rx.remain
    BY <1>1, <1>3 DEF Transfer!Smaller, TransferConstants
  <2>3. PICK p \in {"recv", "poll"} : p = IF mode.recvNb THEN "recv" ELSE "poll"
    OBVIOUS
  <2>4. rx' = [rx EXCEPT !.pc = p, !.want = n, !.buf = e]
    BY <1>3, <2>1, <2>2, <2>3
  <2>5. /\ rx' \in Receivers /\ rx'.pc = p /\ rx'.want = n /\ rx'.buf = e
        /\ rx'.remain = rx.remain /\ rx'.total = rx.total /\ rx'.result = rx.result
    BY <1>1, <2>4 DEF Receivers
  <2>6. rx.buf = e /\ Len(e) = 0
    BY <1>1, <2>1 DEF TransferInv, ReceiverAt
  <2>7. rx'.total + Len(rx'.buf) = TakenUnits /\ TakenUnits' = TakenUnits
    BY <2>5, <2>6 DEF TakenUnits
  <2>8. Goal' = Goal /\ Transfer!Units' = Transfer!Units
    BY <1>1, UnitsKept
  <2>9. /\ Len(rx'.buf) <= rx'.want /\ Len(rx'.buf) < rx'.want
        /\ rx'.want \in 1 .. rx'.remain
    BY <2>2, <2>5, <2>6
  <2>10. /\ mode.recv = "discard" => fds \cap {"write", "read"} = {}
         /\ "read" \notin fds /\ rx.result # "read_open"
         /\ rx.buf = SubSeq(Transfer!Units, rx.total + 1, TakenUnits)
         /\ mode.recv # "discard" =>
              disk.exists /\ disk.data = SubSeq(Transfer!Units, 1, rx.total)
    BY <1>1 DEF TransferInv, ReceiverAt
  <2>11. ReceiverAt'
    BY <1>1, <1>3, <2>5, <2>6, <2>7, <2>8, <2>9, <2>10 DEF ReceiverAt
  <2> QED
    BY <1>1, <1>2, <1>3, <2>5, <2>7, <2>11, ReceiverMoves DEF Transfer!Keeps
<1>4. CASE rx.remain = 0 /\ Transfer!RxEnd(rx, "ok") /\ fds' = fds \ {"write"}
  <2>1. PICK U \in Seq(Nat), t \in Nat, a \in Nat, s \in Nat :
           /\ U = Transfer!Units /\ Len(U) = Total
           /\ t = rx.total /\ a = TakenUnits /\ s = SentUnits
           /\ Len(rx.buf) = a - t /\ t <= a /\ a <= s /\ s <= Total
    BY <1>1, ReceiverFacts
  <2>2. rx.total = Goal /\ rx.total <= Total /\ Total \in Nat /\ Total < Transfer!Infinite
    BY <1>1, <1>4, <2>1, UnitsFacts
  <2>3. mode.recv # "infinite" /\ rx.total = Len(SentFile)
    BY <2>2 DEF Goal, Transfer!Infinite
  <2>4. mode.recv # "discard" => disk.exists /\ disk.data = SubSeq(SentFile, 1, rx.total)
    <3>1. rx.total \in 0 .. Len(SentFile)
      BY <1>1, <2>3
    <3> QED
      BY <1>1, <3>1, UnitsFacts DEF TransferInv, ReceiverAt
  <2>5. disk.exists \in BOOLEAN /\ disk = [exists |-> disk.exists, data |-> disk.data]
    BY DEF TransferInv, TransferTypes
  <2>6. rx'.result = "ok" /\ rx'.total = rx.total
    BY <1>1, <1>4 DEF Transfer!RxEnd, Receivers
  <2>7. rx'.total \in Transfer!EndsAt'
    <3>1. Transfer!EndsAt' = Transfer!EndsAt
      BY <1>1, UnitsKept
    <3>2. rx.total \in Transfer!EndsAt
      BY <2>3, UnitsFacts
    <3> QED
      BY <2>6, <3>1, <3>2
  <2>8. Transfer!Received'
    <3>1. CASE mode.recv = "discard"
      BY <1>1, <2>6, <2>7, <3>1 DEF Transfer!Received, Transfer!Storing
    <3>2. CASE mode.recv # "discard"
      <4>1. disk' = [exists |-> TRUE, data |-> SubSeq(SentFile, 1, rx'.total)]
        BY <1>1, <2>4, <2>5, <2>6, <3>2
      <4> QED
        BY <1>1, <2>6, <2>7, <3>2, <4>1 DEF Transfer!Received
    <3> QED
      BY <3>1, <3>2
  <2>9. /\ fds' \cap {"send"} = fds \cap {"send"} /\ "read" \notin fds'
        /\ fds' \cap {"write", "read"} = {}
    BY <1>4 DEF TransferInv, ReceiverAt
  <2> QED
    BY <1>1, <1>2, <1>4, <2>3, <2>8, <2>9, ReceiverEnds DEF RecvResults
<1> QED
  BY <1>3, <1>4 DEF Transfer!RxFill

\* The front of a stream with the stretch behind it.
LEMMA FrontJoined ==
  ASSUME NEW S, NEW s \in Seq(S), NEW t \in Nat, NEW a \in Nat, t <= a, a <= Len(s)
  PROVE  /\ SubSeq(s, 1, t) \o SubSeq(s, t + 1, a) = SubSeq(s, 1, a)
         /\ SubSeq(s, 1, a) \in Seq(S)
<1>1. 0 \in Nat /\ 0 <= t /\ 0 <= a /\ 0 + 1 = 1
  OBVIOUS
<1>2. SubSeq(s, 0 + 1, t) \o SubSeq(s, t + 1, a) = SubSeq(s, 0 + 1, a)
  BY <1>1, StretchJoined
<1>3. SubSeq(s, 0 + 1, a) \in Seq(S)
  BY <1>1, Stretch
<1> QED
  BY <1>1, <1>2, <1>3

\* The units of the buffer have been stored or counted: the a-th was the last.
LEMMA BufferStored ==
  ASSUME TransferConstants, TransferInv, UNCHANGED << mode, cl, tx, wire, link, fds >>,
         rx.pc = "store", NEW a \in Nat, a = TakenUnits,
         rx' \in Receivers, rx'.total = a, rx'.buf = << >>, rx'.result = rx.result,
         \/ rx'.pc = "fill" /\ rx'.remain + a = Goal
         \/ rx'.pc = "trailer" /\ mode.recv = "infinite" /\ rx'.result # "ok",
         disk' \in [exists : BOOLEAN, data : Seq(Nat)],
         mode.recv # "discard" => disk'.exists /\ disk'.data = SubSeq(Transfer!Units, 1, a)
  PROVE  TransferInv'
<1>1. rx'.total + Len(rx'.buf) = TakenUnits /\ TakenUnits' = TakenUnits
  BY DEF TakenUnits
<1>2. Goal' = Goal /\ Transfer!Units' = Transfer!Units
  BY UnitsKept
<1>3. rx'.buf = SubSeq(Transfer!Units, a + 1, a)
  BY SubSeqEmpty
<1>4. /\ mode.recv = "discard" => fds \cap {"write", "read"} = {}
      /\ "read" \notin fds /\ rx.result # "read_open"
  BY DEF TransferInv, ReceiverAt
<1>5. ReceiverAt'
  BY <1>1, <1>2, <1>3, <1>4 DEF ReceiverAt
<1> QED
  BY <1>1, <1>5, ReceiverMoves

\* What has come is stored, and the next part asked for; or the function ends.
LEMMA ReceiverStores ==
  ASSUME TransferConstants, TransferInv, Transfer!RxStore
  PROVE  TransferInv'
<1>1. /\ rx.pc = "store" /\ UNCHANGED << mode, cl, tx, wire >> /\ rx \in Receivers
      /\ rx.remain \in Nat /\ rx.remain + rx.total = Goal /\ rx.want \in 1 .. rx.remain
      /\ Len(rx.buf) <= rx.want /\ rx.result \in RecvResults /\ rx.unsynced \in Nat
      /\ mode \in Transfer!Modes
  BY DEF Transfer!RxStore, Transfer!Receiving, TransferInv, TransferTypes, Receivers, ReceiverAt
<1>2. PICK U \in Seq(Nat), t \in Nat, a \in Nat, s \in Nat :
           /\ U = Transfer!Units /\ Len(U) = Total
           /\ t = rx.total /\ a = TakenUnits /\ s = SentUnits
           /\ Len(rx.buf) = a - t /\ t <= a /\ a <= s /\ s <= Total
  BY <1>1, ReceiverFacts
<1>3. PICK n \in {Len(rx.buf)} : \E r \in {[rx EXCEPT !.total = @ + n]} :
     \/ Transfer!GivesUp /\ Transfer!RxEnd(rx, rx.result) /\ Transfer!Unlinked
     \/ mode.recv = "discard" /\ Transfer!Discarded(r, n)
     \/ /\ Transfer!Storing /\ ~ Transfer!GivesUp /\ Transfer!Keeps /\ UNCHANGED fds
        /\ disk' = [disk EXCEPT !.data = @ \o rx.buf]
        /\ rx' = [r EXCEPT !.pc = IF rx.result = "ok" THEN "fill" ELSE "trailer",
                           !.unsynced = IF @ + n >= FsyncAfter THEN 0 ELSE @ + n,
                           !.remain = IF rx.result = "ok" THEN @ - n ELSE @, !.buf = << >>]
     \/ /\ Transfer!Unlinked
        /\ \E e \in {"write", "fsync"} : Transfer!RxEnd(IF e = "write" THEN rx ELSE r, e)
  BY Zenon DEF Transfer!RxStore
<1>4. PICK r \in {[rx EXCEPT !.total = @ + n]} :
     \/ Transfer!GivesUp /\ Transfer!RxEnd(rx, rx.result) /\ Transfer!Unlinked
     \/ mode.recv = "discard" /\ Transfer!Discarded(r, n)
     \/ /\ Transfer!Storing /\ ~ Transfer!GivesUp /\ Transfer!Keeps /\ UNCHANGED fds
        /\ disk' = [disk EXCEPT !.data = @ \o rx.buf]
        /\ rx' = [r EXCEPT !.pc = IF rx.result = "ok" THEN "fill" ELSE "trailer",
                           !.unsynced = IF @ + n >= FsyncAfter THEN 0 ELSE @ + n,
                           !.remain = IF rx.result = "ok" THEN @ - n ELSE @, !.buf = << >>]
     \/ /\ Transfer!Unlinked
        /\ \E e \in {"write", "fsync"} : Transfer!RxEnd(IF e = "write" THEN rx ELSE r, e)
  BY <1>3, Zenon
<1>5. n \in Nat /\ n = a - t /\ n <= rx.remain
  BY <1>1, <1>2, <1>3
<1>6. r = [rx EXCEPT !.total = a]
  <2>1. rx.total + n = a
    BY <1>2, <1>5
  <2> QED
    BY <1>4, <2>1, Zenon
<1>7. /\ r \in Receivers /\ r.total = a /\ r.unsynced = rx.unsynced /\ r.remain = rx.remain
      /\ r.result = rx.result
  BY ONLY <1>1, <1>2, <1>6 DEF Receivers
<1>8. CASE Transfer!GivesUp /\ Transfer!RxEnd(rx, rx.result) /\ Transfer!Unlinked
  BY <1>1, <1>8, ReceiverFails DEF Transfer!GivesUp
<1>9. CASE /\ Transfer!Unlinked
           /\ \E e \in {"write", "fsync"} : Transfer!RxEnd(IF e = "write" THEN rx ELSE r, e)
  <2>1. PICK e \in {"write", "fsync"} : Transfer!RxEnd(IF e = "write" THEN rx ELSE r, e)
    BY <1>9
  <2>2. PICK q \in Receivers : Transfer!RxEnd(q, e)
    BY <1>1, <1>7, <2>1
  <2> QED
    BY <1>1, <1>9, <2>2, ReceiverFails DEF RecvResults
<1>10. CASE mode.recv = "discard" /\ Transfer!Discarded(r, n)
  <2>1. CASE rx.result # "ok"
    <3>1. Transfer!RxEnd(r, rx.result) /\ UNCHANGED << disk, fds >>
      BY <1>10, <2>1 DEF Transfer!Discarded
    <3> QED
      BY <1>1, <1>7, <1>10, <2>1, <3>1, ReceiverFails
  <2>2. CASE rx.result = "ok"
    <3>1. PICK e \in Seq(Nat) : e = << >>
      BY NoUnits
    <3>2. PICK m \in Nat : m = rx.remain - n
      BY <1>1, <1>5
    <3>3. rx' = [r EXCEPT !.pc = "fill", !.remain = m, !.buf = e]
      BY <1>7, <1>10, <2>2, <3>1, <3>2 DEF Transfer!Discarded
    <3>4. /\ rx' \in Receivers /\ rx'.pc = "fill" /\ rx'.remain = m /\ rx'.buf = e
          /\ rx'.total = a /\ rx'.result = rx.result
      BY <1>7, <3>3 DEF Receivers
    <3>5. m + a = Goal
      <4>1. PICK k \in Nat : k = rx.remain
        BY <1>1
      <4>2. k + t = Goal /\ m = k - n /\ n = a - t
        BY <1>1, <1>2, <1>5, <3>2, <4>1, Zenon
      <4>3. m + a = k + t
        BY ONLY <4>2, k \in Nat, t \in Nat, a \in Nat, n \in Nat
      <4> QED
        BY <4>2, <4>3
    <3>6. UNCHANGED << link, disk, fds >> /\ disk' \in [exists : BOOLEAN, data : Seq(Nat)]
      BY <1>10, <2>2 DEF Transfer!Discarded, Transfer!Keeps, TransferInv, TransferTypes
    <3> QED
      BY <1>1, <1>2, <1>10, <3>1, <3>4, <3>5, <3>6, BufferStored
  <2> QED
    BY <2>1, <2>2
<1>11. CASE /\ Transfer!Storing /\ ~ Transfer!GivesUp /\ Transfer!Keeps /\ UNCHANGED fds
            /\ disk' = [disk EXCEPT !.data = @ \o rx.buf]
            /\ rx' = [r EXCEPT !.pc = IF rx.result = "ok" THEN "fill" ELSE "trailer",
                               !.unsynced = IF @ + n >= FsyncAfter THEN 0 ELSE @ + n,
                               !.remain = IF rx.result = "ok" THEN @ - n ELSE @, !.buf = << >>]
  <2>1. PICK e \in Seq(Nat) : e = << >>
    BY NoUnits
  <2>2. PICK m \in Nat : m = IF rx.result = "ok" THEN rx.remain - n ELSE rx.remain
    BY <1>1, <1>5
  <2>3. PICK y \in Nat : y = IF rx.unsynced + n >= FsyncAfter THEN 0 ELSE rx.unsynced + n
    BY <1>1
  <2>4. PICK p \in {"fill", "trailer"} : p = IF rx.result = "ok" THEN "fill" ELSE "trailer"
    OBVIOUS
  <2>5. rx' = [r EXCEPT !.pc = p, !.unsynced = y, !.remain = m, !.buf = e]
    BY <1>7, <1>11, <2>1, <2>2, <2>3, <2>4
  <2>6. /\ rx' \in Receivers /\ rx'.pc = p /\ rx'.remain = m /\ rx'.buf = e
        /\ rx'.total = a /\ rx'.result = rx.result
    BY <1>7, <2>5 DEF Receivers
  <2>7. \/ p = "fill" /\ m + a = Goal
        \/ p = "trailer" /\ mode.recv = "infinite" /\ rx.result # "ok"
    <3>1. CASE rx.result = "ok"
      <4>1. m = rx.remain - n /\ p = "fill"
        BY <2>2, <2>4, <3>1
      <4>2. PICK k \in Nat : k = rx.remain
        BY <1>1
      <4>3. m + a = k + t
        BY <1>2, <1>5, <4>1, <4>2
      <4> QED
        BY <1>1, <1>2, <4>1, <4>2, <4>3, Zenon
    <3>2. CASE rx.result # "ok"
      BY <1>1, <1>11, <2>4, <3>2 DEF Transfer!Storing, Transfer!GivesUp, Transfer!Modes
    <3> QED
      BY <3>1, <3>2
  <2>8. PICK d \in Seq(Nat) : d = disk.data \o rx.buf /\ d = SubSeq(Transfer!Units, 1, a)
    <3>1. disk.data = SubSeq(Transfer!Units, 1, rx.total)
          /\ rx.buf = SubSeq(Transfer!Units, rx.total + 1, TakenUnits)
      BY <1>1, <1>11 DEF TransferInv, ReceiverAt, Transfer!Storing
    <3>2. disk.data = SubSeq(U, 1, t) /\ rx.buf = SubSeq(U, t + 1, a)
      BY ONLY <1>2, <3>1, Zenon
    <3>3. U \in Seq(Nat) /\ t \in Nat /\ a \in Nat /\ t <= a /\ a <= Len(U)
      BY <1>2
    <3>4. /\ SubSeq(U, 1, t) \o SubSeq(U, t + 1, a) = SubSeq(U, 1, a)
          /\ SubSeq(U, 1, a) \in Seq(Nat)
      BY ONLY <3>3, FrontJoined
    <3> QED
      BY ONLY <1>2, <3>2, <3>4, Zenon
  <2>9. disk \in [exists : BOOLEAN, data : Seq(Nat)] /\ disk.exists
    BY <1>1, <1>11 DEF TransferInv, TransferTypes, ReceiverAt, Transfer!Storing
  <2>10. disk' = [disk EXCEPT !.data = d]
    BY <1>11, <2>8
  <2>11. disk' \in [exists : BOOLEAN, data : Seq(Nat)] /\ disk'.exists /\ disk'.data = d
    BY <2>9, <2>10
  <2>12. UNCHANGED << link, fds >>
    BY <1>11 DEF Transfer!Keeps
  <2> QED
    BY <1>1, <1>2, <2>1, <2>6, <2>7, <2>8, <2>11, <2>12, BufferStored
<1> QED
  BY <1>4, <1>8, <1>9, <1>10, <1>11

\* The end of an infinite file: the last unit tells whether the rest is whole.
LEMMA ReceiverChecks ==
  ASSUME TransferConstants, TransferInv, Transfer!RxTrailer
  PROVE  TransferInv'
<1>1. /\ rx.pc = "trailer" /\ UNCHANGED << mode, cl, tx, wire >> /\ rx \in Receivers
      /\ mode.recv = "infinite" /\ rx.result # "ok" /\ rx.result \in RecvResults
      /\ disk.exists /\ disk.data = SubSeq(Transfer!Units, 1, rx.total)
      /\ disk \in [exists : BOOLEAN, data : Seq(Nat)] /\ wire \in Seq(Nat)
  BY DEF Transfer!RxTrailer, Transfer!Receiving, TransferInv, TransferTypes, Receivers, ReceiverAt
<1>2. PICK U \in Seq(Nat), t \in Nat, a \in Nat, s \in Nat :
           /\ U = Transfer!Units /\ Len(U) = Total
           /\ t = rx.total /\ a = TakenUnits /\ s = SentUnits
           /\ Len(rx.buf) = a - t /\ t <= a /\ a <= s /\ s <= Total
  BY <1>1, ReceiverFacts
<1>3. PICK n \in {Len(disk.data)} :
     \/ Transfer!RxEnd(rx, rx.result) /\ Transfer!Unlinked
     \/ Transfer!RxEnd(rx, "read_open") /\ UNCHANGED << disk, fds >>
     \/ Transfer!RxEnd(rx, "lseek") /\ Transfer!Unlinked
     \/ /\ n >= 1
        /\ \E r \in {[rx EXCEPT !.total = @ - 1]} :
             IF disk.data[n] # r.total
             THEN Transfer!RxEnd(r, "EINVAL") /\ Transfer!Unlinked
             ELSE /\ Transfer!RxEnd(r, "ok") /\ fds' = fds \ {"write", "read"}
                  /\ disk' = [disk EXCEPT !.data = SubSeq(@, 1, r.total)]
     \/ n >= 1 /\ Transfer!RxEnd([rx EXCEPT !.total = @ - 1], "ftruncate") /\ Transfer!Unlinked
  BY Zenon DEF Transfer!RxTrailer
<1>4. n = t /\ t <= Len(U) /\ disk.data = SubSeq(U, 1, t)
      /\ \A i \in 1 .. t : disk.data[i] = U[i]
  <2>1. U \in Seq(Nat) /\ 0 \in Nat /\ t \in Nat /\ 0 <= t /\ t <= Len(U)
    BY <1>2
  <2>2. /\ Len(SubSeq(U, 0 + 1, t)) = t - 0
        /\ \A i \in 1 .. t - 0 : SubSeq(U, 0 + 1, t)[i] = U[0 + i]
    BY ONLY <2>1, Stretch
  <2>3. /\ Len(SubSeq(U, 1, t)) = t /\ \A i \in 1 .. t : SubSeq(U, 1, t)[i] = U[i]
    BY ONLY <2>1, <2>2
  <2>4. disk.data = SubSeq(U, 1, t) /\ n = Len(disk.data)
    BY <1>1, <1>2, <1>3, Zenon
  <2> QED
    BY ONLY <2>1, <2>3, <2>4
<1>5. ASSUME NEW r \in Receivers, NEW res \in RecvResults, res # "ok", Transfer!RxEnd(r, res),
             Transfer!Unlinked \/ (res = "read_open" /\ UNCHANGED << disk, fds >>)
      PROVE  TransferInv'
  BY <1>1, <1>5, ReceiverFails
<1>6. CASE Transfer!RxEnd(rx, rx.result) /\ Transfer!Unlinked
  BY <1>1, <1>5, <1>6
<1>7. CASE Transfer!RxEnd(rx, "read_open") /\ UNCHANGED << disk, fds >>
  BY <1>1, <1>5, <1>7 DEF RecvResults
<1>8. CASE Transfer!RxEnd(rx, "lseek") /\ Transfer!Unlinked
  BY <1>1, <1>5, <1>8 DEF RecvResults
<1>9. ASSUME n >= 1
      PROVE  \E m \in Nat : /\ m = t - 1 /\ [rx EXCEPT !.total = @ - 1] = [rx EXCEPT !.total = m]
                            /\ [rx EXCEPT !.total = m] \in Receivers
  <2>1. PICK m \in Nat : m = t - 1
    BY <1>4, <1>9
  <2>2. rx.total - 1 = m
    BY <1>2, <2>1
  <2>3. [rx EXCEPT !.total = m] \in Receivers
    BY <1>1 DEF Receivers
  <2> QED
    BY <2>1, <2>2, <2>3, Zenon
<1>10. CASE n >= 1 /\ Transfer!RxEnd([rx EXCEPT !.total = @ - 1], "ftruncate") /\ Transfer!Unlinked
  BY <1>5, <1>9, <1>10 DEF RecvResults
<1>11. CASE /\ n >= 1
            /\ \E r \in {[rx EXCEPT !.total = @ - 1]} :
                 IF disk.data[n] # r.total
                 THEN Transfer!RxEnd(r, "EINVAL") /\ Transfer!Unlinked
                 ELSE /\ Transfer!RxEnd(r, "ok") /\ fds' = fds \ {"write", "read"}
                      /\ disk' = [disk EXCEPT !.data = SubSeq(@, 1, r.total)]
  <2>1. PICK m \in Nat : /\ m = t - 1 /\ [rx EXCEPT !.total = @ - 1] = [rx EXCEPT !.total = m]
                         /\ [rx EXCEPT !.total = m] \in Receivers
    BY <1>9, <1>11
  <2>2. PICK r \in Receivers : /\ r.total = m
             /\ IF disk.data[n] # m
                THEN Transfer!RxEnd(r, "EINVAL") /\ Transfer!Unlinked
                ELSE /\ Transfer!RxEnd(r, "ok") /\ fds' = fds \ {"write", "read"}
                     /\ disk' = [disk EXCEPT !.data = SubSeq(@, 1, m)]
    <3>1. [rx EXCEPT !.total = m].total = m
      BY <1>1 DEF Receivers
    <3> QED
      BY <1>11, <2>1, <3>1, Zenon
  <2>3. CASE disk.data[n] # m
    BY <1>5, <2>2, <2>3 DEF RecvResults
  <2>4. CASE disk.data[n] = m
    <3>1. /\ Transfer!RxEnd(r, "ok") /\ fds' = fds \ {"write", "read"}
          /\ disk' = [disk EXCEPT !.data = SubSeq(@, 1, m)]
      BY <2>2, <2>4
    <3>2. m < Total /\ Transfer!Units[m + 1] = m
      <4>1. t \in 1 .. Total /\ Transfer!Units[t] = m
        BY <1>2, <1>4, <1>11, <2>4
      <4>2. m + 1 = t /\ m < t
        BY <2>1
      <4>3. m < Total
        BY <4>1, <4>2, UnitsFacts
      <4> QED
        BY ONLY <4>1, <4>2, <4>3
    <3>4. m \in Transfer!EndsAt /\ m \in 0 .. Len(SentFile)
      BY <1>1, <3>2, UnitsFacts
    <3>5. SubSeq(disk.data, 1, m) = SubSeq(SentFile, 1, m)
      <4>1. SubSeq(SubSeq(U, 0 + 1, t), 1, m) = SubSeq(U, 0 + 1, 0 + m)
        <5>1. /\ U \in Seq(Nat) /\ 0 \in Nat /\ t \in Nat /\ 0 <= t /\ t <= Len(U) /\ m \in 0 .. t - 0
          BY <1>2, <1>4, <2>1
        <5> QED
          BY ONLY <5>1, StretchCut
      <4>2. 0 + 1 = 1 /\ 0 + m = m
        OBVIOUS
      <4>3. SubSeq(U, 1, m) = SubSeq(SentFile, 1, m)
        BY <1>2, <3>4, UnitsFacts
      <4> QED
        BY ONLY <1>4, <4>1, <4>2, <4>3
    <3>6. SubSeq(SentFile, 1, m) \in Seq(Nat)
      <4>1. SentFile \in Seq(Nat) /\ 0 \in Nat /\ 0 <= m /\ m <= Len(SentFile)
        BY <3>4, UnitsFacts DEF TransferConstants
      <4>2. SubSeq(SentFile, 0 + 1, m) \in Seq(Nat)
        BY <4>1, Stretch
      <4> QED
        BY <4>2
    <3>7. PICK d \in Seq(Nat) : d = SubSeq(SentFile, 1, m) /\ disk' = [disk EXCEPT !.data = d]
      BY <3>1, <3>5, <3>6
    <3>8. disk' = [exists |-> TRUE, data |-> d] /\ disk' \in [exists : BOOLEAN, data : Seq(Nat)]
      BY <1>1, <3>7
    <3>9. Transfer!Received'
      <4>1. Transfer!EndsAt' = Transfer!EndsAt
        BY <1>1, UnitsKept
      <4>2. rx'.result = "ok" /\ rx'.total = m
        BY <2>2, <3>1 DEF Transfer!RxEnd, Receivers
      <4> QED
        BY <3>4, <3>7, <3>8, <4>1, <4>2 DEF Transfer!Received
    <3>10. /\ fds' \cap {"send"} = fds \cap {"send"} /\ "read" \notin fds'
           /\ fds' \cap {"write", "read"} = {}
      BY <3>1
    <3> QED
      BY <1>1, <2>2, <3>1, <3>8, <3>9, <3>10, ReceiverEnds DEF RecvResults
  <2> QED
    BY <2>3, <2>4
<1> QED
  BY <1>3, <1>6, <1>7, <1>8, <1>10, <1>11

\* What comes off the wire in one call of recv.
LEMMA ReceiverTakes ==
  ASSUME TransferConstants, TransferInv, Transfer!RxRecv
  PROVE  TransferInv'
<1>1. /\ rx.pc = "recv" /\ UNCHANGED << mode, cl, tx, link, disk, fds >> /\ rx \in Receivers
      /\ rx.result \in RecvResults /\ rx.result # "read_open" /\ rx.want \in Nat
      /\ rx.buf \in Seq(Nat) /\ wire \in Seq(Nat)
  BY DEF Transfer!RxRecv, Transfer!Receiving, Transfer!Keeps, TransferInv, TransferTypes, Receivers,
         ReceiverAt
<1>2. ASSUME UNCHANGED wire, NEW p \in {"poll", "store"}, NEW res \in RecvResults, res # "read_open",
             rx' = [rx EXCEPT !.pc = p, !.result = res]
      PROVE  TransferInv'
  BY <1>1, <1>2, NothingCame
<1>3. CASE rx' = [rx EXCEPT !.pc = "poll"] /\ UNCHANGED wire
  <2>1. rx' = [rx EXCEPT !.pc = "poll", !.result = rx.result]
    BY <1>1, <1>3 DEF Receivers
  <2> QED
    BY <1>1, <1>2, <1>3, <2>1
<1>4. ASSUME NEW res \in {"ENOTCONN", "ECONNRESET"}, Transfer!RecvEnd(rx, res), UNCHANGED wire
      PROVE  TransferInv'
  <2>1. rx' = [rx EXCEPT !.pc = "store", !.result = res]
    BY <1>4 DEF Transfer!RecvEnd
  <2> QED
    BY <1>2, <1>4, <2>1 DEF RecvResults
<1>5. ASSUME link # "reset",
             NEW k \in 1 .. Transfer!Smaller(rx.want - Len(rx.buf), Len(wire)),
             NEW r, r = [rx EXCEPT !.buf = @ \o SubSeq(wire, 1, k)],
             wire' = SubSeq(wire, k + 1, Len(wire)),
             IF Len(r.buf) = rx.want THEN Transfer!RecvEnd(r, "ok")
             ELSE rx' = [r EXCEPT !.pc = IF mode.recvNb THEN "recv" ELSE "poll"]
      PROVE  TransferInv'
  <2>1. Len(rx.buf) \in Nat /\ Len(wire) \in Nat
    BY <1>1, LenProperties
  <2>2. k \in Nat /\ 1 <= k /\ k <= Len(wire) /\ k <= rx.want - Len(rx.buf)
    <3>1. PICK x \in Int : x = rx.want - Len(rx.buf)
      BY <1>1, <2>1
    <3>2. PICK y \in Nat : y = Len(wire)
      BY <2>1
    <3>3. k \in 1 .. Transfer!Smaller(x, y)
      BY <1>5, <3>1, <3>2, Zenon
    <3>4. k \in Nat /\ 1 <= k /\ k <= y /\ k <= x
      BY ONLY <3>3, x \in Int, y \in Nat DEF Transfer!Smaller
    <3> QED
      BY <3>1, <3>2, <3>4, Zenon
  <2>3. PICK joined : joined = rx.buf \o SubSeq(wire, 1, k)
    OBVIOUS
  <2>4. r = [rx EXCEPT !.buf = joined]
    BY <1>5, <2>3, Zenon
  <2>5. PICK cutOff : cutOff = SubSeq(wire, k + 1, Len(wire)) /\ wire' = cutOff
    BY <1>5, Zenon
  <2>6. \E p \in {"poll", "recv", "store"}, res \in RecvResults :
          /\ res # "read_open" /\ (p # "store" => Len(joined) # rx.want)
          /\ rx' = [rx EXCEPT !.buf = joined, !.pc = p, !.result = res]
    <3>1. DOMAIN rx = {"pc", "remain", "want", "buf", "unsynced", "total", "result"}
          /\ r.buf = joined /\ rx = [rx EXCEPT !.result = rx.result]
      BY ONLY <1>1, <2>4 DEF Receivers
    <3>2. CASE Len(joined) = rx.want
      <4>1. rx' = [rx EXCEPT !.buf = joined, !.pc = "store", !.result = "ok"]
        BY ONLY <1>5, <2>4, <3>1, <3>2, Zenon DEF Transfer!RecvEnd
      <4>2. "ok" \in RecvResults /\ "ok" # "read_open"
        BY DEF RecvResults
      <4> QED
        BY ONLY <4>1, <4>2, Zenon
    <3>3. CASE Len(joined) # rx.want
      <4>1. PICK p \in {"poll", "recv"} : rx' = [r EXCEPT !.pc = p]
        BY ONLY <1>5, <3>1, <3>3, Zenon
      <4>2. rx' = [rx EXCEPT !.buf = joined, !.pc = p, !.result = rx.result]
        BY ONLY <1>1, <2>4, <4>1 DEF Receivers
      <4> QED
        BY ONLY <1>1, <3>3, <4>2, p \in {"poll", "recv"}
    <3> QED
      BY <3>2, <3>3
  <2>7. PICK p \in {"poll", "recv", "store"}, res \in RecvResults :
          /\ res # "read_open" /\ (p # "store" => Len(joined) # rx.want)
          /\ rx' = [rx EXCEPT !.buf = joined, !.pc = p, !.result = res]
    BY <2>6, Zenon
  <2> QED
    <3>1. /\ TransferConstants /\ TransferInv
          /\ UNCHANGED << mode, cl, tx, link, disk, fds >>
          /\ rx.pc = "recv" /\ link # "reset" /\ k \in Nat
      BY <1>1, <1>5, <2>2
    <3> QED
      BY ONLY <2>2, <2>3, <2>5, <2>7, <3>1, p \in {"poll", "recv", "store"}, res \in RecvResults,
              UnitsReceived
<1> QED
  BY <1>3, <1>4, <1>5 DEF Transfer!RxRecv

\* The steps of tcprecvfile, tcprecvfile_ex and tcpdiscard.
LEMMA ReceiverSteps ==
  ASSUME TransferConstants, TransferInv, Transfer!ReceiverStep
  PROVE  TransferInv'
<1>1. CASE Transfer!RxPoll
  <2>1. /\ rx.pc = "poll" /\ UNCHANGED << mode, cl, tx, wire, link, disk, fds >> /\ rx \in Receivers
        /\ rx.result \in RecvResults /\ rx.result # "read_open"
    BY <1>1 DEF Transfer!RxPoll, Transfer!Receiving, Transfer!Keeps, Transfer!Stays, TransferInv,
                TransferTypes, Receivers, ReceiverAt
  <2>2. PICK p \in {"poll", "recv", "store"}, res \in RecvResults \ {"read_open"} :
          rx' = [rx EXCEPT !.pc = p, !.result = res]
    <3>1. CASE rx' = rx
      BY <2>1, <3>1 DEF Receivers
    <3>2. CASE rx' = [rx EXCEPT !.pc = "recv"]
      BY <2>1, <3>2 DEF Receivers
    <3>3. CASE \E res \in {"ENOTCONN", "ETIMEDOUT"} : Transfer!RecvEnd(rx, res)
      BY <3>3 DEF Transfer!RecvEnd, RecvResults
    <3> QED
      BY <1>1, <3>1, <3>2, <3>3 DEF Transfer!RxPoll
  <2> QED
    BY <2>1, <2>2, NothingCame
<1> QED
  BY <1>1, ReceiverOpens, ReceiverFills, ReceiverTakes, ReceiverStores, ReceiverChecks
     DEF Transfer!ReceiverStep

\* A connection that breaks takes what is on the wire with it.
LEMMA ConnectionBreaks ==
  ASSUME TransferInv, Transfer!Reset
  PROVE  TransferInv'
<1>1. /\ link' = "reset" /\ wire' = << >> /\ rx.pc # "done"
      /\ UNCHANGED << mode, cl, tx, rx, disk, fds >>
  BY DEF Transfer!Reset
<1>2. Transfer!Units' = Transfer!Units /\ Total' = Total /\ Goal' = Goal
  BY <1>1, UnitsKept
<1>3. TakenUnits' = TakenUnits /\ SentUnits' = SentUnits
  BY <1>1, <1>2 DEF TakenUnits, SentUnits
<1>4. TransferTypes' /\ Connecting'
  <2>1. wire' \in Seq(Nat)
    BY <1>1, NoUnits
  <2> QED
    BY <1>1, <2>1 DEF TransferInv, TransferTypes, Connecting
<1>5. SenderAt' /\ Stream' /\ ReceiverAt'
  BY <1>1, <1>2, <1>3 DEF TransferInv, SenderAt, Stream, ReceiverAt
<1> QED
  BY <1>4, <1>5 DEF TransferInv

\* The steps of a transfer keep its invariant.
LEMMA TransferNext ==
  ASSUME TransferConstants, TransferInv, Transfer!Next
  PROVE  TransferInv'
BY SetUpSteps, SenderSteps, ReceiverSteps, ConnectionBreaks DEF Transfer!Next

\* A step that is none of the transfer's.
LEMMA TransferStays ==
  ASSUME TransferInv, UNCHANGED Transfer!vars
  PROVE  TransferInv'
<1>1. UNCHANGED << mode, cl, link, wire, tx, rx, disk, fds >>
  BY DEF Transfer!vars
<1>2. /\ Transfer!Units' = Transfer!Units /\ Total' = Total /\ Goal' = Goal
      /\ Transfer!EndsAt' = Transfer!EndsAt
  BY <1>1, UnitsKept
<1>3. TakenUnits' = TakenUnits /\ SentUnits' = SentUnits
  BY <1>1, <1>2 DEF TakenUnits, SentUnits
<1>4. TransferTypes' /\ Connecting'
  BY <1>1 DEF TransferInv, TransferTypes, Connecting
<1>5. SenderAt' /\ Stream' /\ ReceiverAt'
  BY <1>1, <1>2, <1>3 DEF TransferInv, SenderAt, Stream, ReceiverAt, Transfer!Received, Transfer!Storing
<1> QED
  BY <1>4, <1>5 DEF TransferInv

\* The stream as a whole: what is stored, in the buffer and on the wire is what
\* has gone out.
LEMMA WholeStream ==
  ASSUME TransferConstants, TransferInv, rx.pc # "done", link # "reset", Transfer!Storing
  PROVE  disk.data \o rx.buf \o wire = SubSeq(Transfer!Units, 1, Transfer!Out)
<1>1. PICK U \in Seq(Nat), t \in Nat, a \in Nat, s \in Nat :
           /\ U = Transfer!Units /\ Len(U) = Total
           /\ t = rx.total /\ a = TakenUnits /\ s = SentUnits
           /\ Len(rx.buf) = a - t /\ t <= a /\ a <= s /\ s <= Total
  BY ReceiverFacts
<1>2. disk.data = SubSeq(U, 1, t)
  <2>1. CASE rx.pc = "open"
    <3>1. disk.data = << >> /\ t = 0
      BY <1>1, <2>1 DEF TransferInv, ReceiverAt
    <3>2. SubSeq(U, 1, 0) = << >>
      BY SubSeqEmpty
    <3> QED
      BY <3>1, <3>2
  <2>2. CASE rx.pc # "open"
    BY <1>1, <2>2 DEF TransferInv, ReceiverAt, Transfer!Storing
  <2> QED
    BY <2>1, <2>2
<1>3. rx.buf = SubSeq(U, t + 1, a) /\ wire = SubSeq(U, a + 1, s)
  BY <1>1 DEF TransferInv, ReceiverAt, Stream
<1>4. a <= Len(U) /\ s <= Len(U)
  BY <1>1
<1>5. SubSeq(U, 1, t) \o SubSeq(U, t + 1, a) = SubSeq(U, 1, a)
  BY <1>1, <1>4, FrontJoined
<1>6. SubSeq(U, 1, a) \o SubSeq(U, a + 1, s) = SubSeq(U, 1, s)
  BY <1>1, <1>4, FrontJoined
<1>7. s = Transfer!Out
  BY <1>1 DEF SentUnits, Total, Transfer!Out
<1> QED
  BY ONLY <1>1, <1>2, <1>3, <1>5, <1>6, <1>7

\* What the invariant says of a transfer.
LEMMA TransferMeans ==
  ASSUME TransferConstants, TransferInv
  PROVE  Transfer!Sound
<1>1. tx.pc = "done" =>
        /\ tx.result = "ok" => Transfer!Out = Len(Transfer!Units)
        /\ mode.send = "read" => /\ tx.total <= Transfer!Out
                                 /\ tx.result = "ok" => tx.total = Len(Transfer!Units)
        /\ "send" \in fds => tx.result = "fcntl"
  BY UnitsFacts DEF TransferInv, SenderAt, Transfer!Out, Total
<1> QED
  BY <1>1, WholeStream DEF TransferInv, ReceiverAt, Connecting, Transfer!Sound

-----------------------------------------------------------------------------
(* MultiSocket: one request on several sockets.                            *)

\* A byte of an answer: of which request, header or body, and its value.
AnswerUnits == Nat \X {"header", "body"} \X Int

SocketErrors == {"none", "ok", "ENOTCONN", "EACCES", "ECONNRESET", "EINVAL", "EIO", "ETIMEDOUT"}
Askers  == [pc : {"idle", "loop", "returned"}, pulling : Int, success : Int, left : Int, rest : Int,
            result : {"none", "ok", "ENOENT", "ETIMEDOUT"}, req : Nat]
Asked   == [conn : BOOLEAN, sending : BOOLEAN, stage : {"H", "B"}, remain : Nat,
            got : Seq(AnswerUnits), done : BOOLEAN, error : SocketErrors, attached : BOOLEAN]
Servers == [recv : Nat, out : Seq(AnswerUnits), wire : Seq(AnswerUnits), gone : BOOLEAN]

RequestTypes ==
  /\ asking \in Askers
  /\ entry \in [Peers -> Asked] /\ server \in [Peers -> Servers]
  /\ batch \in Seq(Peers)

Open       == {i \in Peers : ~ entry[i].done}
Successful == {i \in Peers : entry[i].error = "ok" /\ entry[i].done}

\* The two counters; nobody is waited for outside the loop.
Counted ==
  /\ asking.pulling = Cardinality(Open)
  /\ asking.success = Cardinality(Successful)
  /\ \A i \in Peers : entry[i].attached <=> ~ entry[i].done
  /\ asking.pc # "loop" => batch = << >> /\ Open = {}
  /\ asking.pc = "returned" => (asking.result = "ok" <=> asking.success > 0)

\* The sockets with an event that is still to be dealt with are attached, and
\* none has two.
SocketsAhead ==
  /\ \A k \in 1 .. Len(batch) : entry[batch[k]].attached
  /\ \A j, k \in 1 .. Len(batch) : batch[j] = batch[k] => j = k

\* What a socket that is attached has still to send or to receive.
Remaining ==
  \A i \in Peers : entry[i].attached =>
    /\ entry[i].remain > 0
    /\ entry[i].sending => entry[i].remain <= RequestSize /\ entry[i].got = << >>
    /\ ~ entry[i].sending /\ entry[i].stage = "H" =>
         entry[i].remain + Len(entry[i].got) = HeaderSize

\* How many units there are in the answer with a length of n.
AnswerSize(n) == HeaderSize + (IF n > 0 THEN n ELSE 0)

\* Of the answer to request r with a length of n the entry e has read the first
\* units, and those behind them, up to the w-th, lie on the wire, as v.
ReadSoFar(e, v, r, n, w) ==
  /\ Len(e.got) <= w /\ w <= AnswerSize(n)
  /\ e.got = SubSeq(Many!Answer(r, n), 1, Len(e.got))
  /\ v = SubSeq(Many!Answer(r, n), Len(e.got) + 1, w)
  /\ e.stage = "B" => n >= 0 /\ e.remain = AnswerSize(n) - Len(e.got)

\* The server has the rest of the answer, unless it has gone.
Answered(i, n, w) ==
  /\ ReadSoFar(entry[i], server[i].wire, asking.req, n, w)
  /\ ~ server[i].gone => server[i].out = SubSeq(Many!Answer(asking.req, n), w + 1, AnswerSize(n))
  /\ server[i].gone => server[i].out = << >>

\* Nothing is left over of an earlier answer on a socket where no request has
\* failed.
Clean(i) == server[i].out = << >> /\ server[i].wire = << >>

AsIf(i) ==
  /\ ~ entry[i].attached =>
       /\ Clean(i) /\ server[i].recv = 0
       /\ entry[i].done /\ entry[i].error = "ok" =>
            \E n \in PeerBodies : n >= 0 /\ entry[i].got = Many!Answer(asking.req, n)
  /\ entry[i].attached /\ entry[i].sending =>
       Clean(i) /\ server[i].recv + entry[i].remain = RequestSize
  /\ entry[i].attached /\ ~ entry[i].sending =>
       \/ /\ Clean(i) /\ server[i].recv = RequestSize
          /\ entry[i].got = << >> /\ entry[i].stage = "H"
       \/ server[i].recv = 0 /\ \E n \in PeerBodies, w \in Nat : Answered(i, n, w)

Unspoilt == \A i \in Peers \ spoilt : AsIf(i)

RequestInv == RequestTypes /\ Counted /\ SocketsAhead /\ Remaining /\ Unspoilt

\* What an answer consists of.
LEMMA AnswerFacts ==
  ASSUME RequestConstants, NEW r \in Nat, NEW n \in Int
  PROVE  /\ Many!Answer(r, n) \in Seq(AnswerUnits)
         /\ Len(Many!Answer(r, n)) = AnswerSize(n)
         /\ AnswerSize(n) \in Nat /\ AnswerSize(n) >= HeaderSize /\ HeaderSize \in Nat \ {0}
         /\ n >= 0 => AnswerSize(n) = HeaderSize + n
         /\ Many!Answer(r, n)[HeaderSize] = << r, "header", n >>
<1> DEFINE h == [i \in 1 .. HeaderSize |-> << r, "header", n >>]
           m == IF n > 0 THEN n ELSE 0
           b == [i \in 1 .. m |-> << r, "body", i >>]
<1>1. HeaderSize \in Nat \ {0} /\ m \in Nat
  BY DEF RequestConstants
<1>2. h \in Seq(AnswerUnits) /\ Len(h) = HeaderSize /\ h[HeaderSize] = << r, "header", n >>
  BY <1>1 DEF AnswerUnits
<1>3. b \in Seq(AnswerUnits) /\ Len(b) = m
  BY <1>1 DEF AnswerUnits
<1>4. Many!Answer(r, n) = h \o b
  BY DEF Many!Answer
<1> HIDE DEF h, b
<1>5. /\ h \o b \in Seq(AnswerUnits) /\ Len(h \o b) = HeaderSize + m
      /\ (h \o b)[HeaderSize] = h[HeaderSize]
  <2>1. /\ h \o b \in Seq(AnswerUnits) /\ Len(h \o b) = Len(h) + Len(b)
        /\ \A i \in 1 .. Len(h) + Len(b) :
             (h \o b)[i] = IF i <= Len(h) THEN h[i] ELSE b[i - Len(h)]
    BY <1>2, <1>3, ConcatProperties
  <2>2. HeaderSize \in 1 .. HeaderSize + m /\ HeaderSize <= HeaderSize
    BY <1>1
  <2> QED
    BY <1>2, <1>3, <2>1, <2>2
<1>6. /\ AnswerSize(n) = HeaderSize + m /\ AnswerSize(n) \in Nat /\ AnswerSize(n) >= HeaderSize
      /\ n >= 0 => AnswerSize(n) = HeaderSize + n
  BY <1>1 DEF AnswerSize
<1> QED
  BY <1>1, <1>2, <1>4, <1>5, <1>6

\* No unit of an answer has come yet.
LEMMA NoAnswer == \E e \in Seq(AnswerUnits) : e = << >>
<1>1. << >> \in Seq(AnswerUnits)
  OBVIOUS
<1> QED
  BY <1>1

\* The head of the batch is a socket that is attached, and it is not in the
\* rest of the batch.
LEMMA HeadOfBatch ==
  ASSUME RequestTypes, SocketsAhead, batch # << >>
  PROVE  /\ Head(batch) \in Peers /\ entry[Head(batch)].attached
         /\ Tail(batch) \in Seq(Peers)
         /\ \A k \in 1 .. Len(Tail(batch)) :
              Tail(batch)[k] # Head(batch) /\ entry[Tail(batch)[k]].attached
         /\ \A j, k \in 1 .. Len(Tail(batch)) : Tail(batch)[j] = Tail(batch)[k] => j = k
<1>1. PICK b \in Seq(Peers) : b = batch
  BY DEF RequestTypes
<1>2. PICK n \in Nat : n = Len(b)
  BY LenProperties
<1>3. n # 0 /\ b # << >>
  BY <1>1, <1>2, EmptySeq
<1>4. /\ Head(b) = b[1] /\ Tail(b) \in Seq(Peers) /\ Len(Tail(b)) = n - 1
      /\ \A k \in 1 .. n - 1 : Tail(b)[k] = b[k + 1]
  BY <1>2, <1>3, HeadTailProperties
<1>5. /\ \A k \in 1 .. n : b[k] \in Peers /\ entry[b[k]].attached
      /\ \A j, k \in 1 .. n : b[j] = b[k] => j = k
  BY <1>1, <1>2, ElementOfSeq DEF SocketsAhead
<1>6. Head(b) \in Peers /\ entry[Head(b)].attached
  BY <1>2, <1>3, <1>4, <1>5
<1>7. ASSUME NEW k \in 1 .. n - 1
      PROVE  Tail(b)[k] # Head(b) /\ entry[Tail(b)[k]].attached
  <2>1. k + 1 \in 1 .. n /\ 1 \in 1 .. n /\ k + 1 # 1
    BY <1>2, <1>3
  <2> QED
    BY <1>4, <1>5, <2>1
<1>8. ASSUME NEW j \in 1 .. n - 1, NEW k \in 1 .. n - 1, Tail(b)[j] = Tail(b)[k]
      PROVE  j = k
  <2>1. j + 1 \in 1 .. n /\ k + 1 \in 1 .. n
    BY <1>2
  <2>2. j + 1 = k + 1
    BY <1>4, <1>5, <1>8, <2>1
  <2> QED
    BY <2>2
<1> QED
  BY <1>1, <1>4, <1>6, <1>7, <1>8

\* What holds of a socket nothing happens to.
LEMMA AsIfKept ==
  ASSUME NEW j, AsIf(j), entry'[j] = entry[j], server'[j] = server[j], asking'.req = asking.req
  PROVE  AsIf(j)'
<1>1. Clean(j)' <=> Clean(j)
  BY DEF Clean
<1>2. \A n : Many!Answer(asking.req, n)' = Many!Answer(asking.req, n)
  BY DEF Many!Answer
<1>3. \A n, w : Answered(j, n, w)' <=> Answered(j, n, w)
  BY <1>2 DEF Answered, ReadSoFar
<1> QED
  BY <1>1, <1>2, <1>3 DEF AsIf

\* The server's side of one socket has moved.
LEMMA ServerMoves ==
  ASSUME RequestInv, NEW i \in Peers, UNCHANGED << asking, entry, batch, spoilt >>,
         NEW s \in Servers, server' = [server EXCEPT ![i] = s], i \in spoilt \/ AsIf(i)'
  PROVE  RequestInv'
<1>1. /\ server' \in [Peers -> Servers]
      /\ \A j \in Peers : j # i => server'[j] = server[j]
  BY DEF RequestInv, RequestTypes
<1>2. Open' = Open /\ Successful' = Successful
  BY DEF Open, Successful
<1>3. RequestTypes' /\ Counted' /\ SocketsAhead' /\ Remaining'
  BY <1>1, <1>2 DEF RequestInv, RequestTypes, Counted, SocketsAhead, Remaining
<1>4. Unspoilt'
  BY <1>1, AsIfKept DEF RequestInv, Unspoilt
<1> QED
  BY <1>3, <1>4 DEF RequestInv

\* An event has been dealt with, and its socket is waited for further.
LEMMA SocketGoesOn ==
  ASSUME RequestInv, batch # << >>, batch' = Tail(batch), UNCHANGED << asking, spoilt >>,
         NEW i, i = Head(batch), NEW e \in Asked, entry' = [entry EXCEPT ![i] = e],
         e.attached, ~ e.done, e.remain > 0,
         e.sending => e.remain <= RequestSize /\ e.got = << >>,
         ~ e.sending /\ e.stage = "H" => e.remain + Len(e.got) = HeaderSize,
         NEW s \in Servers, server' = [server EXCEPT ![i] = s], asking.pc = "loop",
         i \in spoilt \/ AsIf(i)'
  PROVE  RequestInv'
<1>1. /\ i \in Peers /\ entry[i].attached /\ batch' \in Seq(Peers)
      /\ \A k \in 1 .. Len(batch') : batch'[k] # i /\ entry[batch'[k]].attached
      /\ \A j, k \in 1 .. Len(batch') : batch'[j] = batch'[k] => j = k
  BY HeadOfBatch DEF RequestInv
<1>2. /\ server' \in [Peers -> Servers] /\ entry' \in [Peers -> Asked]
      /\ \A j \in Peers : j # i => server'[j] = server[j] /\ entry'[j] = entry[j]
      /\ entry'[i] = e
  BY <1>1 DEF RequestInv, RequestTypes
<1>3. ~ entry[i].done
  BY <1>1 DEF RequestInv, Counted
<1>4. Open' = Open /\ Successful' = Successful
  BY <1>1, <1>2, <1>3 DEF Open, Successful
<1>5. RequestTypes'
  BY <1>1, <1>2 DEF RequestInv, RequestTypes
<1>6. Counted'
  BY <1>1, <1>2, <1>3, <1>4 DEF RequestInv, Counted
<1>7. SocketsAhead'
  <2>1. \A k \in 1 .. Len(batch') : entry'[batch'[k]].attached
    BY <1>1, <1>2, ElementOfSeq
  <2> QED
    BY <1>1, <2>1 DEF SocketsAhead
<1>8. Remaining'
  BY <1>2 DEF RequestInv, Remaining
<1>9. Unspoilt'
  BY <1>2, AsIfKept DEF RequestInv, Unspoilt
<1> QED
  BY <1>5, <1>6, <1>7, <1>8, <1>9 DEF RequestInv

\* The counters are numbers of sockets.
LEMMA CountsFinite ==
  ASSUME RequestConstants
  PROVE  /\ IsFiniteSet(Open) /\ IsFiniteSet(Successful)
         /\ Cardinality(Open) \in Nat /\ Cardinality(Successful) \in Nat
         /\ (Cardinality(Open) = 0 <=> Open = {})
         /\ \A S : Many!Cardinality(S) = Cardinality(S)
<1>1. IsFiniteSet(Open) /\ IsFiniteSet(Successful)
  BY FS_Subset DEF RequestConstants, Open, Successful
<1>2. \A S : Many!Cardinality(S) = Cardinality(S)
  BY DEF Many!Cardinality, Cardinality
<1> QED
  BY <1>1, <1>2, FS_CardinalityType, FS_EmptySet

\* A socket is done with: all its answer has come, or something failed.
LEMMA SocketEnds ==
  ASSUME RequestConstants, RequestInv, batch # << >>, batch' = Tail(batch),
         NEW i, i = Head(batch), NEW e \in Asked, NEW err \in SocketErrors \ {"none"},
         Many!Finish(asking, i, e, err),
         NEW s \in Servers, server' = [server EXCEPT ![i] = s], asking.pc = "loop",
         err = "ok" => \/ i \in spoilt
                       \/ /\ s.recv = 0 /\ s.out = << >> /\ s.wire = << >>
                          /\ \E n \in PeerBodies : n >= 0 /\ e.got = Many!Answer(asking.req, n)
  PROVE  RequestInv'
<1>1. /\ i \in Peers /\ entry[i].attached /\ batch' \in Seq(Peers)
      /\ \A k \in 1 .. Len(batch') : batch'[k] # i /\ entry[batch'[k]].attached
      /\ \A j, k \in 1 .. Len(batch') : batch'[j] = batch'[k] => j = k
  BY HeadOfBatch DEF RequestInv
<1>2. PICK f \in Asked : /\ entry' = [entry EXCEPT ![i] = f]
                         /\ f.error = err /\ f.done = TRUE /\ f.attached = FALSE /\ f.got = e.got
  <2>1. PICK f : f = [e EXCEPT !.error = err, !.done = TRUE, !.attached = FALSE]
    OBVIOUS
  <2>2. /\ f \in Asked
        /\ f.error = err /\ f.done = TRUE /\ f.attached = FALSE /\ f.got = e.got
    BY <2>1 DEF Asked
  <2>3. entry' = [entry EXCEPT ![i] = f]
    BY <2>1 DEF Many!Finish
  <2> QED
    BY <2>2, <2>3
<1>3. /\ server' \in [Peers -> Servers] /\ entry' \in [Peers -> Asked]
      /\ \A j \in Peers : j # i => server'[j] = server[j] /\ entry'[j] = entry[j]
      /\ entry'[i] = f /\ server'[i] = s
  BY <1>1, <1>2 DEF RequestInv, RequestTypes
<1>4. ~ entry[i].done
  BY <1>1 DEF RequestInv, Counted
<1>5. /\ asking \in Askers /\ asking.pulling = Cardinality(Open)
      /\ asking.success = Cardinality(Successful)
  BY DEF RequestInv, RequestTypes, Counted
<1>6. /\ Cardinality(Open') = Cardinality(Open) - 1
  <2>1. i \in Open /\ Open' = Open \ {i}
    BY <1>1, <1>2, <1>3, <1>4 DEF Open
  <2> QED
    BY <2>1, CountsFinite, FS_RemoveElement
<1>7. Cardinality(Successful') = IF err = "ok" THEN Cardinality(Successful) + 1
                                 ELSE Cardinality(Successful)
  <2>1. CASE err = "ok"
    <3>1. i \notin Successful /\ Successful' = Successful \cup {i}
      BY <1>1, <1>2, <1>3, <1>4, <2>1 DEF Successful
    <3> QED
      BY <2>1, <3>1, CountsFinite, FS_AddElement
  <2>2. CASE err # "ok"
    <3>1. Successful' = Successful
      BY <1>1, <1>2, <1>3, <1>4, <2>2 DEF Successful
    <3> QED
      BY <2>2, <3>1
  <2> QED
    BY <2>1, <2>2
<1>8. /\ asking' \in Askers /\ asking'.pc = "loop" /\ asking'.req = asking.req
      /\ asking'.pulling = Cardinality(Open') /\ asking'.success = Cardinality(Successful')
  <2>1. PICK p \in Int : p = asking.pulling - 1
    BY <1>5 DEF Askers
  <2>2. PICK c \in Int : c = IF err = "ok" THEN asking.success + 1 ELSE asking.success
    BY <1>5 DEF Askers
  <2>3. asking' = [asking EXCEPT !.pulling = p, !.success = c]
    BY <2>1, <2>2 DEF Many!Finish
  <2>4. /\ asking' \in Askers /\ asking'.pc = asking.pc /\ asking'.req = asking.req
        /\ asking'.pulling = p /\ asking'.success = c
    BY <1>5, <2>3 DEF Askers
  <2> QED
    BY <1>5, <1>6, <1>7, <2>1, <2>2, <2>4
<1>9. RequestTypes'
  BY <1>1, <1>3, <1>8 DEF RequestTypes
<1>10. Counted'
  BY <1>1, <1>2, <1>3, <1>8 DEF RequestInv, Counted
<1>11. SocketsAhead'
  <2>1. \A k \in 1 .. Len(batch') : entry'[batch'[k]].attached
    BY <1>1, <1>3, ElementOfSeq
  <2> QED
    BY <1>1, <2>1 DEF SocketsAhead
<1>12. Remaining'
  BY <1>2, <1>3 DEF RequestInv, Remaining
<1>13. Unspoilt'
  <2>1. spoilt' = IF err = "ok" THEN spoilt ELSE spoilt \cup {i}
    BY DEF Many!Finish
  <2>2. ASSUME NEW j \in Peers \ spoilt', j # i PROVE AsIf(j)'
    BY <1>3, <1>8, <2>1, <2>2, AsIfKept DEF RequestInv, Unspoilt
  <2>3. ASSUME i \notin spoilt' PROVE AsIf(i)'
    <3>1. /\ err = "ok" /\ s.recv = 0 /\ s.out = << >> /\ s.wire = << >>
          /\ \E n \in PeerBodies : n >= 0 /\ e.got = Many!Answer(asking.req, n)
      BY <2>1, <2>3
    <3>2. \A n : Many!Answer(asking.req, n)' = Many!Answer(asking.req, n)
      BY <1>8 DEF Many!Answer
    <3>3. PICK n \in PeerBodies : n >= 0 /\ entry'[i].got = Many!Answer(asking.req, n)'
      BY <1>2, <1>3, <3>1, <3>2
    <3>4. Clean(i)' /\ server'[i].recv = 0 /\ ~ entry'[i].attached
      BY <1>2, <1>3, <3>1 DEF Clean
    <3> QED
      BY <3>3, <3>4 DEF AsIf
  <2> QED
    BY <2>2, <2>3 DEF Unspoilt
<1> QED
  BY <1>9, <1>10, <1>11, <1>12, <1>13 DEF RequestInv

\* At first nobody has asked anything.
LEMMA RequestStarts ==
  ASSUME RequestConstants, Many!Init
  PROVE  RequestInv
<1>1. PICK C \in SUBSET Peers :
        entry = [i \in Peers |-> [conn |-> i \in C, sending |-> FALSE, stage |-> "H", remain |-> 0,
                                  got |-> << >>, done |-> TRUE, error |-> "none", attached |-> FALSE]]
  BY DEF Many!Init
<1>2. /\ asking = [pc |-> "idle", pulling |-> 0, success |-> 0, left |-> 0, rest |-> 0,
                   result |-> "none", req |-> 0]
      /\ server = [i \in Peers |-> [recv |-> 0, out |-> << >>, wire |-> << >>, gone |-> FALSE]]
      /\ batch = << >>
  BY DEF Many!Init
<1>3. RequestTypes
  <2>1. asking \in Askers /\ batch \in Seq(Peers)
    BY <1>2 DEF Askers
  <2>2. server \in [Peers -> Servers]
    BY <1>2 DEF Servers
  <2>3. entry \in [Peers -> Asked]
    <3>1. ASSUME NEW i \in Peers
          PROVE  [conn |-> i \in C, sending |-> FALSE, stage |-> "H", remain |-> 0, got |-> << >>,
                  done |-> TRUE, error |-> "none", attached |-> FALSE] \in Asked
      <4>1. (i \in C) \in BOOLEAN
        OBVIOUS
      <4> QED
        BY <4>1 DEF Asked, SocketErrors
    <3> QED
      BY <1>1, <3>1
  <2> QED
    BY <2>1, <2>2, <2>3 DEF RequestTypes
<1>4. \A i \in Peers : /\ entry[i].done = TRUE /\ entry[i].attached = FALSE /\ entry[i].error = "none"
                       /\ server[i].recv = 0 /\ server[i].out = << >> /\ server[i].wire = << >>
  BY <1>1, <1>2
<1>5. Open = {} /\ Successful = {} /\ Cardinality({}) = 0
  BY <1>4, FS_EmptySet DEF Open, Successful
<1>6. Counted
  BY <1>2, <1>4, <1>5 DEF Counted
<1>7. SocketsAhead /\ Remaining /\ Unspoilt
  BY <1>2, <1>4 DEF SocketsAhead, Remaining, Unspoilt, AsIf, Clean
<1> QED
  BY <1>3, <1>6, <1>7 DEF RequestInv

\* A request on all sockets that are connected and can be attached.
LEMMA RequestMade ==
  ASSUME RequestConstants, RequestInv, Many!Request
  PROVE  RequestInv'
<1>1. PICK F \in SUBSET {i \in Peers : entry[i].conn} :
        entry' = [i \in Peers |-> Many!Prepared(entry[i], i \in F)]
  BY DEF Many!Request
<1>2. asking.pc # "loop" /\ batch = << >> /\ Open = {} /\ UNCHANGED << batch, server, spoilt >>
  BY DEF Many!Request, RequestInv, Counted
<1>3. ASSUME NEW i \in Peers
      PROVE  /\ entry'[i] \in Asked /\ entry'[i].sending = TRUE /\ entry'[i].got = << >>
             /\ entry'[i].remain = RequestSize
             /\ entry'[i].attached <=> ~ entry'[i].done
             /\ ~ entry'[i].attached => entry'[i].error \in {"ENOTCONN", "EACCES"}
  <2>1. entry[i] \in Asked /\ entry[i].conn \in BOOLEAN /\ entry[i].error \in SocketErrors
    BY <1>3 DEF RequestInv, RequestTypes, Asked
  <2>2. PICK g \in Seq(AnswerUnits) : g = << >>
    BY NoAnswer
  <2>3. PICK d \in BOOLEAN : d = (~ entry[i].conn \/ i \in F)
    OBVIOUS
  <2>4. PICK a \in BOOLEAN : a = (entry[i].conn /\ ~ i \in F)
    OBVIOUS
  <2>5. PICK x \in SocketErrors : x = IF ~ entry[i].conn THEN "ENOTCONN" ELSE IF i \in F THEN "EACCES"
                                      ELSE entry[i].error
    BY <2>1 DEF SocketErrors
  <2>6. entry'[i] = [entry[i] EXCEPT !.remain = RequestSize, !.got = g, !.sending = TRUE,
                                     !.done = d, !.attached = a, !.error = x]
    BY <1>1, <2>2, <2>3, <2>4, <2>5 DEF Many!Prepared
  <2>7. RequestSize \in Nat
    BY DEF RequestConstants
  <2>8. /\ entry'[i] \in Asked /\ entry'[i].sending = TRUE /\ entry'[i].got = g
        /\ entry'[i].remain = RequestSize
        /\ entry'[i].attached = a /\ entry'[i].done = d /\ entry'[i].error = x
    BY <2>1, <2>6, <2>7 DEF Asked
  <2>9. (a <=> ~ d) /\ (~ a => x \in {"ENOTCONN", "EACCES"})
    BY <2>1, <2>3, <2>4, <2>5
  <2> QED
    BY <2>2, <2>8, <2>9
<1>4. PICK n : /\ n = Many!Cardinality({i \in Peers : entry'[i].attached})
               /\ asking' = [asking EXCEPT !.pc = IF n > 0 THEN "loop" ELSE "returned", !.pulling = n,
                                           !.success = 0, !.left = 1, !.req = @ + 1,
                                           !.result = IF n > 0 THEN "none" ELSE "ENOENT"]
  BY DEF Many!Request
<1>5. Open' \in SUBSET Peers /\ Open' = {i \in Peers : entry'[i].attached} /\ Successful' = {}
  BY <1>3 DEF Open, Successful
<1>6. /\ n \in Nat /\ n = Cardinality(Open') /\ (n = 0 <=> Open' = {})
      /\ Cardinality(Successful') = 0
  <2>1. IsFiniteSet(Open')
    BY <1>5, FS_Subset DEF RequestConstants
  <2>2. n = Cardinality(Open')
    BY <1>4, <1>5, CountsFinite
  <2> QED
    BY <1>5, <2>1, <2>2, FS_CardinalityType, FS_EmptySet
<1>7. /\ asking' \in Askers /\ asking'.pulling = n /\ asking'.success = 0
      /\ (n = 0 => asking'.pc = "returned" /\ asking'.result = "ENOENT")
      /\ (n # 0 => asking'.pc = "loop")
  <2>1. asking \in Askers
    BY DEF RequestInv, RequestTypes
  <2>2. PICK p \in {"loop", "returned"} : p = IF n > 0 THEN "loop" ELSE "returned"
    OBVIOUS
  <2>3. PICK res \in {"none", "ENOENT"} : res = IF n > 0 THEN "none" ELSE "ENOENT"
    OBVIOUS
  <2>4. PICK q \in Nat : q = asking.req + 1
    BY <2>1 DEF Askers
  <2>5. asking' = [asking EXCEPT !.pc = p, !.pulling = n, !.success = 0, !.left = 1, !.req = q,
                                 !.result = res]
    BY <1>4, <2>2, <2>3, <2>4
  <2>6. n \in Int
    BY <1>6
  <2>7. /\ p \in {"idle", "loop", "returned"} /\ q \in Nat
        /\ res \in {"none", "ok", "ENOENT", "ETIMEDOUT"}
    BY ONLY p \in {"loop", "returned"}, q \in Nat, res \in {"none", "ENOENT"}
  <2>8. PICK m \in Int, l \in Int : m = 0 /\ l = 1
    OBVIOUS
  <2>9. PICK c \in Askers : c = asking
    BY <2>1
  <2>10. PICK d : d = asking'
    OBVIOUS
  <2>11. d = [c EXCEPT !.pc = p, !.pulling = n, !.success = m, !.left = l, !.req = q, !.result = res]
    BY ONLY <2>5, <2>8, <2>9, <2>10
  <2>12. d \in Askers /\ d.pulling = n /\ d.success = m /\ d.pc = p /\ d.result = res
    BY ONLY <2>6, <2>7, <2>11, m \in Int, l \in Int, c \in Askers DEF Askers
  <2> QED
    BY <1>6, <2>2, <2>3, <2>8, <2>10, <2>12
<1>8. RequestTypes'
  <2>1. entry' \in [Peers -> Asked]
    BY <1>1, <1>3
  <2> QED
    BY <1>2, <1>7, <2>1 DEF RequestInv, RequestTypes
<1>9. Counted'
  <2>1. \A i \in Peers : entry'[i].attached <=> ~ entry'[i].done
    BY <1>3
  <2>2. asking'.pc # "loop" => batch' = << >> /\ Open' = {}
    BY <1>2, <1>6, <1>7
  <2>3. asking'.pc = "returned" => (asking'.result = "ok" <=> asking'.success > 0)
    BY <1>7
  <2> QED
    BY <1>6, <1>7, <2>1, <2>2, <2>3 DEF Counted
<1>10. SocketsAhead' /\ Remaining'
  <2>1. Len(batch') = 0
    BY <1>2
  <2>2. RequestSize \in Nat /\ RequestSize > 0
    BY DEF RequestConstants
  <2>3. \A i \in Peers : entry'[i].sending = TRUE /\ entry'[i].got = << >> /\ entry'[i].remain = RequestSize
    BY <1>3
  <2> QED
    BY <2>1, <2>2, <2>3 DEF SocketsAhead, Remaining
<1>11. Unspoilt'
  <2>1. ASSUME NEW i \in Peers \ spoilt
        PROVE  AsIf(i)'
    <3>1. Clean(i) /\ server[i].recv = 0
      <4>1. ~ entry[i].attached
        BY <1>2 DEF Open, RequestInv, Counted
      <4> QED
        BY <4>1 DEF RequestInv, Unspoilt, AsIf
    <3>2. Clean(i)' /\ server'[i].recv = 0 /\ RequestSize \in Nat
      BY <1>2, <3>1 DEF Clean, RequestConstants
    <3>3. /\ entry'[i].sending = TRUE /\ entry'[i].remain = RequestSize
          /\ ~ entry'[i].attached => entry'[i].error # "ok"
      BY <1>3
    <3> QED
      BY <3>2, <3>3 DEF AsIf
  <2> QED
    BY <1>2, <2>1 DEF Unspoilt
<1> QED
  BY <1>8, <1>9, <1>10, <1>11 DEF RequestInv

\* poll finds some of the sockets that are attached, in any order.
LEMMA EventsFound ==
  ASSUME RequestConstants, RequestInv, Many!Poll
  PROVE  RequestInv'
<1>1. PICK S \in SUBSET {i \in Peers : Many!Ready(i)} : batch' \in Many!Injection(1 .. Many!Cardinality(S), S)
  BY DEF Many!Poll
<1>2. PICK n : /\ n = Many!Cardinality(S) /\ batch' \in [1 .. n -> S]
               /\ \A j, k \in 1 .. n : j # k => batch'[j] # batch'[k]
  BY <1>1 DEF Many!Injection, Many!IsInjective
<1>3. n \in Nat
  <2>1. IsFiniteSet(S)
    BY <1>1, FS_Subset DEF RequestConstants
  <2> QED
    BY <1>2, <2>1, FS_CardinalityType, CountsFinite
<1>4. /\ UNCHANGED << entry, server, spoilt >> /\ asking.pc = "loop"
      /\ asking' = [asking EXCEPT !.rest = asking.left]
  BY DEF Many!Poll
<1>5. /\ asking' \in Askers /\ asking'.pulling = asking.pulling /\ asking'.success = asking.success
      /\ asking'.pc = "loop" /\ asking'.req = asking.req
  BY <1>4 DEF RequestInv, RequestTypes, Askers
<1>6. S \subseteq Peers /\ \A i \in S : entry[i].attached
  BY <1>1 DEF Many!Ready
<1>7. batch' \in Seq(Peers) /\ Len(batch') = n
  BY <1>2, <1>3, <1>6
<1>8. RequestTypes'
  BY <1>4, <1>5, <1>7 DEF RequestInv, RequestTypes
<1>9. Counted' /\ Remaining'
  BY <1>4, <1>5 DEF RequestInv, Counted, Remaining, Open, Successful
<1>10. SocketsAhead'
  BY <1>2, <1>4, <1>6, <1>7 DEF SocketsAhead
<1>11. Unspoilt'
  BY <1>4, <1>5, AsIfKept DEF RequestInv, Unspoilt
<1> QED
  BY <1>8, <1>9, <1>10, <1>11 DEF RequestInv

\* A second of the time is over.
LEMMA SecondOver ==
  ASSUME RequestInv, Many!Tick
  PROVE  RequestInv'
<1>1. /\ UNCHANGED << entry, batch, server, spoilt >> /\ asking.pc = "loop"
      /\ asking' = [asking EXCEPT !.left = @ - 1]
  BY DEF Many!Tick
<1>2. /\ asking' \in Askers /\ asking'.pulling = asking.pulling /\ asking'.success = asking.success
      /\ asking'.pc = "loop" /\ asking'.req = asking.req
  BY <1>1 DEF RequestInv, RequestTypes, Askers
<1>3. RequestTypes' /\ Counted' /\ SocketsAhead' /\ Remaining'
  BY <1>1, <1>2 DEF RequestInv, RequestTypes, Counted, SocketsAhead, Remaining, Open, Successful
<1>4. Unspoilt'
  BY <1>1, <1>2, AsIfKept DEF RequestInv, Unspoilt
<1> QED
  BY <1>3, <1>4 DEF RequestInv

\* The request is over: a socket without its answer has timed out.
LEMMA RequestOver ==
  ASSUME RequestConstants, RequestInv, Many!DealIoEnd
  PROVE  RequestInv'
<1>1. /\ batch = << >> /\ UNCHANGED << batch, server >>
      /\ spoilt' = spoilt \cup Open
      /\ entry' = [i \in Peers |-> IF i \in Open
                                   THEN [entry[i] EXCEPT !.error = "ETIMEDOUT", !.done = TRUE,
                                                         !.attached = FALSE]
                                   ELSE entry[i]]
      /\ asking' = [asking EXCEPT !.pc = "returned", !.pulling = @ - Cardinality(Open),
                                  !.result = IF asking.success > 0 THEN "ok"
                                             ELSE IF asking.pulling = 0 /\ asking.rest > 0
                                                  THEN "ENOENT" ELSE "ETIMEDOUT"]
  BY CountsFinite DEF Many!DealIoEnd, Open
<1>2. /\ asking \in Askers /\ asking.pulling = Cardinality(Open) /\ Cardinality(Open) \in Nat
      /\ asking.success = Cardinality(Successful) /\ asking.success \in Int
  BY CountsFinite DEF RequestInv, RequestTypes, Counted, Askers
<1>3. /\ asking' \in Askers /\ asking'.pc = "returned" /\ asking'.pulling = 0
      /\ asking'.success = asking.success /\ asking'.req = asking.req
      /\ (asking'.result = "ok" <=> asking.success > 0)
  <2>1. PICK res \in {"ok", "ENOENT", "ETIMEDOUT"} :
          res = IF asking.success > 0 THEN "ok"
                ELSE IF asking.pulling = 0 /\ asking.rest > 0 THEN "ENOENT" ELSE "ETIMEDOUT"
    OBVIOUS
  <2>2. asking.pulling - Cardinality(Open) = 0
    BY <1>2
  <2>3. asking' = [asking EXCEPT !.pc = "returned", !.pulling = 0, !.result = res]
    BY <1>1, <2>1, <2>2, Zenon
  <2>4. /\ asking' \in Askers /\ asking'.pc = "returned" /\ asking'.pulling = 0
        /\ asking'.success = asking.success /\ asking'.req = asking.req /\ asking'.result = res
    <3>1. res \in {"none", "ok", "ENOENT", "ETIMEDOUT"}
      BY ONLY res \in {"ok", "ENOENT", "ETIMEDOUT"}
    <3>2. PICK p \in {"idle", "loop", "returned"}, n \in Int : p = "returned" /\ n = 0
      OBVIOUS
    <3>3. PICK c \in Askers : c = asking
      BY <1>2
    <3>4. PICK d : d = asking'
      OBVIOUS
    <3>5. d = [c EXCEPT !.pc = p, !.pulling = n, !.result = res]
      BY ONLY <2>3, <3>2, <3>3, <3>4
    <3>6. /\ d \in Askers /\ d.pc = p /\ d.pulling = n
          /\ d.success = c.success /\ d.req = c.req /\ d.result = res
      BY ONLY <3>1, <3>5, c \in Askers, n \in Int, p \in {"idle", "loop", "returned"} DEF Askers
    <3> QED
      BY ONLY <3>2, <3>3, <3>4, <3>6
  <2>5. res = "ok" <=> asking.success > 0
    BY <2>1
  <2> QED
    BY <2>4, <2>5
<1>4. ASSUME NEW i \in Open
      PROVE  entry'[i] \in Asked /\ entry'[i].done = TRUE /\ entry'[i].attached = FALSE
             /\ entry'[i].error = "ETIMEDOUT"
  BY <1>1, <1>4 DEF RequestInv, RequestTypes, Asked, SocketErrors, Open
<1>5. /\ entry' \in [Peers -> Asked]
      /\ \A i \in Peers : i \notin Open => entry'[i] = entry[i]
  BY <1>1, <1>4 DEF RequestInv, RequestTypes, Open
<1>6. Open' = {} /\ Successful' = Successful
  BY <1>4, <1>5 DEF Open, Successful
<1>7. RequestTypes'
  BY <1>1, <1>3, <1>5 DEF RequestInv, RequestTypes
<1>8. Counted'
  <2>1. \A i \in Peers : entry'[i].attached <=> ~ entry'[i].done
    BY <1>4, <1>5 DEF RequestInv, Counted
  <2> QED
    BY <1>1, <1>2, <1>3, <1>6, <2>1, FS_EmptySet DEF Counted
<1>9. SocketsAhead' /\ Remaining'
  <2>1. \A i \in Peers : ~ entry'[i].attached
    BY <1>4, <1>5 DEF RequestInv, Counted, Open
  <2>2. Len(batch') = 0
    BY <1>1
  <2> QED
    BY <2>1, <2>2 DEF SocketsAhead, Remaining
<1>10. Unspoilt'
  BY <1>1, <1>3, <1>5, AsIfKept DEF RequestInv, Unspoilt
<1> QED
  BY <1>7, <1>8, <1>9, <1>10 DEF RequestInv

\* A server has moved on with its answer to the request, and its units are
\* those of the answer.
LEMMA ServerHasAnswered ==
  ASSUME RequestConstants, RequestInv, NEW i \in Peers, Many!ServerAnswers(i)
  PROVE  RequestInv'
<1>1. PICK n \in PeerBodies :
        server' = [server EXCEPT ![i].recv = @ - RequestSize, ![i].out = @ \o Many!Answer(asking.req, n)]
  BY DEF Many!ServerAnswers
<1>2. /\ UNCHANGED << asking, entry, batch, spoilt >>
      /\ server[i].recv >= RequestSize /\ ~ server[i].gone
  BY DEF Many!ServerAnswers
<1>3. /\ server \in [Peers -> Servers] /\ server[i] \in Servers /\ entry[i] \in Asked
      /\ asking.req \in Nat /\ n \in Int /\ RequestSize \in Nat \ {0}
  BY DEF RequestInv, RequestTypes, Askers, RequestConstants
<1>4. PICK A \in Seq(AnswerUnits) : A = Many!Answer(asking.req, n) /\ Len(A) = AnswerSize(n)
  BY <1>3, AnswerFacts
<1>5. PICK o \in Seq(AnswerUnits) : o = server[i].out \o A
  BY <1>3, <1>4, ConcatProperties DEF Servers
<1>6. PICK v \in Nat : v = server[i].recv - RequestSize
  BY <1>2, <1>3 DEF Servers
<1>7. PICK s : s = [server[i] EXCEPT !.recv = v, !.out = o]
  OBVIOUS
<1>8. /\ s \in Servers /\ s.recv = v /\ s.out = o /\ s.wire = server[i].wire
      /\ s.gone = server[i].gone
  BY ONLY o \in Seq(AnswerUnits), v \in Nat, <1>3, <1>7 DEF Servers
<1>9. server' = [server EXCEPT ![i] = s]
  BY <1>1, <1>4, <1>5, <1>6, <1>7
<1>10. ASSUME i \notin spoilt PROVE AsIf(i)'
  <2>1. AsIf(i) /\ (entry[i].attached => entry[i].remain > 0)
    BY <1>10 DEF RequestInv, Unspoilt, Remaining
  <2>2. /\ entry[i].attached /\ ~ entry[i].sending /\ Clean(i) /\ server[i].recv = RequestSize
        /\ entry[i].got = << >> /\ entry[i].stage = "H"
    <3>1. PICK v1 \in Nat, z \in Nat, e1 \in Nat :
            v1 = server[i].recv /\ z = RequestSize /\ e1 = entry[i].remain
      BY <1>3 DEF Asked, Servers
    <3>2. v1 >= z /\ z > 0
      BY <1>2, <1>3, <3>1
    <3>3. entry[i].attached /\ e1 > 0
      BY <2>1, <3>1, <3>2 DEF AsIf
    <3>4. ~ entry[i].sending
      BY <2>1, <3>1, <3>2, <3>3 DEF AsIf
    <3>5. server[i].recv # 0
      BY <3>1, <3>2
    <3> QED
      BY <2>1, <3>3, <3>4, <3>5 DEF AsIf
  <2>3. server'[i] = s /\ entry'[i] = entry[i] /\ asking' = asking
    BY <1>2, <1>3, <1>9
  <2>4. v = 0
    BY <1>3, <1>6, <2>2
  <2>5. server[i].out = << >> /\ server[i].wire = << >>
    BY <2>2 DEF Clean
  <2>6. PICK a \in Nat : a = Len(A)
    BY LenProperties
  <2>7. /\ SubSeq(A, 1, a) = A /\ SubSeq(A, 1, 0) = << >> /\ << >> \o A = A
        /\ Len(<< >>) = 0
    BY <2>6
  <2>8. o = A /\ s.wire = SubSeq(A, 1, 0) /\ s.out = SubSeq(A, 1, a)
    BY ONLY <1>5, <1>8, <2>5, <2>7
  <2>9. Answered(i, n, 0)'
    <3>1. Len(entry'[i].got) = 0 /\ entry'[i].got = SubSeq(A, 1, 0) /\ entry'[i].stage = "H"
      BY <2>2, <2>3, <2>7
    <3>2. A = Many!Answer(asking.req, n)' /\ a = AnswerSize(n) /\ 0 + 1 = 1 /\ 0 <= a /\ 0 <= 0
      BY <1>4, <2>3, <2>6 DEF Many!Answer
    <3>3. ~ server'[i].gone
      BY <1>2, <1>8, <2>3
    <3>4. server'[i].wire = SubSeq(A, 0 + 1, 0) /\ server'[i].out = SubSeq(A, 0 + 1, a)
      BY ONLY <2>3, <2>8, <3>2
    <3> QED
      BY ONLY <3>1, <3>2, <3>3, <3>4 DEF Answered, ReadSoFar, AnswerSize
  <2>10. entry'[i].attached /\ ~ entry'[i].sending /\ server'[i].recv = 0 /\ 0 \in Nat
    BY <1>8, <2>2, <2>3, <2>4
  <2> QED
    BY ONLY <2>9, <2>10, n \in PeerBodies DEF AsIf
<1> QED
  BY <1>2, <1>8, <1>9, <1>10, ServerMoves

\* Some units of the answer arrive.
LEMMA AnswerArrives ==
  ASSUME RequestConstants, RequestInv, NEW i \in Peers, Many!Arrive(i)
  PROVE  RequestInv'
<1>1. PICK k \in {1, Len(server[i].out)} :
        server' = [server EXCEPT ![i].wire = @ \o SubSeq(server[i].out, 1, k),
                                 ![i].out = SubSeq(@, k + 1, Len(@))]
  BY DEF Many!Arrive
<1>2. /\ UNCHANGED << asking, entry, batch, spoilt >>
      /\ server[i].out # << >> /\ ~ server[i].gone
  BY DEF Many!Arrive
<1>3. /\ server \in [Peers -> Servers] /\ server[i] \in Servers /\ entry[i] \in Asked
      /\ asking.req \in Nat
  BY DEF RequestInv, RequestTypes, Askers
<1>4. PICK o \in Seq(AnswerUnits), w \in Seq(AnswerUnits), m \in Nat :
        o = server[i].out /\ w = server[i].wire /\ m = Len(o)
  BY <1>3, LenProperties DEF Servers
<1>5. m # 0 /\ k \in 1 .. m /\ k \in Nat
  <2>1. m # 0
    BY <1>2, <1>4, EmptySeq
  <2>2. k = 1 \/ k = m
    BY <1>1, <1>4
  <2> QED
    BY <2>1, <2>2
<1>6. PICK p \in Seq(AnswerUnits), q \in Seq(AnswerUnits) :
        p = w \o SubSeq(o, 1, k) /\ q = SubSeq(o, k + 1, m)
  <2>1. SubSeq(o, 1, k) \in Seq(AnswerUnits) /\ SubSeq(o, k + 1, m) \in Seq(AnswerUnits)
    BY <1>4, <1>5, SubSeqProperties
  <2>2. w \o SubSeq(o, 1, k) \in Seq(AnswerUnits)
    BY <2>1, ConcatProperties
  <2> QED
    BY <2>1, <2>2
<1>7. PICK s : s = [server[i] EXCEPT !.wire = p, !.out = q]
  OBVIOUS
<1>8. /\ s \in Servers /\ s.recv = server[i].recv /\ s.out = q /\ s.wire = p
      /\ s.gone = server[i].gone
  BY ONLY p \in Seq(AnswerUnits), q \in Seq(AnswerUnits), <1>3, <1>7 DEF Servers
<1>9. server' = [server EXCEPT ![i] = s]
  BY <1>1, <1>4, <1>6, <1>7
<1>10. ASSUME i \notin spoilt PROVE AsIf(i)'
  <2>1. AsIf(i)
    BY <1>10 DEF RequestInv, Unspoilt
  <2>2. ~ Clean(i)
    BY <1>2 DEF Clean
  <2>3. /\ entry[i].attached /\ ~ entry[i].sending /\ server[i].recv = 0
    BY <2>1, <2>2 DEF AsIf
  <2>4. PICK n \in PeerBodies, a \in Nat : Answered(i, n, a)
    BY <2>1, <2>2, <2>3 DEF AsIf
  <2>5. n \in Int
    BY DEF RequestConstants
  <2>6. PICK A \in Seq(AnswerUnits), z \in Nat :
          A = Many!Answer(asking.req, n) /\ z = Len(A) /\ z = AnswerSize(n)
    BY <1>3, <2>5, AnswerFacts
  <2>7. PICK t \in Nat : t = Len(entry[i].got)
    BY <1>3, LenProperties DEF Asked
  <2>8. /\ t <= a /\ a <= z /\ w = SubSeq(A, t + 1, a) /\ o = SubSeq(A, a + 1, z)
    BY ONLY <1>2, <1>4, <2>4, <2>6, <2>7 DEF Answered, ReadSoFar
  <2>9. m = z - a
    <3>1. Len(SubSeq(A, a + 1, z)) = z - a
      BY <2>6, <2>8, Stretch
    <3> QED
      BY <1>4, <2>8, <3>1
  <2>10. PICK b \in Nat : b = a + k
    BY <1>5
  <2>11. b <= z /\ t <= b
    BY <1>5, <2>8, <2>9, <2>10
  <2>12. p = SubSeq(A, t + 1, b) /\ q = SubSeq(A, b + 1, z)
    <3>1. z <= Len(A)
      BY <2>6
    <3>2. /\ SubSeq(A, t + 1, a) \o SubSeq(SubSeq(A, a + 1, z), 1, k) = SubSeq(A, t + 1, b)
          /\ SubSeq(SubSeq(A, a + 1, z), k + 1, z - a) = SubSeq(A, b + 1, z)
      <4>1. /\ A \in Seq(AnswerUnits) /\ t \in Nat /\ a \in Nat /\ z \in Nat /\ k \in Nat
            /\ b \in Nat /\ b = a + k /\ t <= a /\ b <= z /\ z <= Len(A)
        BY <1>5, <2>8, <2>10, <2>11, <3>1
      <4> QED
        BY ONLY <4>1, StretchTaken
    <3> QED
      BY ONLY <1>6, <2>8, <2>9, <3>2
  <2>13. server'[i] = s /\ entry'[i] = entry[i] /\ asking' = asking
    BY <1>2, <1>3, <1>9
  <2>14. Answered(i, n, b)'
    <3>1. Many!Answer(asking.req, n)' = A
      BY <2>6, <2>13 DEF Many!Answer
    <3>2. /\ entry[i].got = SubSeq(A, 1, t)
          /\ entry[i].stage = "B" => n >= 0 /\ entry[i].remain = z - t
      BY ONLY <2>4, <2>6, <2>7 DEF Answered, ReadSoFar
    <3>3. ~ server'[i].gone /\ server'[i].wire = p /\ server'[i].out = q
      BY <1>2, <1>8, <2>13
    <3> QED
      BY ONLY <2>6, <2>7, <2>11, <2>12, <2>13, <3>1, <3>2, <3>3 DEF Answered, ReadSoFar, AnswerSize
  <2>15. entry'[i].attached /\ ~ entry'[i].sending /\ server'[i].recv = 0
    BY <1>8, <2>3, <2>13
  <2> QED
    BY ONLY <2>14, <2>15, n \in PeerBodies, b \in Nat DEF AsIf
<1> QED
  BY <1>2, <1>8, <1>9, <1>10, ServerMoves

\* A server goes away; what it has sent stays on the wire.
LEMMA ServerGoes ==
  ASSUME RequestConstants, RequestInv, NEW i \in Peers, Many!HangUp(i)
  PROVE  RequestInv'
<1>1. /\ server' = [server EXCEPT ![i].gone = TRUE, ![i].out = << >>]
      /\ UNCHANGED << asking, entry, batch, spoilt >>
  BY DEF Many!HangUp
<1>2. /\ server \in [Peers -> Servers] /\ server[i] \in Servers
  BY DEF RequestInv, RequestTypes
<1>3. PICK o \in Seq(AnswerUnits) : o = << >>
  BY NoAnswer
<1>4. PICK s : s = [server[i] EXCEPT !.gone = TRUE, !.out = o]
  OBVIOUS
<1>5. /\ s \in Servers /\ s.recv = server[i].recv /\ s.out = o /\ s.wire = server[i].wire
      /\ s.gone = TRUE
  BY ONLY <1>2, <1>4, o \in Seq(AnswerUnits) DEF Servers
<1>6. server' = [server EXCEPT ![i] = s]
  BY <1>1, <1>3, <1>4
<1>7. ASSUME i \notin spoilt PROVE AsIf(i)'
  <2>1. AsIf(i)
    BY <1>7 DEF RequestInv, Unspoilt
  <2>2. server'[i] = s /\ entry'[i] = entry[i] /\ asking' = asking
    BY <1>1, <1>2, <1>6
  <2>3. Clean(i) => Clean(i)'
    BY <1>3, <1>5, <2>2 DEF Clean
  <2>4. \A n, w : Answered(i, n, w) => Answered(i, n, w)'
    <3>1. \A n : Many!Answer(asking.req, n)' = Many!Answer(asking.req, n)
      BY <2>2 DEF Many!Answer
    <3> QED
      BY <1>3, <1>5, <2>2, <3>1 DEF Answered, ReadSoFar, AnswerSize
  <2>5. \A n : Many!Answer(asking.req, n)' = Many!Answer(asking.req, n)
    BY <2>2 DEF Many!Answer
  <2> QED
    BY <1>5, <2>1, <2>2, <2>3, <2>4, <2>5 DEF AsIf
<1> QED
  BY <1>1, <1>5, <1>6, <1>7, ServerMoves

\* An error event finishes the socket it is for.
LEMMA ErrorDealt ==
  ASSUME RequestConstants, RequestInv, batch # << >>, batch' = Tail(batch), asking.pc = "loop",
         Many!Finish(asking, Head(batch), entry[Head(batch)], "ECONNRESET"), UNCHANGED server
  PROVE  RequestInv'
<1>1. PICK i \in Peers : i = Head(batch)
  BY HeadOfBatch DEF RequestInv
<1>2. entry[i] \in Asked /\ server[i] \in Servers /\ server \in [Peers -> Servers]
  BY DEF RequestInv, RequestTypes
<1>3. PICK e \in Asked, s \in Servers : e = entry[i] /\ s = server[i] /\ server' = [server EXCEPT ![i] = s]
  BY <1>2
<1>4. PICK err \in SocketErrors \ {"none"} : err = "ECONNRESET"
  BY DEF SocketErrors
<1>5. err # "ok" /\ Many!Finish(asking, i, e, err)
  BY <1>1, <1>3, <1>4
<1> QED
  BY ONLY RequestConstants, RequestInv, batch # << >>, batch' = Tail(batch), asking.pc = "loop",
          <1>1, <1>3, <1>5, SocketEnds, ZenonT(60)

\* What is left to be sent of an entry when k bytes have gone out.
LEMMA BytesOut ==
  ASSUME NEW e \in Asked, NEW k \in 0 .. e.remain, NEW f, f = [e EXCEPT !.remain = @ - k]
  PROVE  /\ f \in Asked /\ f.remain = e.remain - k /\ f.got = e.got /\ f.sending = e.sending
         /\ f.attached = e.attached /\ f.done = e.done
<1>1. PICK r \in Nat : r = e.remain - k
  BY DEF Asked
<1>2. f = [e EXCEPT !.remain = r]
  BY <1>1
<1>3. /\ f \in Asked /\ f.remain = r /\ f.got = e.got /\ f.sending = e.sending
      /\ f.attached = e.attached /\ f.done = e.done
  BY ONLY <1>2, e \in Asked, r \in Nat DEF Asked
<1> QED
  BY <1>1, <1>3

\* An entry that has sent the request and waits for the header.
LEMMA AllOut ==
  ASSUME RequestConstants, NEW e \in Asked,
         NEW f, f = [e EXCEPT !.remain = HeaderSize, !.sending = FALSE, !.stage = "H"]
  PROVE  /\ f \in Asked /\ f.remain = HeaderSize /\ f.got = e.got /\ f.sending = FALSE
         /\ f.stage = "H" /\ f.attached = e.attached /\ f.done = e.done
<1>1. PICK r \in Nat, h \in {"H", "B"}, no \in BOOLEAN : r = HeaderSize /\ h = "H" /\ no = FALSE
  BY DEF RequestConstants
<1>2. f = [e EXCEPT !.remain = r, !.sending = no, !.stage = h]
  BY <1>1
<1>3. /\ f \in Asked /\ f.remain = r /\ f.got = e.got /\ f.sending = no
      /\ f.stage = h /\ f.attached = e.attached /\ f.done = e.done
  BY ONLY <1>2, e \in Asked, r \in Nat, h \in {"H", "B"}, no \in BOOLEAN DEF Asked
<1> QED
  BY <1>1, <1>3

\* The client sends k bytes of the request on the socket.
LEMMA RequestSent ==
  ASSUME RequestConstants, RequestInv, batch # << >>, batch' = Tail(batch), asking.pc = "loop",
         NEW i, i = Head(batch), entry[i].sending, Many!DoSend(i)
  PROVE  RequestInv'
<1>1. i \in Peers /\ entry[i].attached
  BY HeadOfBatch DEF RequestInv
<1>2. /\ entry \in [Peers -> Asked] /\ entry[i] \in Asked
      /\ server \in [Peers -> Servers] /\ server[i] \in Servers
  BY <1>1 DEF RequestInv, RequestTypes
<1>3. PICK k \in 0 .. entry[i].remain :
        /\ server' = [server EXCEPT ![i].recv = @ + k]
        /\ \/ /\ k < entry[i].remain /\ UNCHANGED << asking, spoilt, peerFaults >>
              /\ entry' = [entry EXCEPT ![i].remain = @ - k]
           \/ /\ k = entry[i].remain /\ UNCHANGED << asking, spoilt, peerFaults >>
              /\ entry' = [entry EXCEPT ![i].remain = HeaderSize, ![i].sending = FALSE, ![i].stage = "H"]
           \/ /\ k < entry[i].remain
              /\ Many!Finish(asking, i, [entry[i] EXCEPT !.remain = @ - k], "ECONNRESET")
           \/ /\ k = entry[i].remain
              /\ Many!Finish(asking, i, [entry[i] EXCEPT !.remain = HeaderSize, !.sending = FALSE,
                                                         !.stage = "H"], "EACCES")
  BY <1>1 DEF Many!DoSend
<1>4. PICK m \in Nat, u \in Nat : m = entry[i].remain /\ u = server[i].recv
  BY <1>2 DEF Asked, Servers
<1>5. PICK v \in Nat : v = u + k
  BY <1>3, <1>4
<1>6. PICK s : s = [server[i] EXCEPT !.recv = v]
  OBVIOUS
<1>7. /\ s \in Servers /\ s.recv = v /\ s.out = server[i].out /\ s.wire = server[i].wire
      /\ s.gone = server[i].gone
  BY ONLY <1>2, <1>6, v \in Nat DEF Servers
<1>8. server' = [server EXCEPT ![i] = s]
  BY <1>3, <1>4, <1>5, <1>6
<1>9. server'[i] = s
  BY <1>1, <1>2, <1>8
<1>10. m <= RequestSize /\ entry[i].got = << >> /\ ~ entry[i].done
  BY <1>1, <1>4 DEF RequestInv, Remaining, Counted
<1>11. i \in spoilt \/ (Clean(i) /\ u + m = RequestSize)
  BY <1>1, <1>4 DEF RequestInv, Unspoilt, AsIf
<1>12. PICK f, g : /\ f = [entry[i] EXCEPT !.remain = @ - k]
                   /\ g = [entry[i] EXCEPT !.remain = HeaderSize, !.sending = FALSE, !.stage = "H"]
  OBVIOUS
<1>13. /\ f \in Asked /\ f.remain = m - k /\ f.got = << >> /\ f.sending /\ f.attached /\ ~ f.done
  BY <1>1, <1>2, <1>3, <1>4, <1>10, <1>12, BytesOut
<1>14. /\ g \in Asked /\ g.remain = HeaderSize /\ g.got = << >> /\ ~ g.sending
       /\ g.stage = "H" /\ g.attached /\ ~ g.done
  <2>1. /\ g \in Asked /\ g.remain = HeaderSize /\ g.got = entry[i].got /\ g.sending = FALSE
        /\ g.stage = "H" /\ g.attached = entry[i].attached /\ g.done = entry[i].done
    BY ONLY RequestConstants, <1>2, <1>12, AllOut, ZenonT(60)
  <2> QED
    BY ONLY <1>1, <1>10, <2>1
<1>15. HeaderSize \in Nat \ {0} /\ RequestSize \in Nat
  BY DEF RequestConstants
<1>16. CASE k < entry[i].remain /\ UNCHANGED << asking, spoilt >>
            /\ entry' = [entry EXCEPT ![i].remain = @ - k]
  <2>1. entry' = [entry EXCEPT ![i] = f]
    BY <1>12, <1>16
  <2>2. entry'[i] = f
    BY <1>1, <1>2, <2>1
  <2>3. m - k > 0 /\ m - k <= RequestSize /\ v + (m - k) = u + m
    <3>1. k \in Nat /\ k < m
      BY <1>3, <1>4, <1>16
    <3> QED
      <4>1. PICK z \in Nat : z = RequestSize /\ m <= z
        BY <1>10, <1>15
      <4>2. m - k > 0 /\ m - k <= z /\ v + (m - k) = u + m
        BY ONLY <1>5, <3>1, <4>1, m \in Nat, u \in Nat, v \in Nat, z \in Nat
      <4> QED
        BY ONLY <4>1, <4>2
  <2>4. f.remain > 0 /\ f.remain <= RequestSize
    BY <1>13, <2>3
  <2>5. ASSUME i \notin spoilt PROVE AsIf(i)'
    <3>1. Clean(i)' /\ server'[i].recv + entry'[i].remain = RequestSize
      BY <1>7, <1>9, <1>11, <1>13, <2>2, <2>3, <2>5 DEF Clean
    <3> QED
      BY <1>13, <2>2, <3>1 DEF AsIf
  <2> QED
    BY <1>7, <1>8, <1>13, <1>16, <2>1, <2>4, <2>5, SocketGoesOn
<1>17. CASE k = entry[i].remain /\ UNCHANGED << asking, spoilt >>
            /\ entry' = [entry EXCEPT ![i].remain = HeaderSize, ![i].sending = FALSE, ![i].stage = "H"]
  <2>1. entry' = [entry EXCEPT ![i] = g]
    BY <1>2, <1>12, <1>17
  <2>2. entry'[i] = g
    BY <1>1, <1>2, <2>1
  <2>3. v = u + m
    BY <1>4, <1>5, <1>17
  <2>4. Len(g.got) = 0
    BY <1>14
  <2>5. g.remain > 0 /\ g.remain + Len(g.got) = HeaderSize
    BY <1>14, <1>15, <2>4
  <2>6. ASSUME i \notin spoilt PROVE AsIf(i)'
    <3>1. Clean(i)' /\ server'[i].recv = RequestSize
      BY <1>7, <1>9, <1>11, <2>3, <2>6 DEF Clean
    <3> QED
      BY <1>14, <2>2, <3>1 DEF AsIf
  <2> QED
    BY <1>7, <1>8, <1>14, <1>17, <2>1, <2>5, <2>6, SocketGoesOn
<1>18. ASSUME NEW e \in Asked, NEW err \in {"ECONNRESET", "EACCES"}, Many!Finish(asking, i, e, err)
       PROVE  RequestInv'
  <2>1. err \in SocketErrors \ {"none"} /\ err # "ok"
    BY <1>18 DEF SocketErrors
  <2> QED
    BY <1>7, <1>8, <1>18, <2>1, SocketEnds
<1>19. CASE Many!Finish(asking, i, [entry[i] EXCEPT !.remain = @ - k], "ECONNRESET")
  BY <1>12, <1>13, <1>18, <1>19
<1>20. CASE Many!Finish(asking, i, [entry[i] EXCEPT !.remain = HeaderSize, !.sending = FALSE,
                                                    !.stage = "H"], "EACCES")
  BY <1>12, <1>14, <1>18, <1>20
<1> QED
  BY <1>3, <1>16, <1>17, <1>19, <1>20

\* A round of the loop of do_recv makes f of the entry e: it takes k units off
\* what lies on the wire, w, all that is there or all that is wanted, and leaves v.
Round(e, w, f, v, k) ==
  /\ k <= e.remain /\ k <= Len(w) /\ (k = e.remain \/ k = Len(w))
  /\ f \in Asked /\ f.remain = e.remain - k /\ f.got = e.got \o SubSeq(w, 1, k)
  /\ Len(f.got) = Len(e.got) + k /\ f.sending = e.sending /\ f.stage = e.stage
  /\ f.done = e.done /\ f.attached = e.attached
  /\ v = SubSeq(w, k + 1, Len(w)) /\ v \in Seq(AnswerUnits)

\* TakeUnits is such a round.
LEMMA RoundTaken ==
  ASSUME NEW e \in Asked, NEW w \in Seq(AnswerUnits), NEW f, f = Many!TakeUnits(e, w),
         NEW v, v = SubSeq(w, 1 + Len(f.got) - Len(e.got), Len(w))
  PROVE  \E k \in Nat : Round(e, w, f, v, k)
<1>1. PICK m \in Nat, l \in Nat, g \in Seq(AnswerUnits), q \in Nat :
        m = e.remain /\ l = Len(w) /\ g = e.got /\ q = Len(g)
  BY LenProperties DEF Asked
<1>2. PICK k \in Nat : k = IF l < m THEN l ELSE m
  BY <1>1
<1>3. k <= m /\ k <= l /\ (k = m \/ k = l)
  BY <1>1, <1>2
<1>4. PICK r \in Nat : r = m - k
  BY <1>1, <1>3
<1>5. PICK x \in Seq(AnswerUnits) : x = SubSeq(w, 1, k) /\ Len(x) = k
  <2>1. /\ 0 \in Nat /\ k \in Nat /\ w \in Seq(AnswerUnits) /\ 0 <= k /\ k <= Len(w)
        /\ 0 + 1 = 1 /\ k - 0 = k
    BY <1>1, <1>3
  <2>2. SubSeq(w, 0 + 1, k) \in Seq(AnswerUnits) /\ Len(SubSeq(w, 0 + 1, k)) = k - 0
    BY ONLY <2>1, Stretch
  <2> QED
    BY ONLY <2>1, <2>2
<1>6. PICK h \in Seq(AnswerUnits) : h = g \o x /\ Len(h) = q + k
  <2>1. g \o x \in Seq(AnswerUnits) /\ Len(g \o x) = Len(g) + Len(x)
    BY ONLY g \in Seq(AnswerUnits), x \in Seq(AnswerUnits), ConcatProperties
  <2> QED
    BY ONLY <1>1, <1>5, <2>1
<1>7. f = [e EXCEPT !.got = h, !.remain = r]
  BY <1>1, <1>2, <1>4, <1>5, <1>6 DEF Many!TakeUnits
<1>8. /\ f \in Asked /\ f.remain = r /\ f.got = h /\ f.sending = e.sending /\ f.stage = e.stage
      /\ f.done = e.done /\ f.attached = e.attached
  BY ONLY <1>7, e \in Asked, r \in Nat, h \in Seq(AnswerUnits) DEF Asked
<1>9. v = SubSeq(w, k + 1, l)
  <2>1. 1 + (q + k) - q = k + 1
    BY <1>1, <1>2
  <2> QED
    BY ONLY <1>1, <1>6, <1>8, <2>1, v = SubSeq(w, 1 + Len(f.got) - Len(e.got), Len(w))
<1>10. SubSeq(w, k + 1, l) \in Seq(AnswerUnits)
  BY <1>1, <1>3, SubSeqProperties
<1>11. Round(e, w, f, v, k)
  BY ONLY <1>1, <1>3, <1>4, <1>5, <1>6, <1>8, <1>9, <1>10 DEF Round
<1> QED
  BY <1>11

\* What such a round reads is the next stretch of the answer.
LEMMA RoundReads ==
  ASSUME RequestConstants, NEW e \in Asked, NEW w \in Seq(AnswerUnits), NEW f \in Asked, NEW v,
         NEW r \in Nat, NEW n \in Int, NEW b \in Nat, ReadSoFar(e, w, r, n, b),
         NEW k \in Nat, Round(e, w, f, v, k)
  PROVE  ReadSoFar(f, v, r, n, b)
<1> USE DEF Round
<1>1. PICK A \in Seq(AnswerUnits), z \in Nat :
        A = Many!Answer(r, n) /\ z = Len(A) /\ z = AnswerSize(n)
  BY AnswerFacts
<1>2. PICK t \in Nat, m \in Nat : t = Len(e.got) /\ m = e.remain
  BY LenProperties DEF Asked
<1>3. /\ t <= b /\ b <= z /\ e.got = SubSeq(A, 1, t) /\ w = SubSeq(A, t + 1, b)
      /\ e.stage = "B" => n >= 0 /\ m = z - t
  BY ONLY <1>1, <1>2, ReadSoFar(e, w, r, n, b) DEF ReadSoFar
<1>4. Len(w) = b - t
  <2>1. Len(SubSeq(A, t + 1, b)) = b - t
    BY <1>1, <1>3, Stretch
  <2> QED
    BY <1>3, <2>1
<1>5. PICK c \in Nat : c = t + k
  BY <1>2
<1>6. c <= b /\ t <= c /\ b - t \in Nat
  <2>1. k <= b - t
    BY <1>4
  <2> QED
    BY <1>2, <1>3, <1>5, <2>1
<1>7. /\ SubSeq(A, 1, t) \o SubSeq(SubSeq(A, t + 1, b), 1, k) = SubSeq(A, 1, c)
      /\ SubSeq(SubSeq(A, t + 1, b), k + 1, b - t) = SubSeq(A, c + 1, b)
  <2>1. /\ A \in Seq(AnswerUnits) /\ 0 \in Nat /\ t \in Nat /\ b \in Nat /\ k \in Nat /\ c \in Nat
        /\ c = t + k /\ 0 <= t /\ c <= b /\ b <= Len(A) /\ 0 + 1 = 1
    BY <1>1, <1>3, <1>5, <1>6
  <2>2. /\ SubSeq(A, 0 + 1, t) \o SubSeq(SubSeq(A, t + 1, b), 1, k) = SubSeq(A, 0 + 1, c)
        /\ SubSeq(SubSeq(A, t + 1, b), k + 1, b - t) = SubSeq(A, c + 1, b)
    BY ONLY <2>1, StretchTaken
  <2> QED
    BY ONLY <2>1, <2>2
<1>8. Len(f.got) = c /\ f.got = SubSeq(A, 1, c) /\ v = SubSeq(A, c + 1, b)
  BY ONLY <1>2, <1>3, <1>4, <1>5, <1>7, Round(e, w, f, v, k) DEF Round
<1>9. f.stage = "B" => n >= 0 /\ f.remain = z - c
  <2>1. m = z - t => m - k = z - c
    BY <1>1, <1>2, <1>5
  <2> QED
    BY ONLY <1>2, <1>3, <2>1, Round(e, w, f, v, k) DEF Round
<1> QED
  BY ONLY <1>1, <1>3, <1>6, <1>8, <1>9 DEF ReadSoFar, AnswerSize

\* The header of e is complete; f waits for the body.
Headed(e, f) ==
  /\ f \in Asked /\ f.got = e.got /\ f.sending = e.sending /\ f.stage = "B"
  /\ f.done = e.done /\ f.attached = e.attached
  /\ \E n \in Int : n = Many!BodyLength(e) /\ f.remain = IF n > 0 THEN n ELSE 0

\* AfterHeader reads the length.
LEMMA HeaderThere ==
  ASSUME RequestConstants, NEW e \in Asked, Len(e.got) = HeaderSize, NEW f, f = Many!AfterHeader(e)
  PROVE  Headed(e, f)
<1>1. PICK g \in Seq(AnswerUnits), m \in Nat \ {0} : g = e.got /\ m = HeaderSize /\ Len(g) = m
  BY DEF Asked, RequestConstants
<1>2. Many!BodyLength(e) = g[m] [3]
  BY <1>1 DEF Many!BodyLength
<1>3. PICK x \in Int : x = Many!BodyLength(e)
  <2>1. g[m] \in AnswerUnits
    BY <1>1, ElementOfSeq
  <2> QED
    BY <1>2, <2>1 DEF AnswerUnits
<1>4. PICK p \in Nat : p = IF x > 0 THEN x ELSE 0
  OBVIOUS
<1>5. PICK h \in {"H", "B"} : h = "B"
  OBVIOUS
<1>6. f = [e EXCEPT !.stage = h, !.remain = p]
  BY <1>3, <1>4, <1>5 DEF Many!AfterHeader
<1>7. /\ f \in Asked /\ f.got = e.got /\ f.sending = e.sending /\ f.stage = h
      /\ f.done = e.done /\ f.attached = e.attached /\ f.remain = p
  BY ONLY <1>6, e \in Asked, p \in Nat, h \in {"H", "B"} DEF Asked
<1> QED
  BY ONLY <1>3, <1>4, <1>5, <1>7, x \in Int DEF Headed

\* The length is that of the answer.
LEMMA HeaderRead ==
  ASSUME RequestConstants, NEW e \in Asked, Len(e.got) = HeaderSize, NEW f, Headed(e, f),
         NEW w, NEW r \in Nat, NEW n \in Int, NEW b \in Nat, ReadSoFar(e, w, r, n, b)
  PROVE  Many!BodyLength(e) = n /\ (n >= 0 => ReadSoFar(f, w, r, n, b))
<1>1. PICK g \in Seq(AnswerUnits), m \in Nat \ {0} : g = e.got /\ m = HeaderSize /\ Len(g) = m
  BY DEF Asked, RequestConstants
<1>2. PICK x \in Int : x = g[m] [3] /\ x = Many!BodyLength(e)
                       /\ f.remain = IF x > 0 THEN x ELSE 0
  BY <1>1 DEF Many!BodyLength, Headed
<1>3. PICK A \in Seq(AnswerUnits), z \in Nat :
        /\ A = Many!Answer(r, n) /\ z = Len(A) /\ z = AnswerSize(n) /\ m <= z
        /\ A[m] = << r, "header", n >> /\ (n >= 0 => z = m + n)
  BY <1>1, AnswerFacts
<1>4. /\ m <= b /\ b <= z /\ g = SubSeq(A, 1, m) /\ w = SubSeq(A, m + 1, b)
  BY ONLY <1>1, <1>3, ReadSoFar(e, w, r, n, b) DEF ReadSoFar
<1>5. g[m] = A[m]
  <2>1. 0 \in Nat /\ 0 <= m /\ m <= Len(A) /\ m \in 1 .. m - 0 /\ 0 + m = m /\ 0 + 1 = 1
    BY <1>3
  <2>2. SubSeq(A, 0 + 1, m)[m] = A[0 + m]
    BY <2>1, Stretch
  <2> QED
    BY ONLY <1>4, <2>1, <2>2
<1>6. x = n
  <2>1. << r, "header", n >>[3] = n
    OBVIOUS
  <2> QED
    BY ONLY <1>2, <1>3, <1>5, <2>1
<1>7. n >= 0 => f.remain = z - m
  <2>1. n >= 0 => (IF n > 0 THEN n ELSE 0) = z - m
    BY <1>1, <1>3
  <2> QED
    BY <1>2, <1>6, <2>1
<1>8. f.got = g
  BY <1>1 DEF Headed
<1>9. n >= 0 => ReadSoFar(f, w, r, n, b)
  BY ONLY <1>1, <1>3, <1>4, <1>7, <1>8 DEF ReadSoFar, AnswerSize
<1> QED
  BY <1>2, <1>6, <1>9

\* What one call of do_recv on the entry e makes of it and of what lies on the
\* wire: with the header, the body is read at once.
CallDone(e, w, f, v) ==
  /\ f \in Asked /\ v \in Seq(AnswerUnits)
  /\ f.sending = e.sending /\ f.done = e.done /\ f.attached = e.attached
  /\ f.remain = 0 => f.stage = "B"
  /\ f.stage = "H" => f.remain + Len(f.got) = HeaderSize
  /\ w = << >> => f.got = e.got /\ f.stage = e.stage /\ v = << >>

\* The first round, with or without the end of the header.
LEMMA FirstRound ==
  ASSUME RequestConstants, NEW e \in Asked, NEW w \in Seq(AnswerUnits), e.remain > 0,
         e.stage = "H" => e.remain + Len(e.got) = HeaderSize,
         NEW f, NEW v, NEW k \in Nat, Round(e, w, f, v, k)
  PROVE  /\ f.stage = "H" => f.remain + Len(f.got) = HeaderSize
         /\ f.stage = "H" /\ f.remain = 0 => Len(f.got) = HeaderSize
         /\ w = << >> => f.got = e.got /\ v = << >> /\ f.remain > 0
<1>1. PICK m \in Nat, t \in Nat, q \in Nat, g \in Seq(AnswerUnits) :
        m = e.remain /\ t = Len(g) /\ g = e.got /\ q = f.remain
  BY LenProperties DEF Round, Asked
<1>2. /\ q = m - k /\ Len(f.got) = t + k /\ f.stage = e.stage /\ k <= Len(w)
      /\ f.got = g \o SubSeq(w, 1, k) /\ v = SubSeq(w, k + 1, Len(w))
  BY ONLY <1>1, Round(e, w, f, v, k) DEF Round
<1>3. (m - k) + (t + k) = m + t
  BY ONLY m \in Nat, k \in Nat, t \in Nat
<1>4. 0 + (t + k) = t + k
  BY <1>1
<1>5. ASSUME w = << >> PROVE f.got = g /\ v = << >> /\ q = m
  <2>1. Len(w) = 0 /\ k = 0
    BY <1>2, <1>5
  <2>2. /\ SubSeq(<< >>, 1, 0) = << >> /\ g \o << >> = g /\ m - 0 = m /\ 0 + 1 = 1
    BY <1>1
  <2> QED
    BY ONLY <1>2, <1>5, <2>1, <2>2
<1>6. f.stage = "H" => f.remain + Len(f.got) = HeaderSize
  BY ONLY <1>1, <1>2, <1>3, e.stage = "H" => e.remain + Len(e.got) = HeaderSize
<1>7. f.stage = "H" /\ f.remain = 0 => Len(f.got) = HeaderSize
  BY ONLY <1>2, <1>4, <1>6
<1>8. e.remain > 0 /\ w = << >> => f.remain > 0
  BY <1>1, <1>5
<1> QED
  BY <1>1, <1>5, <1>6, <1>7, <1>8

\* A call that does not find the end of the header.
LEMMA CallOfOneRound ==
  ASSUME RequestConstants, NEW e \in Asked, NEW w \in Seq(AnswerUnits), e.remain > 0,
         e.stage = "H" => e.remain + Len(e.got) = HeaderSize,
         NEW f, NEW v, NEW k \in Nat, Round(e, w, f, v, k), ~ (f.remain = 0 /\ f.stage = "H")
  PROVE  CallDone(e, w, f, v)
<1>1. /\ f.stage = "H" => f.remain + Len(f.got) = HeaderSize
      /\ w = << >> => f.got = e.got /\ v = << >>
  BY FirstRound
<1>2. f.remain = 0 => f.stage = "B"
  BY DEF Round, Asked
<1> QED
  BY <1>1, <1>2 DEF CallDone, Round

\* A call that does: it goes on with the body.
LEMMA CallOfTwoRounds ==
  ASSUME RequestConstants, NEW e \in Asked, NEW w \in Seq(AnswerUnits), e.remain > 0,
         e.stage = "H" => e.remain + Len(e.got) = HeaderSize,
         NEW f1, NEW v1, NEW k \in Nat, Round(e, w, f1, v1, k), f1.remain = 0 /\ f1.stage = "H",
         NEW f2, Headed(f1, f2), NEW f, NEW v, NEW j \in Nat, Round(f2, v1, f, v, j)
  PROVE  CallDone(e, w, f, v)
<1>1. w # << >>
  BY FirstRound
<1> QED
  BY <1>1 DEF CallDone, Round, Headed

\* A call of do_recv, with the header at its end or not: e1 and w1 after the
\* first round, e2 when the length is known, f and v at the end.
Call(e, w, e1, w1, e2, f, v) ==
  /\ e1 = Many!TakeUnits(e, w) /\ w1 = SubSeq(w, 1 + Len(e1.got) - Len(e.got), Len(w))
  /\ v = SubSeq(w1, 1 + Len(f.got) - Len(e2.got), Len(w1))
  /\ \/ /\ e1.remain = 0 /\ e1.stage = "H"
        /\ e2 = Many!AfterHeader(e1) /\ f = Many!TakeUnits(e2, w1)
     \/ ~ (e1.remain = 0 /\ e1.stage = "H") /\ e2 = e1 /\ f = e1

\* It is one round, or the header's end and one more.
LEMMA CallRounds ==
  ASSUME RequestConstants, NEW e \in Asked, NEW w \in Seq(AnswerUnits), e.remain > 0,
         e.stage = "H" => e.remain + Len(e.got) = HeaderSize,
         NEW e1, NEW w1, NEW e2, NEW f, NEW v, Call(e, w, e1, w1, e2, f, v)
  PROVE  \E k \in Nat : Round(e, w, e1, w1, k) /\
           \/ ~ (e1.remain = 0 /\ e1.stage = "H") /\ e2 = e1 /\ f = e1 /\ v = w1
           \/ e1.remain = 0 /\ e1.stage = "H" /\ Len(e1.got) = HeaderSize /\ Headed(e1, e2)
              /\ \E j \in Nat : Round(e2, w1, f, v, j)
<1>1. PICK k \in Nat : Round(e, w, e1, w1, k)
  BY RoundTaken DEF Call
<1>2. e1 \in Asked /\ w1 \in Seq(AnswerUnits)
  BY <1>1 DEF Round
<1>3. CASE ~ (e1.remain = 0 /\ e1.stage = "H")
  <2>1. e2 = e1 /\ f = e1 /\ v = SubSeq(w1, 1 + Len(e1.got) - Len(e1.got), Len(w1))
    BY <1>3 DEF Call
  <2>2. PICK q \in Nat : q = Len(e1.got)
    BY <1>2, LenProperties DEF Asked
  <2>3. 1 + q - q = 1
    OBVIOUS
  <2>4. SubSeq(w1, 1, Len(w1)) = w1
    BY <1>2
  <2>5. v = w1
    BY ONLY <2>1, <2>2, <2>3, <2>4
  <2> QED
    BY <1>1, <1>3, <2>1, <2>5
<1>4. CASE e1.remain = 0 /\ e1.stage = "H"
  <2>1. /\ e2 = Many!AfterHeader(e1) /\ f = Many!TakeUnits(e2, w1)
        /\ v = SubSeq(w1, 1 + Len(f.got) - Len(e2.got), Len(w1))
    BY <1>4 DEF Call
  <2>2. Len(e1.got) = HeaderSize
    BY <1>1, <1>4, FirstRound
  <2>3. Headed(e1, e2)
    BY <1>2, <2>1, <2>2, HeaderThere
  <2>4. e2 \in Asked
    BY <2>3 DEF Headed
  <2>5. \E j \in Nat : Round(e2, w1, f, v, j)
    BY <1>2, <2>1, <2>4, RoundTaken
  <2> QED
    BY <1>1, <1>4, <2>2, <2>3, <2>5
<1> QED
  BY <1>3, <1>4

\* What holds of the entry afterwards.
LEMMA CallFacts ==
  ASSUME RequestConstants, NEW e \in Asked, NEW w \in Seq(AnswerUnits), e.remain > 0,
         e.stage = "H" => e.remain + Len(e.got) = HeaderSize,
         NEW e1, NEW w1, NEW e2, NEW f, NEW v, Call(e, w, e1, w1, e2, f, v)
  PROVE  e2 \in Asked /\ CallDone(e, w, f, v)
<1>1. PICK k \in Nat : Round(e, w, e1, w1, k) /\
           \/ ~ (e1.remain = 0 /\ e1.stage = "H") /\ e2 = e1 /\ f = e1 /\ v = w1
           \/ e1.remain = 0 /\ e1.stage = "H" /\ Len(e1.got) = HeaderSize /\ Headed(e1, e2)
              /\ \E j \in Nat : Round(e2, w1, f, v, j)
  BY CallRounds
<1>2. CASE ~ (e1.remain = 0 /\ e1.stage = "H") /\ e2 = e1 /\ f = e1 /\ v = w1
  <2>1. CallDone(e, w, e1, w1)
    BY <1>1, <1>2, CallOfOneRound
  <2>2. e1 \in Asked
    BY <1>1 DEF Round
  <2> QED
    BY ONLY <1>2, <2>1, <2>2
<1>3. CASE e1.remain = 0 /\ e1.stage = "H" /\ Headed(e1, e2) /\ \E j \in Nat : Round(e2, w1, f, v, j)
  <2>1. PICK j \in Nat : Round(e2, w1, f, v, j)
    BY <1>3
  <2>2. CallDone(e, w, f, v)
    BY <1>1, <1>3, <2>1, CallOfTwoRounds
  <2>3. e2 \in Asked
    BY <1>3 DEF Headed
  <2> QED
    BY ONLY <2>2, <2>3
<1> QED
  BY <1>1, <1>2, <1>3

\* What is read is the answer, as far as it has come, unless its length is
\* nonsense.
LEMMA CallReads ==
  ASSUME RequestConstants, NEW e \in Asked, NEW w \in Seq(AnswerUnits), e.remain > 0,
         e.stage = "H" => e.remain + Len(e.got) = HeaderSize,
         NEW e1, NEW w1, NEW e2, NEW f, NEW v, Call(e, w, e1, w1, e2, f, v),
         NEW r \in Nat, NEW n \in Int, NEW b \in Nat, ReadSoFar(e, w, r, n, b)
  PROVE  \/ ReadSoFar(f, v, r, n, b)
         \/ e1.remain = 0 /\ e1.stage = "H" /\ Many!BodyLength(e1) < 0
<1>1. PICK k \in Nat : Round(e, w, e1, w1, k) /\
           \/ ~ (e1.remain = 0 /\ e1.stage = "H") /\ e2 = e1 /\ f = e1 /\ v = w1
           \/ e1.remain = 0 /\ e1.stage = "H" /\ Len(e1.got) = HeaderSize /\ Headed(e1, e2)
              /\ \E j \in Nat : Round(e2, w1, f, v, j)
  BY CallRounds
<1>2. e1 \in Asked /\ w1 \in Seq(AnswerUnits)
  BY <1>1 DEF Round
<1>3. ReadSoFar(e1, w1, r, n, b)
  BY <1>1, <1>2, RoundReads
<1>4. CASE e1.remain = 0 /\ e1.stage = "H" /\ Len(e1.got) = HeaderSize /\ Headed(e1, e2)
           /\ \E j \in Nat : Round(e2, w1, f, v, j)
  <2>1. PICK j \in Nat : Round(e2, w1, f, v, j)
    BY <1>4
  <2>2. e2 \in Asked /\ f \in Asked
    BY <1>4, <2>1 DEF Headed, Round
  <2>3. Many!BodyLength(e1) = n /\ (n >= 0 => ReadSoFar(e2, w1, r, n, b))
    BY <1>2, <1>3, <1>4, HeaderRead
  <2>4. CASE n >= 0
    <3>1. ReadSoFar(e2, w1, r, n, b)
      BY <2>3, <2>4
    <3> QED
      BY <1>2, <2>1, <2>2, <3>1, RoundReads
  <2>5. CASE n < 0
    BY ONLY <1>4, <2>3, <2>5
  <2>6. n >= 0 \/ n < 0
    OBVIOUS
  <2> QED
    BY <2>4, <2>5, <2>6
<1> QED
  BY ONLY <1>1, <1>3, <1>4

\* All of the answer is there, and nothing behind it.
LEMMA WholeRead ==
  ASSUME RequestConstants, NEW f \in Asked, NEW v, NEW r \in Nat, NEW n \in Int, NEW b \in Nat,
         ReadSoFar(f, v, r, n, b), f.stage = "B", f.remain = 0
  PROVE  /\ n >= 0 /\ f.got = Many!Answer(r, n) /\ v = << >>
         /\ SubSeq(Many!Answer(r, n), b + 1, AnswerSize(n)) = << >>
<1>1. PICK A \in Seq(AnswerUnits), z \in Nat :
        A = Many!Answer(r, n) /\ z = Len(A) /\ z = AnswerSize(n)
  BY AnswerFacts
<1>2. PICK t \in Nat : t = Len(f.got)
  BY LenProperties DEF Asked
<1>3. /\ t <= b /\ b <= z /\ f.got = SubSeq(A, 1, t) /\ v = SubSeq(A, t + 1, b)
      /\ n >= 0 /\ 0 = z - t
  BY ONLY <1>1, <1>2, ReadSoFar(f, v, r, n, b), f.stage = "B", f.remain = 0 DEF ReadSoFar
<1>4. t = z /\ b = z
  BY ONLY <1>3, t \in Nat, b \in Nat, z \in Nat
<1>5. SubSeq(A, 1, z) = A /\ SubSeq(A, z + 1, z) = << >>
  <2>1. SubSeq(A, 1, z) = A
    <3>1. z = Len(A)
      BY <1>1
    <3> QED
      BY ONLY <3>1, A \in Seq(AnswerUnits)
  <2>2. SubSeq(A, z + 1, z) \in Seq(AnswerUnits) /\ Len(SubSeq(A, z + 1, z)) = z - z
    BY <1>1, Stretch
  <2>3. z - z = 0
    OBVIOUS
  <2>4. SubSeq(A, z + 1, z) = << >>
    BY ONLY <2>2, <2>3, EmptySeq
  <2> QED
    BY <2>1, <2>4
<1> QED
  BY ONLY <1>1, <1>3, <1>4, <1>5

\* The client reads what has come on the socket.
LEMMA AnswerReceived ==
  ASSUME RequestConstants, RequestInv, batch # << >>, batch' = Tail(batch), asking.pc = "loop",
         NEW i, i = Head(batch), ~ entry[i].sending, Many!DoRecv(i)
  PROVE  RequestInv'
<1>1. i \in Peers /\ entry[i].attached
  BY HeadOfBatch DEF RequestInv
<1>2. /\ entry \in [Peers -> Asked] /\ entry[i] \in Asked
      /\ server \in [Peers -> Servers] /\ server[i] \in Servers /\ asking.req \in Nat
  BY <1>1 DEF RequestInv, RequestTypes, Askers
<1>3. PICK e \in Asked, w \in Seq(AnswerUnits) : e = entry[i] /\ w = server[i].wire
  BY <1>2 DEF Servers
<1>4. /\ e.remain > 0 /\ ~ e.sending /\ e.attached /\ ~ e.done
      /\ e.stage = "H" => e.remain + Len(e.got) = HeaderSize
  BY <1>1, <1>3 DEF RequestInv, Remaining, Counted
<1>5. PICK e1, w1, e2, f, v :
        /\ Call(e, w, e1, w1, e2, f, v)
        /\ server' = [server EXCEPT ![i].wire = v]
        /\ \/ Many!Finish(asking, i, e2, "EINVAL")
           \/ /\ ~ (e1.remain = 0 /\ e1.stage = "H" /\ Many!BodyLength(e1) < 0)
              /\ \/ f.remain = 0 /\ Many!Finish(asking, i, f, "ok")
                 \/ Many!Finish(asking, i, f, "ECONNRESET")
                 \/ /\ f.remain # 0 /\ ~ server[i].gone /\ entry' = [entry EXCEPT ![i] = f]
                    /\ UNCHANGED << asking, spoilt >>
           \/ Many!Finish(asking, i, f, "EIO")
  <2>1. PICK e1, e2, w1, f :
          /\ e1 = Many!TakeUnits(entry[i], server[i].wire)
          /\ e2 = IF Many!HeaderComplete(e1) THEN Many!AfterHeader(e1) ELSE e1
          /\ w1 = SubSeq(server[i].wire, 1 + Len(e1.got) - Len(entry[i].got), Len(server[i].wire))
          /\ f = IF Many!HeaderComplete(e1) THEN Many!TakeUnits(e2, w1) ELSE e2
          /\ server' = [server EXCEPT ![i].wire = SubSeq(w1, 1 + Len(f.got) - Len(e2.got), Len(w1))]
          /\ \/ /\ Many!HeaderComplete(e1) /\ Many!BodyLength(e1) < 0
                /\ Many!Finish(asking, i, e2, "EINVAL") /\ UNCHANGED peerFaults
             \/ /\ ~ (Many!HeaderComplete(e1) /\ Many!BodyLength(e1) < 0) /\ UNCHANGED peerFaults
                /\ IF f.remain = 0 THEN Many!Finish(asking, i, f, "ok")
                   ELSE IF server[i].gone THEN Many!Finish(asking, i, f, "ECONNRESET")
                   ELSE entry' = [entry EXCEPT ![i] = f] /\ UNCHANGED << asking, spoilt >>
             \/ Many!Fault /\ f.remain > 0 /\ Many!Finish(asking, i, f, "EIO")
    BY ONLY Many!DoRecv(i), ZenonT(60) DEF Many!DoRecv
  <2>2. PICK v : v = SubSeq(w1, 1 + Len(f.got) - Len(e2.got), Len(w1))
    OBVIOUS
  <2>3. Many!HeaderComplete(e1) <=> (e1.remain = 0 /\ e1.stage = "H")
    BY DEF Many!HeaderComplete
  <2>4. Call(e, w, e1, w1, e2, f, v)
    <3>1. CASE Many!HeaderComplete(e1)
      BY ONLY <1>3, <2>1, <2>2, <2>3, <3>1 DEF Call
    <3>2. CASE ~ Many!HeaderComplete(e1)
      BY ONLY <1>3, <2>1, <2>2, <2>3, <3>2 DEF Call
    <3> QED
      BY <3>1, <3>2
  <2>5. server' = [server EXCEPT ![i].wire = v]
    BY ONLY <2>1, <2>2
  <2>6. \/ Many!Finish(asking, i, e2, "EINVAL")
        \/ /\ ~ (Many!HeaderComplete(e1) /\ Many!BodyLength(e1) < 0)
           /\ \/ f.remain = 0 /\ Many!Finish(asking, i, f, "ok")
              \/ Many!Finish(asking, i, f, "ECONNRESET")
              \/ /\ f.remain # 0 /\ ~ server[i].gone /\ entry' = [entry EXCEPT ![i] = f]
                 /\ UNCHANGED << asking, spoilt >>
        \/ Many!Finish(asking, i, f, "EIO")
    <3>1. CASE f.remain = 0
      BY ONLY <2>1, <3>1, Zenon
    <3>2. CASE f.remain # 0
      BY ONLY <2>1, <3>2, Zenon
    <3> QED
      BY <3>1, <3>2
  <2>7. \/ Many!Finish(asking, i, e2, "EINVAL")
        \/ /\ ~ (e1.remain = 0 /\ e1.stage = "H" /\ Many!BodyLength(e1) < 0)
           /\ \/ f.remain = 0 /\ Many!Finish(asking, i, f, "ok")
              \/ Many!Finish(asking, i, f, "ECONNRESET")
              \/ /\ f.remain # 0 /\ ~ server[i].gone /\ entry' = [entry EXCEPT ![i] = f]
                 /\ UNCHANGED << asking, spoilt >>
        \/ Many!Finish(asking, i, f, "EIO")
    BY ONLY <2>3, <2>6, Zenon
  <2> QED
    BY ONLY <2>4, <2>5, <2>7, Zenon
<1>6. /\ e2 \in Asked /\ f \in Asked /\ v \in Seq(AnswerUnits)
      /\ f.sending = e.sending /\ f.done = e.done /\ f.attached = e.attached
      /\ f.remain = 0 => f.stage = "B"
      /\ f.stage = "H" => f.remain + Len(f.got) = HeaderSize
      /\ w = << >> => f.got = e.got /\ f.stage = e.stage /\ v = << >>
  <2>1. e2 \in Asked /\ CallDone(e, w, f, v)
    BY ONLY RequestConstants, e \in Asked, w \in Seq(AnswerUnits), <1>4, <1>5, CallFacts
  <2> QED
    BY ONLY <2>1 DEF CallDone
<1>7. PICK s : s = [server[i] EXCEPT !.wire = v]
  OBVIOUS
<1>8. /\ s \in Servers /\ s.recv = server[i].recv /\ s.out = server[i].out /\ s.wire = v
      /\ s.gone = server[i].gone
  BY ONLY <1>2, <1>6, <1>7 DEF Servers
<1>9. server' = [server EXCEPT ![i] = s] /\ server'[i] = s
  BY <1>1, <1>2, <1>5, <1>7
<1>10. ASSUME i \notin spoilt
       PROVE  \/ Clean(i) /\ server[i].recv = RequestSize /\ e.got = << >> /\ e.stage = "H"
              \/ server[i].recv = 0 /\ \E n \in PeerBodies, b \in Nat : Answered(i, n, b)
  BY <1>1, <1>3, <1>4, <1>10 DEF RequestInv, Unspoilt, AsIf
<1>11. ASSUME NEW n \in PeerBodies, NEW b \in Nat, Answered(i, n, b)
       PROVE  \/ ReadSoFar(f, v, asking.req, n, b)
              \/ e1.remain = 0 /\ e1.stage = "H" /\ Many!BodyLength(e1) < 0
  <2>1. n \in Int
    BY DEF RequestConstants
  <2>2. ReadSoFar(e, w, asking.req, n, b)
    BY ONLY <1>3, <1>11 DEF Answered
  <2> QED
    BY ONLY RequestConstants, e \in Asked, w \in Seq(AnswerUnits), b \in Nat, <1>2, <1>4, <1>5,
            <2>1, <2>2, CallReads
<1>12. ASSUME NEW d \in Asked, NEW err \in {"ECONNRESET", "EINVAL", "EIO"}, Many!Finish(asking, i, d, err)
       PROVE  RequestInv'
  <2>1. err \in SocketErrors \ {"none"} /\ err # "ok"
    BY <1>12 DEF SocketErrors
  <2> QED
    BY <1>8, <1>9, <1>12, <2>1, SocketEnds
<1>13. ASSUME ~ (e1.remain = 0 /\ e1.stage = "H" /\ Many!BodyLength(e1) < 0),
              f.remain = 0, Many!Finish(asking, i, f, "ok")
       PROVE  RequestInv'
  <2>1. ASSUME i \notin spoilt
        PROVE  /\ s.recv = 0 /\ s.out = << >> /\ s.wire = << >>
               /\ \E n \in PeerBodies : n >= 0 /\ f.got = Many!Answer(asking.req, n)
    <3>1. ~ (Clean(i) /\ e.stage = "H")
      BY <1>3, <1>6, <1>13 DEF Clean
    <3>2. PICK n \in PeerBodies, b \in Nat : Answered(i, n, b)
      BY <1>10, <2>1, <3>1
    <3>3. server[i].recv = 0
      BY <1>10, <2>1, <3>1
    <3>4. ReadSoFar(f, v, asking.req, n, b)
      BY <1>11, <1>13, <3>2
    <3>5. n \in Int
      BY DEF RequestConstants
    <3>6. /\ n >= 0 /\ f.got = Many!Answer(asking.req, n) /\ v = << >>
          /\ SubSeq(Many!Answer(asking.req, n), b + 1, AnswerSize(n)) = << >>
      BY ONLY RequestConstants, b \in Nat, <1>2, <1>6, <1>13, <3>4, <3>5, WholeRead
    <3>7. server[i].out = << >>
      BY ONLY <3>2, <3>6 DEF Answered
    <3> QED
      BY ONLY <1>8, <3>3, <3>6, <3>7, n \in PeerBodies
  <2>2. PICK err \in SocketErrors \ {"none"} : err = "ok"
    BY DEF SocketErrors
  <2>3. Many!Finish(asking, i, f, err)
    BY <1>13, <2>2
  <2>4. err = "ok" => \/ i \in spoilt
                      \/ /\ s.recv = 0 /\ s.out = << >> /\ s.wire = << >>
                         /\ \E n \in PeerBodies : n >= 0 /\ f.got = Many!Answer(asking.req, n)
    BY <2>1
  <2> QED
    BY ONLY RequestConstants, RequestInv, batch # << >>, batch' = Tail(batch), asking.pc = "loop",
            i = Head(batch), <1>6, <1>8, <1>9, <2>2, <2>3, <2>4, SocketEnds
<1>14. ASSUME ~ (e1.remain = 0 /\ e1.stage = "H" /\ Many!BodyLength(e1) < 0),
              f.remain # 0, ~ server[i].gone, entry' = [entry EXCEPT ![i] = f],
              UNCHANGED << asking, spoilt >>
       PROVE  RequestInv'
  <2>1. f.remain > 0
    BY <1>6, <1>14 DEF Asked
  <2>2. entry'[i] = f
    BY <1>1, <1>2, <1>14
  <2>3. ASSUME i \notin spoilt PROVE AsIf(i)'
    <3>1. CASE Clean(i) /\ server[i].recv = RequestSize /\ e.got = << >> /\ e.stage = "H"
      <4>1. Clean(i)' /\ server'[i].recv = RequestSize
        BY <1>3, <1>6, <1>8, <1>9, <3>1 DEF Clean
      <4>2. f.got = << >> /\ f.stage = "H"
        BY <1>3, <1>6, <3>1 DEF Clean
      <4> QED
        BY <1>4, <1>6, <2>2, <4>1, <4>2 DEF AsIf
    <3>2. CASE server[i].recv = 0 /\ \E n \in PeerBodies, b \in Nat : Answered(i, n, b)
      <4>1. PICK n \in PeerBodies, b \in Nat : Answered(i, n, b)
        BY <3>2
      <4>2. ReadSoFar(f, v, asking.req, n, b)
        BY <1>11, <1>14, <4>1
      <4>3. server[i].out = SubSeq(Many!Answer(asking.req, n), b + 1, AnswerSize(n))
        BY ONLY <1>14, <4>1 DEF Answered
      <4>4. asking' = asking
        BY <1>14
      <4>5. Answered(i, n, b)'
        BY ONLY <1>8, <1>9, <1>14, <2>2, <4>2, <4>3, <4>4 DEF Answered, ReadSoFar, AnswerSize, Many!Answer
      <4> QED
        BY ONLY <1>4, <1>6, <1>8, <1>9, <2>2, <3>2, <4>5, n \in PeerBodies, b \in Nat DEF AsIf
    <3> QED
      BY <1>10, <2>3, <3>1, <3>2
  <2> QED
    BY <1>4, <1>6, <1>8, <1>9, <1>14, <2>1, <2>3, SocketGoesOn
<1> QED
  BY ONLY <1>5, <1>6, <1>12, <1>13, <1>14

\* One event of the batch is dealt with.
LEMMA EventDealt ==
  ASSUME RequestConstants, RequestInv, Many!DealEvent
  PROVE  RequestInv'
<1>1. asking.pc = "loop" /\ batch # << >> /\ batch' = Tail(batch)
  BY DEF Many!DealEvent
<1>2. PICK i : /\ i = Head(batch)
               /\ \/ Many!Finish(asking, i, entry[i], "ECONNRESET") /\ UNCHANGED server
                  \/ entry[i].sending /\ Many!DoSend(i)
                  \/ ~ entry[i].sending /\ Many!DoRecv(i)
  BY DEF Many!DealEvent
<1>3. CASE Many!Finish(asking, i, entry[i], "ECONNRESET") /\ UNCHANGED server
  BY <1>1, <1>2, <1>3, ErrorDealt
<1>4. CASE entry[i].sending /\ Many!DoSend(i)
  BY <1>1, <1>2, <1>4, RequestSent
<1>5. CASE ~ entry[i].sending /\ Many!DoRecv(i)
  BY <1>1, <1>2, <1>5, AnswerReceived
<1> QED
  BY <1>2, <1>3, <1>4, <1>5

\* Every step of the client, of a server and of the time keeps the invariant.
LEMMA RequestNext ==
  ASSUME RequestConstants, RequestInv, Many!Next
  PROVE  RequestInv'
<1>1. \/ Many!Request \/ Many!Poll \/ Many!DealEvent \/ Many!DealIoEnd \/ Many!Tick
      \/ \E i \in Peers : Many!ServerAnswers(i) \/ Many!Arrive(i) \/ Many!HangUp(i)
  BY DEF Many!Next, Many!ClientStep
<1>2. ASSUME NEW i \in Peers, Many!ServerAnswers(i) \/ Many!Arrive(i) \/ Many!HangUp(i)
      PROVE  RequestInv'
  BY <1>2, ServerHasAnswered, AnswerArrives, ServerGoes
<1> QED
  BY <1>1, <1>2, RequestMade, EventsFound, EventDealt, RequestOver, SecondOver

\* So does a step of another part.
LEMMA RequestStays ==
  ASSUME RequestInv, UNCHANGED Many!vars
  PROVE  RequestInv'
<1>1. /\ asking' = asking /\ entry' = entry /\ batch' = batch /\ server' = server
      /\ spoilt' = spoilt
  BY DEF Many!vars
<1>2. RequestTypes' /\ Counted' /\ SocketsAhead' /\ Remaining'
  BY <1>1 DEF RequestInv, RequestTypes, Counted, SocketsAhead, Remaining, Open, Successful
<1>3. Unspoilt'
  BY <1>1, AsIfKept DEF RequestInv, Unspoilt
<1> QED
  BY <1>2, <1>3 DEF RequestInv

\* What it says of the request.
LEMMA RequestMeans ==
  ASSUME RequestConstants, RequestInv
  PROVE  Many!Sound
<1>1. /\ asking.pulling = Many!Cardinality(Open) /\ asking.success = Many!Cardinality(Successful)
  BY CountsFinite DEF RequestInv, Counted
<1>2. \A i \in Peers : entry[i].attached <=> ~ entry[i].done
  BY DEF RequestInv, Counted
<1>3. ASSUME NEW i \in Peers, entry[i].done /\ entry[i].error = "ok"
      PROVE  i \in spoilt \/ \E n \in PeerBodies : n >= 0 /\ entry[i].got = Many!Answer(asking.req, n)
  BY <1>2, <1>3 DEF RequestInv, Unspoilt, AsIf
<1>4. ASSUME asking.pc = "returned"
      PROVE  asking.pulling = 0 /\ (asking.result = "ok" <=> asking.success > 0)
  <2>1. Open = {}
    BY <1>4 DEF RequestInv, Counted
  <2>2. asking.pulling = 0
    BY <2>1, FS_EmptySet DEF RequestInv, Counted
  <2> QED
    BY <1>4, <2>2 DEF RequestInv, Counted
<1> QED
  BY <1>1, <1>2, <1>3, <1>4 DEF Many!Sound, Open, Successful

-----------------------------------------------------------------------------
(* MCServices: what a step of the whole means for the two units.           *)

\* A step is one of the unit or leaves its variables alone.
LEMMA TransferUnits ==
  ASSUME [ServicesNext]_allVars
  PROVE  /\ Transfer!Next \/ UNCHANGED Transfer!vars
         /\ Many!Next \/ UNCHANGED Many!vars
  BY DEF ServicesNext, allVars, InSchedule, InTransfer, InLoop, InRequest, FilesStep, SerialsStep,
         DaemonStep, transferVars, manyVars, Transfer!vars, Many!vars

\* For any file, sizes, sockets, servers and bounds on what fails: what a receiver
\* of sockopt.c has stored and holds and what is under way are the units that went
\* out, in order; one that is told success has the sender's file up to an end,
\* which in an infinite file may be a unit that looks like its trailer; a sender
\* that is told success has sent all, and the loop with read counts no more than
\* went out; whoever fails leaves no file and no descriptor behind, but on two
\* paths that the property names; and multi_socket_client.c counts as answered only sockets that hold
\* the whole answer, as long as no earlier request failed on them.
THEOREM TransfersSound == ServicesSpec => []TransferSound
<1> DEFINE Inv == TransferInv /\ RequestInv
<1>0. TransferConstants /\ RequestConstants
  BY ServicesAssumption
<1>1. ServicesInit => Inv
  BY <1>0, TransferStarts, RequestStarts DEF ServicesInit
<1>2. Inv /\ [ServicesNext]_allVars => Inv'
  <2>1. SUFFICES ASSUME Inv, [ServicesNext]_allVars PROVE Inv'
    OBVIOUS
  <2>2. TransferInv'
    BY <1>0, <2>1, TransferUnits, TransferNext, TransferStays
  <2>3. RequestInv'
    BY <1>0, <2>1, TransferUnits, RequestNext, RequestStays
  <2> QED
    BY <2>2, <2>3
<1>3. Inv => TransferSound
  BY <1>0, TransferMeans, RequestMeans DEF TransferSound
<1> QED
  BY <1>1, <1>2, <1>3, PTL DEF ServicesSpec

-----------------------------------------------------------------------------
\* A set of natural numbers has a least one: what induction rests on here.
LEMMA Least ==
  ASSUME NEW T \in SUBSET Nat, NEW k \in T
  PROVE  \E x \in T : \A y \in T : x <= y
<1>1. PICK x \in T : \A y \in T : ~ (<<y, x>> \in OpToRel(<, Nat))
  BY NatLessThanWellFounded, WFMin, Zenon
<1>2. \A y \in T : ~ (y < x)
  BY <1>1 DEF OpToRel
<1> QED
  BY <1>2

ThreadPlaces == {"top", "check", "wait", "slept", "awake", "exec", "stopped", "crashed"}

ScheduleTypes ==
  /\ chain \in Seq(Ids) /\ due \in [Ids -> Int] /\ raced \in SUBSET Ids
  /\ waiting \in Seq([id : Ids, due : Int])
  /\ del \in Ids \cup {NoId} /\ wanted \in SUBSET Ids
  /\ pc \in ThreadPlaces
  /\ pos \in Nat \ {0}
  /\ client \in [pc : {"idle", "add", "init", "del"}, ids : Seq(Ids)]
  /\ client.pc = "del" => client.ids # << >>
  /\ clock \in Int

Once(s)         == \A i, j \in 1 .. Len(s) : s[i] = s[j] => i = j
Sorted(s, d, p) == \A i \in p .. Len(s) - 1 : d[s[i]] <= d[s[i + 1]]

\* While due entries run, those that ran have their next times already.
ChainInOrder == Once(chain) /\ Sorted(chain, due, IF pc = "exec" THEN pos ELSE 1)

\* An entry that is to be deleted was not added after that, or waits again.
Requested ==
  /\ wanted \subseteq ToSet(chain) \cup WaitingIds
  /\ del # NoId => del \notin wanted \/ del \in WaitingIds

AtGrid(e, t) == Base[e] # NoBase => (t - Base[e]) % Interval[e] = 0

\* What waits has its first call on its grid once it is initialised.
Grids ==
  /\ \A e \in ToSet(chain) \ raced : AtGrid(e, clock + due[e])
  /\ client.pc # "init" =>
       \A i \in DOMAIN waiting : AtGrid(waiting[i].id, clock + waiting[i].due)

ScheduleInv == ScheduleTypes /\ ChainInOrder /\ Requested /\ Grids

-----------------------------------------------------------------------------
(* Times and the grids of the entries.                                       *)

\* Division with a remainder.
LEMMA Remainder ==
  ASSUME NEW x \in Int, NEW m \in Nat \ {0}
  PROVE  x \div m \in Int /\ x % m \in 0 .. m - 1 /\ x = m * (x \div m) + (x % m)
<1>1. x \div m \in Int
  OBVIOUS
<1>2. x % m \in 0 .. m - 1
  OBVIOUS
<1>3. x = m * (x \div m) + (x % m)
  OBVIOUS
<1> QED
  BY <1>1, <1>2, <1>3

\* What leaves no remainder is a multiple.
LEMMA WholeTimes ==
  ASSUME NEW x \in Int, NEW m \in Nat \ {0}, x % m = 0
  PROVE  \E k \in Int : x = k * m
<1> DEFINE q == x \div m
           r == x % m
<1>1. q \in Int /\ r = 0 /\ r \in 0 .. m - 1 /\ x = m * q + r
  BY Remainder
<1> HIDE DEF q, r
<1>2. x = q * m
  BY <1>1
<1> QED
  BY <1>1, <1>2

\* A multiple leaves no remainder.
LEMMA NoRemainder ==
  ASSUME NEW k \in Int, NEW m \in Nat \ {0}
  PROVE  (k * m) % m = 0
<1> DEFINE q == (k * m) \div m
           r == (k * m) % m
<1>1. k * m \in Int
  OBVIOUS
<1>2. q \in Int /\ r \in 0 .. m - 1 /\ k * m = m * q + r
  BY <1>1, Remainder
<1> HIDE DEF q, r
<1>3. (k - q) * m = r
  BY <1>2
<1>4. k - q \in Int
  BY <1>2
<1>5. k - q <= 0
  <2> SUFFICES ASSUME k - q >= 1 PROVE FALSE
    BY <1>4
  <2>1. (k - q) * m >= m
    <3> DEFINE a == k - q
    <3>1. a \in Int /\ a >= 1
      BY <1>4
    <3> HIDE DEF a
    <3>2. a * m >= m
      BY <3>1
    <3> QED
      BY <3>2 DEF a
  <2> QED
    BY <1>2, <1>3, <2>1
<1>6. k - q >= 0
  <2> SUFFICES ASSUME k - q <= -1 PROVE FALSE
    BY <1>4
  <2>1. (k - q) * m <= -m
    <3> DEFINE a == k - q
    <3>1. a \in Int /\ a <= -1
      BY <1>4
    <3> HIDE DEF a
    <3>2. a * m <= -m
      BY <3>1
    <3> QED
      BY <3>2 DEF a
  <2> QED
    BY <1>2, <1>3, <2>1
<1>7. k = q
  BY <1>2, <1>5, <1>6
<1>8. r = 0
  BY <1>2, <1>7
<1> QED
  BY <1>8 DEF r

\* Times whole intervals apart are on the same grid.
LEMMA SameGrid ==
  ASSUME NEW e \in Ids, NEW t \in Int, NEW u \in Int, NEW k \in Int,
         AtGrid(e, t), Base[e] # NoBase => u = t + k * Interval[e]
  PROVE  AtGrid(e, u)
<1> SUFFICES ASSUME Base[e] # NoBase PROVE (u - Base[e]) % Interval[e] = 0
  BY DEF AtGrid
<1> DEFINE I == Interval[e]
           B == Base[e]
<1>1. I \in Nat \ {0} /\ B \in Int
  BY ScheduleAssumption
<1>2. (t - B) % I = 0
  BY DEF AtGrid
<1>3. PICK q \in Int : t - B = q * I
  <2>1. t - B \in Int
    BY <1>1
  <2> QED
    BY <1>1, <1>2, <2>1, WholeTimes
<1>4. u = t + k * I
  OBVIOUS
<1> HIDE DEF I, B
<1>5. u - B = (q + k) * I
  BY <1>1, <1>3, <1>4
<1>6. q + k \in Int
  BY <1>3
<1>7. ((q + k) * I) % I = 0
  BY <1>1, <1>6, NoRemainder
<1> QED
  BY <1>5, <1>7 DEF I, B

\* A day is a whole number of intervals.
LEMMA WholeDay ==
  ASSUME NEW e \in Ids, Base[e] # NoBase
  PROVE  \E k \in Int : Day = k * Interval[e]
<1>1. Interval[e] \in Nat \ {0} /\ Day \in Int /\ Day % Interval[e] = 0
  BY ScheduleAssumption
<1> QED
  BY <1>1, WholeTimes

\* The clock moves, and what is kept relative to it.
LEMMA GridMoves ==
  ASSUME NEW e \in Ids, NEW c \in Int, NEW x \in Int, NEW d \in Int, AtGrid(e, c + x)
  PROVE  AtGrid(e, ((c + d) % Day) + (x - d))
<1> SUFFICES ASSUME Base[e] # NoBase
             PROVE  AtGrid(e, ((c + d) % Day) + (x - d))
  BY DEF AtGrid
<1>1. PICK k \in Int : Day = k * Interval[e]
  BY WholeDay
<1> DEFINE q == (c + d) \div Day
           r == (c + d) % Day
           I == Interval[e]
<1>2. c + d \in Int /\ Day \in Nat \ {0} /\ I \in Nat \ {0}
  BY ScheduleAssumption
<1>3. q \in Int /\ r \in Int /\ c + d = Day * q + r
  BY <1>2, Remainder
<1> HIDE DEF q, r, I
<1>4. -(k * q) \in Int
  BY <1>3
<1>5. r + (x - d) = (c + x) + (-(k * q)) * I
  <2>1. Day = k * I
    BY <1>1 DEF I
  <2>2. Day * q = (k * q) * I
    BY <1>2, <1>3, <2>1
  <2>3. r = c + d - (k * q) * I
    BY <1>2, <1>3, <2>2
  <2> QED
    BY <1>2, <1>3, <2>3
<1>6. r + (x - d) \in Int /\ c + x \in Int
  BY <1>3
<1> QED
  BY <1>4, <1>5, <1>6, SameGrid DEF r, I

\* The first call of an entry is on its grid.
LEMMA FirstOnGrid ==
  ASSUME NEW e \in Ids, NEW t \in Int
  PROVE  FirstCall(e, t) \in Int /\ AtGrid(e, t + FirstCall(e, t))
<1> DEFINE I == Interval[e]
           B == Base[e]
           today == t \div Minute >= B \div Minute
           D == IF today THEN 0 ELSE Day
           remain == t - B + D
<1>1. I \in Nat \ {0}
  BY ScheduleAssumption
<1>2. CASE B = NoBase
  BY <1>1, <1>2 DEF FirstCall, AtGrid
<1>3. CASE B # NoBase
  <2>1. B \in Int /\ D \in Int /\ remain \in Int
    BY <1>3, ScheduleAssumption
  <2>2. PICK h \in Int : D = h * I
    <3>1. PICK k \in Int : Day = k * I
      BY <1>3, WholeDay
    <3>2. 0 = 0 * I
      BY <1>1
    <3> QED
      BY <3>1, <3>2
  <2>3. FirstCall(e, t) = CASE remain > 0 -> I - (remain % I)
                            [] remain < 0 -> (-remain) % I
                            [] OTHER      -> 0
    BY <1>3 DEF FirstCall
  <2>4. AtGrid(e, B)
    <3>1. (0 * I) % I = 0
      BY <1>1, NoRemainder
    <3>2. B - B = 0 * I
      BY <1>1, <2>1
    <3> QED
      BY <3>1, <3>2 DEF AtGrid
  <2>5. \E k \in Int : FirstCall(e, t) \in Int /\ remain + FirstCall(e, t) = k * I
    <3> HIDE DEF remain, I
    <3>1. CASE remain > 0
      <4> DEFINE q == remain \div I
                 r == remain % I
      <4>1. FirstCall(e, t) = I - r
        BY <2>1, <2>3, <3>1
      <4>2. q \in Int /\ r \in Int /\ remain = I * q + r
        BY <1>1, <2>1, Remainder
      <4> HIDE DEF q, r
      <4>3. remain + FirstCall(e, t) = (q + 1) * I
        BY <1>1, <2>1, <4>1, <4>2
      <4>4. q + 1 \in Int /\ FirstCall(e, t) \in Int
        BY <1>1, <4>1, <4>2
      <4> QED
        BY <4>3, <4>4
    <3>2. CASE remain < 0
      <4> DEFINE m == -remain
                 q == m \div I
                 r == m % I
      <4>1. FirstCall(e, t) = r
        BY <2>1, <2>3, <3>2
      <4>2. m \in Int /\ remain = -m
        BY <2>1
      <4> HIDE DEF m
      <4>3. q \in Int /\ r \in Int /\ m = I * q + r
        BY <1>1, <4>2, Remainder
      <4> HIDE DEF q, r
      <4>4. remain + FirstCall(e, t) = (-q) * I
        BY <1>1, <2>1, <4>1, <4>2, <4>3
      <4>5. -q \in Int /\ FirstCall(e, t) \in Int
        BY <4>1, <4>3
      <4> QED
        BY <4>4, <4>5
    <3>3. CASE remain = 0
      <4>1. FirstCall(e, t) = 0
        BY <2>3, <3>3
      <4>2. remain + FirstCall(e, t) = 0 * I
        BY <1>1, <3>3, <4>1
      <4> QED
        BY <4>1, <4>2
    <3> QED
      BY <2>1, <3>1, <3>2, <3>3
  <2>6. PICK k \in Int : FirstCall(e, t) \in Int /\ remain + FirstCall(e, t) = k * I
    BY <2>5
  <2>7. t + FirstCall(e, t) = B + (k - h) * I
    <3>1. remain = t - B + D
      OBVIOUS
    <3>2. FirstCall(e, t) \in Int
      BY <2>6
    <3> HIDE DEF remain, I, D, B
    <3>3. (k - h) * I = k * I - h * I
      BY <1>1
    <3>4. k * I \in Int /\ h * I \in Int
      BY <1>1
    <3> QED
      BY <2>1, <2>2, <2>6, <3>1, <3>2, <3>3, <3>4
  <2>8. t + FirstCall(e, t) \in Int /\ k - h \in Int
    BY <2>6
  <2> QED
    BY <2>1, <2>4, <2>6, <2>7, <2>8, SameGrid
<1> QED
  BY <1>2, <1>3

\* The next call of an entry that ran is on the grid it was on.
LEMMA NextOnGrid ==
  ASSUME NEW e \in Ids, due \in [Ids -> Int], clock \in Int, NEW x \in NextCall(e)
  PROVE  /\ x \in Int
         /\ e \notin raced /\ AtGrid(e, clock + due[e]) => AtGrid(e, clock + x)
<1> DEFINE I == Interval[e]
           d == due[e]
<1>1. I \in Nat \ {0} /\ d \in Int
  BY ScheduleAssumption
<1>2. CASE e \in raced /\ due[e] <= Uninit
  BY <1>1, <1>2 DEF NextCall
<1>3. CASE ~ (e \in raced /\ due[e] <= Uninit)
  <2>1. x = CHOOSE y \in 1 .. I : (y - d) % I = 0
    BY <1>3 DEF NextCall
  <2>2. \E y \in 1 .. I : (y - d) % I = 0
    <3> DEFINE r == (d - 1) % I
               q == (d - 1) \div I
    <3>1. d - 1 \in Int
      BY <1>1
    <3>2. q \in Int /\ r \in 0 .. I - 1 /\ d - 1 = I * q + r
      BY <1>1, <3>1, Remainder
    <3> HIDE DEF r, q
    <3>3. r + 1 \in 1 .. I
      BY <1>1, <3>2
    <3>4. (r + 1) - d = (-q) * I
      BY <1>1, <3>2
    <3>5. -q \in Int
      BY <3>2
    <3>6. ((-q) * I) % I = 0
      BY <1>1, <3>5, NoRemainder
    <3> QED
      BY <3>3, <3>4, <3>6
  <2>3. x \in 1 .. I /\ (x - d) % I = 0
    BY <2>1, <2>2
  <2>4. x \in Int /\ x - d \in Int
    BY <1>1, <2>3
  <2>5. PICK q \in Int : x - d = q * I
    BY <1>1, <2>3, <2>4, WholeTimes
  <2>6. clock + x = (clock + d) + q * I
    <3> HIDE DEF I, d
    <3>1. q * I \in Int
      BY <1>1
    <3> QED
      BY <1>1, <2>4, <2>5, <3>1
  <2>7. clock + x \in Int /\ clock + d \in Int
    BY <1>1, <2>4
  <2> QED
    BY <2>4, <2>5, <2>6, <2>7, SameGrid
<1> QED
  BY <1>2, <1>3

-----------------------------------------------------------------------------
(* The chain.                                                                *)

\* A chain that is what it has to be: the entries of S, each once, by time.
Chained(s, S, d) == s \in Seq(S) /\ Once(s) /\ ToSet(s) = S /\ Sorted(s, d, 1)

\* The elements of a sequence.
LEMMA Elements ==
  ASSUME NEW S, NEW s \in Seq(S)
  PROVE  /\ Len(s) \in Nat /\ DOMAIN s = 1 .. Len(s)
         /\ \A i \in DOMAIN s : s[i] \in S
OBVIOUS

\* A function on the first numbers is a sequence.
LEMMA FunctionSeq ==
  ASSUME NEW S, NEW n \in Nat, NEW f \in [1 .. n -> S]
  PROVE  f \in Seq(S) /\ Len(f) = n
OBVIOUS

\* A sequence without repetitions has as many elements as places.
LEMMA OnceCounts ==
  ASSUME NEW s \in Seq(Ids), Once(s)
  PROVE  Cardinality(ToSet(s)) = Len(s)
<1>1. 1 .. Len(s) = DOMAIN s /\ Len(s) \in Nat
  OBVIOUS
<1>2. s \in Bijection(1 .. Len(s), ToSet(s))
  BY <1>1 DEF Once, ToSet, Bijection, Injection, Surjection, IsInjective
<1>3. IsFiniteSet(1 .. Len(s)) /\ Cardinality(1 .. Len(s)) = Len(s)
  BY <1>1, FS_Interval
<1> QED
  BY <1>2, <1>3, FS_Bijection DEF ExistsBijection

\* What is in a sequence.
LEMMA InChain ==
  ASSUME NEW S, NEW s \in Seq(S), NEW e
  PROVE  Contains(s, e) <=> e \in ToSet(s)
BY DEF Contains, ToSet

\* sched_make_chain.
LEMMA MakesChain ==
  ASSUME NEW S \in SUBSET Ids, NEW d, NEW s \in MakeChain(S, d)
  PROVE  Chained(s, S, d)
<1> DEFINE n == Cardinality(S)
<1>1. IsFiniteSet(S) /\ n \in Nat
  BY ScheduleAssumption, FS_Subset, FS_CardinalityType
<1>2. s \in [1..n -> S] /\ \A i, j \in 1..n : i # j => s[i] # s[j]
  BY DEF MakeChain, SetToSeqs
<1>3. Cardinality(1..n) = n /\ IsFiniteSet(1..n)
  BY <1>1, FS_Interval
<1>4. s \in Injection(1..n, S)
  BY <1>2 DEF Injection, IsInjective
<1>5. s \in Surjection(1..n, S)
  BY <1>1, <1>3, <1>4, FS_Injection
<1> HIDE DEF n
<1>6. s \in Seq(S) /\ Len(s) = n /\ DOMAIN s = 1..n
  BY <1>1, <1>2
<1>7. ToSet(s) = S
  BY <1>2, <1>5, <1>6 DEF ToSet, Surjection
<1>8. Sorted(s, d, 1)
  BY DEF MakeChain, Sorted
<1> QED
  BY <1>2, <1>6, <1>7, <1>8 DEF Chained, Once

\* The end of a sequence.
LEMMA EndOf ==
  ASSUME NEW S, NEW s \in Seq(S), NEW i \in 1 .. Len(s)
  PROVE  /\ SubSeq(s, i, Len(s)) \in Seq(S)
         /\ Len(SubSeq(s, i, Len(s))) = Len(s) - i + 1
         /\ \A j \in 1 .. Len(s) - i + 1 : SubSeq(s, i, Len(s))[j] = s[i + j - 1]
OBVIOUS

\* InsertAt: what it holds.
LEMMA Inserted ==
  ASSUME NEW S, NEW s \in Seq(S), NEW e \in S, NEW i \in 1 .. Len(s)
  PROVE  /\ InsertAt(s, i, e) \in Seq(S)
         /\ Len(InsertAt(s, i, e)) = Len(s) + 1
         /\ \A j \in 1 .. Len(s) + 1 :
              InsertAt(s, i, e)[j] = IF j < i THEN s[j] ELSE IF j = i THEN e ELSE s[j - 1]
<1> DEFINE a == SubSeq(s, 1, i - 1)
           b == SubSeq(s, i, Len(s))
<1>1. a \in Seq(S) /\ Len(a) = i - 1 /\ \A j \in 1 .. i - 1 : a[j] = s[j]
  OBVIOUS
<1>2. b \in Seq(S) /\ Len(b) = Len(s) - i + 1 /\ \A j \in 1 .. Len(s) - i + 1 : b[j] = s[i + j - 1]
  BY EndOf
<1>3. InsertAt(s, i, e) = a \o << e >> \o b
  BY DEF InsertAt
<1> HIDE DEF a, b
<1> DEFINE c == a \o << e >>
<1>4. c \in Seq(S) /\ Len(c) = i /\ (\A j \in 1 .. i - 1 : c[j] = s[j]) /\ c[i] = e
  BY <1>1
<1> HIDE DEF c
<1>5. InsertAt(s, i, e) = c \o b
  BY <1>3 DEF c
<1>6. c \o b \in Seq(S) /\ Len(c \o b) = Len(s) + 1
  BY <1>2, <1>4
<1>7. \A j \in 1 .. Len(s) + 1 : (c \o b)[j] = IF j <= i THEN c[j] ELSE b[j - i]
  BY <1>2, <1>4
<1>8. \A j \in 1 .. Len(s) + 1 : j > i => b[j - i] = s[j - 1]
  BY <1>2
<1> QED
  BY <1>4, <1>5, <1>6, <1>7, <1>8

\* The first entry of a chain that is not sooner than e.
LEMMA FirstNotSooner ==
  ASSUME NEW s \in Seq(Ids), NEW d \in [Ids -> Int], NEW e \in Ids, s # << >>,
         ~ d[e] >= d[Last(s)]
  PROVE  \E i \in 1 .. Len(s) :
           /\ SelectInSeq(s, LAMBDA x : d[x] >= d[e]) = i
           /\ d[s[i]] >= d[e] /\ \A j \in 1 .. i - 1 : d[s[j]] < d[e]
<1> DEFINE I == {i \in 1 .. Len(s) : d[s[i]] >= d[e]}
<1>1. Len(s) \in 1 .. Len(s) /\ Last(s) = s[Len(s)] /\ s[Len(s)] \in Ids
  BY DEF Last
<1>2. Len(s) \in I
  BY <1>1
<1>3. I \in SUBSET Nat
  OBVIOUS
<1>4. PICK i \in I : \A j \in I : i <= j
  BY <1>2, <1>3, Least, Zenon
<1>5. Min(I) \in I /\ \A j \in I : Min(I) <= j
  BY <1>4 DEF Min
<1>6. SelectInSeq(s, LAMBDA x : d[x] >= d[e]) = Min(I)
  BY <1>2 DEF SelectInSeq
<1>7. \A j \in 1 .. Min(I) - 1 : j \in 1 .. Len(s) /\ s[j] \in Ids /\ j \notin I
  BY <1>3, <1>5
<1>8. \A j \in 1 .. Min(I) - 1 : d[s[j]] < d[e]
  <2> SUFFICES ASSUME NEW j \in 1 .. Min(I) - 1 PROVE d[s[j]] < d[e]
    OBVIOUS
  <2>1. ~ d[s[j]] >= d[e] /\ s[j] \in Ids
    BY <1>7
  <2> QED
    BY <2>1
<1> QED
  BY <1>5, <1>6, <1>8

\* An entry that ran goes back to its place.
LEMMA PutsBack ==
  ASSUME NEW S \in SUBSET Ids, NEW d \in [Ids -> Int], NEW s, Chained(s, S, d), s # << >>,
         NEW e \in Ids \ S
  PROVE  Chained(PutBack(s, e, d), S \cup {e}, d) /\ PutBack(s, e, d) # << >>
<1> DEFINE T == S \cup {e}
<1>1. s \in Seq(S) /\ s \in Seq(T) /\ s \in Seq(Ids) /\ Len(s) \in Nat \ {0}
  BY DEF Chained
<1>2. \A i \in 1 .. Len(s) : s[i] \in S /\ s[i] \in Ids /\ s[i] # e
  BY <1>1
<1>3. \A x \in S : \E i \in 1 .. Len(s) : s[i] = x
  BY <1>1 DEF Chained, ToSet
<1>0. e \in T /\ \A x \in T : x = e \/ x \in S
  OBVIOUS
<1> HIDE DEF T
<1>4. CASE d[e] >= d[Last(s)]
  <2> DEFINE a == Append(s, e)
  <2>1. PutBack(s, e, d) = a
    BY <1>4 DEF PutBack
  <2>2. a \in Seq(T) /\ Len(a) = Len(s) + 1
        /\ \A i \in 1 .. Len(s) + 1 : a[i] = IF i = Len(s) + 1 THEN e ELSE s[i]
    BY <1>0, <1>1
  <2> HIDE DEF a
  <2>3. Once(a)
    BY <1>1, <1>2, <2>2 DEF Chained, Once
  <2>4. ASSUME NEW x \in T PROVE \E i \in 1 .. Len(a) : a[i] = x
    <3>1. CASE x = e
      <4>1. Len(s) + 1 \in 1 .. Len(a) /\ a[Len(s) + 1] = e
        BY <1>1, <2>2
      <4> QED
        BY <3>1, <4>1
    <3>2. CASE x \in S
      <4>1. PICK i \in 1 .. Len(s) : s[i] = x
        BY <1>3, <3>2
      <4>2. i \in 1 .. Len(a) /\ a[i] = x
        BY <1>1, <2>2, <4>1
      <4> QED
        BY <4>2
    <3> QED
      BY <1>0, <3>1, <3>2
  <2>5. ToSet(a) = T
    BY <2>2, <2>4 DEF ToSet
  <2>6. Sorted(a, d, 1)
    <3> SUFFICES ASSUME NEW i \in 1 .. Len(s) PROVE d[a[i]] <= d[a[i + 1]]
      BY <1>1, <2>2 DEF Sorted
    <3>1. a[i] = s[i] /\ i \in 1 .. Len(s) + 1 /\ i + 1 \in 1 .. Len(s) + 1
      BY <1>1, <2>2
    <3>2. CASE i = Len(s)
      <4>1. a[i + 1] = e /\ a[i] = Last(s) /\ Last(s) \in Ids
        BY <1>1, <1>2, <2>2, <3>1, <3>2 DEF Last
      <4> QED
        BY <1>4, <4>1
    <3>3. CASE i # Len(s)
      <4>1. a[i + 1] = s[i + 1] /\ i \in 1 .. Len(s) - 1
        BY <1>1, <2>2, <3>1, <3>3
      <4> QED
        BY <3>1, <4>1 DEF Chained, Sorted
    <3> QED
      BY <3>2, <3>3
  <2> QED
    BY <1>1, <2>1, <2>2, <2>3, <2>5, <2>6 DEF Chained, T
<1>5. CASE ~ d[e] >= d[Last(s)]
  <2>1. PICK k \in 1 .. Len(s) :
           /\ SelectInSeq(s, LAMBDA x : d[x] >= d[e]) = k
           /\ d[s[k]] >= d[e] /\ \A j \in 1 .. k - 1 : d[s[j]] < d[e]
    BY <1>1, <1>5, FirstNotSooner
  <2> DEFINE a == InsertAt(s, k, e)
  <2>2. PutBack(s, e, d) = a
    BY <1>5, <2>1 DEF PutBack
  <2>3. a \in Seq(T) /\ Len(a) = Len(s) + 1
        /\ \A i \in 1 .. Len(s) + 1 :
             a[i] = IF i < k THEN s[i] ELSE IF i = k THEN e ELSE s[i - 1]
    BY <1>0, <1>1, Inserted
  <2> HIDE DEF a
  <2>4. Once(a)
    <3> SUFFICES ASSUME NEW i \in 1 .. Len(s) + 1, NEW j \in 1 .. Len(s) + 1, i < j, a[i] = a[j]
                 PROVE  FALSE
      BY <2>3 DEF Once
    <3>1. \A m, n \in 1 .. Len(s) : s[m] = s[n] => m = n
      BY DEF Chained, Once
    <3>2. CASE j < k
      <4>1. a[i] = s[i] /\ a[j] = s[j] /\ i \in 1 .. Len(s) /\ j \in 1 .. Len(s) /\ i # j
        BY <1>1, <2>3, <3>2
      <4> QED
        BY <3>1, <4>1
    <3>3. CASE j = k
      <4>1. a[j] = e /\ a[i] = s[i] /\ i \in 1 .. Len(s)
        BY <1>1, <2>3, <3>3
      <4> QED
        BY <1>2, <4>1
    <3>4. CASE j > k
      <4>1. a[j] = s[j - 1] /\ j - 1 \in 1 .. Len(s)
        BY <1>1, <2>3, <3>4
      <4>2. CASE i < k
        <5>1. a[i] = s[i] /\ i \in 1 .. Len(s) /\ i # j - 1
          BY <1>1, <2>3, <3>4, <4>2
        <5> QED
          BY <3>1, <4>1, <5>1
      <4>3. CASE i = k
        <5>1. a[i] = e
          BY <1>1, <2>3, <4>3
        <5> QED
          BY <1>2, <4>1, <5>1
      <4>4. CASE i > k
        <5>1. a[i] = s[i - 1] /\ i - 1 \in 1 .. Len(s) /\ i - 1 # j - 1
          BY <1>1, <2>3, <4>4
        <5> QED
          BY <3>1, <4>1, <5>1
      <4> QED
        BY <1>1, <4>2, <4>3, <4>4
    <3> QED
      BY <1>1, <3>2, <3>3, <3>4
  <2>5. ASSUME NEW x \in T PROVE \E i \in 1 .. Len(a) : a[i] = x
    <3>1. a[k] = e /\ k \in 1 .. Len(a)
      BY <1>1, <2>3
    <3>2. ASSUME NEW i \in 1 .. Len(s) PROVE \E j \in 1 .. Len(a) : a[j] = s[i]
      <4>1. CASE i < k
        <5>1. i \in 1 .. Len(a) /\ a[i] = s[i]
          BY <1>1, <2>3, <4>1
        <5> QED
          BY <5>1
      <4>2. CASE i >= k
        <5>1. i + 1 \in 1 .. Len(a) /\ a[i + 1] = s[i]
          BY <1>1, <2>3, <4>2
        <5> QED
          BY <5>1
      <4> QED
        BY <4>1, <4>2
    <3> QED
      BY <1>0, <1>3, <3>1, <3>2
  <2>6. ToSet(a) = T
    <3>1. \A i \in DOMAIN a : a[i] \in T
      BY <2>3
    <3>2. DOMAIN a = 1 .. Len(a)
      BY <2>3
    <3> QED
      BY <2>5, <3>1, <3>2 DEF ToSet
  <2>7. Sorted(a, d, 1)
    <3> SUFFICES ASSUME NEW i \in 1 .. Len(s) PROVE d[a[i]] <= d[a[i + 1]]
      BY <1>1, <2>3 DEF Sorted
    <3>1. CASE i < k - 1
      <4>1. a[i] = s[i] /\ a[i + 1] = s[i + 1] /\ i \in 1 .. Len(s) - 1
        BY <1>1, <2>3, <3>1
      <4> QED
        BY <4>1 DEF Chained, Sorted
    <3>2. CASE i = k - 1
      <4>1. a[i] = s[i] /\ a[i + 1] = e /\ i \in 1 .. k - 1 /\ s[i] \in Ids
        BY <1>1, <1>2, <2>3, <3>2
      <4>2. d[s[i]] < d[e]
        BY <2>1, <4>1
      <4> QED
        BY <4>1, <4>2
    <3>3. CASE i = k
      <4>1. a[i] = e /\ a[i + 1] = s[k] /\ s[k] \in Ids
        BY <1>1, <1>2, <2>3, <3>3
      <4> QED
        BY <2>1, <4>1
    <3>4. CASE i > k
      <4>1. a[i] = s[i - 1] /\ a[i + 1] = s[i] /\ i - 1 \in 1 .. Len(s) - 1 /\ i = (i - 1) + 1
        BY <1>1, <2>3, <3>4
      <4> QED
        BY <4>1 DEF Chained, Sorted
    <3> QED
      BY <3>1, <3>2, <3>3, <3>4
  <2> QED
    BY <1>1, <2>2, <2>3, <2>4, <2>6, <2>7 DEF Chained, T
<1> QED
  BY <1>4, <1>5

\* The chains while the first n entries go back, one after the other.
ChainsTo(n, f) ==
  f = [k \in 0 .. n |-> IF k = 0 THEN SubSeq(chain, n + 1, Len(chain))
                        ELSE PutBack(f[k - 1], chain[k], due)]

\* Their recursion has a solution.
LEMMA ChainsExist ==
  ASSUME NEW n \in Nat
  PROVE  \E f : ChainsTo(n, f)
<1> DEFINE Rest == SubSeq(chain, n + 1, Len(chain))
           Upto(m, f) == f = [k \in 0 .. m |-> IF k = 0 THEN Rest
                                               ELSE PutBack(f[k - 1], chain[k], due)]
           T == {m \in Nat : ~ \E f : Upto(m, f)}
<1>1. T = {}
  <2> SUFFICES ASSUME NEW k \in T PROVE FALSE
    OBVIOUS
  <2>1. PICK m \in T : \A y \in T : m <= y
    BY Least, Zenon
  <2>2. CASE m = 0
    <3> DEFINE f == [k0 \in 0 .. 0 |-> Rest]
    <3>1. Upto(0, f)
      OBVIOUS
    <3> QED
      BY <2>1, <2>2, <3>1
  <2>3. CASE m # 0
    <3>1. m \in Nat /\ m - 1 \in Nat /\ m - 1 \notin T
      <4>1. m \in Nat
        OBVIOUS
      <4> HIDE DEF T
      <4> QED
        BY <2>1, <2>3, <4>1
    <3>2. PICK f : Upto(m - 1, f)
      BY <3>1
    <3> HIDE DEF Rest
    <3> DEFINE g == [j \in 0 .. m |-> IF j = m THEN PutBack(f[m - 1], chain[m], due) ELSE f[j]]
    <3>3. \A j \in 0 .. m : g[j] = IF j = 0 THEN Rest ELSE PutBack(g[j - 1], chain[j], due)
      <4> SUFFICES ASSUME NEW j \in 0 .. m
                   PROVE  g[j] = IF j = 0 THEN Rest ELSE PutBack(g[j - 1], chain[j], due)
        OBVIOUS
      <4>1. CASE j = m
        <5>1. j - 1 \in 0 .. m /\ j - 1 # m /\ j # 0
          BY <4>1, <3>1, <2>3
        <5> QED
          BY <4>1, <5>1
      <4>2. CASE j # m
        <5>1. j \in 0 .. m - 1 /\ (j # 0 => j - 1 \in 0 .. m /\ j - 1 # m)
          BY <4>2, <3>1
        <5>2. f[j] = IF j = 0 THEN Rest ELSE PutBack(f[j - 1], chain[j], due)
          BY <3>2, <5>1
        <5> QED
          BY <4>2, <5>1, <5>2
      <4> QED
        BY <4>1, <4>2
    <3>4. Upto(m, g)
      <4>1. [j \in 0 .. m |-> g[j]] =
            [j \in 0 .. m |-> IF j = 0 THEN Rest ELSE PutBack(g[j - 1], chain[j], due)]
        BY <3>3, Zenon
      <4>2. g = [j \in 0 .. m |-> g[j]]
        OBVIOUS
      <4> QED
        BY <4>1, <4>2
    <3> QED
      BY <2>1, <3>4, Zenon
  <2> QED
    BY <2>2, <2>3
<1>2. PICK f : Upto(n, f)
  BY <1>1, Zenon
<1> QED
  BY <1>2, Zenon DEF ChainsTo

\* The entries that ran go back one after the other: the chain has the same
\* entries then, by time.
LEMMA ChainsAreWhole ==
  ASSUME NEW n \in Nat, NEW f, ChainsTo(n, f), n < Len(chain),
         chain \in Seq(Ids), due \in [Ids -> Int], Once(chain), Sorted(chain, due, n + 1)
  PROVE  Chained(f[n], ToSet(chain), due)
<1> DEFINE S(k) == {chain[i] : i \in (1 .. k) \cup (n + 1 .. Len(chain))}
           T == {k \in 0 .. n : ~ (Chained(f[k], S(k), due) /\ f[k] # << >>)}
<1>0. Len(chain) \in Nat /\ DOMAIN chain = 1 .. Len(chain)
      /\ \A i \in 1 .. Len(chain) : chain[i] \in Ids
  OBVIOUS
<1>1. f[0] = SubSeq(chain, n + 1, Len(chain))
      /\ \A k \in 1 .. n : f[k] = PutBack(f[k - 1], chain[k], due)
  <2>1. \A k \in 0 .. n : f[k] = IF k = 0 THEN SubSeq(chain, n + 1, Len(chain))
                                  ELSE PutBack(f[k - 1], chain[k], due)
    BY Zenon DEF ChainsTo
  <2>2. 0 \in 0 .. n /\ \A k \in 1 .. n : k \in 0 .. n /\ k # 0
    OBVIOUS
  <2> QED
    BY <2>1, <2>2, Zenon
<1>2. \A k \in 0 .. n : Chained(f[k], S(k), due) /\ f[k] # << >>
  <2> SUFFICES ASSUME NEW k0 \in T PROVE FALSE
    OBVIOUS
  <2>1. T \in SUBSET Nat
    OBVIOUS
  <2>2. PICK k \in T : \A y \in T : k <= y
    BY <2>1, Least, Zenon
  <2>3. CASE k = 0
    <3> DEFINE b == SubSeq(chain, n + 1, Len(chain))
    <3>1. b \in Seq(Ids) /\ Len(b) = Len(chain) - n
          /\ \A i \in 1 .. Len(chain) - n : b[i] = chain[n + i]
      <4>1. n + 1 \in 1 .. Len(chain) /\ Len(chain) - (n + 1) + 1 = Len(chain) - n
        BY <1>0
      <4>2. b \in Seq(Ids) /\ Len(b) = Len(chain) - n
            /\ \A i \in 1 .. Len(chain) - n : b[i] = chain[(n + 1) + i - 1]
        BY <4>1, EndOf
      <4>3. \A i \in 1 .. Len(chain) - n : (n + 1) + i - 1 = n + i
        BY <1>0
      <4> QED
        BY <4>2, <4>3
    <3> HIDE DEF b
    <3>2. \A i \in 1 .. Len(chain) - n : n + i \in n + 1 .. Len(chain)
      BY <1>0
    <3>3. Once(b)
      <4> SUFFICES ASSUME NEW i \in 1 .. Len(b), NEW j \in 1 .. Len(b), b[i] = b[j] PROVE i = j
        BY DEF Once
      <4>1. n + i \in 1 .. Len(chain) /\ n + j \in 1 .. Len(chain) /\ chain[n + i] = chain[n + j]
        BY <1>0, <3>1, <3>2
      <4>2. n + i = n + j
        BY <4>1 DEF Once
      <4> QED
        BY <4>2, <3>1
    <3>4. ToSet(b) = S(0)
      <4>1. ASSUME NEW i \in n + 1 .. Len(chain) PROVE \E j \in 1 .. Len(b) : b[j] = chain[i]
        <5>1. i - n \in 1 .. Len(b) /\ n + (i - n) = i
          BY <1>0, <3>1
        <5>2. b[i - n] = chain[i]
          BY <3>1, <5>1
        <5> QED
          BY <5>1, <5>2
      <4>2. S(0) = {chain[i] : i \in n + 1 .. Len(chain)}
        BY <1>0
      <4>3. \A j \in 1 .. Len(b) : b[j] = chain[n + j] /\ n + j \in n + 1 .. Len(chain)
        BY <1>0, <3>1
      <4>4. DOMAIN b = 1 .. Len(b)
        BY <3>1
      <4> HIDE DEF S
      <4>5. ToSet(b) = {b[j] : j \in 1 .. Len(b)}
        BY <4>4 DEF ToSet
      <4>6. \A x \in ToSet(b) : x \in S(0)
        BY <4>2, <4>3, <4>5
      <4>7. \A x \in S(0) : x \in ToSet(b)
        BY <4>1, <4>2, <4>5
      <4> QED
        BY <4>6, <4>7
    <3>5. Sorted(b, due, 1)
      <4> SUFFICES ASSUME NEW i \in 1 .. Len(b) - 1 PROVE due[b[i]] <= due[b[i + 1]]
        BY DEF Sorted
      <4>1. b[i] = chain[n + i] /\ b[i + 1] = chain[(n + i) + 1] /\ n + i \in n + 1 .. Len(chain) - 1
        BY <1>0, <3>1
      <4> QED
        BY <4>1 DEF Sorted
    <3>6. b \in Seq(S(0)) /\ b # << >>
      <4>1. b \in Seq(ToSet(b)) /\ b # << >>
        <5>1. Len(b) \in Nat /\ b # << >> /\ DOMAIN b = 1 .. Len(b) /\ b \in Seq(Ids)
          BY <1>0, <3>1
        <5>2. b = [i \in 1 .. Len(b) |-> b[i]]
          BY ONLY <5>1
        <5>3. \A i \in 1 .. Len(b) : b[i] \in ToSet(b)
          BY ONLY <5>1 DEF ToSet
        <5>4. b \in [1 .. Len(b) -> ToSet(b)]
          BY ONLY <5>2, <5>3
        <5> QED
          BY ONLY <5>1, <5>4, FunctionSeq
      <4> QED
        BY <3>4, <4>1
    <3>7. f[0] = b
      BY <1>1 DEF b
    <3> QED
      BY <2>2, <2>3, <3>3, <3>4, <3>5, <3>6, <3>7 DEF Chained
  <2>4. CASE k # 0
    <3>1. k \in 1 .. n /\ k - 1 \in 0 .. n /\ k - 1 \notin T
      <4>1. k \in 0 .. n
        OBVIOUS
      <4> HIDE DEF T
      <4> QED
        BY <2>2, <2>4, <4>1
    <3>2. Chained(f[k - 1], S(k - 1), due) /\ f[k - 1] # << >>
      BY <3>1
    <3>3. S(k - 1) \in SUBSET Ids /\ k \in 1 .. Len(chain)
      <4>1. \A i \in (1 .. k - 1) \cup (n + 1 .. Len(chain)) : i \in 1 .. Len(chain)
        BY <1>0, <3>1
      <4> QED
        BY <1>0, <3>1, <4>1
    <3>4. chain[k] \in Ids \ S(k - 1)
      <4>1. \A i \in (1 .. k - 1) \cup (n + 1 .. Len(chain)) : i \in 1 .. Len(chain) /\ i # k
        BY <1>0, <3>1
      <4>2. \A i \in (1 .. k - 1) \cup (n + 1 .. Len(chain)) : chain[i] # chain[k]
        BY <3>3, <4>1 DEF Once
      <4> QED
        BY <1>0, <3>3, <4>2
    <3>5. S(k) = S(k - 1) \cup {chain[k]}
      <4>1. (1 .. k) \cup (n + 1 .. Len(chain)) = ((1 .. k - 1) \cup (n + 1 .. Len(chain))) \cup {k}
        BY <1>0, <3>1
      <4> QED
        BY <4>1
    <3> HIDE DEF S
    <3>6. Chained(PutBack(f[k - 1], chain[k], due), S(k), due)
          /\ PutBack(f[k - 1], chain[k], due) # << >>
      BY <3>2, <3>3, <3>4, <3>5, PutsBack
    <3> QED
      BY <1>1, <2>2, <3>1, <3>6
  <2> QED
    BY <2>3, <2>4
<1>3. S(n) = ToSet(chain)
  <2>1. (1 .. n) \cup (n + 1 .. Len(chain)) = DOMAIN chain
    BY <1>0
  <2> QED
    BY <2>1 DEF ToSet
<1> HIDE DEF S
<1> QED
  BY <1>2, <1>3

\* The end of a round: whatever ran, the chain has the same entries, by time.
LEMMA RechainsAll ==
  ASSUME NEW n \in Nat, NEW s \in Rechained(n),
         chain \in Seq(Ids), due \in [Ids -> Int], Once(chain), Sorted(chain, due, n + 1)
  PROVE  Chained(s, ToSet(chain), due)
<1>0. ToSet(chain) \in SUBSET Ids /\ chain \in Seq(ToSet(chain)) /\ Len(chain) \in Nat
  BY DEF ToSet
<1>1. CASE n = 0 \/ Len(chain) = 1
  <2>1. s = chain
    BY <1>1 DEF Rechained
  <2>2. Sorted(chain, due, 1)
    BY <1>0, <1>1 DEF Sorted
  <2> QED
    BY <1>0, <2>1, <2>2 DEF Chained
<1>2. CASE ~ (n = 0 \/ Len(chain) = 1) /\ n > Len(chain) \div 2
  <2>1. s \in MakeChain(ToSet(chain), due)
    BY <1>2 DEF Rechained
  <2> QED
    BY <1>0, <2>1, MakesChain
<1>3. CASE ~ (n = 0 \/ Len(chain) = 1) /\ ~ n > Len(chain) \div 2
  <2>1. n < Len(chain)
    BY <1>0, <1>3
  <2> DEFINE h == CHOOSE f : ChainsTo(n, f)
  <2>2. ChainsTo(n, h)
    BY ChainsExist, Zenon
  <2>3. s = h[n]
    <3>1. Rechained(n) = {(CHOOSE f : f = [k \in 0 .. n |-> IF k = 0 THEN SubSeq(chain, n + 1, Len(chain))
                                             ELSE PutBack(f[k - 1], chain[k], due)])[n]}
      BY <1>3, Zenon DEF Rechained
    <3>2. Rechained(n) = {h[n]}
      BY <3>1, Zenon DEF ChainsTo
    <3> QED
      BY <3>2
  <2> HIDE DEF h
  <2> QED
    BY <2>1, <2>2, <2>3, ChainsAreWhole
<1> QED
  BY <1>1, <1>2, <1>3

-----------------------------------------------------------------------------
(* The steps.                                                                *)

\* The thread starts with a chain of the entries it was given.
LEMMA ScheduleStarts ==
  ASSUME Init
  PROVE  ScheduleInv
<1>1. PICK S \in StartSets : /\ due = [e \in Ids |-> IF e \in S THEN FirstCall(e, clock) ELSE 0]
                             /\ chain \in MakeChain(S, due) /\ wanted = S
  BY DEF Init
<1>2. S \in SUBSET Ids /\ clock = 0
  BY ScheduleAssumption DEF Init
<1>3. Chained(chain, S, due)
  BY <1>1, <1>2, MakesChain
<1>4. \A e \in Ids : FirstCall(e, clock) \in Int /\ AtGrid(e, clock + FirstCall(e, clock))
  BY <1>2, FirstOnGrid
<1>5. due \in [Ids -> Int]
  BY <1>1, <1>4
<1>6. chain \in Seq(Ids)
  BY <1>2, <1>3 DEF Chained
<1>7. ScheduleTypes
  BY <1>1, <1>2, <1>5, <1>6 DEF Init, ScheduleTypes, ThreadPlaces, Idle
<1>8. ChainInOrder
  BY <1>3 DEF Init, ChainInOrder, Chained
<1>9. Requested
  BY <1>1, <1>3 DEF Init, Requested, Chained
<1>10. Grids
  <2>1. \A e \in ToSet(chain) : AtGrid(e, clock + due[e])
    BY <1>1, <1>2, <1>3, <1>4 DEF Chained
  <2>2. DOMAIN waiting = {}
    BY DEF Init
  <2> QED
    BY <2>1, <2>2 DEF Grids
<1> QED
  BY <1>7, <1>8, <1>9, <1>10 DEF ScheduleInv

\* The clock moves: all times of the chain come nearer, on their grids.
LEMMA ClockSteps ==
  ASSUME ScheduleTypes, NEW d \in Nat, ClockMoves(d)
  PROVE  /\ clock' \in Int /\ due' \in [Ids -> Int]
         /\ \A e \in ToSet(chain) : due'[e] = due[e] - d
         /\ \A e \in Ids, x \in Int : AtGrid(e, clock + x) => AtGrid(e, clock' + (x - d))
<1>1. clock \in Int /\ clock + d \in Int /\ Day \in Nat \ {0} /\ clock' = (clock + d) % Day
  BY ScheduleAssumption DEF ScheduleTypes, ClockMoves
<1>2. clock' \in Int
  BY <1>1, Remainder
<1>3. due' = [e \in Ids |-> IF e \in ToSet(chain) THEN due[e] - d ELSE 0]
  <2>1. \A e : Contains(chain, e) <=> e \in ToSet(chain)
    BY InChain DEF ScheduleTypes
  <2>2. due' = [e \in Ids |-> IF Contains(chain, e) THEN due[e] - d ELSE 0]
    BY DEF ClockMoves
  <2> QED
    BY <2>1, <2>2
<1>4. \A e \in Ids, x \in Int : AtGrid(e, clock + x) => AtGrid(e, clock' + (x - d))
  <2> SUFFICES ASSUME NEW e \in Ids, NEW x \in Int, AtGrid(e, clock + x)
               PROVE  AtGrid(e, clock' + (x - d))
    OBVIOUS
  <2>1. clock \in Int /\ d \in Int
    BY <1>1
  <2>2. AtGrid(e, ((clock + d) % Day) + (x - d))
    BY <2>1, GridMoves, Zenon
  <2> QED
    BY <1>1, <2>2, Zenon
<1>5. ToSet(chain) \subseteq Ids /\ due \in [Ids -> Int]
  BY DEF ScheduleTypes, ToSet
<1>6. due' \in [Ids -> Int]
  BY <1>3, <1>5
<1> QED
  BY <1>2, <1>3, <1>4, <1>5, <1>6

\* When all times come nearer the chain stays in order.
LEMMA OrderShifts ==
  ASSUME ScheduleTypes, NEW d \in Nat, due' \in [Ids -> Int],
         \A e \in ToSet(chain) : due'[e] = due[e] - d,
         NEW p \in Nat \ {0}, Sorted(chain, due, p)
  PROVE  Sorted(chain, due', p)
<1> SUFFICES ASSUME NEW i \in p .. Len(chain) - 1 PROVE due'[chain[i]] <= due'[chain[i + 1]]
  BY DEF Sorted
<1>0. Len(chain) \in Nat /\ DOMAIN chain = 1 .. Len(chain) /\ \A j \in DOMAIN chain : chain[j] \in Ids
  BY Elements DEF ScheduleTypes
<1>1. i \in DOMAIN chain /\ i + 1 \in DOMAIN chain
  BY <1>0
<1>2. chain[i] \in ToSet(chain) /\ chain[i + 1] \in ToSet(chain)
      /\ chain[i] \in Ids /\ chain[i + 1] \in Ids
  BY <1>0, <1>1 DEF ToSet
<1>3. due[chain[i]] <= due[chain[i + 1]]
  BY DEF Sorted
<1>4. due[chain[i]] \in Int /\ due[chain[i + 1]] \in Int
  BY <1>2 DEF ScheduleTypes
<1> QED
  BY <1>2, <1>3, <1>4

\* The thread looks at the clock.
LEMMA SampleStep ==
  ASSUME ScheduleInv, NEW d \in Nat, Sample(d), pc # "exec", pc' \in ThreadPlaces \ {"exec"}
  PROVE  ScheduleInv'
<1>0. ScheduleTypes /\ ChainInOrder /\ Requested /\ Grids
  BY DEF ScheduleInv
<1>1. UNCHANGED << chain, raced, del, pos, client, wanted >> /\ ClockMoves(d) /\ waiting' = WaitingAt(d)
  BY DEF Sample, clientVars
<1>2. /\ clock' \in Int /\ due' \in [Ids -> Int]
      /\ \A e \in ToSet(chain) : due'[e] = due[e] - d
      /\ \A e \in Ids, x \in Int : AtGrid(e, clock + x) => AtGrid(e, clock' + (x - d))
  BY <1>0, <1>1, ClockSteps
<1>3. waiting' \in Seq([id : Ids, due : Int]) /\ DOMAIN waiting' = DOMAIN waiting
      /\ \A i \in DOMAIN waiting : /\ waiting'[i].id = waiting[i].id
                                   /\ client.pc # "init" => waiting'[i].due = waiting[i].due - d
  <2>1. waiting \in Seq([id : Ids, due : Int])
    BY <1>0 DEF ScheduleTypes
  <2>2. CASE client.pc = "init"
    BY <1>1, <2>1, <2>2 DEF WaitingAt
  <2>3. CASE client.pc # "init"
    <3>1. waiting' = [i \in DOMAIN waiting |-> [waiting[i] EXCEPT !.due = @ - d]]
      BY <1>1, <2>3 DEF WaitingAt
    <3>2. \A i \in DOMAIN waiting : waiting[i] \in [id : Ids, due : Int]
      BY <2>1, Elements
    <3>3. \A i \in DOMAIN waiting : /\ waiting'[i] \in [id : Ids, due : Int]
                                    /\ waiting'[i].id = waiting[i].id
                                    /\ waiting'[i].due = waiting[i].due - d
      BY <3>1, <3>2
    <3>4. DOMAIN waiting = 1 .. Len(waiting) /\ Len(waiting) \in Nat
      BY <2>1
    <3>5. DOMAIN waiting' = DOMAIN waiting
      BY <3>1
    <3>6. waiting' \in [1 .. Len(waiting) -> [id : Ids, due : Int]]
      BY <3>1, <3>3, <3>4
    <3>7. waiting' \in Seq([id : Ids, due : Int])
      BY <3>4, <3>6, FunctionSeq
    <3> QED
      BY <3>3, <3>5, <3>7
  <2> QED
    BY <2>2, <2>3
<1>4. ScheduleTypes'
  BY <1>0, <1>1, <1>2, <1>3 DEF ScheduleTypes
<1>5. ChainInOrder'
  <2>1. Sorted(chain, due', 1) /\ Once(chain)
    BY <1>0, <1>2, OrderShifts DEF ChainInOrder
  <2>2. (IF pc = "exec" THEN pos ELSE 1)' = 1
    OBVIOUS
  <2>3. Sorted(chain, due, IF pc = "exec" THEN pos ELSE 1)' /\ Once(chain)'
    BY <1>1, <2>1, <2>2 DEF Sorted, Once
  <2> QED
    BY <2>3 DEF ChainInOrder
<1>6. WaitingIds' = WaitingIds
  <2>1. {waiting'[i].id : i \in DOMAIN waiting'} = {waiting[i].id : i \in DOMAIN waiting}
    BY <1>3, Zenon
  <2> QED
    BY <2>1 DEF WaitingIds
<1>7. Requested'
  BY <1>0, <1>1, <1>6 DEF Requested
<1>8. Grids'
  <2>1. \A e \in ToSet(chain) \ raced : AtGrid(e, clock' + due'[e])
    <3> SUFFICES ASSUME NEW e \in ToSet(chain) \ raced PROVE AtGrid(e, clock' + due'[e])
      OBVIOUS
    <3>1. e \in Ids /\ due[e] \in Int
      BY <1>0 DEF ScheduleTypes, ToSet
    <3>2. AtGrid(e, clock + due[e])
      BY <1>0 DEF Grids
    <3> QED
      BY <1>2, <3>1, <3>2
  <2>2. ASSUME client.pc # "init", NEW i \in DOMAIN waiting
        PROVE  AtGrid(waiting'[i].id, clock' + waiting'[i].due)
    <3>1. waiting[i].id \in Ids /\ waiting[i].due \in Int
      <4>1. waiting[i] \in [id : Ids, due : Int]
        BY <1>0, Elements DEF ScheduleTypes
      <4> QED
        BY <4>1
    <3>2. AtGrid(waiting[i].id, clock + waiting[i].due)
      BY <1>0, <2>2 DEF Grids
    <3>3. AtGrid(waiting[i].id, clock' + (waiting[i].due - d))
      BY <1>2, <3>1, <3>2
    <3>4. waiting'[i].id = waiting[i].id /\ waiting'[i].due = waiting[i].due - d
      BY <1>3, <2>2
    <3> QED
      BY <3>3, <3>4, Zenon
  <2> QED
    BY <1>1, <1>3, <2>1, <2>2 DEF Grids
<1> QED
  BY <1>4, <1>5, <1>7, <1>8 DEF ScheduleInv

\* What WaitingDue finds is the time of a waiting entry of this id.
LEMMA DueOfWaiting ==
  ASSUME ScheduleTypes, NEW e \in WaitingIds
  PROVE  e \in Ids /\ \E i \in DOMAIN waiting :
                         waiting[i].id = e /\ WaitingDue(e) = waiting[i].due /\ WaitingDue(e) \in Int
<1> DEFINE n == Len(waiting)
           I == {i \in DOMAIN waiting : waiting[i].id = e}
           T == {n - i : i \in I}
<1>1. waiting \in Seq([id : Ids, due : Int]) /\ DOMAIN waiting = 1 .. n /\ n \in Nat
  BY DEF ScheduleTypes
<1>2. \A i \in DOMAIN waiting : waiting[i].id \in Ids /\ waiting[i].due \in Int
  <2>1. \A i \in DOMAIN waiting : waiting[i] \in [id : Ids, due : Int]
    BY <1>1, Elements
  <2> QED
    BY <2>1
<1> HIDE DEF n
<1>3. PICK j \in DOMAIN waiting : waiting[j].id = e
  BY DEF WaitingIds
<1>4. T \in SUBSET Nat /\ n - j \in T
  BY <1>1, <1>3
<1> HIDE DEF T
<1>5. PICK t \in T : \A y \in T : t <= y
  BY <1>4, Least, Zenon
<1>6. PICK m \in I : t = n - m
  BY <1>5 DEF T
<1>7. \A k \in I : k <= m
  <2> SUFFICES ASSUME NEW k \in I PROVE k <= m
    OBVIOUS
  <2>1. n - k \in T
    BY DEF T
  <2>2. n - m <= n - k
    BY <1>5, <1>6, <2>1
  <2> QED
    BY <1>1, <2>2
<1> DEFINE Fits(x) == waiting[x].id = e /\ \A k \in DOMAIN waiting : waiting[k].id = e => k <= x
           x == CHOOSE x \in DOMAIN waiting : Fits(x)
<1>8. x \in DOMAIN waiting /\ Fits(x)
  <2>1. m \in DOMAIN waiting /\ Fits(m)
    BY <1>7
  <2> HIDE DEF Fits
  <2> QED
    BY <2>1
<1>9. WaitingDue(e) = waiting[x].due
  BY Zenon DEF WaitingDue
<1> HIDE DEF x
<1> QED
  BY <1>2, <1>3, <1>8, <1>9

\* do_check_waiting takes what waits.
LEMMA TakeStep ==
  ASSUME ScheduleInv, pc # "exec", NEW ok \in ThreadPlaces, NEW no \in ThreadPlaces,
         CheckWaiting(ok, no), pos' \in Nat \ {0}, pc' = "exec" => pos' = 1,
         UNCHANGED << client, wanted, clock >>
  PROVE  ScheduleInv'
<1>0. ScheduleTypes /\ ChainInOrder /\ Requested /\ Grids
  BY DEF ScheduleInv
<1> DEFINE S == Left \cup WaitingIds
           d == [e \in Ids |-> IF e \in WaitingIds THEN WaitingDue(e) ELSE due[e]]
<1>1. WaitingIds \subseteq Ids /\ ToSet(chain) \subseteq Ids /\ Left \subseteq ToSet(chain) /\ S \in SUBSET Ids
  <2>1. WaitingIds \subseteq Ids
    BY <1>0, DueOfWaiting
  <2>2. ToSet(chain) \subseteq Ids
    BY <1>0 DEF ToSet, ScheduleTypes
  <2>3. Left \subseteq ToSet(chain)
    BY DEF Left
  <2> QED
    BY <2>1, <2>2, <2>3
<1>2. d \in [Ids -> Int]
  <2>1. ASSUME NEW e \in Ids PROVE (IF e \in WaitingIds THEN WaitingDue(e) ELSE due[e]) \in Int
    BY <1>0, DueOfWaiting DEF ScheduleTypes
  <2> QED
    BY <2>1
<1>3. /\ del' = NoId /\ waiting' = << >>
      /\ due' = [e \in Ids |-> IF e \in S THEN d[e] ELSE 0]
      /\ raced' = (raced \cap (S \ WaitingIds)) \cup TakenRaw
      /\ pc' \in {ok, no}
      /\ (chain' \in MakeChain(S, d) \/ (chain' = chain /\ waiting = << >> /\ S = ToSet(chain)))
  BY DEF CheckWaiting
<1> HIDE DEF S, d
<1>4. Chained(chain', S, d)
  <2>1. CASE chain' \in MakeChain(S, d)
    BY <1>1, <2>1, MakesChain
  <2>2. CASE chain' = chain /\ waiting = << >> /\ S = ToSet(chain)
    <3>1. WaitingIds = {}
      BY <2>2 DEF WaitingIds
    <3>2. d = due
      BY <1>0, <3>1 DEF d, ScheduleTypes
    <3>3. chain \in Seq(ToSet(chain))
      BY <1>0 DEF ScheduleTypes, ToSet
    <3>4. Once(chain) /\ Sorted(chain, due, 1)
      BY <1>0 DEF ChainInOrder
    <3> QED
      BY <2>2, <3>2, <3>3, <3>4 DEF Chained
  <2> QED
    BY <1>3, <2>1, <2>2
<1>5. due' \in [Ids -> Int] /\ \A e \in S : due'[e] = d[e]
  BY <1>1, <1>2, <1>3
<1>6. ScheduleTypes'
  <2>1. chain' \in Seq(Ids)
    BY <1>1, <1>4 DEF Chained
  <2>2. raced' \in SUBSET Ids
    BY <1>0, <1>1, <1>3 DEF ScheduleTypes, TakenRaw
  <2> QED
    BY <1>0, <1>3, <1>5, <2>1, <2>2 DEF ScheduleTypes
<1>7. ChainInOrder'
  <2>1. Sorted(chain', due', 1)
    <3> SUFFICES ASSUME NEW i \in 1 .. Len(chain') - 1 PROVE due'[chain'[i]] <= due'[chain'[i + 1]]
      BY DEF Sorted
    <3>1. chain'[i] \in S /\ chain'[i + 1] \in S
      BY <1>4 DEF Chained
    <3> QED
      BY <1>4, <1>5, <3>1 DEF Chained, Sorted
  <2>2. Once(chain')
    BY <1>4 DEF Chained
  <2>3. (IF pc = "exec" THEN pos ELSE 1)' = 1
    OBVIOUS
  <2>4. Sorted(chain, due, IF pc = "exec" THEN pos ELSE 1)'
    BY <2>1, <2>3 DEF Sorted
  <2>5. Once(chain)'
    BY <2>2 DEF Once
  <2> QED
    BY <2>4, <2>5 DEF ChainInOrder
<1>8. ToSet(chain)' = S
  BY <1>4 DEF Chained, ToSet
<1>9. Requested'
  <2>1. wanted \subseteq S
    <3> SUFFICES ASSUME NEW e \in wanted PROVE e \in S
      OBVIOUS
    <3>1. e \in ToSet(chain) \/ e \in WaitingIds
      BY <1>0 DEF Requested
    <3>2. CASE e \in WaitingIds
      BY <3>2 DEF S
    <3>3. CASE e \in ToSet(chain) /\ e # del
      BY <3>3 DEF S, Left
    <3>4. CASE e = del
      <4>1. e # NoId
        BY <1>0, ScheduleAssumption DEF ScheduleTypes, NoId
      <4> QED
        BY <1>0, <3>2, <3>4, <4>1 DEF Requested
    <3> QED
      BY <3>1, <3>2, <3>3, <3>4
  <2> QED
    BY <1>3, <1>8, <2>1 DEF Requested
<1>10. Grids'
  <2>1. ASSUME NEW e \in S, e \notin raced' PROVE AtGrid(e, clock + due'[e])
    <3>1. CASE e \in WaitingIds
      <4>1. client.pc # "init"
        BY <1>3, <2>1, <3>1 DEF TakenRaw
      <4>2. PICK i \in DOMAIN waiting : waiting[i].id = e /\ WaitingDue(e) = waiting[i].due
        BY <1>0, <3>1, DueOfWaiting
      <4>3. due'[e] = waiting[i].due
        BY <1>1, <1>5, <2>1, <3>1, <4>2 DEF d
      <4> QED
        BY <1>0, <4>1, <4>2, <4>3 DEF Grids
    <3>2. CASE e \notin WaitingIds
      <4>1. e \in ToSet(chain) \ raced
        BY <1>1, <1>3, <2>1, <3>2 DEF S
      <4>2. due'[e] = due[e]
        BY <1>1, <1>5, <2>1, <3>2 DEF d
      <4> QED
        BY <1>0, <4>1, <4>2 DEF Grids
    <3> QED
      BY <3>1, <3>2
  <2> QED
    BY <1>3, <1>8, <2>1 DEF Grids
<1> QED
  BY <1>6, <1>7, <1>9, <1>10 DEF ScheduleInv

\* There is no memory for what waits: the deletion alone is done.
LEMMA FailStep ==
  ASSUME ScheduleInv, pc # "exec", NEW no \in ThreadPlaces \ {"exec"}, CheckWaitingFails(no),
         pos' \in Nat \ {0}, UNCHANGED << client, wanted, clock >>
  PROVE  ScheduleInv'
<1>0. ScheduleTypes /\ ChainInOrder /\ Requested /\ Grids
  BY DEF ScheduleInv
<1>1. /\ del' = NoId /\ waiting' = waiting /\ pc' = no /\ raced' = raced \cap Left
      /\ due' = [e \in Ids |-> IF e \in Left THEN due[e] ELSE 0]
      /\ chain' \in MakeChain(Left, due) \/ (chain' = chain /\ Left = ToSet(chain))
  BY DEF CheckWaitingFails
<1>2. ToSet(chain) \subseteq Ids /\ Left \subseteq ToSet(chain)
  <2>1. ToSet(chain) \subseteq Ids
    BY <1>0, Elements DEF ToSet, ScheduleTypes
  <2> QED
    BY <2>1 DEF Left
<1>3. Chained(chain', Left, due)
  <2>1. CASE chain' \in MakeChain(Left, due)
    <3>1. Left \in SUBSET Ids
      BY <1>2
    <3> QED
      BY <2>1, <3>1, MakesChain
  <2>2. CASE chain' = chain /\ Left = ToSet(chain)
    <3>1. chain \in Seq(ToSet(chain))
      BY <1>0 DEF ScheduleTypes, ToSet
    <3>2. Once(chain) /\ Sorted(chain, due, 1)
      BY <1>0 DEF ChainInOrder
    <3> QED
      BY <2>2, <3>1, <3>2 DEF Chained
  <2> QED
    BY <1>1, <2>1, <2>2
<1>4. due' \in [Ids -> Int] /\ \A e \in Left : due'[e] = due[e]
  BY <1>0, <1>1, <1>2 DEF ScheduleTypes
<1>5. ScheduleTypes'
  <2>1. chain' \in Seq(Ids)
    BY <1>2, <1>3 DEF Chained
  <2> QED
    BY <1>0, <1>1, <1>4, <2>1 DEF ScheduleTypes
<1>6. ChainInOrder'
  <2>1. Sorted(chain', due', 1)
    <3> SUFFICES ASSUME NEW i \in 1 .. Len(chain') - 1 PROVE due'[chain'[i]] <= due'[chain'[i + 1]]
      BY DEF Sorted
    <3>1. chain'[i] \in Left /\ chain'[i + 1] \in Left
      BY <1>3 DEF Chained
    <3> QED
      BY <1>3, <1>4, <3>1 DEF Chained, Sorted
  <2>2. Once(chain)'
    BY <1>3 DEF Chained, Once
  <2>3. (IF pc = "exec" THEN pos ELSE 1)' = 1
    BY <1>1
  <2>4. Sorted(chain, due, IF pc = "exec" THEN pos ELSE 1)'
    BY <2>1, <2>3 DEF Sorted
  <2> QED
    BY <2>2, <2>4 DEF ChainInOrder
<1>7. ToSet(chain)' = Left /\ WaitingIds' = WaitingIds
  BY <1>1, <1>3 DEF Chained, ToSet, WaitingIds
<1>8. Requested'
  <2>1. wanted \subseteq Left \cup WaitingIds
    <3> SUFFICES ASSUME NEW e \in wanted, e \notin WaitingIds PROVE e \in Left
      OBVIOUS
    <3>1. e \in ToSet(chain) /\ e # NoId /\ e # del
      BY <1>0, ScheduleAssumption DEF Requested, ScheduleTypes, NoId
    <3> QED
      BY <3>1 DEF Left
  <2> QED
    BY <1>1, <1>7, <2>1 DEF Requested
<1>9. Grids'
  <2>1. \A e \in Left \ raced' : AtGrid(e, clock + due'[e])
    BY <1>0, <1>1, <1>2, <1>4 DEF Grids
  <2> QED
    BY <1>0, <1>1, <1>7, <2>1 DEF Grids
<1> QED
  BY <1>5, <1>6, <1>8, <1>9 DEF ScheduleInv

scheduleKept == << chain, due, raced, waiting, del, wanted, client, clock >>

\* The thread goes on and nothing else changes.
LEMMA WalkOn ==
  ASSUME ScheduleInv, UNCHANGED scheduleKept, pc # "exec",
         pc' \in ThreadPlaces, pos' \in Nat \ {0}, pc' = "exec" => pos' = 1
  PROVE  ScheduleInv'
<1>0. ScheduleTypes /\ ChainInOrder /\ Requested /\ Grids
  BY DEF ScheduleInv
<1>1. UNCHANGED << chain, due, raced, waiting, del, wanted, client, clock >>
  BY DEF scheduleKept
<1>2. ScheduleTypes' /\ Requested' /\ Grids'
  <2>1. WaitingIds' = WaitingIds
    BY <1>1 DEF WaitingIds
  <2> QED
    BY <1>0, <1>1, <2>1 DEF ScheduleTypes, Requested, Grids
<1>3. ChainInOrder'
  <2>1. (IF pc = "exec" THEN pos ELSE 1)' = 1 /\ (IF pc = "exec" THEN pos ELSE 1) = 1
    OBVIOUS
  <2> QED
    BY <1>0, <1>1, <2>1 DEF ChainInOrder, Once, Sorted
<1> QED
  BY <1>2, <1>3 DEF ScheduleInv

\* An entry runs: its next time is on its grid, and only those behind it have
\* to be in order still.
LEMMA ExecStep ==
  ASSUME ScheduleInv, Exec
  PROVE  ScheduleInv'
<1>0. ScheduleTypes /\ ChainInOrder /\ Requested /\ Grids
  BY DEF ScheduleInv
<1> DEFINE e == chain[pos]
<1>1. /\ pc = "exec" /\ pos <= Len(chain) /\ pos' = pos + 1 /\ pc' = pc
      /\ UNCHANGED << chain, raced, waiting, del, clock, client, wanted >>
  BY DEF Exec, DueNext, clientVars
<1>2. PICK x \in NextCall(e) : due' = [due EXCEPT ![e] = x]
  BY DEF Exec
<1>3. Len(chain) \in Nat /\ DOMAIN chain = 1 .. Len(chain) /\ \A i \in DOMAIN chain : chain[i] \in Ids
  BY <1>0, Elements DEF ScheduleTypes
<1>4. pos \in DOMAIN chain /\ e \in Ids /\ pos \in Nat \ {0}
  BY <1>0, <1>1, <1>3 DEF ScheduleTypes
<1> HIDE DEF e
<1>5. due \in [Ids -> Int] /\ clock \in Int
  BY <1>0 DEF ScheduleTypes
<1>6. x \in Int /\ (e \notin raced /\ AtGrid(e, clock + due[e]) => AtGrid(e, clock + x))
  BY <1>4, <1>5, NextOnGrid
<1>7. due' \in [Ids -> Int] /\ due'[e] = x /\ \A f \in Ids : f # e => due'[f] = due[f]
  BY <1>2, <1>4, <1>5, <1>6
<1>8. ScheduleTypes'
  <2>1. pos' \in Nat \ {0}
    BY <1>1, <1>4
  <2>2. due' \in [Ids -> Int]
    BY <1>7
  <2> QED
    BY <1>0, <1>1, <2>1, <2>2 DEF ScheduleTypes
<1>9. ChainInOrder'
  <2>1. Once(chain)'
    BY <1>0, <1>1 DEF ChainInOrder, Once
  <2>2. ASSUME NEW i \in pos + 1 .. Len(chain) - 1 PROVE due'[chain[i]] <= due'[chain[i + 1]]
    <3>1. i \in DOMAIN chain /\ i + 1 \in DOMAIN chain /\ i # pos /\ i + 1 # pos /\ i \in pos .. Len(chain) - 1
      BY <1>3, <1>4
    <3>2. chain[i] # e /\ chain[i + 1] # e /\ chain[i] \in Ids /\ chain[i + 1] \in Ids
      BY <1>0, <1>3, <1>4, <3>1 DEF e, ChainInOrder, Once
    <3>3. due[chain[i]] <= due[chain[i + 1]]
      BY <1>0, <1>1, <3>1 DEF ChainInOrder, Sorted
    <3> QED
      BY <1>7, <3>2, <3>3
  <2>3. (IF pc = "exec" THEN pos ELSE 1)' = pos + 1
    BY <1>1
  <2>4. Sorted(chain, due, IF pc = "exec" THEN pos ELSE 1)'
    BY <1>1, <2>2, <2>3 DEF Sorted
  <2> QED
    BY <2>1, <2>4 DEF ChainInOrder
<1>10. WaitingIds' = WaitingIds /\ Requested'
  <2>1. WaitingIds' = WaitingIds
    BY <1>1 DEF WaitingIds
  <2> QED
    BY <1>0, <1>1, <2>1 DEF Requested
<1>11. Grids'
  <2>1. ASSUME NEW f \in ToSet(chain) \ raced PROVE AtGrid(f, clock + due'[f])
    <3>1. f \in Ids
      BY <1>3 DEF ToSet
    <3>2. AtGrid(f, clock + due[f])
      BY <1>0 DEF Grids
    <3>3. CASE f = e
      <4>1. AtGrid(e, clock + x)
        BY <1>6, <3>2, <3>3
      <4> QED
        BY <1>7, <3>3, <4>1
    <3>4. CASE f # e
      <4>1. due'[f] = due[f]
        BY <1>7, <3>1, <3>4
      <4> QED
        BY <3>2, <4>1
    <3> QED
      BY <3>3, <3>4
  <2> QED
    BY <1>0, <1>1, <2>1 DEF Grids
<1> QED
  BY <1>8, <1>9, <1>10, <1>11 DEF ScheduleInv

\* The end of a round: those that ran go back to their places.
LEMMA EndExecStep ==
  ASSUME ScheduleInv, EndExec
  PROVE  ScheduleInv'
<1>0. ScheduleTypes /\ ChainInOrder /\ Requested /\ Grids
  BY DEF ScheduleInv
<1>1. /\ pc = "exec" /\ chain' \in Rechained(pos - 1) /\ pc' = "top" /\ pos' = 1
      /\ UNCHANGED << due, raced, waiting, del, clock, client, wanted >>
  BY DEF EndExec, clientVars
<1>2. /\ chain \in Seq(Ids) /\ due \in [Ids -> Int] /\ Once(chain) /\ pos - 1 \in Nat
      /\ Sorted(chain, due, (pos - 1) + 1)
  <2>1. pos \in Nat \ {0} /\ Sorted(chain, due, pos)
    BY <1>0, <1>1 DEF ScheduleTypes, ChainInOrder
  <2>2. (pos - 1) + 1 = pos
    BY <2>1
  <2> QED
    BY <1>0, <2>1, <2>2 DEF ScheduleTypes, ChainInOrder
<1>3. Chained(chain', ToSet(chain), due)
  BY <1>1, <1>2, RechainsAll
<1>4. chain' \in Seq(Ids) /\ ToSet(chain)' = ToSet(chain)
  <2>1. ToSet(chain) \subseteq Ids
    BY <1>2, Elements DEF ToSet
  <2> QED
    BY <1>3, <2>1 DEF Chained, ToSet
<1>5. ScheduleTypes'
  BY <1>0, <1>1, <1>4 DEF ScheduleTypes, ThreadPlaces
<1>6. ChainInOrder'
  <2>1. (IF pc = "exec" THEN pos ELSE 1)' = 1
    BY <1>1
  <2> QED
    BY <1>1, <1>3, <2>1 DEF Chained, ChainInOrder, Once, Sorted
<1>7. Requested' /\ Grids'
  <2>1. WaitingIds' = WaitingIds
    BY <1>1 DEF WaitingIds
  <2> QED
    BY <1>0, <1>1, <1>4, <2>1 DEF Requested, Grids
<1> QED
  BY <1>5, <1>6, <1>7 DEF ScheduleInv

\* The steps of the schedule thread.
LEMMA ThreadStep ==
  ASSUME ScheduleInv, ScheduleThread
  PROVE  ScheduleInv'
<1>0. pos \in Nat \ {0}
  BY DEF ScheduleInv, ScheduleTypes
<1>1. CASE LoopTop
  <2>1. PICK d \in 0 .. MaxStep : LoopTopAfter(d)
    BY <1>1 DEF LoopTop
  <2>2. d \in Nat /\ Sample(d) /\ pc # "exec" /\ pc' \in ThreadPlaces \ {"exec"}
    BY <2>1, ScheduleAssumption DEF LoopTopAfter, ThreadPlaces
  <2> QED
    BY <2>2, SampleStep
<1>2. CASE CheckTop
  <2>1. "wait" \in ThreadPlaces \ {"exec"} /\ pc # "exec"
    BY <1>2 DEF ThreadPlaces, CheckTop
  <2>2. pos' \in Nat \ {0} /\ UNCHANGED << client, wanted, clock >>
    BY <1>0, <1>2 DEF CheckTop, clientVars
  <2>3. CASE CheckWaiting("wait", "wait")
    <3>1. pc' # "exec"
      BY <2>3 DEF CheckWaiting
    <3> QED
      BY <2>1, <2>2, <2>3, <3>1, TakeStep
  <2>4. CASE CheckWaitingFails("wait")
    BY <2>1, <2>2, <2>4, FailStep
  <2> QED
    BY <1>2, <2>3, <2>4 DEF CheckTop
<1>3. CASE NoEntries
  <2>1. UNCHANGED scheduleKept /\ pc # "exec" /\ pc' \in ThreadPlaces /\ pc' # "exec" /\ pos' = pos
    BY <1>3 DEF NoEntries, ThreadPlaces, scheduleKept, chainVars, clientVars
  <2> QED
    BY <1>0, <2>1, WalkOn
<1>4. CASE Sleep
  <2>1. PICK d \in 1 .. MaxStep : Sample(d)
    BY <1>4 DEF Sleep
  <2>2. d \in Nat /\ pc # "exec" /\ pc' \in ThreadPlaces \ {"exec"}
    BY <1>4, ScheduleAssumption DEF Sleep, ThreadPlaces
  <2> QED
    BY <2>1, <2>2, SampleStep
<1>5. CASE CheckAwake
  <2>1. /\ "wait" \in ThreadPlaces \ {"exec"} /\ "exec" \in ThreadPlaces /\ "crashed" \in ThreadPlaces \ {"exec"}
        /\ pc # "exec" /\ pos' = 1 /\ pos' \in Nat \ {0}
    BY <1>5 DEF ThreadPlaces, CheckAwake
  <2>2. UNCHANGED << client, wanted, clock >>
    BY <1>5 DEF CheckAwake, clientVars
  <2>3. CASE CheckWaiting("exec", "wait")
    BY <2>1, <2>2, <2>3, TakeStep
  <2>4. CASE CheckWaitingFails(IF Left = {} THEN "crashed" ELSE "wait")
    <3>1. (IF Left = {} THEN "crashed" ELSE "wait") \in ThreadPlaces \ {"exec"}
      BY <2>1
    <3> QED
      BY <2>1, <2>2, <2>4, <3>1, FailStep
  <2> QED
    BY <1>5, <2>3, <2>4 DEF CheckAwake
<1>6. CASE StartExec
  <2>1. UNCHANGED scheduleKept /\ pc # "exec" /\ pc' \in ThreadPlaces /\ pos' = 1
    BY <1>6 DEF StartExec, ThreadPlaces, scheduleKept, chainVars, clientVars
  <2> QED
    BY <2>1, WalkOn
<1>7. CASE Exec
  BY <1>7, ExecStep
<1>8. CASE EndExec
  BY <1>8, EndExecStep
<1>9. CASE Stop
  <2>1. UNCHANGED scheduleKept /\ pc # "exec" /\ pc' \in ThreadPlaces /\ pc' # "exec" /\ pos' = pos
    BY <1>9 DEF Stop, ThreadPlaces, scheduleKept, chainVars, clientVars
  <2> QED
    BY <1>0, <2>1, WalkOn
<1> QED
  BY <1>1, <1>2, <1>3, <1>4, <1>5, <1>6, <1>7, <1>8, <1>9 DEF ScheduleThread

\* New entries wait: what was to be deleted before may be wanted again.
LEMMA AppendStep ==
  ASSUME ScheduleInv, NEW batch0 \in Seq(Ids), AppendArray(batch0), waiting = << >>
  PROVE  ScheduleInv'
<1>0. ScheduleTypes /\ ChainInOrder /\ Requested /\ Grids
  BY DEF ScheduleInv
<1> DEFINE w == [i \in DOMAIN batch0 |-> [id |-> batch0[i], due |-> Uninit]]
<1>1. /\ waiting' = waiting \o w /\ wanted' = wanted \cup ToSet(batch0)
      /\ client' = [pc |-> "init", ids |-> << >>]
      /\ UNCHANGED << chain, due, raced, del, pc, pos, clock >>
  BY DEF AppendArray, otherVars
<1>2. Len(batch0) \in Nat /\ DOMAIN batch0 = 1 .. Len(batch0) /\ \A i \in DOMAIN batch0 : batch0[i] \in Ids
  BY Elements
<1>3. w \in Seq([id : Ids, due : Int]) /\ DOMAIN w = DOMAIN batch0
  <2>1. \A i \in DOMAIN batch0 : [id |-> batch0[i], due |-> Uninit] \in [id : Ids, due : Int]
    BY <1>2 DEF Uninit
  <2>2. w \in [1 .. Len(batch0) -> [id : Ids, due : Int]]
    BY <1>2, <2>1
  <2> QED
    BY <1>2, <2>2, FunctionSeq
<1>4. waiting' = w
  <2> HIDE DEF w
  <2> QED
    BY <1>1, <1>3
<1>5. ScheduleTypes'
  <2>1. client' \in [pc : {"idle", "add", "init", "del"}, ids : Seq(Ids)] /\ client'.pc = "init"
    BY <1>1
  <2>2. ToSet(batch0) \subseteq Ids
    BY <1>2 DEF ToSet
  <2> QED
    BY <1>0, <1>1, <1>3, <1>4, <2>1, <2>2 DEF ScheduleTypes
<1>6. ChainInOrder'
  BY <1>0, <1>1 DEF ChainInOrder, Once, Sorted
<1>7. WaitingIds = {} /\ WaitingIds' = ToSet(batch0)
  <2>1. WaitingIds = {}
    BY DEF WaitingIds
  <2>2. \A i \in DOMAIN batch0 : w[i].id = batch0[i]
    OBVIOUS
  <2>3. {w[i].id : i \in DOMAIN w} = {batch0[i] : i \in DOMAIN batch0}
    BY <1>3, <2>2, Zenon
  <2> QED
    BY <1>4, <2>1, <2>3 DEF WaitingIds, ToSet
<1>8. Requested'
  BY <1>0, <1>1, <1>7 DEF Requested
<1>9. Grids'
  BY <1>0, <1>1 DEF Grids
<1> QED
  BY <1>5, <1>6, <1>8, <1>9 DEF ScheduleInv

\* sched_init_entries on what waits still.
LEMMA AddInitStep ==
  ASSUME ScheduleInv, AddInit
  PROVE  ScheduleInv'
<1>0. ScheduleTypes /\ ChainInOrder /\ Requested /\ Grids
  BY DEF ScheduleInv
<1>1. client' = Idle /\ UNCHANGED << chain, raced, pc, pos, del, wanted >>
  BY DEF AddInit, otherVars
<1>2. client' \in [pc : {"idle", "add", "init", "del"}, ids : Seq(Ids)] /\ client'.pc = "idle"
  BY <1>1 DEF Idle
<1>3. CASE waiting = << >>
  <2>1. UNCHANGED << due, waiting, clock >>
    BY <1>3 DEF AddInit
  <2>2. WaitingIds' = WaitingIds
    BY <2>1 DEF WaitingIds
  <2>3. DOMAIN waiting = {}
    BY <1>3
  <2>4. ScheduleTypes' /\ ChainInOrder' /\ Requested' /\ Grids'
    BY <1>0, <1>1, <1>2, <2>1, <2>2, <2>3 DEF ScheduleTypes, ChainInOrder, Requested, Grids, Once, Sorted
  <2> QED
    BY <2>4 DEF ScheduleInv
<1>4. CASE waiting # << >>
  <2>1. PICK d \in 0 .. MaxStep :
          /\ ClockMoves(d)
          /\ waiting' = [i \in DOMAIN waiting |->
                           [waiting[i] EXCEPT !.due = FirstCall(waiting[i].id, clock')]]
    BY <1>4 DEF AddInit
  <2>2. d \in Nat
    BY ScheduleAssumption
  <2>3. /\ clock' \in Int /\ due' \in [Ids -> Int]
        /\ \A e \in ToSet(chain) : due'[e] = due[e] - d
        /\ \A e \in Ids, x \in Int : AtGrid(e, clock + x) => AtGrid(e, clock' + (x - d))
    BY <1>0, <2>1, <2>2, ClockSteps
  <2>4. /\ waiting \in Seq([id : Ids, due : Int]) /\ Len(waiting) \in Nat
        /\ DOMAIN waiting = 1 .. Len(waiting)
        /\ \A i \in DOMAIN waiting : waiting[i] \in [id : Ids, due : Int]
    BY <1>0, Elements DEF ScheduleTypes
  <2>5. \A i \in DOMAIN waiting :
          /\ FirstCall(waiting[i].id, clock') \in Int
          /\ AtGrid(waiting[i].id, clock' + FirstCall(waiting[i].id, clock'))
    <3> SUFFICES ASSUME NEW i \in DOMAIN waiting
                 PROVE  /\ FirstCall(waiting[i].id, clock') \in Int
                        /\ AtGrid(waiting[i].id, clock' + FirstCall(waiting[i].id, clock'))
      OBVIOUS
    <3>1. waiting[i].id \in Ids
      BY <2>4
    <3> QED
      BY <2>3, <3>1, FirstOnGrid
  <2>6. \A i \in DOMAIN waiting :
          /\ waiting'[i] \in [id : Ids, due : Int] /\ waiting'[i].id = waiting[i].id
          /\ waiting'[i].due = FirstCall(waiting[i].id, clock')
    BY <2>1, <2>4, <2>5
  <2>7. DOMAIN waiting' = DOMAIN waiting /\ waiting' \in Seq([id : Ids, due : Int])
    <3>1. DOMAIN waiting' = DOMAIN waiting
      BY <2>1
    <3>2. waiting' \in [1 .. Len(waiting) -> [id : Ids, due : Int]]
      BY <2>1, <2>4, <2>6
    <3> QED
      BY <2>4, <3>1, <3>2, FunctionSeq
  <2>8. ScheduleTypes'
    BY <1>0, <1>1, <1>2, <2>3, <2>7 DEF ScheduleTypes
  <2>9. ChainInOrder'
    <3> DEFINE p == IF pc = "exec" THEN pos ELSE 1
    <3>1. p \in Nat \ {0} /\ Sorted(chain, due, p) /\ Once(chain)
      BY <1>0 DEF ChainInOrder, ScheduleTypes
    <3> HIDE DEF p
    <3>2. Sorted(chain, due', p)
      BY <1>0, <2>2, <2>3, <3>1, OrderShifts
    <3>3. (IF pc = "exec" THEN pos ELSE 1)' = p
      BY <1>1 DEF p
    <3> QED
      BY <1>1, <3>1, <3>2, <3>3 DEF ChainInOrder, Once, Sorted
  <2>10. WaitingIds' = WaitingIds
    <3>1. {waiting'[i].id : i \in DOMAIN waiting'} = {waiting[i].id : i \in DOMAIN waiting}
      BY <2>6, <2>7, Zenon
    <3> QED
      BY <3>1 DEF WaitingIds
  <2>11. Requested'
    BY <1>0, <1>1, <2>10 DEF Requested
  <2>12. Grids'
    <3>1. ASSUME NEW e \in ToSet(chain) \ raced PROVE AtGrid(e, clock' + due'[e])
      <4>1. e \in Ids /\ due[e] \in Int
        BY <1>0, Elements DEF ScheduleTypes, ToSet
      <4>2. AtGrid(e, clock + due[e])
        BY <1>0 DEF Grids
      <4> QED
        BY <2>3, <4>1, <4>2
    <3>2. \A i \in DOMAIN waiting : AtGrid(waiting'[i].id, clock' + waiting'[i].due)
      <4> SUFFICES ASSUME NEW i \in DOMAIN waiting
                   PROVE  AtGrid(waiting'[i].id, clock' + waiting'[i].due)
        OBVIOUS
      <4>1. waiting'[i].id = waiting[i].id /\ waiting'[i].due = FirstCall(waiting[i].id, clock')
        BY <2>6
      <4>2. AtGrid(waiting[i].id, clock' + FirstCall(waiting[i].id, clock'))
        BY <2>5
      <4> QED
        BY <4>1, <4>2, Zenon
    <3> QED
      BY <1>1, <2>7, <3>1, <3>2 DEF Grids
  <2> QED
    BY <2>8, <2>9, <2>11, <2>12 DEF ScheduleInv
<1> QED
  BY <1>3, <1>4

\* The client waits, or gives a deletion: an entry is no longer wanted then.
LEMMA ClientStep ==
  ASSUME ScheduleInv, UNCHANGED << chain, due, raced, waiting, pc, pos, clock >>,
         client.pc # "init",
         client' \in [pc : {"idle", "add", "init", "del"}, ids : Seq(Ids)],
         client'.pc = "del" => client'.ids # << >>,
         \/ UNCHANGED << del, wanted >>
         \/ del' \in Ids /\ wanted' = wanted \ {del'}
  PROVE  ScheduleInv'
<1>0. ScheduleTypes /\ ChainInOrder /\ Requested /\ Grids
  BY DEF ScheduleInv
<1>1. WaitingIds' = WaitingIds
  BY DEF WaitingIds
<1>2. ScheduleTypes'
  BY <1>0 DEF ScheduleTypes
<1>3. ChainInOrder'
  BY <1>0 DEF ChainInOrder, Once, Sorted
<1>4. Requested'
  BY <1>0, <1>1 DEF Requested
<1>5. Grids'
  BY <1>0 DEF Grids
<1> QED
  BY <1>2, <1>3, <1>4, <1>5 DEF ScheduleInv

\* What sched_del_entry leaves.
LEMMA SetDelStep ==
  ASSUME ScheduleInv, NEW e \in Ids, SetDel(e), client.pc # "init"
  PROVE  ScheduleInv'
<1>1. UNCHANGED << chain, due, raced, waiting, pc, pos, clock >>
      /\ client' = Idle /\ del' = e /\ wanted' = wanted \ {e}
  BY DEF SetDel, otherVars
<1>2. client' \in [pc : {"idle", "add", "init", "del"}, ids : Seq(Ids)] /\ client'.pc # "del"
  BY <1>1 DEF Idle
<1>3. del' \in Ids /\ wanted' = wanted \ {del'}
  BY <1>1
<1> QED
  BY <1>1, <1>2, <1>3, ClientStep

\* The steps of the others.
LEMMA OthersStep ==
  ASSUME ScheduleInv, InCall \/ Calls
  PROVE  ScheduleInv'
<1>0. /\ client \in [pc : {"idle", "add", "init", "del"}, ids : Seq(Ids)]
      /\ client.pc = "del" => client.ids # << >>
      /\ pc \in ThreadPlaces /\ pos \in Nat \ {0}
  BY DEF ScheduleInv, ScheduleTypes
<1>1. CASE AddWaited
  <2>1. client.ids \in Seq(Ids)
    BY <1>0
  <2> QED
    BY <1>1, <2>1, AppendStep DEF AddWaited
<1>2. CASE AddInit
  BY <1>2, AddInitStep
<1>3. CASE DelWaited
  <2>1. client.ids[1] \in Ids /\ client.pc # "init"
    <3>1. client.pc = "del" /\ client.ids \in Seq(Ids) /\ client.ids # << >>
      BY <1>0, <1>3 DEF DelWaited
    <3> QED
      BY <3>1
  <2> QED
    BY <1>3, <2>1, SetDelStep DEF DelWaited
<1>4. ASSUME NEW b \in Batches, CallAdd(b) PROVE ScheduleInv'
  BY <1>4, AppendStep, ScheduleAssumption DEF CallAdd
<1>5. ASSUME NEW b \in Batches, CallAddWaits(b) PROVE ScheduleInv'
  <2>1. /\ UNCHANGED << chain, due, raced, waiting, pc, pos, clock >> /\ UNCHANGED << del, wanted >>
        /\ client = Idle /\ client' = [pc |-> "add", ids |-> b]
    BY <1>5 DEF CallAddWaits, otherVars
  <2>2. /\ client.pc # "init" /\ client'.pc # "del"
        /\ client' \in [pc : {"idle", "add", "init", "del"}, ids : Seq(Ids)]
    BY <2>1, ScheduleAssumption DEF Idle
  <2> QED
    BY <2>1, <2>2, ClientStep
<1>6. ASSUME NEW e \in Deletable, CallDel(e) PROVE ScheduleInv'
  <2>1. client.pc # "init" /\ SetDel(e) /\ e \in Ids
    BY <1>6, ScheduleAssumption DEF CallDel, Idle
  <2> QED
    BY <2>1, SetDelStep
<1>7. ASSUME NEW e \in Deletable, CallDelWaits(e) PROVE ScheduleInv'
  <2>1. /\ UNCHANGED << chain, due, raced, waiting, pc, pos, clock >> /\ UNCHANGED << del, wanted >>
        /\ client = Idle /\ client' = [pc |-> "del", ids |-> << e >>]
    BY <1>7 DEF CallDelWaits, otherVars
  <2>2. e \in Ids
    BY ScheduleAssumption
  <2>3. /\ client.pc # "init" /\ client'.ids # << >>
        /\ client' \in [pc : {"idle", "add", "init", "del"}, ids : Seq(Ids)]
    BY <2>1, <2>2 DEF Idle
  <2> QED
    BY <2>1, <2>3, ClientStep
<1>8. ASSUME UNCHANGED << chain, due, raced, waiting, del, wanted, client, clock, pc, pos >> PROVE ScheduleInv'
  <2>1. WaitingIds' = WaitingIds
    BY <1>8 DEF WaitingIds
  <2>2. ScheduleTypes' /\ ChainInOrder' /\ Requested' /\ Grids'
    BY <1>8, <2>1 DEF ScheduleInv, ScheduleTypes, ChainInOrder, Requested, Grids, Once, Sorted
  <2> QED
    BY <2>2 DEF ScheduleInv
<1>9. ASSUME NEW t \in Tasks, NEW delay \in Delays, AddDelayTask(t, delay) PROVE ScheduleInv'
  BY <1>8, <1>9 DEF AddDelayTask, otherVars, clientVars
<1>10. CASE SetFlag
  BY <1>8, <1>10 DEF SetFlag, otherVars, clientVars
<1> QED
  BY <1>1, <1>2, <1>3, <1>4, <1>5, <1>6, <1>7, <1>9, <1>10 DEF InCall, Calls

\* Every step of the schedule keeps the invariant.
LEMMA ScheduleSteps ==
  ASSUME ScheduleInv, [Next]_vars
  PROVE  ScheduleInv'
<1>1. CASE Next
  BY <1>1, ThreadStep, OthersStep DEF Next
<1>2. CASE UNCHANGED vars
  <2>1. UNCHANGED << chain, due, raced, waiting, del, wanted, client, clock, pc, pos >>
    BY <1>2 DEF vars
  <2>2. WaitingIds' = WaitingIds
    BY <2>1 DEF WaitingIds
  <2>3. ScheduleTypes' /\ ChainInOrder' /\ Requested' /\ Grids'
    BY <2>1, <2>2 DEF ScheduleInv, ScheduleTypes, ChainInOrder, Requested, Grids, Once, Sorted
  <2> QED
    BY <2>3 DEF ScheduleInv
<1> QED
  BY <1>1, <1>2

\* What the invariant is for.
LEMMA ScheduleInvSound ==
  ASSUME ScheduleInv
  PROVE  ScheduleSound
<1>0. ScheduleTypes /\ ChainInOrder /\ Requested /\ Grids
  BY DEF ScheduleInv
<1>1. pc # "exec" => \A i \in 1 .. (Len(chain) - 1) : due[chain[i]] <= due[chain[i + 1]]
  BY <1>0 DEF ChainInOrder, Sorted
<1>2. Cardinality(ToSet(chain)) = Len(chain)
  BY <1>0, OnceCounts DEF ScheduleTypes, ChainInOrder
<1>3. OnGrid
  <2>1. ASSUME NEW e \in ToSet(chain) \ raced, Base[e] # NoBase
        PROVE  (clock + due[e] - Base[e]) % Interval[e] = 0
    <3>1. AtGrid(e, clock + due[e])
      BY <1>0 DEF Grids
    <3>2. e \in Ids /\ clock \in Int /\ due[e] \in Int /\ Base[e] \in Int
      <4>1. e \in Ids
        BY <1>0, Elements DEF ScheduleTypes, ToSet
      <4>2. clock \in Int /\ due[e] \in Int
        BY <1>0, <4>1 DEF ScheduleTypes
      <4>3. Base[e] \in 0 .. Day - 1 /\ Day \in Nat
        BY <2>1, <4>1, ScheduleAssumption
      <4> QED
        BY <4>1, <4>2, <4>3
    <3>3. (clock + due[e]) - Base[e] = clock + (due[e] - Base[e])
      BY <3>2
    <3> QED
      BY <2>1, <3>1, <3>3, Zenon DEF AtGrid
  <2> QED
    BY <2>1 DEF OnGrid
<1> QED
  BY <1>0, <1>1, <1>2, <1>3 DEF ScheduleSound, ChainWhole, Requested

-----------------------------------------------------------------------------
\* A step of the services is a step of the schedule or does not touch it.
LEMMA ScheduleUnit ==
  ASSUME [ServicesNext]_allVars
  PROVE  [Next]_vars
  BY DEF ServicesNext, allVars, InSchedule, InTransfer, InLoop, InRequest, FilesStep, SerialsStep,
         DaemonStep

\* For any entries, intervals that divide the day and steps of the clock: the
\* chain of sched_thread.c keeps its entries once each and in the order of their
\* times, no entry that was asked for is lost, one to be deleted was not asked
\* for after that, and entries with a time base run on their grid.
THEOREM ScheduleKept == ServicesSpec => []SchedulerSound
<1>1. ServicesInit => ScheduleInv
  BY ScheduleStarts DEF ServicesInit
<1>2. ScheduleInv /\ [ServicesNext]_allVars => ScheduleInv'
  BY ScheduleUnit, ScheduleSteps
<1>3. ScheduleInv => SchedulerSound
  BY ScheduleInvSound DEF SchedulerSound
<1> QED
  BY <1>1, <1>2, <1>3, PTL DEF ServicesSpec
=============================================================================
