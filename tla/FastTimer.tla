------------------------------ MODULE FastTimer ------------------------------
(***************************************************************************)
(* The time wheel of fast_timer.c, with its lists as the code has them:    *)
(* `next' and `prev' pointers of the entries and of the slot heads.  The   *)
(* loops of fast_timer_timeouts_get, which splices runs of expired entries *)
(* out of a slot while it walks it, are run step by step; deal_timeouts of *)
(* ioevent_loop.c then walks the list it returned.                         *)
(*                                                                         *)
(* A timer belongs to one thread: nothing else runs between these steps.   *)
(***************************************************************************)
EXTENDS Naturals, FiniteSets

CONSTANTS
  Entries,     \* the FastTimerEntry objects
  ListHead,    \* the `head' of the list of expired entries
  NULL,
  SlotCount,   \* timer->slot_count
  MaxTime      \* bound on the clock and on the expiry times used

VARIABLES
  next, prev,      \* the pointers of every cell
  expires, rehash, \* of every entry
  time,            \* timer->current_time
  pc,              \* "idle", or where the code is
  now, entry, first, last, tail, count,  \* locals of fast_timer_timeouts_get
  armed,           \* history: added, and neither removed nor given to a callback
  due              \* history: what this call has to return and is not yet dealt with

heap == << next, prev >>
locals == << now, entry, first, last, tail, count >>
vars == << heap, expires, rehash, time, pc, locals, armed, due >>

BaseTime == 1
Times == BaseTime..MaxTime
Slots == 0..SlotCount - 1     \* a slot's number stands for its head cell
Cells == Entries \cup Slots \cup {ListHead}

\* Entries, heads of slots and the list's head are different objects, none of
\* them NULL; fast_timer_init refuses a wheel without slots.
ASSUME TimerAssumption ==
  /\ SlotCount \in Nat \ {0} /\ MaxTime \in Nat \ {0}
  /\ IsFiniteSet(Entries) /\ Entries \cap Slots = {}
  /\ ListHead \notin Entries \cup Slots /\ NULL \notin Cells

\* TIMER_GET_SLOT_INDEX
SlotIndex(t) == (t - BaseTime) % SlotCount

Latest(a, b) == IF a > b THEN a ELSE b

Init ==
  /\ next = [c \in Cells |-> NULL]
  /\ prev = [c \in Cells |-> NULL]
  /\ expires = [e \in Entries |-> BaseTime]
  /\ rehash = [e \in Entries |-> FALSE]
  /\ time = BaseTime
  /\ pc = "idle"
  /\ now = BaseTime /\ count = 0
  /\ entry = NULL /\ first = NULL /\ last = NULL /\ tail = NULL
  /\ armed = {} /\ due = {}

-----------------------------------------------------------------------------
SetHeap(h) == next' = h[1] /\ prev' = h[2]

\* The pointer work of fast_timer_add: e becomes the first of the slot.
Link(h, e, slot) ==
  LET n == h[1] p == h[2]
  IN  << [n EXCEPT ![e] = n[slot], ![slot] = e],
         IF n[slot] = NULL THEN [p EXCEPT ![e] = slot]
         ELSE [p EXCEPT ![n[slot]] = e, ![e] = slot] >>

\* Mutant: the entry behind e keeps pointing back at e.
UnlinkKeepsBack(h, e) ==
  << [h[1] EXCEPT ![h[2][e]] = h[1][e], ![e] = NULL], [h[2] EXCEPT ![e] = NULL] >>

\* The pointer work of fast_timer_remove.
Unlink(h, e) ==
  LET n == h[1] p == h[2]
  IN  IF n[e] # NULL
      THEN << [n EXCEPT ![p[e]] = n[e], ![e] = NULL], [p EXCEPT ![n[e]] = p[e], ![e] = NULL] >>
      ELSE << [n EXCEPT ![p[e]] = NULL], [p EXCEPT ![e] = NULL] >>

\* Mutant: a time that is already past keeps its own slot.
AddSlotPast(x, t) == SlotIndex(x)

\* The slot fast_timer_add uses for an expiry time when the timer is at t.
AddSlot(x, t) == SlotIndex(Latest(x, t))

Add(e, x) ==
  /\ expires' = [expires EXCEPT ![e] = x]
  /\ SetHeap(Link(heap, e, AddSlot(x, time)))
  /\ rehash' = [rehash EXCEPT ![e] = FALSE]
  /\ armed' = armed \cup {e}

FastTimerAdd(e, x) ==
  /\ pc = "idle" /\ e \notin armed
  /\ Add(e, x)
  /\ UNCHANGED << time, pc, locals, due >>

\* fast_timer_remove; an entry that is in no list has prev = NULL (ENOENT).
FastTimerRemove(e) ==
  /\ pc = "idle" /\ prev[e] # NULL
  /\ SetHeap(Unlink(heap, e))
  /\ armed' = armed \ {e}
  /\ UNCHANGED << expires, rehash, time, pc, locals, due >>

\* fast_timer_modify to an earlier time moves the entry at once.
ModifyEarlier(e, x) ==
  /\ pc = "idle" /\ e \in armed /\ x < expires[e]
  /\ SetHeap(Link(Unlink(heap, e), e, AddSlot(x, time)))
  /\ expires' = [expires EXCEPT ![e] = x]
  /\ rehash' = [rehash EXCEPT ![e] = FALSE]
  /\ UNCHANGED << time, pc, locals, armed, due >>

\* fast_timer_modify to a later time leaves it where it is ("lazy move").
ModifyLater(e, x) ==
  /\ pc = "idle" /\ e \in armed /\ x > expires[e]
  /\ rehash' = [rehash EXCEPT ![e] = SlotIndex(x) # SlotIndex(expires[e])]
  /\ expires' = [expires EXCEPT ![e] = x]
  /\ UNCHANGED << heap, time, pc, locals, armed, due >>

-----------------------------------------------------------------------------
\* The cell k links after c, NULL behind the end of a list.
Walk(c) ==
  LET w[k \in 0..Cardinality(Entries) + 1] ==
        IF k = 0 THEN c ELSE IF w[k - 1] = NULL THEN NULL ELSE next[w[k - 1]]
  IN  w

\* The entries linked behind cell c.
Linked(c) == {e \in Entries : \E k \in 1..Cardinality(Entries) : Walk(c)[k] = e}

\* fast_timer_timeouts_get(timer, t, head), up to its loops.
TimeoutsGet(t) ==
  /\ pc = "idle" /\ time < t
  /\ now' = t
  /\ next' = [next EXCEPT ![ListHead] = NULL]
  /\ prev' = [prev EXCEPT ![ListHead] = NULL]
  /\ first' = NULL /\ last' = NULL /\ tail' = ListHead /\ count' = 0
  /\ due' = {e \in armed : expires[e] < t /\ \E c \in time..t - 1 : e \in Linked(SlotIndex(c))}
  /\ pc' = "slot"
  /\ UNCHANGED << expires, rehash, time, entry, armed >>

\* Mutant: the outer loop runs while current_time <= now.
VisitSlotOneMore ==
  /\ pc = "slot" /\ time <= now
  /\ time' = time + 1
  /\ entry' = next[SlotIndex(time)]
  /\ pc' = "scan"
  /\ UNCHANGED << heap, expires, rehash, now, first, last, tail, count, armed, due >>

\* The outer loop goes to the next slot.
VisitSlot ==
  /\ pc = "slot" /\ time < now
  /\ time' = time + 1
  /\ entry' = next[SlotIndex(time)]
  /\ pc' = "scan"
  /\ UNCHANGED << heap, expires, rehash, now, first, last, tail, count, armed, due >>

\* An expired entry only extends the run that began at `first'.
ScanExpired ==
  /\ pc = "scan" /\ entry # NULL /\ expires[entry] < now
  /\ count' = count + 1
  /\ first' = IF first = NULL THEN entry ELSE first
  /\ last' = entry
  /\ entry' = next[entry]
  /\ UNCHANGED << heap, expires, rehash, time, pc, now, tail, armed, due >>

\* The run first..last leaves the slot, where e (or NULL) follows it, and is
\* hung behind `tail'.
Splice(e) ==
  LET n == [next EXCEPT ![prev[first]] = e]
      p == IF e = NULL THEN prev ELSE [prev EXCEPT ![e] = prev[first]]
  IN  IF first = NULL THEN heap
      ELSE << [n EXCEPT ![tail] = first], [p EXCEPT ![first] = tail] >>

\* An entry that is not expired ends a run; a lazily moved one goes to its
\* own slot now.
ScanAlive ==
  /\ pc = "scan" /\ entry # NULL /\ expires[entry] >= now
  /\ LET h == Splice(entry)
     IN  /\ SetHeap(IF rehash[entry]
                    THEN Link(Unlink(h, entry), entry, AddSlot(expires[entry], time))
                    ELSE h)
         /\ entry' = h[1][entry]
  /\ rehash' = [rehash EXCEPT ![entry] = FALSE]
  /\ tail' = IF first = NULL THEN tail ELSE last
  /\ first' = NULL
  /\ last' = entry
  /\ UNCHANGED << expires, time, pc, now, count, armed, due >>

EndSlot ==
  /\ pc = "scan" /\ entry = NULL
  /\ SetHeap(Splice(NULL))
  /\ tail' = IF first = NULL THEN tail ELSE last
  /\ first' = NULL
  /\ pc' = "slot"
  /\ UNCHANGED << expires, rehash, time, now, entry, last, count, armed, due >>

\* Mutant: the list of expired entries is not closed.
EndTimeoutsOpen ==
  /\ pc = "slot" /\ time = now
  /\ entry' = next[ListHead]
  /\ pc' = "deal"
  /\ UNCHANGED << heap, expires, rehash, time, now, first, last, tail, count, armed, due >>

\* The list is closed and deal_timeouts starts on it.
EndTimeouts ==
  /\ pc = "slot" /\ time = now
  /\ LET n == IF count > 0 THEN [next EXCEPT ![tail] = NULL] ELSE next
     IN  next' = n /\ entry' = n[ListHead]
  /\ pc' = "deal"
  /\ UNCHANGED << prev, expires, rehash, time, now, first, last, tail, count, armed, due >>

\* deal_timeouts: the entry is unlinked and its callback may arm it again.
DealTimeout ==
  /\ pc = "deal" /\ entry # NULL
  /\ LET h == << [next EXCEPT ![entry] = NULL], [prev EXCEPT ![entry] = NULL] >>
     IN  \/ /\ SetHeap(h)
            /\ armed' = armed \ {entry}
            /\ UNCHANGED << expires, rehash >>
         \/ \E x \in Times :
              /\ SetHeap(Link(h, entry, AddSlot(x, time)))
              /\ expires' = [expires EXCEPT ![entry] = x]
              /\ rehash' = [rehash EXCEPT ![entry] = FALSE]
              /\ UNCHANGED armed
  /\ entry' = next[entry]
  /\ due' = due \ {entry}
  /\ UNCHANGED << time, pc, now, first, last, tail, count >>

EndDeal ==
  /\ pc = "deal" /\ entry = NULL
  /\ pc' = "idle"
  /\ last' = NULL /\ tail' = NULL /\ count' = 0
  /\ UNCHANGED << heap, expires, rehash, time, now, entry, first, armed, due >>

-----------------------------------------------------------------------------
Next ==
  \/ \E e \in Entries, x \in Times : FastTimerAdd(e, x) \/ ModifyEarlier(e, x) \/ ModifyLater(e, x)
  \/ \E e \in Entries : FastTimerRemove(e)
  \/ \E t \in Times : TimeoutsGet(t)
  \/ VisitSlot \/ ScanExpired \/ ScanAlive \/ EndSlot \/ EndTimeouts
  \/ DealTimeout \/ EndDeal

Spec == Init /\ [][Next]_vars

-----------------------------------------------------------------------------
\* Pointers point to cells and the wheel never runs ahead of the time asked
\* for.
TypeOK ==
  /\ next \in [Cells -> Entries \cup {NULL}]
  /\ prev \in [Cells -> Cells \cup {NULL}]
  /\ expires \in [Entries -> Times] /\ rehash \in [Entries -> BOOLEAN]
  /\ time \in Times /\ now \in Times
  /\ pc \in {"idle", "slot", "scan", "deal"}
  /\ entry \in Entries \cup {NULL} /\ first \in Entries \cup {NULL}
  /\ last \in Entries \cup {NULL} /\ tail \in Entries \cup {ListHead, NULL}
  /\ count \in 0..Cardinality(Entries)
  /\ armed \subseteq Entries /\ due \subseteq Entries

\* A call returns exactly the expired entries of the slots it has passed, in
\* a closed list, and counts them right.
ReturnsAllDue ==
  /\ pc = "deal" =>
       due = IF entry = NULL THEN {} ELSE {entry} \cup Linked(entry)
  /\ pc = "slot" /\ time = now => count = Cardinality(due)

\* However runs of expired, pending and lazily moved entries alternate in the
\* slots, the splicing leaves the lists whole: between calls every armed
\* entry is in exactly one slot, `prev' undoes `next', and entries that are
\* not armed have prev = NULL (what fast_timer_remove goes by);
\* and a call returns what is due.
WheelWhole ==
  /\ TypeOK /\ ReturnsAllDue
  /\ pc = "idle" =>
    /\ \A e \in Entries : Cardinality({s \in Slots : e \in Linked(s)}) = IF e \in armed THEN 1 ELSE 0
    /\ \A s \in Slots : Walk(s)[Cardinality(Entries) + 1] = NULL
    /\ \A c \in Slots \cup armed : next[c] # NULL => prev[next[c]] = c
    /\ \A e \in Entries : prev[e] = NULL <=> e \notin armed

\* Whatever fast_timer_modify did, a call overlooks no expired entry for a
\* whole turn of the wheel.
LateByLessThanOneTurn ==
  pc = "slot" /\ time = now => \A e \in armed \ due : expires[e] + SlotCount > now

\* "lazy move" (fast_timer.c): an entry modified to a later time is moved
\* when its old slot comes up, so that a call at `now' leaves nothing in the
\* wheel that expired before.
LazyMoveIsInTime ==
  pc = "slot" /\ time = now => \A e \in armed \ due : expires[e] >= now
=============================================================================
