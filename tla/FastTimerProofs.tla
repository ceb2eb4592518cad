--------------------------- MODULE FastTimerProofs ---------------------------
(***************************************************************************)
(* Whatever is added, removed, modified and collected, the lists of the    *)
(* time wheel stay whole, and no expired entry is late by a whole turn:    *)
(* proved for any set of entries, any number of slots and any bound on the *)
(* times.                                                                  *)
(*                                                                         *)
(* The pointers say nothing by themselves.  The invariant gives every      *)
(* entry the list it is in and a rank that falls along the list; what each *)
(* pointer has to be follows from these two.  The operations on pointers   *)
(* are shown to move one entry, or one run, from list to list; then each   *)
(* action is seen to be such a move.  That a walk along `next' finds all   *)
(* of a list is an induction along the list.                               *)
(***************************************************************************)
EXTENDS FastTimer, Integers, WellFoundedInduction, FiniteSetTheorems, TLAPS

-----------------------------------------------------------------------------
(* The lists of the wheel.  `home' says in which list an entry is, `pos' how   *)
(* far from its end: numbers that fall from the head on, with any gaps.        *)

Homes == Slots \cup {ListHead, NULL}
Nexts == [Cells -> Entries \cup {NULL}]
Prevs == [Cells -> Cells \cup {NULL}]
Maps  == [Entries -> Homes]
Ranks == [Entries -> Int]

\* f comes behind cell c in c's list.
Behind(home, pos, c, f) ==
  IF c \in Entries THEN home[f] = home[c] /\ pos[f] < pos[c] ELSE home[f] = c

\* `next' of c leads to the cell right behind it, whose `prev' leads back.
Leads(n, p, home, pos, c) ==
  IF n[c] = NULL THEN \A f \in Entries : ~ Behind(home, pos, c, f)
  ELSE /\ n[c] \in Entries /\ Behind(home, pos, c, n[c]) /\ p[n[c]] = c
       /\ \A f \in Entries : Behind(home, pos, c, f) => f = n[c] \/ Behind(home, pos, n[c], f)

Apart(home, pos) ==
  \A e, f \in Entries : home[e] = home[f] /\ home[e] # NULL /\ pos[e] = pos[f] => e = f

\* `prev' of e leads to the cell of its list whose `next' is e.
LeadsBack(n, p, home, e) ==
  n[p[e]] = e /\ (p[e] = home[e] \/ (p[e] \in Entries /\ home[p[e]] = home[e]))

SlotsWhole(n, p, home, pos) ==
  /\ \A s \in Slots : Leads(n, p, home, pos, s)
  /\ \A e \in Entries : home[e] \in Slots =>
       Leads(n, p, home, pos, e) /\ LeadsBack(n, p, home, e)

\* Every kind of cell is of its own.
LEMMA Kinds ==
  /\ \A e \in Entries : e \notin Slots /\ e # ListHead /\ e # NULL /\ e \in Cells
  /\ \A s \in Slots : s \notin Entries /\ s # ListHead /\ s # NULL /\ s \in Cells /\ s \in Homes
  /\ ListHead \notin Entries /\ ListHead \notin Slots /\ ListHead # NULL /\ ListHead \in Cells
  /\ NULL \notin Entries /\ NULL \notin Slots /\ NULL \notin Cells
  /\ \A c \in Cells : c \in Entries \/ c \in Slots \/ c = ListHead
  /\ \A h \in Homes : h \in Slots \/ h = ListHead \/ h = NULL
  /\ ListHead \in Homes /\ NULL \in Homes
BY TimerAssumption, Zenon DEF Cells, Homes

-----------------------------------------------------------------------------
(* Walking along a list.                                                       *)

\* A set of natural numbers has a least one: what induction rests on here.
LEMMA Least ==
  ASSUME NEW T \in SUBSET Nat, NEW k \in T
  PROVE  \E x \in T : \A y \in T : x <= y
<1>1. PICK x \in T : \A y \in T : ~ (<<y, x>> \in OpToRel(<, Nat))
  BY NatLessThanWellFounded, WFMin, Zenon
<1>2. \A y \in T : ~ (y < x)
  BY <1>1 DEF OpToRel
<1> QED
  BY <1>2

N == Cardinality(Entries)

\* There are finitely many entries.
LEMMA NType == N \in Nat
BY TimerAssumption, FS_CardinalityType DEF N

WalksTo(c, m, f) ==
  f = [k \in 0 .. m |-> IF k = 0 THEN c ELSE IF f[k - 1] = NULL THEN NULL ELSE next[f[k - 1]]]

\* The recursion of Walk has a solution.
LEMMA WalkExists ==
  ASSUME NEW c
  PROVE  \A m \in Nat : \E f : WalksTo(c, m, f)
<1> DEFINE T == {m \in Nat : ~ \E f : WalksTo(c, m, f)}
<1> SUFFICES ASSUME NEW k \in T PROVE FALSE
  OBVIOUS
<1>1. PICK m \in T : \A y \in T : m <= y
  BY Least, Zenon
<1>2. CASE m = 0
  <2> DEFINE f == [k0 \in 0 .. 0 |-> c]
  <2>1. WalksTo(c, 0, f)
    BY DEF WalksTo
  <2> QED
    BY <1>1, <1>2, <2>1
<1>3. CASE m # 0
  <2>1. m \in Nat /\ m - 1 \in Nat /\ m - 1 \notin T
    BY <1>1, <1>3
  <2>2. PICK f : WalksTo(c, m - 1, f)
    BY <2>1
  <2> DEFINE step == IF f[m - 1] = NULL THEN NULL ELSE next[f[m - 1]]
             g == [j \in 0 .. m |-> IF j = m THEN step ELSE f[j]]
  <2>3. \A j \in 0 .. m : g[j] = IF j = 0 THEN c ELSE IF g[j - 1] = NULL THEN NULL ELSE next[g[j - 1]]
    <3> SUFFICES ASSUME NEW j \in 0 .. m
                 PROVE  g[j] = IF j = 0 THEN c ELSE IF g[j - 1] = NULL THEN NULL ELSE next[g[j - 1]]
      OBVIOUS
    <3>1. CASE j = m
      <4>1. j - 1 \in 0 .. m /\ j - 1 # m /\ j # 0
        BY <3>1, <2>1, <1>3
      <4> QED
        BY <3>1, <4>1
    <3>2. CASE j # m
      <4>1. j \in 0 .. m - 1 /\ (j # 0 => j - 1 \in 0 .. m - 1 /\ j - 1 \in 0 .. m /\ j - 1 # m)
        BY <3>2, <2>1
      <4>2. f[j] = IF j = 0 THEN c ELSE IF f[j - 1] = NULL THEN NULL ELSE next[f[j - 1]]
        BY <2>2, <4>1 DEF WalksTo
      <4> QED
        BY <3>2, <4>1, <4>2
    <3> QED
      BY <3>1, <3>2
  <2>4. WalksTo(c, m, g)
    <3>1. [j \in 0 .. m |-> g[j]] = [j \in 0 .. m |-> IF j = 0 THEN c ELSE IF g[j - 1] = NULL THEN NULL ELSE next[g[j - 1]]]
      BY <2>3, Zenon
    <3>2. g = [j \in 0 .. m |-> g[j]]
      OBVIOUS
    <3> QED
      BY <3>1, <3>2 DEF WalksTo
  <2> QED
    BY <1>1, <2>4, Zenon
<1> QED
  BY <1>2, <1>3

\* What Walk is.
LEMMA WalkSteps ==
  ASSUME NEW c
  PROVE  /\ Walk(c)[0] = c
         /\ \A k \in 1 .. N + 1 :
              Walk(c)[k] = IF Walk(c)[k - 1] = NULL THEN NULL ELSE next[Walk(c)[k - 1]]
<1>1. \E f : WalksTo(c, N + 1, f)
  BY WalkExists, NType
<1>2. Walk(c) = CHOOSE f : WalksTo(c, N + 1, f)
  BY Zenon DEF Walk, WalksTo, N
<1>3. WalksTo(c, N + 1, Walk(c))
  BY <1>1, <1>2, Zenon
<1> DEFINE w == Walk(c)
<1> HIDE DEF w
<1>4. \A k \in 0 .. N + 1 : w[k] = IF k = 0 THEN c ELSE IF w[k - 1] = NULL THEN NULL ELSE next[w[k - 1]]
  BY <1>3 DEF w, WalksTo
<1> QED
  BY <1>4, NType DEF w

\* Where next leads from each cell of a list, Walk finds all of the list, and
\* comes to its end.
LEMMA WalkFinds ==
  ASSUME next \in Nexts, prev \in Prevs,
         NEW home \in Maps, NEW pos \in Ranks, NEW c \in Cells,
         Leads(next, prev, home, pos, c),
         \A f \in Entries : Behind(home, pos, c, f) => Leads(next, prev, home, pos, f)
  PROVE  /\ Linked(c) = {f \in Entries : Behind(home, pos, c, f)}
         /\ Walk(c)[N + 1] = NULL
<1> DEFINE w == Walk(c)
           P(k) == /\ w[k] # NULL =>
                        /\ w[k] \in Entries /\ Behind(home, pos, c, w[k])
                        /\ \A i \in 1 .. k - 1 : w[i] \in Entries /\ Behind(home, pos, w[i], w[k])
                   /\ \A f \in Entries : Behind(home, pos, c, f) =>
                        (\E j \in 1 .. k : w[j] = f) \/ (w[k] # NULL /\ Behind(home, pos, w[k], f))
           T == {k \in 1 .. N + 1 : ~ P(k)}
<1>0. N \in Nat /\ N = Cardinality(Entries)
  BY NType DEF N
<1>1. /\ w[0] = c
      /\ \A k \in 1 .. N + 1 : w[k] = IF w[k - 1] = NULL THEN NULL ELSE next[w[k - 1]]
  BY WalkSteps
<1> HIDE DEF w
<1>2. c # NULL
  BY Kinds
<1>3. w[1] = next[c]
  <2>1. 1 \in 1 .. N + 1 /\ 1 - 1 = 0
    BY <1>0
  <2> QED
    BY <1>1, <1>2, <2>1
<1>4. P(1)
  <2>1. next[c] \in Entries \cup {NULL}
    BY DEF Nexts
  <2>2. CASE next[c] = NULL
    BY <1>3, <2>2 DEF Leads
  <2>3. CASE next[c] # NULL
    BY <1>3, <2>1, <2>3 DEF Leads
  <2> QED
    BY <2>2, <2>3
<1>5. ASSUME NEW k \in 2 .. N + 1, P(k - 1)
      PROVE  P(k)
  <2>1. k - 1 \in 1 .. N + 1 /\ k \in 1 .. N + 1 /\ k \in Int /\ 1 .. k = (1 .. k - 1) \cup {k}
    BY <1>0
  <2>2. CASE w[k - 1] = NULL
    <3>1. w[k] = NULL
      BY <1>1, <2>1, <2>2
    <3> QED
      BY <1>5, <2>1, <2>2, <3>1
  <2>3. CASE w[k - 1] # NULL
    <3> DEFINE d == w[k - 1]
    <3>1. /\ d \in Entries /\ Behind(home, pos, c, d)
          /\ \A i \in 1 .. k - 2 : w[i] \in Entries /\ Behind(home, pos, w[i], d)
          /\ \A f \in Entries : Behind(home, pos, c, f) =>
               (\E j \in 1 .. k - 1 : w[j] = f) \/ Behind(home, pos, d, f)
      BY <1>5, <2>1, <2>3
    <3>2. w[k] = next[d]
      BY <1>1, <2>1, <2>3
    <3>3. Leads(next, prev, home, pos, d)
      BY <3>1
    <3>4. next[d] \in Entries \cup {NULL}
      BY <3>1, Kinds DEF Nexts
    <3> HIDE DEF d
    <3>5. \A f \in Entries : Behind(home, pos, d, f) => Behind(home, pos, c, f)
      BY <3>1, Kinds DEF Behind, Ranks
    <3>6. \A i \in 1 .. k - 2 : \A f \in Entries : Behind(home, pos, d, f) => Behind(home, pos, w[i], f)
      BY <3>1, Kinds DEF Behind, Ranks
    <3>7. CASE next[d] = NULL
      <4>1. \A f \in Entries : Behind(home, pos, c, f) => \E j \in 1 .. k - 1 : w[j] = f
        BY <3>1, <3>3, <3>7 DEF Leads
      <4> QED
        BY <2>1, <3>2, <3>7, <4>1
    <3>8. CASE next[d] # NULL
      <4>1. /\ w[k] \in Entries /\ Behind(home, pos, d, w[k])
            /\ \A f \in Entries : Behind(home, pos, d, f) => f = w[k] \/ Behind(home, pos, w[k], f)
        BY <3>2, <3>3, <3>4, <3>8 DEF Leads
      <4>2. \A i \in 1 .. k - 1 : w[i] \in Entries /\ Behind(home, pos, w[i], w[k])
        <5> SUFFICES ASSUME NEW i \in 1 .. k - 1
                     PROVE  w[i] \in Entries /\ Behind(home, pos, w[i], w[k])
          OBVIOUS
        <5>1. CASE i = k - 1
          BY <3>1, <4>1, <5>1 DEF d
        <5>2. CASE i # k - 1
          <6>1. i \in 1 .. k - 2
            BY <5>2, <2>1
          <6> QED
            BY <3>1, <3>6, <4>1, <6>1
        <5> QED
          BY <5>1, <5>2
      <4>3. \A f \in Entries : Behind(home, pos, c, f) =>
              (\E j \in 1 .. k : w[j] = f) \/ Behind(home, pos, w[k], f)
        BY <2>1, <3>1, <4>1
      <4> QED
        BY <3>5, <4>1, <4>2, <4>3, Kinds
    <3> QED
      BY <3>4, <3>7, <3>8
  <2> QED
    BY <2>2, <2>3
<1>6. \A k \in 1 .. N + 1 : P(k)
  <2> HIDE DEF P
  <2> SUFFICES ASSUME NEW k0 \in T PROVE FALSE
    OBVIOUS
  <2>1. T \subseteq Nat
    BY <1>0
  <2>2. PICK k \in T : \A y \in T : k <= y
    BY <2>1, Least, Zenon
  <2>3. k # 1
    BY <1>4, <2>2
  <2>4. k \in 2 .. N + 1 /\ k - 1 \in 1 .. N + 1 /\ k - 1 \notin T
    BY <1>0, <2>2, <2>3
  <2> QED
    BY <1>5, <2>2, <2>4
<1>7. w[N + 1] = NULL
  <2> SUFFICES ASSUME w[N + 1] # NULL PROVE FALSE
    OBVIOUS
  <2>1. N + 1 \in 1 .. N + 1 /\ 1 .. N + 1 \subseteq Int
    BY <1>0
  <2>2. \A j \in 1 .. N + 1 : w[j] \in Entries
    BY <1>0, <1>6, <2>1
  <2>3. \A j \in 1 .. N + 1 : \A i \in 1 .. j - 1 : Behind(home, pos, w[i], w[j])
    BY <1>6, <2>2, Kinds
  <2>4. \A j, i \in 1 .. N + 1 : i < j => w[i] # w[j]
    <3> SUFFICES ASSUME NEW j \in 1 .. N + 1, NEW i \in 1 .. N + 1, i < j, w[i] = w[j]
                 PROVE  FALSE
      OBVIOUS
    <3>1. i \in 1 .. j - 1
      BY <2>1
    <3>2. Behind(home, pos, w[j], w[j]) /\ w[j] \in Entries
      BY <2>2, <2>3, <3>1
    <3> QED
      BY <3>2 DEF Behind, Ranks
  <2> DEFINE g == [j \in 1 .. N + 1 |-> w[j]]
  <2>5. g \in [1 .. N + 1 -> Entries]
    BY <2>2
  <2>6. IsFiniteSet(1 .. N + 1) /\ Cardinality(1 .. N + 1) = N + 1
    <3>1. 1 \in Int /\ N + 1 \in Int
      BY <1>0
    <3> QED
      BY <1>0, <3>1, FS_Interval
  <2>7. IsFiniteSet(Entries) /\ Cardinality(Entries) < Cardinality(1 .. N + 1)
    BY <1>0, <2>6, TimerAssumption
  <2> HIDE DEF g
  <2>8. \E i, j \in 1 .. N + 1 : i # j /\ g[i] = g[j]
    BY <2>5, <2>6, <2>7, FS_PigeonHole
  <2>9. PICK i \in 1 .. N + 1, j \in 1 .. N + 1 : i # j /\ w[i] = w[j]
    BY <2>8 DEF g
  <2>10. i < j \/ j < i
    BY <2>1, <2>9
  <2> QED
    BY <2>4, <2>9, <2>10
<1>8. \A f \in Entries : Behind(home, pos, c, f) => \E j \in 1 .. N : w[j] = f
  <2> SUFFICES ASSUME NEW f \in Entries, Behind(home, pos, c, f)
               PROVE  \E j \in 1 .. N : w[j] = f
    OBVIOUS
  <2>1. PICK j \in 1 .. N + 1 : w[j] = f
    BY <1>0, <1>6, <1>7
  <2>2. j # N + 1
    BY <1>7, <2>1, Kinds
  <2> QED
    BY <1>0, <2>1, <2>2
<1>9. \A f \in Entries : \A j \in 1 .. N : w[j] = f => Behind(home, pos, c, f)
  BY <1>0, <1>6, Kinds
<1> QED
  BY <1>0, <1>7, <1>8, <1>9 DEF Linked, w

-----------------------------------------------------------------------------
(* What the operations on the pointers do to the lists.                          *)

\* A cell of the list of expired entries.
OfExpired(home, c) == c = ListHead \/ (c \in Entries /\ home[c] = ListHead)

\* All lists are whole after e was put in front of the list of s.
PutInFront(n, p, home, pos, e, s, n2, p2, at) ==
  /\ n2 \in Nexts /\ p2 \in Prevs /\ at \in Maps
  /\ p2[e] # NULL
  /\ \A c \in Cells \ {e, s} : n2[c] = n[c]
  /\ \A f \in Entries : home[f] = NULL /\ f # e => p2[f] = p[f]
  /\ \E rank \in Ranks :
       /\ \A f \in Entries \ {e} : rank[f] = pos[f]
       /\ \A f \in Entries : home[f] = s => pos[f] < rank[e]
       /\ Apart(at, rank)
       /\ SlotsWhole(n2, p2, at, rank)
       /\ \A c \in Cells : OfExpired(home, c) /\ Leads(n, p, home, pos, c) =>
                            Leads(n2, p2, at, rank, c)

\* fast_timer_add puts e in front of its slot's list and leaves all lists whole.
LEMMA LinkKeeps ==
  ASSUME NEW n \in Nexts, NEW p \in Prevs, NEW home \in Maps, NEW pos \in Ranks,
         Apart(home, pos), SlotsWhole(n, p, home, pos),
         NEW e \in Entries, home[e] = NULL, NEW s \in Slots,
         NEW n2, NEW p2, << n2, p2 >> = Link(<< n, p >>, e, s),
         NEW at, at = [home EXCEPT ![e] = s]
  PROVE  PutInFront(n, p, home, pos, e, s, n2, p2, at)
<1> USE Kinds DEF Nexts, Prevs, Maps, Ranks
<1>1. /\ n2 = [n EXCEPT ![e] = n[s], ![s] = e]
      /\ n[s] = NULL => p2 = [p EXCEPT ![e] = s]
      /\ n[s] # NULL => p2 = [p EXCEPT ![n[s]] = e, ![e] = s]
  BY Zenon DEF Link
<1>2. Leads(n, p, home, pos, s) /\ n[s] \in Entries \cup {NULL} /\ n[s] # e
  BY DEF SlotsWhole, Leads, Behind
<1>3. n2 \in Nexts /\ p2 \in Prevs /\ at \in Maps
  BY <1>1, <1>2
<1>4. /\ n2[e] = n[s] /\ n2[s] = e /\ p2[e] = s
      /\ \A c \in Cells \ {e, s} : n2[c] = n[c]
      /\ n[s] # NULL => p2[n[s]] = e
      /\ \A c \in Cells \ {e, n[s]} : p2[c] = p[c]
  BY <1>1, <1>2
<1>5. /\ at[e] = s /\ \A f \in Entries \ {e} : at[f] = home[f]
      /\ n[s] # NULL => home[n[s]] = s
  BY <1>2 DEF Leads, Behind
<1> DEFINE top == IF n[s] = NULL THEN 0 ELSE pos[n[s]] + 1
           rank == [pos EXCEPT ![e] = top]
<1>6. rank \in Ranks /\ rank[e] = top /\ \A f \in Entries \ {e} : rank[f] = pos[f]
  BY <1>2
<1>7. \A f \in Entries : home[f] = s => pos[f] < rank[e] /\ n[s] # NULL
  BY <1>2, <1>6 DEF Leads, Behind
<1> HIDE DEF rank
<1>8. Apart(at, rank)
  BY <1>5, <1>6, <1>7 DEF Apart
<1>9. ASSUME NEW c \in Cells, c # s, c # e, c \in Entries => home[c] # NULL,
             Leads(n, p, home, pos, c)
      PROVE  Leads(n2, p2, at, rank, c)
  <2>1. \A f \in Entries : Behind(home, pos, c, f) <=> Behind(at, rank, c, f)
    <3> SUFFICES ASSUME NEW f \in Entries
                 PROVE  Behind(home, pos, c, f) <=> Behind(at, rank, c, f)
      OBVIOUS
    <3>1. CASE f = e
      BY <1>5, <1>6, <1>7, <1>9, <3>1 DEF Behind
    <3>2. CASE f # e
      BY <1>5, <1>6, <1>9, <3>2 DEF Behind
    <3> QED
      BY <3>1, <3>2
  <2>2. n2[c] = n[c]
    BY <1>4, <1>9
  <2>3. CASE n[c] = NULL
    BY <1>9, <2>1, <2>2, <2>3 DEF Leads
  <2>4. CASE n[c] # NULL
    <3>1. /\ n[c] \in Entries /\ Behind(home, pos, c, n[c]) /\ p[n[c]] = c
          /\ \A f \in Entries : Behind(home, pos, c, f) => f = n[c] \/ Behind(home, pos, n[c], f)
      BY <1>9, <2>4 DEF Leads
    <3>2. n[c] # e /\ home[n[c]] # NULL
      BY <1>9, <3>1 DEF Behind
    <3>3. n[c] # n[s]
      BY <1>2, <1>9, <3>1 DEF Leads
    <3>4. p2[n[c]] = c
      BY <1>4, <3>1, <3>2, <3>3
    <3>5. \A f \in Entries : Behind(home, pos, n[c], f) => Behind(at, rank, n[c], f)
      BY <1>5, <1>6, <3>1, <3>2 DEF Behind
    <3> QED
      BY <2>1, <2>2, <3>1, <3>4, <3>5 DEF Leads
  <2> QED
    BY <2>3, <2>4
<1>10. Leads(n2, p2, at, rank, s)
  <2>1. Behind(at, rank, s, e) /\ n2[s] = e /\ p2[e] = s
    BY <1>4, <1>5 DEF Behind
  <2>2. \A f \in Entries : Behind(at, rank, s, f) => f = e \/ Behind(at, rank, e, f)
    BY <1>5, <1>6, <1>7 DEF Behind
  <2> QED
    BY <2>1, <2>2 DEF Leads
<1>11. Leads(n2, p2, at, rank, e)
  <2>1. \A f \in Entries : Behind(at, rank, e, f) => home[f] = s /\ f # e
    BY <1>5, <1>6 DEF Behind
  <2>2. CASE n[s] = NULL
    BY <1>4, <1>7, <2>1, <2>2 DEF Leads
  <2>3. CASE n[s] # NULL
    <3>1. n2[e] = n[s] /\ p2[n[s]] = e /\ n[s] \in Entries /\ Behind(at, rank, e, n[s])
      BY <1>2, <1>4, <1>5, <1>6, <1>7, <2>3 DEF Behind
    <3>2. \A f \in Entries : home[f] = s => f = n[s] \/ (f # e /\ pos[f] < pos[n[s]])
      BY <1>2, <2>3 DEF Leads, Behind
    <3>3. \A f \in Entries : Behind(at, rank, e, f) => f = n[s] \/ Behind(at, rank, n[s], f)
      BY <1>2, <1>5, <1>6, <2>1, <2>3, <3>1, <3>2 DEF Behind
    <3> QED
      BY <2>3, <3>1, <3>3 DEF Leads
  <2> QED
    BY <2>2, <2>3
<1>12. ASSUME NEW f \in Entries, at[f] \in Slots
       PROVE  LeadsBack(n2, p2, at, f)
  <2>1. CASE f = e
    BY <1>4, <1>5, <2>1 DEF LeadsBack
  <2>2. CASE f # e /\ f = n[s]
    BY <1>4, <1>5, <2>2 DEF LeadsBack
  <2>3. CASE f # e /\ f # n[s]
    <3>1. home[f] \in Slots /\ at[f] = home[f] /\ p2[f] = p[f]
      BY <1>4, <1>5, <1>12, <2>3
    <3>2. /\ n[p[f]] = f
          /\ p[f] = home[f] \/ (p[f] \in Entries /\ home[p[f]] = home[f])
      BY <3>1 DEF SlotsWhole, LeadsBack
    <3>3. p[f] # s /\ p[f] # e /\ p[f] \in Cells
      BY <2>3, <3>1, <3>2
    <3> QED
      BY <1>4, <1>5, <3>1, <3>2, <3>3 DEF LeadsBack
  <2> QED
    BY <2>1, <2>2, <2>3
<1>13. SlotsWhole(n2, p2, at, rank)
  <2>1. ASSUME NEW c \in Slots PROVE Leads(n2, p2, at, rank, c)
    <3>1. CASE c = s
      BY <1>10, <3>1
    <3>2. CASE c # s
      BY <1>9, <3>2 DEF SlotsWhole
    <3> QED
      BY <3>1, <3>2
  <2>2. ASSUME NEW c \in Entries, at[c] \in Slots PROVE Leads(n2, p2, at, rank, c)
    <3>1. CASE c = e
      BY <1>11, <3>1
    <3>2. CASE c # e
      BY <1>5, <1>9, <2>2, <3>2 DEF SlotsWhole
    <3> QED
      BY <3>1, <3>2
  <2> QED
    BY <1>12, <2>1, <2>2 DEF SlotsWhole
<1>14. \A c \in Cells : OfExpired(home, c) /\ Leads(n, p, home, pos, c) => Leads(n2, p2, at, rank, c)
  BY <1>9 DEF OfExpired
<1>15. \A f \in Entries : home[f] = NULL /\ f # e => p2[f] = p[f]
  BY <1>4, <1>5
<1> QED
  BY <1>3, <1>4, <1>6, <1>7, <1>8, <1>13, <1>14, <1>15 DEF PutInFront

\* All lists are whole after e was taken out of its slot's list.
TakenOut(n, p, home, pos, e, n2, p2, at) ==
  /\ n2 \in Nexts /\ p2 \in Prevs /\ at \in Maps
  /\ p2[e] = NULL
  /\ n2[ListHead] = n[ListHead]
  /\ \A f \in Entries : home[f] = NULL => p2[f] = p[f]
  /\ Apart(at, pos)
  /\ SlotsWhole(n2, p2, at, pos)
  /\ \A c \in Cells : OfExpired(home, c) /\ Leads(n, p, home, pos, c) =>
                       Leads(n2, p2, at, pos, c)

\* fast_timer_remove takes e out of its slot's list and leaves all lists whole.
LEMMA UnlinkKeeps ==
  ASSUME NEW n \in Nexts, NEW p \in Prevs, NEW home \in Maps, NEW pos \in Ranks,
         Apart(home, pos), SlotsWhole(n, p, home, pos),
         NEW e \in Entries, home[e] \in Slots,
         NEW n2, NEW p2, << n2, p2 >> = Unlink(<< n, p >>, e),
         NEW at, at = [home EXCEPT ![e] = NULL]
  PROVE  TakenOut(n, p, home, pos, e, n2, p2, at)
<1> USE Kinds DEF Nexts, Prevs, Maps, Ranks
<1> DEFINE q == p[e]
<1>1. /\ n2 = IF n[e] # NULL THEN [n EXCEPT ![q] = n[e], ![e] = NULL] ELSE [n EXCEPT ![q] = NULL]
      /\ p2 = IF n[e] # NULL THEN [p EXCEPT ![n[e]] = q, ![e] = NULL] ELSE [p EXCEPT ![e] = NULL]
  BY DEF Unlink
<1>2. Leads(n, p, home, pos, e) /\ n[q] = e /\ (q = home[e] \/ (q \in Entries /\ home[q] = home[e]))
  BY DEF SlotsWhole, LeadsBack
<1>3. n[e] # NULL => n[e] \in Entries /\ home[n[e]] = home[e] /\ pos[n[e]] < pos[e] /\ p[n[e]] = e
  BY <1>2 DEF Leads, Behind
<1>4. q \in Cells /\ q # NULL /\ Leads(n, p, home, pos, q)
  BY <1>2 DEF SlotsWhole
<1>5. Behind(home, pos, q, e) /\ \A f \in Entries : Behind(home, pos, q, f) => f = e \/ Behind(home, pos, e, f)
  BY <1>2, <1>4 DEF Leads
<1>6. q # e /\ q # n[e] /\ n[e] # e
  BY <1>2, <1>3, <1>5 DEF Behind
<1>7. n2 \in Nexts /\ p2 \in Prevs /\ at \in Maps
  BY <1>1, <1>3, <1>4
<1>8. /\ n2[q] = n[e] /\ \A c \in Cells \ {e, q} : n2[c] = n[c]
      /\ p2[e] = NULL /\ (n[e] # NULL => p2[n[e]] = q)
      /\ \A c \in Cells \ {e, n[e]} : p2[c] = p[c]
  BY <1>1, <1>3, <1>4, <1>6
<1>9. at[e] = NULL /\ \A f \in Entries \ {e} : at[f] = home[f]
  OBVIOUS
<1>10. Apart(at, pos)
  BY <1>9 DEF Apart
<1>11. ASSUME NEW c \in Cells, c # e, NEW f \in Entries
       PROVE  Behind(at, pos, c, f) <=> (f # e /\ Behind(home, pos, c, f)) \/ (f = e /\ c \in Entries /\ home[c] = NULL /\ pos[e] < pos[c])
  BY <1>9, <1>11 DEF Behind
<1>12. ASSUME NEW c \in Cells, c # e, c # q, c \in Entries => home[c] # NULL,
              Leads(n, p, home, pos, c)
       PROVE  Leads(n2, p2, at, pos, c)
  <2>1. \A f \in Entries : Behind(at, pos, c, f) <=> f # e /\ Behind(home, pos, c, f)
    BY <1>11, <1>12
  <2>2. n2[c] = n[c]
    BY <1>8, <1>12
  <2>3. CASE n[c] = NULL
    BY <1>12, <2>1, <2>2, <2>3 DEF Leads
  <2>4. CASE n[c] # NULL
    <3>1. /\ n[c] \in Entries /\ Behind(home, pos, c, n[c]) /\ p[n[c]] = c
          /\ \A f \in Entries : Behind(home, pos, c, f) => f = n[c] \/ Behind(home, pos, n[c], f)
      BY <1>12, <2>4 DEF Leads
    <3>2. n[c] # e /\ n[c] # n[e] /\ home[n[c]] # NULL
      BY <1>3, <1>12, <3>1 DEF Behind
    <3>3. p2[n[c]] = c
      BY <1>8, <3>1, <3>2
    <3>4. \A f \in Entries : f # e /\ Behind(home, pos, n[c], f) => Behind(at, pos, n[c], f)
      BY <1>11, <3>1, <3>2
    <3> QED
      BY <2>1, <2>2, <3>1, <3>2, <3>3, <3>4 DEF Leads
  <2> QED
    BY <2>3, <2>4
<1>13. Leads(n2, p2, at, pos, q)
  <2>1. \A f \in Entries : Behind(at, pos, q, f) <=> f # e /\ Behind(home, pos, q, f)
    BY <1>2, <1>4, <1>6, <1>11
  <2>2. \A f \in Entries : Behind(at, pos, q, f) => Behind(home, pos, e, f)
    BY <1>5, <2>1
  <2>3. CASE n[e] = NULL
    BY <1>2, <1>8, <2>2, <2>3 DEF Leads
  <2>4. CASE n[e] # NULL
    <3>1. /\ n[e] \in Entries /\ p2[n[e]] = q /\ n2[q] = n[e]
          /\ \A f \in Entries : Behind(home, pos, e, f) => f = n[e] \/ Behind(home, pos, n[e], f)
      BY <1>2, <1>8, <2>4 DEF Leads
    <3>2. Behind(home, pos, q, n[e])
      BY <1>2, <1>3, <1>5, <2>4 DEF Behind
    <3>3. \A f \in Entries : Behind(at, pos, q, f) => f = n[e] \/ Behind(at, pos, n[e], f)
      BY <1>3, <1>6, <1>11, <2>1, <2>2, <2>4, <3>1
    <3> QED
      BY <1>6, <2>1, <2>4, <3>1, <3>2, <3>3 DEF Leads
  <2> QED
    BY <2>3, <2>4
<1>14. ASSUME NEW f \in Entries, at[f] \in Slots
       PROVE  LeadsBack(n2, p2, at, f)
  <2>1. f # e /\ at[f] = home[f]
    BY <1>9, <1>14
  <2>2. CASE f = n[e]
    BY <1>2, <1>3, <1>6, <1>8, <1>9, <2>1, <2>2 DEF LeadsBack
  <2>3. CASE f # n[e]
    <3>1. /\ p2[f] = p[f] /\ n[p[f]] = f
          /\ p[f] = home[f] \/ (p[f] \in Entries /\ home[p[f]] = home[f])
      BY <1>8, <1>14, <2>1, <2>3 DEF SlotsWhole, LeadsBack
    <3>2. p[f] # e /\ p[f] # q /\ p[f] \in Cells
      BY <1>2, <1>14, <2>1, <2>3, <3>1
    <3> QED
      BY <1>8, <1>9, <2>1, <3>1, <3>2 DEF LeadsBack
  <2> QED
    BY <2>2, <2>3
<1>15. SlotsWhole(n2, p2, at, pos)
  <2>1. ASSUME NEW c \in Slots PROVE Leads(n2, p2, at, pos, c)
    BY <1>12, <1>13 DEF SlotsWhole
  <2>2. ASSUME NEW c \in Entries, at[c] \in Slots PROVE Leads(n2, p2, at, pos, c)
    BY <1>9, <1>12, <1>13, <2>2 DEF SlotsWhole
  <2> QED
    BY <1>14, <2>1, <2>2 DEF SlotsWhole
<1>16. \A c \in Cells : OfExpired(home, c) /\ Leads(n, p, home, pos, c) => Leads(n2, p2, at, pos, c)
  BY <1>2, <1>12 DEF OfExpired
<1>17. /\ n2[ListHead] = n[ListHead]
       /\ \A f \in Entries : home[f] = NULL => p2[f] = p[f]
  BY <1>2, <1>3, <1>8
<1> QED
  BY <1>7, <1>8, <1>10, <1>15, <1>16, <1>17 DEF TakenOut

\* The entries of the list of s from a to b.
Between(home, pos, s, a, b) ==
  {f \in Entries : home[f] = s /\ pos[b] <= pos[f] /\ pos[f] <= pos[a]}

\* All lists are whole after the run R, with end b, was moved from the list of s
\* to the end of the list of expired entries.
CutOut(n, p, home, pos, s, b, n2, p2, R, at) ==
  /\ n2 \in Nexts /\ p2 \in Prevs /\ at \in Maps
  /\ n[b] # NULL => n[b] \notin R /\ home[n[b]] = s /\ n2[n[b]] = n[n[b]]
  /\ \A f \in Entries : home[f] = NULL => p2[f] = p[f]
  /\ \E rank \in Ranks :
       /\ \A f \in Entries \ R : rank[f] = pos[f]
       /\ Apart(at, rank)
       /\ SlotsWhole(n2, p2, at, rank)
       /\ \A f \in Entries : ~ Behind(at, rank, b, f)
       /\ \A c \in Cells : OfExpired(at, c) /\ c # b => Leads(n2, p2, at, rank, c)

\* The run from a to b leaves the list of s, where e (or NULL) follows it, for
\* the end of the list of expired entries, which is t so far.
LEMMA SpliceKeeps ==
  ASSUME NEW n \in Nexts, NEW p \in Prevs, NEW home \in Maps, NEW pos \in Ranks,
         Apart(home, pos), SlotsWhole(n, p, home, pos),
         NEW s \in Slots, NEW a \in Entries, NEW b \in Entries,
         home[a] = s, home[b] = s, pos[b] <= pos[a],
         NEW t \in Cells, OfExpired(home, t),
         \A f \in Entries : ~ Behind(home, pos, t, f),
         \A c \in Cells : OfExpired(home, c) /\ c # t => Leads(n, p, home, pos, c),
         NEW n2, n2 = [n EXCEPT ![p[a]] = n[b], ![t] = a],
         NEW p2, p2 = [(IF n[b] = NULL THEN p ELSE [p EXCEPT ![n[b]] = p[a]]) EXCEPT ![a] = t],
         NEW R, R = Between(home, pos, s, a, b),
         NEW at, at = [f \in Entries |-> IF f \in R THEN ListHead ELSE home[f]]
  PROVE  CutOut(n, p, home, pos, s, b, n2, p2, R, at)
<1> USE Kinds DEF Nexts, Prevs, Maps, Ranks
<1> DEFINE q == p[a]
           e == n[b]
<1>1. /\ Leads(n, p, home, pos, a) /\ n[q] = a /\ (q = s \/ (q \in Entries /\ home[q] = s))
      /\ Leads(n, p, home, pos, b) /\ Leads(n, p, home, pos, s)
  BY DEF SlotsWhole, LeadsBack
<1>2. e \in Entries \cup {NULL}
      /\ (e # NULL => home[e] = s /\ pos[e] < pos[b] /\ p[e] = b)
      /\ \A f \in Entries : home[f] = s /\ pos[f] < pos[b] => e # NULL /\ (f = e \/ pos[f] < pos[e])
  BY <1>1 DEF Leads, Behind
<1>3. q \in Cells /\ q # NULL /\ Leads(n, p, home, pos, q)
  BY <1>1 DEF SlotsWhole
<1>4. Behind(home, pos, q, a) /\ \A f \in Entries : Behind(home, pos, q, f) => f = a \/ Behind(home, pos, a, f)
  BY <1>1, <1>3 DEF Leads
<1>5. \A f \in Entries : f \in R <=> home[f] = s /\ pos[b] <= pos[f] /\ pos[f] <= pos[a]
  BY DEF Between
<1>6. a \in R /\ b \in R /\ e \notin R /\ q \notin R /\ q # e /\ e # a
  BY <1>1, <1>2, <1>4, <1>5 DEF Behind, Between
<1>7. /\ t # q /\ t # a /\ t # e /\ t # b /\ t \notin R
      /\ \A f \in Entries : home[f] = ListHead => t \in Entries /\ pos[t] <= pos[f]
  <2>1. t = ListHead \/ (t \in Entries /\ home[t] = ListHead)
    BY DEF OfExpired
  <2>2. t # q /\ t # a /\ t # e /\ t # b /\ t \notin R
    BY <1>1, <1>2, <1>5, <2>1 DEF Between
  <2>3. \A f \in Entries : home[f] = ListHead => t \in Entries /\ pos[t] <= pos[f]
    BY <2>1 DEF Behind
  <2> QED
    BY <2>2, <2>3
<1>23. \A f \in R : f \in Entries /\ (f # b => pos[b] < pos[f]) /\ (f # a => pos[f] < pos[a])
  <2> SUFFICES ASSUME NEW f \in R
               PROVE  f \in Entries /\ (f # b => pos[b] < pos[f]) /\ (f # a => pos[f] < pos[a])
    OBVIOUS
  <2>1. f \in Entries /\ home[f] = s /\ pos[b] <= pos[f] /\ pos[f] <= pos[a]
    BY DEF Between
  <2>2. (pos[f] = pos[b] => f = b) /\ (pos[f] = pos[a] => f = a)
    BY <2>1 DEF Apart
  <2> QED
    BY <2>1, <2>2
<1>8. n2 \in Nexts /\ p2 \in Prevs /\ at \in Maps
  <2>1. n2 \in Nexts
    BY <1>2, <1>3
  <2>2. p2 \in Prevs
    BY <1>2, <1>3
  <2>3. at \in Maps
    OBVIOUS
  <2> QED
    BY <2>1, <2>2, <2>3
<1>9. /\ n2[q] = e /\ n2[t] = a /\ \A c \in Cells \ {q, t} : n2[c] = n[c]
      /\ p2[a] = t /\ (e # NULL => p2[e] = q)
      /\ \A c \in Cells \ {a, e} : p2[c] = p[c]
  BY <1>2, <1>3, <1>6, <1>7
<1>10. (\A f \in R : at[f] = ListHead) /\ \A f \in Entries \ R : at[f] = home[f]
  BY <1>5 DEF Between
<1> DEFINE rank == [f \in Entries |-> IF f \in R /\ t \in Entries THEN pos[f] - pos[a] + pos[t] - 1 ELSE pos[f]]
<1>11. /\ rank \in Ranks
       /\ \A f \in Entries \ R : rank[f] = pos[f]
       /\ t \in Entries => \A f \in R : rank[f] = pos[f] - pos[a] + pos[t] - 1
       /\ t \notin Entries => \A f \in R : rank[f] = pos[f]
  <2>1. rank \in Ranks
    <3> SUFFICES ASSUME NEW f \in Entries
                 PROVE  (IF f \in R /\ t \in Entries THEN pos[f] - pos[a] + pos[t] - 1 ELSE pos[f]) \in Int
      OBVIOUS
    <3> QED
      OBVIOUS
  <2>2. R \subseteq Entries
    BY DEF Between
  <2> QED
    BY <2>1, <2>2
<1> HIDE DEF rank
<1>12. /\ \A f, g \in R : rank[f] < rank[g] <=> pos[f] < pos[g]
       /\ \A f, g \in R : rank[f] = rank[g] <=> pos[f] = pos[g]
       /\ \A f \in R : \A g \in Entries : home[g] = ListHead => rank[f] < rank[g]
  <2>1. R \subseteq Entries
    BY DEF Between
  <2>2. \A f \in R : \A g \in Entries : home[g] = ListHead => g \notin R /\ rank[f] < rank[g]
    BY <1>5, <1>7, <1>11, <2>1
  <2>3. \A f, g \in R : (rank[f] < rank[g] <=> pos[f] < pos[g]) /\ (rank[f] = rank[g] <=> pos[f] = pos[g])
    BY <1>11, <2>1
  <2> QED
    BY <2>2, <2>3
<1>13. Apart(at, rank)
  <2> SUFFICES ASSUME NEW f \in Entries, NEW g \in Entries, at[f] = at[g], at[f] # NULL, rank[f] = rank[g]
               PROVE  f = g
    BY DEF Apart
  <2>1. CASE f \in R /\ g \in R
    BY <1>5, <1>12, <2>1 DEF Apart
  <2>2. CASE f \in R /\ g \notin R
    BY <1>10, <1>11, <1>12, <2>2
  <2>3. CASE f \notin R /\ g \in R
    BY <1>10, <1>11, <1>12, <2>3
  <2>4. CASE f \notin R /\ g \notin R
    BY <1>10, <1>11, <2>4 DEF Apart
  <2> QED
    BY <2>1, <2>2, <2>3, <2>4
\* Inside the run, and in the list of expired entries.
<1>14. ASSUME NEW c \in R, c # b
       PROVE  Leads(n2, p2, at, rank, c)
  <2>1. c \in Entries /\ home[c] = s /\ pos[b] < pos[c] /\ pos[c] <= pos[a]
    BY <1>5, <1>14, <1>23
  <2>2. /\ n[c] \in Entries /\ home[n[c]] = s /\ pos[n[c]] < pos[c] /\ p[n[c]] = c
        /\ \A f \in Entries : home[f] = s /\ pos[f] < pos[c] => f = n[c] \/ pos[f] < pos[n[c]]
    BY <2>1 DEF SlotsWhole, Leads, Behind
  <2>3. n[c] \in R /\ n[c] # a /\ n[c] # e
    BY <1>2, <1>5, <2>1, <2>2
  <2>4. n2[c] = n[c] /\ p2[n[c]] = c
    BY <1>6, <1>7, <1>9, <1>14, <2>1, <2>2, <2>3
  <2>5. Behind(at, rank, c, n[c])
    BY <1>10, <1>12, <1>14, <2>1, <2>2, <2>3 DEF Behind
  <2>6. ASSUME NEW f \in Entries, Behind(at, rank, c, f)
        PROVE  f = n[c] \/ Behind(at, rank, n[c], f)
    <3>1. at[f] = ListHead /\ rank[f] < rank[c]
      BY <1>10, <1>14, <2>1, <2>6 DEF Behind
    <3>2. CASE f \in R
      <4>1. f = n[c] \/ pos[f] < pos[n[c]]
        BY <1>5, <1>12, <1>14, <2>2, <3>1, <3>2
      <4> QED
        BY <1>10, <1>12, <2>2, <2>3, <3>2, <4>1 DEF Behind
    <3>3. CASE f \notin R
      BY <1>10, <1>11, <1>12, <1>14, <2>1, <3>1, <3>3
    <3> QED
      BY <3>2, <3>3
  <2> QED
    BY <2>2, <2>4, <2>5, <2>6 DEF Leads
<1>15. ASSUME NEW c \in Cells, OfExpired(home, c), c # t
       PROVE  Leads(n2, p2, at, rank, c)
  <2>1. Leads(n, p, home, pos, c) /\ c # q /\ c \notin R /\ t \in Entries /\ home[t] = ListHead
    <3>1. c = ListHead \/ (c \in Entries /\ home[c] = ListHead)
      BY <1>15 DEF OfExpired
    <3>2. c # q /\ c \notin R
      BY <1>1, <1>5, <1>23, <3>1
    <3>3. t \in Entries /\ home[t] = ListHead
      BY <1>7, <1>15, <3>1 DEF OfExpired
    <3> QED
      BY <1>15, <3>2, <3>3
  <2>2. Behind(home, pos, c, t)
    BY <1>7, <1>15, <2>1 DEF OfExpired, Behind, Apart
  <2>3. /\ n[c] \in Entries /\ home[n[c]] = ListHead /\ p[n[c]] = c /\ Behind(home, pos, c, n[c])
        /\ \A f \in Entries : Behind(home, pos, c, f) => f = n[c] \/ Behind(home, pos, n[c], f)
    BY <1>15, <2>1, <2>2 DEF Leads, Behind, OfExpired
  <2>4. n2[c] = n[c] /\ p2[n[c]] = c /\ n[c] \notin R
    BY <1>2, <1>5, <1>9, <1>15, <2>1, <2>3
  <2>5. Behind(at, rank, c, n[c])
    BY <1>10, <1>11, <1>15, <2>1, <2>3, <2>4 DEF Behind, OfExpired
  <2>6. ASSUME NEW f \in Entries, Behind(at, rank, c, f)
        PROVE  f = n[c] \/ Behind(at, rank, n[c], f)
    <3>1. at[n[c]] = ListHead /\ at[f] = ListHead
      BY <1>10, <1>15, <2>1, <2>3, <2>4, <2>6 DEF Behind, OfExpired
    <3>2. CASE f \in R
      BY <1>12, <2>3, <3>1, <3>2 DEF Behind
    <3>3. CASE f \notin R
      BY <1>10, <1>11, <1>15, <2>1, <2>3, <2>4, <2>6, <3>1, <3>3 DEF Behind, OfExpired
    <3> QED
      BY <3>2, <3>3
  <2> QED
    BY <2>3, <2>4, <2>5, <2>6 DEF Leads
<1>16. Leads(n2, p2, at, rank, t)
  <2>1. n2[t] = a /\ p2[a] = t
    BY <1>9
  <2>2. Behind(at, rank, t, a)
    BY <1>6, <1>7, <1>10, <1>12 DEF Behind, OfExpired
  <2>3. ASSUME NEW f \in Entries, Behind(at, rank, t, f)
        PROVE  f = a \/ Behind(at, rank, a, f)
    <3>1. f \in R
      BY <1>7, <1>10, <1>11, <2>3 DEF Behind, OfExpired
    <3> QED
      BY <1>5, <1>6, <1>10, <1>12, <1>23, <3>1 DEF Behind
  <2> QED
    BY <2>1, <2>2, <2>3 DEF Leads
<1>17. \A c \in Cells : OfExpired(at, c) /\ c # b => Leads(n2, p2, at, rank, c)
  BY <1>10, <1>14, <1>15, <1>16 DEF OfExpired
<1>18. \A f \in Entries : ~ Behind(at, rank, b, f)
  <2> SUFFICES ASSUME NEW f \in Entries, Behind(at, rank, b, f) PROVE FALSE
    OBVIOUS
  <2>1. at[f] = ListHead /\ rank[f] < rank[b]
    BY <1>6, <1>10 DEF Behind
  <2>2. CASE f \in R
    BY <1>5, <1>6, <1>12, <2>1, <2>2
  <2>3. CASE f \notin R
    BY <1>6, <1>10, <1>11, <1>12, <2>1, <2>3
  <2> QED
    BY <2>2, <2>3
\* What is left of the slots.
<1>19. ASSUME NEW c \in Cells, c \notin R, c \in Slots \/ (c \in Entries /\ home[c] \in Slots)
       PROVE  Leads(n2, p2, at, rank, c)
  <2>1. c # t /\ Leads(n, p, home, pos, c)
    BY <1>19 DEF OfExpired, SlotsWhole
  <2>2. \A f \in Entries : Behind(at, rank, c, f) <=> f \notin R /\ Behind(home, pos, c, f)
    BY <1>5, <1>10, <1>11, <1>19 DEF Behind
  <2>3. CASE c = q
    <3>1. \A f \in Entries : Behind(at, rank, q, f) => e # NULL /\ (f = e \/ Behind(at, rank, e, f))
      <4> SUFFICES ASSUME NEW f \in Entries, Behind(at, rank, q, f)
                   PROVE  e # NULL /\ (f = e \/ Behind(at, rank, e, f))
        OBVIOUS
      <4>1. f \notin R /\ f # a /\ Behind(home, pos, a, f)
        BY <1>4, <1>6, <2>2, <2>3
      <4>2. home[f] = s /\ pos[f] < pos[b]
        BY <1>5, <4>1 DEF Behind
      <4> QED
        BY <1>2, <1>6, <1>10, <1>11, <4>1, <4>2 DEF Behind
    <3>2. e # NULL => Behind(at, rank, q, e)
      BY <1>1, <1>2, <1>4, <1>6, <2>2, <2>3 DEF Behind
    <3> QED
      BY <1>2, <1>9, <2>3, <3>1, <3>2 DEF Leads
  <2>4. CASE c # q
    <3>1. n2[c] = n[c]
      BY <1>9, <2>1, <2>4
    <3>2. CASE n[c] = NULL
      BY <2>1, <2>2, <3>1, <3>2 DEF Leads
    <3>3. CASE n[c] # NULL
      <4>1. /\ n[c] \in Entries /\ Behind(home, pos, c, n[c]) /\ p[n[c]] = c
            /\ \A f \in Entries : Behind(home, pos, c, f) => f = n[c] \/ Behind(home, pos, n[c], f)
        BY <2>1, <3>3 DEF Leads
      <4>2. n[c] # a
        BY <2>4, <4>1
      <4>3. n[c] \notin R
        <5> SUFFICES ASSUME n[c] \in R PROVE FALSE
          OBVIOUS
        <5>1. home[n[c]] = s /\ pos[n[c]] < pos[a] /\ pos[b] <= pos[n[c]]
          BY <1>5, <1>23, <4>1, <4>2
        <5>2. Behind(home, pos, c, a)
          BY <1>5, <1>19, <4>1, <5>1 DEF Behind
        <5> QED
          BY <4>1, <4>2, <5>1, <5>2 DEF Behind
      <4>4. p2[n[c]] = c
        BY <1>2, <1>6, <1>9, <1>19, <4>1, <4>2
      <4>5. \A f \in Entries : f \notin R /\ Behind(home, pos, n[c], f) => Behind(at, rank, n[c], f)
        BY <1>10, <1>11, <4>1, <4>3 DEF Behind
      <4> QED
        BY <2>2, <3>1, <4>1, <4>3, <4>4, <4>5 DEF Leads
    <3> QED
      BY <3>2, <3>3
  <2> QED
    BY <2>3, <2>4
<1>20. ASSUME NEW f \in Entries, at[f] \in Slots
       PROVE  LeadsBack(n2, p2, at, f)
  <2>1. f \notin R /\ at[f] = home[f] /\ f # a
    BY <1>6, <1>10, <1>20
  <2>2. CASE f = e
    BY <1>1, <1>2, <1>6, <1>9, <1>10, <2>1, <2>2 DEF LeadsBack
  <2>3. CASE f # e
    <3>1. /\ p2[f] = p[f] /\ n[p[f]] = f
          /\ p[f] = home[f] \/ (p[f] \in Entries /\ home[p[f]] = home[f])
      BY <1>9, <1>20, <2>1, <2>3 DEF SlotsWhole, LeadsBack
    <3>2. p[f] # q /\ p[f] # t /\ p[f] \in Cells
      BY <1>1, <1>20, <2>1, <3>1 DEF OfExpired
    <3>3. p[f] \notin R
      <4> SUFFICES ASSUME p[f] \in R PROVE FALSE
        OBVIOUS
      <4>1. p[f] # b
        BY <2>3, <3>1
      <4>2. p[f] \in Entries /\ home[p[f]] = s /\ pos[b] < pos[p[f]] /\ pos[p[f]] <= pos[a]
        BY <1>5, <1>23, <4>1
      <4>3. pos[f] < pos[p[f]] /\ (b = f \/ pos[b] < pos[f]) /\ home[f] = s
        BY <3>1, <4>2 DEF SlotsWhole, Leads, Behind
      <4> QED
        BY <1>5, <2>1, <4>2, <4>3
    <3> QED
      BY <1>9, <1>10, <2>1, <3>1, <3>2, <3>3 DEF LeadsBack
  <2> QED
    BY <2>2, <2>3
<1>21. SlotsWhole(n2, p2, at, rank)
  <2>1. ASSUME NEW c \in Slots PROVE Leads(n2, p2, at, rank, c)
    BY <1>19, <1>23
  <2>2. ASSUME NEW f \in Entries, at[f] \in Slots PROVE Leads(n2, p2, at, rank, f)
    BY <1>10, <1>19, <2>2
  <2> QED
    BY <1>20, <2>1, <2>2 DEF SlotsWhole
<1>22. /\ e # NULL => home[e] = s /\ n2[e] = n[e]
       /\ \A f \in Entries : home[f] = NULL => p2[f] = p[f]
  BY <1>2, <1>6, <1>7, <1>9
<1> QED
  BY <1>6, <1>8, <1>11, <1>13, <1>17, <1>18, <1>21, <1>22 DEF CutOut

-----------------------------------------------------------------------------
(* The inductive invariant.                                                    *)

Expired(home) == {e \in Entries : home[e] = ListHead}

\* The slot that is walked, and the run of expired entries that is cut out next.
Cur == SlotIndex(time - 1)
Run(home, pos) ==
  IF pc = "scan" /\ first # NULL THEN Between(home, pos, Cur, first, last) ELSE {}

ToVisit == {SlotIndex(c) : c \in (IF pc = "scan" THEN time - 1 ELSE time) .. now - 1}

\* Exactly the armed entries are in lists.
Members(home) ==
  /\ armed = {e \in Entries : home[e] # NULL}
  /\ \A e \in Entries : home[e] = NULL => prev[e] = NULL

\* The list of expired entries is whole up to its tail.
Collected(n, p, home, pos, t) ==
  /\ t \in Cells /\ OfExpired(home, t)
  /\ t = ListHead => n[ListHead] = NULL
  /\ \A f \in Entries : ~ Behind(home, pos, t, f)
  /\ \A c \in Cells : OfExpired(home, c) /\ c # t => Leads(n, p, home, pos, c)

\* What fast_timer_timeouts_get has collected and counted, and what is to come.
Collecting(home, pos) ==
  /\ time <= now
  /\ pc = "slot" => first = NULL
  /\ Collected(next, prev, home, pos, tail)
  /\ due = Expired(home) \cup {e \in Entries : expires[e] < now /\ home[e] \in ToVisit}
  /\ count = Cardinality(Expired(home) \cup Run(home, pos))

\* Whatever of the slot is passed and not in the run is not expired.
Scanning(home, pos) ==
  /\ time > BaseTime
  /\ entry # NULL => home[entry] = Cur
  /\ \A e \in Entries \ Run(home, pos) :
       home[e] = Cur /\ (entry # NULL => pos[e] > pos[entry]) => expires[e] >= now
  /\ first # NULL =>
       /\ last # NULL /\ home[first] = Cur /\ home[last] = Cur
       /\ pos[last] <= pos[first] /\ next[last] = entry
       /\ \A e \in Run(home, pos) : expires[e] < now

\* deal_timeouts is at the first of the entries that are left.
Dealing(home, pos) ==
  /\ entry = NULL => Expired(home) = {}
  /\ entry # NULL => /\ home[entry] = ListHead
                     /\ \A f \in Expired(home) : f = entry \/ Behind(home, pos, entry, f)
  /\ \A e \in Expired(home) : Leads(next, prev, home, pos, e)
  /\ due = Expired(home)

\* An entry in a slot that is not just about to be looked at.
Awaits(home, pos, e) ==
  /\ home[e] \in Slots
  /\ ~ (/\ pc = "scan" /\ home[e] = Cur
        /\ e \in Run(home, pos) \/ (entry # NULL /\ pos[e] <= pos[entry]))

\* The slot of e comes up at v, less than a turn after e expires; or at once.
Timely(home, e, v) ==
  /\ v >= time /\ SlotIndex(v) = home[e]
  /\ v < expires[e] + SlotCount \/ (v = time /\ (pc \in {"idle", "deal"} \/ (pc = "slot" /\ time < now)))

Lists(home, pos) ==
  /\ Members(home) /\ Apart(home, pos) /\ SlotsWhole(next, prev, home, pos)
  /\ pc = "idle" => Expired(home) = {}
  /\ pc \in {"slot", "scan"} => Collecting(home, pos)
  /\ pc = "scan" => Scanning(home, pos)
  /\ pc = "deal" => Dealing(home, pos)
  /\ \A e \in Entries : Awaits(home, pos, e) => \E v \in Nat : Timely(home, e, v)

IInv == TypeOK /\ \E home \in Maps, pos \in Ranks : Lists(home, pos)

-----------------------------------------------------------------------------
(* The slot of a time.                                                          *)

\* Division with a remainder.
LEMMA Division ==
  ASSUME NEW x \in Nat, NEW m \in Nat \ {0}
  PROVE  x \div m \in Nat /\ x % m \in 0 .. m - 1 /\ x = m * (x \div m) + (x % m)
<1>1. x \div m \in Nat
  OBVIOUS
<1>2. x % m \in 0 .. m - 1
  OBVIOUS
<1>3. x = m * (x \div m) + (x % m)
  OBVIOUS
<1> QED
  BY <1>1, <1>2, <1>3

\* A slot comes up once in SlotCount units of time.
LEMMA SlotTimes ==
  /\ \A v \in Nat : v >= 1 => SlotIndex(v) \in Slots
  /\ \A v \in Nat : v >= 1 => SlotIndex(v + SlotCount) = SlotIndex(v)
<1>1. SlotCount \in Nat \ {0}
  BY TimerAssumption
<1>2. ASSUME NEW v \in Nat, v >= 1
      PROVE  SlotIndex(v) \in Slots
  <2>1. v - 1 \in Nat
    BY <1>2
  <2> QED
    BY <1>1, <2>1 DEF SlotIndex, Slots, BaseTime
<1>3. ASSUME NEW x \in Nat, NEW m \in Nat \ {0}
      PROVE  (x + m) % m = x % m
  <2>1. PICK a \in Nat, r \in 0 .. m - 1 : a = x \div m /\ r = x % m /\ x = m * a + r
    BY Division
  <2>2. PICK b \in Nat, q \in 0 .. m - 1 : b = (x + m) \div m /\ q = (x + m) % m /\ x + m = m * b + q
    <3>1. x + m \in Nat
      OBVIOUS
    <3> QED
      BY <3>1, Division
  <2>3. m * b + q = m * a + m + r
    BY <2>1, <2>2
  <2>4. CASE b > a + 1
    <3>1. PICK d \in Nat : b = a + 2 + d
      <4>1. b - (a + 2) \in Nat /\ b = a + 2 + (b - (a + 2))
        BY <2>4
      <4> QED
        BY <4>1
    <3>2. m * b = m * a + m + m + m * d /\ m * d >= 0 /\ m * a \in Int /\ m * d \in Int
      BY <3>1
    <3> QED
      BY <3>2, <2>3
  <2>5. CASE b < a + 1
    <3>1. PICK d \in Nat : a = b + d
      <4>1. a - b \in Nat /\ a = b + (a - b)
        BY <2>5
      <4> QED
        BY <4>1
    <3>2. m * a = m * b + m * d /\ m * d >= 0 /\ m * b \in Int /\ m * d \in Int
      BY <3>1
    <3> QED
      BY <3>2, <2>3
  <2>6. CASE b = a + 1
    <3>1. m * b = m * a + m /\ m * a \in Int
      BY <2>6
    <3> QED
      BY <3>1, <2>1, <2>2, <2>3
  <2> QED
    BY <2>4, <2>5, <2>6
<1>4. ASSUME NEW v \in Nat, v >= 1
      PROVE  SlotIndex(v + SlotCount) = SlotIndex(v)
  <2>1. v - 1 \in Nat /\ (v + SlotCount) - 1 = (v - 1) + SlotCount
    BY <1>1, <1>4
  <2> QED
    BY <1>1, <1>3, <2>1 DEF SlotIndex, BaseTime
<1> QED
  BY <1>2, <1>4

\* The slot of an added entry comes up in time.
LEMMA AddedTimely ==
  ASSUME NEW x \in Times, NEW t \in Times
  PROVE  /\ AddSlot(x, t) \in Slots
         /\ Latest(x, t) \in Nat /\ Latest(x, t) >= t /\ AddSlot(x, t) = SlotIndex(Latest(x, t))
         /\ Latest(x, t) < x + SlotCount \/ Latest(x, t) = t
         /\ x >= t => Latest(x, t) < x + SlotCount
BY SlotTimes, TimerAssumption DEF AddSlot, Latest, Times, BaseTime

-----------------------------------------------------------------------------
(* The actions, one by one.                                                     *)

\* A list of a slot is found by a walk from its head.
LEMMA SlotLinked ==
  ASSUME next \in Nexts, prev \in Prevs, NEW home \in Maps, NEW pos \in Ranks,
         SlotsWhole(next, prev, home, pos), NEW s \in Slots
  PROVE  Linked(s) = {e \in Entries : home[e] = s} /\ Walk(s)[N + 1] = NULL
<1>1. s \in Cells /\ \A f \in Entries : Behind(home, pos, s, f) <=> home[f] = s
  BY Kinds DEF Behind
<1>2. Leads(next, prev, home, pos, s)
  BY DEF SlotsWhole
<1>3. \A f \in Entries : Behind(home, pos, s, f) => Leads(next, prev, home, pos, f)
  BY <1>1 DEF SlotsWhole
<1> QED
  BY <1>1, <1>2, <1>3, WalkFinds

\* The pointers as the type invariant has them.
LEMMA HeapTypes == TypeOK => next \in Nexts /\ prev \in Prevs
BY DEF TypeOK, Nexts, Prevs

\* What is to be shown of a step between calls.
LEMMA IdleLists ==
  ASSUME pc' = "idle", NEW h \in Maps, NEW r \in Ranks,
         Members(h)', Apart(h, r), SlotsWhole(next', prev', h, r),
         \A e \in Entries : h[e] # ListHead,
         \A e \in Entries : h[e] \in Slots => \E v \in Nat : Timely(h, e, v)'
  PROVE  Lists(h, r)'
<1>1. Apart(h, r)' /\ SlotsWhole(next, prev, h, r)'
  BY DEF Apart, SlotsWhole, Leads, LeadsBack, Behind
<1>2. Expired(h)' = {}
  BY DEF Expired
<1>3. ASSUME NEW e \in Entries, Awaits(h, r, e)'
      PROVE  \E v \in Nat : Timely(h, e, v)'
  BY <1>3 DEF Awaits
<1> QED
  BY <1>1, <1>2, <1>3 DEF Lists

\* Two maps for which Lists holds are all it takes.
LEMMA Exhibit ==
  ASSUME TypeOK', NEW h \in Maps, NEW r \in Ranks, Lists(h, r)'
  PROVE  IInv'
<1>1. (\E home \in Maps, pos \in Ranks : Lists(home, pos))'
  <2>1. \E home \in Maps, pos \in Ranks : Lists(home, pos)'
    BY Zenon
  <2> QED
    BY <2>1 DEF Maps, Ranks, Homes, Slots
<1> QED
  BY <1>1 DEF IInv

\* At first all lists are empty.
LEMMA Starts == Init => IInv
<1> SUFFICES ASSUME Init PROVE IInv
  OBVIOUS
<1> USE Kinds
<1> DEFINE h == [e \in Entries |-> NULL]
           r == [e \in Entries |-> 0]
<1>1. TypeOK
  <2>1. BaseTime \in Times /\ 0 \in 0 .. Cardinality(Entries)
    BY NType, TimerAssumption DEF Times, BaseTime, N
  <2> QED
    BY <2>1 DEF Init, TypeOK
<1>2. h \in Maps /\ r \in Ranks
  BY DEF Maps, Ranks
<1>3. Members(h)
  BY DEF Members, Init
<1>4. Apart(h, r) /\ SlotsWhole(next, prev, h, r)
  BY DEF Apart, SlotsWhole, Leads, Behind, Init
<1>5. Expired(h) = {}
  BY DEF Expired
<1>6. \A e \in Entries : ~ Awaits(h, r, e)
  BY DEF Awaits
<1>7. Lists(h, r)
  BY <1>3, <1>4, <1>5, <1>6 DEF Lists, Init
<1> QED
  BY <1>1, <1>2, <1>7 DEF IInv

\* fast_timer_add: the entry goes in front of the slot of its time.
LEMMA AddKeeps ==
  ASSUME TypeOK, NEW home \in Maps, NEW pos \in Ranks, Lists(home, pos),
         NEW e \in Entries, NEW x \in Times, FastTimerAdd(e, x)
  PROVE  IInv'
<1>0. PICK s : s = AddSlot(x, time)
  OBVIOUS
<1> DEFINE h == [home EXCEPT ![e] = s]
<1> USE Kinds
<1>1. /\ pc = "idle" /\ pc' = "idle" /\ home[e] = NULL /\ time' = time
      /\ expires' = [expires EXCEPT ![e] = x] /\ armed' = armed \cup {e}
      /\ rehash' = [rehash EXCEPT ![e] = FALSE]
      /\ UNCHANGED << now, entry, first, last, tail, count, due >>
      /\ << next', prev' >> = Link(<< next, prev >>, e, s)
  BY <1>0 DEF FastTimerAdd, Add, SetHeap, Link, heap, locals, Lists, Members
<1>2. time \in Times /\ s \in Slots
  BY <1>0, AddedTimely DEF TypeOK
<1>3. next \in Nexts /\ prev \in Prevs /\ Apart(home, pos) /\ SlotsWhole(next, prev, home, pos)
  BY HeapTypes DEF Lists
<1>h. h = [home EXCEPT ![e] = s]
  OBVIOUS
<1> HIDE DEF h
<1>4. /\ next' \in Nexts /\ prev' \in Prevs /\ h \in Maps /\ prev'[e] # NULL
      /\ \A f \in Entries : home[f] = NULL /\ f # e => prev'[f] = prev[f]
      /\ \E rank \in Ranks : Apart(h, rank) /\ SlotsWhole(next', prev', h, rank)
  <2>1. PutInFront(next, prev, home, pos, e, s, next', prev', h)
    BY <1>1, <1>2, <1>3, <1>h, LinkKeeps
  <2> QED
    BY <2>1 DEF PutInFront
<1>5. PICK r \in Ranks : Apart(h, r) /\ SlotsWhole(next', prev', h, r)
  BY <1>4
<1>6. h[e] = s /\ \A f \in Entries \ {e} : h[f] = home[f]
  BY <1>h DEF Maps
<1>7. Members(h)'
  BY <1>1, <1>2, <1>4, <1>6 DEF Members, Lists
<1>8. \A f \in Entries : h[f] # ListHead
  BY <1>1, <1>2, <1>6 DEF Lists, Expired
<1>9. TypeOK'
  BY <1>1, <1>4, <1>2 DEF TypeOK, Nexts, Prevs
<1>10. ASSUME NEW f \in Entries, h[f] \in Slots
       PROVE  \E v \in Nat : Timely(h, f, v)'
  <2>1. CASE f = e
    <3>1. expires'[e] = x
      BY <1>1 DEF TypeOK
    <3> QED
      BY <1>0, <1>1, <1>2, <1>6, <2>1, <3>1, AddedTimely DEF Timely
  <2>2. CASE f # e
    <3>1. expires'[f] = expires[f] /\ h[f] = home[f] /\ Awaits(home, pos, f)
      BY <1>1, <1>6, <1>10, <2>2 DEF TypeOK, Awaits
    <3> QED
      BY <1>1, <3>1 DEF Lists, Timely
  <2> QED
    BY <2>1, <2>2
<1>11. Lists(h, r)'
  BY <1>1, <1>4, <1>5, <1>7, <1>8, <1>10, IdleLists
<1> QED
  BY <1>4, <1>5, <1>9, <1>11, Exhibit

\* fast_timer_remove: an entry with a `prev' is in a slot, and leaves it.
LEMMA RemoveKeeps ==
  ASSUME TypeOK, NEW home \in Maps, NEW pos \in Ranks, Lists(home, pos),
         NEW e \in Entries, FastTimerRemove(e)
  PROVE  IInv'
<1> DEFINE h == [home EXCEPT ![e] = NULL]
<1> USE Kinds
<1>1. /\ pc = "idle" /\ pc' = "idle" /\ prev[e] # NULL /\ time' = time
      /\ armed' = armed \ {e}
      /\ UNCHANGED << expires, rehash, now, entry, first, last, tail, count, due >>
      /\ << next', prev' >> = Unlink(<< next, prev >>, e)
  <2>1. \A a, b : << next, prev >>[1] = next /\ << next, prev >>[2] = prev
    OBVIOUS
  <2> QED
    BY DEF FastTimerRemove, SetHeap, Unlink, heap, locals
<1>2. home[e] \in Slots
  BY <1>1 DEF Lists, Members, Maps, Expired, Homes
<1>3. next \in Nexts /\ prev \in Prevs /\ Apart(home, pos) /\ SlotsWhole(next, prev, home, pos)
  BY HeapTypes DEF Lists
<1>4. /\ next' \in Nexts /\ prev' \in Prevs /\ h \in Maps /\ prev'[e] = NULL
      /\ \A f \in Entries : home[f] = NULL => prev'[f] = prev[f]
      /\ Apart(h, pos) /\ SlotsWhole(next', prev', h, pos)
  <2>1. TakenOut(next, prev, home, pos, e, next', prev', h)
    BY <1>1, <1>2, <1>3, UnlinkKeeps
  <2> QED
    BY <2>1 DEF TakenOut
<1>5. h[e] = NULL /\ \A f \in Entries \ {e} : h[f] = home[f]
  BY DEF Maps
<1>6. Members(h)'
  BY <1>1, <1>4, <1>5 DEF Members, Lists
<1>7. \A f \in Entries : h[f] # ListHead
  BY <1>1, <1>5 DEF Lists, Expired
<1>8. TypeOK'
  BY <1>1, <1>4 DEF TypeOK, Nexts, Prevs
<1>9. ASSUME NEW f \in Entries, h[f] \in Slots
      PROVE  \E v \in Nat : Timely(h, f, v)'
  <2>1. h[f] = home[f] /\ Awaits(home, pos, f)
    BY <1>1, <1>5, <1>9 DEF Awaits
  <2> QED
    BY <1>1, <2>1 DEF Lists, Timely
<1>10. Lists(h, pos)'
  BY <1>1, <1>4, <1>6, <1>7, <1>9, IdleLists
<1> QED
  BY <1>4, <1>8, <1>10, Exhibit

\* fast_timer_modify to an earlier time: the entry leaves its slot for that of
\* the new time.
LEMMA EarlierKeeps ==
  ASSUME TypeOK, NEW home \in Maps, NEW pos \in Ranks, Lists(home, pos),
         NEW e \in Entries, NEW x \in Times, ModifyEarlier(e, x)
  PROVE  IInv'
<1>0. PICK s : s = AddSlot(x, time)
  OBVIOUS
<1> DEFINE g == [home EXCEPT ![e] = NULL]
           h == [g EXCEPT ![e] = s]
           n1 == Unlink(<< next, prev >>, e)[1]
           p1 == Unlink(<< next, prev >>, e)[2]
<1> USE Kinds
<1>1. /\ pc = "idle" /\ pc' = "idle" /\ home[e] # NULL /\ time' = time
      /\ expires' = [expires EXCEPT ![e] = x] /\ armed' = armed
      /\ rehash' = [rehash EXCEPT ![e] = FALSE]
      /\ UNCHANGED << now, entry, first, last, tail, count, due >>
  BY DEF ModifyEarlier, locals, Lists, Members
<1>2. << n1, p1 >> = Unlink(<< next, prev >>, e)
  BY DEF Unlink
<1>3. << next', prev' >> = Link(<< n1, p1 >>, e, s)
  BY <1>0, <1>2 DEF ModifyEarlier, SetHeap, Link, heap
<1>4. home[e] \in Slots
  BY <1>1 DEF Lists, Maps, Expired, Homes
<1>5. time \in Times /\ s \in Slots
  BY <1>0, AddedTimely DEF TypeOK
<1>6. next \in Nexts /\ prev \in Prevs /\ Apart(home, pos) /\ SlotsWhole(next, prev, home, pos)
  BY HeapTypes DEF Lists
<1> HIDE DEF n1, p1
<1>7. /\ n1 \in Nexts /\ p1 \in Prevs /\ g \in Maps
      /\ \A f \in Entries : home[f] = NULL => p1[f] = prev[f]
      /\ Apart(g, pos) /\ SlotsWhole(n1, p1, g, pos)
  <2>1. TakenOut(next, prev, home, pos, e, n1, p1, g)
    BY <1>2, <1>4, <1>6, UnlinkKeeps
  <2> QED
    BY <2>1 DEF TakenOut
<1>8. g[e] = NULL /\ \A f \in Entries \ {e} : g[f] = home[f]
  BY DEF Maps
<1>h. h = [g EXCEPT ![e] = s]
  OBVIOUS
<1> HIDE DEF g, h
<1>9. /\ next' \in Nexts /\ prev' \in Prevs /\ h \in Maps /\ prev'[e] # NULL
      /\ \A f \in Entries : g[f] = NULL /\ f # e => prev'[f] = p1[f]
      /\ \E rank \in Ranks : Apart(h, rank) /\ SlotsWhole(next', prev', h, rank)
  <2>1. PutInFront(n1, p1, g, pos, e, s, next', prev', h)
    BY <1>3, <1>5, <1>7, <1>8, <1>h, LinkKeeps
  <2> QED
    BY <2>1 DEF PutInFront
<1>10. PICK r \in Ranks : Apart(h, r) /\ SlotsWhole(next', prev', h, r)
  BY <1>9
<1>11. h[e] = s /\ \A f \in Entries \ {e} : h[f] = home[f]
  BY <1>7, <1>8, <1>h DEF Maps
<1>12. Members(h)'
  BY <1>1, <1>5, <1>7, <1>8, <1>9, <1>11 DEF Members, Lists
<1>13. \A f \in Entries : h[f] # ListHead
  BY <1>1, <1>5, <1>11 DEF Lists, Expired
<1>14. TypeOK'
  BY <1>1, <1>5, <1>9 DEF TypeOK, Nexts, Prevs
<1>15. ASSUME NEW f \in Entries, h[f] \in Slots
       PROVE  \E v \in Nat : Timely(h, f, v)'
  <2>1. CASE f = e
    <3>1. expires'[e] = x
      BY <1>1 DEF TypeOK
    <3> QED
      BY <1>0, <1>1, <1>5, <1>11, <2>1, <3>1, AddedTimely DEF Timely
  <2>2. CASE f # e
    <3>1. expires'[f] = expires[f] /\ h[f] = home[f] /\ Awaits(home, pos, f)
      BY <1>1, <1>11, <1>15, <2>2 DEF TypeOK, Awaits
    <3> QED
      BY <1>1, <3>1 DEF Lists, Timely
  <2> QED
    BY <2>1, <2>2
<1>16. Lists(h, r)'
  BY <1>1, <1>9, <1>10, <1>12, <1>13, <1>15, IdleLists
<1> QED
  BY <1>9, <1>10, <1>14, <1>16, Exhibit

\* fast_timer_modify to a later time: the entry stays, and its slot comes up
\* no later than before.
LEMMA LaterKeeps ==
  ASSUME TypeOK, NEW home \in Maps, NEW pos \in Ranks, Lists(home, pos),
         NEW e \in Entries, NEW x \in Times, ModifyLater(e, x)
  PROVE  IInv'
<1> USE Kinds
<1>1. /\ pc = "idle" /\ pc' = "idle" /\ time' = time /\ x > expires[e]
      /\ expires' = [expires EXCEPT ![e] = x] /\ armed' = armed
      /\ rehash' \in [Entries -> BOOLEAN] /\ next' = next /\ prev' = prev
      /\ UNCHANGED << now, entry, first, last, tail, count, due >>
  BY DEF ModifyLater, locals, heap, TypeOK
<1>2. Members(home)' /\ Apart(home, pos) /\ SlotsWhole(next', prev', home, pos) /\ \A f \in Entries : home[f] # ListHead
  BY <1>1 DEF Lists, Members, Expired
<1>3. TypeOK'
  BY <1>1 DEF TypeOK
<1>4. ASSUME NEW f \in Entries, home[f] \in Slots
      PROVE  \E v \in Nat : Timely(home, f, v)'
  <2>1. expires[f] \in Nat /\ expires'[f] \in Nat /\ expires'[f] >= expires[f] /\ SlotCount \in Nat
    BY <1>1, TimerAssumption DEF TypeOK, Times, BaseTime
  <2>2. PICK v \in Nat : Timely(home, f, v)
    BY <1>1, <1>4 DEF Lists, Awaits
  <2>3. Timely(home, f, v)'
    BY <1>1, <2>1, <2>2 DEF Timely
  <2> QED
    BY <2>3
<1>5. Lists(home, pos)'
  BY <1>1, <1>2, <1>4, IdleLists
<1> QED
  BY <1>3, <1>5, Exhibit

\* A set of entries can be counted.
LEMMA Counted ==
  ASSUME NEW S \in SUBSET Entries
  PROVE  IsFiniteSet(S) /\ Cardinality(S) \in 0 .. Cardinality(Entries)
<1>1. IsFiniteSet(S) /\ Cardinality(S) <= Cardinality(Entries)
  BY TimerAssumption, FS_Subset
<1>2. Cardinality(S) \in Nat /\ Cardinality(Entries) \in Nat
  BY <1>1, TimerAssumption, FS_CardinalityType
<1> QED
  BY <1>1, <1>2

\* fast_timer_timeouts_get starts with an empty list of expired entries.
LEMMA TimeoutsGetKeeps ==
  ASSUME TypeOK, NEW home \in Maps, NEW pos \in Ranks, Lists(home, pos),
         NEW t \in Times, TimeoutsGet(t)
  PROVE  IInv'
<1> USE Kinds
<1>1. /\ pc = "idle" /\ pc' = "slot" /\ time < t /\ now' = t /\ time' = time
      /\ next' = [next EXCEPT ![ListHead] = NULL] /\ prev' = [prev EXCEPT ![ListHead] = NULL]
      /\ first' = NULL /\ last' = NULL /\ tail' = ListHead /\ count' = 0
      /\ due' = {e \in armed : expires[e] < t /\ \E c \in time .. t - 1 : e \in Linked(SlotIndex(c))}
      /\ expires' = expires /\ rehash' = rehash /\ entry' = entry /\ armed' = armed
  BY DEF TimeoutsGet
<1>2. /\ next \in Nexts /\ prev \in Prevs /\ Members(home) /\ Apart(home, pos)
      /\ SlotsWhole(next, prev, home, pos) /\ time \in Nat /\ time >= 1 /\ t \in Nat
  BY HeapTypes DEF Lists, TypeOK, Times, BaseTime
<1>3. /\ next' \in Nexts /\ prev' \in Prevs
      /\ next'[ListHead] = NULL
      /\ \A c \in Entries \cup Slots : next'[c] = next[c] /\ prev'[c] = prev[c]
  BY <1>1, <1>2 DEF Nexts, Prevs
<1>4. \A e \in Entries : home[e] # ListHead /\ (home[e] # NULL => home[e] \in Slots)
  BY <1>1 DEF Lists, Expired, Maps, Homes
<1>5. SlotsWhole(next', prev', home, pos)
  <2>1. ASSUME NEW c \in Entries \cup Slots, Leads(next, prev, home, pos, c)
        PROVE  Leads(next', prev', home, pos, c)
    <3>1. next'[c] = next[c] /\ (next[c] # NULL => next[c] \in Entries)
      BY <1>2, <1>3 DEF Nexts
    <3>2. next[c] # NULL => prev'[next[c]] = prev[next[c]]
      BY <1>3, <3>1
    <3> QED
      BY <2>1, <3>1, <3>2 DEF Leads
  <2>2. ASSUME NEW e \in Entries, home[e] \in Slots, LeadsBack(next, prev, home, e)
        PROVE  LeadsBack(next', prev', home, e)
    BY <1>3, <2>2 DEF LeadsBack
  <2> QED
    BY <1>2, <2>1, <2>2 DEF SlotsWhole
<1>6. Members(home)'
  BY <1>1, <1>2, <1>3 DEF Members
<1>7. \A c \in time .. t - 1 : SlotIndex(c) \in Slots /\ Linked(SlotIndex(c)) = {e \in Entries : home[e] = SlotIndex(c)}
  <2> SUFFICES ASSUME NEW c \in time .. t - 1
               PROVE  SlotIndex(c) \in Slots /\ Linked(SlotIndex(c)) = {e \in Entries : home[e] = SlotIndex(c)}
    OBVIOUS
  <2>1. SlotIndex(c) \in Slots
    BY <1>2, SlotTimes
  <2> QED
    BY <1>2, <2>1, SlotLinked
<1>8. due' = {e \in Entries : expires[e] < t /\ home[e] \in {SlotIndex(c) : c \in time .. t - 1}}
  <2>1. \A e \in Entries : e \in armed <=> home[e] # NULL
    BY <1>2 DEF Members
  <2>2. armed \subseteq Entries
    BY DEF TypeOK
  <2> QED
    BY <1>1, <1>7, <2>1, <2>2
<1>9. Expired(home)' = {} /\ Run(home, pos)' = {} /\ ToVisit' = {SlotIndex(c) : c \in time .. t - 1}
  <2>1. Expired(home)' = {} /\ Run(home, pos)' = {}
    BY <1>1, <1>4 DEF Expired, Run
  <2>2. ToVisit' = {SlotIndex(c) : c \in time .. t - 1}
    BY <1>1 DEF ToVisit, SlotIndex
  <2> QED
    BY <2>1, <2>2
<1>10. Collected(next', prev', home, pos, ListHead)
  BY <1>3, <1>4 DEF Collected, OfExpired, Behind
<1>11. Collecting(home, pos)'
  <2>1. Collected(next, prev, home, pos, tail)'
    BY <1>1, <1>10 DEF Collected, Leads, OfExpired, Behind
  <2>2. count' = Cardinality(Expired(home)' \cup Run(home, pos)')
    BY <1>1, <1>9, FS_EmptySet
  <2>3. due' = Expired(home)' \cup {e \in Entries : expires'[e] < now' /\ home[e] \in ToVisit'}
    BY <1>1, <1>8, <1>9
  <2> QED
    BY <1>1, <1>2, <2>1, <2>2, <2>3 DEF Collecting
<1>12. ASSUME NEW e \in Entries, Awaits(home, pos, e)'
       PROVE  \E v \in Nat : Timely(home, e, v)'
  <2>1. Awaits(home, pos, e)
    BY <1>1, <1>12 DEF Awaits
  <2> QED
    BY <1>1, <2>1 DEF Lists, Timely
<1>13. TypeOK'
  <2>1. due' \subseteq Entries
    BY <1>8
  <2>2. 0 \in 0 .. Cardinality(Entries)
    BY NType DEF N
  <2> QED
    BY <1>1, <1>3, <2>1, <2>2 DEF TypeOK, Nexts, Prevs
<1>14. Lists(home, pos)'
  <2>1. Apart(home, pos)' /\ SlotsWhole(next, prev, home, pos)'
    BY <1>2, <1>5 DEF Apart, SlotsWhole, Leads, LeadsBack, Behind
  <2> QED
    BY <1>1, <1>6, <1>11, <1>12, <2>1 DEF Lists
<1> QED
  BY <1>13, <1>14, Exhibit

\* The walk starts at the first entry of the next slot.
LEMMA VisitKeeps ==
  ASSUME TypeOK, NEW home \in Maps, NEW pos \in Ranks, Lists(home, pos), VisitSlot
  PROVE  IInv'
<1> USE Kinds
<1>1. /\ pc = "slot" /\ pc' = "scan" /\ time < now /\ time' = time + 1
      /\ entry' = next[SlotIndex(time)]
      /\ next' = next /\ prev' = prev /\ expires' = expires /\ rehash' = rehash
      /\ now' = now /\ first' = first /\ last' = last /\ tail' = tail /\ count' = count
      /\ armed' = armed /\ due' = due
  BY DEF VisitSlot, heap
<1>2. /\ next \in Nexts /\ prev \in Prevs /\ Members(home) /\ Apart(home, pos)
      /\ SlotsWhole(next, prev, home, pos) /\ time \in Nat /\ time >= 1 /\ now \in Nat
      /\ Collecting(home, pos) /\ first = NULL
  BY <1>1, HeapTypes DEF Lists, TypeOK, Times, BaseTime, Collecting
<1>3. PICK s \in Slots : s = SlotIndex(time)
  BY <1>2, SlotTimes
<1>4. Cur' = s
  <2>1. time' - 1 = time
    BY <1>1, <1>2
  <2> QED
    BY <1>3, <2>1 DEF Cur, SlotIndex
<1>5. /\ entry' \in Entries \cup {NULL}
      /\ entry' # NULL => home[entry'] = s
      /\ \A f \in Entries : home[f] = s => entry' # NULL /\ (f = entry' \/ pos[f] < pos[entry'])
  BY <1>1, <1>2, <1>3 DEF SlotsWhole, Leads, Behind, Nexts
<1>6. Run(home, pos) = {} /\ Run(home, pos)' = {} /\ Expired(home)' = Expired(home) /\ ToVisit' = ToVisit
  <2>1. Run(home, pos) = {} /\ Run(home, pos)' = {} /\ Expired(home)' = Expired(home)
    BY <1>1, <1>2 DEF Run, Expired
  <2>2. time' - 1 = time
    BY <1>1, <1>2
  <2>3. ToVisit' = ToVisit
    BY <1>1, <2>2 DEF ToVisit, SlotIndex
  <2> QED
    BY <2>1, <2>3
<1>7. Collecting(home, pos)'
  <2>1. Collected(next, prev, home, pos, tail)'
    BY <1>1, <1>2 DEF Collecting, Collected, Leads, OfExpired, Behind
  <2> QED
    BY <1>1, <1>2, <1>6, <2>1 DEF Collecting
<1>8. Scanning(home, pos)'
  <2>1. ASSUME NEW e \in Entries, home[e] = s, entry' # NULL => pos[e] > pos[entry']
        PROVE  FALSE
    BY <1>5, <2>1 DEF Ranks
  <2> QED
    BY <1>1, <1>2, <1>4, <1>5, <2>1 DEF Scanning, BaseTime
<1>9. ASSUME NEW e \in Entries, Awaits(home, pos, e)'
      PROVE  \E v \in Nat : Timely(home, e, v)'
  <2>1. home[e] \in Slots /\ home[e] # s
    BY <1>1, <1>4, <1>5, <1>9 DEF Awaits, Ranks
  <2>2. PICK v \in Nat : Timely(home, e, v)
    BY <1>1, <2>1 DEF Awaits, Lists
  <2>3. v >= time /\ SlotIndex(v) = home[e] /\ v # time
    BY <1>3, <2>1, <2>2 DEF Timely
  <2>4. v >= time + 1 /\ v < expires[e] + SlotCount
    BY <1>2, <2>2, <2>3 DEF Timely
  <2>5. Timely(home, e, v)'
    BY <1>1, <2>3, <2>4 DEF Timely, SlotIndex
  <2> QED
    BY <2>5
<1>10. TypeOK'
  <2>1. time' \in Times
    <3>1. now <= MaxTime /\ MaxTime \in Nat
      BY TimerAssumption DEF TypeOK, Times, BaseTime
    <3> QED
      BY <1>1, <1>2, <3>1 DEF Times, BaseTime
  <2> QED
    BY <1>1, <1>5, <2>1 DEF TypeOK
<1>11. Lists(home, pos)'
  <2>1. Members(home)' /\ Apart(home, pos)' /\ SlotsWhole(next, prev, home, pos)'
    BY <1>1, <1>2 DEF Members, Apart, SlotsWhole, Leads, LeadsBack, Behind
  <2> QED
    BY <1>1, <1>7, <1>8, <1>9, <2>1 DEF Lists
<1> QED
  BY <1>10, <1>11, Exhibit

\* An expired entry is counted and becomes the end of the run.
LEMMA ScanExpiredKeeps ==
  ASSUME TypeOK, NEW home \in Maps, NEW pos \in Ranks, Lists(home, pos), ScanExpired
  PROVE  IInv'
<1> USE Kinds
<1>1. /\ pc = "scan" /\ pc' = "scan" /\ entry # NULL /\ expires[entry] < now
      /\ count' = count + 1 /\ first' = (IF first = NULL THEN entry ELSE first)
      /\ last' = entry /\ entry' = next[entry] /\ time' = time
      /\ next' = next /\ prev' = prev /\ expires' = expires /\ rehash' = rehash
      /\ now' = now /\ tail' = tail /\ armed' = armed /\ due' = due
  BY DEF ScanExpired, heap
<1>2. /\ next \in Nexts /\ prev \in Prevs /\ Members(home) /\ Apart(home, pos)
      /\ SlotsWhole(next, prev, home, pos) /\ time \in Nat /\ time >= 1 /\ now \in Nat
      /\ Collecting(home, pos) /\ Scanning(home, pos) /\ entry \in Entries
  BY <1>1, HeapTypes DEF Lists, TypeOK, Times, BaseTime
<1>3. PICK s \in Slots : s = Cur
  <2>1. time - 1 \in Nat /\ time - 1 >= 1
    BY <1>2 DEF Scanning, BaseTime
  <2> QED
    BY <2>1, SlotTimes DEF Cur
<1>4. Cur' = s
  BY <1>1, <1>3 DEF Cur, SlotIndex
<1>5. home[entry] = s /\ Leads(next, prev, home, pos, entry)
  BY <1>1, <1>2, <1>3 DEF Scanning, SlotsWhole
<1>6. /\ next[entry] # NULL => next[entry] \in Entries /\ home[next[entry]] = s /\ pos[next[entry]] < pos[entry]
      /\ \A f \in Entries : home[f] = s /\ pos[f] < pos[entry] =>
           next[entry] # NULL /\ (f = next[entry] \/ pos[f] < pos[next[entry]])
  BY <1>2, <1>5 DEF Leads, Behind
<1>7. \A f \in Entries : home[f] = s /\ pos[f] = pos[entry] => f = entry
  BY <1>2, <1>5 DEF Apart
<1>8. \A f \in Entries : pos[f] \in Int
  BY DEF Ranks
<1>10. /\ Run(home, pos)' = Run(home, pos) \cup {entry} /\ entry \notin Run(home, pos)
       /\ first' \in Entries /\ home[first'] = s /\ pos[entry] <= pos[first']
  <2>1. CASE first = NULL
    <3>1. first' = entry
      BY <1>1, <2>1
    <3>2. Run(home, pos) = {} /\ Run(home, pos)' = Between(home, pos, s, entry, entry)
      BY <1>1, <1>4, <2>1 DEF Run, Between
    <3>3. Between(home, pos, s, entry, entry) = {entry}
      BY <1>2, <1>5, <1>7, <1>8 DEF Between
    <3> QED
      BY <1>2, <1>5, <1>8, <3>1, <3>2, <3>3
  <2>2. CASE first # NULL
    <3>1. /\ first \in Entries /\ last \in Entries /\ home[first] = s /\ home[last] = s
          /\ pos[last] <= pos[first] /\ next[last] = entry
      BY <1>2, <1>3, <2>2 DEF Scanning, TypeOK
    <3>2. Leads(next, prev, home, pos, last)
      BY <1>2, <3>1 DEF SlotsWhole
    <3>3. /\ pos[entry] < pos[last]
          /\ \A f \in Entries : home[f] = s /\ pos[f] < pos[last] => f = entry \/ pos[f] < pos[entry]
      BY <1>1, <3>1, <3>2 DEF Leads, Behind
    <3>4. Run(home, pos) = Between(home, pos, s, first, last)
      BY <1>1, <1>3, <2>2 DEF Run
    <3>5. Run(home, pos)' = Between(home, pos, s, first, entry)
      BY <1>1, <1>4, <2>2 DEF Run, Between
    <3>6. \A f \in Entries : home[f] = s =>
            (pos[entry] <= pos[f] <=> pos[last] <= pos[f] \/ f = entry)
      BY <1>5, <1>7, <1>8, <1>2, <3>1, <3>3
    <3>7. entry \notin Between(home, pos, s, first, last)
      BY <1>8, <1>2, <3>1, <3>3 DEF Between
    <3>8. pos[entry] <= pos[first]
      BY <1>8, <1>2, <3>1, <3>3
    <3>9. Between(home, pos, s, first, entry) = Between(home, pos, s, first, last) \cup {entry}
      <4>1. ASSUME NEW f \in Entries
            PROVE  f \in Between(home, pos, s, first, entry) <=> f \in Between(home, pos, s, first, last) \/ f = entry
        BY <1>5, <3>6, <3>8 DEF Between
      <4>2. Between(home, pos, s, first, entry) \subseteq Entries /\ Between(home, pos, s, first, last) \subseteq Entries
        BY DEF Between
      <4> QED
        BY <1>2, <4>1, <4>2
    <3> QED
      BY <1>1, <2>2, <3>1, <3>4, <3>5, <3>7, <3>8, <3>9
  <2> QED
    BY <2>1, <2>2
<1>11. Run(home, pos) \subseteq Entries
  BY DEF Run, Between
<1>12. count' = Cardinality(Expired(home)' \cup Run(home, pos)') /\ count' \in 0 .. Cardinality(Entries)
  <2>1. Expired(home)' = Expired(home) /\ entry \notin Expired(home) /\ Expired(home) \subseteq Entries
    BY <1>3, <1>5 DEF Expired
  <2>2. entry \notin Expired(home) \cup Run(home, pos) /\ IsFiniteSet(Expired(home) \cup Run(home, pos))
    BY <1>10, <1>11, <2>1, Counted
  <2>3. Cardinality((Expired(home) \cup Run(home, pos)) \cup {entry}) = Cardinality(Expired(home) \cup Run(home, pos)) + 1
    BY <2>2, FS_AddElement
  <2>4. (Expired(home) \cup Run(home, pos)) \cup {entry} = Expired(home)' \cup Run(home, pos)'
    BY <1>10, <2>1
  <2>5. (Expired(home) \cup Run(home, pos)) \cup {entry} \in SUBSET Entries
    BY <1>2, <1>11, <2>1
  <2>6. Cardinality((Expired(home) \cup Run(home, pos)) \cup {entry}) \in 0 .. Cardinality(Entries)
    BY <2>5, Counted
  <2>7. count' = Cardinality((Expired(home) \cup Run(home, pos)) \cup {entry})
    BY <1>1, <1>2, <2>3 DEF Collecting
  <2> QED
    BY <2>4, <2>6, <2>7
<1>13. Collecting(home, pos)'
  <2>1. Collected(next, prev, home, pos, tail)'
    BY <1>1, <1>2 DEF Collecting, Collected, Leads, OfExpired, Behind
  <2>2. ToVisit' = ToVisit /\ Expired(home)' = Expired(home)
    BY <1>1 DEF ToVisit, SlotIndex, Expired
  <2>3. due' = Expired(home)' \cup {e \in Entries : expires'[e] < now' /\ home[e] \in ToVisit'}
    BY <1>1, <1>2, <2>2 DEF Collecting
  <2> QED
    BY <1>1, <1>2, <1>12, <2>1, <2>3 DEF Collecting
<1>14. ASSUME NEW e \in Entries, home[e] = s, e \notin Run(home, pos)'
       PROVE  /\ e # entry /\ e \notin Run(home, pos)
              /\ (entry' # NULL => pos[e] > pos[entry']) => pos[e] > pos[entry]
  <2>1. e # entry /\ e \notin Run(home, pos) /\ pos[e] # pos[entry]
    BY <1>7, <1>10, <1>14
  <2>2. ASSUME pos[e] < pos[entry]
        PROVE  entry' # NULL /\ ~ (pos[e] > pos[entry'])
    BY <1>1, <1>6, <1>8, <1>14, <2>2
  <2> QED
    BY <1>2, <1>8, <2>1, <2>2
<1>15. Scanning(home, pos)'
  <2>1. entry' # NULL => home[entry'] = Cur'
    BY <1>1, <1>4, <1>6
  <2>2. ASSUME NEW e \in Entries \ Run(home, pos)', home[e] = s, entry' # NULL => pos[e] > pos[entry']
        PROVE  expires'[e] >= now'
    <3>1. e \notin Run(home, pos) /\ pos[e] > pos[entry]
      BY <1>14, <2>2
    <3> QED
      BY <1>1, <1>2, <1>3, <2>2, <3>1 DEF Scanning
  <2>3. ASSUME NEW e \in Run(home, pos)'
        PROVE  expires'[e] < now'
    BY <1>1, <1>2, <1>10, <2>3 DEF Scanning, Run
  <2> QED
    BY <1>1, <1>2, <1>4, <1>5, <1>10, <2>1, <2>2, <2>3 DEF Scanning
<1>16. ASSUME NEW e \in Entries, Awaits(home, pos, e)'
       PROVE  \E v \in Nat : Timely(home, e, v)'
  <2>1. /\ home[e] \in Slots
        /\ home[e] = s => e \notin Run(home, pos)' /\ (entry' # NULL => ~ (pos[e] <= pos[entry']))
    BY <1>1, <1>4, <1>16 DEF Awaits
  <2>2. home[e] = s => e \notin Run(home, pos) /\ ~ (pos[e] <= pos[entry])
    BY <1>1, <1>2, <1>6, <1>8, <1>14, <2>1
  <2>3. Awaits(home, pos, e)
    BY <1>3, <2>1, <2>2 DEF Awaits
  <2> QED
    BY <1>1, <2>3 DEF Lists, Timely, SlotIndex
<1>17. TypeOK'
  BY <1>1, <1>2, <1>10, <1>12 DEF TypeOK, Nexts
<1>18. Lists(home, pos)'
  <2>1. Members(home)' /\ Apart(home, pos)' /\ SlotsWhole(next, prev, home, pos)'
    BY <1>1, <1>2 DEF Members, Apart, SlotsWhole, Leads, LeadsBack, Behind
  <2> QED
    BY <1>1, <1>13, <1>15, <1>16, <2>1 DEF Lists
<1> QED
  BY <1>17, <1>18, Exhibit

\* The list of expired entries is closed: from its head on it is whole.
LEMMA EndTimeoutsKeeps ==
  ASSUME TypeOK, NEW home \in Maps, NEW pos \in Ranks, Lists(home, pos), EndTimeouts
  PROVE  IInv'
<1> USE Kinds
<1>1. /\ pc = "slot" /\ pc' = "deal" /\ time = now /\ time' = time
      /\ next' = (IF count > 0 THEN [next EXCEPT ![tail] = NULL] ELSE next)
      /\ entry' = next'[ListHead]
      /\ prev' = prev /\ expires' = expires /\ rehash' = rehash /\ now' = now
      /\ first' = first /\ last' = last /\ tail' = tail /\ count' = count
      /\ armed' = armed /\ due' = due
  BY DEF EndTimeouts
<1>2. /\ next \in Nexts /\ prev \in Prevs /\ Members(home) /\ Apart(home, pos)
      /\ SlotsWhole(next, prev, home, pos) /\ time \in Nat /\ time >= 1 /\ now \in Nat
      /\ Collecting(home, pos) /\ Collected(next, prev, home, pos, tail)
  BY <1>1, HeapTypes DEF Lists, TypeOK, Times, BaseTime, Collecting
<1>3. /\ tail \in Cells /\ (tail = ListHead \/ (tail \in Entries /\ home[tail] = ListHead))
      /\ \A f \in Entries : ~ Behind(home, pos, tail, f)
      /\ \A c \in Cells : OfExpired(home, c) /\ c # tail => Leads(next, prev, home, pos, c)
      /\ tail = ListHead => next[ListHead] = NULL
  BY <1>2 DEF Collected, OfExpired
<1>4. /\ next' \in Nexts /\ prev' \in Prevs
      /\ \A c \in Cells \ {tail} : next'[c] = next[c]
      /\ count > 0 => next'[tail] = NULL
      /\ ~ (count > 0) => next' = next
  BY <1>1, <1>2, <1>3 DEF Nexts
<1>5. count = Cardinality(Expired(home)) /\ due = Expired(home) /\ Expired(home) \subseteq Entries
  <2>1. Run(home, pos) = {}
    BY <1>1 DEF Run
  <2>2. time .. now - 1 = {}
    BY <1>1, <1>2
  <2>3. ToVisit = {}
    BY <1>1, <2>2 DEF ToVisit
  <2> QED
    BY <1>2, <2>1, <2>3 DEF Collecting, Expired
<1>6. count > 0 \/ Expired(home) = {}
  <2>1. IsFiniteSet(Expired(home)) /\ count \in Nat
    BY <1>5, Counted, NType DEF N
  <2>2. count = 0 <=> Expired(home) = {}
    BY <1>5, <2>1, FS_EmptySet
  <2> QED
    BY <2>1, <2>2
<1>7. \A c \in Cells : OfExpired(home, c) => Leads(next', prev', home, pos, c)
  <2> SUFFICES ASSUME NEW c \in Cells, OfExpired(home, c)
               PROVE  Leads(next', prev', home, pos, c)
    OBVIOUS
  <2>1. CASE c # tail
    <3>1. next'[c] = next[c] /\ Leads(next, prev, home, pos, c)
      BY <1>3, <1>4, <2>1
    <3> QED
      BY <1>1, <3>1 DEF Leads
  <2>2. CASE c = tail
    <3>1. next'[tail] = NULL
      <4>1. CASE count > 0
        BY <1>4, <4>1
      <4>2. CASE Expired(home) = {}
        BY <1>1, <1>3, <4>2 DEF Expired
      <4> QED
        BY <1>6, <4>1, <4>2
    <3> QED
      BY <1>3, <2>2, <3>1 DEF Leads
  <2> QED
    BY <2>1, <2>2
<1>8. SlotsWhole(next', prev', home, pos)
  <2>1. ASSUME NEW c \in Cells, c \in Slots \/ (c \in Entries /\ home[c] \in Slots)
        PROVE  Leads(next', prev', home, pos, c)
    <3>1. c # tail /\ Leads(next, prev, home, pos, c)
      BY <1>2, <1>3, <2>1 DEF SlotsWhole
    <3> QED
      BY <1>1, <1>4, <3>1 DEF Leads
  <2>2. ASSUME NEW e \in Entries, home[e] \in Slots
        PROVE  LeadsBack(next', prev', home, e)
    <3>1. LeadsBack(next, prev, home, e) /\ prev[e] # tail /\ prev[e] \in Cells
      BY <1>2, <1>3, <2>2 DEF SlotsWhole, LeadsBack
    <3> QED
      BY <1>1, <1>4, <3>1 DEF LeadsBack
  <2> QED
    BY <2>1, <2>2 DEF SlotsWhole
<1>9. Dealing(home, pos)'
  <2>1. Leads(next', prev', home, pos, ListHead)
    BY <1>7 DEF OfExpired
  <2>2. /\ entry' = NULL => Expired(home) = {}
        /\ entry' # NULL => /\ home[entry'] = ListHead
                            /\ \A f \in Expired(home) : f = entry' \/ Behind(home, pos, entry', f)
    BY <1>1, <2>1 DEF Leads, Behind, Expired
  <2>3. Expired(home)' = Expired(home)
    BY DEF Expired
  <2>4. \A e \in Expired(home) : Leads(next', prev', home, pos, e)
    BY <1>7 DEF OfExpired, Expired
  <2>5. \A e \in Expired(home)' : Leads(next, prev, home, pos, e)'
    BY <2>3, <2>4 DEF Leads, Behind
  <2> QED
    BY <1>1, <1>5, <2>2, <2>3, <2>5 DEF Dealing, Behind
<1>10. ASSUME NEW e \in Entries, Awaits(home, pos, e)'
       PROVE  \E v \in Nat : Timely(home, e, v)'
  <2>1. Awaits(home, pos, e)
    BY <1>1, <1>10 DEF Awaits
  <2> QED
    BY <1>1, <1>2, <2>1 DEF Lists, Timely, SlotIndex
<1>11. TypeOK'
  <2>1. entry' \in Entries \cup {NULL}
    BY <1>1, <1>4 DEF Nexts
  <2> QED
    BY <1>1, <1>4, <2>1 DEF TypeOK, Nexts
<1>12. Lists(home, pos)'
  <2>1. Members(home)' /\ Apart(home, pos)' /\ SlotsWhole(next, prev, home, pos)'
    BY <1>1, <1>2, <1>8 DEF Members, Apart, SlotsWhole, Leads, LeadsBack, Behind
  <2> QED
    BY <1>1, <1>9, <1>10, <2>1 DEF Lists
<1> QED
  BY <1>11, <1>12, Exhibit

\* e was the first expired entry and is in no list now; the list of expired
\* entries begins behind it.
Dropped(n, p, home, pos, e, n2, p2, at) ==
  /\ n2 \in Nexts /\ p2 \in Prevs /\ at \in Maps /\ p2[e] = NULL
  /\ at[e] = NULL /\ \A f \in Entries \ {e} : at[f] = home[f] /\ p2[f] = p[f]
  /\ Apart(at, pos) /\ SlotsWhole(n2, p2, at, pos)
  /\ Expired(at) = Expired(home) \ {e}
  /\ \A f \in Expired(at) : Leads(n2, p2, at, pos, f)
  /\ IF n[e] = NULL THEN Expired(at) = {}
     ELSE /\ n[e] \in Expired(at)
          /\ \A f \in Expired(at) : f = n[e] \/ Behind(at, pos, n[e], f)

\* deal_timeouts takes the first entry off the list of expired entries.
LEMMA DropKeeps ==
  ASSUME NEW n \in Nexts, NEW p \in Prevs, NEW home \in Maps, NEW pos \in Ranks,
         Apart(home, pos), SlotsWhole(n, p, home, pos),
         NEW e \in Entries, home[e] = ListHead,
         \A f \in Expired(home) : Leads(n, p, home, pos, f) /\ (f = e \/ Behind(home, pos, e, f)),
         NEW n2, n2 = [n EXCEPT ![e] = NULL],
         NEW p2, p2 = [p EXCEPT ![e] = NULL],
         NEW at, at = [home EXCEPT ![e] = NULL]
  PROVE  Dropped(n, p, home, pos, e, n2, p2, at)
<1> USE Kinds DEF Nexts, Prevs, Maps
<1>1. /\ n2 \in Nexts /\ p2 \in Prevs /\ at \in Maps /\ p2[e] = NULL /\ at[e] = NULL
      /\ \A c \in Cells \ {e} : n2[c] = n[c] /\ p2[c] = p[c]
      /\ \A f \in Entries \ {e} : at[f] = home[f]
  OBVIOUS
<1>2. Expired(at) = Expired(home) \ {e}
  BY <1>1 DEF Expired
<1>3. Apart(at, pos)
  BY <1>1 DEF Apart
<1>4. ASSUME NEW c \in Cells, c # e, Leads(n, p, home, pos, c), ~ Behind(home, pos, c, e),
             c \in Entries => home[c] # NULL
      PROVE  Leads(n2, p2, at, pos, c)
  <2>1. \A f \in Entries : Behind(at, pos, c, f) <=> Behind(home, pos, c, f)
    BY <1>1, <1>4 DEF Behind
  <2>2. n2[c] = n[c]
    BY <1>1, <1>4
  <2>3. CASE n[c] = NULL
    BY <1>4, <2>1, <2>2, <2>3 DEF Leads
  <2>4. CASE n[c] # NULL
    <3>1. /\ n[c] \in Entries /\ Behind(home, pos, c, n[c]) /\ p[n[c]] = c
          /\ \A f \in Entries : Behind(home, pos, c, f) => f = n[c] \/ Behind(home, pos, n[c], f)
      BY <1>4, <2>4 DEF Leads
    <3>2. n[c] # e /\ p2[n[c]] = c
      BY <1>1, <1>4, <3>1
    <3>3. \A f \in Entries : f # e /\ Behind(home, pos, n[c], f) => Behind(at, pos, n[c], f)
      BY <1>1, <3>1, <3>2 DEF Behind
    <3>4. \A f \in Entries : Behind(at, pos, c, f) => f = n[c] \/ Behind(at, pos, n[c], f)
      BY <1>4, <2>1, <3>1, <3>3
    <3> QED
      BY <2>1, <2>2, <2>4, <3>1, <3>2, <3>4 DEF Leads
  <2> QED
    BY <2>3, <2>4
<1>5. SlotsWhole(n2, p2, at, pos)
  <2>1. ASSUME NEW c \in Cells, c \in Slots \/ (c \in Entries /\ at[c] \in Slots)
        PROVE  Leads(n2, p2, at, pos, c)
    <3>1. c # e /\ (c \in Entries => home[c] \in Slots /\ home[c] # ListHead)
      BY <1>1, <2>1
    <3>2. Leads(n, p, home, pos, c)
      BY <2>1, <3>1 DEF SlotsWhole
    <3>3. ~ Behind(home, pos, c, e)
      BY <2>1, <3>1 DEF Behind
    <3> QED
      BY <1>4, <3>1, <3>2, <3>3
  <2>2. ASSUME NEW f \in Entries, at[f] \in Slots
        PROVE  LeadsBack(n2, p2, at, f)
    <3>1. home[f] \in Slots /\ f # e /\ LeadsBack(n, p, home, f)
      BY <1>1, <2>2 DEF SlotsWhole
    <3>2. p[f] # e /\ p[f] \in Cells
      BY <3>1 DEF LeadsBack
    <3> QED
      BY <1>1, <3>1, <3>2 DEF LeadsBack
  <2> QED
    BY <2>1, <2>2 DEF SlotsWhole
<1>6. \A f \in Expired(at) : Leads(n2, p2, at, pos, f)
  <2> SUFFICES ASSUME NEW f \in Expired(at) PROVE Leads(n2, p2, at, pos, f)
    OBVIOUS
  <2>1. f \in Entries /\ f # e /\ home[f] = ListHead /\ Leads(n, p, home, pos, f) /\ Behind(home, pos, e, f)
    BY <1>2 DEF Expired
  <2>2. ~ Behind(home, pos, f, e)
    BY <2>1 DEF Behind, Ranks
  <2> QED
    BY <1>4, <2>1, <2>2
<1>7. IF n[e] = NULL THEN Expired(at) = {}
      ELSE /\ n[e] \in Expired(at)
           /\ \A f \in Expired(at) : f = n[e] \/ Behind(at, pos, n[e], f)
  <2>1. e \in Expired(home) /\ Leads(n, p, home, pos, e)
    BY DEF Expired
  <2>2. CASE n[e] = NULL
    <3>1. \A f \in Expired(home) : f = e
      BY <2>1, <2>2 DEF Leads, Expired
    <3> QED
      BY <1>2, <2>2, <3>1
  <2>3. CASE n[e] # NULL
    <3>1. /\ n[e] \in Entries /\ home[n[e]] = ListHead /\ n[e] # e
          /\ \A f \in Entries : Behind(home, pos, e, f) => f = n[e] \/ Behind(home, pos, n[e], f)
      BY <2>1, <2>3 DEF Leads, Behind, Ranks
    <3>2. n[e] \in Expired(at)
      BY <1>2, <3>1 DEF Expired
    <3>3. \A f \in Expired(at) : f = n[e] \/ Behind(at, pos, n[e], f)
      BY <1>1, <1>2, <3>1 DEF Behind, Expired
    <3> QED
      BY <2>3, <3>2, <3>3
  <2> QED
    BY <2>2, <2>3
<1> QED
  BY <1>1, <1>2, <1>3, <1>5, <1>6, <1>7 DEF Dropped

\* deal_timeouts hands the first expired entry to its callback, which may add it again.
LEMMA DealKeeps ==
  ASSUME TypeOK, NEW home \in Maps, NEW pos \in Ranks, Lists(home, pos), DealTimeout
  PROVE  IInv'
<1> USE Kinds
<1>0. PICK n1, p1 : n1 = [next EXCEPT ![entry] = NULL] /\ p1 = [prev EXCEPT ![entry] = NULL]
  OBVIOUS
<1>1. /\ pc = "deal" /\ pc' = "deal" /\ time' = time /\ entry # NULL
      /\ entry' = next[entry] /\ due' = due \ {entry}
      /\ now' = now /\ first' = first /\ last' = last /\ tail' = tail /\ count' = count
      /\ \/ /\ next' = n1 /\ prev' = p1 /\ armed' = armed \ {entry}
            /\ expires' = expires /\ rehash' = rehash
         \/ \E x \in Times :
              /\ << next', prev' >> = Link(<< n1, p1 >>, entry, AddSlot(x, time))
              /\ expires' = [expires EXCEPT ![entry] = x]
              /\ rehash' = [rehash EXCEPT ![entry] = FALSE]
              /\ armed' = armed
  BY <1>0 DEF DealTimeout, SetHeap, Link
<1>2. /\ next \in Nexts /\ prev \in Prevs /\ Members(home) /\ Apart(home, pos)
      /\ SlotsWhole(next, prev, home, pos) /\ time \in Times /\ entry \in Entries
      /\ Dealing(home, pos) /\ home[entry] = ListHead
  BY <1>1, HeapTypes DEF Lists, TypeOK, Dealing
<1>3. PICK e \in Entries : e = entry
  BY <1>2
<1>4. PICK g : g = [home EXCEPT ![e] = NULL]
  OBVIOUS
<1>5. /\ n1 \in Nexts /\ p1 \in Prevs /\ g \in Maps /\ p1[e] = NULL
      /\ g[e] = NULL /\ \A f \in Entries \ {e} : g[f] = home[f] /\ p1[f] = prev[f]
      /\ Apart(g, pos) /\ SlotsWhole(n1, p1, g, pos)
      /\ Expired(g) = Expired(home) \ {e}
      /\ \A f \in Expired(g) : Leads(n1, p1, g, pos, f)
      /\ IF next[e] = NULL THEN Expired(g) = {}
         ELSE /\ next[e] \in Expired(g)
              /\ \A f \in Expired(g) : f = next[e] \/ Behind(g, pos, next[e], f)
  <2>1. \A f \in Expired(home) : Leads(next, prev, home, pos, f) /\ (f = e \/ Behind(home, pos, e, f))
    BY <1>1, <1>2, <1>3 DEF Dealing
  <2>2. n1 = [next EXCEPT ![e] = NULL] /\ p1 = [prev EXCEPT ![e] = NULL] /\ home[e] = ListHead
    BY <1>0, <1>2, <1>3
  <2>3. Dropped(next, prev, home, pos, e, n1, p1, g)
    BY <1>2, <1>4, <2>1, <2>2, DropKeeps
  <2> QED
    BY <2>3 DEF Dropped
<1>6. due' = Expired(g)
  BY <1>1, <1>2, <1>3, <1>5 DEF Dealing
\* Whatever the callback does: what is to be shown.
<1>7. ASSUME NEW h \in Maps, NEW r \in Ranks, next' \in Nexts, prev' \in Prevs,
             Members(h)', Apart(h, r), SlotsWhole(next', prev', h, r),
             \A f \in Entries : h[f] = ListHead <=> g[f] = ListHead,
             \A f \in Entries \ {e} : r[f] = pos[f],
             \A f \in Expired(g) : Leads(next', prev', h, r, f),
             expires' \in [Entries -> Times], rehash' \in [Entries -> BOOLEAN],
             armed' \subseteq Entries,
             \A f \in Entries : h[f] \in Slots => \E v \in Nat : Timely(h, f, v)'
      PROVE  IInv'
  <2>1. Expired(h)' = Expired(g)
    BY <1>7 DEF Expired
  <2>2. \A c, f \in Expired(g) : Behind(g, pos, c, f) => Behind(h, r, c, f)
    BY <1>5, <1>7 DEF Behind, Expired
  <2>3. Dealing(h, r)'
    <3>1. entry' = NULL => Expired(h)' = {}
      BY <1>1, <1>3, <1>5, <2>1
    <3>2. entry' # NULL => /\ h[entry'] = ListHead
                           /\ \A f \in Expired(h)' : f = entry' \/ Behind(h, r, entry', f)
      <4>1. ASSUME entry' # NULL
            PROVE  entry' \in Expired(g) /\ \A f \in Expired(g) : f = entry' \/ Behind(g, pos, entry', f)
        BY <1>1, <1>3, <1>5, <4>1
      <4>2. ASSUME entry' # NULL PROVE h[entry'] = ListHead
        BY <1>7, <4>1, <4>2 DEF Expired
      <4> QED
        BY <2>1, <2>2, <4>1, <4>2
    <3>3. \A f \in Expired(h)' : Leads(next', prev', h, r, f)
      BY <1>7, <2>1
    <3>4. (\A f \in Expired(h) : Leads(next, prev, h, r, f))'
      BY <3>3 DEF Leads, Behind, Expired
    <3> QED
      BY <1>6, <2>1, <3>1, <3>2, <3>4 DEF Dealing, Behind
  <2>4. TypeOK'
    <3>1. entry' \in Entries \cup {NULL}
      BY <1>1, <1>2 DEF Nexts
    <3>2. due' \subseteq Entries
      BY <1>6 DEF Expired
    <3> QED
      BY <1>1, <1>7, <3>1, <3>2 DEF TypeOK, Nexts, Prevs
  <2>5. Lists(h, r)'
    <3>1. Apart(h, r)' /\ SlotsWhole(next, prev, h, r)'
      BY <1>7 DEF Apart, SlotsWhole, Leads, LeadsBack, Behind
    <3>2. ASSUME NEW f \in Entries, Awaits(h, r, f)'
          PROVE  \E v \in Nat : Timely(h, f, v)'
      BY <1>7, <3>2 DEF Awaits
    <3> QED
      BY <1>1, <1>7, <2>3, <3>1, <3>2 DEF Lists
  <2> QED
    BY <1>7, <2>4, <2>5, Exhibit
<1>8. ASSUME NEW f \in Entries, f # e, g[f] \in Slots
      PROVE  Awaits(home, pos, f)
  BY <1>1, <1>5, <1>8 DEF Awaits
<1>9. CASE next' = n1 /\ prev' = p1 /\ armed' = armed \ {entry} /\ expires' = expires /\ rehash' = rehash
  <2>1. Members(g)'
    BY <1>2, <1>3, <1>5, <1>9 DEF Members
  <2>2. ASSUME NEW f \in Entries, g[f] \in Slots
        PROVE  \E v \in Nat : Timely(g, f, v)'
    <3>1. f # e /\ Awaits(home, pos, f) /\ g[f] = home[f]
      BY <1>5, <1>8, <2>2
    <3> QED
      BY <1>1, <1>9, <3>1 DEF Lists, Timely
  <2>3. expires' \in [Entries -> Times] /\ rehash' \in [Entries -> BOOLEAN] /\ armed' \subseteq Entries
    BY <1>9 DEF TypeOK
  <2> QED
    BY <1>5, <1>7, <1>9, <2>1, <2>2, <2>3
<1>10. ASSUME NEW x \in Times,
              << next', prev' >> = Link(<< n1, p1 >>, entry, AddSlot(x, time)),
              expires' = [expires EXCEPT ![entry] = x],
              rehash' = [rehash EXCEPT ![entry] = FALSE],
              armed' = armed
       PROVE  IInv'
  <2>1. PICK s \in Slots : s = AddSlot(x, time)
    BY <1>2, AddedTimely
  <2>2. PICK h : h = [g EXCEPT ![e] = s]
    OBVIOUS
  <2>3. PutInFront(n1, p1, g, pos, e, s, next', prev', h)
    BY <1>3, <1>5, <1>10, <2>1, <2>2, LinkKeeps
  <2>4. /\ next' \in Nexts /\ prev' \in Prevs /\ h \in Maps /\ prev'[e] # NULL
        /\ \A f \in Entries : g[f] = NULL /\ f # e => prev'[f] = p1[f]
    BY <2>3 DEF PutInFront
  <2>5. PICK r \in Ranks :
          /\ \A f \in Entries \ {e} : r[f] = pos[f]
          /\ Apart(h, r) /\ SlotsWhole(next', prev', h, r)
          /\ \A c \in Cells : OfExpired(g, c) /\ Leads(n1, p1, g, pos, c) => Leads(next', prev', h, r, c)
    BY <2>3 DEF PutInFront
  <2>6. h[e] = s /\ \A f \in Entries \ {e} : h[f] = g[f]
    BY <1>5, <2>2 DEF Maps
  <2>7. Members(h)'
    BY <1>2, <1>3, <1>5, <1>10, <2>4, <2>6 DEF Members
  <2>8. \A f \in Entries : h[f] = ListHead <=> g[f] = ListHead
    BY <1>5, <2>6
  <2>9. \A f \in Expired(g) : Leads(next', prev', h, r, f)
    BY <1>5, <2>5 DEF Expired, OfExpired
  <2>10. expires'[e] = x /\ \A f \in Entries \ {e} : expires'[f] = expires[f]
    BY <1>3, <1>10 DEF TypeOK
  <2>11. ASSUME NEW f \in Entries, h[f] \in Slots
         PROVE  \E v \in Nat : Timely(h, f, v)'
    <3>1. CASE f = e
      BY <1>1, <1>2, <2>1, <2>6, <2>10, <3>1, AddedTimely DEF Timely
    <3>2. CASE f # e
      <4>1. Awaits(home, pos, f) /\ h[f] = home[f] /\ expires'[f] = expires[f]
        BY <1>5, <1>8, <2>6, <2>10, <2>11, <3>2
      <4> QED
        BY <1>1, <4>1 DEF Lists, Timely
    <3> QED
      BY <3>1, <3>2
  <2>12. expires' \in [Entries -> Times] /\ rehash' \in [Entries -> BOOLEAN] /\ armed' \subseteq Entries
    BY <1>10 DEF TypeOK
  <2> QED
    BY <1>7, <2>4, <2>5, <2>7, <2>8, <2>9, <2>11, <2>12
<1> QED
  BY <1>1, <1>9, <1>10

\* All expired entries are dealt with: only slots have entries.
LEMMA EndDealKeeps ==
  ASSUME TypeOK, NEW home \in Maps, NEW pos \in Ranks, Lists(home, pos), EndDeal
  PROVE  IInv'
<1> USE Kinds
<1>1. /\ pc = "deal" /\ pc' = "idle" /\ entry = NULL /\ time' = time
      /\ last' = NULL /\ tail' = NULL /\ count' = 0
      /\ next' = next /\ prev' = prev /\ expires' = expires /\ rehash' = rehash
      /\ now' = now /\ entry' = entry /\ first' = first /\ armed' = armed /\ due' = due
  BY DEF EndDeal, heap
<1>2. Expired(home) = {}
  BY <1>1 DEF Lists, Dealing
<1>3. TypeOK'
  <2>1. 0 \in 0 .. Cardinality(Entries)
    BY NType DEF N
  <2> QED
    BY <1>1, <2>1 DEF TypeOK
<1>4. Members(home)' /\ Apart(home, pos) /\ SlotsWhole(next', prev', home, pos)
  BY <1>1 DEF Lists, Members
<1>5. \A f \in Entries : home[f] # ListHead
  BY <1>2 DEF Expired
<1>6. ASSUME NEW f \in Entries, home[f] \in Slots
      PROVE  \E v \in Nat : Timely(home, f, v)'
  <2>1. Awaits(home, pos, f)
    BY <1>1, <1>6 DEF Awaits
  <2> QED
    BY <1>1, <2>1 DEF Lists, Timely
<1>7. Lists(home, pos)'
  BY <1>1, <1>4, <1>5, <1>6, IdleLists
<1> QED
  BY <1>3, <1>7, Exhibit

\* All lists are whole, and the run that began at `first' is expired, with t
\* the end of the list of expired entries.
SplicedOut(home, pos, n1, p1, h, r, t) ==
  /\ n1 \in Nexts /\ p1 \in Prevs
  /\ \A f \in Entries : h[f] = IF f \in Run(home, pos) THEN ListHead ELSE home[f]
  /\ \A f \in Entries \ Run(home, pos) : r[f] = pos[f]
  /\ Apart(h, r) /\ SlotsWhole(n1, p1, h, r) /\ Collected(n1, p1, h, r, t)
  /\ \A f \in Entries : home[f] = NULL => p1[f] = prev[f]
  /\ entry # NULL => entry \notin Run(home, pos) /\ n1[entry] = next[entry]

\* Splicing a run of expired entries out of the slot keeps the lists whole.
LEMMA SpliceStep ==
  ASSUME TypeOK, NEW home \in Maps, NEW pos \in Ranks, Lists(home, pos), pc = "scan",
         NEW n1, NEW p1, << n1, p1 >> = Splice(entry)
  PROVE  \E h \in Maps, r \in Ranks :
           SplicedOut(home, pos, n1, p1, h, r, IF first = NULL THEN tail ELSE last)
<1> USE Kinds
<1>1. /\ next \in Nexts /\ prev \in Prevs /\ Apart(home, pos) /\ SlotsWhole(next, prev, home, pos)
      /\ Collecting(home, pos) /\ Scanning(home, pos) /\ time \in Nat
  BY HeapTypes DEF Lists, TypeOK, Times, BaseTime
<1>2. Collected(next, prev, home, pos, tail)
  BY <1>1 DEF Collecting
<1>3. PICK s \in Slots : s = Cur
  <2>1. time - 1 \in Nat /\ time - 1 >= 1
    BY <1>1 DEF Scanning, BaseTime
  <2> QED
    BY <2>1, SlotTimes DEF Cur
<1>4. CASE first = NULL
  <2>1. n1 = next /\ p1 = prev
    BY <1>4 DEF Splice, heap
  <2>2. Run(home, pos) = {}
    BY <1>4 DEF Run
  <2>3. SplicedOut(home, pos, n1, p1, home, pos, tail)
    BY <1>1, <1>2, <2>1, <2>2 DEF SplicedOut
  <2> QED
    BY <1>4, <2>3
<1>5. CASE first # NULL
  <2>1. PICK a \in Entries, b \in Entries, t \in Cells : a = first /\ b = last /\ t = tail
    BY <1>1, <1>2, <1>5 DEF TypeOK, Scanning, Collected
  <2>2. home[a] = s /\ home[b] = s /\ pos[b] <= pos[a] /\ next[b] = entry
    BY <1>1, <1>3, <1>5, <2>1 DEF Scanning
  <2>3. /\ OfExpired(home, t) /\ \A f \in Entries : ~ Behind(home, pos, t, f)
        /\ \A c \in Cells : OfExpired(home, c) /\ c # t => Leads(next, prev, home, pos, c)
    BY <1>2, <2>1 DEF Collected
  <2>4. /\ n1 = [next EXCEPT ![prev[a]] = next[b], ![t] = a]
        /\ p1 = [(IF next[b] = NULL THEN prev ELSE [prev EXCEPT ![next[b]] = prev[a]]) EXCEPT ![a] = t]
    BY <1>5, <2>1, <2>2 DEF Splice
  <2>5. PICK R : R = Between(home, pos, s, a, b)
    OBVIOUS
  <2>6. Run(home, pos) = R
    BY <1>3, <1>5, <2>1, <2>5 DEF Run
  <2>7. PICK h : h = [f \in Entries |-> IF f \in R THEN ListHead ELSE home[f]]
    OBVIOUS
  <2>8. CutOut(next, prev, home, pos, s, b, n1, p1, R, h)
    BY <1>1, <2>2, <2>3, <2>4, <2>5, <2>7, SpliceKeeps
  <2>9. /\ n1 \in Nexts /\ p1 \in Prevs /\ h \in Maps
        /\ next[b] # NULL => next[b] \notin R /\ n1[next[b]] = next[next[b]]
        /\ \A f \in Entries : home[f] = NULL => p1[f] = prev[f]
    BY <2>8 DEF CutOut
  <2>10. PICK r \in Ranks :
           /\ \A f \in Entries \ R : r[f] = pos[f]
           /\ Apart(h, r) /\ SlotsWhole(n1, p1, h, r)
           /\ \A f \in Entries : ~ Behind(h, r, b, f)
           /\ \A c \in Cells : OfExpired(h, c) /\ c # b => Leads(n1, p1, h, r, c)
    BY <2>8 DEF CutOut
  <2>11. b \in R
    BY <2>2, <2>5 DEF Between, Ranks
  <2>12. Collected(n1, p1, h, r, b)
    BY <2>7, <2>10, <2>11 DEF Collected, OfExpired
  <2>13. SplicedOut(home, pos, n1, p1, h, r, b)
    BY <2>2, <2>6, <2>7, <2>9, <2>10, <2>12 DEF SplicedOut
  <2> QED
    BY <1>5, <2>1, <2>9, <2>13
<1> QED
  BY <1>4, <1>5

\* e is the first entry of the list of s now; all other lists are as they were.
Moved(p, home, pos, t, e, s, n2, p2, h, r) ==
  /\ n2 \in Nexts /\ p2 \in Prevs
  /\ h[e] = s /\ \A f \in Entries \ {e} : h[f] = home[f] /\ r[f] = pos[f]
  /\ Apart(h, r) /\ SlotsWhole(n2, p2, h, r) /\ Collected(n2, p2, h, r, t)
  /\ \A f \in Entries : home[f] = NULL => p2[f] = p[f]

\* The lazy move of an entry to its own slot.
LEMMA MoveStep ==
  ASSUME NEW n \in Nexts, NEW p \in Prevs, NEW home \in Maps, NEW pos \in Ranks,
         Apart(home, pos), SlotsWhole(n, p, home, pos),
         NEW t, Collected(n, p, home, pos, t),
         NEW e \in Entries, home[e] \in Slots, NEW s \in Slots,
         NEW n2, NEW p2, << n2, p2 >> = Link(Unlink(<< n, p >>, e), e, s)
  PROVE  \E h \in Maps, r \in Ranks : Moved(p, home, pos, t, e, s, n2, p2, h, r)
<1> USE Kinds
<1>1. PICK n1, p1 : << n1, p1 >> = Unlink(<< n, p >>, e)
  BY DEF Unlink
<1>2. PICK g : g = [home EXCEPT ![e] = NULL]
  OBVIOUS
<1>3. TakenOut(n, p, home, pos, e, n1, p1, g)
  BY <1>1, <1>2, UnlinkKeeps
<1>4. /\ n1 \in Nexts /\ p1 \in Prevs /\ g \in Maps /\ n1[ListHead] = n[ListHead]
      /\ \A f \in Entries : home[f] = NULL => p1[f] = p[f]
      /\ Apart(g, pos) /\ SlotsWhole(n1, p1, g, pos)
      /\ \A c \in Cells : OfExpired(home, c) /\ Leads(n, p, home, pos, c) => Leads(n1, p1, g, pos, c)
  BY <1>3 DEF TakenOut
<1>5. g[e] = NULL /\ \A f \in Entries \ {e} : g[f] = home[f]
  BY <1>2 DEF Maps
<1>6. PICK h : h = [g EXCEPT ![e] = s]
  OBVIOUS
<1>7. << n2, p2 >> = Link(<< n1, p1 >>, e, s)
  BY <1>1
<1>8. PutInFront(n1, p1, g, pos, e, s, n2, p2, h)
  BY <1>4, <1>5, <1>6, <1>7, LinkKeeps
<1>9. /\ n2 \in Nexts /\ p2 \in Prevs /\ h \in Maps
      /\ \A c \in Cells \ {e, s} : n2[c] = n1[c]
      /\ \A f \in Entries : g[f] = NULL /\ f # e => p2[f] = p1[f]
  BY <1>8 DEF PutInFront
<1>10. PICK r \in Ranks :
         /\ \A f \in Entries \ {e} : r[f] = pos[f]
         /\ Apart(h, r) /\ SlotsWhole(n2, p2, h, r)
         /\ \A c \in Cells : OfExpired(g, c) /\ Leads(n1, p1, g, pos, c) => Leads(n2, p2, h, r, c)
  BY <1>8 DEF PutInFront
<1>11. h[e] = s /\ \A f \in Entries \ {e} : h[f] = home[f]
  BY <1>4, <1>5, <1>6 DEF Maps
<1>12. \A c \in Cells : (OfExpired(h, c) <=> OfExpired(home, c)) /\ (OfExpired(g, c) <=> OfExpired(home, c))
  BY <1>5, <1>11 DEF OfExpired
<1>13. Collected(n2, p2, h, r, t)
  <2>1. /\ t \in Cells /\ OfExpired(home, t) /\ (t = ListHead => n[ListHead] = NULL)
        /\ \A f \in Entries : ~ Behind(home, pos, t, f)
        /\ \A c \in Cells : OfExpired(home, c) /\ c # t => Leads(n, p, home, pos, c)
    BY DEF Collected
  <2>2. OfExpired(h, t) /\ (t = ListHead => n2[ListHead] = NULL)
    BY <1>4, <1>9, <1>12, <2>1
  <2>3. \A f \in Entries : ~ Behind(h, r, t, f)
    BY <1>10, <1>11, <2>1 DEF Behind, OfExpired
  <2>4. \A c \in Cells : OfExpired(h, c) /\ c # t => Leads(n2, p2, h, r, c)
    BY <1>4, <1>10, <1>12, <2>1
  <2> QED
    BY <2>1, <2>2, <2>3, <2>4 DEF Collected
<1>14. \A f \in Entries : home[f] = NULL => p2[f] = p[f]
  BY <1>4, <1>5, <1>9
<1>15. Moved(p, home, pos, t, e, s, n2, p2, h, r)
  BY <1>9, <1>10, <1>11, <1>13, <1>14 DEF Moved
<1> QED
  BY <1>9, <1>15

\* The slot of an entry that stays where the walk of its slot has passed it
\* comes up again a whole turn later.
LEMMA PassedTimely ==
  ASSUME TypeOK, time > BaseTime
  PROVE  \E v \in Nat : v = (time - 1) + SlotCount /\ v >= time /\ SlotIndex(v) = Cur
<1>1. time - 1 \in Nat /\ time - 1 >= 1 /\ SlotCount \in Nat /\ SlotCount >= 1
  BY TimerAssumption DEF TypeOK, Times, BaseTime
<1>2. SlotIndex((time - 1) + SlotCount) = SlotIndex(time - 1)
  BY <1>1, SlotTimes
<1>3. (time - 1) + SlotCount \in Nat /\ (time - 1) + SlotCount >= time
  BY <1>1 DEF TypeOK, Times
<1> QED
  BY <1>2, <1>3 DEF Cur

\* The end of a slot, or of a run in it: what is collected then.
LEMMA RunCollected ==
  ASSUME TypeOK, NEW home \in Maps, NEW pos \in Ranks, Lists(home, pos), pc = "scan"
  PROVE  /\ Members(home) /\ Apart(home, pos) /\ SlotsWhole(next, prev, home, pos)
         /\ Collecting(home, pos) /\ Scanning(home, pos)
         /\ next \in Nexts /\ prev \in Prevs
         /\ time \in Nat /\ time >= 2 /\ now \in Nat /\ time <= now
         /\ Cur \in Slots
         /\ \A f \in Run(home, pos) : f \in Entries /\ home[f] = Cur /\ expires[f] < now
         /\ ToVisit = {Cur} \cup {SlotIndex(c) : c \in time .. now - 1}
         /\ \A e \in Entries : expires[e] \in Nat
<1>1. /\ Members(home) /\ Apart(home, pos) /\ SlotsWhole(next, prev, home, pos)
      /\ Collecting(home, pos) /\ Scanning(home, pos) /\ next \in Nexts /\ prev \in Prevs
  BY HeapTypes DEF Lists
<1>2. time \in Nat /\ time >= 2 /\ now \in Nat /\ time <= now /\ \A e \in Entries : expires[e] \in Nat
  BY <1>1 DEF TypeOK, Times, Scanning, Collecting, BaseTime
<1>3. Cur \in Slots
  <2>1. time - 1 \in Nat /\ time - 1 >= 1
    BY <1>2
  <2> QED
    BY <2>1, SlotTimes DEF Cur
<1>4. \A f \in Run(home, pos) : f \in Entries /\ home[f] = Cur /\ expires[f] < now
  BY <1>1 DEF Run, Between, Scanning
<1>5. ToVisit = {Cur} \cup {SlotIndex(c) : c \in time .. now - 1}
  <2>1. time - 1 .. now - 1 = {time - 1} \cup (time .. now - 1)
    BY <1>2
  <2> QED
    BY <2>1 DEF ToVisit, Cur
<1> QED
  BY <1>1, <1>2, <1>3, <1>4, <1>5

\* The slot is done: whatever is left in it is not expired.
LEMMA EndSlotKeeps ==
  ASSUME TypeOK, NEW home \in Maps, NEW pos \in Ranks, Lists(home, pos), EndSlot
  PROVE  IInv'
<1> USE Kinds
<1>1. /\ pc = "scan" /\ pc' = "slot" /\ entry = NULL /\ << next', prev' >> = Splice(entry)
      /\ tail' = (IF first = NULL THEN tail ELSE last) /\ first' = NULL
      /\ time' = time /\ expires' = expires /\ rehash' = rehash /\ now' = now
      /\ entry' = entry /\ last' = last /\ count' = count /\ armed' = armed /\ due' = due
  BY DEF EndSlot, SetHeap, Splice, heap
<1>2. PICK h \in Maps, r \in Ranks : SplicedOut(home, pos, next', prev', h, r, IF first = NULL THEN tail ELSE last)
  BY <1>1, SpliceStep
<1>3. /\ next' \in Nexts /\ prev' \in Prevs
      /\ \A f \in Entries : h[f] = IF f \in Run(home, pos) THEN ListHead ELSE home[f]
      /\ \A f \in Entries \ Run(home, pos) : r[f] = pos[f]
      /\ Apart(h, r) /\ SlotsWhole(next', prev', h, r)
      /\ Collected(next', prev', h, r, tail')
      /\ \A f \in Entries : home[f] = NULL => prev'[f] = prev[f]
  BY <1>1, <1>2 DEF SplicedOut
<1>4. /\ Members(home) /\ Collecting(home, pos) /\ Scanning(home, pos)
      /\ time \in Nat /\ time >= 2 /\ now \in Nat /\ time <= now /\ Cur \in Slots
      /\ \A f \in Run(home, pos) : f \in Entries /\ home[f] = Cur /\ expires[f] < now
      /\ ToVisit = {Cur} \cup {SlotIndex(c) : c \in time .. now - 1}
      /\ \A e \in Entries : expires[e] \in Nat
  BY <1>1, RunCollected
<1>5. Members(h)'
  BY <1>1, <1>3, <1>4 DEF Members
<1>6. /\ Expired(h)' = Expired(home) \cup Run(home, pos) /\ Run(h, r)' = {}
      /\ ToVisit' = {SlotIndex(c) : c \in time .. now - 1}
  <2>1. Expired(h)' = Expired(home) \cup Run(home, pos) /\ Run(h, r)' = {}
    BY <1>1, <1>3, <1>4 DEF Expired, Run
  <2>2. ToVisit' = {SlotIndex(c) : c \in time .. now - 1}
    BY <1>1 DEF ToVisit, SlotIndex
  <2> QED
    BY <2>1, <2>2
<1>7. \A f \in Entries : home[f] = Cur /\ f \notin Run(home, pos) => ~ (expires[f] < now)
  BY <1>1, <1>4 DEF Scanning
<1>8. \A c \in time .. now - 1 : SlotIndex(c) \in Slots
  <2> SUFFICES ASSUME NEW c \in time .. now - 1 PROVE SlotIndex(c) \in Slots
    OBVIOUS
  <2>1. c \in Nat /\ c >= 1
    BY <1>4
  <2> QED
    BY <2>1, SlotTimes
<1>9. due' = Expired(h)' \cup {e \in Entries : expires'[e] < now' /\ h[e] \in ToVisit'}
  <2> DEFINE V == {SlotIndex(c) : c \in time .. now - 1}
  <2>1. V \subseteq Slots /\ ToVisit = {Cur} \cup V /\ ToVisit' = V
    BY <1>4, <1>6, <1>8
  <2> HIDE DEF V
  <2>2. due = Expired(home) \cup {e \in Entries : expires[e] < now /\ home[e] \in ToVisit}
    BY <1>4 DEF Collecting
  <2>3. ASSUME NEW e \in Entries
        PROVE  (expires[e] < now /\ home[e] \in ToVisit) \/ e \in Expired(home)
               <=> (expires[e] < now /\ h[e] \in V) \/ e \in Expired(home) \cup Run(home, pos)
    <3>1. CASE e \in Run(home, pos)
      BY <1>4, <2>1, <3>1
    <3>2. CASE e \notin Run(home, pos)
      BY <1>3, <1>7, <2>1, <3>2
    <3> QED
      BY <3>1, <3>2
  <2>4. Expired(home) \subseteq Entries /\ Run(home, pos) \subseteq Entries
    BY <1>4 DEF Expired
  <2>5. due = (Expired(home) \cup Run(home, pos)) \cup {e \in Entries : expires[e] < now /\ h[e] \in V}
    BY <2>2, <2>3, <2>4
  <2> QED
    BY <1>1, <1>6, <2>1, <2>5
<1>10. Collecting(h, r)'
  <2>1. Collected(next, prev, h, r, tail)'
    BY <1>3 DEF Collected, Leads, OfExpired, Behind
  <2>2. count' = Cardinality(Expired(h)' \cup Run(h, r)')
    <3>1. Expired(h)' \cup Run(h, r)' = Expired(home) \cup Run(home, pos)
      BY <1>6
    <3> QED
      BY <1>1, <1>4, <3>1 DEF Collecting
  <2> QED
    BY <1>1, <1>4, <1>9, <2>1, <2>2 DEF Collecting
<1>11. ASSUME NEW e \in Entries, Awaits(h, r, e)'
       PROVE  \E v \in Nat : Timely(h, e, v)'
  <2>1. h[e] \in Slots /\ h[e] = home[e] /\ e \notin Run(home, pos)
    BY <1>3, <1>11 DEF Awaits
  <2>2. Awaits(home, pos, e)
    BY <1>1, <2>1 DEF Awaits
  <2>3. PICK v \in Nat : Timely(home, e, v)
    BY <2>2 DEF Lists
  <2>4. v >= time /\ SlotIndex(v) = h[e] /\ v < expires[e] + SlotCount
    BY <1>1, <2>1, <2>3 DEF Timely
  <2> QED
    BY <1>1, <2>4 DEF Timely, SlotIndex
<1>12. TypeOK'
  BY <1>1, <1>3 DEF TypeOK, Nexts, Prevs, Collected, OfExpired
<1>13. Lists(h, r)'
  <2>1. Apart(h, r)' /\ SlotsWhole(next, prev, h, r)'
    BY <1>3 DEF Apart, SlotsWhole, Leads, LeadsBack, Behind
  <2> QED
    BY <1>1, <1>5, <1>10, <1>11, <2>1 DEF Lists
<1> QED
  BY <1>12, <1>13, Exhibit

\* An entry that is not expired ends the run before it, and goes to its own
\* slot when its expiry time was modified.
LEMMA ScanAliveKeeps ==
  ASSUME TypeOK, NEW home \in Maps, NEW pos \in Ranks, Lists(home, pos), ScanAlive
  PROVE  IInv'
<1> USE Kinds
<1>0. PICK n1, p1 : << n1, p1 >> = Splice(entry)
  BY DEF Splice, heap
<1>1. /\ pc = "scan" /\ pc' = "scan" /\ entry # NULL /\ ~ (expires[entry] < now)
      /\ << next', prev' >> = (IF rehash[entry]
                               THEN Link(Unlink(<< n1, p1 >>, entry), entry, AddSlot(expires[entry], time))
                               ELSE << n1, p1 >>)
      /\ entry' = n1[entry]
      /\ rehash' = [rehash EXCEPT ![entry] = FALSE]
      /\ tail' = (IF first = NULL THEN tail ELSE last) /\ first' = NULL /\ last' = entry
      /\ time' = time /\ expires' = expires /\ now' = now
      /\ count' = count /\ armed' = armed /\ due' = due
  <2>1. Splice(entry) = << n1, p1 >> /\ Splice(entry)[1] = n1
    BY <1>0
  <2>2. pc = "scan" /\ entry # NULL /\ ~ (expires[entry] < now)
    BY DEF ScanAlive, TypeOK, Times
  <2> QED
    BY <2>1, <2>2 DEF ScanAlive, SetHeap, Link
<1>2. PICK h \in Maps, r \in Ranks : SplicedOut(home, pos, n1, p1, h, r, IF first = NULL THEN tail ELSE last)
  BY <1>0, <1>1, SpliceStep
<1>3. /\ n1 \in Nexts /\ p1 \in Prevs
      /\ \A f \in Entries : h[f] = IF f \in Run(home, pos) THEN ListHead ELSE home[f]
      /\ \A f \in Entries \ Run(home, pos) : r[f] = pos[f]
      /\ Apart(h, r) /\ SlotsWhole(n1, p1, h, r)
      /\ Collected(n1, p1, h, r, tail')
      /\ \A f \in Entries : home[f] = NULL => p1[f] = prev[f]
      /\ entry \notin Run(home, pos) /\ n1[entry] = next[entry]
  BY <1>1, <1>2 DEF SplicedOut
<1>4. /\ Members(home) /\ Apart(home, pos) /\ SlotsWhole(next, prev, home, pos)
      /\ Collecting(home, pos) /\ Scanning(home, pos)
      /\ time \in Nat /\ time >= 2 /\ now \in Nat /\ time <= now /\ Cur \in Slots
      /\ \A f \in Run(home, pos) : f \in Entries /\ home[f] = Cur /\ expires[f] < now
      /\ ToVisit = {Cur} \cup {SlotIndex(c) : c \in time .. now - 1}
      /\ \A e \in Entries : expires[e] \in Nat
  BY <1>1, RunCollected
<1>5. PICK e \in Entries, s \in Slots : e = entry /\ s = Cur
  BY <1>1, <1>4 DEF TypeOK
<1>6. home[e] = s /\ h[e] = s /\ e \notin Run(home, pos) /\ ~ (expires[e] < now)
  BY <1>1, <1>3, <1>4, <1>5 DEF Scanning
\* Where the entry goes.
<1>7. PICK place \in Slots : \E k \in Maps, q \in Ranks :
        /\ Moved(p1, h, r, tail', e, place, next', prev', k, q)
        /\ \E v \in Nat : v >= time /\ v < expires[e] + SlotCount /\ SlotIndex(v) = place
  <2>1. CASE rehash[entry]
    <3>1. PICK place \in Slots : place = AddSlot(expires[e], time)
      BY <1>5, AddedTimely DEF TypeOK
    <3>2. << next', prev' >> = Link(Unlink(<< n1, p1 >>, e), e, place)
      BY <1>1, <1>5, <2>1, <3>1
    <3>3. \E k \in Maps, q \in Ranks : Moved(p1, h, r, tail', e, place, next', prev', k, q)
      BY <1>3, <1>6, <3>2, MoveStep
    <3>4. expires[e] \in Times /\ time \in Times /\ expires[e] >= time
      BY <1>4, <1>6 DEF TypeOK
    <3>5. \E v \in Nat : v >= time /\ v < expires[e] + SlotCount /\ SlotIndex(v) = place
      BY <3>1, <3>4, AddedTimely
    <3> QED
      BY <3>3, <3>5
  <2>2. CASE ~ rehash[entry]
    <3>1. next' = n1 /\ prev' = p1
      BY <1>1, <2>2
    <3>2. Moved(p1, h, r, tail', e, s, next', prev', h, r)
      BY <1>3, <1>6, <3>1 DEF Moved
    <3>3. PICK v \in Nat : v = (time - 1) + SlotCount /\ v >= time /\ SlotIndex(v) = Cur
      BY <1>4, PassedTimely DEF BaseTime
    <3>4. v < expires[e] + SlotCount
      BY <1>4, <1>6, <3>3, TimerAssumption
    <3> QED
      BY <1>5, <3>2, <3>3, <3>4
  <2> QED
    BY <2>1, <2>2
<1>8. PICK k \in Maps, q \in Ranks :
        /\ Moved(p1, h, r, tail', e, place, next', prev', k, q)
        /\ \E v \in Nat : v >= time /\ v < expires[e] + SlotCount /\ SlotIndex(v) = place
  BY <1>7
<1>9. /\ next' \in Nexts /\ prev' \in Prevs
      /\ k[e] = place /\ \A f \in Entries \ {e} : k[f] = h[f] /\ q[f] = r[f]
      /\ Apart(k, q) /\ SlotsWhole(next', prev', k, q) /\ Collected(next', prev', k, q, tail')
      /\ \A f \in Entries : h[f] = NULL => prev'[f] = p1[f]
  BY <1>8 DEF Moved
<1>10. /\ \A f \in Run(home, pos) : k[f] = ListHead
       /\ \A f \in Entries \ Run(home, pos) : f # e => k[f] = home[f] /\ q[f] = pos[f]
  BY <1>3, <1>4, <1>6, <1>9
<1>11. Members(k)'
  BY <1>1, <1>3, <1>4, <1>6, <1>9 DEF Members
<1>12. Expired(k)' = Expired(home) \cup Run(home, pos) /\ Run(k, q)' = {} /\ ToVisit' = ToVisit /\ Cur' = s
  <2>1. Expired(k)' = Expired(home) \cup Run(home, pos)
    <3>1. \A f \in Entries : k[f] = ListHead <=> home[f] = ListHead \/ f \in Run(home, pos)
      BY <1>6, <1>9, <1>10
    <3> QED
      BY <1>4, <3>1 DEF Expired
  <2>2. Run(k, q)' = {} /\ ToVisit' = ToVisit /\ Cur' = s
    BY <1>1, <1>5 DEF Run, ToVisit, Cur, SlotIndex
  <2> QED
    BY <2>1, <2>2
<1>13. due' = Expired(k)' \cup {f \in Entries : expires'[f] < now' /\ k[f] \in ToVisit'}
  <2>1. due = Expired(home) \cup {f \in Entries : expires[f] < now /\ home[f] \in ToVisit} /\ Cur \in ToVisit
    BY <1>4 DEF Collecting
  <2>2. ASSUME NEW f \in Entries
        PROVE  (expires[f] < now /\ home[f] \in ToVisit) \/ f \in Expired(home)
               <=> (expires[f] < now /\ k[f] \in ToVisit) \/ f \in Expired(home) \cup Run(home, pos)
    <3>1. CASE f \in Run(home, pos)
      BY <1>4, <2>1, <3>1
    <3>2. CASE f \notin Run(home, pos)
      BY <1>6, <1>10, <3>2
    <3> QED
      BY <3>1, <3>2
  <2>3. Expired(home) \subseteq Entries /\ Run(home, pos) \subseteq Entries
    BY <1>4 DEF Expired
  <2>4. due = (Expired(home) \cup Run(home, pos)) \cup {f \in Entries : expires[f] < now /\ k[f] \in ToVisit}
    BY <2>1, <2>2, <2>3
  <2> QED
    BY <1>1, <1>12, <2>4
<1>14. Collecting(k, q)'
  <2>1. Collected(next, prev, k, q, tail)'
    BY <1>9 DEF Collected, Leads, OfExpired, Behind
  <2>2. count' = Cardinality(Expired(k)' \cup Run(k, q)')
    <3>1. Expired(k)' \cup Run(k, q)' = Expired(home) \cup Run(home, pos)
      BY <1>12
    <3> QED
      BY <1>1, <1>4, <3>1 DEF Collecting
  <2> QED
    BY <1>1, <1>4, <1>13, <2>1, <2>2 DEF Collecting
\* Where the walk is now.
<1>15. /\ entry' \in Entries \cup {NULL}
       /\ entry' # NULL => home[entry'] = s /\ pos[entry'] < pos[e] /\ entry' \notin Run(home, pos) /\ entry' # e
       /\ \A f \in Entries : home[f] = s /\ pos[f] < pos[e] => entry' # NULL /\ (f = entry' \/ pos[f] < pos[entry'])
  <2>1. entry' = next[e] /\ entry' = n1[e]
    BY <1>1, <1>3, <1>5
  <2>2. Leads(next, prev, home, pos, e)
    BY <1>4, <1>6 DEF SlotsWhole
  <2>3. Leads(n1, p1, h, r, e)
    BY <1>3, <1>6 DEF SlotsWhole
  <2>4. entry' # NULL => entry' \in Entries /\ h[entry'] = s /\ entry' \notin Run(home, pos)
    BY <1>3, <1>6, <2>1, <2>3 DEF Leads, Behind
  <2>5. /\ entry' # NULL => home[entry'] = s /\ pos[entry'] < pos[e]
        /\ \A f \in Entries : home[f] = s /\ pos[f] < pos[e] => entry' # NULL /\ (f = entry' \/ pos[f] < pos[entry'])
    BY <1>6, <2>1, <2>2 DEF Leads, Behind
  <2> QED
    BY <2>4, <2>5 DEF Ranks
<1>16. ASSUME NEW f \in Entries, f # e, home[f] = s, entry' # NULL => pos[f] > pos[entry']
       PROVE  pos[f] > pos[e]
  <2>1. pos[f] # pos[e] /\ pos[f] \in Int /\ pos[e] \in Int
    BY <1>4, <1>6, <1>16 DEF Apart, Ranks
  <2>2. ~ (pos[f] < pos[e])
    BY <1>15, <1>16 DEF Ranks
  <2> QED
    BY <2>1, <2>2
<1>17. Scanning(k, q)'
  <2>1. entry' # NULL => k[entry'] = s
    BY <1>10, <1>15
  <2>2. ASSUME NEW f \in Entries, k[f] = s, entry' # NULL => q[f] > q[entry']
        PROVE  expires'[f] >= now'
    <3>1. CASE f = e
      BY <1>1, <1>4, <1>6, <3>1
    <3>2. CASE f # e
      <4>1. f \notin Run(home, pos) /\ home[f] = s /\ q[f] = pos[f]
        BY <1>10, <2>2, <3>2
      <4>2. entry' # NULL => q[entry'] = pos[entry']
        BY <1>10, <1>15
      <4>3. pos[f] > pos[e]
        BY <1>16, <2>2, <3>2, <4>1, <4>2
      <4> QED
        BY <1>1, <1>4, <1>5, <4>1, <4>3 DEF Scanning
    <3> QED
      BY <3>1, <3>2
  <2>3. time' > BaseTime
    BY <1>1, <1>4 DEF BaseTime
  <2> QED
    BY <1>1, <1>12, <2>1, <2>2, <2>3 DEF Scanning
<1>18. ASSUME NEW f \in Entries, Awaits(k, q, f)'
       PROVE  \E v \in Nat : Timely(k, f, v)'
  <2>1. k[f] \in Slots /\ (k[f] = s /\ entry' # NULL => ~ (q[f] <= q[entry']))
    BY <1>1, <1>12, <1>18 DEF Awaits
  <2>2. CASE f = e
    <3>1. PICK v \in Nat : v >= time /\ v < expires[e] + SlotCount /\ SlotIndex(v) = place
      BY <1>8
    <3>2. Timely(k, f, v)'
      BY <1>1, <1>9, <2>2, <3>1 DEF Timely, SlotIndex
    <3> QED
      BY <3>2
  <2>3. CASE f # e
    <3>1. f \notin Run(home, pos) /\ k[f] = home[f] /\ q[f] = pos[f]
      BY <1>10, <2>1, <2>3
    <3>2. home[f] = s => pos[f] > pos[e]
      <4> SUFFICES ASSUME home[f] = s PROVE pos[f] > pos[e]
        OBVIOUS
      <4>1. entry' # NULL => pos[f] > pos[entry']
        <5> SUFFICES ASSUME entry' # NULL PROVE pos[f] > pos[entry']
          OBVIOUS
        <5>1. q[entry'] = pos[entry'] /\ ~ (pos[f] <= pos[entry']) /\ entry' \in Entries
          BY <1>10, <1>15, <2>1, <3>1
        <5> QED
          BY <5>1 DEF Ranks
      <4> QED
        BY <1>16, <2>3, <4>1
    <3>3. Awaits(home, pos, f)
      <4>1. home[f] = s => ~ (pos[f] <= pos[e])
        BY <3>2 DEF Ranks
      <4> QED
        BY <1>5, <2>1, <3>1, <4>1 DEF Awaits
    <3>4. PICK v \in Nat : Timely(home, f, v)
      BY <3>3 DEF Lists
    <3>5. Timely(k, f, v)'
      BY <1>1, <3>1, <3>4 DEF Timely, SlotIndex
    <3> QED
      BY <3>5
  <2> QED
    BY <2>2, <2>3
<1>19. TypeOK'
  BY <1>1, <1>9, <1>15 DEF TypeOK, Nexts, Prevs, Collected, OfExpired
<1>20. Lists(k, q)'
  <2>1. Apart(k, q)' /\ SlotsWhole(next, prev, k, q)'
    BY <1>9 DEF Apart, SlotsWhole, Leads, LeadsBack, Behind
  <2> QED
    BY <1>1, <1>11, <1>14, <1>17, <1>18, <2>1 DEF Lists
<1> QED
  BY <1>19, <1>20, Exhibit

-----------------------------------------------------------------------------
(* The theorems.                                                               *)

\* Every step of the timer keeps the inductive invariant.
LEMMA StepKeeps == IInv /\ [Next]_vars => IInv'
<1> SUFFICES ASSUME IInv, [Next]_vars PROVE IInv'
  OBVIOUS
<1>1. PICK home \in Maps, pos \in Ranks : Lists(home, pos)
  BY DEF IInv
<1>2. TypeOK
  BY DEF IInv
<1>3. ASSUME NEW e \in Entries, NEW x \in Times, FastTimerAdd(e, x) \/ ModifyEarlier(e, x) \/ ModifyLater(e, x)
      PROVE  IInv'
  BY <1>1, <1>2, <1>3, AddKeeps, EarlierKeeps, LaterKeeps
<1>4. ASSUME NEW e \in Entries, FastTimerRemove(e) PROVE IInv'
  BY <1>1, <1>2, <1>4, RemoveKeeps
<1>5. ASSUME NEW t \in Times, TimeoutsGet(t) PROVE IInv'
  BY <1>1, <1>2, <1>5, TimeoutsGetKeeps
<1>6. CASE VisitSlot
  BY <1>1, <1>2, <1>6, VisitKeeps
<1>7. CASE ScanExpired
  BY <1>1, <1>2, <1>7, ScanExpiredKeeps
<1>8. CASE ScanAlive
  BY <1>1, <1>2, <1>8, ScanAliveKeeps
<1>9. CASE EndSlot
  BY <1>1, <1>2, <1>9, EndSlotKeeps
<1>10. CASE EndTimeouts
  BY <1>1, <1>2, <1>10, EndTimeoutsKeeps
<1>11. CASE DealTimeout
  BY <1>1, <1>2, <1>11, DealKeeps
<1>12. CASE EndDeal
  BY <1>1, <1>2, <1>12, EndDealKeeps
<1>13. CASE UNCHANGED vars
  <2>1. /\ next' = next /\ prev' = prev /\ expires' = expires /\ rehash' = rehash
        /\ time' = time /\ pc' = pc /\ now' = now /\ entry' = entry /\ first' = first
        /\ last' = last /\ tail' = tail /\ count' = count /\ armed' = armed /\ due' = due
    BY <1>13 DEF vars, heap, locals
  <2>2. TypeOK'
    BY <1>2, <2>1 DEF TypeOK
  <2>3. Expired(home)' = Expired(home) /\ Run(home, pos)' = Run(home, pos) /\ ToVisit' = ToVisit /\ Cur' = Cur
    BY <2>1 DEF Expired, Run, ToVisit, Cur, SlotIndex, Between
  <2>4. /\ Members(home)' = Members(home) /\ Apart(home, pos)' = Apart(home, pos)
        /\ SlotsWhole(next, prev, home, pos)' = SlotsWhole(next, prev, home, pos)
        /\ Collected(next, prev, home, pos, tail)' = Collected(next, prev, home, pos, tail)
        /\ \A e \in Entries : Leads(next, prev, home, pos, e)' = Leads(next, prev, home, pos, e)
    BY <2>1 DEF Members, Apart, SlotsWhole, Collected, Leads, LeadsBack, Behind, OfExpired
  <2>5. Collecting(home, pos) => Collecting(home, pos)'
    BY <2>1, <2>3, <2>4 DEF Collecting
  <2>6. Scanning(home, pos) => Scanning(home, pos)'
    BY <2>1, <2>3 DEF Scanning
  <2>7. Dealing(home, pos) => Dealing(home, pos)'
    BY <2>1, <2>3, <2>4 DEF Dealing, Behind, Expired
  <2>8. \A e \in Entries : Awaits(home, pos, e)' => Awaits(home, pos, e)
    BY <2>1, <2>3 DEF Awaits
  <2>9. \A e \in Entries, v \in Nat : Timely(home, e, v) => Timely(home, e, v)'
    BY <2>1 DEF Timely, SlotIndex
  <2>10. Lists(home, pos)'
    BY <1>1, <2>1, <2>3, <2>4, <2>5, <2>6, <2>7, <2>8, <2>9 DEF Lists
  <2> QED
    BY <2>2, <2>10, Exhibit
<1> QED
  BY <1>3, <1>4, <1>5, <1>6, <1>7, <1>8, <1>9, <1>10, <1>11, <1>12, <1>13 DEF Next

\* At the end of a call the list of expired entries is all that was due.
LEMMA AllCollected ==
  ASSUME TypeOK, NEW home \in Maps, NEW pos \in Ranks, Lists(home, pos), pc = "slot", time = now
  PROVE  due = Expired(home) /\ count = Cardinality(due)
<1>1. Collecting(home, pos) /\ time \in Nat
  BY DEF Lists, TypeOK, Times, BaseTime
<1>2. Run(home, pos) = {} /\ time .. now - 1 = {}
  BY <1>1 DEF Run
<1>3. ToVisit = {}
  BY <1>2 DEF ToVisit
<1> QED
  BY <1>1, <1>2, <1>3 DEF Collecting

\* The inductive invariant is strong enough.
LEMMA InvWhole == IInv => WheelWhole
<1> SUFFICES ASSUME IInv PROVE WheelWhole
  OBVIOUS
<1> USE Kinds
<1>1. PICK home \in Maps, pos \in Ranks : Lists(home, pos)
  BY DEF IInv
<1>2. TypeOK /\ next \in Nexts /\ prev \in Prevs
  BY HeapTypes DEF IInv
<1>3. Members(home) /\ SlotsWhole(next, prev, home, pos)
  BY <1>1 DEF Lists
<1>4. pc = "deal" => due = IF entry = NULL THEN {} ELSE {entry} \cup Linked(entry)
  <2> SUFFICES ASSUME pc = "deal"
               PROVE  due = IF entry = NULL THEN {} ELSE {entry} \cup Linked(entry)
    OBVIOUS
  <2>1. Dealing(home, pos)
    BY <1>1 DEF Lists
  <2>2. CASE entry = NULL
    BY <2>1, <2>2 DEF Dealing
  <2>3. CASE entry # NULL
    <3>1. entry \in Entries /\ entry \in Expired(home) /\ home[entry] = ListHead
      BY <1>2, <2>1, <2>3 DEF TypeOK, Dealing, Expired
    <3>2. \A f \in Entries : Behind(home, pos, entry, f) => f \in Expired(home)
      BY <3>1 DEF Behind, Expired
    <3>3. Leads(next, prev, home, pos, entry)
          /\ \A f \in Entries : Behind(home, pos, entry, f) => Leads(next, prev, home, pos, f)
      BY <2>1, <3>1, <3>2 DEF Dealing
    <3>4. Linked(entry) = {f \in Entries : Behind(home, pos, entry, f)}
      BY <1>2, <3>1, <3>3, WalkFinds
    <3>5. Expired(home) = {entry} \cup {f \in Entries : Behind(home, pos, entry, f)}
      BY <2>1, <2>3, <3>1, <3>2 DEF Dealing, Expired
    <3> QED
      BY <2>1, <2>3, <3>4, <3>5 DEF Dealing
  <2> QED
    BY <2>2, <2>3
<1>5. pc = "slot" /\ time = now => count = Cardinality(due)
  BY <1>1, <1>2, AllCollected
<1>6. ASSUME pc = "idle"
      PROVE  /\ \A e \in Entries : Cardinality({s \in Slots : e \in Linked(s)}) = IF e \in armed THEN 1 ELSE 0
             /\ \A s \in Slots : Walk(s)[Cardinality(Entries) + 1] = NULL
             /\ \A c \in Slots \cup armed : next[c] # NULL => prev[next[c]] = c
             /\ \A e \in Entries : prev[e] = NULL <=> e \notin armed
  <2>1. \A e \in Entries : (e \in armed <=> home[e] \in Slots) /\ (e \notin armed <=> home[e] = NULL)
    BY <1>1, <1>3, <1>6 DEF Members, Lists, Expired, Maps, Homes
  <2>2. \A s \in Slots : Linked(s) = {e \in Entries : home[e] = s} /\ Walk(s)[Cardinality(Entries) + 1] = NULL
    BY <1>2, <1>3, SlotLinked DEF N
  <2>3. ASSUME NEW e \in Entries
        PROVE  Cardinality({s \in Slots : e \in Linked(s)}) = IF e \in armed THEN 1 ELSE 0
    <3>1. \A s \in Slots : e \in Linked(s) <=> home[e] = s
      BY <2>2
    <3>2. CASE e \in armed
      <4>1. {s \in Slots : e \in Linked(s)} = {home[e]}
        BY <2>1, <3>1, <3>2
      <4> QED
        BY <3>2, <4>1, FS_Singleton
    <3>3. CASE e \notin armed
      <4>1. {s \in Slots : e \in Linked(s)} = {}
        BY <2>1, <3>1, <3>3
      <4> QED
        BY <3>3, <4>1, FS_EmptySet
    <3> QED
      BY <3>2, <3>3
  <2>4. \A c \in Slots \cup armed : next[c] # NULL => prev[next[c]] = c
    <3>1. armed \subseteq Entries
      BY <1>2 DEF TypeOK
    <3> QED
      BY <1>3, <2>1, <3>1 DEF SlotsWhole, Leads
  <2>5. ASSUME NEW e \in Entries
        PROVE  prev[e] = NULL <=> e \notin armed
    <3>1. CASE e \in armed
      BY <1>3, <2>1, <3>1 DEF SlotsWhole, LeadsBack
    <3>2. CASE e \notin armed
      BY <1>3, <2>1, <3>2 DEF Members
    <3> QED
      BY <3>1, <3>2
  <2> QED
    BY <2>2, <2>3, <2>4, <2>5
<1> QED
  BY <1>2, <1>4, <1>5, <1>6 DEF WheelWhole, ReturnsAllDue

\* What is left in a slot at the end of a call comes up in time.
LEMMA InvLate == IInv => LateByLessThanOneTurn
<1> SUFFICES ASSUME IInv, pc = "slot", time = now, NEW e \in armed \ due
             PROVE  expires[e] + SlotCount > now
  BY DEF LateByLessThanOneTurn
<1> USE Kinds
<1>1. PICK home \in Maps, pos \in Ranks : Lists(home, pos)
  BY DEF IInv
<1>2. TypeOK
  BY DEF IInv
<1>3. due = Expired(home)
  BY <1>1, <1>2, AllCollected
<1>4. e \in Entries /\ home[e] \in Slots
  BY <1>1, <1>2, <1>3 DEF TypeOK, Lists, Members, Expired, Maps, Homes
<1>5. Awaits(home, pos, e)
  BY <1>4 DEF Awaits
<1>6. PICK v \in Nat : Timely(home, e, v)
  BY <1>1, <1>4, <1>5 DEF Lists
<1>7. v >= now /\ v < expires[e] + SlotCount /\ now \in Nat /\ expires[e] \in Nat /\ SlotCount \in Nat
  BY <1>2, <1>4, <1>6, TimerAssumption DEF Timely, TypeOK, Times, BaseTime
<1> QED
  BY <1>7

\* fast_timer.c: the pointers of the wheel, which fast_timer_timeouts_get cuts
\* and splices while it walks them, always make whole lists, with every armed
\* entry in exactly one slot between calls; and a call returns, and counts,
\* exactly the expired entries of the slots it has passed.
THEOREM WheelStaysWhole == Spec => []WheelWhole
<1>1. Spec => []IInv
  BY Starts, StepKeeps, PTL DEF Spec
<1>2. []IInv => []WheelWhole
  BY InvWhole, PTL
<1> QED
  BY <1>1, <1>2, PTL

\* fast_timer.c: whatever fast_timer_modify and the lazy moves do, no call of
\* fast_timer_timeouts_get overlooks an expired entry for a whole turn.
THEOREM NeverATurnLate == Spec => []LateByLessThanOneTurn
<1>1. Spec => []IInv
  BY Starts, StepKeeps, PTL DEF Spec
<1>2. []IInv => []LateByLessThanOneTurn
  BY InvLate, PTL
<1> QED
  BY <1>1, <1>2, PTL

=============================================================================
