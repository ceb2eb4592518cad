---------------------------- MODULE SupportProofs ----------------------------
(***************************************************************************)
(* The memory of libfastcommon, for any number of nodes, trunks and bytes: *)
(* fast_mblock hands a node to one caller and a delayed one never early,   *)
(* fast_mpool cuts blocks that do not overlap, and fast_buffer keeps what  *)
(* was appended.  And its log, for any threads, sizes and days: no line is *)
(* lost, doubled or out of order.                                          *)
(***************************************************************************)
EXTENDS MCSupport, FiniteSetTheorems, SequenceTheorems, WellFoundedInduction, TLAPS

\* What each unit needs of the constants.
BlockConstants == IsFiniteSet(BlockTrunks) /\ PerTrunk \in Nat \ {0} /\ BlockDelays \in SUBSET Int
ArenaConstants == BlockSizes \in SUBSET Nat /\ SizeOnce \in Nat /\ Discard \in Int
BytesConstants == /\ Capacity \in Nat \ {0} /\ FormatRoom \in Nat /\ IntRoom \in Nat
                  /\ Texts \in SUBSET Seq(Int)
LinesConstants ==
  /\ Syncer \notin Loggers /\ "none" \notin Loggers \cup {Syncer}
  /\ BuffSize \in Nat \ {0} /\ MaxDay \in Nat /\ KeepDays \in Int

\* A set of natural numbers that has a member has a least one.
LEMMA Least ==
  ASSUME NEW T, T \subseteq Nat, T # {}
  PROVE  \E m \in T : \A n \in T : m <= n
<1> DEFINE R == OpToRel(<, Nat)
<1>1. PICK x \in T : \A y \in T : ~ (<< y, x >> \in R)
  <2>1. IsWellFoundedOn(R, Nat)
    BY NatLessThanWellFounded
  <2> HIDE DEF R
  <2> QED
    BY <2>1, WFMin
<1>2. ASSUME NEW y \in T PROVE x <= y
  <2>1. ~ (y < x)
    BY <1>1 DEF OpToRel
  <2> QED
    BY <2>1
<1> QED
  BY <1>2
-----------------------------------------------------------------------------
(* A pool of nodes.                                                          *)

NodesOf(T) == T \X (1 .. PerTrunk)
HeldOf(H, t) == {n \in H : n[1] = t}
UsedOf(ref) == {t \in DOMAIN ref : ref[t] > 0}

\* Trunks T with the nodes H held by callers or waiting: the reference counts
\* and the counters agree with them.
Counted(ref, T, H, total, inUse, elements, elementsUsed) ==
  /\ T \in SUBSET BlockTrunks /\ H \in SUBSET NodesOf(T)
  /\ ref \in [T -> Nat] /\ \A t \in T : ref[t] = Cardinality(HeldOf(H, t))
  /\ total = Cardinality(T) /\ inUse = Cardinality(UsedOf(ref))
  /\ elements = PerTrunk * total /\ elementsUsed = Cardinality(H)

\* Nodes, trunks and the nodes of one trunk can be counted.
LEMMA Finite ==
  ASSUME BlockConstants, NEW T \in SUBSET BlockTrunks, NEW H \in SUBSET NodesOf(T)
  PROVE  /\ IsFiniteSet(T) /\ Cardinality(T) \in Nat
         /\ IsFiniteSet(H) /\ Cardinality(H) \in Nat
         /\ \A t : IsFiniteSet(HeldOf(H, t)) /\ Cardinality(HeldOf(H, t)) \in Nat
         /\ \A S \in SUBSET T : IsFiniteSet(S) /\ Cardinality(S) \in Nat
<1>1. \A S \in SUBSET T : IsFiniteSet(S) /\ Cardinality(S) \in Nat
  BY FS_Subset, FS_CardinalityType DEF BlockConstants
<1>2. IsFiniteSet(1 .. PerTrunk)
  BY FS_Interval DEF BlockConstants
<1>3. IsFiniteSet(NodesOf(T))
  BY <1>1, <1>2, FS_Product DEF NodesOf
<1>4. \A G \in SUBSET H : IsFiniteSet(G) /\ Cardinality(G) \in Nat
  BY <1>3, FS_Subset, FS_CardinalityType
<1>5. \A t : HeldOf(H, t) \in SUBSET H
  BY DEF HeldOf
<1> QED
  BY <1>1, <1>4, <1>5

\* fast_mblock_ref_counter_op for a node that is taken.
LEMMA TakenCounted ==
  ASSUME BlockConstants, NEW ref, NEW T, NEW H, NEW total, NEW inUse, NEW el, NEW eu,
         Counted(ref, T, H, total, inUse, el, eu),
         NEW n \in NodesOf(T) \ H
  PROVE  Counted([ref EXCEPT ![n[1]] = @ + 1], T, H \cup {n}, total,
                 IF ref[n[1]] = 0 THEN inUse + 1 ELSE inUse, el, eu + 1)
<1> DEFINE t == n[1]
           new == [ref EXCEPT ![t] = @ + 1]
           G == H \cup {n}
<1>1. t \in T /\ ref \in [T -> Nat] /\ T \in SUBSET BlockTrunks /\ H \in SUBSET NodesOf(T)
      /\ G \in SUBSET NodesOf(T) /\ n \notin H
  BY DEF Counted, NodesOf
<1>2. /\ IsFiniteSet(H) /\ Cardinality(H) \in Nat
      /\ \A u : IsFiniteSet(HeldOf(H, u)) /\ Cardinality(HeldOf(H, u)) \in Nat
      /\ \A S \in SUBSET T : IsFiniteSet(S) /\ Cardinality(S) \in Nat
  BY <1>1, Finite
<1>3. new \in [T -> Nat] /\ new[t] = ref[t] + 1 /\ \A u \in T : u # t => new[u] = ref[u]
  BY <1>1
<1>4. HeldOf(G, t) = HeldOf(H, t) \cup {n} /\ n \notin HeldOf(H, t)
      /\ \A u \in T : u # t => HeldOf(G, u) = HeldOf(H, u)
  BY <1>1 DEF HeldOf
<1>5. Cardinality(HeldOf(G, t)) = Cardinality(HeldOf(H, t)) + 1
  BY <1>2, <1>4, FS_AddElement
<1>6. \A u \in T : new[u] = Cardinality(HeldOf(G, u))
  BY <1>3, <1>4, <1>5 DEF Counted
<1>7. Cardinality(G) = eu + 1
  BY <1>1, <1>2, FS_AddElement DEF Counted
<1>8. (IF ref[t] = 0 THEN inUse + 1 ELSE inUse) = Cardinality(UsedOf(new))
  <2>1. inUse = Cardinality(UsedOf(ref)) /\ UsedOf(ref) \in SUBSET T /\ ref[t] \in Nat
    BY <1>1 DEF Counted, UsedOf
  <2>2. UsedOf(new) = UsedOf(ref) \cup {t}
    BY <1>1, <1>3 DEF UsedOf
  <2>3. t \in UsedOf(ref) <=> ref[t] # 0
    BY <1>1, <2>1 DEF UsedOf
  <2>4. IsFiniteSet(UsedOf(ref))
    BY <1>2, <2>1
  <2>5. Cardinality(UsedOf(new)) = IF t \in UsedOf(ref) THEN Cardinality(UsedOf(ref))
                                   ELSE Cardinality(UsedOf(ref)) + 1
    BY <2>2, <2>4, FS_AddElement
  <2> QED
    BY <2>1, <2>3, <2>5
<1> HIDE DEF new, G, t
<1>9. Counted(new, T, G, total, IF ref[t] = 0 THEN inUse + 1 ELSE inUse, el, eu + 1)
  BY <1>1, <1>3, <1>6, <1>7, <1>8 DEF Counted
<1> QED
  BY <1>9 DEF new, G, t

\* The same for a node that is given back.
LEMMA DroppedCounted ==
  ASSUME BlockConstants, NEW ref, NEW T, NEW H, NEW total, NEW inUse, NEW el, NEW eu,
         Counted(ref, T, H, total, inUse, el, eu), NEW n \in H
  PROVE  Counted([ref EXCEPT ![n[1]] = @ - 1], T, H \ {n}, total,
                 IF ref[n[1]] = 1 THEN inUse - 1 ELSE inUse, el, eu - 1)
<1> DEFINE t == n[1]
           new == [ref EXCEPT ![t] = @ - 1]
           G == H \ {n}
<1>1. t \in T /\ ref \in [T -> Nat] /\ T \in SUBSET BlockTrunks /\ H \in SUBSET NodesOf(T)
      /\ G \in SUBSET NodesOf(T)
  BY DEF Counted, NodesOf
<1>2. /\ IsFiniteSet(H) /\ Cardinality(H) \in Nat
      /\ \A u : IsFiniteSet(HeldOf(H, u)) /\ Cardinality(HeldOf(H, u)) \in Nat
      /\ \A S \in SUBSET T : IsFiniteSet(S) /\ Cardinality(S) \in Nat
  BY <1>1, Finite
<1>3. HeldOf(G, t) = HeldOf(H, t) \ {n} /\ n \in HeldOf(H, t)
      /\ \A u \in T : u # t => HeldOf(G, u) = HeldOf(H, u)
  BY <1>1 DEF HeldOf
<1>4. Cardinality(HeldOf(G, t)) = Cardinality(HeldOf(H, t)) - 1 /\ Cardinality(HeldOf(H, t)) # 0
  <2> DEFINE K == HeldOf(H, t)
  <2>1. IsFiniteSet(K) /\ Cardinality(K) \in Nat /\ n \in K
    BY <1>2, <1>3
  <2> HIDE DEF K
  <2>2. Cardinality(K \ {n}) = Cardinality(K) - 1
    BY <2>1, FS_RemoveElement
  <2>3. Cardinality(K) # 0
    BY <2>1, FS_EmptySet
  <2> QED
    BY <1>3, <2>2, <2>3 DEF K
<1>5. ref[t] \in Nat \ {0} /\ ref[t] = Cardinality(HeldOf(H, t))
  BY <1>1, <1>4 DEF Counted
<1>6. new \in [T -> Nat] /\ new[t] = ref[t] - 1 /\ \A u \in T : u # t => new[u] = ref[u]
  BY <1>1, <1>5
<1>7. \A u \in T : new[u] = Cardinality(HeldOf(G, u))
  BY <1>3, <1>4, <1>5, <1>6 DEF Counted
<1>8. Cardinality(G) = eu - 1
  BY <1>1, <1>2, FS_RemoveElement DEF Counted
<1>9. (IF ref[t] = 1 THEN inUse - 1 ELSE inUse) = Cardinality(UsedOf(new))
  <2>1. inUse = Cardinality(UsedOf(ref)) /\ UsedOf(ref) \in SUBSET T /\ t \in UsedOf(ref)
    BY <1>1, <1>5 DEF Counted, UsedOf
  <2>2. ref[t] = 1 => UsedOf(new) = UsedOf(ref) \ {t}
    BY <1>1, <1>5, <1>6 DEF UsedOf
  <2>3. ref[t] # 1 => UsedOf(new) = UsedOf(ref)
    BY <1>1, <1>5, <1>6 DEF UsedOf
  <2>4. IsFiniteSet(UsedOf(ref))
    BY <1>2, <2>1
  <2> QED
    BY <2>1, <2>2, <2>3, <2>4, FS_RemoveElement
<1> HIDE DEF new, G, t
<1>10. Counted(new, T, G, total, IF ref[t] = 1 THEN inUse - 1 ELSE inUse, el, eu - 1)
  BY <1>1, <1>6, <1>7, <1>8, <1>9 DEF Counted
<1> QED
  BY <1>10 DEF new, G, t

\* fast_mblock_prealloc: a trunk without users comes in.
LEMMA TrunkCounted ==
  ASSUME BlockConstants, NEW ref, NEW T, NEW H, NEW total, NEW inUse, NEW el, NEW eu,
         Counted(ref, T, H, total, inUse, el, eu),
         NEW t \in BlockTrunks \ T
  PROVE  Counted([x \in T \cup {t} |-> IF x = t THEN 0 ELSE ref[x]], T \cup {t}, H,
                 total + 1, inUse, el + PerTrunk, eu)
<1> DEFINE S == T \cup {t}
           new == [x \in S |-> IF x = t THEN 0 ELSE ref[x]]
<1>1. /\ ref \in [T -> Nat] /\ T \in SUBSET BlockTrunks /\ H \in SUBSET NodesOf(T)
      /\ total = Cardinality(T) /\ el = PerTrunk * total /\ PerTrunk \in Nat
      /\ inUse = Cardinality(UsedOf(ref)) /\ eu = Cardinality(H)
  BY DEF Counted, BlockConstants
<1>2. IsFiniteSet(T) /\ Cardinality(T) \in Nat
  BY <1>1, Finite
<1>3. S \in SUBSET BlockTrunks /\ H \in SUBSET NodesOf(S) /\ new \in [S -> Nat]
  BY <1>1 DEF NodesOf
<1>4. HeldOf(H, t) = {}
  BY <1>1 DEF HeldOf, NodesOf
<1>5. \A u \in S : new[u] = Cardinality(HeldOf(H, u))
  <2>1. \A u \in T : u # t /\ new[u] = ref[u] /\ ref[u] = Cardinality(HeldOf(H, u))
    BY DEF Counted
  <2>2. new[t] = 0 /\ Cardinality(HeldOf(H, t)) = 0
    BY <1>4, FS_EmptySet
  <2> QED
    BY <2>1, <2>2
<1>6. UsedOf(new) = UsedOf(ref)
  BY <1>1 DEF UsedOf
<1>7. Cardinality(S) = total + 1
  BY <1>1, <1>2, FS_AddElement
<1>8. el + PerTrunk = PerTrunk * (total + 1)
  BY <1>1, <1>2
<1> HIDE DEF new, S
<1>9. Counted(new, S, H, total + 1, inUse, el + PerTrunk, eu)
  BY <1>1, <1>3, <1>5, <1>6, <1>7, <1>8 DEF Counted
<1> QED
  BY <1>9 DEF new, S

\* fast_mblock_remove_trunk: trunks without users go.
LEMMA TrunksGoneCounted ==
  ASSUME BlockConstants, NEW ref, NEW T, NEW H, NEW total, NEW inUse, NEW el, NEW eu,
         Counted(ref, T, H, total, inUse, el, eu),
         NEW I \in SUBSET T, \A t \in I : ref[t] = 0
  PROVE  Counted([x \in T \ I |-> ref[x]], T \ I, H,
                 total - Cardinality(I), inUse, el - PerTrunk * Cardinality(I), eu)
<1> DEFINE S == T \ I
           new == [x \in S |-> ref[x]]
<1>1. /\ ref \in [T -> Nat] /\ T \in SUBSET BlockTrunks /\ H \in SUBSET NodesOf(T)
      /\ total = Cardinality(T) /\ el = PerTrunk * total /\ PerTrunk \in Nat
      /\ inUse = Cardinality(UsedOf(ref)) /\ eu = Cardinality(H)
  BY DEF Counted, BlockConstants
<1>2. /\ IsFiniteSet(T) /\ Cardinality(T) \in Nat /\ IsFiniteSet(I) /\ Cardinality(I) \in Nat
      /\ \A t : IsFiniteSet(HeldOf(H, t))
  BY <1>1, Finite
<1>3. \A t \in I : HeldOf(H, t) = {}
  <2>1. \A t \in I : Cardinality(HeldOf(H, t)) = 0
    BY DEF Counted
  <2> QED
    BY <1>2, <2>1, FS_EmptySet
<1>4. S \in SUBSET BlockTrunks /\ H \in SUBSET NodesOf(S) /\ new \in [S -> Nat]
  <2>1. \A n \in H : n \in NodesOf(T) /\ n[1] \notin I
    BY <1>1, <1>3 DEF HeldOf
  <2> QED
    BY <1>1, <2>1 DEF NodesOf
<1>5. \A u \in S : new[u] = Cardinality(HeldOf(H, u))
  BY DEF Counted
<1>6. UsedOf(new) = UsedOf(ref)
  BY <1>1 DEF UsedOf
<1>7. Cardinality(S) = total - Cardinality(I)
  <2>1. T \cap I = I
    OBVIOUS
  <2> QED
    BY <1>1, <1>2, <2>1, FS_Difference
<1>8. el - PerTrunk * Cardinality(I) = PerTrunk * (total - Cardinality(I))
  BY <1>1, <1>2
<1> HIDE DEF new, S
<1>9. Counted(new, S, H, total - Cardinality(I), inUse, el - PerTrunk * Cardinality(I), eu)
  BY <1>1, <1>4, <1>5, <1>6, <1>7, <1>8 DEF Counted
<1> QED
  BY <1>9 DEF new, S

\* The members of a finite set of numbers can be counted from below.
LEMMA Ranked ==
  ASSUME NEW K \in SUBSET Nat, IsFiniteSet(K)
  PROVE  /\ Cardinality(K) \in Nat
         /\ \A k \in 1 .. Cardinality(K) : \E i \in K : Cardinality({j \in K : j < i}) = k - 1
         /\ \A i \in K : \E k \in 1 .. Cardinality(K) : Cardinality({j \in K : j < i}) = k - 1
         /\ \A i, h \in K : Cardinality({j \in K : j < i}) = Cardinality({j \in K : j < h}) => i = h
<1> DEFINE N == Cardinality(K)
           R(i) == {j \in K : j < i}
           f == [i \in K |-> Cardinality(R(i)) + 1]
<1>1. N \in Nat
  BY FS_CardinalityType
<1>2. \A i \in K : IsFiniteSet(R(i)) /\ Cardinality(R(i)) \in Nat
  <2>1. \A i \in K : R(i) \in SUBSET K
    OBVIOUS
  <2> QED
    BY <2>1, FS_Subset, FS_CardinalityType
<1>3. ASSUME NEW i \in K PROVE Cardinality(R(i)) + 1 \in 1 .. N
  <2>1. R(i) \cup {i} \in SUBSET K /\ i \notin R(i)
    OBVIOUS
  <2> HIDE DEF R
  <2>2. Cardinality(R(i) \cup {i}) = Cardinality(R(i)) + 1
    BY <1>2, <2>1, FS_AddElement
  <2>3. Cardinality(R(i) \cup {i}) <= N
    BY <2>1, FS_Subset
  <2> QED
    BY <1>1, <1>2, <2>2, <2>3
<1>4. ASSUME NEW i \in K, NEW h \in K, i < h PROVE Cardinality(R(i)) # Cardinality(R(h))
  <2>1. R(i) \cup {i} \in SUBSET R(h) /\ i \notin R(i)
    <3>1. i < h /\ ~ (i < i) /\ \A j \in K : j < i => j < h
      BY <1>4
    <3> QED
      BY <3>1, Zenon
  <2> HIDE DEF R
  <2>2. Cardinality(R(i) \cup {i}) = Cardinality(R(i)) + 1
    BY <1>2, <2>1, FS_AddElement
  <2>3. Cardinality(R(i) \cup {i}) <= Cardinality(R(h))
    BY <1>2, <2>1, FS_Subset
  <2> QED
    BY <1>2, <2>2, <2>3
<1>5. \A i, h \in K : Cardinality(R(i)) = Cardinality(R(h)) => i = h
  <2> SUFFICES ASSUME NEW i \in K, NEW h \in K, Cardinality(R(i)) = Cardinality(R(h)) PROVE i = h
    OBVIOUS
  <2>1. ~ (i < h) /\ ~ (h < i)
    BY <1>4
  <2> QED
    BY <2>1
<1> HIDE DEF R
<1>6. f \in [K -> 1 .. N] /\ \A i, h \in K : f[i] = f[h] => i = h
  <2>1. f \in [K -> 1 .. N]
    BY <1>3
  <2>2. \A i \in K : f[i] = Cardinality(R(i)) + 1 /\ Cardinality(R(i)) \in Nat
    BY <1>2
  <2> QED
    BY <1>5, <2>1, <2>2
<1>7. f \in Surjection(K, 1 .. N)
  <2>1. f \in Injection(K, 1 .. N)
    BY <1>6 DEF Injection, IsInjective
  <2>2. IsFiniteSet(1 .. N) /\ Cardinality(1 .. N) = N
    BY <1>1, FS_Interval
  <2> HIDE DEF f
  <2> QED
    BY <2>1, <2>2, FS_Injection
<1>8. \A k \in 1 .. N : \E i \in K : f[i] = k
  BY <1>7 DEF Surjection
<1>9. \A k \in 1 .. N : \E i \in K : Cardinality(R(i)) = k - 1
  <2> SUFFICES ASSUME NEW k \in 1 .. N PROVE \E i \in K : Cardinality(R(i)) = k - 1
    OBVIOUS
  <2>1. PICK i \in K : f[i] = k
    BY <1>8
  <2> QED
    BY <1>2, <2>1
<1>10. \A i \in K : \E k \in 1 .. N : Cardinality(R(i)) = k - 1
  <2> SUFFICES ASSUME NEW i \in K PROVE \E k \in 1 .. N : Cardinality(R(i)) = k - 1
    OBVIOUS
  <2>1. Cardinality(R(i)) = (Cardinality(R(i)) + 1) - 1
    BY <1>2
  <2> QED
    BY <1>3, <2>1
<1> QED
  BY <1>1, <1>5, <1>9, <1>10 DEF R

\* The pool counts as everybody does.
LEMMA SameCardinality == \A S : Block!Cardinality(S) = Cardinality(S)
  BY DEF Block!Cardinality, Cardinality

\* The nodes that stay in a chain when others are taken out.
LEMMA WithoutHas ==
  ASSUME NEW S, NEW s \in Seq(S), NEW N, \A i, j \in 1 .. Len(s) : s[i] = s[j] => i = j
  PROVE  LET w == Block!Without(s, N) IN
         /\ w \in Seq(S) /\ \A i, j \in 1 .. Len(w) : w[i] = w[j] => i = j
         /\ \A k \in 1 .. Len(w) : w[k] \notin N /\ \E i \in 1 .. Len(s) : s[i] = w[k]
         /\ \A i \in 1 .. Len(s) : s[i] \notin N => \E k \in 1 .. Len(w) : w[k] = s[i]
<1> DEFINE K == {i \in DOMAIN s : s[i] \notin N}
           R(i) == Block!Cardinality({j \in K : j < i})
           At(k) == CHOOSE i \in K : R(i) = k - 1
           n == Block!Cardinality(K)
           w == [k \in 1 .. n |-> s[At(k)]]
<1>1. Block!Without(s, N) = w
  BY DEF Block!Without
<1>2. DOMAIN s = 1 .. Len(s) /\ Len(s) \in Nat /\ \A i \in 1 .. Len(s) : s[i] \in S
  OBVIOUS
<1>3. K \in SUBSET Nat /\ IsFiniteSet(K) /\ \A i \in K : i \in 1 .. Len(s) /\ s[i] \notin N
  <2>1. IsFiniteSet(1 .. Len(s)) /\ K \in SUBSET (1 .. Len(s))
    BY <1>2, FS_Interval
  <2>2. IsFiniteSet(K)
    BY <2>1, FS_Subset
  <2> QED
    BY <2>1, <2>2
<1>4. \A i \in 1 .. Len(s) : s[i] \notin N => i \in K
  BY <1>2
<1> HIDE DEF K
<1>5. /\ n \in Nat
      /\ \A k \in 1 .. n : \E i \in K : R(i) = k - 1
      /\ \A i \in K : \E k \in 1 .. n : R(i) = k - 1
      /\ \A i, h \in K : R(i) = R(h) => i = h
  <2> DEFINE C(i) == Cardinality({j \in K : j < i})
             m == Cardinality(K)
  <2>1. n = m /\ \A i : R(i) = C(i)
    BY SameCardinality
  <2>2. /\ m \in Nat
        /\ \A k \in 1 .. m : \E i \in K : C(i) = k - 1
        /\ \A i \in K : \E k \in 1 .. m : C(i) = k - 1
        /\ \A i, h \in K : C(i) = C(h) => i = h
    BY <1>3, Ranked
  <2> HIDE DEF R, n, C, m
  <2> QED
    BY <2>1, <2>2
<1> HIDE DEF R, n
<1>6. \A k \in 1 .. n : At(k) \in K /\ R(At(k)) = k - 1
  BY <1>5
<1>7. \A i \in K : \E k \in 1 .. n : At(k) = i
  BY <1>5, <1>6
<1>8. \A k, l \in 1 .. n : At(k) = At(l) => k = l
  BY <1>6
<1> HIDE DEF At
<1>9. w \in Seq(S) /\ Len(w) = n /\ \A k \in 1 .. n : w[k] = s[At(k)]
  <2>1. \A k \in 1 .. n : s[At(k)] \in S
    BY <1>2, <1>3, <1>6
  <2>2. w \in [1 .. n -> S]
    BY <2>1
  <2>3. \A k \in 1 .. n : w[k] = s[At(k)]
    OBVIOUS
  <2> HIDE DEF w
  <2> QED
    BY ONLY <1>5, <2>2, <2>3
<1> HIDE DEF w
<1>10. ASSUME NEW k \in 1 .. n, NEW l \in 1 .. n, w[k] = w[l] PROVE k = l
  <2>1. At(k) \in 1 .. Len(s) /\ At(l) \in 1 .. Len(s) /\ s[At(k)] = s[At(l)]
    BY <1>3, <1>6, <1>9, <1>10
  <2> QED
    BY <1>8, <2>1
<1>11. \A k \in 1 .. n : w[k] \notin N /\ \E i \in 1 .. Len(s) : s[i] = w[k]
  BY <1>3, <1>6, <1>9
<1>12. \A i \in 1 .. Len(s) : s[i] \notin N => \E k \in 1 .. n : w[k] = s[i]
  BY <1>4, <1>7, <1>9
<1> QED
  BY <1>1, <1>9, <1>10, <1>11, <1>12

\* A pool k with these fields.
PoolIs(k, ref, free, delayed, total, inUse, el, eu) ==
  /\ DOMAIN k = {"ref", "free", "delayed", "trunkTotal", "trunkUsed", "elements", "elementsUsed"}
  /\ k.ref = ref /\ k.free = free /\ k.delayed = delayed
  /\ k.trunkTotal = total /\ k.trunkUsed = inUse
  /\ k.elements = el /\ k.elementsUsed = eu

Fields(m) == PoolIs(m, m.ref, m.free, m.delayed, m.trunkTotal, m.trunkUsed, m.elements, m.elementsUsed)

\* fast_mblock_ref_counter_op.
LEMMA RefIncIs ==
  ASSUME NEW m, NEW ref, NEW free, NEW delayed, NEW total, NEW inUse, NEW el, NEW eu,
         PoolIs(m, ref, free, delayed, total, inUse, el, eu), NEW t
  PROVE  PoolIs(Block!RefInc(m, t), [ref EXCEPT ![t] = @ + 1], free, delayed, total,
                IF ref[t] = 0 THEN inUse + 1 ELSE inUse, el, eu)
<1> DEFINE R == [m.ref EXCEPT ![t] = @ + 1]
           V == IF m.ref[t] = 0 THEN m.trunkUsed + 1 ELSE m.trunkUsed
           k == [m EXCEPT !.ref = R, !.trunkUsed = V]
<1>1. Block!RefInc(m, t) = k
  BY DEF Block!RefInc
<1>2. R = [ref EXCEPT ![t] = @ + 1] /\ V = IF ref[t] = 0 THEN inUse + 1 ELSE inUse
  BY DEF PoolIs
<1> HIDE DEF R, V
<1>3. PoolIs(k, R, free, delayed, total, V, el, eu)
  BY DEF PoolIs
<1> QED
  BY <1>1, <1>2, <1>3

\* fast_mblock_ref_counter_op for a node that comes back.
LEMMA RefDecIs ==
  ASSUME NEW m, NEW ref, NEW free, NEW delayed, NEW total, NEW inUse, NEW el, NEW eu,
         PoolIs(m, ref, free, delayed, total, inUse, el, eu), NEW t
  PROVE  PoolIs(Block!RefDec(m, t), [ref EXCEPT ![t] = @ - 1], free, delayed, total,
                IF ref[t] = 1 THEN inUse - 1 ELSE inUse, el, eu)
<1> DEFINE R == [m.ref EXCEPT ![t] = @ - 1]
           V == IF m.ref[t] = 1 THEN m.trunkUsed - 1 ELSE m.trunkUsed
           k == [m EXCEPT !.ref = R, !.trunkUsed = V]
<1>1. Block!RefDec(m, t) = k
  BY DEF Block!RefDec
<1>2. R = [ref EXCEPT ![t] = @ - 1] /\ V = IF ref[t] = 1 THEN inUse - 1 ELSE inUse
  BY DEF PoolIs
<1> HIDE DEF R, V
<1>3. PoolIs(k, R, free, delayed, total, V, el, eu)
  BY DEF PoolIs
<1> QED
  BY <1>1, <1>2, <1>3

\* What the operations on a pool do to its fields.
LEMMA PoolOperations ==
  ASSUME NEW m, NEW ref, NEW free, NEW delayed, NEW total, NEW inUse, NEW el, NEW eu,
         PoolIs(m, ref, free, delayed, total, inUse, el, eu)
  PROVE  /\ PoolIs(Block!TakeFree(m), [ref EXCEPT ![free[1][1]] = @ + 1], Tail(free), delayed, total,
                   IF ref[free[1][1]] = 0 THEN inUse + 1 ELSE inUse, el, eu + 1)
         /\ PoolIs([m EXCEPT !.delayed = Tail(@)], ref, free, Tail(delayed), total, inUse, el, eu)
         /\ \A n : PoolIs(Block!FreeNode(m, n), [ref EXCEPT ![n[1]] = @ - 1], << n >> \o free, delayed,
                          total, IF ref[n[1]] = 1 THEN inUse - 1 ELSE inUse, el, eu - 1)
         /\ \A n, at : PoolIs(Block!DelayFree(m, n, at), ref, free,
                              Append(delayed, [node |-> n, at |-> at]), total, inUse, el, eu)
         /\ \A t : PoolIs(Block!Prealloc(m, t), [x \in DOMAIN ref \cup {t} |-> IF x = t THEN 0 ELSE ref[x]],
                          [i \in 1 .. PerTrunk |-> << t, i >>], delayed, total + 1, inUse,
                          el + PerTrunk, eu)
<1>1. PoolIs(Block!TakeFree(m), [ref EXCEPT ![free[1][1]] = @ + 1], Tail(free), delayed, total,
             IF ref[free[1][1]] = 0 THEN inUse + 1 ELSE inUse, el, eu + 1)
  <2> DEFINE k == [m EXCEPT !.free = Tail(@), !.elementsUsed = @ + 1]
             t == free[1][1]
  <2>1. Block!TakeFree(m) = Block!RefInc(k, t)
    BY DEF Block!TakeFree, Block!TrunkOf, PoolIs
  <2>2. PoolIs(k, ref, Tail(free), delayed, total, inUse, el, eu + 1)
    BY DEF PoolIs
  <2> HIDE DEF k, t
  <2>3. PoolIs(Block!RefInc(k, t), [ref EXCEPT ![t] = @ + 1], Tail(free), delayed, total,
               IF ref[t] = 0 THEN inUse + 1 ELSE inUse, el, eu + 1)
    BY <2>2, RefIncIs
  <2> QED
    BY <2>1, <2>3 DEF t
<1>2. PoolIs([m EXCEPT !.delayed = Tail(@)], ref, free, Tail(delayed), total, inUse, el, eu)
  BY DEF PoolIs
<1>3. ASSUME NEW n
      PROVE  PoolIs(Block!FreeNode(m, n), [ref EXCEPT ![n[1]] = @ - 1], << n >> \o free, delayed,
                    total, IF ref[n[1]] = 1 THEN inUse - 1 ELSE inUse, el, eu - 1)
  <2> DEFINE k == [m EXCEPT !.free = << n >> \o @, !.elementsUsed = @ - 1]
             t == n[1]
             s == << n >> \o free
  <2>1. Block!FreeNode(m, n) = Block!RefDec(k, t)
    BY DEF Block!FreeNode, Block!TrunkOf
  <2>2. PoolIs(k, ref, s, delayed, total, inUse, el, eu - 1)
    BY DEF PoolIs
  <2> HIDE DEF k, t, s
  <2>3. PoolIs(Block!RefDec(k, t), [ref EXCEPT ![t] = @ - 1], s, delayed, total,
               IF ref[t] = 1 THEN inUse - 1 ELSE inUse, el, eu - 1)
    BY <2>2, RefDecIs
  <2> QED
    BY <2>1, <2>3 DEF t, s
<1>4. ASSUME NEW n, NEW at
      PROVE  PoolIs(Block!DelayFree(m, n, at), ref, free,
                    Append(delayed, [node |-> n, at |-> at]), total, inUse, el, eu)
  <2> DEFINE e == [node |-> n, at |-> at]
  <2>1. Block!DelayFree(m, n, at) = [m EXCEPT !.delayed = Append(@, e)]
    BY DEF Block!DelayFree
  <2> HIDE DEF e
  <2>2. PoolIs([m EXCEPT !.delayed = Append(@, e)], ref, free, Append(delayed, e), total, inUse, el, eu)
    BY DEF PoolIs
  <2> QED
    BY <2>1, <2>2 DEF e
<1>5. ASSUME NEW t
      PROVE  PoolIs(Block!Prealloc(m, t), [x \in DOMAIN ref \cup {t} |-> IF x = t THEN 0 ELSE ref[x]],
                    [i \in 1 .. PerTrunk |-> << t, i >>], delayed, total + 1, inUse, el + PerTrunk, eu)
  <2> DEFINE r == [x \in DOMAIN m.ref \cup {t} |-> IF x = t THEN 0 ELSE m.ref[x]]
             s == [i \in 1 .. PerTrunk |-> << t, i >>]
  <2>1. Block!Prealloc(m, t) = [m EXCEPT !.ref = r, !.free = s, !.trunkTotal = @ + 1, !.elements = @ + PerTrunk]
    BY DEF Block!Prealloc, Block!Ref
  <2>2. m.ref = ref
    BY DEF PoolIs
  <2>3. r = [x \in DOMAIN ref \cup {t} |-> IF x = t THEN 0 ELSE ref[x]]
    BY <2>2, Zenon
  <2> HIDE DEF r, s
  <2>4. PoolIs(Block!Prealloc(m, t), r, s, delayed, total + 1, inUse, el + PerTrunk, eu)
    BY <2>1 DEF PoolIs
  <2> QED
    BY <2>3, <2>4 DEF s
<1> QED
  BY <1>1, <1>2, <1>3, <1>4, <1>5

\* fast_mblock_do_reclaim: the fields after it.
LEMMA ReclaimIs ==
  ASSUME NEW m, NEW ref, NEW free, NEW delayed, NEW total, NEW inUse, NEW el, NEW eu,
         PoolIs(m, ref, free, delayed, total, inUse, el, eu), NEW target,
         NEW I, I = Block!Idle(m, target)
  PROVE  PoolIs(Block!DoReclaim(m, target), [x \in DOMAIN ref \ I |-> ref[x]],
                Block!Without(free, NodesOf(I)), delayed, total - Cardinality(I), inUse,
                el - PerTrunk * Cardinality(I), eu)
<1> DEFINE s == Block!Without(free, NodesOf(I))
           k == [m EXCEPT !.free = s]
           r == Block!Restrict(k.ref, DOMAIN k.ref \ I)
           c == Cardinality(I)
<1>1. Block!DoReclaim(m, target) = Block!RemoveTrunks(k, I)
  BY DEF Block!DoReclaim, NodesOf, PoolIs
<1>2. Block!RemoveTrunks(k, I) =
        [k EXCEPT !.ref = r, !.trunkTotal = @ - c, !.elements = @ - PerTrunk * c]
  BY SameCardinality DEF Block!RemoveTrunks
<1> HIDE DEF s, c
<1>3. PoolIs(k, ref, s, delayed, total, inUse, el, eu)
  BY DEF PoolIs
<1>4. r = [x \in DOMAIN ref \ I |-> ref[x]]
  BY <1>3, Zenon DEF Block!Restrict, PoolIs
<1> HIDE DEF k, r
<1>5. PoolIs(Block!RemoveTrunks(k, I), r, s, delayed, total - c, inUse, el - PerTrunk * c, eu)
  BY <1>2, <1>3 DEF PoolIs
<1> QED
  BY <1>1, <1>4, <1>5 DEF s, c

Waits(T) == [node : NodesOf(T), at : Int]
HeldNodes(U, delayed) == U \cup {delayed[i].node : i \in 1 .. Len(delayed)}

\* Of the nodes of the trunks T, each is with a caller, U, waits or is free,
\* exactly one of these and once.
Placed(free, delayed, U, T) ==
  /\ free \in Seq(NodesOf(T)) /\ \A i, j \in 1 .. Len(free) : free[i] = free[j] => i = j
  /\ delayed \in Seq(Waits(T))
  /\ \A i, j \in 1 .. Len(delayed) : delayed[i].node = delayed[j].node => i = j
  /\ U \in SUBSET NodesOf(T)
  /\ \A i \in 1 .. Len(free) : free[i] \notin U
  /\ \A j \in 1 .. Len(delayed) : delayed[j].node \notin U
  /\ \A i \in 1 .. Len(free), j \in 1 .. Len(delayed) : free[i] # delayed[j].node
  /\ \A n \in NodesOf(T) : \/ n \in U
                           \/ \E i \in 1 .. Len(free) : free[i] = n
                           \/ \E j \in 1 .. Len(delayed) : delayed[j].node = n

Whole(m, U) ==
  /\ Fields(m)
  /\ Placed(m.free, m.delayed, U, DOMAIN m.ref)
  /\ Counted(m.ref, DOMAIN m.ref, HeldNodes(U, m.delayed),
             m.trunkTotal, m.trunkUsed, m.elements, m.elementsUsed)

\* A pool with these fields is whole when they are placed and counted right.
LEMMA WholePool ==
  ASSUME NEW ref, NEW free, NEW delayed, NEW total, NEW inUse, NEW el, NEW eu, NEW U, NEW T,
         Placed(free, delayed, U, T),
         Counted(ref, T, HeldNodes(U, delayed), total, inUse, el, eu),
         NEW m, PoolIs(m, ref, free, delayed, total, inUse, el, eu)
  PROVE  Whole(m, U) /\ DOMAIN m.ref = T
<1>1. DOMAIN ref = T
  BY DEF Counted
<1> QED
  BY <1>1 DEF Whole, Fields, PoolIs

\* The head and the rest of a chain.
LEMMA HeadAndRest ==
  ASSUME NEW S, NEW s \in Seq(S), s # << >>, \A i, j \in 1 .. Len(s) : s[i] = s[j] => i = j
  PROVE  /\ s[1] \in S /\ Tail(s) \in Seq(S) /\ Len(Tail(s)) = Len(s) - 1 /\ Len(s) \in Nat \ {0}
         /\ \A i \in 1 .. Len(Tail(s)) : /\ Tail(s)[i] = s[i + 1] /\ i + 1 \in 1 .. Len(s)
                                         /\ Tail(s)[i] # s[1]
         /\ \A i \in 1 .. Len(s) : i = 1 \/ \E j \in 1 .. Len(Tail(s)) : Tail(s)[j] = s[i]
         /\ \A i, j \in 1 .. Len(Tail(s)) : Tail(s)[i] = Tail(s)[j] => i = j
<1>1. Len(s) \in Nat \ {0} /\ 1 \in 1 .. Len(s)
  BY EmptySeq
<1>2. s[1] \in S /\ Tail(s) \in Seq(S) /\ Len(Tail(s)) = Len(s) - 1
      /\ \A i \in 1 .. Len(s) - 1 : Tail(s)[i] = s[i + 1]
  BY <1>1
<1> DEFINE r == Tail(s)
<1> HIDE DEF r
<1>3. \A i \in 1 .. Len(s) - 1 : i + 1 \in 1 .. Len(s) /\ i + 1 # 1
  BY <1>1
<1>4. Len(r) = Len(s) - 1 /\ \A i \in 1 .. Len(s) - 1 : r[i] = s[i + 1]
  BY <1>2 DEF r
<1>5. \A i \in 1 .. Len(r) : r[i] = s[i + 1] /\ i + 1 \in 1 .. Len(s) /\ r[i] # s[1]
  BY <1>1, <1>3, <1>4
<1>6. ASSUME NEW i \in 1 .. Len(s), i # 1 PROVE \E j \in 1 .. Len(r) : r[j] = s[i]
  <2>1. i - 1 \in 1 .. Len(r) /\ (i - 1) + 1 = i
    BY <1>1, <1>4, <1>6
  <2> QED
    BY <1>5, <2>1
<1>7. ASSUME NEW i \in 1 .. Len(r), NEW j \in 1 .. Len(r), r[i] = r[j] PROVE i = j
  <2>1. i + 1 = j + 1
    BY <1>5, <1>7
  <2> QED
    BY <2>1
<1> QED
  BY <1>1, <1>2, <1>5, <1>6, <1>7 DEF r

\* fast_mblock_alloc from the free chain.
LEMMA TakeFreeWhole ==
  ASSUME BlockConstants, NEW m, NEW U, Whole(m, U), m.free # << >>
  PROVE  LET n == m.free[1] IN
         /\ Whole(Block!TakeFree(m), U \cup {n}) /\ DOMAIN Block!TakeFree(m).ref = DOMAIN m.ref
         /\ \A j \in 1 .. Len(m.delayed) : m.delayed[j].node # n
<1> DEFINE ref == m.ref
           free == m.free
           delayed == m.delayed
           T == DOMAIN ref
           n == free[1]
           t == n[1]
           inUse == m.trunkUsed
           ref2 == [ref EXCEPT ![t] = @ + 1]
           inUse2 == IF ref[t] = 0 THEN inUse + 1 ELSE inUse
<1>1. PoolIs(m, ref, free, delayed, m.trunkTotal, inUse, m.elements, m.elementsUsed)
  BY DEF Whole, Fields
<1>2. PoolIs(Block!TakeFree(m), ref2, Tail(free), delayed, m.trunkTotal, inUse2, m.elements,
             m.elementsUsed + 1)
  <2> HIDE DEF ref, free, delayed, inUse
  <2> QED
    BY <1>1, PoolOperations
<1>3. /\ Placed(free, delayed, U, T)
      /\ Counted(ref, T, HeldNodes(U, delayed), m.trunkTotal, inUse, m.elements, m.elementsUsed)
  BY DEF Whole
<1> HIDE DEF ref, free, delayed, T
<1>4. /\ n \in NodesOf(T) /\ Tail(free) \in Seq(NodesOf(T)) /\ Len(free) \in Nat \ {0}
      /\ \A i \in 1 .. Len(Tail(free)) : /\ Tail(free)[i] = free[i + 1] /\ i + 1 \in 1 .. Len(free)
                                         /\ Tail(free)[i] # n
      /\ \A i \in 1 .. Len(free) : i = 1 \/ \E j \in 1 .. Len(Tail(free)) : Tail(free)[j] = free[i]
      /\ \A i, j \in 1 .. Len(Tail(free)) : Tail(free)[i] = Tail(free)[j] => i = j
  <2>1. free \in Seq(NodesOf(T)) /\ free # << >> /\ \A i, j \in 1 .. Len(free) : free[i] = free[j] => i = j
    BY <1>3 DEF Placed, free
  <2> QED
    BY <2>1, HeadAndRest
<1>5. 1 \in 1 .. Len(free)
  BY <1>4
<1>6. n \notin U /\ \A j \in 1 .. Len(delayed) : delayed[j].node # n
  BY <1>3, <1>5 DEF Placed
<1>7. Placed(Tail(free), delayed, U \cup {n}, T)
  <2> DEFINE r == Tail(free)
  <2> HIDE DEF r, n
  <2>1. \A i \in 1 .. Len(r) : r[i] \notin U \cup {n} /\ \A j \in 1 .. Len(delayed) : r[i] # delayed[j].node
    BY <1>3, <1>4 DEF Placed, r
  <2>2. ASSUME NEW x \in NodesOf(T)
        PROVE  x \in U \cup {n} \/ (\E i \in 1 .. Len(r) : r[i] = x)
               \/ \E j \in 1 .. Len(delayed) : delayed[j].node = x
    <3>1. CASE \E i \in 1 .. Len(free) : free[i] = x
      BY <1>4, <3>1 DEF n, r
    <3> QED
      BY <1>3, <3>1 DEF Placed
  <2>3. U \cup {n} \in SUBSET NodesOf(T)
    BY <1>3, <1>4 DEF Placed
  <2> QED
    BY <1>3, <1>4, <1>6, <2>1, <2>2, <2>3 DEF Placed, r
<1>8. HeldNodes(U \cup {n}, delayed) = HeldNodes(U, delayed) \cup {n} /\ n \notin HeldNodes(U, delayed)
  BY <1>6 DEF HeldNodes
<1>9. Counted(ref2, T, HeldNodes(U \cup {n}, delayed), m.trunkTotal, inUse2, m.elements, m.elementsUsed + 1)
  <2> DEFINE H == HeldNodes(U, delayed)
             eu == m.elementsUsed
             el == m.elements
             total == m.trunkTotal
  <2>1. n \in NodesOf(T) \ H /\ Counted(ref, T, H, total, inUse, el, eu)
    BY <1>3, <1>4, <1>8
  <2> HIDE DEF H, n, inUse, eu, el, total
  <2>2. Counted([ref EXCEPT ![n[1]] = @ + 1], T, H \cup {n}, total,
                IF ref[n[1]] = 0 THEN inUse + 1 ELSE inUse, el, eu + 1)
    BY <2>1, TakenCounted
  <2> QED
    BY <1>8, <2>2 DEF H, eu, el, total
<1> HIDE DEF n, ref2, inUse2
<1>10. Whole(Block!TakeFree(m), U \cup {n}) /\ DOMAIN Block!TakeFree(m).ref = T
  BY <1>2, <1>7, <1>9, WholePool
<1> QED
  BY <1>6, <1>10 DEF n, T, ref, free, delayed

\* fast_mblock_alloc when the first of the delayed nodes is due.
LEMMA TakeDelayedWhole ==
  ASSUME NEW m, NEW U, Whole(m, U), m.delayed # << >>
  PROVE  LET m2 == [m EXCEPT !.delayed = Tail(@)] IN
         Whole(m2, U \cup {m.delayed[1].node}) /\ DOMAIN m2.ref = DOMAIN m.ref
<1> DEFINE d == m.delayed
           T == DOMAIN m.ref
           n == d[1].node
           r == Tail(d)
<1>1. Placed(m.free, d, U, T) /\ Fields(m)
  BY DEF Whole
<1>2. PoolIs([m EXCEPT !.delayed = Tail(@)],
             m.ref, m.free, r, m.trunkTotal, m.trunkUsed, m.elements, m.elementsUsed)
  BY <1>1, PoolOperations DEF Fields
<1> HIDE DEF d, T
<1>3. d \in Seq(Waits(T)) /\ d # << >> /\ \A i, j \in 1 .. Len(d) : d[i].node = d[j].node => i = j
  BY <1>1 DEF Placed, d
<1>4. /\ d[1] \in Waits(T) /\ r \in Seq(Waits(T)) /\ Len(d) \in Nat \ {0}
      /\ \A i \in 1 .. Len(r) : r[i] = d[i + 1] /\ i + 1 \in 1 .. Len(d) /\ r[i] # d[1]
      /\ \A i \in 1 .. Len(d) : i = 1 \/ \E j \in 1 .. Len(r) : r[j] = d[i]
  <2>1. \A i, j \in 1 .. Len(d) : d[i] = d[j] => i = j
    BY <1>3
  <2> QED
    BY <1>3, <2>1, HeadAndRest
<1>5. n \in NodesOf(T) /\ 1 \in 1 .. Len(d)
  BY <1>4 DEF Waits
<1> HIDE DEF r, n
<1>6. \A i \in 1 .. Len(r) : r[i].node # n
  <2> SUFFICES ASSUME NEW i \in 1 .. Len(r), r[i].node = n PROVE FALSE
    OBVIOUS
  <2>1. d[i + 1].node = d[1].node /\ i + 1 \in 1 .. Len(d) /\ i + 1 # 1
    BY <1>4 DEF n
  <2> QED
    BY <1>3, <1>5, <2>1
<1>7. \A i, j \in 1 .. Len(r) : r[i].node = r[j].node => i = j
  <2> SUFFICES ASSUME NEW i \in 1 .. Len(r), NEW j \in 1 .. Len(r), r[i].node = r[j].node PROVE i = j
    OBVIOUS
  <2>1. i + 1 \in 1 .. Len(d) /\ j + 1 \in 1 .. Len(d) /\ r[i] = d[i + 1] /\ r[j] = d[j + 1]
    BY <1>4
  <2>2. i + 1 = j + 1
    BY <1>3, <2>1
  <2> QED
    BY <2>2
<1>8. {d[i].node : i \in 1 .. Len(d)} = {r[i].node : i \in 1 .. Len(r)} \cup {n}
  <2>1. \A i \in 1 .. Len(d) : d[i].node = n \/ \E j \in 1 .. Len(r) : r[j].node = d[i].node
    BY <1>4 DEF n
  <2>2. \A i \in 1 .. Len(r) : i + 1 \in 1 .. Len(d) /\ r[i].node = d[i + 1].node
    BY <1>4
  <2>3. n = d[1].node /\ 1 \in 1 .. Len(d)
    BY <1>5 DEF n
  <2>4. \A i \in 1 .. Len(d) : d[i].node \in {r[j].node : j \in 1 .. Len(r)} \cup {n}
    BY <2>1, Zenon
  <2>5. \A i \in 1 .. Len(r) : r[i].node \in {d[j].node : j \in 1 .. Len(d)}
    BY <2>2, Zenon
  <2>6. n \in {d[i].node : i \in 1 .. Len(d)}
    BY <2>3, Zenon
  <2> QED
    BY <2>4, <2>5, <2>6, Zenon
<1>9. HeldNodes(U \cup {n}, r) = HeldNodes(U, d)
  BY <1>8 DEF HeldNodes
<1>10. Placed(m.free, r, U \cup {n}, T)
  <2> DEFINE f == m.free
  <2> HIDE DEF f
  <2>1. \A j \in 1 .. Len(r) : r[j].node \notin U \cup {n} /\ \A i \in 1 .. Len(f) : f[i] # r[j].node
    <3> SUFFICES ASSUME NEW j \in 1 .. Len(r)
                 PROVE  r[j].node \notin U \cup {n} /\ \A i \in 1 .. Len(f) : f[i] # r[j].node
      OBVIOUS
    <3>1. j + 1 \in 1 .. Len(d) /\ r[j] = d[j + 1]
      BY <1>4
    <3>2. d[j + 1].node \notin U /\ \A i \in 1 .. Len(f) : f[i] # d[j + 1].node
      BY <1>1, <3>1 DEF Placed, f
    <3> QED
      BY <1>6, <3>1, <3>2
  <2>2. \A i \in 1 .. Len(f) : f[i] \notin U \cup {n}
    BY <1>1, <1>5 DEF Placed, f, n
  <2>3. ASSUME NEW x \in NodesOf(T)
        PROVE  x \in U \cup {n} \/ (\E i \in 1 .. Len(f) : f[i] = x)
               \/ \E j \in 1 .. Len(r) : r[j].node = x
    <3>1. CASE \E i \in 1 .. Len(d) : d[i].node = x
      BY <1>4, <3>1 DEF n
    <3> QED
      BY <1>1, <3>1 DEF Placed, f
  <2>4. U \cup {n} \in SUBSET NodesOf(T)
    BY <1>1, <1>5 DEF Placed
  <2> QED
    BY <1>1, <1>4, <1>7, <2>1, <2>2, <2>3, <2>4 DEF Placed, f
<1>11. Counted(m.ref, T, HeldNodes(U \cup {n}, r), m.trunkTotal, m.trunkUsed, m.elements, m.elementsUsed)
  BY <1>9 DEF Whole, T, d
<1>12. Whole([m EXCEPT !.delayed = Tail(@)], U \cup {n}) /\ DOMAIN [m EXCEPT !.delayed = Tail(@)].ref = T
  BY <1>2, <1>10, <1>11, WholePool
<1> QED
  BY <1>12 DEF n, T, d

\* fast_mblock_free.
LEMMA FreeNodeWhole ==
  ASSUME BlockConstants, NEW m, NEW U, Whole(m, U), NEW n \in U
  PROVE  Whole(Block!FreeNode(m, n), U \ {n}) /\ DOMAIN Block!FreeNode(m, n).ref = DOMAIN m.ref
<1> DEFINE f == m.free
           d == m.delayed
           T == DOMAIN m.ref
           s == << n >> \o f
           H == HeldNodes(U, d)
           total == m.trunkTotal
           inUse == m.trunkUsed
           el == m.elements
           eu == m.elementsUsed
           ref == m.ref
<1>1. Placed(f, d, U, T) /\ Counted(ref, T, H, total, inUse, el, eu)
      /\ PoolIs(m, ref, f, d, total, inUse, el, eu)
  BY DEF Whole, Fields
<1> HIDE DEF f, d, T, H, total, inUse, el, eu, ref
<1>2. PoolIs(Block!FreeNode(m, n), [ref EXCEPT ![n[1]] = @ - 1], s, d, total,
             IF ref[n[1]] = 1 THEN inUse - 1 ELSE inUse, el, eu - 1)
  BY <1>1, PoolOperations
<1>3. /\ f \in Seq(NodesOf(T)) /\ n \in NodesOf(T) /\ U \in SUBSET NodesOf(T)
      /\ \A i \in 1 .. Len(f) : f[i] # n /\ f[i] \notin U
      /\ \A j \in 1 .. Len(d) : d[j].node # n /\ d[j].node \notin U
      /\ \A i, j \in 1 .. Len(f) : f[i] = f[j] => i = j
  BY <1>1 DEF Placed
<1>4. /\ s \in Seq(NodesOf(T)) /\ Len(s) = Len(f) + 1 /\ Len(f) \in Nat /\ s[1] = n
      /\ \A i \in 1 .. Len(f) : s[i + 1] = f[i]
  <2>1. f \in Seq(NodesOf(T)) /\ n \in NodesOf(T)
    BY <1>3
  <2> QED
    BY ONLY <2>1
<1> HIDE DEF s
<1>5. \A k \in 1 .. Len(s) : k = 1 \/ (k - 1 \in 1 .. Len(f) /\ s[k] = f[k - 1])
  <2> SUFFICES ASSUME NEW k \in 1 .. Len(s), k # 1 PROVE k - 1 \in 1 .. Len(f) /\ s[k] = f[k - 1]
    OBVIOUS
  <2>1. k - 1 \in 1 .. Len(f) /\ (k - 1) + 1 = k
    BY <1>4
  <2> QED
    BY <1>4, <2>1
<1>6. ASSUME NEW k \in 1 .. Len(s), NEW l \in 1 .. Len(s), s[k] = s[l] PROVE k = l
  <2>1. CASE k = 1 \/ l = 1
    BY <1>3, <1>4, <1>5, <1>6, <2>1
  <2>2. CASE k # 1 /\ l # 1
    <3>1. /\ k - 1 \in 1 .. Len(f) /\ s[k] = f[k - 1]
          /\ l - 1 \in 1 .. Len(f) /\ s[l] = f[l - 1]
      BY <1>5, <2>2
    <3>2. f[k - 1] = f[l - 1]
      BY <1>6, <3>1
    <3>3. k - 1 = l - 1
      BY <1>3, <3>1, <3>2
    <3> QED
      BY <3>3
  <2> QED
    BY <2>1, <2>2
<1>7. \A k \in 1 .. Len(s) : s[k] = n \/ \E i \in 1 .. Len(f) : s[k] = f[i]
  BY <1>4, <1>5
<1>8. \A i \in 1 .. Len(f) : \E k \in 1 .. Len(s) : s[k] = f[i]
  <2> SUFFICES ASSUME NEW i \in 1 .. Len(f) PROVE \E k \in 1 .. Len(s) : s[k] = f[i]
    OBVIOUS
  <2>1. i + 1 \in 1 .. Len(s)
    BY <1>4
  <2> QED
    BY <1>4, <2>1
<1>9. \E k \in 1 .. Len(s) : s[k] = n
  <2>1. 1 \in 1 .. Len(s)
    BY <1>4
  <2> QED
    BY <1>4, <2>1
<1>10. Placed(s, d, U \ {n}, T)
  <2>1. \A k \in 1 .. Len(s) : s[k] \notin U \ {n} /\ \A j \in 1 .. Len(d) : s[k] # d[j].node
    BY <1>1, <1>3, <1>7 DEF Placed
  <2>2. ASSUME NEW x \in NodesOf(T)
        PROVE  x \in U \ {n} \/ (\E k \in 1 .. Len(s) : s[k] = x) \/ \E j \in 1 .. Len(d) : d[j].node = x
    <3>1. x \in U \/ (\E i \in 1 .. Len(f) : f[i] = x) \/ \E j \in 1 .. Len(d) : d[j].node = x
      BY <1>1 DEF Placed
    <3>2. CASE \E i \in 1 .. Len(f) : f[i] = x
      BY <1>8, <3>2
    <3> QED
      BY <1>9, <3>1, <3>2
  <2> QED
    BY <1>1, <1>3, <1>4, <1>6, <2>1, <2>2 DEF Placed
<1>11. HeldNodes(U \ {n}, d) = H \ {n} /\ n \in H
  BY <1>3 DEF HeldNodes, H
<1> DEFINE ref2 == [ref EXCEPT ![n[1]] = @ - 1]
           inUse2 == IF ref[n[1]] = 1 THEN inUse - 1 ELSE inUse
<1>12. Counted(ref2, T, HeldNodes(U \ {n}, d), total, inUse2, el, eu - 1)
  <2>1. Counted(ref, T, H, total, inUse, el, eu) /\ n \in H
    BY <1>1, <1>11
  <2>2. Counted(ref2, T, H \ {n}, total, inUse2, el, eu - 1)
    BY <2>1, DroppedCounted
  <2> QED
    BY <1>11, <2>2
<1> HIDE DEF ref2, inUse2
<1>13. Counted(ref2, T, HeldNodes(U \ {n}, d), total, inUse2, el, eu - 1)
       /\ PoolIs(Block!FreeNode(m, n), ref2, s, d, total, inUse2, el, eu - 1)
  BY <1>2, <1>12 DEF ref2, inUse2
<1> QED
  BY <1>10, <1>13, WholePool DEF T, ref

\* fast_mblock_delay_free.
LEMMA DelayFreeWhole ==
  ASSUME NEW m, NEW U, Whole(m, U), NEW n \in U, NEW at \in Int
  PROVE  Whole(Block!DelayFree(m, n, at), U \ {n})
         /\ DOMAIN Block!DelayFree(m, n, at).ref = DOMAIN m.ref
<1> DEFINE f == m.free
           d == m.delayed
           T == DOMAIN m.ref
           e == [node |-> n, at |-> at]
           r == Append(d, e)
           H == HeldNodes(U, d)
           total == m.trunkTotal
           inUse == m.trunkUsed
           el == m.elements
           eu == m.elementsUsed
           ref == m.ref
<1>1. Placed(f, d, U, T) /\ Counted(ref, T, H, total, inUse, el, eu)
      /\ PoolIs(m, ref, f, d, total, inUse, el, eu)
  BY DEF Whole, Fields
<1> HIDE DEF f, d, T, H, total, inUse, el, eu, ref
<1>2. PoolIs(Block!DelayFree(m, n, at), ref, f, r, total, inUse, el, eu)
  BY <1>1, PoolOperations
<1>3. /\ d \in Seq(Waits(T)) /\ n \in NodesOf(T) /\ U \in SUBSET NodesOf(T) /\ f \in Seq(NodesOf(T))
      /\ \A i \in 1 .. Len(f) : f[i] # n /\ f[i] \notin U
      /\ \A j \in 1 .. Len(d) : d[j].node # n /\ d[j].node \notin U
      /\ \A i, j \in 1 .. Len(d) : d[i].node = d[j].node => i = j
  BY <1>1 DEF Placed
<1>4. e \in Waits(T) /\ e.node = n
  BY <1>3 DEF Waits
<1> HIDE DEF e
<1>5. /\ r \in Seq(Waits(T)) /\ Len(r) = Len(d) + 1 /\ Len(d) \in Nat
      /\ r[Len(d) + 1] = e /\ \A i \in 1 .. Len(d) : r[i] = d[i] /\ i \in 1 .. Len(r)
  <2>1. d \in Seq(Waits(T)) /\ e \in Waits(T)
    BY <1>3, <1>4
  <2> QED
    BY ONLY <2>1
<1> HIDE DEF r
<1>6. \A k \in 1 .. Len(r) : k \in 1 .. Len(d) \/ k = Len(d) + 1
  BY <1>5
<1>7. ASSUME NEW k \in 1 .. Len(r), NEW l \in 1 .. Len(r), r[k].node = r[l].node PROVE k = l
  BY <1>3, <1>4, <1>5, <1>6, <1>7
<1>8. \A k \in 1 .. Len(r) : r[k].node = n \/ \E j \in 1 .. Len(d) : r[k].node = d[j].node
  BY <1>4, <1>5, <1>6
<1>9. \A j \in 1 .. Len(d) : \E k \in 1 .. Len(r) : r[k].node = d[j].node
  BY <1>5
<1>10. \E k \in 1 .. Len(r) : r[k].node = n
  <2>1. Len(d) + 1 \in 1 .. Len(r)
    BY <1>5
  <2> QED
    BY <1>4, <1>5, <2>1
<1>11. Placed(f, r, U \ {n}, T)
  <2>1. \A k \in 1 .. Len(r) : r[k].node \notin U \ {n} /\ \A i \in 1 .. Len(f) : f[i] # r[k].node
    BY <1>1, <1>3, <1>8 DEF Placed
  <2>2. ASSUME NEW x \in NodesOf(T)
        PROVE  x \in U \ {n} \/ (\E i \in 1 .. Len(f) : f[i] = x) \/ \E k \in 1 .. Len(r) : r[k].node = x
    BY <1>1, <1>9, <1>10 DEF Placed
  <2> QED
    BY <1>1, <1>3, <1>5, <1>7, <2>1, <2>2 DEF Placed
<1>12. HeldNodes(U \ {n}, r) = H
  <2>1. \A x \in H : x \in HeldNodes(U \ {n}, r)
    BY <1>9, <1>10 DEF HeldNodes, H
  <2>2. \A x \in HeldNodes(U \ {n}, r) : x \in H
    BY <1>8 DEF HeldNodes, H
  <2> QED
    BY <2>1, <2>2
<1> QED
  BY <1>1, <1>2, <1>11, <1>12, WholePool DEF T, ref

\* A function on 1 .. n is a chain of n nodes.
LEMMA ChainIs ==
  ASSUME NEW S, NEW n \in Nat, NEW s \in [1 .. n -> S]
  PROVE  s \in Seq(S) /\ Len(s) = n
OBVIOUS

\* fast_mblock_prealloc, when the free chain is empty.
LEMMA PreallocWhole ==
  ASSUME BlockConstants, NEW m, NEW U, Whole(m, U), m.free = << >>,
         NEW t \in BlockTrunks \ DOMAIN m.ref
  PROVE  /\ Whole(Block!Prealloc(m, t), U)
         /\ DOMAIN Block!Prealloc(m, t).ref = DOMAIN m.ref \cup {t}
         /\ Block!Prealloc(m, t).free # << >> /\ Block!Prealloc(m, t).free[1][1] = t
         /\ Block!Prealloc(m, t).delayed = m.delayed
<1> DEFINE d == m.delayed
           T == DOMAIN m.ref
           S == T \cup {t}
           s == [i \in 1 .. PerTrunk |-> << t, i >>]
           H == HeldNodes(U, d)
           total == m.trunkTotal
           inUse == m.trunkUsed
           el == m.elements
           eu == m.elementsUsed
           ref == m.ref
           ref2 == [x \in S |-> IF x = t THEN 0 ELSE ref[x]]
<1>1. Placed(<< >>, d, U, T) /\ Counted(ref, T, H, total, inUse, el, eu) /\ T = DOMAIN ref
      /\ PoolIs(m, ref, << >>, d, total, inUse, el, eu)
  BY DEF Whole, Fields
<1> HIDE DEF d, T, H, total, inUse, el, eu, ref
<1>2. PoolIs(Block!Prealloc(m, t), ref2, s, d, total + 1, inUse, el + PerTrunk, eu)
  BY <1>1, PoolOperations
<1>3. Counted(ref2, S, H, total + 1, inUse, el + PerTrunk, eu)
  BY <1>1, TrunkCounted DEF T, ref
<1> HIDE DEF ref2
<1>4. PerTrunk \in Nat /\ PerTrunk > 0 /\ t \notin T
  BY DEF BlockConstants, T
<1>5. \A i \in 1 .. PerTrunk : << t, i >> \in NodesOf(S) /\ << t, i >>[1] = t /\ << t, i >>[2] = i
  BY DEF NodesOf
<1>6. /\ s \in Seq(NodesOf(S)) /\ Len(s) = PerTrunk
      /\ \A i \in 1 .. PerTrunk : s[i] = << t, i >> /\ s[i][1] = t /\ s[i][2] = i
  <2>1. s \in [1 .. PerTrunk -> NodesOf(S)]
    BY <1>5
  <2>2. \A i \in 1 .. PerTrunk : s[i] = << t, i >>
    OBVIOUS
  <2> HIDE DEF s
  <2>3. s \in Seq(NodesOf(S)) /\ Len(s) = PerTrunk
    BY <1>4, <2>1, ChainIs
  <2> QED
    BY <1>5, <2>2, <2>3
<1> HIDE DEF s
<1>7. NodesOf(T) \in SUBSET NodesOf(S) /\ \A x \in NodesOf(T) : x[1] # t
  BY <1>4 DEF NodesOf
<1>8. \A x \in NodesOf(S) : x \in NodesOf(T) \/ \E i \in 1 .. PerTrunk : s[i] = x
  <2> SUFFICES ASSUME NEW x \in NodesOf(S), x \notin NodesOf(T) PROVE \E i \in 1 .. PerTrunk : s[i] = x
    OBVIOUS
  <2>1. x = << t, x[2] >> /\ x[2] \in 1 .. PerTrunk
    BY DEF NodesOf
  <2> QED
    BY <1>6, <2>1
<1>9. /\ U \in SUBSET NodesOf(T) /\ d \in Seq(Waits(T)) /\ \A j \in 1 .. Len(d) : d[j].node \in NodesOf(T)
  <2>1. U \in SUBSET NodesOf(T) /\ d \in Seq(Waits(T))
    BY <1>1 DEF Placed
  <2>2. \A x \in Waits(T) : x.node \in NodesOf(T)
    BY DEF Waits
  <2>3. \A j \in 1 .. Len(d) : d[j] \in Waits(T)
    BY ONLY <2>1
  <2> QED
    BY <2>1, <2>2, <2>3
<1>10. d \in Seq(Waits(S))
  <2>1. Waits(T) \in SUBSET Waits(S)
    <3> SUFFICES ASSUME NEW x \in Waits(T) PROVE x \in Waits(S)
      OBVIOUS
    <3> QED
      BY <1>7 DEF Waits
  <2>2. d \in Seq(Waits(T))
    BY <1>9
  <2> QED
    BY <2>1, <2>2, SeqMonotonic
<1>11. Placed(s, d, U, S)
  <2>1. \A i, j \in 1 .. Len(s) : s[i] = s[j] => i = j
    BY <1>6
  <2>2. \A i \in 1 .. Len(s) : s[i] \notin U /\ \A j \in 1 .. Len(d) : s[i] # d[j].node
    BY <1>6, <1>7, <1>9
  <2>3. \A x \in NodesOf(S) : \/ x \in U
                              \/ \E i \in 1 .. Len(s) : s[i] = x
                              \/ \E j \in 1 .. Len(d) : d[j].node = x
    <3> SUFFICES ASSUME NEW x \in NodesOf(T)
                 PROVE  x \in U \/ \E j \in 1 .. Len(d) : d[j].node = x
      BY <1>6, <1>8
    <3> QED
      BY <1>1, EmptySeq DEF Placed
  <2> QED
    BY <1>1, <1>6, <1>7, <1>9, <1>10, <2>1, <2>2, <2>3 DEF Placed
<1>12. Whole(Block!Prealloc(m, t), U) /\ DOMAIN Block!Prealloc(m, t).ref = S
  BY <1>2, <1>3, <1>11, WholePool DEF H
<1>13. s # << >> /\ s[1][1] = t
  <2>1. 1 \in 1 .. PerTrunk
    BY <1>4
  <2> QED
    BY <1>4, <1>6, <2>1
<1> QED
  BY <1>2, <1>12, <1>13 DEF PoolIs, T, ref, d

\* fast_mblock_do_reclaim.
LEMMA ReclaimWhole ==
  ASSUME BlockConstants, NEW m, NEW U, Whole(m, U), NEW target, NEW I, I = Block!Idle(m, target)
  PROVE  /\ Whole(Block!DoReclaim(m, target), U)
         /\ DOMAIN Block!DoReclaim(m, target).ref = DOMAIN m.ref \ I
         /\ Block!DoReclaim(m, target).delayed = m.delayed
<1> DEFINE f == m.free
           d == m.delayed
           T == DOMAIN m.ref
           S == T \ I
           w == Block!Without(f, NodesOf(I))
           H == HeldNodes(U, d)
           total == m.trunkTotal
           inUse == m.trunkUsed
           el == m.elements
           eu == m.elementsUsed
           ref == m.ref
           c == Cardinality(I)
           ref2 == [x \in S |-> ref[x]]
<1>1. Placed(f, d, U, T) /\ Counted(ref, T, H, total, inUse, el, eu) /\ T = DOMAIN ref
      /\ PoolIs(m, ref, f, d, total, inUse, el, eu)
  BY DEF Whole, Fields
<1>2. I \in SUBSET T /\ \A t \in I : ref[t] = 0
  BY DEF Block!Idle
<1> HIDE DEF f, d, T, H, total, inUse, el, eu, ref
<1>3. PoolIs(Block!DoReclaim(m, target), ref2, w, d, total - c, inUse, el - PerTrunk * c, eu)
  BY <1>1, ReclaimIs
<1>4. Counted(ref2, S, H, total - c, inUse, el - PerTrunk * c, eu)
  BY <1>1, <1>2, TrunksGoneCounted
<1>5. /\ w \in Seq(NodesOf(T)) /\ \A i, j \in 1 .. Len(w) : w[i] = w[j] => i = j
      /\ \A k \in 1 .. Len(w) : w[k] \notin NodesOf(I) /\ \E i \in 1 .. Len(f) : f[i] = w[k]
      /\ \A i \in 1 .. Len(f) : f[i] \notin NodesOf(I) => \E k \in 1 .. Len(w) : w[k] = f[i]
  <2>1. f \in Seq(NodesOf(T)) /\ \A i, j \in 1 .. Len(f) : f[i] = f[j] => i = j
    BY <1>1 DEF Placed
  <2> QED
    BY <2>1, WithoutHas
<1> HIDE DEF w, ref2, c
<1>6. \A x \in NodesOf(T) : x \in NodesOf(S) \/ x \in NodesOf(I)
  BY DEF NodesOf
<1>7. \A x \in NodesOf(S) : x \in NodesOf(T) /\ x \notin NodesOf(I)
  BY DEF NodesOf
<1> HIDE DEF S
<1>8. w \in Seq(NodesOf(S))
  <2>1. Len(w) \in Nat /\ w \in [1 .. Len(w) -> NodesOf(T)]
    BY <1>5, LenProperties
  <2>2. \A k \in 1 .. Len(w) : w[k] \in NodesOf(S)
    BY <1>5, <1>6, <2>1
  <2>3. w \in [1 .. Len(w) -> NodesOf(S)]
    BY <2>1, <2>2
  <2> QED
    BY <2>1, <2>3, ChainIs
<1>9. d \in Seq(Waits(T)) /\ Len(d) \in Nat
  BY <1>1 DEF Placed
<1>10. U \in SUBSET NodesOf(S) /\ \A j \in 1 .. Len(d) : d[j].node \in NodesOf(S)
  BY <1>4 DEF Counted, H, HeldNodes
<1>11. d \in Seq(Waits(S))
  <2>1. d \in [1 .. Len(d) -> Waits(T)]
    BY <1>9, LenProperties
  <2>2. ASSUME NEW j \in 1 .. Len(d) PROVE d[j] \in Waits(S)
    <3>1. d[j] \in Waits(T) /\ d[j].node \in NodesOf(S)
      BY <1>10, <2>1
    <3> QED
      BY <3>1 DEF Waits
  <2>3. d \in [1 .. Len(d) -> Waits(S)]
    BY <2>1, <2>2
  <2> QED
    BY <1>9, <2>3, ChainIs
<1>12. Placed(w, d, U, S)
  <2>1. \A k \in 1 .. Len(w) : w[k] \notin U /\ \A j \in 1 .. Len(d) : w[k] # d[j].node
    BY <1>1, <1>5 DEF Placed
  <2>2. ASSUME NEW x \in NodesOf(S)
        PROVE  x \in U \/ (\E k \in 1 .. Len(w) : w[k] = x) \/ \E j \in 1 .. Len(d) : d[j].node = x
    <3>1. x \in U \/ (\E i \in 1 .. Len(f) : f[i] = x) \/ \E j \in 1 .. Len(d) : d[j].node = x
      BY <1>1, <1>7 DEF Placed
    <3>2. CASE \E i \in 1 .. Len(f) : f[i] = x
      BY <1>5, <1>7, <3>2
    <3> QED
      BY <3>1, <3>2
  <2> QED
    BY <1>1, <1>5, <1>8, <1>10, <1>11, <2>1, <2>2 DEF Placed
<1>13. Whole(Block!DoReclaim(m, target), U) /\ DOMAIN Block!DoReclaim(m, target).ref = S
  BY <1>3, <1>4, <1>12, WholePool DEF H
<1> QED
  BY <1>3, <1>13 DEF PoolIs, T, ref, d, S

\* fast_mblock_init_ex2.
LEMMA NewPoolWhole ==
  ASSUME BlockConstants
  PROVE  Whole(Block!NewPool, {}) /\ DOMAIN Block!NewPool.ref = {}
<1> DEFINE e == << >>
           Z == {}
<1>1. /\ \A S : e \in Seq(S) /\ Len(e) = 0 /\ DOMAIN e = 1 .. 0
      /\ 1 .. 0 = {} /\ e \in [{} -> Nat]
  <2>1. \A S : e \in Seq(S) /\ Len(e) = 0 /\ DOMAIN e = 1 .. Len(e)
    BY EmptySeq, LenProperties
  <2>2. 1 .. 0 = {}
    OBVIOUS
  <2>3. e \in [1 .. Len(e) -> Nat]
    BY <2>1, LenProperties
  <2> QED
    BY <2>1, <2>2, <2>3
<1>2. PoolIs(Block!NewPool, e, e, e, 0, 0, 0, 0)
  BY DEF Block!NewPool, PoolIs
<1> HIDE DEF e
<1>3. Placed(e, e, Z, Z)
  BY <1>1 DEF Placed, NodesOf, Waits
<1>4. HeldNodes(Z, e) = {}
  BY <1>1 DEF HeldNodes
<1>5. Cardinality({}) = 0
  BY FS_EmptySet
<1>6. UsedOf(e) = {}
  BY <1>1 DEF UsedOf
<1>7. Counted(e, Z, HeldNodes(Z, e), 0, 0, 0, 0)
  <2>1. PerTrunk * 0 = 0
    BY DEF BlockConstants
  <2>2. Cardinality(Z) = 0 /\ Cardinality(UsedOf(e)) = 0 /\ Cardinality(HeldNodes(Z, e)) = 0
    BY <1>4, <1>5, <1>6
  <2>3. HeldNodes(Z, e) \in SUBSET NodesOf(Z) /\ Z \in SUBSET BlockTrunks /\ e \in [Z -> Nat]
    BY <1>1, <1>4
  <2> QED
    BY <2>1, <2>2, <2>3 DEF Counted
<1> QED
  BY <1>2, <1>3, <1>7, WholePool

\* That is the whole account of FastMblock.
LEMMA WholePartitioned ==
  ASSUME BlockConstants, NEW m, NEW U, Whole(m, U)
  PROVE  Block!Partitioned(m, U)
<1> DEFINE f == m.free
           d == m.delayed
           T == DOMAIN m.ref
           H == HeldNodes(U, d)
           D == {d[i].node : i \in DOMAIN d}
           F == Block!Range(f)
<1>1. Placed(f, d, U, T) /\ Counted(m.ref, T, H, m.trunkTotal, m.trunkUsed, m.elements, m.elementsUsed)
  BY DEF Whole
<1>2. DOMAIN f = 1 .. Len(f) /\ DOMAIN d = 1 .. Len(d)
  BY <1>1 DEF Placed
<1>3. H = U \cup D
  BY <1>2, Zenon DEF HeldNodes
<1>4. \A x : x \in F <=> \E i \in 1 .. Len(f) : f[i] = x
  BY <1>2 DEF Block!Range
<1>5. \A x : x \in D <=> \E i \in 1 .. Len(d) : d[i].node = x
  BY <1>2
<1>6. NodesOf(T) = T \X (1 .. PerTrunk)
  BY DEF NodesOf
<1>7. Block!IsInjective(f)
  BY <1>1, <1>2 DEF Block!IsInjective, Placed
<1>8. \A i, j \in DOMAIN d : d[i].node = d[j].node => i = j
  BY <1>1, <1>2 DEF Placed
<1> HIDE DEF F, D, H, f, d, T
<1>9. U \cap D = {} /\ U \cap F = {} /\ D \cap F = {}
  BY <1>1, <1>4, <1>5 DEF Placed
<1>10. U \cup D \cup F = NodesOf(T)
  <2>1. \A x \in NodesOf(T) : x \in U \cup D \cup F
    BY <1>1, <1>4, <1>5 DEF Placed
  <2>2. H \in SUBSET NodesOf(T)
    BY <1>1 DEF Counted
  <2>3. \A i \in 1 .. Len(f) : f[i] \in NodesOf(T)
    BY <1>1 DEF Placed
  <2> QED
    BY <1>3, <1>4, <2>1, <2>2, <2>3
<1>11. \A t \in T : m.ref[t] = Block!Cardinality({n \in U \cup D : Block!TrunkOf(n) = t})
  <2>1. \A t : {n \in U \cup D : Block!TrunkOf(n) = t} = HeldOf(H, t)
    BY <1>3, Zenon DEF Block!TrunkOf, HeldOf
  <2> QED
    BY <1>1, <2>1, SameCardinality DEF Counted
<1>12. /\ m.trunkTotal = Block!Cardinality(T)
       /\ m.trunkUsed = Block!Cardinality({t \in T : m.ref[t] > 0})
       /\ m.elements = PerTrunk * m.trunkTotal
       /\ m.elementsUsed = Block!Cardinality(U \cup D)
  <2>1. UsedOf(m.ref) = {t \in T : m.ref[t] > 0}
    BY DEF UsedOf, T
  <2> QED
    BY <1>1, <1>3, <2>1, SameCardinality DEF Counted
<1> QED
  BY <1>6, <1>7, <1>8, <1>9, <1>10, <1>11, <1>12 DEF Block!Partitioned, F, D, f, d, T

\* Every pool of the run is whole, and no trunk given back is in it.
BlockInv == Whole(pool, used) /\ gone \cap DOMAIN pool.ref = {} /\ blockNow \in Int

\* fast_mblock_init_ex2 leaves a whole pool, and nothing with the callers.
LEMMA BlockStarts ==
  ASSUME BlockConstants, Block!Init
  PROVE  BlockInv
  BY NewPoolWhole DEF Block!Init, BlockInv

\* fast_mblock_alloc keeps the pool whole, and gives a delayed node only when
\* its time has come.
LEMMA AllocKeeps ==
  ASSUME BlockConstants, BlockInv, Block!Alloc
  PROVE  /\ BlockInv'
         /\ \A i \in 1 .. Len(pool.delayed) :
              pool.delayed[i].node \in used' => pool.delayed[i].at <= blockNow
<1> DEFINE d == pool.delayed
<1>1. Whole(pool, used) /\ gone \cap DOMAIN pool.ref = {} /\ blockNow \in Int
  BY DEF BlockInv
<1>2. /\ \A i \in 1 .. Len(d) : d[i].node \notin used /\ d[i].node \in NodesOf(DOMAIN pool.ref)
      /\ \A i, j \in 1 .. Len(d) : d[i].node = d[j].node => i = j
  <2>1. \A x \in Waits(DOMAIN pool.ref) : x.node \in NodesOf(DOMAIN pool.ref)
    BY DEF Waits
  <2>2. d \in Seq(Waits(DOMAIN pool.ref))
    BY <1>1 DEF Whole, Placed
  <2> HIDE DEF d
  <2>3. \A i \in 1 .. Len(d) : d[i] \in Waits(DOMAIN pool.ref)
    BY <2>2, ElementOfSeq
  <2> QED
    BY <1>1, <2>1, <2>3 DEF Whole, Placed, d
<1> HIDE DEF d
<1>3. gone' = gone /\ blockNow' = blockNow
  BY DEF Block!Alloc
<1>4. CASE pool.free # << >>
  <2> DEFINE n == pool.free[1]
  <2>1. pool' = Block!TakeFree(pool) /\ used' = used \cup {n}
    BY <1>4 DEF Block!Alloc, Block!AllocFree
  <2>2. /\ Whole(Block!TakeFree(pool), used \cup {n})
        /\ DOMAIN Block!TakeFree(pool).ref = DOMAIN pool.ref
        /\ \A j \in 1 .. Len(d) : d[j].node # n
    BY <1>1, <1>4, TakeFreeWhole DEF d
  <2> HIDE DEF n
  <2>3. BlockInv'
    BY <1>1, <1>3, <2>1, <2>2 DEF BlockInv
  <2>4. \A i \in 1 .. Len(d) : d[i].node \notin used'
    BY <1>2, <2>1, <2>2
  <2> QED
    BY <2>3, <2>4 DEF d
<1>5. CASE pool.free = << >> /\ Block!DueFirst(pool, blockNow)
  <2> DEFINE n == d[1].node
             k == [pool EXCEPT !.delayed = Tail(@)]
  <2>1. d # << >> /\ d[1].at <= blockNow
    BY <1>5 DEF Block!DueFirst, d
  <2>2. pool' = k /\ used' = used \cup {n}
    BY <1>5 DEF Block!Alloc, Block!AllocDelayed, d
  <2>3. Whole(k, used \cup {n}) /\ DOMAIN k.ref = DOMAIN pool.ref
    BY <1>1, <2>1, TakeDelayedWhole DEF d
  <2> HIDE DEF k
  <2>4. BlockInv'
    BY <1>1, <1>3, <2>2, <2>3 DEF BlockInv
  <2>5. ASSUME NEW i \in 1 .. Len(d), d[i].node \in used' PROVE d[i].at <= blockNow
    <3>1. 1 \in 1 .. Len(d)
      OBVIOUS
    <3>2. i = 1
      BY <1>2, <2>2, <2>5, <3>1
    <3> QED
      BY <2>1, <3>2
  <2> QED
    BY <2>4, <2>5 DEF d
<1>6. CASE pool.free = << >> /\ ~ Block!DueFirst(pool, blockNow)
  <2>1. PICK t \in Block!Available :
          pool' = Block!AllocTrunk(pool, t).m /\ used' = used \cup {Block!AllocTrunk(pool, t).n}
    BY <1>6 DEF Block!Alloc
  <2> DEFINE p == Block!Prealloc(pool, t)
             n == p.free[1]
  <2>2. t \in BlockTrunks \ DOMAIN pool.ref /\ t \notin gone
    BY DEF Block!Available
  <2>3. pool' = Block!TakeFree(p) /\ used' = used \cup {n}
    BY <2>1 DEF Block!AllocTrunk, Block!AllocFree
  <2>4. /\ Whole(p, used) /\ DOMAIN p.ref = DOMAIN pool.ref \cup {t}
        /\ p.free # << >> /\ n[1] = t /\ p.delayed = d
    BY <1>1, <1>6, <2>2, PreallocWhole DEF d
  <2> HIDE DEF p
  <2>5. Whole(Block!TakeFree(p), used \cup {n}) /\ DOMAIN Block!TakeFree(p).ref = DOMAIN p.ref
    BY <2>4, TakeFreeWhole
  <2>6. BlockInv'
    BY <1>1, <1>3, <2>2, <2>3, <2>4, <2>5 DEF BlockInv
  <2>7. \A i \in 1 .. Len(d) : d[i].node # n
    BY <1>2, <2>2, <2>4 DEF NodesOf
  <2>8. \A i \in 1 .. Len(d) : d[i].node \notin used'
    BY <1>2, <2>3, <2>7
  <2> QED
    BY <2>6, <2>8 DEF d
<1> QED
  BY <1>4, <1>5, <1>6

\* fast_mblock keeps its invariant.
LEMMA BlockSteps ==
  ASSUME BlockConstants, BlockInv, Block!Next
  PROVE  BlockInv'
<1> USE DEF BlockInv
<1>1. ASSUME NEW n, Block!Free(n) PROVE BlockInv'
  BY <1>1, FreeNodeWhole DEF Block!Free
<1>2. ASSUME NEW n, NEW w \in BlockDelays, Block!DelayedFree(n, w) PROVE BlockInv'
  <2>1. blockNow + w \in Int
    BY DEF BlockConstants
  <2> QED
    BY <1>2, <2>1, DelayFreeWhole DEF Block!DelayedFree
<1>3. ASSUME NEW target, Block!Reclaim(target) PROVE BlockInv'
  <2> DEFINE I == Block!Idle(pool, target)
  <2>1. /\ pool' = Block!DoReclaim(pool, target) /\ gone' = gone \cup I
        /\ used' = used /\ blockNow' = blockNow
    BY <1>3 DEF Block!Reclaim
  <2>2. Whole(Block!DoReclaim(pool, target), used)
        /\ DOMAIN Block!DoReclaim(pool, target).ref = DOMAIN pool.ref \ I
    BY ReclaimWhole
  <2> HIDE DEF I
  <2> QED
    BY <2>1, <2>2
<1>4. CASE Block!FreeTrunks
  BY <1>4 DEF Block!FreeTrunks
<1>5. CASE Block!Restart
  BY <1>5, NewPoolWhole DEF Block!Restart
<1>6. CASE Block!Tick
  BY <1>6 DEF Block!Tick
<1> QED
  BY <1>1, <1>2, <1>3, <1>4, <1>5, <1>6, AllocKeeps DEF Block!Next

\* What FastMblock!Exact says of the nodes and counters follows.
LEMMA BlockInvExact ==
  ASSUME BlockConstants, BlockInv
  PROVE  Block!Exact
  BY WholePartitioned DEF Block!Exact, BlockInv

\* Only fast_mblock_alloc gives a node to a caller.
LEMMA NotEarly ==
  ASSUME BlockConstants, BlockInv, Block!Next
  PROVE  \A i \in DOMAIN pool.delayed :
           pool.delayed[i].node \in used' => pool.delayed[i].at <= blockNow
<1>1. DOMAIN pool.delayed = 1 .. Len(pool.delayed)
      /\ \A i \in 1 .. Len(pool.delayed) : pool.delayed[i].node \notin used
  BY DEF BlockInv, Whole, Placed
<1>2. CASE used' \in SUBSET used
  BY <1>1, <1>2
<1>3. CASE Block!Alloc
  BY <1>1, <1>3, AllocKeeps
<1>4. used' \in SUBSET used \/ Block!Alloc
  BY DEF Block!Next, Block!Free, Block!DelayedFree, Block!Reclaim, Block!FreeTrunks,
         Block!Restart, Block!Tick
<1> QED
  BY <1>2, <1>3, <1>4
-----------------------------------------------------------------------------
(* The arena.                                                                *)

ArenaTrunk == [size : Nat, off : Nat]

\* Trunks ts, free chain c and blocks bs go together: no trunk is overdrawn or
\* twice in the chain, one with more than Discard left is in it, and of two
\* blocks of a trunk one ends before the other begins.
ArenaWhole(ts, c, bs) ==
  /\ ts \in Seq(ArenaTrunk) /\ \A t \in 1 .. Len(ts) : ts[t].off <= ts[t].size
  /\ c \in Seq(1 .. Len(ts)) /\ \A i, j \in 1 .. Len(c) : c[i] = c[j] => i = j
  /\ \A t \in 1 .. Len(ts) : ts[t].size - ts[t].off > Discard => \E k \in 1 .. Len(c) : c[k] = t
  /\ bs \in SUBSET ((1 .. Len(ts)) \X Nat \X Nat)
  /\ \A b \in bs : b[2] + b[3] <= ts[b[1]].off
  /\ \A b, d \in bs : b # d /\ b[1] = d[1] => b[2] + b[3] <= d[2] \/ d[2] + d[3] <= b[2]

ArenaInv == ArenaWhole(trunks, chain, blocks)

\* A sequence without its i-th place has the other elements, in their order.
LEMMA RemovedAt ==
  ASSUME NEW S, NEW c \in Seq(S), NEW i \in 1 .. Len(c)
  PROVE  /\ Arena!Removed(c, i) \in Seq(S) /\ Len(Arena!Removed(c, i)) = Len(c) - 1
         /\ \A j \in 1 .. Len(c) - 1 : Arena!Removed(c, i)[j] = IF j < i THEN c[j] ELSE c[j + 1]
<1> DEFINE a == SubSeq(c, 1, i - 1)
           b == SubSeq(c, i + 1, Len(c))
<1>1. a \in Seq(S) /\ Len(a) = i - 1 /\ \A j \in 1 .. i - 1 : a[j] = c[j]
  OBVIOUS
<1>2. b \in Seq(S) /\ Len(b) = Len(c) - i /\ \A j \in 1 .. Len(c) - i : b[j] = c[i + j]
  OBVIOUS
<1>3. Arena!Removed(c, i) = a \o b
  BY DEF Arena!Removed
<1> HIDE DEF a, b
<1>4. a \o b \in Seq(S) /\ Len(a \o b) = Len(c) - 1
  <2>1. Len(a) + Len(b) = Len(c) - 1
    BY <1>1, <1>2
  <2> QED
    BY <1>1, <1>2, <2>1, ConcatProperties
<1>5. ASSUME NEW j \in 1 .. Len(c) - 1 PROVE (a \o b)[j] = IF j < i THEN c[j] ELSE c[j + 1]
  <2>1. CASE j < i
    BY <1>1, <1>2, <2>1
  <2>2. CASE ~ (j < i)
    <3>1. j - (i - 1) \in 1 .. Len(c) - i /\ i + (j - (i - 1)) = j + 1 /\ j > Len(a)
          /\ j - Len(a) = j - (i - 1)
      BY <1>1, <2>2
    <3>2. (a \o b)[j] = b[j - Len(a)]
      BY <1>1, <1>2, <3>1
    <3> QED
      BY <1>2, <2>2, <3>1, <3>2
  <2> QED
    BY <2>1, <2>2
<1> QED
  BY <1>3, <1>4, <1>5

\* A block cut off a trunk with room (fast_mpool_do_alloc).
LEMMA CutsOff ==
  ASSUME ArenaConstants, NEW ts, NEW c, ArenaWhole(ts, c, blocks),
         NEW i \in 1 .. Len(c), NEW size \in Nat, size <= ts[c[i]].size - ts[c[i]].off,
         Arena!Cut(ts, c, i, size)
  PROVE  ArenaInv'
<1> DEFINE t == c[i]
           b == << t, ts[t].off, size >>
<1>1. t \in 1 .. Len(ts) /\ ts[t] \in ArenaTrunk /\ Len(ts) \in Nat
  BY DEF ArenaWhole
<1>2. ts[t].off \in Nat /\ ts[t].size \in Nat
  BY <1>1 DEF ArenaTrunk
<1>3. /\ trunks' = [ts EXCEPT ![t] = [size |-> ts[t].size, off |-> ts[t].off + size]]
      /\ chain' = IF ts[t].size - ts[t].off - size <= Discard THEN Arena!Removed(c, i) ELSE c
      /\ blocks' = blocks \cup {b}
  <2>1. [ts[t] EXCEPT !.off = ts[t].off + size] = [size |-> ts[t].size, off |-> ts[t].off + size]
    BY <1>1 DEF ArenaTrunk
  <2>2. trunks' = [ts EXCEPT ![t] = [ts[t] EXCEPT !.off = ts[t].off + size]]
    BY DEF Arena!Cut
  <2> QED
    BY <2>1, <2>2 DEF Arena!Cut
<1> HIDE DEF t
<1>4. /\ trunks' \in Seq(ArenaTrunk) /\ Len(trunks') = Len(ts)
      /\ trunks'[t].size = ts[t].size /\ trunks'[t].off = ts[t].off + size
      /\ \A u \in 1 .. Len(ts) : u # t => trunks'[u] = ts[u]
  <2>1. [size |-> ts[t].size, off |-> ts[t].off + size] \in ArenaTrunk
    BY <1>2 DEF ArenaTrunk
  <2>2. ts \in Seq(ArenaTrunk)
    BY DEF ArenaWhole
  <2> QED
    BY <1>1, <1>3, <2>1, <2>2
<1>5. \A u \in 1 .. Len(ts) : trunks'[u].off <= trunks'[u].size /\ ts[u].off <= trunks'[u].off
  <2> SUFFICES ASSUME NEW u \in 1 .. Len(ts)
               PROVE  trunks'[u].off <= trunks'[u].size /\ ts[u].off <= trunks'[u].off
    OBVIOUS
  <2>1. CASE u = t
    BY <1>2, <1>4, <2>1 DEF t
  <2>2. CASE u # t
    <3>1. ts[u] \in ArenaTrunk /\ ts[u].off <= ts[u].size
      BY DEF ArenaWhole
    <3>2. trunks'[u] = ts[u]
      BY <1>4, <2>2
    <3>3. ts[u].off \in Nat
      BY <3>1 DEF ArenaTrunk
    <3> QED
      BY <3>1, <3>2, <3>3
  <2> QED
    BY <2>1, <2>2
<1>6. chain' \in Seq(1 .. Len(ts)) /\ \A j, k \in 1 .. Len(chain') : chain'[j] = chain'[k] => j = k
  <2>1. c \in Seq(1 .. Len(ts)) /\ \A j, k \in 1 .. Len(c) : c[j] = c[k] => j = k
    BY DEF ArenaWhole
  <2>2. CASE chain' = c
    BY <2>1, <2>2
  <2>3. CASE chain' = Arena!Removed(c, i)
    <3>1. /\ chain' \in Seq(1 .. Len(ts)) /\ Len(chain') = Len(c) - 1
          /\ \A j \in 1 .. Len(c) - 1 : chain'[j] = IF j < i THEN c[j] ELSE c[j + 1]
      BY <2>1, <2>3, RemovedAt
    <3>2. ASSUME NEW j \in 1 .. Len(c) - 1, NEW k \in 1 .. Len(c) - 1, chain'[j] = chain'[k]
          PROVE  j = k
      <4> DEFINE m == IF j < i THEN j ELSE j + 1
                 n == IF k < i THEN k ELSE k + 1
      <4>0. Len(c) \in Nat
        BY <2>1
      <4>1. m \in 1 .. Len(c) /\ chain'[j] = c[m]
        BY <3>1, <4>0
      <4>2. n \in 1 .. Len(c) /\ chain'[k] = c[n]
        BY <3>1, <4>0
      <4> HIDE DEF m, n
      <4>3. m = n
        BY <2>1, <3>2, <4>1, <4>2
      <4> QED
        BY <4>3 DEF m, n
    <3> QED
      BY <3>1, <3>2
  <2> QED
    BY <1>3, <2>2, <2>3
<1>7. ASSUME NEW u \in 1 .. Len(ts), trunks'[u].size - trunks'[u].off > Discard
      PROVE  \E k \in 1 .. Len(chain') : chain'[k] = u
  <2>1. PICK k \in 1 .. Len(c) : c[k] = u
    <3>1. CASE u = t
      BY <3>1 DEF t
    <3>2. CASE u # t
      BY <1>4, <1>7, <3>2 DEF ArenaWhole
    <3> QED
      BY <3>1, <3>2
  <2>2. CASE chain' = c
    BY <2>1, <2>2
  <2>3. CASE chain' # c
    <3>1. ts[t].size - ts[t].off - size <= Discard /\ chain' = Arena!Removed(c, i)
      BY <1>3, <2>3
    <3>2. u # t
      <4>1. ts[t].size - (ts[t].off + size) = ts[t].size - ts[t].off - size
        BY <1>2
      <4> QED
        BY <1>2, <1>4, <1>7, <3>1, <4>1 DEF ArenaConstants
    <3>3. k # i
      BY <2>1, <3>2 DEF t
    <3>4. /\ Len(chain') = Len(c) - 1 /\ Len(c) \in Nat
          /\ \A j \in 1 .. Len(c) - 1 : chain'[j] = IF j < i THEN c[j] ELSE c[j + 1]
      <4>1. c \in Seq(1 .. Len(ts))
        BY DEF ArenaWhole
      <4>2. Len(c) \in Nat
        BY <4>1
      <4>3. /\ Len(Arena!Removed(c, i)) = Len(c) - 1
            /\ \A j \in 1 .. Len(c) - 1 : Arena!Removed(c, i)[j] = IF j < i THEN c[j] ELSE c[j + 1]
        BY <4>1, RemovedAt
      <4> QED
        BY <3>1, <4>2, <4>3
    <3>5. CASE k < i
      <4>1. k \in 1 .. Len(c) - 1 /\ k \in 1 .. Len(chain')
        BY <3>4, <3>5
      <4>2. chain'[k] = u
        BY <2>1, <3>4, <3>5, <4>1
      <4> QED
        BY ONLY <4>1, <4>2
    <3>6. CASE k > i
      <4>1. k - 1 \in 1 .. Len(c) - 1 /\ ~ (k - 1 < i) /\ (k - 1) + 1 = k
        BY <3>4, <3>6
      <4>2. k - 1 \in 1 .. Len(chain') /\ chain'[k - 1] = u
        BY <2>1, <3>4, <4>1
      <4> QED
        BY ONLY <4>2
    <3> QED
      BY <3>3, <3>5, <3>6
  <2> QED
    BY <2>2, <2>3
<1>8. \A d \in blocks : /\ d \in (1 .. Len(ts)) \X Nat \X Nat /\ d[1] \in 1 .. Len(ts)
                        /\ d[2] \in Nat /\ d[3] \in Nat /\ d[2] + d[3] <= ts[d[1]].off
  BY DEF ArenaWhole
<1>9. b \in (1 .. Len(ts)) \X Nat \X Nat /\ b[1] = t /\ b[2] = ts[t].off /\ b[3] = size
  BY <1>1, <1>2
<1> HIDE DEF b
<1>10. \A d \in blocks' : d \in (1 .. Len(ts)) \X Nat \X Nat /\ d[2] + d[3] <= trunks'[d[1]].off
  <2>1. ASSUME NEW d \in blocks PROVE d[2] + d[3] <= trunks'[d[1]].off
    <3>1. ts[d[1]].off <= trunks'[d[1]].off /\ ts[d[1]] \in ArenaTrunk /\ trunks'[d[1]] \in ArenaTrunk
      BY <1>4, <1>5, <1>8 DEF ArenaWhole
    <3> QED
      BY <1>8, <3>1 DEF ArenaTrunk
  <2>2. b[2] + b[3] <= trunks'[b[1]].off
    BY <1>2, <1>4, <1>9
  <2> QED
    BY <1>3, <1>8, <1>9, <2>1, <2>2
<1>11. ASSUME NEW d \in blocks', NEW e \in blocks', d # e, d[1] = e[1]
       PROVE  d[2] + d[3] <= e[2] \/ e[2] + e[3] <= d[2]
  <2>1. CASE d \in blocks /\ e \in blocks
    BY <1>11, <2>1 DEF ArenaWhole
  <2>2. CASE d \in blocks /\ e = b
    BY <1>8, <1>9, <1>11, <2>2
  <2>3. CASE e \in blocks /\ d = b
    BY <1>8, <1>9, <1>11, <2>3
  <2> QED
    BY <1>3, <1>11, <2>1, <2>2, <2>3
<1> QED
  BY <1>4, <1>5, <1>6, <1>7, <1>10, <1>11 DEF ArenaInv, ArenaWhole

\* fast_mpool_alloc, from a trunk in the chain.
LEMMA ArenaCutStep ==
  ASSUME ArenaConstants, ArenaInv, NEW size \in BlockSizes, Arena!AllocCut(size)
  PROVE  ArenaInv'
<1>1. DOMAIN chain = 1 .. Len(chain) /\ size \in Nat
  <2>1. chain \in Seq(1 .. Len(trunks)) /\ size \in Nat
    BY DEF ArenaInv, ArenaWhole, ArenaConstants
  <2> QED
    BY <2>1
<1>2. PICK i \in 1 .. Len(chain) : Arena!Left(chain[i]) >= size /\ Arena!Cut(trunks, chain, i, size)
  BY <1>1 DEF Arena!AllocCut
<1>3. chain[i] \in 1 .. Len(trunks) /\ trunks[chain[i]] \in ArenaTrunk
  BY DEF ArenaInv, ArenaWhole
<1>4. size <= trunks[chain[i]].size - trunks[chain[i]].off
  BY <1>1, <1>2, <1>3 DEF Arena!Left, ArenaTrunk
<1> QED
  BY <1>1, <1>2, <1>4, CutsOff DEF ArenaInv

\* fast_mpool_alloc, from a new trunk, which is put in front of the chain.
LEMMA ArenaTrunkStep ==
  ASSUME ArenaConstants, ArenaInv, NEW size \in BlockSizes, Arena!AllocTrunk(size)
  PROVE  ArenaInv'
<1> DEFINE n == Len(trunks)
           x == [size |-> IF size < SizeOnce THEN SizeOnce ELSE size, off |-> 0]
           ts == Append(trunks, x)
           c == << Len(ts) >> \o chain
<1>1. size \in Nat /\ x \in ArenaTrunk /\ x.size - x.off >= size
  BY DEF ArenaConstants, ArenaTrunk
<1>2. trunks \in Seq(ArenaTrunk) /\ chain \in Seq(1 .. n) /\ n \in Nat
  BY DEF ArenaInv, ArenaWhole
<1>3. ts \in Seq(ArenaTrunk) /\ Len(ts) = n + 1 /\ ts[n + 1] = x /\ \A t \in 1 .. n : ts[t] = trunks[t]
  BY <1>1, <1>2, AppendProperties
<1>4. Arena!Cut(ts, c, 1, size)
  BY DEF Arena!AllocTrunk
<1> HIDE DEF x, ts
<1>5. /\ c \in Seq(1 .. n + 1) /\ Len(c) = Len(chain) + 1 /\ c[1] = n + 1 /\ Len(chain) \in Nat
      /\ \A k \in 1 .. Len(chain) : c[k + 1] = chain[k] /\ chain[k] \in 1 .. n
      /\ \A k \in 2 .. Len(chain) + 1 : c[k] = chain[k - 1] /\ k - 1 \in 1 .. Len(chain)
  <2>1. chain \in Seq(1 .. n + 1) /\ << n + 1 >> \in Seq(1 .. n + 1) /\ Len(chain) \in Nat
    BY <1>2
  <2>2. c = << n + 1 >> \o chain
    BY <1>3
  <2>3. c \in Seq(1 .. n + 1) /\ Len(c) = Len(chain) + 1 /\ c[1] = n + 1
    BY <2>1, <2>2
  <2>4. \A k \in 1 .. Len(chain) : c[k + 1] = chain[k] /\ chain[k] \in 1 .. n
    BY <1>2, <2>1, <2>2
  <2>5. \A k \in 2 .. Len(chain) + 1 : c[k] = chain[k - 1] /\ k - 1 \in 1 .. Len(chain)
    BY <2>1, <2>2
  <2> QED
    BY <2>1, <2>3, <2>4, <2>5
<1> HIDE DEF c
<1>6. \A t \in 1 .. Len(ts) : ts[t].off <= ts[t].size
  <2> SUFFICES ASSUME NEW t \in 1 .. Len(ts) PROVE ts[t].off <= ts[t].size
    OBVIOUS
  <2>1. CASE t \in 1 .. n
    <3>1. trunks[t].off <= trunks[t].size
      BY <2>1 DEF ArenaInv, ArenaWhole
    <3> QED
      BY <1>3, <2>1, <3>1
  <2>2. CASE t = n + 1
    <3>1. x.off = 0 /\ x.size \in Nat
      BY <1>1 DEF x, ArenaTrunk
    <3> QED
      BY <1>3, <2>2, <3>1
  <2> QED
    BY <1>2, <1>3, <2>1, <2>2
<1>7. \A j, k \in 1 .. Len(c) : c[j] = c[k] => j = k
  <2> SUFFICES ASSUME NEW j \in 1 .. Len(c), NEW k \in 1 .. Len(c), c[j] = c[k] PROVE j = k
    OBVIOUS
  <2>1. \A m \in 1 .. Len(c) : m = 1 \/ m \in 2 .. Len(chain) + 1
    BY <1>5
  <2>2. \A m \in 2 .. Len(chain) + 1 : c[m] = chain[m - 1] /\ m - 1 \in 1 .. Len(chain) /\ c[m] # n + 1
    BY <1>2, <1>5
  <2>3. CASE j = 1 \/ k = 1
    BY <1>5, <2>1, <2>2, <2>3
  <2>4. CASE j # 1 /\ k # 1
    <3>1. j - 1 \in 1 .. Len(chain) /\ k - 1 \in 1 .. Len(chain) /\ chain[j - 1] = chain[k - 1]
      BY <2>1, <2>2, <2>4
    <3>2. \A a, b \in 1 .. Len(chain) : chain[a] = chain[b] => a = b
      BY DEF ArenaInv, ArenaWhole
    <3>3. j - 1 = k - 1
      BY ONLY <3>1, <3>2
    <3>4. j \in Int /\ k \in Int
      OBVIOUS
    <3> QED
      BY ONLY <3>3, <3>4
  <2> QED
    BY <2>3, <2>4
<1>8. ASSUME NEW t \in 1 .. Len(ts), ts[t].size - ts[t].off > Discard PROVE \E k \in 1 .. Len(c) : c[k] = t
  <2>1. CASE t \in 1 .. n
    <3>1. PICK k \in 1 .. Len(chain) : chain[k] = t
      BY <1>3, <1>8, <2>1 DEF ArenaInv, ArenaWhole
    <3>2. k + 1 \in 1 .. Len(c) /\ c[k + 1] = t
      BY <1>5, <3>1
    <3> QED
      BY <3>2
  <2>2. CASE t = n + 1
    BY <1>5, <2>2
  <2> QED
    BY <1>2, <1>3, <2>1, <2>2
<1>9. blocks \in SUBSET ((1 .. Len(ts)) \X Nat \X Nat)
      /\ \A b \in blocks : b[2] + b[3] <= ts[b[1]].off
  <2>1. \A b \in blocks : b[1] \in 1 .. n /\ b[2] + b[3] <= trunks[b[1]].off /\ b \in (1 .. n) \X Nat \X Nat
    BY DEF ArenaInv, ArenaWhole
  <2>2. (1 .. n) \X Nat \X Nat \subseteq (1 .. Len(ts)) \X Nat \X Nat
    BY <1>2, <1>3
  <2> QED
    BY <1>3, <2>1, <2>2
<1>10. ArenaWhole(ts, c, blocks)
  BY <1>3, <1>5, <1>6, <1>7, <1>8, <1>9 DEF ArenaInv, ArenaWhole
<1>11. 1 \in 1 .. Len(c) /\ size <= ts[c[1]].size - ts[c[1]].off
  BY <1>1, <1>3, <1>5 DEF x
<1> QED
  BY <1>1, <1>4, <1>10, <1>11, CutsOff

\* fast_mpool_reset and fast_mpool_destroy.
LEMMA ArenaResetStep ==
  ASSUME ArenaInv, Arena!Reset \/ Arena!Destroy
  PROVE  ArenaInv'
<1>1. CASE Arena!Destroy
  BY <1>1 DEF Arena!Destroy, ArenaInv, ArenaWhole
<1>2. CASE Arena!Reset
  <2> DEFINE n == Len(trunks)
  <2>1. n \in Nat /\ DOMAIN trunks = 1 .. n /\ \A t \in 1 .. n : trunks[t] \in ArenaTrunk
    BY DEF ArenaInv, ArenaWhole
  <2>2. \A t \in 1 .. n : [trunks[t] EXCEPT !.off = 0] = [size |-> trunks[t].size, off |-> 0]
                          /\ trunks[t].size \in Nat
    BY <2>1 DEF ArenaTrunk
  <2> HIDE DEF n
  <2>3. trunks' = [t \in 1 .. n |-> [size |-> trunks[t].size, off |-> 0]]
    BY <1>2, <2>1, <2>2 DEF Arena!Reset
  <2>4. \A t \in 1 .. n : [size |-> trunks[t].size, off |-> 0] \in ArenaTrunk
    BY <2>2 DEF ArenaTrunk
  <2>5. trunks' \in Seq(ArenaTrunk) /\ Len(trunks') = n
    <3>1. trunks' \in [1 .. n -> ArenaTrunk]
      BY <2>3, <2>4
    <3> QED
      BY <2>1, <3>1
  <2>8. \A t \in 1 .. n : trunks'[t].off <= trunks'[t].size
    <3> SUFFICES ASSUME NEW t \in 1 .. n PROVE trunks'[t].off <= trunks'[t].size
      OBVIOUS
    <3>1. trunks'[t] = [size |-> trunks[t].size, off |-> 0]
      BY <2>3
    <3>2. trunks'[t].off = 0 /\ trunks'[t].size = trunks[t].size /\ trunks[t].size \in Nat
      BY ONLY <3>1, <2>2, t \in 1 .. n
    <3> QED
      BY ONLY <3>2
  <2>6. chain' = [i \in 1 .. n |-> i] /\ blocks' = {}
    BY <1>2, <2>1 DEF Arena!Reset
  <2>7. chain' \in Seq(1 .. n) /\ Len(chain') = n /\ \A i \in 1 .. n : chain'[i] = i
    BY <2>1, <2>6
  <2> QED
    BY <2>5, <2>6, <2>7, <2>8 DEF ArenaInv, ArenaWhole
<1> QED
  BY <1>1, <1>2

\* Blocks that lie one behind the other share no byte.
LEMMA ArenaInvSound ==
  ASSUME ArenaInv
  PROVE  Arena!Sound
<1>1. ASSUME NEW b \in blocks, NEW d \in blocks, b # d PROVE Arena!Bytes(b) \cap Arena!Bytes(d) = {}
  <2>1. b[2] \in Nat /\ b[3] \in Nat /\ d[2] \in Nat /\ d[3] \in Nat
    BY DEF ArenaInv, ArenaWhole
  <2>2. CASE b[1] # d[1]
    BY <2>2 DEF Arena!Bytes
  <2>3. CASE b[2] + b[3] <= d[2] \/ d[2] + d[3] <= b[2]
    <3>1. ASSUME NEW i \in b[2] .. (b[2] + b[3] - 1), NEW j \in d[2] .. (d[2] + d[3] - 1) PROVE i # j
      BY <2>1, <2>3
    <3> QED
      BY <3>1 DEF Arena!Bytes
  <2> QED
    BY <1>1, <2>2, <2>3 DEF ArenaInv, ArenaWhole
<1>2. \A b \in blocks : b[2] + b[3] <= trunks[b[1]].off /\ trunks[b[1]].off <= trunks[b[1]].size
  BY DEF ArenaInv, ArenaWhole
<1>3. /\ DOMAIN chain = 1 .. Len(chain) /\ DOMAIN trunks = 1 .. Len(trunks)
      /\ \A i \in 1 .. Len(chain) : chain[i] \in 1 .. Len(trunks)
  BY DEF ArenaInv, ArenaWhole
<1>4. Arena!IsInjective(chain) /\ Arena!Range(chain) \subseteq DOMAIN trunks
  <2>1. \A i, j \in 1 .. Len(chain) : chain[i] = chain[j] => i = j
    BY DEF ArenaInv, ArenaWhole
  <2>2. Arena!IsInjective(chain)
    BY <1>3, <2>1 DEF Arena!IsInjective
  <2> QED
    BY <1>3, <2>2, Zenon DEF Arena!Range
<1>5. ASSUME NEW t \in DOMAIN trunks, Arena!Left(t) > Discard PROVE t \in Arena!Range(chain)
  <2>1. PICK k \in 1 .. Len(chain) : chain[k] = t
    BY <1>3, <1>5 DEF ArenaInv, ArenaWhole, Arena!Left
  <2> QED
    BY <1>3, <2>1 DEF Arena!Range
<1> QED
  BY <1>1, <1>2, <1>4, <1>5 DEF Arena!Sound

\* The arena keeps its invariant.
LEMMA ArenaSteps ==
  ASSUME ArenaConstants, ArenaInv, Arena!Next
  PROVE  ArenaInv'
  BY ArenaCutStep, ArenaTrunkStep, ArenaResetStep DEF Arena!Next

\* fast_mpool_init starts without a trunk.
LEMMA ArenaStarts ==
  ASSUME Arena!Init
  PROVE  ArenaInv
  BY DEF Arena!Init, ArenaInv, ArenaWhole
-----------------------------------------------------------------------------
(* The buffer.                                                               *)

Memory == [mem : Seq(Int), size : Nat, length : Nat]

\* The buffer b has room for the bytes s and one more, and starts with them.
Holds(b, s) ==
  /\ b \in Memory /\ s \in Seq(Int)
  /\ b.length = Len(s) /\ b.length < b.size /\ Len(b.mem) = b.size
  /\ \A i \in 1 .. Len(s) : b.mem[i] = s[i]

Ended(b) == b.mem[b.length + 1] = Bytes!End

BytesInv == Holds(buf, text) /\ (~ torn => Ended(buf))

\* The sizes that fast_buffer_check goes through, up to the k-th.
Doubling(n, k, f) == f = [j \in 0 .. k |-> IF j = 0 THEN n ELSE 2 * f[j - 1]]

\* There are such sizes up to every k, and the k-th is larger than k.
LEMMA DoublingExists ==
  ASSUME NEW n \in Nat \ {0}, NEW k \in Nat
  PROVE  \E f : Doubling(n, k, f) /\ \A j \in 0 .. k : f[j] \in Nat /\ f[j] > j
<1> DEFINE P(m, f) == Doubling(n, m, f) /\ \A j \in 0 .. m : f[j] \in Nat /\ f[j] > j
           T == {m \in Nat : ~ \E f : P(m, f)}
<1>1. T = {}
  <2> SUFFICES ASSUME NEW x \in T PROVE FALSE
    OBVIOUS
  <2>1. PICK m \in T : \A y \in T : m <= y
    BY Least, Zenon
  <2>2. CASE m = 0
    <3> DEFINE f == [j \in 0 .. 0 |-> n]
    <3>1. Doubling(n, 0, f)
      BY DEF Doubling
    <3>2. P(0, f)
      BY <3>1
    <3> QED
      BY <2>1, <2>2, <3>2
  <2>3. CASE m # 0
    <3>1. m \in Nat /\ m - 1 \in Nat /\ m - 1 \notin T
      <4>1. m \in Nat
        OBVIOUS
      <4> HIDE DEF T
      <4> QED
        BY <2>1, <2>3, <4>1
    <3>2. PICK f : P(m - 1, f)
      BY <3>1
    <3> DEFINE g == [j \in 0 .. m |-> IF j = m THEN 2 * f[m - 1] ELSE f[j]]
    <3>3. \A j \in 0 .. m : g[j] = (IF j = 0 THEN n ELSE 2 * g[j - 1]) /\ g[j] \in Nat /\ g[j] > j
      <4> SUFFICES ASSUME NEW j \in 0 .. m
                   PROVE  g[j] = (IF j = 0 THEN n ELSE 2 * g[j - 1]) /\ g[j] \in Nat /\ g[j] > j
        OBVIOUS
      <4>1. CASE j = m
        <5>1. m - 1 \in 0 .. m - 1 /\ j - 1 \in 0 .. m /\ j - 1 # m /\ j # 0
          BY <4>1, <3>1, <2>3
        <5>2. f[m - 1] \in Nat /\ f[m - 1] > m - 1
          BY <3>2, <5>1
        <5>3. g[j] = 2 * f[m - 1] /\ g[j - 1] = f[m - 1]
          BY <4>1, <5>1
        <5> HIDE DEF g
        <5> QED
          BY ONLY <4>1, <5>1, <5>2, <5>3, <3>1
      <4>2. CASE j # m
        <5>1. j \in 0 .. m - 1 /\ (j # 0 => j - 1 \in 0 .. m /\ j - 1 # m)
          BY <4>2, <3>1
        <5>2. f[j] = (IF j = 0 THEN n ELSE 2 * f[j - 1]) /\ f[j] \in Nat /\ f[j] > j
          BY <3>2, <5>1 DEF Doubling
        <5>3. g[j] = f[j] /\ (j # 0 => g[j - 1] = f[j - 1])
          BY <4>2, <5>1
        <5> HIDE DEF g
        <5> QED
          BY ONLY <5>2, <5>3
      <4> QED
        BY <4>1, <4>2
    <3>4. Doubling(n, m, g)
      <4>1. [j \in 0 .. m |-> g[j]] = [j \in 0 .. m |-> IF j = 0 THEN n ELSE 2 * g[j - 1]]
        BY <3>3, Zenon
      <4>2. g = [j \in 0 .. m |-> g[j]]
        OBVIOUS
      <4> QED
        BY <4>1, <4>2 DEF Doubling
    <3>5. P(m, g)
      BY <3>3, <3>4
    <3> QED
      BY <2>1, <3>5, Zenon
  <2> QED
    BY <2>2, <2>3
<1> QED
  BY <1>1, Zenon

\* The loop of fast_buffer_check ends with more than is needed.
LEMMA DoublingEnds ==
  ASSUME NEW n \in Nat \ {0}, NEW need \in Nat
  PROVE  Bytes!Doubled(n, need) \in Nat /\ Bytes!Doubled(n, need) > need
<1> DEFINE size == CHOOSE f : f = [k \in 0 .. need |-> IF k = 0 THEN n ELSE 2 * f[k - 1]]
           over == {k \in 0 .. need : size[k] > need}
<1>1. size = [k \in 0 .. need |-> IF k = 0 THEN n ELSE 2 * size[k - 1]]
  <2>1. \E f : Doubling(n, need, f)
    BY DoublingExists
  <2>2. Doubling(n, need, CHOOSE f : Doubling(n, need, f))
    BY <2>1, Zenon
  <2>3. size = CHOOSE f : Doubling(n, need, f)
    BY DEF Doubling
  <2> QED
    BY <2>2, <2>3 DEF Doubling
<1>2. \A j \in 0 .. need : size[j] \in Nat /\ size[j] > j
  <2> DEFINE T == {j \in 0 .. need : ~ (size[j] \in Nat /\ size[j] > j)}
  <2> HIDE DEF size
  <2>1. T = {}
    <3> SUFFICES ASSUME T # {} PROVE FALSE
      OBVIOUS
    <3>1. PICK m \in T : \A y \in T : m <= y
      <4>1. T \subseteq Nat
        OBVIOUS
      <4> QED
        BY <4>1, Least, Zenon
    <3>2. size[m] = IF m = 0 THEN n ELSE 2 * size[m - 1]
      BY <1>1
    <3>3. CASE m = 0
      BY <3>1, <3>2, <3>3
    <3>4. CASE m # 0
      <4>1. m \in Nat /\ m - 1 \in 0 .. need /\ m - 1 \notin T
        BY <3>1, <3>4
      <4>2. size[m - 1] \in Nat /\ size[m - 1] > m - 1
        BY <4>1
      <4>3. size[m] \in Nat /\ size[m] > m
        BY ONLY <4>1, <4>2, <3>2, <3>4
      <4> QED
        BY <3>1, <4>3
    <3> QED
      BY <3>3, <3>4
  <2> QED
    BY <2>1
<1>3. Bytes!Doubled(n, need) =
        size[CHOOSE k \in 0 .. need : size[k] > need /\ \A j \in 0 .. (k - 1) : size[j] <= need]
  BY DEF Bytes!Doubled
<1> HIDE DEF size
<1>4. \E k \in 0 .. need : size[k] > need /\ \A j \in 0 .. (k - 1) : size[j] <= need
  <2>1. need \in over /\ over \subseteq Nat
    BY <1>2
  <2>2. PICK k \in over : \A j \in over : k <= j
    <3> HIDE DEF over
    <3> QED
      BY <2>1, Least
  <2>3. ASSUME NEW j \in 0 .. (k - 1) PROVE size[j] <= need
    <3>1. j \in 0 .. need /\ ~ (k <= j)
      OBVIOUS
    <3>2. ~ (size[j] > need)
      BY <2>2, <3>1
    <3> QED
      BY <1>2, <3>1, <3>2
  <2> QED
    BY <2>3
<1>5. PICK k \in 0 .. need : size[k] > need /\ Bytes!Doubled(n, need) = size[k]
  BY <1>3, <1>4, Zenon
<1> QED
  BY <1>2, <1>5

\* New memory of more than b.length bytes holds what b holds.
LEMMA GrownHolds ==
  ASSUME NEW b, NEW s, Holds(b, s), NEW n \in Nat, n > b.length
  PROVE  Holds(Bytes!Grown(b, n), s) /\ Bytes!Grown(b, n).size = n
         /\ Bytes!Grown(b, n).length = b.length
<1> DEFINE mem == [i \in 1 .. n |-> IF i <= b.length THEN b.mem[i] ELSE Bytes!Garbage]
           g == [mem |-> mem, size |-> n, length |-> b.length]
<1>1. Bytes!Grown(b, n) = g
  <2>1. Bytes!Grown(b, n) = [b EXCEPT !.mem = mem, !.size = n]
    BY DEF Bytes!Grown
  <2>2. b = [mem |-> b.mem, size |-> b.size, length |-> b.length]
    BY DEF Holds, Memory
  <2> HIDE DEF mem
  <2> QED
    BY <2>1, <2>2
<1>2. b.length = Len(s) /\ b.length \in Nat /\ b.mem \in Seq(Int) /\ Len(b.mem) = b.size
      /\ b.length < b.size /\ b.size \in Nat /\ s \in Seq(Int)
      /\ \A i \in 1 .. b.length : b.mem[i] = s[i]
  BY DEF Holds, Memory
<1>3. \A i \in 1 .. n : mem[i] \in Int
  <2>1. \A i \in 1 .. n : i <= b.length => i \in 1 .. Len(b.mem) /\ b.mem[i] \in Int
    BY <1>2
  <2> QED
    BY <2>1 DEF Bytes!Garbage
<1>4. mem \in Seq(Int) /\ Len(mem) = n /\ \A i \in 1 .. b.length : mem[i] = s[i]
  BY <1>2, <1>3
<1> HIDE DEF mem
<1> QED
  BY <1>1, <1>2, <1>4 DEF Holds, Memory

\* fast_buffer_check makes room, and the bytes stay.
LEMMA CheckHolds ==
  ASSUME NEW b, NEW s, Holds(b, s), NEW inc \in Nat, NEW c \in Bytes!Check(b, inc)
  PROVE  /\ Holds(c, s) /\ c.size > c.length + inc /\ c.length = b.length
         /\ ~ Bytes!MayFail(b, inc) => c = b
<1>1. b.size \in Nat \ {0} /\ b.length \in Nat /\ b.length < b.size
  BY DEF Holds, Memory
<1>2. CASE b.size > b.length + inc
  BY <1>1, <1>2 DEF Bytes!Check
<1>3. CASE ~ (b.size > b.length + inc)
  <2> DEFINE n == Bytes!Doubled(2 * b.size, b.length + inc)
  <2>1. n \in Nat /\ n > b.length + inc
    <3>1. 2 * b.size \in Nat \ {0} /\ b.length + inc \in Nat
      BY <1>1
    <3> QED
      BY <3>1, DoublingEnds
  <2>2. c = Bytes!Grown(b, n)
    BY <1>3 DEF Bytes!Check
  <2>3. n > b.length
    BY <1>1, <2>1
  <2>4. Holds(c, s) /\ c.size = n /\ c.length = b.length
    BY <2>1, <2>2, <2>3, GrownHolds
  <2>5. Bytes!MayFail(b, inc)
    BY <1>1, <1>3 DEF Bytes!MayFail
  <2> QED
    BY <2>1, <2>4, <2>5
<1> QED
  BY <1>2, <1>3

\* What is written within the memory leaves the rest of it alone.
LEMMA Written ==
  ASSUME NEW b \in Memory, NEW off \in Nat, NEW s \in Seq(Int),
         Len(b.mem) = b.size, off + Len(s) <= b.size
  PROVE  LET w == Bytes!Write(b, off, s) IN
         /\ w \in Memory /\ w.size = b.size /\ w.length = b.length /\ Len(w.mem) = b.size
         /\ \A i \in 1 .. off : w.mem[i] = b.mem[i]
         /\ \A i \in 1 .. Len(s) : w.mem[off + i] = s[i]
<1> DEFINE m == b.mem
           mem == [i \in 1 .. (IF Len(m) > off + Len(s) THEN Len(m) ELSE off + Len(s)) |->
                     IF i \in (off + 1) .. (off + Len(s)) THEN s[i - off]
                     ELSE IF i <= Len(m) THEN m[i] ELSE Bytes!Garbage]
           g == [i \in 1 .. b.size |-> IF i \in (off + 1) .. (off + Len(s)) THEN s[i - off] ELSE m[i]]
           w == [mem |-> g, size |-> b.size, length |-> b.length]
<1>1. m \in Seq(Int) /\ Len(m) = b.size /\ b.size \in Nat /\ b.length \in Nat /\ Len(s) \in Nat
  BY DEF Memory
<1>2. mem = g
  <2>1. (IF Len(m) > off + Len(s) THEN Len(m) ELSE off + Len(s)) = b.size
    BY <1>1
  <2>2. \A i \in 1 .. b.size : i <= Len(m)
    BY <1>1
  <2> QED
    BY <2>1, <2>2, Zenon
<1>3. Bytes!Write(b, off, s) = w
  <2>1. Bytes!Write(b, off, s) = [b EXCEPT !.mem = mem]
    BY DEF Bytes!Write
  <2>2. b = [mem |-> b.mem, size |-> b.size, length |-> b.length]
    BY DEF Memory
  <2> HIDE DEF mem, g
  <2>3. [b EXCEPT !.mem = mem] = [mem |-> mem, size |-> b.size, length |-> b.length]
    BY <2>2
  <2> QED
    BY <1>2, <2>1, <2>3
<1>4. \A i \in 1 .. b.size : g[i] \in Int
  <2>1. \A i \in 1 .. b.size : m[i] \in Int
    BY <1>1
  <2>2. \A i \in (off + 1) .. (off + Len(s)) : i - off \in 1 .. Len(s) /\ s[i - off] \in Int
    BY <1>1
  <2> QED
    BY <2>1, <2>2
<1>5. g \in Seq(Int) /\ Len(g) = b.size
  <2>1. g \in [1 .. b.size -> Int]
    BY <1>4
  <2>2. b.size \in Nat
    BY <1>1
  <2> HIDE DEF g
  <2> QED
    BY ONLY <2>1, <2>2
<1>6. \A i \in 1 .. off : g[i] = m[i]
  <2>1. \A i \in 1 .. off : i \in 1 .. b.size /\ i \notin (off + 1) .. (off + Len(s))
    BY <1>1
  <2> QED
    BY <2>1
<1>7. \A i \in 1 .. Len(s) : g[off + i] = s[i]
  <2>1. \A i \in 1 .. Len(s) : /\ off + i \in 1 .. b.size /\ off + i \in (off + 1) .. (off + Len(s))
                               /\ (off + i) - off = i
    BY <1>1
  <2> QED
    BY <2>1
<1> HIDE DEF g
<1>8. w \in Memory
  BY <1>1, <1>5 DEF Memory
<1> QED
  BY <1>3, <1>5, <1>6, <1>7, <1>8

\* Bytes and a terminator written behind what the buffer holds, with room.
LEMMA Appended ==
  ASSUME NEW b, Holds(b, text), NEW s \in Seq(Int), b.length + Len(s) < b.size,
         NEW c, c = [Bytes!Write(b, b.length, s \o << Bytes!End >>) EXCEPT !.length = @ + Len(s)]
  PROVE  Holds(c, text \o s) /\ Ended(c)
<1> DEFINE z == s \o << Bytes!End >>
           w == Bytes!Write(b, b.length, z)
<1>1. /\ b \in Memory /\ text \in Seq(Int) /\ b.length = Len(text) /\ b.size \in Nat
      /\ Len(b.mem) = b.size /\ Len(text) \in Nat /\ Len(s) \in Nat
      /\ \A i \in 1 .. Len(text) : b.mem[i] = text[i]
  BY DEF Holds, Memory
<1>2. z \in Seq(Int) /\ Len(z) = Len(s) + 1 /\ z[Len(s) + 1] = Bytes!End
      /\ \A i \in 1 .. Len(s) : z[i] = s[i]
  BY DEF Bytes!End
<1> HIDE DEF z
<1>3. /\ w \in Memory /\ w.size = b.size /\ w.length = b.length /\ Len(w.mem) = b.size
      /\ \A i \in 1 .. b.length : w.mem[i] = b.mem[i]
      /\ \A i \in 1 .. Len(z) : w.mem[b.length + i] = z[i]
  <2>1. b.length + Len(z) <= b.size /\ b.length \in Nat
    BY <1>1, <1>2
  <2> QED
    BY <1>1, <1>2, <2>1, Written
<1>4. c = [w EXCEPT !.length = w.length + Len(s)]
  BY DEF z
<1> HIDE DEF w
<1>5. c \in Memory /\ c.mem = w.mem /\ c.size = b.size /\ c.length = Len(text) + Len(s)
  <2>1. w = [mem |-> w.mem, size |-> b.size, length |-> Len(text)] /\ w.mem \in Seq(Int)
    BY <1>1, <1>3 DEF Memory
  <2>2. c = [mem |-> w.mem, size |-> b.size, length |-> Len(text) + Len(s)]
    <3> DEFINE m == w.mem
               n == Len(text) + Len(s)
    <3>1. w = [mem |-> m, size |-> b.size, length |-> Len(text)]
      BY <2>1
    <3>2. c = [w EXCEPT !.length = n]
      BY <1>1, <1>3, <1>4
    <3> HIDE DEF m, n
    <3>3. c = [mem |-> m, size |-> b.size, length |-> n]
      BY ONLY <3>1, <3>2
    <3> QED
      BY <3>3 DEF m, n
  <2>3. Len(text) + Len(s) \in Nat
    BY <1>1
  <2> QED
    BY ONLY <1>1, <2>1, <2>2, <2>3 DEF Memory
<1>6. /\ text \o s \in Seq(Int) /\ Len(text \o s) = Len(text) + Len(s)
      /\ \A i \in 1 .. Len(text) : (text \o s)[i] = text[i]
      /\ \A i \in 1 .. Len(s) : (text \o s)[Len(text) + i] = s[i]
  <2>1. text \in Seq(Int) /\ s \in Seq(Int)
    BY <1>1
  <2> QED
    BY ONLY <2>1
<1>7. ASSUME NEW i \in 1 .. Len(text \o s) PROVE c.mem[i] = (text \o s)[i]
  <2>1. CASE i <= Len(text)
    BY <1>1, <1>3, <1>5, <1>6, <2>1
  <2>2. CASE ~ (i <= Len(text))
    <3>1. i - Len(text) \in 1 .. Len(s) /\ Len(text) + (i - Len(text)) = i
      BY <1>1, <1>6, <2>2
    <3>2. i - Len(text) \in 1 .. Len(z)
      BY <1>1, <1>2, <3>1
    <3>3. c.mem[i] = z[i - Len(text)]
      BY <1>1, <1>3, <1>5, <3>1, <3>2
    <3>4. (text \o s)[i] = s[i - Len(text)]
      BY <1>6, <3>1
    <3> QED
      BY <1>2, <3>1, <3>3, <3>4
  <2> QED
    BY <2>1, <2>2
<1>8. c.mem[c.length + 1] = Bytes!End
  <2>1. Len(s) + 1 \in 1 .. Len(z) /\ b.length + (Len(s) + 1) = c.length + 1
    BY <1>1, <1>2, <1>5
  <2> QED
    BY <1>2, <1>3, <1>5, <2>1
<1> QED
  BY <1>1, <1>3, <1>5, <1>6, <1>7, <1>8 DEF Holds, Ended

\* What is written behind the bytes leaves them alone.
LEMMA WrittenBehind ==
  ASSUME NEW b, NEW t, Holds(b, t), NEW z \in Seq(Int), b.length + Len(z) <= b.size
  PROVE  LET w == Bytes!Write(b, b.length, z) IN
         /\ Holds(w, t) /\ w.size = b.size /\ w.length = b.length
         /\ \A i \in 1 .. Len(z) : w.mem[b.length + i] = z[i]
<1>1. b \in Memory /\ b.length \in Nat /\ Len(b.mem) = b.size /\ b.length = Len(t)
  BY DEF Holds, Memory
<1> DEFINE w == Bytes!Write(b, b.length, z)
<1>2. /\ w \in Memory /\ w.size = b.size /\ w.length = b.length /\ Len(w.mem) = b.size
      /\ \A i \in 1 .. b.length : w.mem[i] = b.mem[i]
      /\ \A i \in 1 .. Len(z) : w.mem[b.length + i] = z[i]
  BY <1>1, Written
<1> HIDE DEF w
<1>3. Holds(w, t)
  BY <1>1, <1>2 DEF Holds
<1> QED
  BY <1>2, <1>3 DEF w

\* vsnprintf with room for all of s writes all of it.
LEMMA FormattedWhole ==
  ASSUME NEW b, Holds(b, text), NEW s \in Seq(Int), b.length + Len(s) < b.size,
         NEW c, c = [Bytes!Formatted(b, s) EXCEPT !.length = @ + Len(s)]
  PROVE  Holds(c, text \o s) /\ Ended(c)
<1>1. b.size \in Nat /\ b.length \in Nat /\ Len(s) \in Nat
  BY DEF Holds, Memory
<1>2. Len(s) < b.size - b.length
  BY <1>1
<1>3. SubSeq(s, 1, Len(s)) = s
  OBVIOUS
<1>4. Bytes!Formatted(b, s) = Bytes!Write(b, b.length, s \o << Bytes!End >>)
  BY <1>2, <1>3, Zenon DEF Bytes!Formatted
<1>5. c = [Bytes!Write(b, b.length, s \o << Bytes!End >>) EXCEPT !.length = @ + Len(s)]
  BY <1>4
<1> QED
  BY <1>5, Appended

\* fast_buffer_append: whichever of its three ends it comes to.
LEMMA AppendFormatKeeps ==
  ASSUME BytesConstants, BytesInv, NEW s \in Texts, Bytes!AppendFormat(s)
  PROVE  BytesInv'
<1>1. s \in Seq(Int) /\ Len(s) \in Nat /\ FormatRoom \in Nat
  BY DEF BytesConstants
<1>2. torn' = FALSE
  BY DEF Bytes!AppendFormat
<1> DEFINE First(b) == Bytes!Formatted(b, s)
<1>3. PICK b \in Bytes!Check(buf, FormatRoom) :
        IF Len(s) < b.size - b.length
        THEN buf' = [First(b) EXCEPT !.length = @ + Len(s)] /\ text' = text \o s
        ELSE \/ \E c \in Bytes!Check(First(b), Len(s)) :
                  buf' = [Bytes!Formatted(c, s) EXCEPT !.length = @ + Len(s)] /\ text' = text \o s
             \/ /\ Bytes!MayFail(First(b), Len(s))
                /\ buf' = Bytes!Write(First(b), First(b).length, << Bytes!End >>) /\ UNCHANGED text
  BY Zenon DEF Bytes!AppendFormat
<1>4. Holds(b, text)
  BY <1>1, CheckHolds DEF BytesInv
<1>5. b.size \in Nat /\ b.length \in Nat /\ b.length < b.size
  BY <1>4 DEF Holds, Memory
<1>6. CASE Len(s) < b.size - b.length
  <2>1. b.length + Len(s) < b.size
    BY <1>1, <1>5, <1>6
  <2>2. Holds(buf', text') /\ Ended(buf')
    BY <1>1, <1>3, <1>4, <1>6, <2>1, FormattedWhole
  <2> QED
    BY <2>2 DEF BytesInv, Ended
<1>7. CASE ~ (Len(s) < b.size - b.length)
  <2> DEFINE n == (b.size - b.length) - 1
             z == SubSeq(s, 1, n) \o << Bytes!End >>
  <2>1. n \in 0 .. Len(s)
    BY <1>1, <1>5, <1>7
  <2>2. z \in Seq(Int) /\ Len(z) = n + 1
    <3>1. SubSeq(s, 1, n) \in Seq(Int) /\ Len(SubSeq(s, 1, n)) = n
      BY <1>1, <2>1
    <3>2. << Bytes!End >> \in Seq(Int)
      BY DEF Bytes!End
    <3> QED
      BY <3>1, <3>2
  <2>3. First(b) = Bytes!Write(b, b.length, z)
    BY <1>7, Zenon DEF Bytes!Formatted
  <2>4. b.length + Len(z) <= b.size
    BY <1>5, <2>2
  <2> HIDE DEF z
  <2>5. Holds(First(b), text) /\ First(b).size = b.size /\ First(b).length = b.length
    BY <1>4, <2>2, <2>3, <2>4, WrittenBehind
  <2>6. CASE \E c \in Bytes!Check(First(b), Len(s)) :
               buf' = [Bytes!Formatted(c, s) EXCEPT !.length = @ + Len(s)] /\ text' = text \o s
    <3>1. PICK c \in Bytes!Check(First(b), Len(s)) :
            buf' = [Bytes!Formatted(c, s) EXCEPT !.length = @ + Len(s)] /\ text' = text \o s
      BY <2>6
    <3>2. Holds(c, text) /\ c.size > c.length + Len(s)
      BY <1>1, <2>5, CheckHolds
    <3>3. c.length + Len(s) < c.size
      BY <1>1, <3>2 DEF Holds, Memory
    <3>4. Holds(buf', text') /\ Ended(buf')
      BY <1>1, <3>1, <3>2, <3>3, FormattedWhole
    <3> QED
      BY <3>4 DEF BytesInv, Ended
  <2>7. CASE buf' = Bytes!Write(First(b), First(b).length, << Bytes!End >>) /\ UNCHANGED text
    <3>1. << Bytes!End >> \in Seq(Int) /\ Len(<< Bytes!End >>) = 1 /\ << Bytes!End >>[1] = Bytes!End
      BY DEF Bytes!End
    <3>2. First(b).length + 1 <= First(b).size
      BY <1>5, <2>5
    <3> HIDE DEF First
    <3>3. Holds(buf', text) /\ buf'.length = First(b).length
          /\ \A i \in 1 .. 1 : buf'.mem[First(b).length + i] = << Bytes!End >>[i]
      BY <2>5, <2>7, <3>1, <3>2, WrittenBehind
    <3>4. Ended(buf')
      BY <3>1, <3>3 DEF Ended
    <3> QED
      BY <2>7, <3>3, <3>4 DEF BytesInv, Ended
  <2> QED
    BY <1>3, <1>7, <2>6, <2>7
<1> QED
  BY <1>6, <1>7

\* An append to what fast_buffer_check left, of no more than there is room for.
LEMMA AppendKeeps ==
  ASSUME BytesInv, NEW room \in Nat, NEW s \in Seq(Int), Len(s) <= room,
         NEW b \in Bytes!Check(buf, room),
         buf' = [Bytes!Write(b, b.length, s \o << Bytes!End >>) EXCEPT !.length = @ + Len(s)],
         text' = text \o s, torn' = FALSE
  PROVE  BytesInv'
<1>1. Holds(b, text) /\ b.size > b.length + room
  BY CheckHolds DEF BytesInv
<1>2. b.length + Len(s) < b.size
  BY <1>1 DEF Holds, Memory
<1>3. Holds(buf', text') /\ Ended(buf')
  BY <1>1, <1>2, Appended
<1> QED
  BY <1>3 DEF BytesInv, Ended

\* fast_buffer_append_buff, _int and _file.
LEMMA AppendsKeep ==
  ASSUME BytesConstants, BytesInv, NEW s \in Texts,
         \/ Bytes!AppendBuff(s) \/ Bytes!AppendInt(s)
         \/ \E n \in 0 .. Len(s) : Bytes!AppendFile(s, n)
  PROVE  BytesInv'
<1>1. s \in Seq(Int) /\ Len(s) \in Nat /\ IntRoom \in Nat
  BY DEF BytesConstants
<1>2. CASE Bytes!AppendBuff(s)
  <2>1. PICK b \in Bytes!Check(buf, Len(s)) :
          buf' = [Bytes!Write(b, b.length, s \o << Bytes!End >>) EXCEPT !.length = @ + Len(s)]
    BY <1>2 DEF Bytes!AppendBuff
  <2>2. torn' = FALSE /\ text' = text \o s /\ Len(s) <= Len(s)
    BY <1>1, <1>2 DEF Bytes!AppendBuff
  <2> QED
    BY <1>1, <2>1, <2>2, AppendKeeps
<1>3. CASE Bytes!AppendInt(s)
  <2>1. Len(s) <= IntRoom
    BY <1>1, <1>3 DEF Bytes!AppendInt
  <2> QED
    BY <1>1, <1>3, <2>1, AppendKeeps DEF Bytes!AppendInt
<1>4. ASSUME NEW n \in 0 .. Len(s), Bytes!AppendFile(s, n) PROVE BytesInv'
  <2> DEFINE r == SubSeq(s, 1, n)
  <2>1. r \in Seq(Int) /\ Len(r) = n /\ n <= Len(s) + 1 /\ Len(s) + 1 \in Nat
    BY <1>1
  <2>2. /\ torn' = FALSE /\ text' = text \o r
        /\ \E b \in Bytes!Check(buf, Len(s) + 1) :
             buf' = [Bytes!Write(b, b.length, r \o << Bytes!End >>) EXCEPT !.length = @ + n]
    BY <1>4 DEF Bytes!AppendFile
  <2> HIDE DEF r
  <2> QED
    BY <2>1, <2>2, AppendKeeps
<1> QED
  BY <1>2, <1>3, <1>4

\* The file cannot be read, or the buffer starts anew.
LEMMA BytesStay ==
  ASSUME BytesConstants, BytesInv, NEW s \in Texts, Bytes!AppendFileFails(s)
  PROVE  BytesInv'
<1>1. Len(s) + 1 \in Nat
  BY DEF BytesConstants
<1>2. buf' \in Bytes!Check(buf, Len(s) + 1) /\ text' = text
      /\ torn' = (torn \/ Bytes!MayFail(buf, Len(s) + 1))
  BY DEF Bytes!AppendFileFails
<1>3. Holds(buf', text) /\ (~ Bytes!MayFail(buf, Len(s) + 1) => buf' = buf)
  BY <1>1, <1>2, CheckHolds DEF BytesInv
<1> QED
  BY <1>2, <1>3 DEF BytesInv, Ended

\* fast_buffer_init_ex (fast_buffer.c) leaves an empty buffer with its end mark.
LEMMA FreshHolds ==
  ASSUME BytesConstants
  PROVE  Holds(Bytes!Fresh, << >>) /\ Ended(Bytes!Fresh)
<1> DEFINE mem == [i \in 1 .. Capacity |-> IF i = 1 THEN Bytes!End ELSE Bytes!Garbage]
<1>1. Capacity \in Nat /\ Capacity > 0
  BY DEF BytesConstants
<1>2. mem \in Seq(Int) /\ Len(mem) = Capacity /\ mem[1] = Bytes!End
  BY <1>1 DEF Bytes!End, Bytes!Garbage
<1>3. Bytes!Fresh = [mem |-> mem, size |-> Capacity, length |-> 0]
  BY DEF Bytes!Fresh
<1> HIDE DEF mem
<1> QED
  BY <1>1, <1>2, <1>3 DEF Holds, Memory, Ended

\* The buffer starts with its invariant.
LEMMA BytesStarts ==
  ASSUME BytesConstants, Bytes!Init
  PROVE  BytesInv
  BY FreshHolds DEF Bytes!Init, BytesInv

\* The buffer keeps its invariant.
LEMMA BytesSteps ==
  ASSUME BytesConstants, BytesInv, Bytes!Next
  PROVE  BytesInv'
<1>1. CASE Bytes!Restart
  BY <1>1, FreshHolds DEF Bytes!Restart, BytesInv, Ended
<1> QED
  BY <1>1, AppendFormatKeeps, AppendsKeep, BytesStay DEF Bytes!Next

\* What FastBuffer!Sound says of the bytes follows.
LEMMA BytesInvSound ==
  ASSUME BytesInv
  PROVE  Bytes!Sound
<1>1. /\ buf \in Memory /\ text \in Seq(Int) /\ buf.length = Len(text) /\ buf.length < buf.size
      /\ Len(buf.mem) = buf.size /\ \A i \in 1 .. Len(text) : buf.mem[i] = text[i]
  BY DEF BytesInv, Holds
<1>2. SubSeq(buf.mem, 1, buf.length) = text
  <2> DEFINE m == buf.mem
             n == Len(text)
  <2>1. m \in Seq(Int) /\ n \in 0 .. Len(m) /\ \A i \in 1 .. n : m[i] = text[i]
    BY <1>1 DEF Memory
  <2> HIDE DEF m
  <2>2. SubSeq(m, 1, n) \in Seq(Int) /\ Len(SubSeq(m, 1, n)) = n
        /\ \A i \in 1 .. n : SubSeq(m, 1, n)[i] = m[i]
    BY <2>1
  <2>3. SubSeq(m, 1, n) = text
    BY <1>1, <2>1, <2>2, SeqEqual
  <2> QED
    BY <1>1, <2>3 DEF m
<1> QED
  BY <1>1, <1>2 DEF Bytes!Sound, BytesInv, Ended
-----------------------------------------------------------------------------
(* The lines of a log.                                                       *)

LogLine == [n : Nat, day : Int]
LogType == [buff : Seq(LogLine), size : Nat, flag : BOOLEAN, fd : {"file", "stderr", "closed"}]
Points  == {"idle", "fsync", "rotate", "size", "write", "end", "put", "unlock", "destroyed", "gone"}
Days    == -1 .. MaxDay + 1

\* The numbers in a sequence of lines, and in the file f of the files fs.
NumbersOf(s)   == {s[i].n : i \in 1 .. Len(s)}
NumbersIn(fs, f) == IF f \in DOMAIN fs THEN NumbersOf(fs[f]) ELSE {}

\* The places by name.
FileOf(f) == << "file", f >>
HandOf(t) == << "hand", t >>
Cache   == << "cache" >>
Stderr  == << "stderr" >>
Lost    == << "lost" >>
Deleted == << "deleted" >>

\* The numbers of the lines at each place, of files fs, hands hs, cache s, lines e
\* on stderr, lines ls lost and lines ds deleted.
Spots(fs, hs, s, e, ls, ds) ==
  [p \in Lines!Places |->
    CASE p[1] = "file"    -> NumbersIn(fs, p[2])
      [] p[1] = "hand"    -> NumbersOf(hs[p[2]].line)
      [] p[1] = "cache"   -> NumbersOf(s)
      [] p[1] = "stderr"  -> NumbersOf(e)
      [] p[1] = "lost"    -> {l.n : l \in ls}
      [] p[1] = "deleted" -> {l.n : l \in ds}]

\* Each number up to c is at one place.
Parted(A, c) ==
  /\ \A p, q \in Lines!Places : \A n \in A[p] : n \in A[q] => p = q
  /\ \A n : n \in 1 .. c <=> \E p \in Lines!Places : n \in A[p]

\* The files fs, none younger than old but the current one, with the cache s
\* behind them on the given day.
Filed(fs, s, old, day) ==
  /\ DOMAIN fs \in SUBSET Days
  /\ \A f \in DOMAIN fs : /\ fs[f] \in Seq(LogLine)
                          /\ Lines!Ascending(fs[f]) /\ Lines!Before(fs[f], s)
                          /\ \A i \in 1 .. Len(fs[f]) : fs[f][i].day <= day
                          /\ f # MaxDay + 1 => f <= old
                          /\ f # MaxDay + 1 => \A i \in 1 .. Len(fs[f]) : fs[f][i].day <= f + 1
  /\ \A f, g \in DOMAIN fs : f < g => Lines!Before(fs[f], fs[g])

\* What a logger does and returns to, and that it holds the lock from log_it_ex1 on;
\* the syncer does while it writes.
LoggerOK(t, w, h) ==
  /\ w.at \in {"idle", "fsync", "rotate", "size", "write", "end", "put", "unlock"}
  /\ w.at = "idle" <=> h # t
  /\ w.at = "idle" => w.then = "idle"
  /\ w.at = "put" => w.then = "put"
  /\ w.at \in {"unlock", "rotate"} => w.then = "unlock"
  /\ w.at \in {"fsync", "size", "write", "end"} => w.then \in {"put", "unlock"}

SyncerOK(w, h) ==
  /\ w.at \in {"idle", "fsync", "rotate", "size", "write", "end", "destroyed", "gone"}
  /\ w.at \in {"write", "end"} <=> h = Syncer
  /\ w.at = "idle" => w.then = "idle"
  /\ w.at = "destroyed" => w.then = "destroyed"
  /\ w.then \in {"idle", "destroyed"}

LockOK ==
  /\ th \in [Lines!Threads -> [at : Points, then : Points, line : Seq(LogLine)]]
  /\ holder \in Loggers \cup {Syncer, "none"}
  /\ \A t \in Loggers : LoggerOK(t, th[t], holder)
  /\ SyncerOK(th[Syncer], holder)
  /\ th[Syncer].then = "destroyed" => \A t \in Loggers : th[t].at = "idle"

\* The line in a logger's hand is the last.
HandsOK ==
  /\ th[Syncer].line = << >>
  /\ \A t \in Loggers :
       th[t].line # << >> => /\ th[t].then = "put" /\ Len(th[t].line) = 1
                             /\ th[t].line[1].n = count /\ th[t].line[1].day <= today.day

CacheOK ==
  /\ log \in LogType
  /\ Len(log.buff) <= BuffSize
  /\ Lines!Ascending(log.buff)
  /\ \A i \in 1 .. Len(log.buff) : log.buff[i].day <= today.day

\* A logger that is to put its line finds room.
RoomOK ==
  \A t \in Loggers : th[t].then = "put" =>
    /\ th[t].at = "put" => Len(log.buff) < BuffSize
    /\ th[t].at = "fsync" => Len(log.buff) = BuffSize
    /\ th[t].at = "end" => log.buff = << >>

FilesOK == Filed(files, log.buff, Lines!OldName, today.day)

ErrOK == err \in Seq(LogLine) /\ Lines!Ascending(err) /\ Lines!Before(err, log.buff)

Spread == Parted(Spots(files, th, log.buff, err, lost, deleted), count)

SizeOK ==
  log.fd = "file" =>
    /\ MaxDay + 1 \in DOMAIN files
    /\ Len(files[MaxDay + 1]) <= log.size + BuffSize
    /\ \A t \in Lines!Threads :
         th[t].at = "write" => Len(files[MaxDay + 1]) + Len(log.buff) <= log.size + BuffSize

DatesOK ==
  /\ today \in [day : 0 .. MaxDay, early : BOOLEAN] /\ count \in Nat
  /\ lost \in SUBSET LogLine /\ deleted \in SUBSET LogLine
  /\ \A l \in deleted : l.day + KeepDays <= today.day

LinesInv == LockOK /\ HandsOK /\ CacheOK /\ RoomOK /\ FilesOK /\ ErrOK /\ Spread /\ SizeOK /\ DatesOK

-----------------------------------------------------------------------------
\* Lines appended to lines.
LEMMA Concatenated ==
  ASSUME NEW a \in Seq(LogLine), NEW b \in Seq(LogLine)
  PROVE  /\ a \o b \in Seq(LogLine) /\ Len(a \o b) = Len(a) + Len(b)
         /\ \A i \in 1 .. Len(a) : (a \o b)[i] = a[i]
         /\ \A i \in 1 .. Len(b) : (a \o b)[Len(a) + i] = b[i]
         /\ \A i \in 1 .. Len(a \o b) : \/ i \in 1 .. Len(a) /\ (a \o b)[i] = a[i]
                                        \/ i - Len(a) \in 1 .. Len(b) /\ (a \o b)[i] = b[i - Len(a)]
<1>1. a \o b \in Seq(LogLine) /\ Len(a \o b) = Len(a) + Len(b) /\ Len(a) \in Nat /\ Len(b) \in Nat
  OBVIOUS
<1>2. \A i \in 1 .. Len(a) + Len(b) : (a \o b)[i] = IF i <= Len(a) THEN a[i] ELSE b[i - Len(a)]
  OBVIOUS
<1>3. ASSUME NEW i \in 1 .. Len(a) PROVE (a \o b)[i] = a[i]
  BY <1>1, <1>2
<1>4. ASSUME NEW i \in 1 .. Len(b) PROVE (a \o b)[Len(a) + i] = b[i]
  <2>1. Len(a) + i \in 1 .. Len(a) + Len(b) /\ ~ (Len(a) + i <= Len(a)) /\ (Len(a) + i) - Len(a) = i
    BY <1>1
  <2> QED
    BY <1>2, <2>1
<1>5. ASSUME NEW i \in 1 .. Len(a \o b)
      PROVE  \/ i \in 1 .. Len(a) /\ (a \o b)[i] = a[i]
             \/ i - Len(a) \in 1 .. Len(b) /\ (a \o b)[i] = b[i - Len(a)]
  <2>1. i \in 1 .. Len(a) + Len(b)
    BY <1>1
  <2>2. CASE i <= Len(a)
    BY <1>1, <1>2, <2>1, <2>2
  <2>3. CASE ~ (i <= Len(a))
    <3>1. i - Len(a) \in 1 .. Len(b)
      BY <1>1, <2>1, <2>3
    <3> QED
      BY <1>2, <2>1, <2>3, <3>1
  <2> QED
    BY <2>2, <2>3
<1> QED
  BY <1>1, <1>3, <1>4, <1>5

\* Their numbers.
LEMMA NumbersConcatenated ==
  ASSUME NEW a \in Seq(LogLine), NEW b \in Seq(LogLine)
  PROVE  NumbersOf(a \o b) = NumbersOf(a) \cup NumbersOf(b)
<1>1. Len(a) \in Nat /\ Len(b) \in Nat /\ Len(a \o b) = Len(a) + Len(b)
  BY Concatenated
<1>2. ASSUME NEW n \in NumbersOf(a \o b) PROVE n \in NumbersOf(a) \cup NumbersOf(b)
  <2>1. PICK i \in 1 .. Len(a \o b) : n = (a \o b)[i].n
    BY DEF NumbersOf
  <2> QED
    BY <2>1, Concatenated DEF NumbersOf
<1>3. ASSUME NEW n \in NumbersOf(a) PROVE n \in NumbersOf(a \o b)
  <2>1. PICK i \in 1 .. Len(a) : n = a[i].n
    BY DEF NumbersOf
  <2>2. i \in 1 .. Len(a \o b) /\ (a \o b)[i] = a[i]
    BY <1>1, Concatenated
  <2> QED
    BY <2>1, <2>2 DEF NumbersOf
<1>4. ASSUME NEW n \in NumbersOf(b) PROVE n \in NumbersOf(a \o b)
  <2>1. PICK i \in 1 .. Len(b) : n = b[i].n
    BY DEF NumbersOf
  <2>2. Len(a) + i \in 1 .. Len(a \o b) /\ (a \o b)[Len(a) + i] = b[i]
    BY <1>1, Concatenated
  <2> QED
    BY <2>1, <2>2 DEF NumbersOf
<1> QED
  BY <1>2, <1>3, <1>4

\* Their order.
LEMMA OrderConcatenated ==
  ASSUME NEW a \in Seq(LogLine), NEW b \in Seq(LogLine)
  PROVE  /\ Lines!Ascending(a) /\ Lines!Ascending(b) /\ Lines!Before(a, b) => Lines!Ascending(a \o b)
         /\ \A s : Lines!Before(a, s) /\ Lines!Before(b, s) => Lines!Before(a \o b, s)
         /\ \A s : Lines!Before(s, a) /\ Lines!Before(s, b) => Lines!Before(s, a \o b)
<1> DEFINE c == a \o b
<1>1. Len(a) \in Nat /\ Len(b) \in Nat /\ Len(c) = Len(a) + Len(b)
  BY Concatenated
<1>2. \A i \in 1 .. Len(c) : \/ i \in 1 .. Len(a) /\ c[i] = a[i]
                             \/ i - Len(a) \in 1 .. Len(b) /\ c[i] = b[i - Len(a)]
  BY Concatenated
<1> HIDE DEF c
<1>3. ASSUME Lines!Ascending(a), Lines!Ascending(b), Lines!Before(a, b) PROVE Lines!Ascending(c)
  <2> SUFFICES ASSUME NEW i \in 1 .. Len(c), NEW j \in 1 .. Len(c), i < j PROVE c[i].n < c[j].n
    BY DEF Lines!Ascending
  <2>1. CASE i \in 1 .. Len(a) /\ c[i] = a[i] /\ j \in 1 .. Len(a) /\ c[j] = a[j]
    BY <1>3, <2>1 DEF Lines!Ascending
  <2>2. CASE i \in 1 .. Len(a) /\ c[i] = a[i] /\ j - Len(a) \in 1 .. Len(b) /\ c[j] = b[j - Len(a)]
    BY <1>3, <2>2 DEF Lines!Before
  <2>3. CASE /\ i - Len(a) \in 1 .. Len(b) /\ c[i] = b[i - Len(a)]
             /\ j - Len(a) \in 1 .. Len(b) /\ c[j] = b[j - Len(a)]
    <3>1. i - Len(a) < j - Len(a)
      BY <1>1
    <3> QED
      BY <1>3, <2>3, <3>1 DEF Lines!Ascending
  <2>4. ~ (i - Len(a) \in 1 .. Len(b) /\ j \in 1 .. Len(a))
    BY <1>1
  <2> QED
    BY <1>2, <2>1, <2>2, <2>3, <2>4
<1>4. ASSUME NEW s, Lines!Before(a, s), Lines!Before(b, s) PROVE Lines!Before(c, s)
  BY <1>2, <1>4 DEF Lines!Before
<1>5. ASSUME NEW s, Lines!Before(s, a), Lines!Before(s, b) PROVE Lines!Before(s, c)
  BY <1>2, <1>5 DEF Lines!Before
<1> QED
  BY <1>3, <1>4, <1>5 DEF c

\* No lines.
LEMMA NoLines ==
  /\ << >> \in Seq(LogLine) /\ Len(<< >>) = 0 /\ NumbersOf(<< >>) = {} /\ Lines!Ascending(<< >>)
  /\ \A s : Lines!Before(s, << >>) /\ Lines!Before(<< >>, s)
  BY DEF NumbersOf, Lines!Ascending, Lines!Before
-----------------------------------------------------------------------------
\* All lines of the places P move to q.
LEMMA PartedMoves ==
  ASSUME NEW c, NEW A, NEW B, Parted(A, c), NEW q \in Lines!Places, NEW P \in SUBSET Lines!Places,
         q \notin P, \A n : n \in B[q] <=> n \in A[q] \/ \E p \in P : n \in A[p],
         \A p \in P : B[p] = {},
         \A p \in Lines!Places : p \in P \/ p = q \/ B[p] = A[p]
  PROVE  Parted(B, c)
<1>1. ASSUME NEW p \in Lines!Places, NEW n, n \in B[p]
      PROVE  \E o \in Lines!Places : n \in A[o] /\ (o = p \/ (p = q /\ o \in P))
  <2>1. CASE p \in P
    BY <1>1, <2>1
  <2>2. CASE p = q
    BY <1>1, <2>2
  <2>3. CASE B[p] = A[p]
    BY <1>1, <2>3
  <2> QED
    BY <2>1, <2>2, <2>3
<1>2. ASSUME NEW p \in Lines!Places, NEW r \in Lines!Places, NEW n \in B[p], n \in B[r] PROVE p = r
  BY <1>1, <1>2 DEF Parted
<1>3. ASSUME NEW n, NEW p \in Lines!Places, n \in A[p] PROVE \E o \in Lines!Places : n \in B[o]
  BY <1>3
<1>4. \A n : (\E p \in Lines!Places : n \in A[p]) <=> \E p \in Lines!Places : n \in B[p]
  BY <1>1, <1>3
<1> QED
  BY <1>2, <1>4 DEF Parted

\* A new line comes to q.
LEMMA PartedAdds ==
  ASSUME NEW c \in Nat, NEW A, NEW B, Parted(A, c), NEW q \in Lines!Places,
         \A n : n \in B[q] <=> n \in A[q] \/ n = c + 1,
         \A p \in Lines!Places : p = q \/ B[p] = A[p]
  PROVE  Parted(B, c + 1)
<1>1. c + 1 \notin 1 .. c /\ \A n : n \in 1 .. c + 1 <=> n \in 1 .. c \/ n = c + 1
  OBVIOUS
<1>2. \A p \in Lines!Places : c + 1 \notin A[p]
  BY <1>1 DEF Parted
<1> DEFINE k == c + 1
           R == 1 .. c
           S == 1 .. c + 1
<1>3. /\ k \notin R /\ \A n : n \in S <=> n \in R \/ n = k
      /\ \A p \in Lines!Places : k \notin A[p]
      /\ \A n : n \in B[q] <=> n \in A[q] \/ n = k
  BY <1>1, <1>2
<1>4. /\ \A p, r \in Lines!Places : \A n \in A[p] : n \in A[r] => p = r
      /\ \A n : n \in R <=> \E p \in Lines!Places : n \in A[p]
  BY DEF Parted
<1> HIDE DEF k, R, S
<1>5. \A p, r \in Lines!Places : \A n \in B[p] : n \in B[r] => p = r
  BY <1>3, <1>4
<1>6. \A n : n \in S <=> \E p \in Lines!Places : n \in B[p]
  BY <1>3, <1>4
<1> QED
  BY <1>5, <1>6 DEF Parted, S

\* Nothing moves.
LEMMA PartedSame ==
  ASSUME NEW c, NEW A, NEW B, Parted(A, c), \A p \in Lines!Places : B[p] = A[p]
  PROVE  Parted(B, c)
  BY DEF Parted
-----------------------------------------------------------------------------
\* The places, all different.
LEMMA PlacesAre ==
  ASSUME LinesConstants
  PROVE  /\ \A f \in Days : FileOf(f) \in Lines!Places
         /\ \A t \in Lines!Threads : HandOf(t) \in Lines!Places
         /\ {Cache, Stderr, Lost, Deleted} \subseteq Lines!Places
         /\ \A p \in Lines!Places : \/ \E f \in Days : p = FileOf(f)
                                    \/ \E t \in Lines!Threads : p = HandOf(t)
                                    \/ p \in {Cache, Stderr, Lost, Deleted}
         /\ \A f, g : FileOf(f) = FileOf(g) => f = g
         /\ \A t, u : HandOf(t) = HandOf(u) => t = u
         /\ \A f, t : FileOf(f) # HandOf(t)
         /\ \A f : FileOf(f) \notin {Cache, Stderr, Lost, Deleted}
         /\ \A t : HandOf(t) \notin {Cache, Stderr, Lost, Deleted}
         /\ Cache # Stderr /\ Cache # Lost /\ Cache # Deleted /\ Stderr # Lost /\ Stderr # Deleted
         /\ Lost # Deleted
<1>1. Days = (-1) .. Lines!Current
  BY DEF Days, Lines!Current
<1>2. ASSUME NEW p \in Lines!Places
      PROVE  \/ \E f \in Days : p = FileOf(f)
             \/ \E t \in Lines!Threads : p = HandOf(t)
             \/ p \in {Cache, Stderr, Lost, Deleted}
  BY <1>1 DEF Lines!Places, FileOf, HandOf, Cache, Stderr, Lost, Deleted
<1>3. /\ \A f \in Days : FileOf(f) \in Lines!Places
      /\ \A t \in Lines!Threads : HandOf(t) \in Lines!Places
      /\ {Cache, Stderr, Lost, Deleted} \subseteq Lines!Places
  BY <1>1 DEF Lines!Places, FileOf, HandOf, Cache, Stderr, Lost, Deleted
<1>4. /\ \A f, g : FileOf(f) = FileOf(g) => f = g
      /\ \A t, u : HandOf(t) = HandOf(u) => t = u
      /\ \A f, t : FileOf(f) # HandOf(t)
  BY DEF FileOf, HandOf
<1>5. /\ \A f : FileOf(f) \notin {Cache, Stderr, Lost, Deleted}
      /\ \A t : HandOf(t) \notin {Cache, Stderr, Lost, Deleted}
  BY DEF FileOf, HandOf, Cache, Stderr, Lost, Deleted
<1>6. /\ Cache # Stderr /\ Cache # Lost /\ Cache # Deleted /\ Stderr # Lost /\ Stderr # Deleted
      /\ Lost # Deleted
  BY DEF Cache, Stderr, Lost, Deleted
<1> QED
  BY <1>2, <1>3, <1>4, <1>5, <1>6

\* W has at each place the numbers of the lines there.
Shown(W, fs, hs, s, e, ls, ds) ==
  /\ \A f \in Days : W[FileOf(f)] = NumbersIn(fs, f)
  /\ \A t \in Lines!Threads : W[HandOf(t)] = NumbersOf(hs[t].line)
  /\ W[Cache] = NumbersOf(s) /\ W[Stderr] = NumbersOf(e)
  /\ W[Lost] = {l.n : l \in ls} /\ W[Deleted] = {l.n : l \in ds}

\* Spots does.
LEMMA SpotsAre ==
  ASSUME LinesConstants, NEW fs, NEW hs, NEW s, NEW e, NEW ls, NEW ds
  PROVE  Shown(Spots(fs, hs, s, e, ls, ds), fs, hs, s, e, ls, ds)
<1> DEFINE W == Spots(fs, hs, s, e, ls, ds)
<1>1. ASSUME NEW f \in Days PROVE W[FileOf(f)] = NumbersIn(fs, f)
  <2>1. FileOf(f) \in Lines!Places /\ FileOf(f)[1] = "file" /\ FileOf(f)[2] = f
    BY PlacesAre DEF FileOf
  <2> QED
    BY <2>1 DEF Spots
<1>2. ASSUME NEW t \in Lines!Threads PROVE W[HandOf(t)] = NumbersOf(hs[t].line)
  <2>1. HandOf(t) \in Lines!Places /\ HandOf(t)[1] = "hand" /\ HandOf(t)[2] = t
    BY PlacesAre DEF HandOf
  <2> QED
    BY <2>1 DEF Spots
<1>3. W[Cache] = NumbersOf(s)
  <2>1. Cache \in Lines!Places /\ Cache[1] = "cache"
    BY PlacesAre DEF Cache
  <2> QED
    BY <2>1 DEF Spots
<1>4. W[Stderr] = NumbersOf(e)
  <2>1. Stderr \in Lines!Places /\ Stderr[1] = "stderr"
    BY PlacesAre DEF Stderr
  <2> QED
    BY <2>1 DEF Spots
<1>5. W[Lost] = {l.n : l \in ls}
  <2>1. Lost \in Lines!Places /\ Lost[1] = "lost"
    BY PlacesAre DEF Lost
  <2> QED
    BY <2>1 DEF Spots
<1>6. W[Deleted] = {l.n : l \in ds}
  <2>1. Deleted \in Lines!Places /\ Deleted[1] = "deleted"
    BY PlacesAre DEF Deleted
  <2> QED
    BY <2>1 DEF Spots
<1> QED
  BY <1>1, <1>2, <1>3, <1>4, <1>5, <1>6 DEF Shown
-----------------------------------------------------------------------------
(* Files.                                                                    *)

\* The same files, with an empty one for the current lines if there was none.
LEMMA CurrentThere ==
  ASSUME LinesConstants, NEW fs, NEW s, NEW old, NEW day, Filed(fs, s, old, day),
         NEW lines, lines = IF MaxDay + 1 \in DOMAIN fs THEN fs[MaxDay + 1] ELSE << >>
  PROVE  LET gs == Lines!With(fs, MaxDay + 1, lines) IN
         /\ Filed(gs, s, old, day)
         /\ MaxDay + 1 \in DOMAIN gs /\ gs[MaxDay + 1] = lines
         /\ \A f \in Days : NumbersIn(gs, f) = NumbersIn(fs, f)
<1> DEFINE C == MaxDay + 1
           gs == Lines!With(fs, C, lines)
<1>1. /\ C \in Days /\ DOMAIN gs = DOMAIN fs \cup {C}
      /\ \A f \in DOMAIN gs : gs[f] = IF f = C THEN lines ELSE fs[f]
  BY DEF Lines!With, Days, LinesConstants
<1>2. \A f \in DOMAIN gs : (f \in DOMAIN fs /\ gs[f] = fs[f]) \/ (f = C /\ f \notin DOMAIN fs /\ gs[f] = << >>)
  BY <1>1
<1>3. C \in DOMAIN gs /\ gs[C] = lines /\ DOMAIN gs \in SUBSET Days /\ DOMAIN fs \in SUBSET DOMAIN gs
  BY <1>1 DEF Filed
<1> HIDE DEF gs
<1>4. ASSUME NEW f \in DOMAIN gs
      PROVE  /\ gs[f] \in Seq(LogLine)
             /\ Lines!Ascending(gs[f]) /\ Lines!Before(gs[f], s)
             /\ \A i \in 1 .. Len(gs[f]) : gs[f][i].day <= day
             /\ f # C => f <= old
             /\ f # C => \A i \in 1 .. Len(gs[f]) : gs[f][i].day <= f + 1
  <2>1. CASE f \in DOMAIN fs /\ gs[f] = fs[f]
    BY <2>1 DEF Filed
  <2>2. CASE f = C /\ gs[f] = << >>
    BY <2>2, NoLines
  <2> QED
    BY <1>2, <2>1, <2>2
<1>5. ASSUME NEW f \in DOMAIN gs, NEW g \in DOMAIN gs, f < g PROVE Lines!Before(gs[f], gs[g])
  <2>1. CASE f \in DOMAIN fs /\ gs[f] = fs[f] /\ g \in DOMAIN fs /\ gs[g] = fs[g]
    BY <1>5, <2>1 DEF Filed
  <2>2. CASE gs[f] = << >> \/ gs[g] = << >>
    BY <2>2, NoLines
  <2> QED
    BY <1>2, <2>1, <2>2
<1>6. ASSUME NEW f \in Days PROVE NumbersIn(gs, f) = NumbersIn(fs, f)
  <2>1. CASE f \in DOMAIN fs
    BY <1>2, <1>3, <2>1 DEF NumbersIn
  <2>2. CASE f \notin DOMAIN fs /\ f \in DOMAIN gs
    BY <1>2, <2>2, NoLines DEF NumbersIn
  <2>3. CASE f \notin DOMAIN fs /\ f \notin DOMAIN gs
    BY <2>3 DEF NumbersIn
  <2> QED
    BY <2>1, <2>2, <2>3
<1> QED
  BY <1>3, <1>4, <1>5, <1>6 DEF Filed, gs

\* The current file gets the old name, which is free.
LEMMA Renamed ==
  ASSUME LinesConstants, NEW fs, NEW s, NEW old, NEW day, Filed(fs, s, old, day),
         old \in -1 .. MaxDay, day \in Int, day <= old + 1,
         old \notin DOMAIN fs, MaxDay + 1 \in DOMAIN fs
  PROVE  LET gs == Lines!With(Lines!Without(fs, {MaxDay + 1}), old, fs[MaxDay + 1]) IN
         /\ Filed(gs, s, old, day)
         /\ NumbersIn(fs, old) = {} /\ NumbersIn(gs, MaxDay + 1) = {}
         /\ NumbersIn(gs, old) = NumbersIn(fs, MaxDay + 1)
         /\ \A f \in Days : f = old \/ f = MaxDay + 1 \/ NumbersIn(gs, f) = NumbersIn(fs, f)
<1> DEFINE C == MaxDay + 1
           gs == Lines!With(Lines!Without(fs, {C}), old, fs[C])
<1>1. C \in Days /\ old \in Days /\ old < C /\ old # C /\ Days \in SUBSET Int
  BY DEF Days, LinesConstants
<1>2. /\ DOMAIN gs = (DOMAIN fs \ {C}) \cup {old}
      /\ \A f \in DOMAIN gs : gs[f] = IF f = old THEN fs[C] ELSE fs[f]
  BY DEF Lines!With, Lines!Without
<1> HIDE DEF gs
<1>3. DOMAIN fs \in SUBSET Days /\ \A f \in DOMAIN gs : f = old \/ (f \in DOMAIN fs /\ f # C /\ f < old /\ gs[f] = fs[f])
  <2>1. DOMAIN fs \in SUBSET Days
    BY DEF Filed
  <2>2. ASSUME NEW f \in DOMAIN gs, f # old PROVE f \in DOMAIN fs /\ f # C /\ f < old /\ gs[f] = fs[f]
    <3>1. f \in DOMAIN fs /\ f # C /\ gs[f] = fs[f]
      BY <1>2, <2>2
    <3>2. f <= old /\ f \in Int
      BY <1>1, <2>1, <3>1 DEF Filed
    <3> QED
      BY <2>2, <3>1, <3>2, <1>1
  <2> QED
    BY <2>1, <2>2
<1>4. gs[old] = fs[C] /\ old \in DOMAIN gs /\ C \notin DOMAIN gs
  BY <1>1, <1>2
<1>5. ASSUME NEW f \in DOMAIN gs
      PROVE  /\ gs[f] \in Seq(LogLine)
             /\ Lines!Ascending(gs[f]) /\ Lines!Before(gs[f], s)
             /\ \A i \in 1 .. Len(gs[f]) : gs[f][i].day <= day
             /\ f # C => f <= old
             /\ f # C => \A i \in 1 .. Len(gs[f]) : gs[f][i].day <= f + 1
  <2>1. CASE f # old
    BY <1>3, <2>1 DEF Filed
  <2>2. CASE f = old
    <3>1. /\ fs[C] \in Seq(LogLine) /\ Lines!Ascending(fs[C]) /\ Lines!Before(fs[C], s)
          /\ \A i \in 1 .. Len(fs[C]) : fs[C][i].day <= day
      BY DEF Filed
    <3>2. ASSUME NEW i \in 1 .. Len(fs[C]) PROVE fs[C][i].day <= old + 1
      <4>1. fs[C][i] \in LogLine
        BY <3>1, ElementOfSeq
      <4>2. fs[C][i].day \in Int /\ fs[C][i].day <= day /\ old \in Int
        BY <1>1, <3>1, <4>1 DEF LogLine
      <4> QED
        BY <4>2
    <3> QED
      BY <1>1, <1>4, <2>2, <3>1, <3>2
  <2> QED
    BY <2>1, <2>2
<1>6. ASSUME NEW f \in DOMAIN gs, NEW g \in DOMAIN gs, f < g PROVE Lines!Before(gs[f], gs[g])
  <2>1. f \in DOMAIN fs /\ f # C /\ f < old /\ gs[f] = fs[f]
    <3>1. old \in Int /\ (g = old \/ (g \in Int /\ g < old))
      BY <1>1, <1>3
    <3>2. f # old
      BY ONLY <1>6, <3>1
    <3> QED
      BY <1>3, <3>2
  <2>2. f \in Int /\ f < C
    <3>1. f \in Days
      BY <1>3, <2>1
    <3>2. f \in Int /\ old \in Int /\ C \in Int
      BY <1>1, <3>1
    <3> HIDE DEF C
    <3> QED
      BY ONLY <1>1, <2>1, <3>2
  <2>3. CASE g = old
    BY <1>4, <2>1, <2>2, <2>3 DEF Filed
  <2>4. CASE g # old
    BY <1>3, <1>6, <2>1, <2>4 DEF Filed
  <2> QED
    BY <2>3, <2>4
<1>7. /\ NumbersIn(fs, old) = {} /\ NumbersIn(gs, C) = {}
      /\ NumbersIn(gs, old) = NumbersIn(fs, C)
      /\ \A f \in Days : f = old \/ f = C \/ NumbersIn(gs, f) = NumbersIn(fs, f)
  BY <1>2, <1>4 DEF NumbersIn
<1>8. DOMAIN gs \in SUBSET Days
  BY <1>1, <1>2, <1>3
<1> QED
  BY <1>5, <1>6, <1>7, <1>8 DEF Filed, gs

\* What opening and rotating do, from a log lg: the cache stays, the lines of a
\* file move to a file or stay, and the size is that of the file that is opened.
Kept(fs, gs)       == \A f \in Days : NumbersIn(gs, f) = NumbersIn(fs, f)
Moved(fs, gs, old) ==
  /\ NumbersIn(fs, old) = {} /\ NumbersIn(gs, MaxDay + 1) = {}
  /\ NumbersIn(gs, old) = NumbersIn(fs, MaxDay + 1)
  /\ \A f \in Days : f = old \/ f = MaxDay + 1 \/ NumbersIn(gs, f) = NumbersIn(fs, f)

Turned(lg, s, old, day) ==
  /\ log' \in LogType /\ log'.buff = lg.buff
  /\ Filed(files', s, old, day)
  /\ Kept(files, files') \/ Moved(files, files', old)
  /\ log'.fd = "file" => \/ MaxDay + 1 \in DOMAIN files' /\ log'.size = Len(files'[MaxDay + 1])
                         \/ log'.size = lg.size /\ files' = files /\ lg.fd = "file"

\* log_open: the lines stay where they are, and the size is the current file's.
LEMMA OpenFiles ==
  ASSUME LinesConstants, NEW lg \in LogType, NEW fs, NEW s, NEW old, NEW day,
         Filed(fs, s, old, day), Lines!Open(lg, fs)
  PROVE  /\ log' \in LogType /\ log'.buff = lg.buff
         /\ Filed(files', s, old, day)
         /\ Kept(fs, files')
         /\ log'.fd = "file" => MaxDay + 1 \in DOMAIN files' /\ log'.size = Len(files'[MaxDay + 1])
<1> DEFINE C == MaxDay + 1
           lines == IF C \in DOMAIN fs THEN fs[C] ELSE << >>
<1>1. C = Lines!Current /\ Lines!Current = MaxDay + 1
  BY DEF Lines!Current
<1>2. lines \in Seq(LogLine)
  BY NoLines DEF Filed
<1>3. Len(lines) \in Nat
  BY <1>2
<1> HIDE DEF lines
<1>4. CASE log' = [lg EXCEPT !.fd = "file", !.size = Len(lines)] /\ files' = Lines!With(fs, C, lines)
  <2>1. log' \in LogType /\ log'.buff = lg.buff /\ log'.size = Len(lines)
    BY ONLY <1>3, <1>4, lg \in LogType DEF LogType
  <2>2. /\ Filed(files', s, old, day) /\ C \in DOMAIN files' /\ files'[C] = lines
        /\ Kept(fs, files')
    BY <1>4, CurrentThere DEF Kept, lines
  <2> QED
    BY <2>1, <2>2
<1>5. CASE log' = [lg EXCEPT !.fd = "stderr"] /\ files' = fs
  <2>1. log' \in LogType /\ log'.buff = lg.buff /\ log'.fd = "stderr"
    BY <1>5 DEF LogType
  <2> QED
    BY <1>5, <2>1 DEF Kept
<1> QED
  BY <1>1, <1>4, <1>5 DEF Lines!Open, lines

\* log_rotate: the current lines move to the old name, or nothing moves.
LEMMA RotateFiles ==
  ASSUME LinesConstants, NEW lg \in LogType, NEW s, today \in [day : 0 .. MaxDay, early : BOOLEAN],
         Filed(files, s, Lines!OldName, today.day), Lines!Rotate(lg)
  PROVE  /\ log' \in LogType /\ log'.buff = lg.buff
         /\ Filed(files', s, Lines!OldName, today.day)
         /\ Kept(files, files') \/ Moved(files, files', Lines!OldName)
         /\ log'.fd = "file" => MaxDay + 1 \in DOMAIN files' /\ log'.size = Len(files'[MaxDay + 1])
<1> DEFINE C == MaxDay + 1
           old == Lines!OldName
           day == today.day
<1>1. C = Lines!Current /\ Lines!Current = MaxDay + 1
  BY DEF Lines!Current
<1>2. old \in -1 .. MaxDay /\ day \in Int /\ day <= old + 1
  BY DEF Lines!OldName, LinesConstants
<1> HIDE DEF old, day
<1>3. CASE /\ old \notin DOMAIN files /\ C \in DOMAIN files
           /\ Lines!Open(lg, Lines!With(Lines!Without(files, {C}), old, files[C]))
  <2> DEFINE gs == Lines!With(Lines!Without(files, {C}), old, files[C])
  <2>1. Filed(gs, s, old, day) /\ Moved(files, gs, old)
    <3>1. Filed(files, s, old, day)
      BY DEF old, day
    <3> QED
      BY ONLY LinesConstants, <1>2, <1>3, <3>1, Renamed DEF Moved
  <2>2. /\ log' \in LogType /\ log'.buff = lg.buff
        /\ Filed(files', s, old, day)
        /\ Kept(gs, files')
        /\ log'.fd = "file" => C \in DOMAIN files' /\ log'.size = Len(files'[C])
    BY <1>3, <2>1, OpenFiles
  <2> HIDE DEF gs
  <2>3. C \in Days /\ old \in Days
    BY <1>2 DEF Days, LinesConstants
  <2>4. Moved(files, files', old)
    BY <2>1, <2>2, <2>3 DEF Moved, Kept
  <2> QED
    BY <2>2, <2>4 DEF old, day
<1>4. CASE Lines!Open(lg, files)
  BY <1>4, OpenFiles DEF old, day
<1>5. CASE /\ log' = [lg EXCEPT !.fd = "file", !.size = Lines!Size(C)]
           /\ files' = Lines!With(files, C, IF C \in DOMAIN files THEN files[C] ELSE << >>)
  <2> DEFINE lines == IF C \in DOMAIN files THEN files[C] ELSE << >>
  <2>1. lines \in Seq(LogLine) /\ Lines!Size(C) = Len(lines)
    BY NoLines DEF Filed, Lines!Size
  <2>2. Len(lines) \in Nat
    BY <2>1
  <2>3. log' \in LogType /\ log'.buff = lg.buff /\ log'.size = Len(lines)
    BY <1>5, <2>1, <2>2 DEF LogType
  <2>4. /\ Filed(files', s, old, day) /\ C \in DOMAIN files' /\ files'[C] = lines
        /\ Kept(files, files')
    BY <1>5, CurrentThere DEF Kept, old, day
  <2> QED
    BY <2>3, <2>4 DEF old, day
<1> QED
  BY <1>1, <1>3, <1>4, <1>5 DEF Lines!Rotate, old

\* log_check_rotate: no line is lost whether it rotates or not.
LEMMA TurnFiles ==
  ASSUME LinesConstants, NEW lg \in LogType, NEW s, today \in [day : 0 .. MaxDay, early : BOOLEAN],
         Filed(files, s, Lines!OldName, today.day), Lines!CheckRotate(lg)
  PROVE  Turned(lg, s, Lines!OldName, today.day)
<1>1. CASE lg.fd = "stderr" /\ log' = [lg EXCEPT !.size = 0] /\ files' = files
  <2>1. log' \in LogType /\ log'.buff = lg.buff /\ log'.fd = lg.fd
    BY <1>1 DEF LogType
  <2> QED
    BY <1>1, <2>1 DEF Turned, Kept
<1>2. CASE Lines!Rotate([lg EXCEPT !.flag = FALSE])
  <2> DEFINE r == [lg EXCEPT !.flag = FALSE]
  <2>1. r \in LogType /\ r.buff = lg.buff
    BY DEF LogType
  <2> HIDE DEF r
  <2> QED
    BY <1>2, <2>1, RotateFiles DEF Turned, r
<1>3. CASE log' = lg /\ files' = files
  BY <1>3 DEF Turned, Kept
<1> QED
  BY <1>1, <1>2, <1>3 DEF Lines!CheckRotate
-----------------------------------------------------------------------------
(* Threads and the lock.                                                     *)

\* One thread goes on to another point.
LEMMA Stepped ==
  ASSUME LinesConstants, LockOK, NEW t \in Lines!Threads, NEW a \in Points,
         th' = [th EXCEPT ![t].at = a]
  PROVE  /\ th' \in [Lines!Threads -> [at : Points, then : Points, line : Seq(LogLine)]]
         /\ th'[t].at = a /\ th'[t].then = th[t].then
         /\ \A u \in Lines!Threads : u = t \/ th'[u] = th[u]
         /\ \A u \in Lines!Threads : th'[u].line = th[u].line /\ th'[u].then = th[u].then
<1>1. th \in [Lines!Threads -> [at : Points, then : Points, line : Seq(LogLine)]]
  BY DEF LockOK
<1> QED
  BY <1>1

\* One thread gets another record.
LEMMA Replaced ==
  ASSUME LinesConstants, LockOK, NEW t \in Lines!Threads,
         NEW w \in [at : Points, then : Points, line : Seq(LogLine)],
         th' = [th EXCEPT ![t] = w]
  PROVE  /\ th' \in [Lines!Threads -> [at : Points, then : Points, line : Seq(LogLine)]]
         /\ th'[t] = w /\ \A u \in Lines!Threads : u = t \/ th'[u] = th[u]
<1>1. th \in [Lines!Threads -> [at : Points, then : Points, line : Seq(LogLine)]]
  BY DEF LockOK
<1> QED
  BY <1>1

\* The loggers and the syncer are different threads.
LEMMA ThreadsAre ==
  ASSUME LinesConstants
  PROVE  /\ Syncer \in Lines!Threads /\ \A t \in Loggers : t \in Lines!Threads /\ t # Syncer /\ t # "none"
         /\ \A t \in Lines!Threads : (t \in Loggers \/ t = Syncer) /\ t # "none"
         /\ Syncer # "none"
  BY DEF Lines!Threads, LinesConstants

\* While a thread holds the lock the loggers but it are idle, and no other writes.
LEMMA OneHolds ==
  ASSUME LinesConstants, LockOK, NEW t, holder = t \/ holder = "none"
  PROVE  /\ \A u \in Loggers : u = t \/ (th[u].at = "idle" /\ th[u].then = "idle")
         /\ \A u \in Lines!Threads : u = t \/ th[u].at \notin {"write", "end"}
<1>1. ASSUME NEW u \in Loggers, u # t PROVE th[u].at = "idle" /\ th[u].then = "idle"
  <2>1. holder # u
    BY <1>1, ThreadsAre
  <2>2. LoggerOK(u, th[u], holder)
    BY DEF LockOK
  <2> QED
    BY <2>1, <2>2 DEF LoggerOK
<1>2. ASSUME NEW u \in Lines!Threads, u # t PROVE th[u].at \notin {"write", "end"}
  <2>1. CASE u \in Loggers
    BY <1>1, <1>2, <2>1
  <2>2. CASE u = Syncer
    <3>1. holder # Syncer /\ SyncerOK(th[Syncer], holder)
      BY <1>2, <2>2, ThreadsAre DEF LockOK
    <3> QED
      BY <2>2, <3>1 DEF SyncerOK
  <2> QED
    BY <2>1, <2>2, ThreadsAre
<1> QED
  BY <1>1, <1>2

\* A thread that writes holds the lock, and so does a logger that does anything.
LEMMA LockHeld ==
  ASSUME LinesConstants, LockOK
  PROVE  /\ \A t \in Lines!Threads : th[t].at \in {"write", "end"} => holder = t
         /\ \A t \in Loggers : th[t].at # "idle" => holder = t /\ th[Syncer].then # "destroyed"
<1>1. ASSUME NEW t \in Loggers, th[t].at # "idle" PROVE holder = t /\ th[Syncer].then # "destroyed"
  BY <1>1 DEF LockOK, LoggerOK
<1>2. th[Syncer].at \in {"write", "end"} => holder = Syncer
  BY DEF LockOK, SyncerOK
<1>3. ASSUME NEW t \in Lines!Threads, th[t].at \in {"write", "end"} PROVE holder = t
  <2>1. CASE t \in Loggers
    BY <1>1, <1>3, <2>1
  <2>2. CASE t = Syncer
    BY <1>2, <1>3, <2>2
  <2> QED
    BY <2>1, <2>2, ThreadsAre
<1> QED
  BY <1>1, <1>3

\* A logger's step keeps the lock's invariant when its own part is kept.
LEMMA LoggerSteps ==
  ASSUME LinesConstants, LockOK, NEW t \in Loggers,
         th' \in [Lines!Threads -> [at : Points, then : Points, line : Seq(LogLine)]],
         \A u \in Lines!Threads : u = t \/ th'[u] = th[u],
         holder \in {t, "none"}, holder' \in {t, "none"}, LoggerOK(t, th'[t], holder'),
         th'[t].at = "idle" \/ th[Syncer].then # "destroyed"
  PROVE  LockOK'
<1>1. th'[Syncer] = th[Syncer] /\ holder # Syncer /\ holder' # Syncer
  BY ThreadsAre
<1>2. SyncerOK(th'[Syncer], holder')
  BY <1>1 DEF LockOK, SyncerOK
<1>3. ASSUME NEW u \in Loggers PROVE LoggerOK(u, th'[u], holder')
  <2>1. CASE u = t
    BY <2>1
  <2>2. CASE u # t
    <3>1. LoggerOK(u, th[u], holder) /\ th'[u] = th[u] /\ holder # u /\ holder' # u
      BY <2>2, ThreadsAre DEF LockOK
    <3> QED
      BY <3>1 DEF LoggerOK
  <2> QED
    BY <2>1, <2>2
<1>4. ASSUME th'[Syncer].then = "destroyed", NEW u \in Loggers PROVE th'[u].at = "idle"
  BY <1>1, <1>4, ThreadsAre DEF LockOK
<1>5. holder' \in Loggers \cup {Syncer, "none"}
  OBVIOUS
<1> QED
  BY <1>2, <1>3, <1>4, <1>5 DEF LockOK

\* The same for the syncer.
LEMMA SyncerSteps ==
  ASSUME LinesConstants, LockOK,
         th' \in [Lines!Threads -> [at : Points, then : Points, line : Seq(LogLine)]],
         \A u \in Lines!Threads : u = Syncer \/ th'[u] = th[u],
         holder' = holder \/ (holder \in {Syncer, "none"} /\ holder' \in {Syncer, "none"}),
         SyncerOK(th'[Syncer], holder'),
         th'[Syncer].then = "destroyed" => th[Syncer].then = "destroyed"
                                           \/ \A t \in Loggers : th[t].at = "idle"
  PROVE  LockOK'
<1>1. ASSUME NEW u \in Loggers PROVE LoggerOK(u, th'[u], holder') /\ th'[u] = th[u]
  <2>1. LoggerOK(u, th[u], holder) /\ th'[u] = th[u] /\ (holder' = u <=> holder = u)
    BY ThreadsAre DEF LockOK
  <2> QED
    BY <2>1 DEF LoggerOK
<1>2. holder' \in Loggers \cup {Syncer, "none"}
  BY DEF LockOK
<1>3. ASSUME th'[Syncer].then = "destroyed", NEW u \in Loggers PROVE th'[u].at = "idle"
  BY <1>1, <1>3 DEF LockOK
<1> QED
  BY <1>1, <1>2, <1>3 DEF LockOK

\* Nothing but threads moves.
LEMMA SpreadStays ==
  ASSUME LinesConstants, Spread, \A u \in Lines!Threads : th'[u].line = th[u].line,
         UNCHANGED << log, files, err, lost, deleted, count >>
  PROVE  Spread'
<1> DEFINE A == Spots(files, th, log.buff, err, lost, deleted)
           B == Spots(files, th', log.buff, err, lost, deleted)
<1>0. Shown(A, files, th, log.buff, err, lost, deleted) /\ Shown(B, files, th', log.buff, err, lost, deleted)
  BY SpotsAre
<1>2. Parted(A, count)
  BY DEF Spread
<1> HIDE DEF A, B
<1>1. \A p \in Lines!Places : B[p] = A[p]
  <2>1. /\ \A f \in Days : B[FileOf(f)] = A[FileOf(f)]
        /\ \A t \in Lines!Threads : B[HandOf(t)] = A[HandOf(t)]
        /\ B[Cache] = A[Cache] /\ B[Stderr] = A[Stderr] /\ B[Lost] = A[Lost]
        /\ B[Deleted] = A[Deleted]
    BY <1>0 DEF Shown
  <2> QED
    BY <2>1, PlacesAre
<1>3. Parted(B, count)
  BY <1>1, <1>2, PartedSame
<1> QED
  BY <1>3 DEF Spread, B

\* A step that changes no line and no file keeps the invariant.
LEMMA OnlyControl ==
  ASSUME LinesConstants, LinesInv,
         UNCHANGED << log, files, err, lost, deleted, count, today >>,
         LockOK', HandsOK', RoomOK',
         \A u \in Lines!Threads : /\ th'[u].line = th[u].line
                                  /\ th'[u].at = "write" => th[u].at = "write"
  PROVE  LinesInv'
<1>1. Spread'
  BY SpreadStays DEF LinesInv
<1>2. SizeOK'
  BY DEF LinesInv, SizeOK
<1>3. CacheOK' /\ FilesOK' /\ ErrOK' /\ DatesOK'
  BY DEF LinesInv, CacheOK, FilesOK, ErrOK, DatesOK, Lines!OldName
<1> QED
  BY <1>1, <1>2, <1>3 DEF LinesInv

\* The lines in hand, when no hand changes.
LEMMA HandsStay ==
  ASSUME LinesConstants, HandsOK, UNCHANGED << count, today >>,
         \A u \in Lines!Threads : th'[u].line = th[u].line /\ th'[u].then = th[u].then
  PROVE  HandsOK'
<1>1. th'[Syncer].line = << >>
  BY ThreadsAre DEF HandsOK
<1>2. ASSUME NEW t \in Loggers, th'[t].line # << >>
      PROVE  /\ th'[t].then = "put" /\ Len(th'[t].line) = 1
             /\ th'[t].line[1].n = count' /\ th'[t].line[1].day <= today'.day
  BY <1>2, ThreadsAre DEF HandsOK
<1> QED
  BY <1>1, <1>2 DEF HandsOK

\* log_fsync's test of the cache, without the lock when the syncer makes it.
LEMMA FsyncTestKeeps ==
  ASSUME LinesConstants, LinesInv, NEW t \in Lines!Threads, Lines!FsyncTest(t)
  PROVE  LinesInv'
<1>0. /\ LockOK /\ HandsOK /\ RoomOK /\ th[t].at = "fsync"
      /\ UNCHANGED << log, holder, files, err, lost, deleted, count, today, faults >>
  BY DEF LinesInv, Lines!FsyncTest
<1>1. PICK a \in Points : /\ th' = [th EXCEPT ![t].at = a]
                          /\ \/ a = "size" /\ log.buff # << >>
                             \/ a = "rotate" /\ log.buff = << >>
                             \/ a = th[t].then /\ log.buff = << >>
  <2>1. th[t].then \in Points
    BY <1>0 DEF LockOK
  <2>2. CASE log.buff # << >> /\ th' = [th EXCEPT ![t].at = "size"]
    BY <2>2 DEF Points
  <2>3. CASE log.buff = << >> /\ th' = [th EXCEPT ![t].at = "rotate"]
    BY <2>3 DEF Points
  <2>4. CASE log.buff = << >> /\ th' = [th EXCEPT ![t].at = th[t].then]
    BY <2>1, <2>4
  <2> QED
    BY <2>2, <2>3, <2>4 DEF Lines!FsyncTest, Lines!GoTo, Lines!Returned
<1>2. /\ th' \in [Lines!Threads -> [at : Points, then : Points, line : Seq(LogLine)]]
      /\ th'[t].at = a /\ th'[t].then = th[t].then
      /\ \A u \in Lines!Threads : u = t \/ th'[u] = th[u]
      /\ \A u \in Lines!Threads : th'[u].line = th[u].line /\ th'[u].then = th[u].then
  BY <1>0, <1>1, Stepped
<1>3. log.buff = << >> => Len(log.buff) = 0
  BY NoLines
<1>4. ASSUME t \in Loggers
      PROVE  /\ th[t].then \in {"put", "unlock"} /\ holder = t /\ th[Syncer].then # "destroyed"
             /\ log.buff = << >> => th[t].then = "unlock"
  <2>1. LoggerOK(t, th[t], holder) /\ holder = t /\ th[Syncer].then # "destroyed"
    BY <1>0, <1>4, LockHeld DEF LockOK
  <2>2. th[t].then \in {"put", "unlock"}
    BY <1>0, <2>1 DEF LoggerOK
  <2>3. log.buff = << >> => th[t].then # "put"
    BY <1>0, <1>3, <1>4 DEF RoomOK, LinesConstants
  <2> QED
    BY <2>1, <2>2, <2>3
<1>5. LockOK'
  <2>1. CASE t \in Loggers
    <3>1. LoggerOK(t, th'[t], holder')
      BY <1>0, <1>1, <1>2, <1>4, <2>1, ThreadsAre DEF LoggerOK
    <3> QED
      BY <1>0, <1>2, <1>4, <2>1, <3>1, LoggerSteps
  <2>2. CASE t = Syncer
    <3>1. SyncerOK(th[Syncer], holder)
      BY <1>0 DEF LockOK
    <3>2. SyncerOK(th'[Syncer], holder')
      BY <1>0, <1>1, <1>2, <2>2, <3>1 DEF SyncerOK
    <3> QED
      BY <1>0, <1>2, <2>2, <3>2, SyncerSteps
  <2> QED
    BY <2>1, <2>2, ThreadsAre
<1>6. HandsOK'
  BY <1>0, <1>2, HandsStay
<1>7. RoomOK'
  <2> SUFFICES ASSUME NEW u \in Loggers, th'[u].then = "put"
               PROVE  /\ th'[u].at = "put" => Len(log'.buff) < BuffSize
                      /\ th'[u].at = "fsync" => Len(log'.buff) = BuffSize
                      /\ th'[u].at = "end" => log'.buff = << >>
    BY DEF RoomOK
  <2>1. CASE u = t
    BY <1>1, <1>2, <1>4, <2>1
  <2>2. CASE u # t
    <3>1. th'[u] = th[u]
      BY <1>2, <2>2, ThreadsAre
    <3> QED
      BY <1>0, <3>1 DEF RoomOK
  <2> QED
    BY <2>1, <2>2
<1>8. \A u \in Lines!Threads : th'[u].at = "write" => th[u].at = "write"
  <2>1. a # "write"
    BY <1>0, <1>1, <1>4, ThreadsAre DEF LockOK, SyncerOK
  <2> QED
    BY <1>2, <2>1
<1> QED
  BY <1>0, <1>2, <1>5, <1>6, <1>7, <1>8, OnlyControl

\* log_sync_func begins.
LEMMA LogSyncFuncKeeps ==
  ASSUME LinesConstants, LinesInv, Lines!LogSyncFunc
  PROVE  LinesInv'
<1>0. /\ LockOK /\ HandsOK /\ RoomOK /\ th[Syncer] = Lines!Idle
      /\ UNCHANGED << log, holder, files, err, lost, deleted, count, today, faults >>
      /\ th' = [th EXCEPT ![Syncer].at = "fsync"] /\ Syncer \in Lines!Threads
  BY ThreadsAre DEF LinesInv, Lines!LogSyncFunc
<1>2. /\ th' \in [Lines!Threads -> [at : Points, then : Points, line : Seq(LogLine)]]
      /\ th'[Syncer].at = "fsync" /\ th'[Syncer].then = th[Syncer].then
      /\ \A u \in Lines!Threads : u = Syncer \/ th'[u] = th[u]
      /\ \A u \in Lines!Threads : th'[u].line = th[u].line /\ th'[u].then = th[u].then
  <2>1. "fsync" \in Points
    BY DEF Points
  <2> QED
    BY <1>0, <2>1, Stepped
<1>5. LockOK'
  <2>1. SyncerOK(th[Syncer], holder)
    BY <1>0 DEF LockOK
  <2>2. SyncerOK(th'[Syncer], holder')
    BY <1>0, <1>2, <2>1 DEF SyncerOK, Lines!Idle
  <2> QED
    BY <1>0, <1>2, <2>2, SyncerSteps
<1>6. HandsOK'
  BY <1>0, <1>2, HandsStay
<1>7. RoomOK'
  BY <1>0, <1>2, ThreadsAre DEF RoomOK
<1>8. \A u \in Lines!Threads : th'[u].at = "write" => th[u].at = "write"
  BY <1>2
<1> QED
  BY <1>0, <1>2, <1>5, <1>6, <1>7, <1>8, OnlyControl

\* log_destroy_ex begins, when nobody logs.
LEMMA DestroyBeginKeeps ==
  ASSUME LinesConstants, LinesInv, Lines!DestroyBegin
  PROVE  LinesInv'
<1> DEFINE w == [at |-> IF log.fd = "file" THEN "fsync" ELSE "destroyed", then |-> "destroyed", line |-> << >>]
<1>0. /\ LockOK /\ HandsOK /\ RoomOK /\ \A t \in Lines!Threads : th[t] = Lines!Idle
      /\ UNCHANGED << log, holder, files, err, lost, deleted, count, today, faults >>
      /\ th' = [th EXCEPT ![Syncer] = w] /\ Syncer \in Lines!Threads
  BY ThreadsAre DEF LinesInv, Lines!DestroyBegin
<1>1. w \in [at : Points, then : Points, line : Seq(LogLine)] /\ w.at \in {"fsync", "destroyed"}
      /\ w.then = "destroyed" /\ w.line = << >>
  BY NoLines DEF Points
<1> HIDE DEF w
<1>2. /\ th' \in [Lines!Threads -> [at : Points, then : Points, line : Seq(LogLine)]]
      /\ th'[Syncer] = w /\ \A u \in Lines!Threads : u = Syncer \/ th'[u] = th[u]
  BY <1>0, <1>1, Replaced
<1>3. \A u \in Lines!Threads : th'[u].line = th[u].line
  BY <1>0, <1>1, <1>2 DEF HandsOK
<1>4. \A u \in Loggers : th'[u] = th[u] /\ th[u].at = "idle"
  BY <1>0, <1>2, ThreadsAre DEF Lines!Idle
<1>5. LockOK'
  <2>1. SyncerOK(th[Syncer], holder)
    BY <1>0 DEF LockOK
  <2>2. SyncerOK(th'[Syncer], holder')
    BY <1>0, <1>1, <1>2, <2>1 DEF SyncerOK, Lines!Idle
  <2> QED
    BY <1>0, <1>2, <1>4, <2>2, SyncerSteps
<1>6. HandsOK'
  BY <1>0, <1>3, <1>4, ThreadsAre DEF HandsOK
<1>7. RoomOK'
  BY <1>0, <1>4 DEF RoomOK
<1>8. \A u \in Lines!Threads : th'[u].at = "write" => th[u].at = "write"
  BY <1>1, <1>2
<1> QED
  BY <1>0, <1>3, <1>5, <1>6, <1>7, <1>8, OnlyControl

\* log_it_ex1 gives the lock back.
LEMMA UnlockKeeps ==
  ASSUME LinesConstants, LinesInv, NEW t \in Loggers, Lines!Unlock(t)
  PROVE  LinesInv'
<1>0. /\ LockOK /\ HandsOK /\ RoomOK /\ th[t].at = "unlock" /\ holder' = "none"
      /\ UNCHANGED << log, files, err, lost, deleted, count, today, faults >>
      /\ th' = [th EXCEPT ![t] = Lines!Idle] /\ t \in Lines!Threads
  BY ThreadsAre DEF LinesInv, Lines!Unlock, Lines!NoOne
<1>1. Lines!Idle \in [at : Points, then : Points, line : Seq(LogLine)]
  BY NoLines DEF Lines!Idle, Points
<1>2. /\ th' \in [Lines!Threads -> [at : Points, then : Points, line : Seq(LogLine)]]
      /\ th'[t] = Lines!Idle /\ \A u \in Lines!Threads : u = t \/ th'[u] = th[u]
  BY <1>0, <1>1, Replaced
<1>3. th[t].then = "unlock" /\ holder = t /\ th[t].line = << >>
  <2>1. LoggerOK(t, th[t], holder) /\ holder = t
    BY <1>0, LockHeld DEF LockOK
  <2>2. th[t].then = "unlock"
    BY <1>0, <2>1 DEF LoggerOK
  <2> QED
    BY <1>0, <2>1, <2>2 DEF HandsOK
<1>4. \A u \in Lines!Threads : th'[u].line = th[u].line /\ (u = t \/ th'[u] = th[u])
  BY <1>2, <1>3 DEF Lines!Idle
<1>5. LockOK'
  <2>1. LoggerOK(t, th'[t], holder')
    BY <1>0, <1>2, ThreadsAre DEF LoggerOK, Lines!Idle
  <2> QED
    BY <1>0, <1>2, <1>3, <2>1, LoggerSteps DEF Lines!Idle
<1>6. HandsOK'
  BY <1>0, <1>2, <1>3, <1>4, ThreadsAre DEF HandsOK
<1>7. RoomOK'
  BY <1>0, <1>2, ThreadsAre DEF RoomOK, Lines!Idle
<1>8. \A u \in Lines!Threads : th'[u].at = "write" => th[u].at = "write"
  BY <1>2 DEF Lines!Idle
<1> QED
  BY <1>0, <1>4, <1>5, <1>6, <1>7, <1>8, OnlyControl

\* The lines are where they were after opening and rotating.
LEMMA TurnSpread ==
  ASSUME LinesConstants, Spread, NEW old \in -1 .. MaxDay,
         Kept(files, files') \/ Moved(files, files', old),
         \A u \in Lines!Threads : th'[u].line = th[u].line,
         log'.buff = log.buff, UNCHANGED << err, lost, deleted, count >>
  PROVE  Spread'
<1> DEFINE A == Spots(files, th, log.buff, err, lost, deleted)
           B == Spots(files', th', log'.buff, err', lost', deleted')
           C == MaxDay + 1
<1>1. /\ Shown(A, files, th, log.buff, err, lost, deleted)
      /\ Shown(B, files', th', log'.buff, err', lost', deleted')
  BY SpotsAre
<1>2. Parted(A, count)
  BY DEF Spread
<1> HIDE DEF A, B
<1>3. C \in Days /\ old \in Days /\ C # old
  BY DEF Days, LinesConstants
<1>4. /\ \A t \in Lines!Threads : B[HandOf(t)] = A[HandOf(t)]
      /\ B[Cache] = A[Cache] /\ B[Stderr] = A[Stderr] /\ B[Lost] = A[Lost]
      /\ B[Deleted] = A[Deleted]
  BY <1>1 DEF Shown
<1>5. Parted(B, count)
  <2>1. CASE Kept(files, files')
    <3>1. \A f \in Days : B[FileOf(f)] = A[FileOf(f)]
      BY <1>1, <2>1 DEF Shown, Kept
    <3>2. \A p \in Lines!Places : B[p] = A[p]
      BY <1>4, <3>1, PlacesAre
    <3> QED
      BY <1>2, <3>2, PartedSame
  <2>2. CASE Moved(files, files', old)
    <3> HIDE DEF C
    <3>1. /\ A[FileOf(old)] = {} /\ B[FileOf(C)] = {} /\ B[FileOf(old)] = A[FileOf(C)]
          /\ \A f \in Days : f = old \/ f = C \/ B[FileOf(f)] = A[FileOf(f)]
      BY <1>1, <1>3, <2>2 DEF Shown, Moved, C
    <3> DEFINE q == FileOf(old)
               P == {FileOf(C)}
    <3>2. q \in Lines!Places /\ P \in SUBSET Lines!Places /\ q \notin P
      BY <1>3, PlacesAre
    <3>3. \A p \in Lines!Places : p \in P \/ p = q \/ B[p] = A[p]
      BY <1>4, <3>1, PlacesAre
    <3>4. \A n : n \in B[q] <=> n \in A[q] \/ \E p \in P : n \in A[p]
      BY <3>1
    <3>5. \A p \in P : B[p] = {}
      BY <3>1
    <3> HIDE DEF q, P
    <3> QED
      BY ONLY <1>2, <3>2, <3>3, <3>4, <3>5, PartedMoves
  <2> QED
    BY <2>1, <2>2
<1> QED
  BY <1>5 DEF Spread, B

\* A step that opens or rotates keeps the invariant.
LEMMA TurnKeeps ==
  ASSUME LinesConstants, LinesInv, NEW lg \in LogType, lg.buff = log.buff, lg.fd = log.fd,
         log.size <= lg.size, Turned(lg, log.buff, Lines!OldName, today.day),
         UNCHANGED << err, lost, deleted, count, today >>,
         LockOK', HandsOK', RoomOK',
         \A u \in Lines!Threads :
           /\ th'[u].line = th[u].line
           /\ th'[u].at = "write" => th[u].at = "write" \/ log.size + Len(log.buff) <= lg.size
  PROVE  LinesInv'
<1> DEFINE C == MaxDay + 1
<1>0. /\ log' \in LogType /\ log'.buff = log.buff
      /\ Filed(files', log.buff, Lines!OldName, today.day)
      /\ Kept(files, files') \/ Moved(files, files', Lines!OldName)
      /\ Lines!OldName' = Lines!OldName
  BY DEF Turned, Lines!OldName
<1>1. Lines!OldName \in -1 .. MaxDay
  BY DEF LinesInv, DatesOK, Lines!OldName, LinesConstants
<1>2. Spread'
  BY <1>0, <1>1, TurnSpread DEF LinesInv
<1>3. CacheOK' /\ FilesOK' /\ ErrOK' /\ DatesOK'
  BY <1>0 DEF LinesInv, CacheOK, FilesOK, ErrOK, DatesOK
<1>4. /\ log.size \in Nat /\ lg.size \in Nat /\ log'.size \in Nat /\ BuffSize \in Nat
      /\ Len(log.buff) \in Nat /\ Len(log.buff) <= BuffSize
  <2>1. log.buff \in Seq(LogLine)
    BY DEF LinesInv, CacheOK, LogType
  <2> QED
    BY <1>0, <2>1 DEF LinesInv, CacheOK, LogType, LinesConstants
<1>5. SizeOK'
  <2> SUFFICES ASSUME log'.fd = "file"
               PROVE  /\ C \in DOMAIN files'
                      /\ Len(files'[C]) <= log'.size + BuffSize
                      /\ \A u \in Lines!Threads :
                           th'[u].at = "write" => Len(files'[C]) + Len(log'.buff) <= log'.size + BuffSize
    BY DEF SizeOK
  <2>1. CASE C \in DOMAIN files' /\ log'.size = Len(files'[C])
    <3> DEFINE k == Len(files'[C])
    <3>1. k = log'.size
      BY <2>1
    <3> HIDE DEF k
    <3>2. k <= log'.size + BuffSize /\ k + Len(log.buff) <= log'.size + BuffSize
      BY ONLY <1>4, <3>1
    <3> QED
      BY <1>0, <2>1, <3>2 DEF k
  <2>2. CASE log'.size = lg.size /\ files' = files /\ lg.fd = "file"
    <3>1. /\ C \in DOMAIN files /\ Len(files[C]) <= log.size + BuffSize
          /\ \A u \in Lines!Threads :
               th[u].at = "write" => Len(files[C]) + Len(log.buff) <= log.size + BuffSize
      BY <2>2 DEF LinesInv, SizeOK
    <3>2. files[C] \in Seq(LogLine)
      BY <3>1 DEF LinesInv, FilesOK, Filed
    <3> DEFINE k == Len(files[C])
    <3>3. k \in Nat
      BY <3>2
    <3>4. k <= log.size + BuffSize
      BY <3>1
    <3> HIDE DEF k
    <3>5. k <= log'.size + BuffSize
      BY ONLY <1>4, <2>2, <3>3, <3>4, log.size <= lg.size
    <3>6. ASSUME NEW u \in Lines!Threads, th'[u].at = "write"
          PROVE  k + Len(log.buff) <= log'.size + BuffSize
      <4>1. CASE th[u].at = "write"
        <5>1. k + Len(log.buff) <= log.size + BuffSize
          BY <3>1, <4>1 DEF k
        <5> QED
          BY ONLY <5>1, <1>4, <2>2, <3>3, log.size <= lg.size
      <4>2. CASE log.size + Len(log.buff) <= lg.size
        BY ONLY <4>2, <1>4, <2>2, <3>3, <3>4
      <4> QED
        BY <3>6, <4>1, <4>2
    <3> QED
      BY <1>0, <2>2, <3>1, <3>5, <3>6 DEF k
  <2> QED
    BY <2>1, <2>2 DEF Turned
<1> QED
  BY <1>2, <1>3, <1>5 DEF LinesInv

\* What the steps of log_fsync that rotate have in common.
LEMMA TurnStep ==
  ASSUME LinesConstants, LinesInv, NEW t \in Lines!Threads, NEW a \in Points,
         th' = [th EXCEPT ![t].at = a], LockOK',
         NEW lg \in LogType, lg.buff = log.buff, lg.fd = log.fd, log.size <= lg.size,
         Lines!CheckRotate(lg) \/ (log' = lg /\ files' = files),
         a = "write" => log.size + Len(log.buff) <= lg.size,
         a # "fsync", a = "end" => th[t].at = "end",
         a = "put" /\ t \in Loggers => log.buff = << >>,
         UNCHANGED << err, lost, deleted, count, today >>
  PROVE  LinesInv'
<1>0. LockOK /\ HandsOK /\ RoomOK
  BY DEF LinesInv
<1>1. /\ th'[t].at = a /\ th'[t].then = th[t].then
      /\ \A u \in Lines!Threads : u = t \/ th'[u] = th[u]
      /\ \A u \in Lines!Threads : th'[u].line = th[u].line /\ th'[u].then = th[u].then
  BY <1>0, Stepped
<1>2. Turned(lg, log.buff, Lines!OldName, today.day)
  <2>1. Filed(files, log.buff, Lines!OldName, today.day) /\ today \in [day : 0 .. MaxDay, early : BOOLEAN]
    BY DEF LinesInv, FilesOK, DatesOK
  <2>2. CASE Lines!CheckRotate(lg)
    BY <2>1, <2>2, TurnFiles
  <2>3. CASE log' = lg /\ files' = files
    BY <2>1, <2>3 DEF Turned, Kept
  <2> QED
    BY <2>2, <2>3
<1>3. log'.buff = log.buff
  BY <1>2 DEF Turned
<1>4. HandsOK'
  BY <1>0, <1>1, HandsStay
<1>5. RoomOK'
  <2> SUFFICES ASSUME NEW u \in Loggers, th'[u].then = "put"
               PROVE  /\ th'[u].at = "put" => Len(log.buff) < BuffSize
                      /\ th'[u].at = "fsync" => Len(log.buff) = BuffSize
                      /\ th'[u].at = "end" => log.buff = << >>
    BY <1>3 DEF RoomOK
  <2>1. CASE u = t
    <3>1. a = "put" => Len(log.buff) < BuffSize
      BY <2>1, NoLines DEF LinesConstants
    <3>2. a = "end" => log.buff = << >>
      BY <1>0, <1>1, <2>1 DEF RoomOK
    <3> QED
      BY <1>1, <2>1, <3>1, <3>2
  <2>2. CASE u # t
    <3>1. th'[u] = th[u]
      BY <1>1, <2>2, ThreadsAre
    <3> QED
      BY <1>0, <3>1 DEF RoomOK
  <2> QED
    BY <2>1, <2>2
<1>6. \A u \in Lines!Threads :
        th'[u].at = "write" => th[u].at = "write" \/ log.size + Len(log.buff) <= lg.size
  BY <1>1
<1> QED
  BY <1>0, <1>1, <1>2, <1>4, <1>5, <1>6, TurnKeeps

\* The types of a log's fields.
LEMMA SizesAre ==
  ASSUME LinesInv
  PROVE  /\ log \in LogType /\ log.buff \in Seq(LogLine) /\ Len(log.buff) \in Nat /\ log.size \in Nat
<1>1. log \in LogType /\ log.buff \in Seq(LogLine) /\ log.size \in Nat
  BY DEF LinesInv, CacheOK, LogType
<1> QED
  BY <1>1

\* log_fsync with an empty cache: log_check_rotate only.
LEMMA FsyncRotateKeeps ==
  ASSUME LinesConstants, LinesInv, NEW t \in Lines!Threads, Lines!FsyncRotate(t)
  PROVE  LinesInv'
<1>0. /\ LockOK /\ HandsOK /\ RoomOK /\ th[t].at = "rotate" /\ Lines!CheckRotate(log)
      /\ th' = [th EXCEPT ![t].at = th[t].then]
      /\ UNCHANGED << holder, err, lost, deleted, count, today >>
  BY DEF LinesInv, Lines!FsyncRotate, Lines!Returned
<1>1. th[t].then \in Points
  BY <1>0 DEF LockOK
<1>2. /\ th' \in [Lines!Threads -> [at : Points, then : Points, line : Seq(LogLine)]]
      /\ th'[t].at = th[t].then /\ th'[t].then = th[t].then
      /\ \A u \in Lines!Threads : u = t \/ th'[u] = th[u]
  BY <1>0, <1>1, Stepped
<1>3. LockOK' /\ th[t].then \in {"unlock", "idle", "destroyed"}
  <2>1. CASE t \in Loggers
    <3>1. LoggerOK(t, th[t], holder) /\ holder = t /\ th[Syncer].then # "destroyed"
      BY <1>0, <2>1, LockHeld DEF LockOK
    <3>2. LoggerOK(t, th'[t], holder') /\ th[t].then = "unlock"
      BY <1>0, <1>2, <3>1 DEF LoggerOK
    <3> QED
      BY <1>0, <1>2, <2>1, <3>1, <3>2, LoggerSteps
  <2>2. CASE t = Syncer
    <3>1. SyncerOK(th[Syncer], holder)
      BY <1>0 DEF LockOK
    <3>2. SyncerOK(th'[Syncer], holder') /\ th[Syncer].then \in {"idle", "destroyed"}
      BY <1>0, <1>2, <2>2, <3>1 DEF SyncerOK
    <3> QED
      BY <1>0, <1>2, <2>2, <3>2, SyncerSteps
  <2> QED
    BY <2>1, <2>2, ThreadsAre
<1>4. log \in LogType /\ log.size <= log.size
  BY SizesAre
<1> QED
  BY <1>0, <1>1, <1>3, <1>4, TurnStep

\* log_fsync's rotation after the write, and the syncer's unlock.
LEMMA FsyncEndKeeps ==
  ASSUME LinesConstants, LinesInv, NEW t \in Lines!Threads, Lines!FsyncEnd(t)
  PROVE  LinesInv'
<1>0. /\ LockOK /\ HandsOK /\ RoomOK /\ th[t].at = "end"
      /\ Lines!CheckRotate(log) \/ (log' = log /\ files' = files)
      /\ th' = [th EXCEPT ![t].at = th[t].then]
      /\ holder' = (IF t = Syncer THEN "none" ELSE holder)
      /\ UNCHANGED << err, lost, deleted, count, today >>
  BY DEF LinesInv, Lines!FsyncEnd, Lines!Returned, Lines!Unlocked, Lines!NoOne
<1>1. th[t].then \in Points /\ holder = t
  BY <1>0, LockHeld DEF LockOK
<1>2. /\ th' \in [Lines!Threads -> [at : Points, then : Points, line : Seq(LogLine)]]
      /\ th'[t].at = th[t].then /\ th'[t].then = th[t].then
      /\ \A u \in Lines!Threads : u = t \/ th'[u] = th[u]
  BY <1>0, <1>1, Stepped
<1>3. LockOK' /\ th[t].then \in {"put", "unlock", "idle", "destroyed"}
  <2>1. CASE t \in Loggers
    <3>1. LoggerOK(t, th[t], holder) /\ holder = t /\ holder' = t /\ th[Syncer].then # "destroyed"
      BY <1>0, <2>1, LockHeld, ThreadsAre DEF LockOK
    <3>2. LoggerOK(t, th'[t], holder') /\ th[t].then \in {"put", "unlock"}
      BY <1>0, <1>2, <3>1 DEF LoggerOK
    <3> QED
      BY <1>0, <1>2, <2>1, <3>1, <3>2, LoggerSteps
  <2>2. CASE t = Syncer
    <3>1. SyncerOK(th[Syncer], holder)
      BY <1>0 DEF LockOK
    <3>2. SyncerOK(th'[Syncer], holder') /\ th[Syncer].then \in {"idle", "destroyed"}
      BY <1>0, <1>2, <2>2, <3>1, ThreadsAre DEF SyncerOK
    <3> QED
      BY <1>0, <1>1, <1>2, <2>2, <3>2, SyncerSteps
  <2> QED
    BY <2>1, <2>2, ThreadsAre
<1>4. log \in LogType /\ log.size <= log.size
  BY SizesAre
<1>5. t \in Loggers /\ th[t].then = "put" => log.buff = << >>
  BY <1>0 DEF RoomOK
<1> QED
  BY <1>0, <1>1, <1>3, <1>4, <1>5, TurnStep

\* log_fsync counts the cache, and rotates first when the size is over rotate_size.
LEMMA FsyncSizeKeeps ==
  ASSUME LinesConstants, LinesInv, NEW t \in Lines!Threads, Lines!FsyncSize(t)
  PROVE  LinesInv'
<1> DEFINE size == log.size + Len(log.buff)
<1>0. /\ LockOK /\ HandsOK /\ RoomOK /\ th[t].at = "size" /\ holder \in {t, "none"}
      /\ th' = [th EXCEPT ![t].at = "write"] /\ holder' = t
      /\ UNCHANGED << err, lost, deleted, count, today >>
  BY DEF LinesInv, Lines!FsyncSize, Lines!GoTo, Lines!CanLock, Lines!NoOne
<1>1. PICK lg \in LogType : /\ lg.buff = log.buff /\ lg.fd = log.fd /\ lg.size = size
                            /\ Lines!CheckRotate(lg) \/ (log' = lg /\ files' = files)
  <2>1. size \in Nat /\ log \in LogType
    BY SizesAre
  <2> DEFINE r == [log EXCEPT !.size = size]
  <2>2. r \in LogType /\ r.buff = log.buff /\ r.fd = log.fd /\ r.size = size
    BY <2>1 DEF LogType
  <2>3. Lines!CheckRotate([r EXCEPT !.flag = TRUE]) \/ (log' = r /\ files' = files)
    BY DEF Lines!FsyncSize
  <2> HIDE DEF r, size
  <2>4. /\ [r EXCEPT !.flag = TRUE] \in LogType /\ [r EXCEPT !.flag = TRUE].buff = r.buff
        /\ [r EXCEPT !.flag = TRUE].fd = r.fd /\ [r EXCEPT !.flag = TRUE].size = r.size
    BY <2>2 DEF LogType
  <2> QED
    BY <2>2, <2>3, <2>4
<1>2. /\ th' \in [Lines!Threads -> [at : Points, then : Points, line : Seq(LogLine)]]
      /\ th'[t].at = "write" /\ th'[t].then = th[t].then
      /\ \A u \in Lines!Threads : u = t \/ th'[u] = th[u]
  <2>1. "write" \in Points
    BY DEF Points
  <2> QED
    BY <1>0, <2>1, Stepped
<1>3. LockOK'
  <2>1. CASE t \in Loggers
    <3>1. LoggerOK(t, th[t], holder) /\ holder = t /\ th[Syncer].then # "destroyed"
      BY <1>0, <2>1, LockHeld DEF LockOK
    <3>2. LoggerOK(t, th'[t], holder')
      BY <1>0, <1>2, <3>1 DEF LoggerOK
    <3> QED
      BY <1>0, <1>2, <2>1, <3>1, <3>2, LoggerSteps
  <2>2. CASE t = Syncer
    <3>1. SyncerOK(th[Syncer], holder)
      BY <1>0 DEF LockOK
    <3>2. SyncerOK(th'[Syncer], holder')
      BY <1>0, <1>2, <2>2, <3>1 DEF SyncerOK
    <3> QED
      BY <1>0, <1>2, <2>2, <3>2, SyncerSteps DEF LockOK
  <2> QED
    BY <2>1, <2>2, ThreadsAre
<1>4. log.size <= lg.size /\ log.size + Len(log.buff) <= lg.size
  BY <1>1, SizesAre
<1>5. "write" \in Points
  BY DEF Points
<1> QED
  BY <1>0, <1>1, <1>3, <1>4, <1>5, TurnStep

\* log_reopen_ex opens the file without the lock.
LEMMA ReopenOpenKeeps ==
  ASSUME LinesConstants, LinesInv, Lines!ReopenOpen
  PROVE  LinesInv'
<1>0. /\ LockOK /\ HandsOK /\ RoomOK /\ Lines!Open(log, files)
      /\ UNCHANGED << holder, th, err, lost, deleted, count, today >>
  BY DEF LinesInv, Lines!ReopenOpen
<1>1. log \in LogType /\ log.size <= log.size
  BY SizesAre
<1>2. Filed(files, log.buff, Lines!OldName, today.day)
  BY DEF LinesInv, FilesOK
<1>3. Turned(log, log.buff, Lines!OldName, today.day)
  BY <1>0, <1>1, <1>2, OpenFiles DEF Turned
<1>4. LockOK' /\ HandsOK'
  BY <1>0 DEF LockOK, HandsOK
<1>5. RoomOK'
  BY <1>0, <1>3 DEF RoomOK, Turned
<1> QED
  BY <1>0, <1>1, <1>3, <1>4, <1>5, TurnKeeps

\* Only the rotation flag or the descriptor changes.
LEMMA OnlyLog ==
  ASSUME LinesConstants, LinesInv, log' \in LogType, log'.buff = log.buff, log'.size = log.size,
         log'.fd = "file" => log.fd = "file",
         UNCHANGED << holder, th, files, err, lost, deleted, count, today >>
  PROVE  LinesInv'
<1>1. Spread'
  <2>1. Spread
    BY DEF LinesInv
  <2> QED
    BY <2>1 DEF Spread
<1>2. LockOK' /\ HandsOK' /\ CacheOK' /\ RoomOK'
  BY DEF LinesInv, LockOK, HandsOK, CacheOK, RoomOK
<1>3. FilesOK' /\ ErrOK' /\ DatesOK'
  BY DEF LinesInv, FilesOK, ErrOK, DatesOK, Lines!OldName
<1>4. SizeOK'
  BY DEF LinesInv, SizeOK
<1> QED
  BY <1>1, <1>2, <1>3, <1>4 DEF LinesInv

\* log_notify_rotate sets the flag without the lock.
LEMMA LogNotifyRotateKeeps ==
  ASSUME LinesConstants, LinesInv, Lines!LogNotifyRotate
  PROVE  LinesInv'
<1>1. log' = [log EXCEPT !.flag = TRUE] /\ log \in LogType
  BY SizesAre DEF Lines!LogNotifyRotate
<1>2. log' \in LogType /\ log'.buff = log.buff /\ log'.size = log.size /\ log'.fd = log.fd
  BY <1>1 DEF LogType
<1> QED
  BY <1>2, OnlyLog DEF Lines!LogNotifyRotate

\* log_reopen_ex closes the file without the lock.
LEMMA ReopenCloseKeeps ==
  ASSUME LinesConstants, LinesInv, Lines!ReopenClose
  PROVE  LinesInv'
<1>1. log' = [log EXCEPT !.fd = "closed"] /\ log \in LogType
  BY SizesAre DEF Lines!ReopenClose
<1>2. log' \in LogType /\ log'.buff = log.buff /\ log'.size = log.size /\ log'.fd # "file"
  BY <1>1 DEF LogType
<1> QED
  BY <1>2, OnlyLog DEF Lines!ReopenClose

\* A later day, with the same files.
LEMMA TickKeeps ==
  ASSUME LinesConstants, LinesInv, Lines!Tick
  PROVE  LinesInv'
<1> DEFINE old == Lines!OldName
           new == Lines!OldName'
           day == today.day
           later == today'.day
<1>0. UNCHANGED << log, holder, th, files, err, lost, deleted, count >>
  BY DEF Lines!Tick
<1>1. today' \in [day : 0 .. MaxDay, early : BOOLEAN] /\ day \in Int /\ later \in Int /\ day <= later
  <2>1. /\ today \in [day : 0 .. MaxDay, early : BOOLEAN] /\ MaxDay \in Nat
        /\ today.day < MaxDay \/ today.early
    BY DEF Lines!Tick, LinesInv, DatesOK, LinesConstants
  <2>2. CASE today.early /\ today' = [today EXCEPT !.early = FALSE]
    <3>1. today' \in [day : 0 .. MaxDay, early : BOOLEAN]
      BY <2>1, <2>2
    <3>2. today'.day = today.day
      BY <2>1, <2>2
    <3>3. today.day \in Int
      BY <2>1
    <3> QED
      BY <3>1, <3>2, <3>3
  <2>3. CASE ~ today.early /\ today' = [day |-> today.day + 1, early |-> TRUE]
    BY <2>1, <2>3
  <2> QED
    BY <2>2, <2>3 DEF Lines!Tick
<1>2. old \in Int /\ new \in Int /\ old <= new
  BY DEF Lines!Tick, LinesInv, DatesOK, LinesConstants, Lines!OldName
<1> HIDE DEF old, new, day, later
<1>3. \A d \in Int : (d <= day => d <= later) /\ (d <= old => d <= new)
  BY <1>1, <1>2
<1>4. Spread' /\ LockOK' /\ RoomOK' /\ SizeOK'
  BY <1>0 DEF LinesInv, Spread, LockOK, RoomOK, SizeOK
<1>5. \A s \in Seq(LogLine) : \A i \in 1 .. Len(s) : s[i].day \in Int
  <2> SUFFICES ASSUME NEW s \in Seq(LogLine), NEW i \in 1 .. Len(s) PROVE s[i].day \in Int
    OBVIOUS
  <2>1. s[i] \in LogLine
    BY ElementOfSeq
  <2> QED
    BY <2>1 DEF LogLine
<1>6. CacheOK'
  <2>1. \A i \in 1 .. Len(log.buff) : log.buff[i].day <= later
    BY <1>3, <1>5, SizesAre DEF LinesInv, CacheOK, day
  <2> QED
    BY <1>0, <2>1 DEF LinesInv, CacheOK, later
<1>7. FilesOK'
  <2>1. Filed(files, log.buff, old, day)
    BY DEF LinesInv, FilesOK, old, day
  <2>2. ASSUME NEW f \in DOMAIN files
        PROVE  /\ f # MaxDay + 1 => f <= new
               /\ \A i \in 1 .. Len(files[f]) : files[f][i].day <= later
    <3>1. f \in Int
      BY <2>1 DEF Filed, Days
    <3> QED
      BY <1>3, <1>5, <2>1, <3>1 DEF Filed
  <2>3. Filed(files, log.buff, new, later)
    BY <2>1, <2>2 DEF Filed
  <2> QED
    BY <1>0, <2>3 DEF FilesOK, new, later
<1>8. HandsOK'
  <2> SUFFICES ASSUME NEW t \in Loggers, th[t].line # << >> PROVE th[t].line[1].day <= later
    BY <1>0 DEF LinesInv, HandsOK, later
  <2>1. Len(th[t].line) = 1 /\ th[t].line[1].day <= day
    BY DEF LinesInv, HandsOK, day
  <2>2. th[t].line \in Seq(LogLine)
    BY ThreadsAre DEF LinesInv, LockOK
  <2>3. th[t].line[1].day \in Int
    BY <1>5, <2>1, <2>2
  <2> QED
    BY <1>3, <2>1, <2>3
<1>9. DatesOK' /\ ErrOK'
  <2>1. ASSUME NEW l \in deleted PROVE l.day + KeepDays <= later
    <3>1. l.day \in Int /\ KeepDays \in Int /\ l.day + KeepDays <= day
      BY DEF LinesInv, DatesOK, LogLine, LinesConstants, day
    <3> QED
      BY <1>3, <3>1
  <2> QED
    BY <1>0, <1>1, <2>1 DEF LinesInv, DatesOK, ErrOK, later
<1> QED
  BY <1>4, <1>6, <1>7, <1>8, <1>9 DEF LinesInv

\* One line.
LEMMA OneLine ==
  ASSUME NEW l \in LogLine
  PROVE  << l >> \in Seq(LogLine) /\ Len(<< l >>) = 1 /\ << l >>[1] = l /\ NumbersOf(<< l >>) = {l.n}
<1>1. << l >> \in Seq(LogLine) /\ Len(<< l >>) = 1 /\ << l >>[1] = l
  OBVIOUS
<1>2. NumbersOf(<< l >>) = {l.n}
  BY <1>1 DEF NumbersOf
<1> QED
  BY <1>1, <1>2

\* log_it_ex1 takes the lock and numbers its line.
LEMMA LogItKeeps ==
  ASSUME LinesConstants, LinesInv, NEW t \in Loggers, Lines!LogIt(t)
  PROVE  LinesInv'
<1> DEFINE l == [n |-> count + 1, day |-> today.day]
           w == [at   |-> IF Len(log.buff) + 1 > BuffSize THEN "fsync" ELSE "put",
                 then |-> "put", line |-> << l >>]
<1>0. /\ LockOK /\ HandsOK /\ RoomOK /\ th[t] = Lines!Idle /\ holder = "none" /\ holder' = t
      /\ th[Syncer].then # "destroyed" /\ t \in Lines!Threads
      /\ count' = count + 1 /\ th' = [th EXCEPT ![t] = w]
      /\ UNCHANGED << log, files, err, lost, deleted, today >>
  BY ThreadsAre DEF LinesInv, Lines!LogIt, Lines!NoOne
<1>1. count \in Nat /\ l \in LogLine /\ l.n = count + 1 /\ l.day <= today.day
  BY DEF LinesInv, DatesOK, LogLine
<1>2. /\ w \in [at : Points, then : Points, line : Seq(LogLine)]
      /\ w.at \in {"fsync", "put"} /\ w.then = "put" /\ w.line = << l >>
      /\ w.at = "fsync" => Len(log.buff) + 1 > BuffSize
      /\ w.at = "put" => ~ (Len(log.buff) + 1 > BuffSize)
  BY <1>1, OneLine DEF Points
<1> HIDE DEF l, w
<1>3. /\ th' \in [Lines!Threads -> [at : Points, then : Points, line : Seq(LogLine)]]
      /\ th'[t] = w /\ \A u \in Lines!Threads : u = t \/ th'[u] = th[u]
  BY <1>0, <1>2, Replaced
<1>4. LockOK'
  <2>1. LoggerOK(t, th'[t], holder')
    BY <1>0, <1>2, <1>3 DEF LoggerOK
  <2> QED
    BY <1>0, <1>3, <2>1, LoggerSteps
<1>5. \A u \in Loggers : u = t \/ (th'[u] = th[u] /\ th[u].at = "idle" /\ th[u].then = "idle")
  BY <1>0, <1>3, OneHolds, ThreadsAre
<1>6. HandsOK'
  <2>1. th'[Syncer].line = << >>
    BY <1>0, <1>3, ThreadsAre DEF HandsOK
  <2>2. ASSUME NEW u \in Loggers, th'[u].line # << >>
        PROVE  /\ th'[u].then = "put" /\ Len(th'[u].line) = 1
               /\ th'[u].line[1].n = count' /\ th'[u].line[1].day <= today'.day
    <3>1. CASE u = t
      BY <1>0, <1>1, <1>2, <1>3, <3>1, OneLine
    <3>2. CASE u # t
      BY <1>0, <1>5, <2>2, <3>2 DEF HandsOK
    <3> QED
      BY <3>1, <3>2
  <2> QED
    BY <2>1, <2>2 DEF HandsOK
<1>7. RoomOK'
  <2>1. Len(log.buff) \in Nat /\ Len(log.buff) <= BuffSize /\ BuffSize \in Nat
    BY SizesAre DEF LinesInv, CacheOK, LinesConstants
  <2>2. (w.at = "fsync" => Len(log.buff) = BuffSize) /\ (w.at = "put" => Len(log.buff) < BuffSize)
    BY <1>2, <2>1
  <2> QED
    BY <1>0, <1>2, <1>3, <1>5, <2>2 DEF RoomOK
<1>8. SizeOK'
  <2>1. \A u \in Lines!Threads : th'[u].at = "write" => th[u].at = "write"
    BY <1>2, <1>3
  <2> QED
    BY <1>0, <2>1 DEF LinesInv, SizeOK
<1>9. CacheOK' /\ FilesOK' /\ ErrOK' /\ DatesOK'
  BY <1>0, <1>1 DEF LinesInv, CacheOK, FilesOK, ErrOK, DatesOK, Lines!OldName
<1>10. Spread'
  <2> DEFINE A == Spots(files, th, log.buff, err, lost, deleted)
             B == Spots(files, th', log.buff, err, lost, deleted)
             q == HandOf(t)
  <2>1. Shown(A, files, th, log.buff, err, lost, deleted) /\ Shown(B, files, th', log.buff, err, lost, deleted)
    BY SpotsAre
  <2>2. Parted(A, count)
    BY DEF LinesInv, Spread
  <2> HIDE DEF A, B
  <2>3. A[q] = {} /\ B[q] = {count + 1}
    <3>1. A[q] = NumbersOf(th[t].line) /\ B[q] = NumbersOf(th'[t].line)
      BY <1>0, <2>1 DEF Shown
    <3>2. th[t].line = << >> /\ th'[t].line = << l >>
      BY <1>0, <1>2, <1>3 DEF Lines!Idle
    <3>3. NumbersOf(<< l >>) = {count + 1}
      BY <1>1, OneLine
    <3> QED
      BY <3>1, <3>2, <3>3, NoLines
  <2>4. \A u \in Lines!Threads : u = t \/ B[HandOf(u)] = A[HandOf(u)]
    BY <1>3, <2>1 DEF Shown
  <2>5. /\ \A f \in Days : B[FileOf(f)] = A[FileOf(f)]
        /\ B[Cache] = A[Cache] /\ B[Stderr] = A[Stderr] /\ B[Lost] = A[Lost]
        /\ B[Deleted] = A[Deleted]
    BY <2>1 DEF Shown
  <2>6. \A p \in Lines!Places : p = q \/ B[p] = A[p]
    BY <2>4, <2>5, PlacesAre
  <2>7. q \in Lines!Places /\ \A n : n \in B[q] <=> n \in A[q] \/ n = count + 1
    BY <1>0, <2>3, PlacesAre
  <2> HIDE DEF q
  <2>8. Parted(B, count + 1)
    BY ONLY <1>1, <2>2, <2>6, <2>7, PartedAdds
  <2> QED
    BY <1>0, <2>8 DEF Spread, B
<1> QED
  BY <1>4, <1>6, <1>7, <1>8, <1>9, <1>10 DEF LinesInv
-----------------------------------------------------------------------------
(* Lines from hand to cache, and from there to a file, stderr or nowhere.    *)

\* The line in a logger's hand has the last number, all others have lower ones.
LEMMA HandIsLast ==
  ASSUME LinesConstants, LinesInv, NEW t \in Loggers, NEW q \in Lines!Places, q # HandOf(t),
         NEW s \in Seq(LogLine),
         Spots(files, th, log.buff, err, lost, deleted)[q] = NumbersOf(s)
  PROVE  Lines!Before(s, th[t].line)
<1> DEFINE A == Spots(files, th, log.buff, err, lost, deleted)
           line == th[t].line
<1>1. Parted(A, count) /\ HandOf(t) \in Lines!Places /\ A[HandOf(t)] = NumbersOf(line)
  BY SpotsAre, PlacesAre, ThreadsAre DEF Shown, LinesInv, Spread
<1>2. A[q] = NumbersOf(s)
  OBVIOUS
<1>3. line = << >> \/ (Len(line) = 1 /\ line[1].n = count)
  BY DEF LinesInv, HandsOK
<1> HIDE DEF A, line
<1>4. CASE Len(line) = 1 /\ line[1].n = count
  <2>1. count \in NumbersOf(line)
    BY <1>4 DEF NumbersOf
  <2>2. ASSUME NEW i \in 1 .. Len(s) PROVE s[i].n < count
    <3>1. s[i].n \in A[q]
      BY <1>2 DEF NumbersOf
    <3>2. s[i].n \in 1 .. count /\ s[i].n # count
      BY <1>1, <2>1, <3>1 DEF Parted
    <3> QED
      BY <3>2 DEF LinesInv, DatesOK
  <2> QED
    BY <1>4, <2>2 DEF Lines!Before, line
<1>5. CASE line = << >>
  BY <1>5, NoLines DEF line
<1> QED
  BY <1>3, <1>4, <1>5

\* doLogEx: the line in hand goes behind the cache.
LEMMA PutKeeps ==
  ASSUME LinesConstants, LinesInv, NEW t \in Loggers, Lines!Put(t)
  PROVE  LinesInv'
<1> DEFINE line == th[t].line
           A == Spots(files, th, log.buff, err, lost, deleted)
           B == Spots(files, th', log'.buff, err, lost, deleted)
<1>0. /\ LockOK /\ HandsOK /\ RoomOK /\ th[t].at = "put" /\ t \in Lines!Threads
      /\ log' = [log EXCEPT !.buff = log.buff \o line]
      /\ UNCHANGED << holder, files, err, lost, deleted, count, today >>
  BY ThreadsAre DEF LinesInv, Lines!Put
<1>1. PICK w : /\ w \in [at : Points, then : Points, line : Seq(LogLine)]
               /\ w.at \in {"fsync", "unlock"} /\ w.then = "unlock" /\ w.line = << >>
               /\ th' = [th EXCEPT ![t] = w]
  <2>1. PICK sync \in BOOLEAN :
          th' = [th EXCEPT ![t] = [at   |-> IF sync THEN "fsync" ELSE "unlock",
                                   then |-> "unlock", line |-> << >>]]
    BY DEF Lines!Put
  <2> DEFINE w == [at   |-> IF sync THEN "fsync" ELSE "unlock", then |-> "unlock", line |-> << >>]
  <2>2. /\ w \in [at : Points, then : Points, line : Seq(LogLine)]
        /\ w.at \in {"fsync", "unlock"} /\ w.then = "unlock" /\ w.line = << >>
    BY NoLines DEF Points
  <2> QED
    BY <2>1, <2>2
<1>2. /\ th' \in [Lines!Threads -> [at : Points, then : Points, line : Seq(LogLine)]]
      /\ th'[t] = w /\ \A u \in Lines!Threads : u = t \/ th'[u] = th[u]
  BY <1>0, <1>1, Replaced
<1>3. holder = t /\ th[Syncer].then # "destroyed" /\ th[t].then = "put"
  <2>1. LoggerOK(t, th[t], holder)
    BY <1>0 DEF LockOK
  <2> QED
    BY <1>0, <2>1, LockHeld DEF LoggerOK
<1>4. LockOK'
  <2>1. LoggerOK(t, th'[t], holder')
    BY <1>0, <1>1, <1>2, <1>3, ThreadsAre DEF LoggerOK
  <2> QED
    BY <1>0, <1>2, <1>3, <2>1, LoggerSteps
<1>5. /\ \A u \in Loggers : u = t \/ (th'[u] = th[u] /\ th[u].at = "idle" /\ th[u].then = "idle")
      /\ \A u \in Lines!Threads : u = t \/ th[u].at # "write"
  BY <1>0, <1>2, <1>3, OneHolds, ThreadsAre
<1>6. HandsOK'
  BY <1>0, <1>1, <1>2, <1>5, ThreadsAre DEF HandsOK
<1>7. RoomOK'
  BY <1>1, <1>2, <1>5 DEF RoomOK
<1>8. /\ line \in Seq(LogLine) /\ log.buff \in Seq(LogLine) /\ Len(log.buff) < BuffSize
      /\ line = << >> \/ (Len(line) = 1 /\ line[1].day <= today.day)
  BY <1>0, <1>3, SizesAre DEF LockOK, HandsOK, RoomOK
<1>9. log' \in LogType /\ log'.buff = log.buff \o line /\ log'.size = log.size /\ log'.fd = log.fd
  <2>1. log \in LogType /\ log.buff \o line \in Seq(LogLine)
    BY <1>8, SizesAre, Concatenated
  <2> HIDE DEF line
  <2> QED
    BY <1>0, <2>1 DEF LogType
<1>10. \A s \in Seq(LogLine), q \in Lines!Places : A[q] = NumbersOf(s) /\ q # HandOf(t) => Lines!Before(s, line)
  BY HandIsLast
<1>11. /\ Shown(A, files, th, log.buff, err, lost, deleted)
       /\ Shown(B, files, th', log'.buff, err, lost, deleted)
       /\ Parted(A, count)
  BY SpotsAre DEF LinesInv, Spread
<1> HIDE DEF A, B, line
<1>12. Lines!Before(log.buff, line) /\ Lines!Before(err, line) /\ \A f \in DOMAIN files : Lines!Before(files[f], line)
  <2>1. Lines!Before(log.buff, line) /\ Lines!Before(err, line)
    BY <1>8, <1>10, <1>11, PlacesAre DEF Shown, LinesInv, ErrOK
  <2>2. ASSUME NEW f \in DOMAIN files PROVE Lines!Before(files[f], line)
    <3>1. f \in Days /\ files[f] \in Seq(LogLine)
      BY DEF LinesInv, FilesOK, Filed
    <3>2. A[FileOf(f)] = NumbersOf(files[f])
      BY <1>11, <3>1 DEF Shown, NumbersIn
    <3> QED
      BY <1>10, <3>1, <3>2, PlacesAre
  <2> QED
    BY <2>1, <2>2
<1>13. CacheOK'
  <2>1. Len(log.buff \o line) <= BuffSize
    <3>1. Len(log.buff \o line) = Len(log.buff) + Len(line) /\ Len(line) <= 1 /\ Len(line) \in Nat
      BY <1>8, Concatenated, NoLines
    <3> QED
      BY <1>8, <3>1, SizesAre DEF LinesConstants
  <2>2. Lines!Ascending(line)
    BY <1>8, NoLines DEF Lines!Ascending
  <2>3. Lines!Ascending(log.buff \o line)
    BY <1>8, <1>12, <2>2, OrderConcatenated DEF LinesInv, CacheOK
  <2>4. ASSUME NEW i \in 1 .. Len(log.buff \o line) PROVE (log.buff \o line)[i].day <= today.day
    <3>1. \A j \in 1 .. Len(line) : line[j].day <= today.day
      BY <1>8, NoLines
    <3>2. \A j \in 1 .. Len(log.buff) : log.buff[j].day <= today.day
      BY DEF LinesInv, CacheOK
    <3> QED
      BY <1>8, <3>1, <3>2, Concatenated
  <2> QED
    BY <1>0, <1>9, <2>1, <2>3, <2>4 DEF CacheOK
<1>14. FilesOK'
  <2>1. \A f \in DOMAIN files : Lines!Before(files[f], log.buff \o line)
    BY <1>8, <1>12, OrderConcatenated DEF LinesInv, FilesOK, Filed
  <2>2. Filed(files, log.buff \o line, Lines!OldName, today.day)
    BY <2>1 DEF LinesInv, FilesOK, Filed
  <2> QED
    BY <1>0, <1>9, <2>2 DEF FilesOK, Lines!OldName
<1>15. ErrOK'
  BY <1>0, <1>8, <1>9, <1>12, OrderConcatenated DEF LinesInv, ErrOK
<1>16. SizeOK'
  <2>1. \A u \in Lines!Threads : th'[u].at # "write"
    BY <1>1, <1>2, <1>5
  <2> QED
    BY <1>0, <1>9, <2>1 DEF LinesInv, SizeOK
<1>17. DatesOK'
  BY <1>0 DEF LinesInv, DatesOK
<1>18. Spread'
  <2> DEFINE q == Cache
             P == {HandOf(t)}
  <2>1. q \in Lines!Places /\ P \in SUBSET Lines!Places /\ q \notin P
    BY <1>0, PlacesAre
  <2>2. /\ B[q] = A[q] \cup A[HandOf(t)] /\ B[HandOf(t)] = {}
    <3>1. B[q] = NumbersOf(log.buff) \cup NumbersOf(line)
      BY <1>8, <1>9, <1>11, NumbersConcatenated DEF Shown
    <3>2. A[HandOf(t)] = NumbersOf(line) /\ B[HandOf(t)] = NumbersOf(th'[t].line)
      BY <1>0, <1>11 DEF Shown, line
    <3> QED
      BY <1>1, <1>2, <1>11, <3>1, <3>2, NoLines DEF Shown
  <2>3. /\ \A f \in Days : B[FileOf(f)] = A[FileOf(f)]
        /\ \A u \in Lines!Threads : u = t \/ B[HandOf(u)] = A[HandOf(u)]
        /\ B[Stderr] = A[Stderr] /\ B[Lost] = A[Lost] /\ B[Deleted] = A[Deleted]
    BY <1>2, <1>11 DEF Shown
  <2>4. \A p \in Lines!Places : p \in P \/ p = q \/ B[p] = A[p]
    BY <2>3, PlacesAre
  <2>5. \A n : n \in B[q] <=> n \in A[q] \/ \E p \in P : n \in A[p]
    BY <2>2
  <2>6. \A p \in P : B[p] = {}
    BY <2>2
  <2> HIDE DEF q, P
  <2>7. Parted(B, count)
    BY ONLY <1>11, <2>1, <2>4, <2>5, <2>6, PartedMoves
  <2> QED
    BY <1>0, <2>7 DEF Spread, B
<1> QED
  BY <1>4, <1>6, <1>7, <1>13, <1>14, <1>15, <1>16, <1>17, <1>18 DEF LinesInv

\* The current file, with lines written behind its own.
LEMMA CurrentWritten ==
  ASSUME LinesConstants, NEW fs, NEW s, NEW old, NEW day, Filed(fs, s, old, day),
         s \in Seq(LogLine), Lines!Ascending(s), \A i \in 1 .. Len(s) : s[i].day <= day,
         MaxDay + 1 \in DOMAIN fs
  PROVE  LET gs == Lines!With(fs, MaxDay + 1, fs[MaxDay + 1] \o s) IN
         /\ Filed(gs, << >>, old, day)
         /\ MaxDay + 1 \in DOMAIN gs
         /\ fs[MaxDay + 1] \in Seq(LogLine) /\ gs[MaxDay + 1] = fs[MaxDay + 1] \o s
         /\ NumbersIn(gs, MaxDay + 1) = NumbersIn(fs, MaxDay + 1) \cup NumbersOf(s)
         /\ \A f \in Days : f = MaxDay + 1 \/ NumbersIn(gs, f) = NumbersIn(fs, f)
<1> DEFINE C == MaxDay + 1
           a == fs[C]
           c == a \o s
           gs == Lines!With(fs, C, c)
<1>1. DOMAIN gs = DOMAIN fs /\ \A f \in DOMAIN fs : gs[f] = IF f = C THEN c ELSE fs[f]
  BY DEF Lines!With
<1>2. a \in Seq(LogLine) /\ Lines!Ascending(a) /\ Lines!Before(a, s) /\ \A i \in 1 .. Len(a) : a[i].day <= day
  BY DEF Filed
<1>3. c \in Seq(LogLine) /\ NumbersOf(c) = NumbersOf(a) \cup NumbersOf(s)
  BY <1>2, Concatenated, NumbersConcatenated
<1>4. Lines!Ascending(c)
  BY <1>2, OrderConcatenated
<1>5. \A i \in 1 .. Len(c) : c[i].day <= day
  BY <1>2, Concatenated
<1>6. \A r : Lines!Before(r, a) /\ Lines!Before(r, s) => Lines!Before(r, c)
  BY <1>2, OrderConcatenated
<1> HIDE DEF gs, c
<1>7. ASSUME NEW f \in DOMAIN gs
      PROVE  /\ gs[f] \in Seq(LogLine)
             /\ Lines!Ascending(gs[f]) /\ Lines!Before(gs[f], << >>)
             /\ \A i \in 1 .. Len(gs[f]) : gs[f][i].day <= day
             /\ f # C => f <= old
             /\ f # C => \A i \in 1 .. Len(gs[f]) : gs[f][i].day <= f + 1
  <2>1. CASE f = C
    BY <1>1, <1>3, <1>4, <1>5, <2>1, NoLines
  <2>2. CASE f # C
    BY <1>1, <2>2, NoLines DEF Filed
  <2> QED
    BY <2>1, <2>2
<1>8. ASSUME NEW f \in DOMAIN gs, NEW g \in DOMAIN gs, f < g PROVE Lines!Before(gs[f], gs[g])
  <2>1. f # C
    <3>1. f \in Int /\ g \in Int /\ g <= C
      BY <1>1 DEF Filed, Days, LinesConstants
    <3> HIDE DEF C
    <3> QED
      BY ONLY <1>8, <3>1
  <2>2. f \in DOMAIN fs /\ g \in DOMAIN fs /\ gs[f] = fs[f] /\ Lines!Before(fs[f], fs[g]) /\ Lines!Before(fs[f], s)
    BY <1>1, <1>8, <2>1 DEF Filed
  <2>3. CASE g = C
    BY <1>1, <1>6, <2>2, <2>3
  <2>4. CASE g # C
    BY <1>1, <2>2, <2>4
  <2> QED
    BY <2>3, <2>4
<1>9. NumbersIn(gs, C) = NumbersIn(fs, C) \cup NumbersOf(s) /\ C \in DOMAIN gs /\ gs[C] = c
  BY <1>1, <1>3 DEF NumbersIn
<1>10. \A f \in Days : f = C \/ NumbersIn(gs, f) = NumbersIn(fs, f)
  BY <1>1 DEF NumbersIn
<1>11. DOMAIN gs \in SUBSET Days
  BY <1>1 DEF Filed
<1> QED
  BY <1>2, <1>7, <1>8, <1>9, <1>10, <1>11 DEF Filed, gs, c

\* Where the cache went: to the current file, to stderr or nowhere.
ToFile ==
  /\ log.fd = "file" /\ UNCHANGED << err, lost >>
  /\ files' = Lines!With(files, Lines!Current, files[Lines!Current] \o log.buff)
  /\ \E t \in Lines!Threads : th[t].at = "write"
ToErr  == err' = err \o log.buff /\ UNCHANGED << files, lost >>
ToNone == lost' = lost \cup Lines!ToSet(log.buff) /\ UNCHANGED << files, err >>

\* Wherever the cache goes, its lines go there and nowhere else.
LEMMA SpreadEmptied ==
  ASSUME LinesConstants, LinesInv, log' \in LogType, log'.buff = << >>,
         ToFile \/ ToErr \/ ToNone, UNCHANGED << deleted, count >>,
         \A u \in Lines!Threads : th'[u].line = th[u].line
  PROVE  Spread'
<1> DEFINE A == Spots(files, th, log.buff, err, lost, deleted)
           B == Spots(files', th', log'.buff, err', lost', deleted')
           P == {Cache}
<1>1. /\ Shown(A, files, th, log.buff, err, lost, deleted)
      /\ Shown(B, files', th', log'.buff, err', lost', deleted')
      /\ Parted(A, count)
  BY SpotsAre DEF LinesInv, Spread
<1> HIDE DEF A, B
<1>2. /\ \A u \in Lines!Threads : B[HandOf(u)] = A[HandOf(u)]
      /\ B[Deleted] = A[Deleted] /\ B[Cache] = {} /\ A[Cache] = NumbersOf(log.buff)
  BY <1>1, NoLines DEF Shown
<1>3. P \in SUBSET Lines!Places /\ \A p \in P : B[p] = {}
  BY <1>2, PlacesAre
<1>4. PICK q \in Lines!Places :
        /\ q \notin P /\ B[q] = A[q] \cup A[Cache]
        /\ \A p \in Lines!Places : p \in P \/ p = q \/ B[p] = A[p]
  <2>1. CASE ToFile
    <3> DEFINE C == MaxDay + 1
    <3>1. /\ NumbersIn(files', C) = NumbersIn(files, C) \cup NumbersOf(log.buff)
          /\ \A f \in Days : f = C \/ NumbersIn(files', f) = NumbersIn(files, f)
          /\ C \in Days
      <4>1. C \in DOMAIN files /\ Filed(files, log.buff, Lines!OldName, today.day) /\ log.buff \in Seq(LogLine)
            /\ Lines!Ascending(log.buff) /\ \A i \in 1 .. Len(log.buff) : log.buff[i].day <= today.day
        BY <2>1, SizesAre DEF ToFile, LinesInv, SizeOK, FilesOK, CacheOK
      <4>2. C \in Days
        BY DEF Days, LinesConstants
      <4>3. files' = Lines!With(files, C, files[C] \o log.buff)
        BY <2>1 DEF ToFile, Lines!Current
      <4> QED
        BY <4>1, <4>2, <4>3, CurrentWritten
    <3> HIDE DEF C
    <3> DEFINE q == FileOf(C)
    <3>2. /\ B[q] = A[q] \cup A[Cache] /\ \A f \in Days : f = C \/ B[FileOf(f)] = A[FileOf(f)]
          /\ B[Stderr] = A[Stderr] /\ B[Lost] = A[Lost]
      BY <1>1, <2>1, <3>1 DEF Shown, ToFile
    <3>3. q \in Lines!Places /\ q \notin P
      BY <3>1, PlacesAre
    <3>4. \A p \in Lines!Places : p \in P \/ p = q \/ B[p] = A[p]
      BY <1>2, <3>2, PlacesAre
    <3> QED
      BY <3>2, <3>3, <3>4
  <2>2. CASE ToErr
    <3>1. B[Stderr] = A[Stderr] \cup A[Cache]
      BY <1>1, <2>2, SizesAre, NumbersConcatenated DEF Shown, ToErr, LinesInv, ErrOK
    <3>2. /\ \A f \in Days : B[FileOf(f)] = A[FileOf(f)]
          /\ B[Lost] = A[Lost]
      BY <1>1, <2>2 DEF Shown, ToErr
    <3>3. \A p \in Lines!Places : p \in P \/ p = Stderr \/ B[p] = A[p]
      BY <1>2, <3>2, PlacesAre
    <3> QED
      BY <3>1, <3>3, PlacesAre
  <2>3. CASE ToNone
    <3>1. B[Lost] = A[Lost] \cup A[Cache]
      <4>1. {l.n : l \in lost \cup Lines!ToSet(log.buff)} = {l.n : l \in lost} \cup NumbersOf(log.buff)
        <5>1. log.buff \in Seq(LogLine)
          BY SizesAre
        <5>2. DOMAIN log.buff = 1 .. Len(log.buff)
          BY <5>1
        <5> QED
          BY <5>2 DEF Lines!ToSet, NumbersOf
      <4> QED
        BY <1>1, <2>3, <4>1 DEF Shown, ToNone
    <3>2. /\ \A f \in Days : B[FileOf(f)] = A[FileOf(f)]
          /\ B[Stderr] = A[Stderr]
      BY <1>1, <2>3 DEF Shown, ToNone
    <3>3. \A p \in Lines!Places : p \in P \/ p = Lost \/ B[p] = A[p]
      BY <1>2, <3>2, PlacesAre
    <3> QED
      BY <3>1, <3>3, PlacesAre
  <2> QED
    BY <2>1, <2>2, <2>3
<1>5. \A n : n \in B[q] <=> n \in A[q] \/ \E p \in P : n \in A[p]
  BY <1>4
<1> HIDE DEF P
<1>6. Parted(B, count)
  BY ONLY <1>1, <1>3, <1>4, <1>5, PartedMoves
<1> QED
  BY <1>6 DEF Spread, B

\* A step that empties the cache keeps the invariant.
LEMMA CacheEmptied ==
  ASSUME LinesConstants, LinesInv, log' \in LogType, log'.buff = << >>, log'.size = log.size,
         log'.fd = "file" => log.fd = "file",
         ToFile \/ ToErr \/ ToNone, UNCHANGED << deleted, count, today >>,
         LockOK', HandsOK', RoomOK',
         \A u \in Lines!Threads : th'[u].line = th[u].line /\ th'[u].at # "write"
  PROVE  LinesInv'
<1> DEFINE C == MaxDay + 1
           old == Lines!OldName
<1>1. Spread'
  BY SpreadEmptied
<1>2. CacheOK'
  BY NoLines DEF CacheOK, LinesConstants
<1>3. /\ Filed(files, log.buff, old, today.day) /\ log.buff \in Seq(LogLine)
      /\ Lines!Ascending(log.buff) /\ \A i \in 1 .. Len(log.buff) : log.buff[i].day <= today.day
      /\ C = Lines!Current /\ old' = old
  BY SizesAre DEF LinesInv, FilesOK, CacheOK, Lines!Current, Lines!OldName
<1>4. Filed(files', << >>, old, today.day) /\ SizeOK'
  <2>1. CASE ToFile
    <3>1. /\ C \in DOMAIN files
          /\ Len(files[C]) + Len(log.buff) <= log.size + BuffSize
      BY <2>1 DEF ToFile, LinesInv, SizeOK
    <3>2. /\ Filed(files', << >>, old, today.day)
          /\ C \in DOMAIN files' /\ files'[C] = files[C] \o log.buff /\ files[C] \in Seq(LogLine)
      BY <1>3, <2>1, <3>1, CurrentWritten DEF ToFile
    <3>3. Len(files'[C]) = Len(files[C]) + Len(log.buff)
      BY <1>3, <3>2, Concatenated
    <3> QED
      BY <3>1, <3>2, <3>3 DEF SizeOK
  <2>2. CASE files' = files
    <3>1. Filed(files, << >>, old, today.day)
      BY <1>3, NoLines DEF Filed
    <3>2. SizeOK'
      BY <2>2 DEF LinesInv, SizeOK
    <3> QED
      BY <2>2, <3>1, <3>2
  <2> QED
    BY <2>1, <2>2 DEF ToErr, ToNone
<1>5. FilesOK'
  BY <1>3, <1>4 DEF FilesOK
<1>6. ErrOK'
  <2>1. err \in Seq(LogLine) /\ Lines!Ascending(err) /\ Lines!Before(err, log.buff)
    BY DEF LinesInv, ErrOK
  <2>2. err \o log.buff \in Seq(LogLine) /\ Lines!Ascending(err \o log.buff)
    BY <1>3, <2>1, Concatenated, OrderConcatenated
  <2> QED
    BY <2>1, <2>2, NoLines DEF ErrOK, ToFile, ToErr, ToNone
<1>7. DatesOK'
  <2>1. Lines!ToSet(log.buff) \in SUBSET LogLine
    BY <1>3, ElementOfSeq DEF Lines!ToSet
  <2> QED
    BY <2>1 DEF LinesInv, DatesOK, ToFile, ToErr, ToNone
<1> QED
  BY <1>1, <1>2, <1>4, <1>5, <1>6, <1>7 DEF LinesInv

\* log_fsync's write, to the file, to stderr or in vain.
LEMMA FsyncWriteKeeps ==
  ASSUME LinesConstants, LinesInv, NEW t \in Lines!Threads, Lines!FsyncWrite(t)
  PROVE  LinesInv'
<1>0. /\ LockOK /\ HandsOK /\ RoomOK /\ th[t].at = "write" /\ log \in LogType
      /\ ToFile \/ ToErr \/ ToNone
      /\ th' = [th EXCEPT ![t].at = "end"] /\ log' = [log EXCEPT !.buff = << >>]
      /\ UNCHANGED << holder, deleted, count, today >>
  BY SizesAre DEF LinesInv, Lines!FsyncWrite, Lines!GoTo, ToFile, ToErr, ToNone
<1>1. log' \in LogType /\ log'.buff = << >> /\ log'.size = log.size /\ log'.fd = log.fd
  BY <1>0, NoLines DEF LogType
<1>2. /\ th' \in [Lines!Threads -> [at : Points, then : Points, line : Seq(LogLine)]]
      /\ th'[t].at = "end" /\ th'[t].then = th[t].then
      /\ \A u \in Lines!Threads : u = t \/ th'[u] = th[u]
      /\ \A u \in Lines!Threads : th'[u].line = th[u].line /\ th'[u].then = th[u].then
  <2>1. "end" \in Points
    BY DEF Points
  <2> QED
    BY <1>0, <2>1, Stepped
<1>3. holder = t
  BY <1>0, LockHeld
<1>4. LockOK'
  <2>1. CASE t \in Loggers
    <3>1. LoggerOK(t, th[t], holder) /\ th[Syncer].then # "destroyed"
      BY <1>0, <2>1, LockHeld DEF LockOK
    <3>2. LoggerOK(t, th'[t], holder')
      BY <1>0, <1>2, <3>1 DEF LoggerOK
    <3> QED
      BY <1>0, <1>2, <1>3, <2>1, <3>1, <3>2, LoggerSteps
  <2>2. CASE t = Syncer
    <3>1. SyncerOK(th[Syncer], holder)
      BY <1>0 DEF LockOK
    <3>2. SyncerOK(th'[Syncer], holder')
      BY <1>0, <1>2, <2>2, <3>1 DEF SyncerOK
    <3> QED
      BY <1>0, <1>2, <2>2, <3>2, SyncerSteps DEF LockOK
  <2> QED
    BY <2>1, <2>2, ThreadsAre
<1>5. HandsOK'
  BY <1>0, <1>2, HandsStay
<1>6. /\ \A u \in Loggers : u = t \/ (th'[u] = th[u] /\ th[u].then = "idle")
      /\ \A u \in Lines!Threads : th'[u].at # "write"
  <2>1. /\ \A u \in Loggers : u = t \/ th[u].then = "idle"
        /\ \A u \in Lines!Threads : u = t \/ th[u].at # "write"
    BY <1>0, <1>3, OneHolds
  <2>2. th'[t].at # "write"
    BY <1>2
  <2>3. \A u \in Loggers : u = t \/ th'[u] = th[u]
    BY <1>2, ThreadsAre
  <2> QED
    BY <1>2, <2>1, <2>2, <2>3
<1>7. RoomOK'
  BY <1>1, <1>2, <1>6 DEF RoomOK
<1> QED
  BY <1>0, <1>1, <1>2, <1>4, <1>5, <1>6, <1>7, CacheEmptied

\* log_destroy_ex ends: what is still in the cache is lost.
LEMMA DestroyEndKeeps ==
  ASSUME LinesConstants, LinesInv, Lines!DestroyEnd
  PROVE  LinesInv'
<1>0. /\ LockOK /\ HandsOK /\ RoomOK /\ th[Syncer].at = "destroyed" /\ log \in LogType
      /\ ToNone /\ th' = [th EXCEPT ![Syncer].at = "gone"]
      /\ log' = [log EXCEPT !.fd = "stderr", !.buff = << >>] /\ Syncer \in Lines!Threads
      /\ UNCHANGED << holder, deleted, count, today >>
  BY SizesAre, ThreadsAre DEF LinesInv, Lines!DestroyEnd, ToNone
<1>1. log' \in LogType /\ log'.buff = << >> /\ log'.size = log.size /\ log'.fd = "stderr"
  BY <1>0, NoLines DEF LogType
<1>2. /\ th' \in [Lines!Threads -> [at : Points, then : Points, line : Seq(LogLine)]]
      /\ th'[Syncer].at = "gone" /\ th'[Syncer].then = th[Syncer].then
      /\ \A u \in Lines!Threads : u = Syncer \/ th'[u] = th[u]
      /\ \A u \in Lines!Threads : th'[u].line = th[u].line /\ th'[u].then = th[u].then
  <2>1. "gone" \in Points
    BY DEF Points
  <2> QED
    BY <1>0, <2>1, Stepped
<1>3. SyncerOK(th[Syncer], holder) /\ th[Syncer].then = "destroyed" /\ \A u \in Loggers : th[u].at = "idle"
  BY <1>0 DEF LockOK, SyncerOK
<1>4. LockOK'
  <2>1. SyncerOK(th'[Syncer], holder')
    BY <1>0, <1>2, <1>3 DEF SyncerOK
  <2> QED
    BY <1>0, <1>2, <2>1, SyncerSteps
<1>5. HandsOK'
  BY <1>0, <1>2, HandsStay
<1>6. \A u \in Loggers : th'[u] = th[u] /\ th[u].then = "idle" /\ th'[u].at = "idle"
  BY <1>0, <1>2, <1>3, ThreadsAre DEF LockOK, LoggerOK
<1>7. RoomOK' /\ \A u \in Lines!Threads : th'[u].at # "write"
  BY <1>2, <1>6, ThreadsAre DEF RoomOK
<1> QED
  BY <1>0, <1>1, <1>2, <1>4, <1>5, <1>7, CacheEmptied

\* log_delete_old_files takes only files whose lines are keep_days old.
LEMMA LogDeleteOldFilesKeeps ==
  ASSUME LinesConstants, LinesInv, Lines!LogDeleteOldFiles
  PROVE  LinesInv'
<1> DEFINE C == MaxDay + 1
           D == Lines!Stale
           oldLines == UNION {Lines!ToSet(files[d]) : d \in D}
           A == Spots(files, th, log.buff, err, lost, deleted)
           B == Spots(files', th', log'.buff, err', lost', deleted')
           P == {FileOf(d) : d \in D}
           q == Deleted
<1>0. /\ KeepDays > 0 /\ KeepDays \in Int
      /\ deleted' = deleted \cup oldLines /\ files' = Lines!Without(files, D)
      /\ UNCHANGED << log, holder, th, err, lost, count, today >>
  BY DEF Lines!LogDeleteOldFiles, LinesConstants
<1>1. today.day \in Int /\ today.day <= MaxDay /\ MaxDay \in Int
  BY DEF LinesInv, DatesOK, LinesConstants
<1>2. \A d \in D : d \in DOMAIN files /\ d \in Int /\ d <= today.day - KeepDays - 1
  BY <1>0, <1>1 DEF Lines!Stale
<1>3. Filed(files, log.buff, Lines!OldName, today.day)
  BY DEF LinesInv, FilesOK
<1> HIDE DEF D
<1>4. C \notin D
  <2>1. ~ (C <= today.day - KeepDays - 1)
    BY <1>0, <1>1
  <2> QED
    BY <1>2, <2>1
<1>5. DOMAIN files' = DOMAIN files \ D /\ \A f \in DOMAIN files' : files'[f] = files[f]
  BY <1>0 DEF Lines!Without
<1>6. FilesOK'
  <2>1. Filed(files', log.buff, Lines!OldName, today.day)
    BY <1>3, <1>5 DEF Filed
  <2> QED
    BY <1>0, <2>1 DEF FilesOK, Lines!OldName
<1>7. SizeOK'
  BY <1>0, <1>4, <1>5 DEF LinesInv, SizeOK
<1>8. \A d \in D : /\ files[d] \in Seq(LogLine) /\ DOMAIN files[d] = 1 .. Len(files[d])
                   /\ \A i \in 1 .. Len(files[d]) : files[d][i] \in LogLine /\ files[d][i].day <= d + 1
  <2> SUFFICES ASSUME NEW d \in D
               PROVE  /\ files[d] \in Seq(LogLine) /\ DOMAIN files[d] = 1 .. Len(files[d])
                      /\ \A i \in 1 .. Len(files[d]) : files[d][i] \in LogLine /\ files[d][i].day <= d + 1
    OBVIOUS
  <2>1. files[d] \in Seq(LogLine) /\ \A i \in 1 .. Len(files[d]) : files[d][i].day <= d + 1
    BY <1>2, <1>3, <1>4 DEF Filed
  <2> QED
    BY <2>1, ElementOfSeq
<1>9. DatesOK'
  <2>1. \A l \in oldLines : l \in LogLine /\ \E d \in D : l.day <= d + 1
    BY <1>8 DEF Lines!ToSet
  <2>2. ASSUME NEW l \in oldLines PROVE l.day + KeepDays <= today.day
    <3>1. PICK d \in D : l.day <= d + 1 /\ l.day \in Int
      BY <2>1 DEF LogLine
    <3>2. d \in Int /\ d <= today.day - KeepDays - 1
      BY <1>2
    <3> QED
      BY <1>0, <1>1, <3>1, <3>2
  <2>3. oldLines \in SUBSET LogLine
    BY <2>1
  <2> HIDE DEF oldLines
  <2> QED
    BY <1>0, <2>2, <2>3 DEF LinesInv, DatesOK
<1>10. LockOK' /\ HandsOK' /\ CacheOK' /\ RoomOK' /\ ErrOK'
  BY <1>0 DEF LinesInv, LockOK, HandsOK, CacheOK, RoomOK, ErrOK
<1>11. Spread'
  <2>1. /\ Shown(A, files, th, log.buff, err, lost, deleted)
        /\ Shown(B, files', th', log'.buff, err', lost', deleted')
        /\ Parted(A, count)
    BY SpotsAre DEF LinesInv, Spread
  <2> HIDE DEF A, B
  <2>2. /\ \A f \in Days : f \in D \/ NumbersIn(files', f) = NumbersIn(files, f)
        /\ \A f \in D : NumbersIn(files', f) = {} /\ NumbersIn(files, f) = NumbersOf(files[f])
        /\ D \in SUBSET Days
    BY <1>2, <1>3, <1>5 DEF NumbersIn, Filed
  <2>3. /\ \A f \in Days : f \in D \/ B[FileOf(f)] = A[FileOf(f)]
        /\ \A f \in D : B[FileOf(f)] = {} /\ A[FileOf(f)] = NumbersOf(files[f])
        /\ \A u \in Lines!Threads : B[HandOf(u)] = A[HandOf(u)]
        /\ B[Stderr] = A[Stderr] /\ B[Lost] = A[Lost] /\ B[Cache] = A[Cache]
    BY <1>0, <2>1, <2>2 DEF Shown
  <2>4. q \in Lines!Places /\ P \in SUBSET Lines!Places /\ q \notin P
    BY <2>2, PlacesAre
  <2>5. \A p \in P : B[p] = {}
    BY <2>3
  <2>6. \A p \in Lines!Places : p \in P \/ p = q \/ B[p] = A[p]
    BY <2>2, <2>3, PlacesAre
  <2>7. \A n : n \in B[q] <=> n \in A[q] \/ \E p \in P : n \in A[p]
    <3>1. A[q] = {l.n : l \in deleted} /\ B[q] = {l.n : l \in deleted \cup oldLines}
      BY <1>0, <2>1 DEF Shown
    <3>2. ASSUME NEW n PROVE (\E p \in P : n \in A[p]) <=> \E l \in oldLines : n = l.n
      <4>1. (\E p \in P : n \in A[p]) <=> \E d \in D : n \in NumbersOf(files[d])
        BY <2>3
      <4>2. (\E l \in oldLines : n = l.n) <=> \E d \in D : \E l \in Lines!ToSet(files[d]) : n = l.n
        OBVIOUS
      <4>3. \A d \in D : n \in NumbersOf(files[d]) <=> \E l \in Lines!ToSet(files[d]) : n = l.n
        BY <1>8 DEF NumbersOf, Lines!ToSet
      <4> QED
        BY <4>1, <4>2, <4>3
    <3> HIDE DEF q, P, oldLines
    <3> QED
      BY <3>1, <3>2
  <2> HIDE DEF q, P
  <2>8. Parted(B, count)
    BY ONLY <2>1, <2>4, <2>5, <2>6, <2>7, PartedMoves
  <2> QED
    BY <1>0, <2>8 DEF Spread, B
<1> QED
  BY <1>6, <1>7, <1>9, <1>10, <1>11 DEF LinesInv

\* log_init and log_set_prefix establish the invariant.
LEMMA LinesStart ==
  ASSUME LinesConstants, Lines!Init
  PROVE  LinesInv
<1> DEFINE C == MaxDay + 1
           A == Spots(files, th, log.buff, err, lost, deleted)
<1>0. /\ log = [buff |-> << >>, size |-> 0, flag |-> FALSE, fd |-> "file"]
      /\ holder = "none" /\ th = [t \in Lines!Threads |-> Lines!Idle]
      /\ files = [f \in {C} |-> << >>]
      /\ err = << >> /\ lost = {} /\ deleted = {}
      /\ count = 0 /\ today = [day |-> 0, early |-> FALSE]
  BY DEF Lines!Init, Lines!NoOne, Lines!Current
<1>1. log \in LogType /\ log.buff = << >> /\ log.size = 0
  BY <1>0, NoLines DEF LogType
<1>2. \A t \in Lines!Threads : th[t] = Lines!Idle /\ th[t].at = "idle" /\ th[t].then = "idle" /\ th[t].line = << >>
  BY <1>0 DEF Lines!Idle
<1>3. LockOK
  <2>1. Lines!Idle \in [at : Points, then : Points, line : Seq(LogLine)]
    BY NoLines DEF Lines!Idle, Points
  <2>2. th \in [Lines!Threads -> [at : Points, then : Points, line : Seq(LogLine)]]
    BY <1>0, <2>1
  <2>3. \A t \in Loggers : LoggerOK(t, th[t], holder)
    BY <1>0, <1>2, ThreadsAre DEF LoggerOK
  <2>4. SyncerOK(th[Syncer], holder)
    BY <1>0, <1>2, ThreadsAre DEF SyncerOK
  <2> QED
    BY <1>0, <1>2, <2>2, <2>3, <2>4, ThreadsAre DEF LockOK
<1>4. HandsOK /\ RoomOK
  BY <1>2, ThreadsAre DEF HandsOK, RoomOK
<1>5. CacheOK /\ ErrOK
  BY <1>0, <1>1, NoLines DEF CacheOK, ErrOK, LinesConstants
<1>6. DOMAIN files = {C} /\ files[C] = << >> /\ C \in Days
  <2>1. C \in Days
    BY DEF Days, LinesConstants
  <2> HIDE DEF C
  <2> QED
    BY <1>0, <2>1
<1>7. FilesOK
  <2>1. \A f \in DOMAIN files : f \in Days /\ f = C /\ files[f] = << >>
    BY <1>6
  <2>2. \A i \in 1 .. Len(<< >>) : FALSE
    BY NoLines
  <2> HIDE DEF C
  <2>3. ASSUME NEW f \in DOMAIN files
        PROVE  /\ files[f] \in Seq(LogLine)
               /\ Lines!Ascending(files[f]) /\ Lines!Before(files[f], log.buff)
               /\ \A i \in 1 .. Len(files[f]) : FALSE
    BY <2>1, <2>2, NoLines
  <2>4. \A f, g \in DOMAIN files : f < g => Lines!Before(files[f], files[g])
    BY <2>1, NoLines
  <2> QED
    BY <2>1, <2>3, <2>4 DEF FilesOK, Filed, C
<1>8. SizeOK
  BY <1>1, <1>2, <1>6, NoLines DEF SizeOK, LinesConstants
<1>9. DatesOK
  BY <1>0 DEF DatesOK, LinesConstants
<1>10. Spread
  <2>1. Shown(A, files, th, log.buff, err, lost, deleted)
    BY SpotsAre
  <2> HIDE DEF A
  <2>2. /\ \A f \in Days : A[FileOf(f)] = {}
        /\ \A t \in Lines!Threads : A[HandOf(t)] = {}
        /\ A[Cache] = {} /\ A[Stderr] = {} /\ A[Lost] = {} /\ A[Deleted] = {}
    BY <1>0, <1>1, <1>2, <1>6, <2>1, NoLines DEF Shown, NumbersIn
  <2>3. \A p \in Lines!Places : A[p] = {}
    BY <2>2, PlacesAre
  <2>4. Parted(A, 0)
    BY <2>3 DEF Parted
  <2> QED
    BY <1>0, <2>4 DEF Spread, A
<1> QED
  BY <1>3, <1>4, <1>5, <1>7, <1>8, <1>9, <1>10 DEF LinesInv

\* Every step of a logger, the syncer or the schedule keeps it.
LEMMA LinesNext ==
  ASSUME LinesConstants, LinesInv, [Lines!Next]_linesVars
  PROVE  LinesInv'
<1>1. CASE UNCHANGED linesVars
  <2>1. Spread'
    BY <1>1 DEF LinesInv, Spread, linesVars
  <2>2. LockOK' /\ HandsOK' /\ CacheOK' /\ RoomOK'
    BY <1>1 DEF LinesInv, LockOK, HandsOK, CacheOK, RoomOK, linesVars
  <2>3. FilesOK' /\ ErrOK' /\ SizeOK' /\ DatesOK'
    BY <1>1 DEF LinesInv, FilesOK, ErrOK, SizeOK, DatesOK, Lines!OldName, linesVars
  <2> QED
    BY <2>1, <2>2, <2>3 DEF LinesInv
<1>2. CASE Lines!Next
  <2>1. ASSUME NEW t \in Lines!Threads, \/ Lines!FsyncTest(t) \/ Lines!FsyncRotate(t) \/ Lines!FsyncSize(t)
                                        \/ Lines!FsyncWrite(t) \/ Lines!FsyncEnd(t)
        PROVE  LinesInv'
    BY <2>1, FsyncTestKeeps, FsyncRotateKeeps, FsyncSizeKeeps, FsyncWriteKeeps, FsyncEndKeeps
  <2>2. ASSUME NEW t \in Loggers, Lines!LogIt(t) \/ Lines!Put(t) \/ Lines!Unlock(t)
        PROVE  LinesInv'
    BY <2>2, LogItKeeps, PutKeeps, UnlockKeeps
  <2>3. CASE \/ Lines!LogSyncFunc \/ Lines!LogNotifyRotate \/ Lines!LogDeleteOldFiles
             \/ Lines!ReopenClose \/ Lines!ReopenOpen \/ Lines!DestroyBegin \/ Lines!DestroyEnd
             \/ Lines!Tick
    BY <2>3, LogSyncFuncKeeps, LogNotifyRotateKeeps, LogDeleteOldFilesKeeps, ReopenCloseKeeps,
       ReopenOpenKeeps, DestroyBeginKeeps, DestroyEndKeeps, TickKeeps
  <2> QED
    BY <1>2, <2>1, <2>2, <2>3 DEF Lines!Next
<1> QED
  BY <1>1, <1>2

\* What is at a place, and its numbers.
LEMMA LinesAtAre ==
  ASSUME LinesConstants, LinesInv, NEW p \in Lines!Places
  PROVE  {l.n : l \in Lines!LinesAt(p)} = Spots(files, th, log.buff, err, lost, deleted)[p]
<1> DEFINE A == Spots(files, th, log.buff, err, lost, deleted)
<1>1. Shown(A, files, th, log.buff, err, lost, deleted)
  BY SpotsAre
<1>2. ASSUME NEW s \in Seq(LogLine) PROVE {l.n : l \in Lines!ToSet(s)} = NumbersOf(s)
  <2>1. DOMAIN s = 1 .. Len(s)
    OBVIOUS
  <2> QED
    BY <2>1 DEF Lines!ToSet, NumbersOf
<1> HIDE DEF A
<1>3. ASSUME NEW f \in Days PROVE {l.n : l \in Lines!LinesAt(FileOf(f))} = A[FileOf(f)]
  <2>1. Lines!LinesAt(FileOf(f)) = IF f \in DOMAIN files THEN Lines!ToSet(files[f]) ELSE {}
    BY DEF Lines!LinesAt, FileOf
  <2>2. A[FileOf(f)] = IF f \in DOMAIN files THEN NumbersOf(files[f]) ELSE {}
    BY <1>1 DEF Shown, NumbersIn
  <2>3. CASE f \in DOMAIN files
    <3>1. files[f] \in Seq(LogLine)
      BY <2>3 DEF LinesInv, FilesOK, Filed
    <3> QED
      BY <1>2, <2>1, <2>2, <2>3, <3>1
  <2>4. CASE f \notin DOMAIN files
    BY <2>1, <2>2, <2>4
  <2> QED
    BY <2>3, <2>4
<1>4. ASSUME NEW t \in Lines!Threads PROVE {l.n : l \in Lines!LinesAt(HandOf(t))} = A[HandOf(t)]
  <2>1. Lines!LinesAt(HandOf(t)) = Lines!ToSet(th[t].line)
    BY DEF Lines!LinesAt, HandOf
  <2>2. th[t].line \in Seq(LogLine)
    BY DEF LinesInv, LockOK
  <2> QED
    BY <1>1, <1>2, <2>1, <2>2 DEF Shown
<1>5. {l.n : l \in Lines!LinesAt(Cache)} = A[Cache]
  <2>1. Lines!LinesAt(Cache) = Lines!ToSet(log.buff)
    BY DEF Lines!LinesAt, Cache
  <2> QED
    BY <1>1, <1>2, <2>1, SizesAre DEF Shown
<1>6. {l.n : l \in Lines!LinesAt(Stderr)} = A[Stderr]
  <2>1. Lines!LinesAt(Stderr) = Lines!ToSet(err)
    BY DEF Lines!LinesAt, Stderr
  <2> QED
    BY <1>1, <1>2, <2>1 DEF Shown, LinesInv, ErrOK
<1>7. {l.n : l \in Lines!LinesAt(Lost)} = A[Lost]
  <2>1. Lines!LinesAt(Lost) = lost
    BY DEF Lines!LinesAt, Lost
  <2> QED
    BY <1>1, <2>1 DEF Shown
<1>8. {l.n : l \in Lines!LinesAt(Deleted)} = A[Deleted]
  <2>1. Lines!LinesAt(Deleted) = deleted
    BY DEF Lines!LinesAt, Deleted
  <2> QED
    BY <1>1, <2>1 DEF Shown
<1> QED
  BY <1>3, <1>4, <1>5, <1>6, <1>7, <1>8, PlacesAre DEF A

\* What Logger!Sound says of the lines follows.
LEMMA LinesSound ==
  ASSUME LinesConstants, LinesInv
  PROVE  Lines!Sound
<1> DEFINE A == Spots(files, th, log.buff, err, lost, deleted)
           L == Lines!Located
           C == MaxDay + 1
<1>1. Parted(A, count) /\ \A p \in Lines!Places : {l.n : l \in Lines!LinesAt(p)} = A[p]
  BY LinesAtAre DEF LinesInv, Spread
<1> HIDE DEF A
<1>2. /\ \A x \in L : \E p \in Lines!Places : \E n \in A[p] : x = << n, p >>
      /\ \A p \in Lines!Places : \A n \in A[p] : << n, p >> \in L
  <2>1. ASSUME NEW x \in L PROVE \E p \in Lines!Places : \E n \in A[p] : x = << n, p >>
    <3>1. PICK p \in Lines!Places : \E l \in Lines!LinesAt(p) : x = << l.n, p >>
      BY DEF Lines!Located
    <3> QED
      BY <1>1, <3>1
  <2>2. ASSUME NEW p \in Lines!Places, NEW n \in A[p] PROVE << n, p >> \in L
    <3>1. PICK l \in Lines!LinesAt(p) : n = l.n
      BY <1>1
    <3> QED
      BY <3>1 DEF Lines!Located
  <2> QED
    BY <2>1, <2>2
<1> HIDE DEF L
<1>3. \A x, y \in L : x[1] = y[1] => x = y
  BY <1>1, <1>2 DEF Parted
<1>4. {x[1] : x \in L} = 1 .. count
  <2>1. ASSUME NEW n \in 1 .. count PROVE n \in {x[1] : x \in L}
    <3>1. PICK p \in Lines!Places : n \in A[p]
      BY <1>1 DEF Parted
    <3>2. << n, p >> \in L /\ << n, p >>[1] = n
      BY <1>2, <3>1
    <3> QED
      BY <3>2
  <2>2. ASSUME NEW x \in L PROVE x[1] \in 1 .. count
    BY <1>1, <1>2 DEF Parted
  <2> QED
    BY <2>1, <2>2
<1>5. Lines!LinesKept
  <2>1. /\ \A f \in DOMAIN files : Lines!Ascending(files[f]) /\ Lines!Before(files[f], log.buff)
        /\ \A f, g \in DOMAIN files : f < g => Lines!Before(files[f], files[g])
    BY DEF LinesInv, FilesOK, Filed
  <2>2. Lines!Ascending(log.buff) /\ Lines!Ascending(err)
    BY DEF LinesInv, CacheOK, ErrOK
  <2> QED
    BY <1>3, <1>4, <2>1, <2>2 DEF Lines!LinesKept, L
<1>6. Lines!KeptForDays
  BY DEF Lines!KeptForDays, LinesInv, DatesOK
<1>7. Lines!SizeAccount
  <2>1. C = Lines!Current
    BY DEF Lines!Current
  <2> QED
    BY <2>1 DEF Lines!SizeAccount, Lines!Size, LinesInv, SizeOK
<1> QED
  BY <1>5, <1>6, <1>7 DEF Lines!Sound
-----------------------------------------------------------------------------
(* The units side by side.                                                   *)

Inv ==
  /\ unit \in {"block", "alloc", "arena", "bytes", "lines"}
  /\ BlockInv /\ ArenaInv /\ BytesInv /\ LinesInv

\* The assumption names what the units need.
LEMMA Constants == BlockConstants /\ ArenaConstants /\ BytesConstants /\ LinesConstants
  BY SupportAssumption DEF BlockConstants, ArenaConstants, BytesConstants, LinesConstants

\* fast_mblock_init_ex2, fast_mpool_init, fast_buffer_init_ex and log_init establish it.
LEMMA InitInv == Init => Inv
  BY Constants, BlockStarts, ArenaStarts, BytesStarts, LinesStart DEF Init, Inv

\* What other units do leaves a unit's memory alone.
LEMMA Untouched ==
  ASSUME Inv
  PROVE  /\ UNCHANGED blockVars => BlockInv'
         /\ UNCHANGED arenaVars => ArenaInv'
         /\ UNCHANGED bytesVars => BytesInv'
         /\ UNCHANGED linesVars => LinesInv'
<1>1. ASSUME UNCHANGED blockVars PROVE BlockInv'
  BY <1>1 DEF Inv, blockVars, BlockInv
<1>2. ASSUME UNCHANGED arenaVars PROVE ArenaInv'
  BY <1>2 DEF Inv, arenaVars, ArenaInv
<1>3. ASSUME UNCHANGED bytesVars PROVE BytesInv'
  BY <1>3 DEF Inv, bytesVars, BytesInv, Ended
<1>4. ASSUME UNCHANGED linesVars PROVE LinesInv'
  BY <1>4, Constants, LinesNext DEF Inv
<1> QED
  BY <1>1, <1>2, <1>3, <1>4

\* The invariant is inductive.
LEMMA NextInv == Inv /\ [Next]_vars => Inv'
<1> SUFFICES ASSUME Inv, [Next]_vars PROVE Inv'
  OBVIOUS
<1>1. CASE BlockStep
  BY <1>1, Constants, BlockSteps, Untouched DEF BlockStep, Inv
<1>2. CASE ArenaStep
  BY <1>2, Constants, ArenaSteps, Untouched DEF ArenaStep, Inv
<1>3. CASE BytesStep
  BY <1>3, Constants, BytesSteps, Untouched DEF BytesStep, Inv
<1>4. CASE LinesStep
  BY <1>4, Constants, LinesNext, Untouched DEF LinesStep, Inv
<1>5. CASE AllocStep \/ UNCHANGED vars
  BY <1>5, Untouched DEF AllocStep, vars, Inv
<1> QED
  BY <1>1, <1>2, <1>3, <1>4, <1>5 DEF Next

\* Blocks of the arena never overlap and no trunk with room is forgotten; the
\* buffer holds what was appended, whatever its sizes are.
THEOREM ArenaAndBufferSound == Spec => []MpoolSound
<1>1. Inv => MpoolSound
  BY Constants, ArenaInvSound, BytesInvSound DEF Inv, MpoolSound
<1> QED
  BY <1>1, InitInv, NextInv, PTL DEF Spec

\* Every line logged is in one place, the files and the cache have the lines in
\* order, no file is deleted early and the size is never more than a cache behind,
\* whatever fails and whoever reopens, for any threads, sizes and days.
THEOREM LogKept == Spec => []LoggerSound
<1>1. Inv => LoggerSound
  BY Constants, LinesSound DEF Inv, LoggerSound
<1> QED
  BY <1>1, InitInv, NextInv, PTL DEF Spec

\* Every node of fast_mblock is in one place and its counters agree with
\* where the nodes are, for any number of trunks and nodes per trunk.
THEOREM NodesInOnePlace == Spec => [](unit = "block" => Block!Exact)
<1>1. Inv => (unit = "block" => Block!Exact)
  BY Constants, BlockInvExact DEF Inv
<1> QED
  BY <1>1, InitInv, NextInv, PTL DEF Spec

\* A node given back with fast_mblock_delay_free reaches no caller before its
\* delay is over, whatever delays are asked for.
THEOREM DelayedNeverEarly == Spec => MblockNeverEarly
<1> DEFINE OnTime == \A i \in DOMAIN pool.delayed :
             pool.delayed[i].node \in used' => pool.delayed[i].at <= blockNow
<1>1. Inv /\ [Next]_vars => [OnTime]_blockVars
  <2> SUFFICES ASSUME Inv, [Next]_vars PROVE OnTime \/ UNCHANGED blockVars
    OBVIOUS
  <2>1. CASE BlockStep
    BY <2>1, Constants, NotEarly DEF BlockStep, Inv
  <2>2. CASE ~ BlockStep
    BY <2>2 DEF Next, AllocStep, ArenaStep, BytesStep, LinesStep, vars
  <2> QED
    BY <2>1, <2>2
<1>2. Spec => [][OnTime]_blockVars
  BY <1>1, InitInv, NextInv, PTL DEF Spec
<1> QED
  BY <1>2 DEF MblockNeverEarly, Block!NeverEarly, Block!vars, blockVars
=============================================================================
