----------------------------- MODULE HashTable -----------------------------
(***************************************************************************)
(* hash.c of libfastcommon, used by one thread: buckets of chained         *)
(* entries, automatic rehashing by load factor, hash_best_op's search for  *)
(* a capacity without conflicts, and a limit on the bytes used.  Any       *)
(* allocation may fail.  Values are sequences of bytes; sizes are scaled   *)
(* down (Align for 8, SmallValue for 128).                                 *)
(***************************************************************************)
EXTENDS Integers, Sequences, FiniteSets, FiniteSetsExt, SequencesExt

CONSTANTS
  Keys,        \* integers; a key's hash code is its last two digits
  Values,      \* the values stored: non-empty sequences
  Limits,      \* the values of max_bytes tried; 0 for no limit
  MaxValue     \* bound: length of the values hash_partial_set makes

Primes     == << 1, 3, 17, 37 >>   \* the start of prime_array
Align      == 2
SmallValue == 2
PtrBytes   == 1
NodeBytes  == 3                    \* sizeof(HashData) + key_len
LoadFactor == 1

VARIABLES
  h,       \* the HashArray
  cfg,     \* max_bytes and is_malloc_value
  map      \* the value each key should have; << >> where it has none

vars == << h, cfg, map >>

HashOf(k)   == k % 100
MemAlign(n) == ((n + Align - 1) \div Align) * Align

Bucket(t, k) == HashOf(k) % t.cap
Chain(t, k)  == t.buckets[Bucket(t, k)]

Entries(t) == FlattenSeq([i \in 1..t.cap |-> t.buckets[i - 1]])

\* _chain_find_entry: << >> or the entry, in its bucket's chain.
FindEntry(t, k) == SelectSeq(Chain(t, k), LAMBDA e : e.key = k)

\* DELETE_FROM_BUCKET.
DeleteFromBucket(t, k) ==
  LET e == FindEntry(t, k)[1] IN
  [t EXCEPT !.buckets[Bucket(t, k)] = SelectSeq(@, LAMBDA x : x.key # k),
            !.count = @ - 1,
            !.bytes = @ - (NodeBytes + e.size)]

AddToBucket(t, e) ==
  [t EXCEPT !.buckets[Bucket(t, e.key)] = << e >> \o @, !.count = @ + 1]

Fits(bytes) == cfg.max = 0 \/ bytes <= cfg.max

-----------------------------------------------------------------------------
(* Rehashing.                                                              *)

\* Mutant: the bytes of the old buckets stay in the account.
RehashedNoCredit(t, cap) ==
  LET empty == [t EXCEPT !.cap = cap, !.count = 0,
                         !.buckets = [i \in 0..(cap - 1) |-> << >>],
                         !.bytes = @ + PtrBytes * cap]
  IN FoldSeq(LAMBDA e, u : AddToBucket(u, e), empty, Entries(t))

\* _rehash1 with the new buckets allocated.
Rehashed(t, cap) ==
  LET empty == [t EXCEPT !.cap = cap, !.count = 0,
                         !.buckets = [i \in 0..(cap - 1) |-> << >>],
                         !.bytes = @ + PtrBytes * cap - PtrBytes * t.cap]
  IN FoldSeq(LAMBDA e, u : AddToBucket(u, e), empty, Entries(t))

\* _hash_alloc_buckets tests the limit before the old buckets are credited.
CanAlloc(t, cap) == Fits(t.bytes + PtrBytes * cap)

\* hash_get_prime_capacity.
PrimeAbove(n) ==
  Primes[CHOOSE i \in DOMAIN Primes : Primes[i] > n /\ \A j \in 1..(i - 1) : Primes[j] <= n]

\* _rehash: the next prime, or the table as it was when that fails.
Rehash(t) ==
  {t} \cup (IF CanAlloc(t, PrimeAbove(t.cap))
            THEN {[Rehashed(t, PrimeAbove(t.cap)) EXCEPT !.mallocCap = FALSE]}
            ELSE {})

\* _hash_conflict_count is not 0: some bucket holds two hash codes.
Conflicted(t) ==
  \E i \in DOMAIN t.buckets :
    Cardinality({HashOf(t.buckets[i][j].key) : j \in DOMAIN t.buckets[i]}) > 1

NextCapacity(n) ==
  LET ok == {c \in (n + 2)..(n + 20) : (c - n) % 2 = 0 /\ \A p \in {3, 5, 7} : c % p # 0}
  IN CHOOSE c \in ok : \A d \in ok : c <= d

\* hash_best_op's loop: capacities until there is no conflict.  A failed
\* _rehash1 keeps the last capacity that worked, in the memory of the new one.
RECURSIVE BestOp(_, _)
BestOp(t, cap) ==
  LET next == NextCapacity(cap)
      done == Rehashed(t, next) IN
  {[t EXCEPT !.mallocCap = TRUE]} \cup
  IF ~CanAlloc(t, next) THEN {}
  ELSE IF Conflicted(done) THEN BestOp(done, next)
  ELSE {[done EXCEPT !.mallocCap = TRUE]}

\* The capacity the loop starts from.
FirstCapacity(t, suggest) ==
  IF suggest > 2 /\ suggest >= t.count
  THEN (suggest - 2) + (IF suggest % 2 = 0 THEN 1 ELSE 0)
  ELSE 2 * (t.count - 1) + 1

-----------------------------------------------------------------------------
(* Storing.                                                                *)

InPlace(t, k, v) ==
  [t EXCEPT !.buckets[Bucket(t, k)] =
     [i \in DOMAIN @ |-> IF @[i].key = k THEN [@[i] EXCEPT !.val = v] ELSE @[i]]]

\* Whether insert reuses the entry's memory: it must hold the value, and not be
\* large and half empty.
Reusable(e, v) ==
  ~cfg.mallocValue \/ (e.size >= Len(v) /\ (e.size <= SmallValue \/ e.size \div 2 < Len(v)))

\* hash_insert_ex: every table it may leave, and whether the value was stored.
\* An entry too small is deleted before the memory for the new one is there.
InsertEx(t, k, v) ==
  LET old  == FindEntry(t, k)
      size == IF cfg.mallocValue THEN MemAlign(Len(v)) ELSE 0
      base == IF old # << >> THEN DeleteFromBucket(t, k) ELSE t
      new  == AddToBucket([base EXCEPT !.bytes = @ + NodeBytes + size],
                          [key |-> k, val |-> v, size |-> size]) IN
  IF old # << >> /\ Reusable(old[1], v) THEN {[t |-> InPlace(t, k, v), ok |-> TRUE]}
  ELSE {[t |-> base, ok |-> FALSE]} \cup
       (IF ~Fits(base.bytes + NodeBytes + size) THEN {}
        ELSE {[t |-> u, ok |-> TRUE] :
                u \in IF new.count >= LoadFactor * new.cap THEN Rehash(new) ELSE {new}})

\* Old value with v written at offset off, by hash_partial_set.
Written(old, off, v) ==
  IF off + Len(v) <= Len(old)
  THEN [i \in 1..Len(old) |-> IF i \in (off + 1)..(off + Len(v)) THEN v[i - off] ELSE old[i]]
  ELSE SubSeq(old, 1, off) \o v

-----------------------------------------------------------------------------

\* hash_init_ex: max_bytes is set after the first buckets were allocated.
Fresh == [cap |-> PrimeAbove(0), mallocCap |-> FALSE, count |-> 0,
          buckets |-> [i \in 0..(PrimeAbove(0) - 1) |-> << >>],
          bytes |-> PtrBytes * PrimeAbove(0)]

Init ==
  /\ h = Fresh
  /\ cfg \in [max : Limits, mallocValue : BOOLEAN]
  /\ map = [k \in Keys |-> << >>]

\* A store that fails has lost the value that was there.
Store(k, v) ==
  /\ \E res \in InsertEx(h, k, v) :
       h' = res.t /\ map' = [map EXCEPT ![k] = IF res.ok THEN v ELSE << >>]
  /\ UNCHANGED cfg

\* hash_inc_ex with v what convert_func makes of the old value.
Inc(k, v) ==
  LET old == FindEntry(h, k) IN
  /\ IF old # << >> /\ (~cfg.mallocValue \/ old[1].size >= Len(v))
     THEN h' = InPlace(h, k, v) /\ map' = [map EXCEPT ![k] = v]
     ELSE \E res \in InsertEx(h, k, v) :
            h' = res.t /\ map' = [map EXCEPT ![k] = IF res.ok THEN v ELSE << >>]
  /\ UNCHANGED cfg

\* hash_partial_set, in a table that owns its values: in place, or through
\* insert with the value rebuilt; EINVAL and ENOENT leave all as it was.
PartialSet(k, off, v) ==
  LET old == FindEntry(h, k)
      new == IF old = << >> THEN v ELSE Written(old[1].val, off, v) IN
  /\ cfg.mallocValue
  /\ IF old = << >> THEN off = 0 ELSE off < Len(old[1].val)
  /\ Len(new) <= MaxValue
  /\ IF old # << >> /\ Len(new) = Len(old[1].val)
     THEN h' = InPlace(h, k, new) /\ map' = [map EXCEPT ![k] = new]
     ELSE \E res \in InsertEx(h, k, new) :
            h' = res.t /\ map' = [map EXCEPT ![k] = IF res.ok THEN new ELSE << >>]
  /\ UNCHANGED cfg

Delete(k) ==
  /\ FindEntry(h, k) # << >>
  /\ h' = DeleteFromBucket(h, k)
  /\ map' = [map EXCEPT ![k] = << >>]
  /\ UNCHANGED cfg

Optimise(suggest) ==
  /\ Conflicted(h)
  /\ h' \in BestOp(h, FirstCapacity(h, suggest))
  /\ UNCHANGED << cfg, map >>

\* hash_destroy, and hash_init_ex again.
Restart == h' = Fresh /\ map' = [k \in Keys |-> << >>] /\ UNCHANGED cfg

Next ==
  \/ \E k \in Keys, v \in Values : Store(k, v) \/ Inc(k, v)
  \/ \E k \in Keys, v \in Values, off \in 0..MaxValue : PartialSet(k, off, v)
  \/ \E k \in Keys : Delete(k)
  \/ \E suggest \in {0, 12} : Optimise(suggest)
  \/ Restart

Spec == Init /\ [][Next]_vars

-----------------------------------------------------------------------------

\* Whatever was rehashed, replaced or refused: every entry is in the bucket its
\* hash code selects, no key has two, a lookup gives the last value stored, and
\* item_count and bytes_used are what the table holds, within max_bytes.
Sound ==
  LET E == Entries(h) IN
  /\ \A k \in Keys :
       LET found == FindEntry(h, k) IN
         IF map[k] = << >> THEN found = << >> ELSE Len(found) = 1 /\ found[1].val = map[k]
  /\ Len(E) = Cardinality({k \in Keys : map[k] # << >>})
  /\ h.count = Len(E)
  /\ h.bytes = PtrBytes * h.cap + FoldSeq(LAMBDA e, n : n + NodeBytes + e.size, 0, E)
  /\ Fits(h.bytes)
  /\ \A i \in DOMAIN E : cfg.mallocValue => Len(E[i].val) <= E[i].size

=============================================================================
