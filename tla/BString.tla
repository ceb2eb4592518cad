------------------------------ MODULE BString ------------------------------
(***************************************************************************)
(* bstrlib.c: strings with a length, edited in place.  A bstring is its    *)
(* memory, indexed from 0, mlen and slen.  What a call gives as its source *)
(* may be part of the string itself, so that the source is the text before *)
(* the call.  Characters are small integers; memory is always available.   *)
(***************************************************************************)
EXTENDS Integers, Sequences, FiniteSets, SequencesExt

CONSTANTS
  Chars,       \* the characters
  Space,       \* the one that isspace accepts
  Words,       \* strings from outside that calls are given
  MinSize,     \* the least size snapUpSize gives (8)
  ReadStep,    \* breada: what is read first (16)
  ReadMost,    \* and the most by which that grows (BS_BUFF_SZ)
  MaxLen       \* bound: characters in the string

NUL     == 0
Garbage == -1      \* what is in memory that nothing has written
Err     == -1      \* BSTR_ERR

VARIABLES
  b,       \* the bstring
  want     \* the text it should hold

vars == << b, want >>

MaxOf(x, y) == IF x > y THEN x ELSE y
MinOf(x, y) == IF x < y THEN x ELSE y

-----------------------------------------------------------------------------
(* Memory.                                                                 *)

At(m, i) == IF i \in DOMAIN m THEN m[i] ELSE Garbage

\* Writing past the end is possible, and makes the memory larger than mlen.
Write(m, at, s) ==
  [i \in DOMAIN m \cup at..(at + Len(s) - 1) |->
     IF i \in at..(at + Len(s) - 1) THEN s[i - at + 1] ELSE m[i]]
Move(m, to, from, n) == Write(m, to, [i \in 1..n |-> At(m, from + i - 1)])

Text(x) == [i \in 1..x.slen |-> x.mem[i - 1]]

\* The length is set and a terminator written behind it.
Ended(x, m, n) == [x EXCEPT !.mem = Write(m, n, << NUL >>), !.slen = n]

\* Nothing may depend on what is behind the terminator.
Forgotten(x) == [x EXCEPT !.mem = [i \in DOMAIN @ |-> IF i <= x.slen THEN @[i] ELSE Garbage]]

RECURSIVE PowerAbove(_, _)
PowerAbove(p, i) == IF p > i THEN p ELSE PowerAbove(2 * p, i)
SnapUpSize(i) == IF i < MinSize THEN MinSize ELSE PowerAbove(1, i)

Resized(x, n) ==
  Ended([x EXCEPT !.mlen = n],
        [i \in 0..(n - 1) |-> IF i < x.slen THEN x.mem[i] ELSE Garbage], x.slen)

Balloc(x, olen) ==
  IF olen < x.mlen \/ SnapUpSize(olen) <= x.mlen THEN x ELSE Resized(x, SnapUpSize(olen))

Ballocmin(x, len) == Resized(x, MaxOf(len, x.slen + 1))

-----------------------------------------------------------------------------
(* Appending and assigning.                                                *)

\* Mutant: room for the text and not for its terminator.
BcatblkTight(x, s) ==
  LET nl == x.slen + Len(s)
      g  == IF x.mlen < nl THEN Balloc(x, nl + 1) ELSE x
  IN Ended(g, Write(g.mem, x.slen, s), nl)

Bcatblk(x, s) ==
  LET nl == x.slen + Len(s)
      g  == IF x.mlen <= nl THEN Balloc(x, nl + 1) ELSE x
  IN Ended(g, Write(g.mem, x.slen, s), nl)

Bconcat(x, s) ==
  LET n == x.slen + Len(s)
      g == IF x.mlen <= n + 1 THEN Balloc(x, n + 1) ELSE x
  IN Ended(g, Write(g.mem, x.slen, s), n)

Bconchar(x, c) ==
  LET g == Balloc(x, x.slen + 2) IN Ended(g, Write(g.mem, x.slen, << c >>), x.slen + 1)

\* As much as fits is copied before anything is allocated.
Bcatcstr(x, s) ==
  LET room == x.mlen - x.slen IN
  IF Len(s) < room THEN Ended(x, Write(x.mem, x.slen, s), x.slen + Len(s))
  ELSE Bcatblk([x EXCEPT !.mem = Write(@, x.slen, SubSeq(s, 1, room)), !.slen = x.mlen],
               SubSeq(s, room + 1, Len(s)))

Bassign(x, s) ==
  LET g == IF s = << >> THEN x ELSE Balloc(x, Len(s)) IN Ended(g, Write(g.mem, 0, s), Len(s))

\* bmidstr clamps in the same way.
Clamped(s, left, len) ==
  LET l == MaxOf(left, 0)
      n == MinOf(IF left < 0 THEN len + left ELSE len, Len(s) - l)
  IN SubSeq(s, l + 1, l + n)

Bassignmidstr(x, s, left, len) == Bassign(x, Clamped(s, left, len))

Bassigncstr(x, s) ==
  IF Len(s) < x.mlen THEN Ended(x, Write(x.mem, 0, s), Len(s))
  ELSE LET full == [x EXCEPT !.mem = Write(@, 0, SubSeq(s, 1, x.mlen)), !.slen = x.mlen]
           g    == Balloc(full, Len(s) + 1)
       IN Ended(g, Write(g.mem, x.mlen, SubSeq(s, x.mlen + 1, Len(s))), Len(s))

Bassignblk(x, s) ==
  LET g == IF Len(s) + 1 > x.mlen THEN Balloc(x, Len(s) + 1) ELSE x
  IN Ended(g, Write(g.mem, 0, s), Len(s))

-----------------------------------------------------------------------------
(* Reading from a source of characters q.                                  *)

\* bgetsa and bassigngets: character by character from d on, up to the
\* terminator c.  e: the last place that can be written without allocating.
RECURSIVE Getting(_, _, _, _, _)
Getting(x, d, e, q, c) ==
  IF q = << >> THEN Ended(x, x.mem, d)
  ELSE LET g == IF d > e THEN Balloc([x EXCEPT !.slen = d], d + 2) ELSE x
           y == [g EXCEPT !.mem = Write(@, d, << Head(q) >>)]
       IN IF Head(q) = c THEN Ended(y, y.mem, d + 1)
          ELSE Getting(y, d + 1, IF d > e THEN g.mlen - 2 ELSE e, Tail(q), c)

Bgetsa(x, q, c)      == Getting(x, x.slen, x.mlen - 2, q, c)
Bassigngets(x, q, c) == Getting(x, 0, x.mlen - 2, q, c)

\* breada: until a read is short.
RECURSIVE Reading(_, _, _)
Reading(x, n, q) ==
  LET g == Balloc(x, n + 1)
      l == MinOf(n - x.slen, Len(q))
      y == [g EXCEPT !.mem = Write(@, x.slen, SubSeq(q, 1, l)), !.slen = x.slen + l]
  IN IF y.slen < n THEN Ended(y, y.mem, y.slen)
     ELSE Reading(y, n + MinOf(n, ReadMost), SubSeq(q, l + 1, Len(q)))

Breada(x, q) == Reading(x, x.slen + ReadStep, q)

-----------------------------------------------------------------------------
(* Cutting.                                                                *)

Btrunc(x, n) == IF x.slen > n THEN Ended(x, x.mem, n) ELSE x

Bdelete(x, pos0, len0) ==
  LET pos == MaxOf(pos0, 0)
      len == IF pos0 < 0 THEN len0 + pos0 ELSE len0 IN
  CASE len <= 0 \/ pos >= x.slen -> x
    [] len > 0 /\ pos + len >= x.slen /\ pos < x.slen -> Ended(x, x.mem, pos)
    [] OTHER -> Ended(x, Move(x.mem, pos, pos + len, x.slen - (pos + len)), x.slen - len)

Solid(x) == {i \in 0..(x.slen - 1) : x.mem[i] # Space}
First(S) == CHOOSE i \in S : \A j \in S : i <= j
Final(S) == CHOOSE i \in S : \A j \in S : i >= j

Bltrimws(x) == IF Solid(x) = {} THEN Ended(x, x.mem, 0) ELSE Bdelete(x, 0, First(Solid(x)))
Brtrimws(x) == Ended(x, x.mem, IF Solid(x) = {} THEN 0 ELSE Final(Solid(x)) + 1)
Btrimws(x)  == IF Solid(x) = {} THEN Ended(x, x.mem, 0)
               ELSE Bdelete(Brtrimws(x), 0, First(Solid(x)))

-----------------------------------------------------------------------------
(* Overwriting, inserting and replacing.                                   *)

Filled(m, from, to, c) == Write(m, from, [i \in 1..(to - from) |-> c])

Bsetstr(x, pos, s, fill) ==
  LET d == pos + Len(s)
      g == Balloc(x, d + 1)
      m == IF pos > x.slen THEN Filled(g.mem, x.slen, pos, fill) ELSE g.mem
  IN Ended(g, Write(m, pos, s), MaxOf(d, MaxOf(pos, x.slen)))

Binsertblk(x, pos, s, fill) ==
  LET d == x.slen + Len(s)
      l == pos + Len(s)
      g == Balloc(x, MaxOf(l, d) + 1)
      m == IF l > d THEN Filled(g.mem, x.slen, pos, fill) ELSE Move(g.mem, l, pos, d - l)
  IN Ended(g, Write(m, pos, s), MaxOf(l, d))

Breplace(x, pos, len, s, fill) ==
  IF pos + len >= x.slen
  THEN LET y == Bsetstr(x, pos, s, fill)
       IN IF pos + Len(s) < y.slen THEN Ended(y, y.mem, pos + Len(s)) ELSE y
  ELSE LET g == IF Len(s) > len THEN Balloc(x, x.slen + Len(s) - len) ELSE x
           m == IF Len(s) = len THEN g.mem
                ELSE Move(g.mem, pos + Len(s), pos + len, x.slen - (pos + len))
       IN Ended(g, Write(m, pos, s), x.slen + Len(s) - len)

Binsertch(x, pos, len, fill) ==
  LET d == x.slen + len
      l == pos + len
      g == Balloc(x, MaxOf(l, d) + 1)
      m == IF l > d THEN g.mem ELSE Move(g.mem, l, pos, d - l)
  IN Ended(g, Filled(m, IF l > d THEN x.slen ELSE pos, l, fill), MaxOf(l, d))

Bpattern(x, len) ==
  LET g == Balloc(x, len + 1) IN
  IF len > 0 /\ x.slen = 1 THEN Bsetstr(g, len, << >>, g.mem[0])
  ELSE Ended(g, [i \in DOMAIN g.mem |-> IF i \in x.slen..(len - 1) THEN g.mem[i % x.slen] ELSE g.mem[i]], len)

-----------------------------------------------------------------------------
(* Searching: positions from 0, Err for none.                              *)

\* binstr's loop, two characters at a time: i in b1, j in b2, ii the start of
\* the match if there is no gap in it.
RECURSIVE BinstrLoop(_, _, _, _, _)
BinstrLoop(s, f, i, j, ii) ==
  LET lf   == Len(s) - 1
      c(k) == f[k + 1]
      d(k) == s[k + 1]
      N0(k, n, start) == IF k = start + n THEN start ELSE BinstrLoop(s, f, k - n, 0, start)
  IN IF i < lf
     THEN IF c(j) # d(i) /\ c(j) # d(i + 1) THEN BinstrLoop(s, f, i + 2, j, ii)
          ELSE LET at    == IF c(j) = d(i) THEN i ELSE i + 1
                   start == IF j = 0 THEN at ELSE ii
               IN IF j + 1 < Len(f) THEN BinstrLoop(s, f, at + 1, j + 1, start)
                  ELSE N0(at + 1, j + 1, start)
     ELSE IF i = lf /\ Len(f) = j + 1 /\ c(j) = d(i) THEN N0(i, j, ii) ELSE Err

Binstr(s, pos, f) ==
  CASE pos > Len(s) \/ pos < 0 \/ (pos = Len(s) /\ f # << >>) -> Err
    [] f = << >> /\ pos \in 0..Len(s) -> pos
    [] f # << >> /\ pos \in 0..(Len(s) - 1) /\ Len(s) - Len(f) + 1 <= pos -> Err
    [] Len(f) = 1 /\ pos \in 0..(Len(s) - 1) ->
         LET P == {i \in pos..(Len(s) - 1) : s[i + 1] = f[1]}
         IN IF P = {} THEN Err ELSE First(P)
    [] OTHER -> BinstrLoop(s, f, pos, 0, -1)

\* binstrr's loop.
RECURSIVE BinstrrLoop(_, _, _, _)
BinstrrLoop(s, f, i, j) ==
  IF f[j + 1] = s[i + j + 1]
  THEN IF j + 1 >= Len(f) THEN i ELSE BinstrrLoop(s, f, i, j + 1)
  ELSE IF i = 0 THEN Err ELSE BinstrrLoop(s, f, i - 1, 0)

Binstrr(s, pos, f) ==
  CASE pos > Len(s) \/ pos < 0 -> Err
    [] f = << >> /\ pos \in 0..Len(s) -> pos
    [] f # << >> /\ Len(s) < Len(f) /\ pos \in 0..Len(s) -> Err
    [] OTHER -> BinstrrLoop(s, f, MinOf(pos, Len(s) - Len(f)), 0)

-----------------------------------------------------------------------------
(* findreplaceengine.                                                      *)

RECURSIVE ReplaceSame(_, _, _, _), ReplaceShorter(_, _, _, _, _), Matches(_, _, _)

ReplaceSame(x, f, r, pos) ==
  LET i == Binstr(Text(x), pos, f) IN
  IF i = Err THEN x ELSE ReplaceSame([x EXCEPT !.mem = Write(@, i, r)], f, r, i + Len(f))

\* acc: how far what follows has moved to the left.  The search goes on in the
\* string that is being changed.
ReplaceShorter(x, f, r, pos, acc) ==
  LET i == Binstr(Text(x), pos, f)
      m == Move(x.mem, pos - acc, pos, i - pos) IN
  IF i = Err
  THEN Ended(x, Move(x.mem, pos - acc, pos, MaxOf(x.slen - pos, 0)), x.slen - acc)
  ELSE ReplaceShorter([x EXCEPT !.mem = Write(m, i - acc, r)], f, r, i + Len(f),
                      acc + Len(f) - Len(r))

Matches(s, f, pos) ==
  LET i == Binstr(s, pos, f) IN
  IF i = Err THEN << >> ELSE << i >> \o Matches(s, f, i + Len(f))

\* All matches are found first; then the pieces move, from the last to the
\* first.
ReplaceLonger(x, f, r, pos) ==
  LET d     == Append(Matches(Text(x), f, pos), x.slen)
      n     == Len(d) - 1
      delta == Len(r) - Len(f)
      g     == Balloc(x, x.slen + n * delta + 1)
      step(m, k) ==
        LET i   == n + 1 - k
            acc == i * delta
            s   == d[i] + Len(f)
        IN Write(Move(m, s + acc, s, d[i + 1] - s), s + acc - Len(r), r)
  IN Ended(g, FoldLeft(step, g.mem, [k \in 1..n |-> k]), x.slen + n * delta)

Bfindreplace(x, f, r, pos) ==
  CASE pos > x.slen - Len(f)  -> x
    [] pos <= x.slen - Len(f) /\ Len(f) = Len(r) -> ReplaceSame(x, f, r, pos)
    [] pos <= x.slen - Len(f) /\ Len(f) > Len(r) -> ReplaceShorter(x, f, r, pos, 0)
    [] OTHER -> ReplaceLonger(x, f, r, pos)

-----------------------------------------------------------------------------
(* Splitting and joining.                                                  *)

\* bsplitcb and bsplitscb, at any of the characters of S.
RECURSIVE Bsplits(_, _, _)
Bsplits(s, S, p) ==
  LET P == {i \in p..(Len(s) - 1) : s[i + 1] \in S}
      i == IF P = {} THEN Len(s) ELSE First(P)
  IN << SubSeq(s, p + 1, i) >> \o (IF i + 1 <= Len(s) THEN Bsplits(s, S, i + 1) ELSE << >>)

\* bsplitstrcb, at the whole of f, of two characters or more.  After a match
\* both the body and the head of the loop move i.
RECURSIVE Bsplitstr(_, _, _, _)
Bsplitstr(s, f, i, p) ==
  IF i > Len(s) - Len(f) THEN << SubSeq(s, p + 1, Len(s)) >>
  ELSE IF SubSeq(s, i + 1, i + Len(f)) = f
       THEN << SubSeq(s, p + 1, i) >> \o Bsplitstr(s, f, i + Len(f) + 1, i + Len(f))
       ELSE Bsplitstr(s, f, i + 1, p)

Bjoin(list, sep) ==
  FoldLeft(LAMBDA s, e : s \o sep \o e, list[1], Tail(list))

-----------------------------------------------------------------------------
(* What the calls should do to the text w.                                 *)

Padded(w, n, c)  == w \o [i \in 1..MaxOf(n - Len(w), 0) |-> c]
UpTo(w, n)       == SubSeq(w, 1, MinOf(n, Len(w)))
Rest(w, n)       == SubSeq(w, MaxOf(n, 0) + 1, Len(w))
Inserted(w, pos, s, c) == UpTo(Padded(w, pos, c), pos) \o s \o Rest(w, pos)
Overlaid(w, pos, s, c) == UpTo(Padded(w, pos, c), pos) \o s \o Rest(w, pos + Len(s))
Replaced(w, pos, len, s, c) == UpTo(Padded(w, pos, c), pos) \o s \o Rest(w, pos + len)
IsAt(w, f, i)    == i + Len(f) <= Len(w) /\ SubSeq(w, i + 1, i + Len(f)) = f

ThroughFirst(s, c) ==
  LET P == {i \in DOMAIN s : s[i] = c} IN IF P = {} THEN s ELSE UpTo(s, First(P))

RECURSIVE AllReplaced(_, _, _, _)
AllReplaced(w, f, r, i) ==
  IF i > Len(w) - Len(f) THEN w
  ELSE IF IsAt(w, f, i) THEN AllReplaced(UpTo(w, i) \o r \o Rest(w, i + Len(f)), f, r, i + Len(r))
  ELSE AllReplaced(w, f, r, i + 1)

-----------------------------------------------------------------------------

Init == \* bfromcstr("")
  /\ b = [mem |-> [i \in 0..(MinSize - 1) |-> IF i = 0 THEN NUL ELSE Garbage],
          mlen |-> MinSize, slen |-> 0]
  /\ want = << >>

Becomes(x, w) ==
  /\ Len(w) <= MaxLen
  /\ b' = Forgotten(x)
  /\ want' = w

\* A call's source: a string from outside, or a part of b itself.
Sources == Words \cup {SubSeq(want, i, j) : i, j \in DOMAIN want}

Append_(s) ==
  \/ Becomes(Bconcat(b, s), want \o s)
  \/ Becomes(Bcatblk(b, s), want \o s)
  \/ Becomes(Bcatcstr(b, s), want \o s)
  \/ \E c \in Chars : Becomes(Bconchar(b, c), Append(want, c))

Get(s) ==
  \/ Becomes(Breada(b, s), want \o s)
  \/ \E c \in Chars :
       \/ Becomes(Bgetsa(b, s, c), want \o ThroughFirst(s, c))
       \/ Becomes(Bassigngets(b, s, c), ThroughFirst(s, c))

Assign(s) ==
  \/ Becomes(Bassign(b, s), s)
  \/ Becomes(Bassigncstr(b, s), s)
  \/ Becomes(Bassignblk(b, s), s)
  \/ \E left \in -1..3, len \in 0..3 :
       Becomes(Bassignmidstr(b, s, left, len), UpTo(Rest(s, left), MinOf(len, len + left)))

Cut ==
  \/ \E n \in 0..MaxLen : Becomes(Btrunc(b, n), UpTo(want, n))
  \/ \E pos \in -2..MaxLen, len \in 0..MaxLen :
       /\ pos + len >= 0
       /\ Becomes(Bdelete(b, pos, len), UpTo(want, MaxOf(pos, 0)) \o Rest(want, pos + len))
  \/ Becomes(Bltrimws(b), SubSeq(want, Min({i \in DOMAIN want : want[i] # Space} \cup {Len(want) + 1}), Len(want)))
  \/ Becomes(Brtrimws(b), UpTo(want, Max({i \in DOMAIN want : want[i] # Space} \cup {0})))
  \/ LET S == {i \in DOMAIN want : want[i] # Space}
     IN Becomes(Btrimws(b), IF S = {} THEN << >> ELSE SubSeq(want, Min(S), Max(S)))

Edit(s) ==
  \/ \E pos \in 0..MaxLen, c \in Chars :
       \/ Becomes(Bsetstr(b, pos, s, c), Overlaid(want, pos, s, c))
       \/ Becomes(Binsertblk(b, pos, s, c), Inserted(want, pos, s, c))
       \/ \E len \in 0..MaxLen :
            \/ Becomes(Breplace(b, pos, len, s, c), Replaced(want, pos, len, s, c))
            \/ Becomes(Binsertch(b, pos, len, c),
                       Inserted(want, pos, [i \in 1..len |-> c], c))
  \/ \E len \in 0..MaxLen :
       /\ want # << >>
       /\ Becomes(Bpattern(b, len), [i \in 1..len |-> want[((i - 1) % Len(want)) + 1]])
  \/ \E f \in Words \ {<< >>}, pos \in 0..2 :
       Becomes(Bfindreplace(b, f, s, pos), AllReplaced(want, f, s, pos))

\* balloc and ballocmin by themselves.
Resize ==
  \E n \in 1..MaxLen : b' = Forgotten(Balloc(b, n)) \/ b' = Forgotten(Ballocmin(b, n))

Next ==
  \/ \E s \in Sources : Append_(s) \/ Get(s) \/ Assign(s) \/ Edit(s)
  \/ Cut
  \/ Resize /\ UNCHANGED want

Spec == Init /\ [][Next]_vars

-----------------------------------------------------------------------------

\* Whatever the call, its arguments and the room there was: the string is the
\* text it should be, terminated, and nothing was written past its memory.
Edited ==
  /\ b.slen < b.mlen /\ DOMAIN b.mem = 0..(b.mlen - 1)
  /\ Text(b) = want /\ b.mem[b.slen] = NUL

\* The searches find the first occurrence from pos on, or the last up to it.
Searched ==
  \A f \in Words : \A pos \in 0..Len(want) :
    LET P == {i \in pos..Len(want) : IsAt(want, f, i)}
        Q == {i \in 0..pos : IsAt(want, f, i)} IN
    /\ Binstr(want, pos, f) = (IF P = {} THEN Err ELSE First(P))
    /\ f # << >> => Binstrr(want, pos, f) = (IF Q = {} THEN Err ELSE Final(Q))

\* Joining with the separator undoes a split, and the pieces of a split at
\* characters have none of them.
SplitsJoin ==
  /\ \A c \in Chars :
       /\ Bjoin(Bsplits(want, {c}, 0), << c >>) = want
       /\ \A i \in DOMAIN Bsplits(want, {c}, 0) : ~Contains(Bsplits(want, {c}, 0)[i], c)
  /\ \A f \in Words : Len(f) > 1 => Bjoin(Bsplitstr(want, f, 0, 0), f) = want

Sound == Edited /\ Searched /\ SplitsJoin

\* "Create an array of sequential substrings from str divided by the entire
\* substring splitStr": no separator is left in a piece.
SplitsAtEvery ==
  \A f \in Words : Len(f) > 1 =>
    \A i \in DOMAIN Bsplitstr(want, f, 0, 0) :
      \A k \in 0..MaxLen : ~IsAt(Bsplitstr(want, f, 0, 0)[i], f, k)

=============================================================================
