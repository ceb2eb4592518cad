-------------------------------- MODULE Utf8 --------------------------------
(***************************************************************************)
(* utf8.h.  A string is a sequence of bytes without its terminator, which  *)
(* At reads behind them; a position is an index, and 0 stands for null.    *)
(***************************************************************************)
EXTENDS Integers, Sequences, SequencesExt, FiniteSets

CONSTANT Room0     \* bytes that utstring_init reserves (100 in the code)

At(s, i) == IF i <= Len(s) THEN s[i] ELSE 0
IsCont(c) == c \div 64 = 2                    \* 0b10xxxxxx

\* The length its first byte announces.
Lead(c) == CASE c \div 8 = 30 -> 4 [] c \div 16 = 14 -> 3 [] c \div 32 = 6 -> 2 [] OTHER -> 1

\* do { p++; } while (0x80 == (0xc0 & *p))
RECURSIVE NextStart(_, _)
NextStart(s, p) == IF IsCont(At(s, p + 1)) THEN NextStart(s, p + 1) ELSE p + 1

-----------------------------------------------------------------------------
(* Code points *)

\* utf8codepoint: the code point at p, and the place behind it.  A char is
\* signed.
Codepoint(s, p) ==
  LET c == At(s, p)
      low(k) == At(s, p + k) % 64
  IN CASE Lead(c) = 4 -> [cp |-> (c % 8) * 262144 + low(1) * 4096 + low(2) * 64 + low(3), next |-> p + 4]
       [] Lead(c) = 3 -> [cp |-> (c % 16) * 4096 + low(1) * 64 + low(2), next |-> p + 3]
       [] Lead(c) = 2 -> [cp |-> (c % 32) * 64 + low(1), next |-> p + 2]
       [] OTHER -> [cp |-> IF c < 128 THEN c ELSE c - 256, next |-> p + 1]

\* utf8codepointsize.
CodepointSize(cp) == CASE cp \in 0..127 -> 1 [] cp \in 128..2047 -> 2 [] cp \in 2048..65535 -> 3 [] OTHER -> 4

\* The bytes utf8catcodepoint, utf8chr and utf8rchr write for a code point.
BytesOf(cp) ==
  CASE CodepointSize(cp) = 1 -> << cp >>
    [] CodepointSize(cp) = 2 -> << 192 + cp \div 64, 128 + (cp % 64) >>
    [] CodepointSize(cp) = 3 -> << 224 + cp \div 4096, 128 + ((cp \div 64) % 64), 128 + (cp % 64) >>
    [] OTHER -> << 240 + cp \div 262144, 128 + ((cp \div 4096) % 64), 128 + ((cp \div 64) % 64), 128 + (cp % 64) >>

\* utf8catcodepoint at the end of s, with n bytes left: null leaves it alone.
CatCodepoint(s, cp, n) == IF n < CodepointSize(cp) THEN s ELSE s \o BytesOf(cp)

\* The pairs of the switches of utf8lwrcodepoint and utf8uprcodepoint.
CasePairs ==
  {<< 376, 255 >>, << 579, 384 >>, << 398, 477 >>, << 573, 410 >>, << 544, 414 >>, << 439, 658 >>,
   << 452, 454 >>, << 455, 457 >>, << 458, 460 >>, << 497, 499 >>, << 503, 447 >>, << 391, 392 >>,
   << 395, 396 >>, << 401, 402 >>, << 408, 409 >>, << 423, 424 >>, << 428, 429 >>, << 431, 432 >>,
   << 440, 441 >>, << 444, 445 >>, << 500, 501 >>, << 571, 572 >>, << 577, 578 >>, << 1021, 891 >>,
   << 1022, 892 >>, << 1023, 893 >>, << 895, 1011 >>, << 902, 940 >>, << 904, 941 >>, << 905, 942 >>,
   << 906, 943 >>, << 908, 972 >>, << 910, 973 >>, << 911, 974 >>, << 880, 881 >>, << 882, 883 >>,
   << 886, 887 >>, << 1012, 977 >>, << 975, 983 >>, << 1017, 1010 >>, << 1015, 1016 >>, << 1018, 1019 >>}

ByAddition == 65..90 \cup 192..214 \cup 216..222 \cup 913..929 \cup 931..939
EvenUpper == 256..303 \cup 306..311 \cup 330..375 \cup 386..389 \cup 416..421 \cup 478..495
             \cup 504..543 \cup 546..563 \cup 582..591 \cup 984..1007
OddUpper == 313..328 \cup 377..382 \cup 431..432 \cup 435..438 \cup 461..476

\* Mutant: the odd ones are treated as the even ones are.
LwrCodepointEven(cp) ==
  CASE cp \in ByAddition -> cp + 32
    [] cp \in EvenUpper \cup OddUpper -> 2 * (cp \div 2) + 1
    [] \E p \in CasePairs : p[1] = cp -> (CHOOSE p \in CasePairs : p[1] = cp)[2]
    [] OTHER -> cp

\* utf8lwrcodepoint.
LwrCodepoint(cp) ==
  CASE cp \in ByAddition -> cp + 32
    [] cp \in EvenUpper -> 2 * (cp \div 2) + 1
    [] cp \in OddUpper -> 2 * ((cp + 1) \div 2)
    [] \E p \in CasePairs : p[1] = cp -> (CHOOSE p \in CasePairs : p[1] = cp)[2]
    [] OTHER -> cp

\* utf8uprcodepoint.
UprCodepoint(cp) ==
  CASE cp - 32 \in ByAddition -> cp - 32
    [] cp \in EvenUpper -> 2 * (cp \div 2)
    [] cp \in OddUpper -> 2 * ((cp - 1) \div 2) + 1
    [] \E p \in CasePairs : p[2] = cp -> (CHOOSE p \in CasePairs : p[2] = cp)[1]
    [] OTHER -> cp

\* Put over what is at p, as utf8lwr and utf8upr do.
PutAt(s, p, bytes) == [i \in DOMAIN s |-> IF i \in p..(p + Len(bytes) - 1) THEN bytes[i - p + 1] ELSE s[i]]

\* utf8lwr and utf8upr.
RECURSIVE LwrFrom(_, _)
LwrFrom(s, p) ==
  LET c == Codepoint(s, p) IN
  IF c.cp = 0 THEN s
  ELSE LwrFrom(IF LwrCodepoint(c.cp) # c.cp THEN PutAt(s, p, BytesOf(LwrCodepoint(c.cp))) ELSE s, c.next)
RECURSIVE UprFrom(_, _)
UprFrom(s, p) ==
  LET c == Codepoint(s, p) IN
  IF c.cp = 0 THEN s
  ELSE UprFrom(IF UprCodepoint(c.cp) # c.cp THEN PutAt(s, p, BytesOf(UprCodepoint(c.cp))) ELSE s, c.next)

-----------------------------------------------------------------------------
(* Lengths and validity *)

\* utf8len.
RECURSIVE LenFrom(_, _)
LenFrom(s, p) == IF At(s, p) = 0 THEN 0 ELSE 1 + LenFrom(s, p + Lead(At(s, p)))

\* utf8valid: 0, or the place of the first code point that is not valid: one cut
\* short, one that goes on, one that a shorter encoding has, or a stray byte.
RECURSIVE ValidFrom(_, _)
ValidFrom(s, p) ==
  LET c == At(s, p)
      n == Lead(c)
      overlong == CASE n = 4 -> c % 8 = 0 /\ (At(s, p + 1) \div 16) % 4 = 0
                    [] n = 3 -> c % 16 = 0 /\ (At(s, p + 1) \div 32) % 2 = 0
                    [] n = 2 -> (c \div 2) % 16 = 0
                    [] OTHER -> FALSE
  IN CASE c = 0 -> 0
       [] n = 1 /\ c > 127 -> p
       [] n > 1 /\ ((\E k \in 1..(n - 1) : ~IsCont(At(s, p + k))) \/ IsCont(At(s, p + n)) \/ overlong) -> p
       [] OTHER -> ValidFrom(s, p + n)

-----------------------------------------------------------------------------
(* Copies *)

\* utf8ncpy: n bytes, filled up with terminators.
Ncpy(s, n) == [i \in 1..n |-> At(s, i)]

\* utf8ndup.
Ndup(s, n) == SubSeq(s, 1, IF n < Len(s) THEN n ELSE Len(s))

\* utf8ncat, of a string with something in it: the first byte is copied before
\* n is looked at.
RECURSIVE NcatFrom(_, _, _)
NcatFrom(s, p, n) ==
  << s[p] >> \o (IF At(s, p + 1) # 0 /\ n - 1 # 0 THEN NcatFrom(s, p + 1, n - 1) ELSE << >>)

-----------------------------------------------------------------------------
(* Comparisons *)

\* utf8cmp (n < 0) and utf8ncmp.
RECURSIVE CmpFrom(_, _, _, _)
CmpFrom(s, t, p, n) ==
  CASE n = 0 \/ (At(s, p) = 0 /\ At(t, p) = 0) -> 0
    [] n # 0 /\ At(s, p) < At(t, p) -> -1
    [] n # 0 /\ At(s, p) > At(t, p) -> 1
    [] OTHER -> CmpFrom(s, t, p + 1, n - 1)

Sign(a, b) == CASE a < b -> -1 [] a > b -> 1 [] OTHER -> 0

\* utf8casecmp: code points that differ are compared as they were written.
RECURSIVE CasecmpFrom(_, _, _, _)
CasecmpFrom(s, t, p, q) ==
  LET a == Codepoint(s, p)
      b == Codepoint(t, q)
  IN CASE a.cp = 0 /\ b.cp = 0 -> 0
       [] LwrCodepoint(a.cp) = LwrCodepoint(b.cp) -> CasecmpFrom(s, t, a.next, b.next)
       [] OTHER -> Sign(a.cp, b.cp)

\* utf8ncasecmp: a code point that n cuts is compared by the bits of its first
\* byte that give its length.
RECURSIVE NcasecmpFrom(_, _, _, _, _)
NcasecmpFrom(s, t, p, q, n) ==
  LET a == Codepoint(s, p)
      b == Codepoint(t, q)
      lead(k) == Lead(At(s, p)) = k \/ Lead(At(t, q)) = k
      mask(c, m) == (c \div m) * m
  IN CASE n <= 0 -> 0
       [] n = 1 /\ lead(2) -> Sign(mask(At(s, p), 32), mask(At(t, q), 32))
       [] n \in 1..2 /\ lead(3) -> Sign(mask(At(s, p), 16), mask(At(t, q), 16))
       [] n \in 1..3 /\ lead(4) -> Sign(mask(At(s, p), 8), mask(At(t, q), 8))
       [] a.cp = 0 /\ b.cp = 0 -> 0
       [] LwrCodepoint(a.cp) = LwrCodepoint(b.cp) -> NcasecmpFrom(s, t, a.next, b.next, n - CodepointSize(a.cp))
       [] OTHER -> Sign(a.cp, b.cp)

-----------------------------------------------------------------------------
(* Searches *)

\* The inner loop of utf8cspn, utf8pbrk and utf8spn: the code point at p against
\* those of set.  It is found when the next one of set starts.
RECURSIVE MatchIn(_, _, _, _, _)
MatchIn(s, p, set, a, off) ==
  CASE At(set, a) = 0 -> [found |-> FALSE, off |-> off]
    [] ~IsCont(At(set, a)) /\ off > 0 -> [found |-> TRUE, off |-> off]
    [] OTHER -> IF At(set, a) = At(s, p + off) THEN MatchIn(s, p, set, a + 1, off + 1)
                ELSE MatchIn(s, p, set, NextStart(set, a), 0)

\* utf8cspn: the last of reject, behind which nothing starts, is not found.
RECURSIVE CspnFrom(_, _, _)
CspnFrom(s, p, reject) ==
  IF At(s, p) = 0 \/ MatchIn(s, p, reject, 1, 0).found THEN 0
  ELSE 1 + CspnFrom(s, NextStart(s, p), reject)

\* utf8pbrk.
RECURSIVE PbrkFrom(_, _, _)
PbrkFrom(s, p, accept) ==
  LET m == MatchIn(s, p, accept, 1, 0) IN
  CASE At(s, p) = 0 -> 0
    [] m.found \/ m.off > 0 -> p
    [] OTHER -> PbrkFrom(s, NextStart(s, p), accept)

\* utf8spn, likewise.
RECURSIVE SpnFrom(_, _, _)
SpnFrom(s, p, accept) ==
  LET m == MatchIn(s, p, accept, 1, 0) IN
  IF At(s, p) = 0 \/ ~m.found THEN 0 ELSE 1 + SpnFrom(s, p + m.off, accept)

\* utf8str.
RECURSIVE StrFrom(_, _, _)
StrFrom(s, p, needle) ==
  CASE needle = << >> -> p
    [] At(s, p) = 0 -> 0
    [] \A k \in DOMAIN needle : At(s, p + k - 1) = needle[k] -> p
    [] OTHER -> StrFrom(s, Codepoint(s, p).next, needle)

\* utf8chr.
Chr(s, cp) == IF cp = 0 THEN Len(s) + 1 ELSE StrFrom(s, 1, BytesOf(cp))

\* utf8rchr, in memory where other bytes follow the terminator: a match at the
\* very end takes the terminator for part of it, and the search goes on behind.
RECURSIVE RchrFrom(_, _, _, _)
RchrFrom(mem, p, c, match) ==
  LET same(k) == \A j \in 0..(k - 1) : At(mem, p + j) = At(c, j + 1)
      off == CHOOSE k \in 0..5 : same(k) /\ (k = 5 \/ ~same(k + 1))
  IN CASE At(mem, p) = 0 -> match
       [] At(c, off + 1) = 0 -> RchrFrom(mem, p + off, c, p)
       [] OTHER -> RchrFrom(mem, IF At(mem, p + off) # 0 THEN NextStart(mem, p + off) ELSE p + off, c, match)

\* utf8casestr.
RECURSIVE CaseMatch(_, _, _, _)
CaseMatch(s, h, needle, n) ==
  LET a == Codepoint(s, h)
      b == Codepoint(needle, n)
  IN CASE b.cp = 0 -> "found"
       [] b.cp # 0 /\ a.cp = 0 -> "end"
       [] OTHER -> IF LwrCodepoint(a.cp) = LwrCodepoint(b.cp) THEN CaseMatch(s, a.next, needle, b.next)
                   ELSE "differs"
RECURSIVE CasestrFrom(_, _, _)
CasestrFrom(s, p, needle) ==
  CASE needle = << >> \/ CaseMatch(s, p, needle, 1) = "found" -> p
    [] needle # << >> /\ CaseMatch(s, p, needle, 1) = "end" -> 0
    [] OTHER -> CasestrFrom(s, Codepoint(s, p).next, needle)

-----------------------------------------------------------------------------
(* What they should give, in code points *)

EncodedCps(cps) == FlattenSeq([i \in DOMAIN cps |-> BytesOf(cps[i])])
\* The place of code point i, 0 for none.
PlaceOf(cps, i) == IF i = 0 THEN 0 ELSE Len(EncodedCps(SubSeq(cps, 1, i - 1))) + 1
LowerCps(cps) == [i \in DOMAIN cps |-> LwrCodepoint(cps[i])]
RECURSIVE CpsOf(_, _)
CpsOf(s, p) == IF At(s, p) = 0 THEN << >> ELSE << Codepoint(s, p).cp >> \o CpsOf(s, Codepoint(s, p).next)
\* How many of the first code points pass.
Leading(cps, set) ==
  LET i == SelectInSeq(cps, LAMBDA c : c \notin set) IN IF i = 0 THEN Len(cps) ELSE i - 1
FirstAt(cps, part) ==
  SelectInSeq([i \in DOMAIN cps |-> i], LAMBDA i : IsPrefix(part, SubSeq(cps, i, Len(cps))))

\* A string of code points is valid, has their number, gives them back one by
\* one, and changes its case in place, code point by code point.
PointsSound(cps) ==
  LET s == EncodedCps(cps) IN
  /\ FoldLeft(LAMBDA t, c : CatCodepoint(t, c, 4), << >>, cps) = s
  /\ CpsOf(s, 1) = cps /\ LenFrom(s, 1) = Len(cps) /\ ValidFrom(s, 1) = 0
  /\ LwrFrom(s, 1) = EncodedCps(LowerCps(cps))
  /\ UprFrom(s, 1) = EncodedCps([i \in DOMAIN cps |-> UprCodepoint(cps[i])])

\* The two case tables belong together, and neither changes the size of a code
\* point, which utf8lwr and utf8upr write over the old one.
CaseSound(cp) ==
  /\ CodepointSize(LwrCodepoint(cp)) = CodepointSize(cp) /\ CodepointSize(UprCodepoint(cp)) = CodepointSize(cp)
  /\ LwrCodepoint(cp) # cp => UprCodepoint(LwrCodepoint(cp)) = cp /\ UprCodepoint(cp) = cp
  /\ UprCodepoint(cp) # cp => LwrCodepoint(UprCodepoint(cp)) = cp

\* The searches and comparisons of bytes agree with those of code points: no
\* match starts in the middle of one, and the order is that of the code points.
\* The set of utf8cspn and utf8spn ends with one that is not looked for (`last'),
\* and utf8rchr searches for what the string does not end with.
SearchSound(cps, other, last) ==
  LET s == EncodedCps(cps)
      t == EncodedCps(other)
      set == ToSet(other)
      firstDiff == SelectInSeq([i \in 1..Len(cps) |-> i], LAMBDA i : i > Len(other) \/ cps[i] # other[i])
      order == CASE firstDiff = 0 -> IF Len(cps) < Len(other) THEN -1 ELSE 0
                 [] firstDiff > Len(other) -> 1
                 [] OTHER -> Sign(cps[firstDiff], other[firstDiff])
  IN /\ StrFrom(s, 1, t) = IF other = << >> THEN 1 ELSE PlaceOf(cps, FirstAt(cps, other))
     /\ CasestrFrom(s, 1, t) = IF other = << >> THEN 1 ELSE PlaceOf(cps, FirstAt(LowerCps(cps), LowerCps(other)))
     /\ PbrkFrom(s, 1, t) = PlaceOf(cps, SelectInSeq(cps, LAMBDA c : c \in set))
     /\ \A c \in set :
          /\ Chr(s, c) = PlaceOf(cps, SelectInSeq(cps, LAMBDA x : x = c))
          /\ cps # << >> /\ Last(cps) # c =>
               \A junk \in {<< >>, t} : RchrFrom(s \o << 0 >> \o junk, 1, BytesOf(c), 0)
                                          = PlaceOf(cps, SelectLastInSeq(cps, LAMBDA x : x = c))
     /\ last \notin ToSet(cps) =>
          /\ CspnFrom(s, 1, t \o BytesOf(last)) = Leading(cps, ToSet(cps) \ set)
          /\ SpnFrom(s, 1, t \o BytesOf(last)) = Leading(cps, set)
     /\ CmpFrom(s, t, 1, -1) = order
     /\ (CasecmpFrom(s, t, 1, 1) = 0) <=> (LowerCps(cps) = LowerCps(other))
     /\ \A n \in 0..(Len(s) + 1) :
          /\ CmpFrom(s, t, 1, n) = CmpFrom(Ndup(s, n), Ndup(t, n), 1, -1)
          /\ n > Len(t) /\ n > Len(s) => NcasecmpFrom(s, t, 1, 1, n) = CasecmpFrom(s, t, 1, 1)
          /\ n > 0 /\ s # << >> => NcatFrom(s, 1, n) = Ndup(s, n)
          /\ n >= Len(s) => IsPrefix(s, Ncpy(s, n)) /\ Len(Ncpy(s, n)) = n

\* utf8valid accepts exactly the strings that are the encodings of code points,
\* and what precedes the place it gives is valid.
ValidSound(s) ==
  LET p == ValidFrom(s, 1)
      Good(t) == LET cps == CpsOf(t, 1) IN (\A i \in DOMAIN cps : cps[i] > 0) /\ EncodedCps(cps) = t
  IN /\ (p = 0) <=> Good(s)
     /\ p # 0 => Good(SubSeq(s, 1, p - 1))

\* "not from the utf8 string reject" and "from the utf8 string accept"
\* (utf8.h:102, 168), for all of the set.
SpanLooksAtAll(cps, other) ==
  /\ CspnFrom(EncodedCps(cps), 1, EncodedCps(other)) = Leading(cps, ToSet(cps) \ ToSet(other))
  /\ SpnFrom(EncodedCps(cps), 1, EncodedCps(other)) = Leading(cps, ToSet(other))
-----------------------------------------------------------------------------
(***************************************************************************)
(* utstring.h: a growing buffer of n bytes of which i are text, and the     *)
(* searches of Knuth, Morris and Pratt in both directions.  Positions are   *)
(* those of C, from 0; Ch(s, k) is s[k].                                    *)
(***************************************************************************)

Ch(s, k) == s[k + 1]

\* [n, d]: bytes of the buffer, and its text; d[i] is 0 after every operation.
Reserve(u, amt) == IF u.n - Len(u.d) < amt THEN [u EXCEPT !.n = @ + amt] ELSE u
New             == Reserve([n |-> 0, d |-> << >>], Room0)
Clear(u)        == [u EXCEPT !.d = << >>]
Bincpy(u, b)    == LET r == Reserve(u, Len(b) + 1) IN [r EXCEPT !.d = @ \o b]
Concat(u, v)    == LET r == Reserve(u, Len(v.d) + 1) IN [r EXCEPT !.d = @ \o v.d]

\* vsnprintf says how long the text is; when it did not fit with its
\* terminator the room is made and the text formatted again.
RECURSIVE PrintfVa(_, _)
PrintfVa(u, b) ==
  IF Len(b) < u.n - Len(u.d) THEN [u EXCEPT !.d = @ \o b]
  ELSE PrintfVa(Reserve(u, Len(b) + 1), b)
-----------------------------------------------------------------------------
\* From j back along the table until p[i] fits, or to the end of the needle.
RECURSIVE Back(_, _, _, _)
Back(p, table, c, j) == IF j > -1 /\ c # Ch(p, j) THEN Back(p, table, c, table[j]) ELSE j

RECURSIVE TableFrom(_, _, _, _)
TableFrom(p, i, j, table) ==
  IF i >= Len(p) THEN table
  ELSE LET k == Back(p, table, Ch(p, i), j) + 1
           n == i + 1
           v == IF n < Len(p) THEN IF Ch(p, n) = Ch(p, k) THEN table[k] ELSE k ELSE k
       IN  TableFrom(p, n, k, [x \in DOMAIN table \cup {n} |-> IF x = n THEN v ELSE table[x]])

\* A plausible slip: the reduction of equal characters is made at the end too.
BuildTableOver(p) ==
  LET t == TableFrom(p, 0, -1, [x \in {0} |-> -1])
  IN  [t EXCEPT ![Len(p) - 1] = IF Len(p) > 1 THEN t[0] ELSE @]

BuildTable(p) == TableFrom(p, 0, -1, [x \in {0} |-> -1])

RECURSIVE BackR(_, _, _, _)
BackR(p, table, c, j) ==
  IF j < Len(p) /\ c # Ch(p, j) THEN BackR(p, table, c, table[j + 1]) ELSE j

RECURSIVE TableFromR(_, _, _, _)
TableFromR(p, i, j, table) ==
  IF i < 0 THEN table
  ELSE LET k == BackR(p, table, Ch(p, i), j) - 1
           n == i - 1
           v == IF n >= 0 THEN IF Ch(p, n) = Ch(p, k) THEN table[k + 1] ELSE k ELSE k
       IN  TableFromR(p, n, k, [x \in DOMAIN table \cup {n + 1} |-> IF x = n + 1 THEN v ELSE table[x]])

BuildTableR(p) == TableFromR(p, Len(p) - 1, Len(p), [x \in {Len(p)} |-> Len(p)])

\* _utstring_find: i in the needle, j in the haystack.
RECURSIVE Scan(_, _, _, _, _)
Scan(h, p, table, i, j) ==
  IF j < Len(h) /\ (Len(h) - j) + i >= Len(p)
  THEN LET k == Back(p, table, Ch(h, j), i) + 1
       IN  IF k >= Len(p) THEN j + 1 - k ELSE Scan(h, p, table, k, j + 1)
  ELSE -1

RECURSIVE ScanR(_, _, _, _, _)
ScanR(h, p, table, i, j) ==
  IF j >= 0 /\ j >= i
  THEN LET k == BackR(p, table, Ch(h, j), i) - 1
       IN  IF k < 0 THEN j ELSE ScanR(h, p, table, k, j - 1)
  ELSE -1

Start(s, from) == IF from < 0 THEN Len(s) + from ELSE from

Find(s, from, p) ==
  LET a == Start(s, from)
      r == Scan(SubSeq(s, a + 1, Len(s)), p, BuildTable(p), 0, 0)
  IN  IF Len(s) - a >= Len(p) /\ p # << >> /\ r >= 0 THEN r + a ELSE -1

FindR(s, from, p) ==
  LET a == Start(s, from)
  IN  IF a + 1 >= Len(p) /\ p # << >>
      THEN ScanR(SubSeq(s, 1, a + 1), p, BuildTableR(p), Len(p) - 1, a)
      ELSE -1
-----------------------------------------------------------------------------
\* The reference: the places where p stands in s between a and b.
Places(s, a, b, p) == {k \in a .. b - Len(p) : SubSeq(s, k + 1, k + Len(p)) = p}

\* The searches find the first place at or behind the start, and the last place
\* that ends at or in front of it, for needles that overlap themselves as well.
FindSound(s, p) ==
  \A from \in -Len(s) .. Len(s) - 1 :
    LET a == Start(s, from)
        f == Places(s, a, Len(s), p)
        r == Places(s, 0, a + 1, p)
        x == Find(s, from, p)
        y == FindR(s, from, p)
    IN  /\ IF f = {} THEN x = -1 ELSE x \in f /\ \A k \in f : x <= k
        /\ IF r = {} THEN y = -1 ELSE y \in r /\ \A k \in r : k <= y

\* The text is what was appended, by whatever mixture of functions, and there is
\* always room for its terminator.
BufferSound(s, p) ==
  \A k \in 0 .. Len(s) :
    LET a == Bincpy(New, SubSeq(s, 1, k))
        b == PrintfVa(a, SubSeq(s, k + 1, Len(s)))
        c == Concat(b, Bincpy(New, p))
        d == PrintfVa(Clear(c), p)
    IN  /\ c.d = s \o p /\ d.d = p
        /\ \A u \in {a, b, c, d} : Len(u.d) < u.n

=============================================================================
