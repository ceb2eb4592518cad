------------------------------ MODULE BstrText ------------------------------
(***************************************************************************)
(* bstrlib.c: the functions that leave their strings alone.  Comparing,    *)
(* searching, splitting into lists and streams, and formatting into memory *)
(* that grows.  A string is a sequence of bytes, which may be NUL; a C     *)
(* string has none.  Positions count from 0, Err is BSTR_ERR.              *)
(***************************************************************************)
EXTENDS Integers, Sequences, SequencesExt, FiniteSets

CONSTANTS
  StartRoom,    \* START_VSNBUFF, 16
  ReadLen,      \* BSSSC_BUFF_LEN, 256
  Base64Line,   \* bytes per line, 57; a multiple of 3, as UuLine
  UuLine,       \* UU_MAX_LINELEN, 45
  InitInput     \* INIT_SECURE_INPUT_LENGTH, 256

Err     == -1
NUL     == 0
ByteMax == 255
Upto(s, n)   == SubSeq(s, 1, IF n < Len(s) THEN n ELSE Len(s))
Beyond(s, n) == SubSeq(s, n + 1, Len(s))
At(s, i)     == s[i + 1]
Least(S)     == CHOOSE x \in S : \A y \in S : x <= y
Greatest(S)  == CHOOSE x \in S : \A y \in S : x >= y
Positions(s) == 0 .. (Len(s) - 1)
Sign(n)      == IF n < 0 THEN -1 ELSE IF n > 0 THEN 1 ELSE 0
FirstIn(S)   == IF S = {} THEN Err ELSE Least(S)
LastIn(S)    == IF S = {} THEN Err ELSE Greatest(S)
-----------------------------------------------------------------------------
(* Characters. *)

Downcase(c) == IF c \in 65 .. 90 THEN c + 32 ELSE c
Upcase(c)   == IF c \in 97 .. 122 THEN c - 32 ELSE c
\* (char) of an unsigned char.
Signed(c)   == IF c > 127 THEN c - 256 ELSE c

Btoupper(b) == [i \in DOMAIN b |-> Upcase(b[i])]
Btolower(b) == [i \in DOMAIN b |-> Downcase(b[i])]

\* bstr2cstr: z in place of every NUL.
Bstr2cstr(b, z) == [i \in DOMAIN b |-> IF b[i] = NUL THEN z ELSE b[i]]

\* What strlen sees.
CStr(b) == LET p == SelectInSeq(b, LAMBDA c : c = NUL) IN IF p = 0 THEN b ELSE Upto(b, p - 1)
-----------------------------------------------------------------------------
(* Orders.  The loops stop at the first position where something differs. *)

Shorter(a, b)    == IF Len(a) < Len(b) THEN Len(a) ELSE Len(b)
LoweredSigned(c) == Signed(Downcase(c))
FirstDiff(a, b, n) ==
  FirstIn({i \in 0 .. (n - 1) : LoweredSigned(At(a, i)) # LoweredSigned(At(b, i))})

\* What a character beyond the end of the other string counts for.
Extra(c) == IF LoweredSigned(c) # 0 THEN LoweredSigned(c) ELSE ByteMax + 1

Bstricmp(a, b) ==
  LET n == Shorter(a, b)
      d == FirstDiff(a, b, n)
  IN CASE d # Err -> LoweredSigned(At(a, d)) - LoweredSigned(At(b, d))
       [] d = Err /\ Len(a) > n -> Extra(At(a, n))
       [] d = Err /\ Len(b) > n -> - Extra(At(b, n))
       [] OTHER -> 0

\* The difference is that of the characters as they are.
Bstrnicmp(a, b, n) ==
  LET m == IF n < Shorter(a, b) THEN n ELSE Shorter(a, b)
      d == FirstDiff(a, b, m)
  IN CASE d # Err -> At(a, d) - At(b, d)
       [] d = Err /\ (n = m \/ Len(a) = Len(b)) -> 0
       [] d = Err /\ n # m /\ Len(a) > m -> Extra(At(a, m))
       [] OTHER -> - Extra(At(b, m))

\* The position where bstrcmp stops: a difference or a NUL of both.
Stop(a, b, n) == FirstIn({i \in 0 .. (n - 1) : At(a, i) # At(b, i) \/ At(a, i) = NUL})

Bstrcmp(a, b) ==
  LET d == Stop(a, b, Shorter(a, b))
  IN IF d # Err THEN Signed(At(a, d)) - Signed(At(b, d)) ELSE Sign(Len(a) - Len(b))

Bstrncmp(a, b, n) ==
  LET m == IF n < Shorter(a, b) THEN n ELSE Shorter(a, b)
      d == Stop(a, b, m)
  IN IF d # Err THEN Signed(At(a, d)) - Signed(At(b, d))
     ELSE IF n = m THEN 0 ELSE Sign(Len(a) - Len(b))
-----------------------------------------------------------------------------
(* Equality. *)

Biseq(a, b)    == Len(a) = Len(b) /\ \A i \in DOMAIN a : a[i] = b[i]
Biseqblk(a, b) == Len(a) = Len(b) /\ \A i \in DOMAIN a : a[i] = b[i]
SameCaseless(x, y) == x = y \/ Downcase(x) = Downcase(y)
Biseqcaselessblk(a, b) == Len(a) = Len(b) /\ \A i \in DOMAIN a : SameCaseless(a[i], b[i])
Bisstemeqblk(a, b) == Len(a) >= Len(b) /\ \A i \in DOMAIN b : a[i] = b[i]
Bisstemeqcaselessblk(a, b) == Len(a) >= Len(b) /\ \A i \in DOMAIN b : SameCaseless(a[i], b[i])

\* c is a C string: every character of a is looked at, and then its end.
Biseqcstr(a, c) == (\A i \in DOMAIN a : i <= Len(c) /\ a[i] = c[i]) /\ Len(c) = Len(a)
Biseqcstrcaseless(a, c) ==
  (\A i \in DOMAIN a : i <= Len(c) /\ SameCaseless(a[i], c[i])) /\ Len(c) = Len(a)
-----------------------------------------------------------------------------
(* Searching. *)

\* The loop of binstrcaseless with f at i, j characters of which have matched;
\* step is 1 or, in binstrrcaseless, -1.
RECURSIVE CaselessFrom(_, _, _, _, _)
CaselessFrom(s, f, i, j, step) ==
  IF SameCaseless(At(f, j), At(s, i + j))
  THEN IF j + 1 >= Len(f) THEN i ELSE CaselessFrom(s, f, i, j + 1, step)
  ELSE IF i + step \notin 0 .. (Len(s) - Len(f)) THEN Err ELSE CaselessFrom(s, f, i + step, 0, step)

Binstrcaseless(s, pos, f) ==
  CASE Len(s) = pos -> IF f = << >> THEN pos ELSE Err
    [] Len(s) < pos \/ pos < 0 -> Err
    [] Len(s) > pos /\ pos >= 0 /\ f = << >> -> pos
    [] OTHER -> IF Len(s) - Len(f) + 1 <= pos THEN Err ELSE CaselessFrom(s, f, pos, 0, 1)

Binstrrcaseless(s, pos, f) ==
  CASE Len(s) < pos \/ pos < 0 -> Err
    [] Len(s) >= pos /\ pos >= 0 /\ f = << >> -> pos
    [] OTHER -> LET l == Len(s) - Len(f)
                IN IF l < 0 THEN Err ELSE CaselessFrom(s, f, IF l + 1 <= pos THEN l ELSE pos, 0, -1)

Bstrchrp(s, c, pos) ==
  IF Len(s) <= pos \/ pos < 0 THEN Err ELSE FirstIn({i \in Positions(s) : i >= pos /\ At(s, i) = c})
Bstrrchrp(s, c, pos) ==
  IF Len(s) <= pos \/ pos < 0 THEN Err ELSE LastIn({i \in 0 .. pos : At(s, i) = c})

\* A charField: the bytes of b, with one bit for each.
BuildCharField(b) == {b[i] : i \in DOMAIN b}
InvertCharField(cf) == (0 .. ByteMax) \ cf
BinchrCF(s, pos, cf)  == FirstIn({i \in Positions(s) : i >= pos /\ At(s, i) \in cf})
BinchrrCF(s, pos, cf) == LastIn({i \in 0 .. pos : At(s, i) \in cf})

Binchr(s, pos, b) ==
  CASE pos < 0 \/ Len(s) <= pos \/ b = << >> -> Err
    [] pos >= 0 /\ Len(s) > pos /\ Len(b) = 1 -> Bstrchrp(s, b[1], pos)
    [] OTHER -> BinchrCF(s, pos, BuildCharField(b))

\* At the end of the string the search starts one earlier.
Binchrr(s, pos, b) ==
  LET p == IF pos = Len(s) THEN pos - 1 ELSE pos
  IN CASE pos < 0 \/ Len(s) < pos \/ b = << >> -> Err
       [] pos >= 0 /\ Len(s) >= pos /\ Len(b) = 1 -> Bstrrchrp(s, b[1], p)
       [] OTHER -> BinchrrCF(s, p, BuildCharField(b))

Bninchr(s, pos, b) ==
  IF pos < 0 \/ Len(s) <= pos \/ b = << >> THEN Err
  ELSE BinchrCF(s, pos, InvertCharField(BuildCharField(b)))

Bninchrr(s, pos, b) ==
  IF pos < 0 \/ Len(s) < pos \/ b = << >> THEN Err
  ELSE BinchrrCF(s, IF pos = Len(s) THEN pos - 1 ELSE pos, InvertCharField(BuildCharField(b)))
-----------------------------------------------------------------------------
(* Lists: [entry, mlen], where mlen is the room of the table. *)

Bmidstr(b, left, len) ==
  LET l == IF left < 0 THEN 0 ELSE left
      k == IF left < 0 THEN len + left ELSE len
      n == IF k > Len(b) - l THEN Len(b) - l ELSE k
  IN IF n <= 0 THEN << >> ELSE SubSeq(b, l + 1, l + n)

RECURSIVE Doubled(_, _)
Doubled(m, qty) == IF qty >= m THEN Doubled(2 * m, qty) ELSE m

\* Mutant: the table grows one entry late.
BscbLate(bl, b, ofs, len) ==
  [entry |-> Append(bl.entry, Bmidstr(b, ofs, len)),
   mlen  |-> IF Len(bl.entry) > bl.mlen THEN Doubled(2 * bl.mlen, Len(bl.entry)) ELSE bl.mlen]

\* bscb: a table that is full is doubled, then the piece goes behind the others.
Bscb(bl, b, ofs, len) ==
  [entry |-> Append(bl.entry, Bmidstr(b, ofs, len)),
   mlen  |-> IF Len(bl.entry) >= bl.mlen THEN Doubled(2 * bl.mlen, Len(bl.entry)) ELSE bl.mlen]

EmptyList == [entry |-> << >>, mlen |-> 4]

\* The do loop of bsplitcb, and of bsplitscb with more than one character.
RECURSIVE SplitAt(_, _, _, _)
SplitAt(bl, b, cf, p) ==
  LET next == {i \in Positions(b) : i >= p /\ At(b, i) \in cf}
      i    == IF next = {} THEN Len(b) ELSE Least(next)
      l    == Bscb(bl, b, p, i - p)
  IN IF i + 1 > Len(b) THEN l ELSE SplitAt(l, b, cf, i + 1)

Bsplitcb(b, c)  == SplitAt(EmptyList, b, {c}, 0)
Bsplit(b, c)    == Bsplitcb(b, c)
BsplitsList(b, S) ==
  IF S = << >> THEN Bscb(EmptyList, b, 0, Len(b)) ELSE SplitAt(EmptyList, b, BuildCharField(S), 0)

\* bsplitstrcb: behind a separator the loop's own step passes over one
\* character more.
RECURSIVE SplitStrAt(_, _, _, _, _)
SplitStrAt(bl, b, f, i, p) ==
  CASE i > Len(b) - Len(f) -> Bscb(bl, b, p, Len(b) - p)
    [] i <= Len(b) - Len(f) /\ SubSeq(b, i + 1, i + Len(f)) = f ->
         SplitStrAt(Bscb(bl, b, p, i - p), b, f, i + Len(f) + 1, i + Len(f))
    [] OTHER -> SplitStrAt(bl, b, f, i + 1, p)
BsplitstrList(b, f) ==
  CASE f = << >> -> FoldLeft(LAMBDA l, i : Bscb(l, b, i - 1, 1), EmptyList, [i \in DOMAIN b |-> i])
    [] Len(f) = 1 -> Bsplitcb(b, f[1])
    [] OTHER -> SplitStrAt(EmptyList, b, f, 0, 0)

\* snapUpSize
RECURSIVE PowerAbove(_, _)
PowerAbove(p, i) == IF p > i THEN p ELSE PowerAbove(2 * p, i)
SnapUpSize(i)    == IF i < 8 THEN 8 ELSE PowerAbove(1, i)

BstrListAlloc(bl, msz) == IF msz <= 0 \/ bl.mlen >= msz THEN bl ELSE [bl EXCEPT !.mlen = SnapUpSize(msz)]
BstrListAllocMin(bl, msz) ==
  IF msz <= 0 THEN bl ELSE [bl EXCEPT !.mlen = IF msz < Len(bl.entry) THEN Len(bl.entry) ELSE msz]

\* The memory of a fresh string of n characters: bstrcpy, blk2bstr and
\* bfromcstrrangealloc.
BstrcpyRoom(n)  == SnapUpSize(n + 1)
Blk2bstrRoom(n) == SnapUpSize(n + (IF n # 0 THEN 1 ELSE 2))

\* bfromcstrrangealloc: most is what the allocator has; a request that fails is
\* taken back half the way to the least that is needed.
RECURSIVE RangeFrom(_, _, _)
RangeFrom(i, minl, most) ==
  LET k == (i \div 2) + (minl \div 2)
  IN IF i <= most THEN i ELSE IF i = k \/ i < minl THEN Err ELSE RangeFrom(k, minl, most)
Bfromcstrrangealloc(minl, maxl, n, most) ==
  LET least == IF minl < n + 1 THEN n + 1 ELSE minl
  IN IF maxl < minl \/ minl < 0 THEN Err ELSE RangeFrom(IF maxl < least THEN least ELSE maxl, least, most)
-----------------------------------------------------------------------------
(* bssplitstrcb: the pieces of a stream, << offset, piece >>.              *)

\* bsreada into a buffer: while the buffer is small the core is read until
\* ReadLen characters are there or it has ended; a roomy one takes what one
\* read gives, and only an empty read shows the end.
ReadMore(in, roomy) ==
  [got |-> Upto(in, ReadLen), rest |-> Beyond(in, ReadLen),
   eof |-> IF roomy THEN in = << >> ELSE Len(in) < ReadLen]

Occurs(b, f) == {i \in 0 .. (Len(b) - Len(f)) : SubSeq(b, i + 1, i + Len(f)) = f}

RECURSIVE StreamFrom(_, _, _, _, _, _)
StreamFrom(in, buff, f, p, roomy, later) ==
  LET m == ReadMore(in, roomy)
  IN IF Occurs(buff, f) # {}
     THEN LET i == Least(Occurs(buff, f)) + Len(f)
          IN << << p, Upto(buff, i - Len(f)) >> >> \o StreamFrom(in, Beyond(buff, i), f, p + i, roomy, later)
     ELSE IF m.eof THEN << << p, buff \o m.got >> >>
     ELSE StreamFrom(m.rest, buff \o m.got, f, p, later, later)

\* An empty separator: one piece for each read, all at offset 0.
RECURSIVE Blocks(_)
Blocks(in) == IF in = << >> THEN << >> ELSE << << 0, Upto(in, ReadLen) >> >> \o Blocks(Beyond(in, ReadLen))

\* The buffer starts too small for a read; later says whether it is roomy then.
Bssplitstrcb(in, f, later) ==
  IF f = << >> THEN Blocks(in) ELSE StreamFrom(in, << >>, f, 0, FALSE, later)
-----------------------------------------------------------------------------
(* Formatting: out is what the format gives, and may hold a NUL.           *)

\* The loop of bformata, bassignformat and bformat: room n, and mlen bytes.
RECURSIVE FormatFrom(_, _, _)
FormatFrom(out, n, mlen) ==
  LET seen == CStr(Upto(out, n))
      n2   == IF Len(out) > n THEN Len(out) ELSE 2 * n
  IN IF Len(seen) < n THEN [text |-> seen, inside |-> n + 1 <= mlen]
     ELSE FormatFrom(out, n2, IF n2 + 2 >= mlen THEN SnapUpSize(n2 + 2) ELSE mlen)

Formatted(fmt, out) ==
  LET n == IF 2 * fmt < StartRoom THEN StartRoom ELSE 2 * fmt IN FormatFrom(out, n, n + 2)
Bformata(b, fmt, out)      == b \o Formatted(fmt, out).text
Bassignformat(b, fmt, out) == Formatted(fmt, out).text
Bformat(fmt, out)          == Formatted(fmt, out).text

\* bvcformata: at most count characters, or a count that would do.
Bvcformata(b, count, out) ==
  LET seen == CStr(Upto(out, count + 1))
      l    == IF Len(out) > count + 1 THEN Len(out) ELSE 2 * count
  IN CASE count <= 0 -> [b |-> b, ret |-> Err]
       [] count > 0 /\ Len(seen) <= count -> [b |-> b \o seen, ret |-> 0]
       [] OTHER -> [b |-> b, ret |-> IF -l > Err - 1 THEN Err - 1 ELSE -l]
-----------------------------------------------------------------------------
Lower(s) == Btolower(s)

\* What bstrcmp can tell of a string: nothing behind its first NUL.
Visible(s) == Upto(s, Len(CStr(s)) + 1)

\* bstrcmp and bstricmp order all strings, and are 0 for those that look the
\* same; bstrncmp is bstrcmp of what is cut to n; bstrnicmp is 0 for the same
\* texts, whatever it says of others.  Equality is equality.
CompareSound(a, b, c, n) ==
  /\ Sign(Bstrcmp(a, b)) = -Sign(Bstrcmp(b, a)) /\ Sign(Bstricmp(a, b)) = -Sign(Bstricmp(b, a))
  /\ Bstrcmp(a, b) <= 0 /\ Bstrcmp(b, c) <= 0 => Bstrcmp(a, c) <= 0
  /\ Bstricmp(a, b) <= 0 /\ Bstricmp(b, c) <= 0 => Bstricmp(a, c) <= 0
  /\ Bstrcmp(a, b) = 0 <=> Visible(a) = Visible(b)
  /\ Bstricmp(a, b) = 0 <=> Lower(a) = Lower(b)
  /\ Sign(Bstrncmp(a, b, n)) = Sign(Bstrcmp(Upto(a, n), Upto(b, n)))
  /\ Bstrnicmp(a, b, n) = 0 <=> Lower(Upto(a, n)) = Lower(Upto(b, n))
  /\ Bstrnicmp(a, b, n) = - Bstrnicmp(b, a, n)
  /\ Biseq(a, b) = (a = b) /\ Biseqblk(a, b) = (a = b)
  /\ Biseqcaselessblk(a, b) <=> Bstricmp(a, b) = 0
  /\ Bisstemeqblk(a, b) <=> IsPrefix(b, a)
  /\ Bisstemeqcaselessblk(a, b) <=> IsPrefix(Lower(b), Lower(a))
  /\ Biseqcstr(a, CStr(b)) <=> a = CStr(b)
  /\ Biseqcstrcaseless(a, CStr(b)) <=> Lower(a) = Lower(CStr(b))
  /\ Biseqcaselessblk(Btoupper(a), a)
  /\ CStr(Bstr2cstr(a, 63)) = Bstr2cstr(a, 63)

\* bstrnicmp orders strings as bstricmp does.
CaselessOrder(a, b, n) == Sign(Bstrnicmp(a, b, n)) = Sign(Bstricmp(Upto(a, n), Upto(b, n)))

Holds(s, f, i) == Lower(SubSeq(s, i + 1, i + Len(f))) = Lower(f)

\* A search returns the first, or the last, position from pos on where what it
\* looks for is, and an error if there is none.
SearchSound(s, f, pos) ==
  LET fits == {i \in 0 .. (Len(s) - Len(f)) : Holds(s, f, i)}
      cf   == {f[i] : i \in DOMAIN f}
      in   == {i \in Positions(s) : At(s, i) \in cf}
      out  == Positions(s) \ in
      ok   == pos <= Len(s)
      At1(S, good) == IF good THEN FirstIn({i \in S : i >= pos}) ELSE Err
      At2(S, good) == IF good THEN LastIn({i \in S : i <= pos}) ELSE Err
  IN /\ Binstrcaseless(s, pos, f) = At1(fits, TRUE)
     /\ Binstrrcaseless(s, pos, f) = At2(fits, ok)
     /\ Binchr(s, pos, f) = At1(in, TRUE)
     /\ Binchrr(s, pos, f) = At2(in, ok)
     /\ Bninchr(s, pos, f) = At1(out, f # << >>)
     /\ Bninchrr(s, pos, f) = At2(out, ok /\ f # << >>)

\* A string for which there was less memory than was asked for has room for its
\* text.  (Halving loses one when the least that is needed is odd: README
\* section 5.)
RangeRoomy(n, minl) ==
  \A maxl \in 0 .. 9, most \in 0 .. 6 :
    LET r == Bfromcstrrangealloc(minl, maxl, n, most) IN r # Err => r > n /\ r >= minl /\ r <= most

Joined(list, sep) == FoldLeft(LAMBDA t, i : IF i = 1 THEN list[1] ELSE t \o sep \o list[i], << >>,
                              [i \in DOMAIN list |-> i])

\* A list of pieces has room for its entries, gives the string back when it is
\* joined, and its pieces have no separator; the pieces of a stream are where
\* their offsets say, and only what came with the end may hold one.
PiecesSound(s, f, later) ==
  LET one == BsplitsList(s, f)
      str == BsplitstrList(s, f)
      st  == Bssplitstrcb(s, f, later)
  IN /\ \A l \in {one, str} :
          /\ Len(l.entry) <= l.mlen
          /\ \A k \in 0 .. 9 : /\ BstrListAlloc(l, k).mlen >= k /\ Len(l.entry) <= BstrListAlloc(l, k).mlen
                               /\ Len(l.entry) <= BstrListAllocMin(l, k).mlen
     /\ f # << >> => /\ Joined(str.entry, f) = s
                     /\ Len(f) = 1 => Bsplit(s, f[1]) = one /\ one = str
                     /\ \A i \in DOMAIN one.entry : \A c \in DOMAIN f : f[c] \notin {one.entry[i][k] : k \in DOMAIN one.entry[i]}
     /\ f = << >> => one.entry = << s >> /\ Joined(str.entry, << >>) = s
     /\ Len(f) > 1 =>
          /\ Joined([i \in DOMAIN st |-> st[i][2]], f) = s
          /\ \A i \in DOMAIN st : st[i][2] = Bmidstr(s, st[i][1], Len(st[i][2]))
          /\ \A i \in DOMAIN st : i < Len(st) => Occurs(st[i][2], f) = {}
     /\ BstrcpyRoom(Len(s)) > Len(s) /\ Blk2bstrRoom(Len(s)) > Len(s)
     /\ Len(s) % 2 = 1 => \A minl \in {0, 2, 4} : RangeRoomy(Len(s), minl)

\* The pieces of a stream have no separator.
StreamSplits(s, f, later) ==
  LET st == Bssplitstrcb(s, f, later)
  IN Len(f) > 1 => \A i \in DOMAIN st : Occurs(st[i][2], f) = {}

\* Formatting keeps the whole text up to its first NUL, whatever room it starts
\* with, and stays inside the memory it has; a count that was too small is
\* answered with one that does.
FormatSound(out, b, fmt, count) ==
  LET v == Bvcformata(b, count, out)
  IN /\ Formatted(fmt, out).inside
     /\ Bformata(b, fmt, out) = b \o CStr(out) /\ Bassignformat(b, fmt, out) = CStr(out)
     /\ Bformat(fmt, out) = CStr(out)
     /\ v.ret = 0 => v.b = b \o CStr(out)
     /\ v.ret # 0 => v.b = b /\ (count > 0 => Bvcformata(b, -v.ret, out).ret = 0)
-----------------------------------------------------------------------------
(***************************************************************************)
(* bstraux.c: what is built on bstrlib.  Justified lines, netstrings,      *)
(* base64, uuencode and yEnc, SGML quotes, input that must not linger in   *)
(* memory, and the buffered output stream.  Characters are codes; Null     *)
(* stands for a NULL result.                                               *)
(***************************************************************************)
Null  == << -1 >>
CR == 13
LF == 10
Eq == 61
Blank == 32
From(s, i) == SubSeq(s, i, Len(s))
Rep(c, n)  == [i \in 1 .. n |-> c]
Octet(s, i) == IF i \in DOMAIN s THEN s[i] ELSE 0
-----------------------------------------------------------------------------
(* Ends, fills and justified lines. *)

BTail(b, n)  == IF n < 0 THEN Null ELSE IF n >= Len(b) THEN b ELSE From(b, Len(b) - n + 1)
BHead(b, n)  == IF n < 0 THEN Null ELSE IF n >= Len(b) THEN b ELSE Upto(b, n)
BFill(b, c, n) == IF n < 0 THEN b ELSE Rep(c, n)

\* bReverse swaps the ends until it meets the middle.
BReverse(b) ==
  FoldLeft(LAMBDA t, i : [t EXCEPT ![i] = t[Len(b) + 1 - i], ![Len(b) + 1 - i] = t[i]], b,
           [i \in 1 .. (Len(b) \div 2) |-> i])

\* bInsertChrs: n times c at pos; the gap in front of pos is filled.
BInsertChrs(b, pos, n, c, fill) ==
  IF pos < 0 \/ n <= 0 THEN b
  ELSE LET w == b \o Rep(fill, IF pos > Len(b) THEN pos - Len(b) ELSE 0)
       IN Upto(w, pos) \o Rep(c, n) \o From(w, pos + 1)

\* bJustifyLeft: a space stays only behind a character; j is where the next one
\* is written, and s whether the last one was none.
BJustifyLeft(b, space) ==
  LET Move(st, x) == [s |-> x # space,
                      out |-> IF st.s \/ x # space THEN Append(st.out, x) ELSE st.out]
      r == FoldLeft(Move, [s |-> FALSE, out |-> << >>], b).out
  IN IF r # << >> /\ Last(r) = space THEN Front(r) ELSE r

BJustifyRight(b, width, space) ==
  LET l == BJustifyLeft(b, space)
  IN IF width <= 0 THEN b ELSE IF Len(l) <= width THEN BInsertChrs(l, 0, width - Len(l), space, space) ELSE l

BJustifyCenter(b, width, space) ==
  LET l == BJustifyLeft(b, space)
  IN IF width <= 0 THEN b
     ELSE IF Len(l) <= width THEN BInsertChrs(l, 0, (width - Len(l) + 1) \div 2, space, space) ELSE l

RECURSIVE Words(_, _)
Words(b, space) ==
  LET p == SelectInSeq(b, LAMBDA x : x = space)
      w == IF p = 0 THEN b ELSE Upto(b, p - 1)
  IN (IF w = << >> THEN << >> ELSE << w >>) \o (IF p = 0 THEN << >> ELSE Words(From(b, p + 1), space))

Letters(ws) == FoldLeft(LAMBDA n, w : n + Len(w), 0, ws)

\* The spaces in front of the next of c words, l characters being placed or due.
Gap(width, l, c) == (width - l + c \div 2) \div c

\* bJustifyMargin: the space is shared out among the gaps that are left.
BJustifyMargin(b, width, space) ==
  LET ws == Words(b, space)
      Put(st, w) ==
        LET s == IF st.out = << >> THEN 0 ELSE Gap(width, st.l, st.c)
        IN [out |-> st.out \o Rep(space, s) \o w, l |-> st.l + s, c |-> st.c - 1]
  IN IF Letters(ws) + Len(ws) >= width \/ Len(ws) < 2 THEN BJustifyLeft(b, space)
     ELSE FoldLeft(Put, [out |-> << >>, l |-> Letters(ws), c |-> Len(ws)], ws).out
-----------------------------------------------------------------------------
(* Netstrings: << 58 >> is the colon, << 44 >> the comma. *)

RECURSIVE Decimal(_)
Decimal(n) == IF n < 10 THEN << 48 + n >> ELSE Append(Decimal(n \div 10), 48 + (n % 10))

BStr2NetStr(b) == Decimal(Len(b)) \o << 58 >> \o b \o << 44 >>

\* bNetStr2Bstr of a C string.  A length beyond the end of the string makes the
\* code look behind it; what it finds there is taken for no comma.
BNetStr2Bstr(buff) ==
  LET colon == SelectInSeq(buff, LAMBDA c : c = 58)
      num   == Upto(buff, colon - 1)
      x     == FoldLeft(LAMBDA n, c : 10 * n + (c - 48), 0, num)
  IN IF colon = 0 \/ (\E i \in DOMAIN num : num[i] \notin 48 .. 57) THEN Null
     ELSE IF Octet(buff, colon + x + 1) # 44 THEN Null
     ELSE SubSeq(buff, colon + 1, colon + x)

\* bSGMLEncode: four replacements, one after the other; the names are cut to
\* a letter.
SgmlPairs == << << 38, << 38, 97, 59 >> >>, << 34, << 38, 113, 59 >> >>,
                << 60, << 38, 108, 59 >> >>, << 62, << 38, 103, 59 >> >> >>
BSGMLEncode(b) ==
  FoldLeft(LAMBDA t, p : FlattenSeq([i \in DOMAIN t |-> IF t[i] = p[1] THEN p[2] ELSE << t[i] >>]),
           b, SgmlPairs)
-----------------------------------------------------------------------------
(* Base64. *)

Symbol(v) == CASE v < 26 -> 65 + v [] v \in 26 .. 51 -> 71 + v [] v \in 52 .. 61 -> v - 4
               [] v = 62 -> 43 [] v = 63 -> 47
\* base64DecodeSymbol
Base64DecodeSymbol(a) ==
  CASE a \in 65 .. 90 -> a - 65 [] a \in 97 .. 122 -> a - 71 [] a \in 48 .. 57 -> a + 4
    [] a = 43 -> 62 [] a = 47 -> 63 [] a = Eq -> -2 [] OTHER -> -1

LineEnd(i) == IF i > 0 /\ i % Base64Line = 0 THEN << CR, LF >> ELSE << >>

\* bBase64Encode from byte i: groups of three, then what is left of one.
RECURSIVE Base64EncodeFrom(_, _)
Base64EncodeFrom(b, i) ==
  LET a == Octet(b, i + 1)  c == Octet(b, i + 2)  d == Octet(b, i + 3)
      q == << Symbol(a \div 4), Symbol((16 * a + c \div 16) % 64),
              Symbol((4 * c + d \div 64) % 64), Symbol(d % 64) >>
  IN LineEnd(i) \o
     CASE i + 2 < Len(b)     -> q \o Base64EncodeFrom(b, i + 3)
       [] i + 2 - Len(b) = 0 -> Upto(q, 3) \o << Eq >>
       [] i + 2 - Len(b) = 1 -> Upto(q, 2) \o << Eq, Eq >>
       [] OTHER              -> << >>
BBase64Encode(b) == Base64EncodeFrom(b, 0)

\* bBase64DecodeEx from position i, with the symbols of the group so far.
RECURSIVE Base64DecodeFrom(_, _, _, _)
Base64DecodeFrom(b, i, g, out) ==
  LET v     == Base64DecodeSymbol(b[i])
      g2    == Append(g, v)
      Trunc == [out |-> out, trunc |-> TRUE]
      o0    == 4 * g[1] + g[2] \div 16
      o1    == (16 * g[2] + g[3] \div 4) % 256
  IN CASE i > Len(b) -> [out |-> out, trunc |-> g # << >>]
       [] i <= Len(b) /\ b[i] = Eq ->
            CASE Len(g) = 2 /\ Octet(b, i + 1) = Eq -> [out |-> Append(out, o0), trunc |-> FALSE]
              [] Len(g) = 3 -> [out |-> out \o << o0, o1 >>, trunc |-> FALSE]
              [] OTHER -> Trunc
       [] i <= Len(b) /\ b[i] # Eq /\ v < 0 -> Base64DecodeFrom(b, i + 1, g, out)
       [] i <= Len(b) /\ v >= 0 /\ Len(g) < 3 -> Base64DecodeFrom(b, i + 1, g2, out)
       [] OTHER -> Base64DecodeFrom(b, i + 1, << >>, out \o << o0, o1, (64 * g[3] + v) % 256 >>)
BBase64DecodeEx(b) == Base64DecodeFrom(b, 1, << >>, << >>)
-----------------------------------------------------------------------------
(* yEnc. *)

YSpecial == {Eq, 0, CR, LF}
BYEncode(src) ==
  FlattenSeq([i \in DOMAIN src |->
    LET c == (src[i] + 42) % 256 IN IF c \in YSpecial THEN << Eq, (c + 64) % 256 >> ELSE << c >>])

RECURSIVE YDecodeFrom(_, _)
YDecodeFrom(src, out) ==
  CASE src = << >> -> out
    [] src # << >> /\ src[1] = Eq -> IF Len(src) = 1 THEN Null
                                     ELSE YDecodeFrom(From(src, 3), Append(out, (src[2] + 150) % 256))
    [] src # << >> /\ src[1] = 0 -> Null
    [] src # << >> /\ src[1] \in {CR, LF} -> YDecodeFrom(Tail(src), out)
    [] OTHER -> YDecodeFrom(Tail(src), Append(out, (src[1] + 214) % 256))
BYDecode(src) == YDecodeFrom(src, << >>)
-----------------------------------------------------------------------------
(* uuencode. *)

UuEncodeByte(v) == IF v = 0 THEN 96 ELSE v + 32
UuDecodeByte(d) == IF d = 96 THEN 0 ELSE d - 32

RECURSIVE UuQuads(_)
UuQuads(s) ==
  IF s = << >> THEN << >>
  ELSE LET a == s[1]  c == Octet(s, 2)  d == Octet(s, 3)
       IN << UuEncodeByte(a \div 4), UuEncodeByte(16 * (a % 4) + c \div 16),
             UuEncodeByte(4 * (c % 16) + d \div 64), UuEncodeByte(d % 64) >> \o UuQuads(From(s, 4))

\* bUuEncode: lines of UuLine bytes.
RECURSIVE BUuEncode(_)
BUuEncode(src) ==
  IF src = << >> THEN << >>
  ELSE LET l == Upto(src, UuLine)
       IN << UuEncodeByte(Len(l)) >> \o UuQuads(l) \o << CR, LF >> \o BUuEncode(From(src, UuLine + 1))

Off(c)  == c < 0 \/ c >= 64
\* Neither a symbol nor a space nor the end of the line: the line is given up.
Hard(d) == d > 96 \/ (d < 31 /\ d \notin 9 .. 13)

\* The loop of bUuDecLine at position p; bad says that something was odd so far.
RECURSIVE UuDecFrom(_, _, _, _, _)
UuDecFrom(line, p, out, llen, bad) ==
  LET d(k)  == IF p + k <= Len(line) THEN line[p + k] ELSE 31
      off(k) == Off(UuDecodeByte(d(k)))
      first == off(0) \/ off(1)
      c0 == IF first THEN 0 ELSE UuDecodeByte(d(0))
      c1 == IF first THEN 0 ELSE UuDecodeByte(d(1))
      c2 == IF off(2) THEN 0 ELSE UuDecodeByte(d(2))
      c3 == IF off(3) THEN 0 ELSE UuDecodeByte(d(3))
      o0 == (4 * c0 + c1 \div 16) % 256
      o1 == (16 * c1 + c2 \div 4) % 256
      o2 == (64 * c2 + c3) % 256
      left == llen - Len(out)
      GivenUp == [out |-> << >>, bad |-> TRUE]
  IN CASE left <= 0 -> [out |-> out, bad |-> bad]
       [] left > 0 /\ p > Len(line) -> GivenUp
       [] left > 0 /\ p <= Len(line) /\ first /\ (Hard(d(0)) \/ Hard(d(1))) -> GivenUp
       [] left = 1 /\ p <= Len(line) /\ ~(first /\ (Hard(d(0)) \/ Hard(d(1)))) ->
            [out |-> Append(out, o0), bad |-> bad \/ first]
       [] left > 1 /\ p <= Len(line) /\ off(2) /\ Hard(d(2)) -> GivenUp
       [] left = 2 /\ p <= Len(line) /\ ~(off(2) /\ Hard(d(2))) ->
            [out |-> out \o << o0, o1 >>, bad |-> bad \/ first \/ off(2)]
       [] left > 2 /\ p <= Len(line) /\ off(3) /\ Hard(d(3)) -> GivenUp
       [] OTHER -> UuDecFrom(line, p + 4, out \o << o0, o1, o2 >>, llen, bad \/ first \/ off(2) \/ off(3))

\* bUuDecLine
BUuDecLine(line) ==
  LET llen == UuDecodeByte(line[1])
  IN CASE line = << >> -> [out |-> << >>, bad |-> FALSE]
       [] line # << >> /\ (llen < 0 \/ llen > UuLine) -> [out |-> << >>, bad |-> TRUE]
       [] OTHER -> UuDecFrom(line, 2, << >>, llen, FALSE)

(* bsUuDecode: the state of the stream is [src, dst, inp, bad, count]; count *)
(* says that the caller passed badlines.                                     *)

EndsOf(s) == {i \in DOMAIN s : s[i] \in {CR, LF}}
Min1(S)   == CHOOSE x \in S : \A y \in S : x <= y

\* The lines of src from position o on, until more than tsz bytes are decoded;
\* a bad line that nobody counts ends the call, with src as it was.
RECURSIVE UuLines(_, _, _)
UuLines(c, o, tsz) ==
  LET ends == {i \in EndsOf(c.src) : i >= o}
      Line(r, e) ==
        LET c2 == [c EXCEPT !.dst = @ \o r.out, !.bad = IF r.bad THEN @ + 1 ELSE @]
        IN IF r.bad /\ ~c.count THEN [fail |-> TRUE, c |-> [c2 EXCEPT !.bad = 0]]
           ELSE IF Len(c2.dst) > tsz THEN [fail |-> FALSE, c |-> [c2 EXCEPT !.src = From(@, e + 1)]]
           ELSE UuLines(c2, e + 1, tsz)
      LineTo(e) == Line(BUuDecLine(SubSeq(c.src, o, e - 1)), e)
  IN IF ends = {} THEN [fail |-> FALSE, c |-> [c EXCEPT !.src = From(@, o)]]
     ELSE LineTo(Min1(ends))

RECURSIVE UuDecodePart(_, _, _)
\* What is left at the end of the input, or behind a bad line, goes out.
UuDone(c, tsz) == [out |-> Upto(c.dst, tsz), c |-> [c EXCEPT !.dst = From(@, tsz + 1)]]

\* bsUuDecodePart: tsz bytes at most; chunk is how much is read at a time.
UuDecodePart(c, tsz, chunk) ==
  CASE Len(c.dst) > tsz -> UuDone(c, tsz)
    [] Len(c.dst) <= tsz /\ EndsOf(c.src) # {} ->
         LET After(r) == IF r.fail THEN UuDone(r.c, tsz) ELSE UuDecodePart(r.c, tsz, chunk)
         IN After(UuLines(c, 1, tsz))
    [] Len(c.dst) <= tsz /\ EndsOf(c.src) = {} /\ c.inp # << >> ->
         UuDecodePart([c EXCEPT !.src = @ \o Upto(c.inp, chunk), !.inp = From(@, chunk + 1)], tsz, chunk)
    [] OTHER -> LET After(r) == [c EXCEPT !.dst = @ \o r.out,
                                          !.bad = IF r.bad /\ c.count THEN @ + 1 ELSE @]
                IN UuDone(After(BUuDecLine(c.src)), tsz)

\* bUuDecodeEx: the stream is read until it has nothing more; fuel bounds the
\* calls.
RECURSIVE UuReadAll(_, _, _, _, _)
UuReadAll(c, tsz, chunk, out, fuel) ==
  LET After(r) == IF r.out = << >> THEN [ends |-> TRUE, out |-> out, bad |-> r.c.bad]
                  ELSE UuReadAll(r.c, tsz, chunk, out \o r.out, fuel - 1)
  IN IF fuel = 0 THEN [ends |-> FALSE, out |-> out, bad |-> c.bad]
     ELSE After(UuDecodePart(c, tsz, chunk))
BUuDecodeEx(src, count, tsz, chunk) ==
  UuReadAll([src |-> << >>, dst |-> << >>, inp |-> src, bad |-> 0, count |-> count],
            tsz, chunk, << >>, 2 * Len(src) + 2)
-----------------------------------------------------------------------------
(* Input, times and output. *)

\* bSecureInput: characters up to term, the end, or maxlen of them (0: any
\* number); a buffer that is too small is wiped when its double takes over.
RECURSIVE SecureInputFrom(_, _, _, _, _)
SecureInputFrom(in, maxlen, term, i, b) ==
  IF (i > 0 /\ in[i] = term) \/ (maxlen > 0 /\ i >= maxlen) \/ i >= Len(in)
  THEN [out |-> Upto(in, i), mlen |-> b.mlen, wiped |-> b.wiped]
  ELSE SecureInputFrom(in, maxlen, term, i + 1,
         IF i + 1 >= b.mlen THEN [mlen |-> 2 * b.mlen, wiped |-> Append(b.wiped, b.mlen)] ELSE b)
BSecureInput(in, maxlen, term) == SecureInputFrom(in, maxlen, term, 0, [mlen |-> InitInput, wiped |-> << >>])

\* bStrfTime: room n is doubled until strftime, which says 0 for a text that
\* does not fit and for an empty one, says something else; MaxRoom is all the
\* memory there is.
MaxRoom == 256
RECURSIVE StrfTimeFrom(_, _)
StrfTimeFrom(n, len) ==
  IF n + 2 > MaxRoom THEN Null ELSE IF len \in 1 .. n THEN Rep(Blank, len) ELSE StrfTimeFrom(2 * n, len)
BStrfTime(fmt, len) == StrfTimeFrom(IF 2 * fmt < 16 THEN 16 ELSE 2 * fmt, len)

(* bwriteStream: [buff, min, eof, out, next, small, ret].  The data handed   *)
(* in are the numbers 1, 2, ...; next is the next one.  An operation is      *)
(* [k, n, packs, fails]: packs says that the buffer has allocated room for    *)
(* the block, fails that the core stream refuses what it is given.           *)

BwsOpen == [buff |-> << >>, min |-> 3, eof |-> FALSE, out |-> << >>, next |-> 1, small |-> FALSE, ret |-> 0]

\* internal_bwswriteout
WriteOut(ws, b, fails) ==
  CASE b = << >> -> ws
    [] b # << >> /\ fails -> [ws EXCEPT !.eof = TRUE, !.ret = -1]
    [] OTHER -> [ws EXCEPT !.out = @ \o b, !.small = @ \/ Len(b) < ws.min]
Emptied(ws) == IF ws.eof THEN ws ELSE [ws EXCEPT !.buff = << >>]

BwsWriteFlush(ws, fails) ==
  IF ws.eof THEN [ws EXCEPT !.ret = -1] ELSE [Emptied(WriteOut(ws, ws.buff, fails)) EXCEPT !.small = ws.small]

\* bwsWriteBstr behind its prepacking: what is over goes out first, then a
\* full buffer, then a long rest.
WriteFrom(ws, b, fails) ==
  LET w0 == IF Len(ws.buff) > ws.min THEN Emptied(WriteOut(ws, ws.buff, fails)) ELSE ws
      l  == w0.min - Len(w0.buff)
      w1 == Emptied(WriteOut([w0 EXCEPT !.buff = @ \o Upto(b, l)], w0.buff \o Upto(b, l), fails))
      t  == From(b, l + 1)
  IN CASE w0.eof -> w0
       [] ~w0.eof /\ Len(b) < l -> [w0 EXCEPT !.buff = @ \o b]
       [] ~w0.eof /\ Len(b) >= l /\ w1.eof -> w1
       [] OTHER -> IF Len(t) >= w1.min THEN WriteOut(w1, t, fails) ELSE [w1 EXCEPT !.buff = t]

BwsWriteBstr(ws, n, packs, fails) ==
  LET b == [i \in 1 .. n |-> ws.next + (i - 1)]
      w == [ws EXCEPT !.next = @ + n, !.ret = 0]
  IN IF ws.eof THEN [ws EXCEPT !.ret = -1]
     ELSE IF n > 0 /\ packs THEN WriteFrom([w EXCEPT !.buff = @ \o b], << >>, fails)
     ELSE WriteFrom(w, b, fails)

BwsStep(ws, op) ==
  CASE op.k = "write"  -> BwsWriteBstr(ws, op.n, op.packs, op.fails)
    [] op.k = "flush"  -> BwsWriteFlush(ws, op.fails)
    [] op.k = "length" -> IF op.n > 0 THEN [ws EXCEPT !.min = op.n, !.small = FALSE] ELSE ws
    [] op.k = "close"  -> BwsWriteFlush(ws, op.fails)
-----------------------------------------------------------------------------
Squeezed(ws, space) ==
  FoldLeft(LAMBDA t, w : IF t = << >> THEN w ELSE t \o << space >> \o w, << >>, ws)

\* Justified lines keep their words: left has one space between them, right and
\* centre only add spaces in front, up to the width, and a stretched line has
\* the width exactly.  Netstrings and ends are what they say, SGML quotes can
\* be told from the text.
WordsSound(b, w) ==
  LET l == BJustifyLeft(b, Blank)
      m == BJustifyMargin(b, w, Blank)
      ws == Words(b, Blank)
  IN /\ l = Squeezed(ws, Blank)
     /\ BJustifyRight(b, w, Blank) = Rep(Blank, IF Len(l) < w THEN w - Len(l) ELSE 0) \o l
     /\ BTail(BJustifyCenter(b, w, Blank), Len(l)) = l
     /\ Len(l) <= w => LET in == Len(BJustifyCenter(b, w, Blank)) - Len(l) IN 2 * in - (w - Len(l)) \in {0, 1}
     /\ Words(m, Blank) = ws
     /\ m # l => Len(m) = w
     /\ BNetStr2Bstr(BStr2NetStr(b)) = b
     /\ BReverse(b) = Reverse(b)
     /\ w <= Len(b) => BHead(b, w) \o BTail(b, Len(b) - w) = b
     /\ Len(BInsertChrs(b, w, 2, 97, Blank)) = (IF w > Len(b) THEN w ELSE Len(b)) + 2
     /\ BFill(b, 97, w) = Rep(97, w)

\* bSGMLEncode keeps the ampersand of its own quotes apart.
SgmlSound(b) ==
  BSGMLEncode(b) = FlattenSeq([i \in DOMAIN b |->
    LET q == {k \in DOMAIN SgmlPairs : SgmlPairs[k][1] = b[i]}
    IN IF q = {} THEN << b[i] >> ELSE SgmlPairs[CHOOSE k \in q : TRUE][2]])

\* What is encoded is decoded to what it was, in base64, uuencode and yEnc,
\* however the uuencoded text is cut when it is read.
CodedSound(b) ==
  /\ BBase64DecodeEx(BBase64Encode(b)) = [out |-> b, trunc |-> FALSE]
  /\ BYDecode(BYEncode(b)) = b
  /\ \A tsz \in {1, 4}, chunk \in {3, 64}, count \in BOOLEAN :
       BUuDecodeEx(BUuEncode(b), count, tsz, chunk) = [ends |-> TRUE, out |-> b, bad |-> 0]

\* bBase64DecodeEx of any text: the bits of the symbols in front of the padding,
\* and a truncation whenever they do not make up whole groups.
Base64TextSound(t) ==
  LET r   == BBase64DecodeEx(t)
      eq  == SelectInSeq(t, LAMBDA c : c = Eq)
      sym == SelectSeq(IF eq = 0 THEN t ELSE Upto(t, eq - 1), LAMBDA c : Base64DecodeSymbol(c) >= 0)
      n   == Len(sym)
      pad == eq > 0 /\ ((n % 4 = 3) \/ (n % 4 = 2 /\ Octet(t, eq + 1) = Eq))
      Bit(k) == (Base64DecodeSymbol(sym[(k \div 6) + 1]) \div 2 ^ (5 - (k % 6))) % 2
  IN /\ r.trunc <=> ~(pad \/ (n % 4 = 0 /\ eq = 0))
     /\ Len(r.out) = 3 * (n \div 4) + (IF pad THEN (n % 4) - 1 ELSE 0)
     /\ \A i \in DOMAIN r.out :
          r.out[i] = FoldLeft(LAMBDA v, k : 2 * v + Bit(8 * (i - 1) + k - 1), 0, [k \in 1 .. 8 |-> k])

\* The lines of a text, the last of which is << >> when the text ends with one.
RECURSIVE LinesOf(_)
LinesOf(t) ==
  IF EndsOf(t) = {} THEN << t >>
  ELSE LET e == Min1(EndsOf(t)) IN << Upto(t, e - 1) >> \o LinesOf(From(t, e + 1))

\* bUuDecodeEx of lines that all have their end is the decoding of the lines,
\* bad ones counted, however the stream cuts them.  (A last line without an end
\* is decoded for ever: README section 5.)
UuTextSound(t) ==
  LET ls  == LinesOf(t)
      dec == [i \in DOMAIN ls |-> BUuDecLine(ls[i])]
  IN Last(ls) = << >> =>
       \A tsz \in {1, 4}, chunk \in {1, 3, 64} :
         BUuDecodeEx(t, TRUE, tsz, chunk) =
           [ends |-> TRUE, out |-> FlattenSeq([i \in DOMAIN dec |-> dec[i].out]),
            bad |-> Cardinality({i \in DOMAIN dec : dec[i].bad})]

\* Every text is decoded in the end, whether or not bad lines are counted.
UuDecodeEnds(t) == \A count \in BOOLEAN : BUuDecodeEx(t, count, 4, 64).ends

\* bSecureInput returns the input up to its limit or its terminator, in a buffer
\* with room for the final NUL, and wipes every smaller buffer it used.
InputSound(in, maxlen, term) ==
  LET r == BSecureInput(in, maxlen, term)
      e == SelectInSeq(in, LAMBDA c : c = term)
      l == IF maxlen > 0 THEN Upto(in, maxlen) ELSE in
  IN /\ r.out = IF e = 0 THEN l ELSE Upto(l, e)
     /\ Len(r.out) < r.mlen
     /\ r.mlen = InitInput * 2 ^ Len(r.wiped)
     /\ \A n \in {Len(in)} : BStrfTime(maxlen, n) = IF n = 0 THEN Null ELSE Rep(Blank, n)

\* The output stream, which is closed once and last: what was handed in is
\* written in order or still in the buffer, nothing twice; writes go out in
\* blocks of at least the buffer's size, and after a refusal nothing is written
\* any more.
WritesSound(ops) ==
  LET In(n) == [i \in 1 .. n |-> i]
      closed == ops # << >> /\ Last(ops).k = "close"
  IN \A ws \in {FoldLeft(BwsStep, BwsOpen, ops)} :
     (\A i \in DOMAIN ops : ops[i].k = "close" => i = Len(ops)) =>
     /\ ws.out = In(Len(ws.out))
     /\ ~ws.eof => ws.out \o ws.buff = In(ws.next - 1)
     /\ ~ws.small
     /\ ops # << >> /\ Last(ops).k = "write" /\ ~ws.eof => Len(ws.buff) < ws.min
     /\ closed /\ ~ws.eof => ws.buff = << >>

=============================================================================
