---------------------------- MODULE TextHelpers ----------------------------
(***************************************************************************)
(* The text functions of shared_func.c, and of str.cpp.  A text is a        *)
(* sequence of character codes; what a function leaves in its buffer is    *)
(* what it returns here.                                                   *)
(***************************************************************************)
EXTENDS Integers, Sequences, SequencesExt, FiniteSets, Bitwise, TLC

CONSTANTS
  Cwd,       \* getcwd, a text
  Kilo,      \* 1024
  Radix,     \* values of a byte, 256
  AddrBits,      \* bits of an address, 32
  MinNetBits,    \* MIN_CIDR_NET_BITS
  Address        \* what getIpaddrByName knows (external), by name

Blank == {9, 10, 13, 32}     \* tab, newline, return, space
Slash == 47
Comma == 44
Minus == 45
Percent == 37
Plus  == 43
Digit == 48..57
Least(a, b) == IF a < b THEN a ELSE b

From(s, i) == SubSeq(s, i, Len(s))
Upto(s, n) == SubSeq(s, 1, Least(n, Len(s)))
Find(s, from, c) == SelectInSubSeq(s, from, Len(s), LAMBDA x : x = c)     \* strchr

-----------------------------------------------------------------------------
(* Trimming and case *)

\* trim_left: nothing is left of a text of blanks.
TrimLeft(s) ==
  LET p == SelectInSeq(s, LAMBDA c : c \notin Blank) IN IF p = 0 THEN << >> ELSE From(s, p)

\* trim_right.
TrimRight(s) == Upto(s, SelectLastInSeq(s, LAMBDA c : c \notin Blank))

Trim(s) == TrimLeft(TrimRight(s))

\* string_ltrim and string_rtrim, of a string_t: where it starts and its length.
StringLtrim(s, v) ==
  LET p == SelectInSubSeq(s, v.str, v.str + v.len - 1, LAMBDA c : c \notin Blank)
      q == IF p = 0 THEN v.str + v.len ELSE p
  IN [str |-> q, len |-> v.str + v.len - q]
StringRtrim(s, v) ==
  LET p == SelectLastInSubSeq(s, v.str, v.str + v.len - 1, LAMBDA c : c \notin Blank)
  IN [v EXCEPT !.len = IF p = 0 THEN 0 ELSE p - v.str + 1]

\* toLowercase and toUppercase.
Lower(s) == [i \in DOMAIN s |-> IF s[i] \in 65..90 THEN s[i] + 32 ELSE s[i]]
Upper(s) == [i \in DOMAIN s |-> IF s[i] \in 97..122 THEN s[i] - 32 ELSE s[i]]

-----------------------------------------------------------------------------
(* Splitting *)

RECURSIVE SplitFrom(_, _, _, _)
SplitFrom(s, from, sep, cols) ==
  LET p == Find(s, from, sep) IN
  IF cols <= 1 \/ p = 0 THEN << From(s, from) >>
  ELSE << SubSeq(s, from, p - 1) >> \o SplitFrom(s, p + 1, sep, cols - 1)

\* Mutant: the column counter is not limited.
SplitUnlimited(s, sep, max) == SplitFrom(s, 1, sep, Len(SelectSeq(s, LAMBDA c : c = sep)) + 1)

\* split: as many columns as separators and one, or max of them when max > 0.
Split(s, sep, max) ==
  LET all == Len(SelectSeq(s, LAMBDA c : c = sep)) + 1
  IN SplitFrom(s, 1, sep, IF max > 0 THEN Least(all, max) ELSE all)

\* splitEx: no columns without room for one.
SplitEx(s, sep, max) == IF max <= 0 THEN << >> ELSE SplitFrom(s, 1, sep, max)

\* strsep: every token between two delimiters, empty ones too.
RECURSIVE Strsep(_, _)
Strsep(s, delims) ==
  LET p == SelectInSeq(s, LAMBDA c : c \in delims) IN
  IF p = 0 THEN << s >> ELSE << SubSeq(s, 1, p - 1) >> \o Strsep(From(s, p + 1), delims)

\* fc_match_delim.
FcMatchDelim(s, delims) == \A i \in DOMAIN s : s[i] \in delims

\* fc_split_string: what is behind the last column is dropped.
FcSplitString(s, delims, max) ==
  Upto(SelectSeq(Strsep(s, delims), LAMBDA t : ~FcMatchDelim(t, delims)), max)

\* my_strtok: the scan notes where columns start and where the text is cut; the
\* last column there is room for runs to the end of the text.
MyStrtok(s, delims, max) ==
  LET first == SelectInSeq(s, LAMBDA c : c \notin delims)
      Look(st, i) ==
        CASE st.done -> st
          [] s[i] \in delims -> [st EXCEPT !.cuts = @ \cup {i}, !.wordEnd = TRUE]
          [] st.wordEnd -> [st EXCEPT !.starts = Append(@, i), !.wordEnd = FALSE,
                                      !.done = Len(st.starts) + 1 >= max]
          [] OTHER -> st
      end == FoldLeft(Look, [starts |-> << first >>, cuts |-> {}, wordEnd |-> FALSE, done |-> max = 1],
                      [k \in 1..(Len(s) - first) |-> first + k])
      Column(a) == SubSeq(s, a, Len(s) - Cardinality(UNION {c..Len(s) : c \in {x \in end.cuts : x > a}}))
  IN IF max <= 0 \/ first = 0 THEN << >> ELSE [k \in DOMAIN end.starts |-> Column(end.starts[k])]

-----------------------------------------------------------------------------
(* Searching and replacing *)

\* fc_memmem: 0 stands for NULL.
FcMemmem(s, needle) ==
  SelectInSubSeq([i \in 1..(Len(s) + 1) |-> i], 1, Len(s) - Len(needle) + 1,
                 LAMBDA i : \A k \in DOMAIN needle : s[i + k - 1] = needle[k])

StartsWith(s, needle) == Len(needle) <= Len(s) /\ Upto(s, Len(needle)) = needle
EndsWith(s, needle) == Len(needle) <= Len(s) /\ From(s, Len(s) - Len(needle) + 1) = needle

\* The loop of str_replace: stop when what is to be copied fills the room.
RECURSIVE ReplaceLoop(_, _, _, _, _)
ReplaceLoop(s, old, new, out, remain) ==
  LET p == FcMemmem(s, old)
      head == SubSeq(s, 1, p - 1)
  IN CASE p = 0 -> out \o Upto(s, remain)
       [] p > 1 /\ Len(head) >= remain -> out \o Upto(head, remain)
       [] Len(new) >= remain - Len(head) -> out \o head \o Upto(new, remain - Len(head))
       [] OTHER -> ReplaceLoop(From(s, p + Len(old)), old, new, out \o head \o new,
                               remain - Len(head) - Len(new))

\* str_replace, into dest_size > 0 bytes with the terminator.
StrReplace(s, old, new, size) ==
  IF old = << >> THEN Upto(s, size - 1) ELSE ReplaceLoop(s, old, new, << >>, size - 1)

\* replaceAll of str.cpp: the first place is replaced until there is none; n
\* bounds the calls.  The bool it returns is that of the last call, always false.
RECURSIVE ReplaceAllCpp(_, _, _, _)
ReplaceAllCpp(s, from, to, n) ==
  LET p == FcMemmem(s, from) IN
  IF p = 0 \/ n = 0 THEN [str |-> s, ends |-> p = 0]
  ELSE ReplaceAllCpp(Upto(s, p - 1) \o to \o From(s, p + Len(from)), from, to, n - 1)

-----------------------------------------------------------------------------
(* Numbers *)

\* add_thousands_separator: from the right, within the same buffer.
AddThousandsSeparator(s) ==
  LET sub == IF s[1] = Minus THEN 2 ELSE 1
      addings == (Len(s) - sub) \div 3
      Move(st, i) ==
        LET comma == (st.chars + 1) % 3 = 0 /\ st.added < addings
            m == [st.mem EXCEPT ![st.dest] = st.mem[i]]
        IN CASE st.done -> st
             [] comma -> [mem |-> [m EXCEPT ![st.dest - 1] = Comma], dest |-> st.dest - 2,
                          chars |-> st.chars + 1, added |-> st.added + 1, done |-> FALSE]
             [] OTHER -> [mem |-> m, dest |-> st.dest - 1, chars |-> st.chars + 1,
                          added |-> st.added, done |-> (st.chars + 1) % 3 = 0]
      start == [mem |-> s \o [k \in 1..addings |-> 0], dest |-> Len(s) + addings,
                chars |-> 0, added |-> 0, done |-> FALSE]
  IN IF Len(s) <= 3 THEN s
     ELSE FoldLeft(Move, start, [k \in 1..(Len(s) - sub + 1) |-> Len(s) + 1 - k]).mem

\* strtol and %d, base 10: blanks, a sign, digits; next is where it stopped, and
\* n the number of digits it saw.
Strtol(s, from) ==
  LET past(i, set) == CHOOSE j \in i..(Len(s) + 1) :
                        /\ j > Len(s) \/ s[j] \notin set
                        /\ \A k \in i..(j - 1) : s[k] \in set
      a == past(from, Blank)
      d == IF a <= Len(s) /\ s[a] \in {Minus, Plus} THEN a + 1 ELSE a
      e == past(d, Digit)
      num == FoldLeft(LAMBDA v, c : 10 * v + (c - 48), 0, SubSeq(s, d, e - 1))
  IN [n |-> IF e > d THEN e - d ELSE 0, next |-> IF e > d THEN e ELSE from,
      val |-> IF a <= Len(s) /\ s[a] = Minus THEN 0 - num ELSE num]

\* parse_bytes: a character that is no unit is passed over.
ParseBytes(s, unit) ==
  LET at(r, set) == r.next <= Len(s) /\ s[r.next] \in set
      InBytes(r) ==
        [ok |-> r.val >= 0,
         bytes |-> r.val * (CASE r.next > Len(s) -> unit
                              [] at(r, {71, 103}) -> Kilo * Kilo * Kilo
                              [] at(r, {77, 109}) -> Kilo * Kilo
                              [] at(r, {75, 107}) -> Kilo
                              [] OTHER -> 1)]
  IN InBytes(Strtol(s, 1))

\* get_time_item_from_str, "%d:%d:%d".
GetTimeItem(s) ==
  LET Following(r) == IF r.n > 0 /\ r.next <= Len(s) /\ s[r.next] = 58
                      THEN Strtol(s, r.next + 1) ELSE [n |-> 0, next |-> 0, val |-> 0]
      Item(h, m, second) ==
        [ok |-> h.n > 0 /\ m.n > 0 /\ h.val \in 0..23 /\ m.val \in 0..59 /\ second \in 0..59,
         hour |-> h.val, minute |-> m.val, second |-> second]
      Seconds(h, m, x) == Item(h, m, IF x.n > 0 THEN x.val ELSE 0)
      Minutes(h, m) == Seconds(h, m, Following(m))
      Hours(h) == Minutes(h, Following(h))
  IN Hours(Strtol(s, 1))

\* short2buff, int2buff and long2buff, into w bytes, the highest first; >> of a
\* negative number rounds down, as \div does.
Int2Buff(n, w) == [i \in 1..w |-> (n \div Radix^(w - i)) % Radix]

\* buff2short, buff2int and buff2long, with the sign.
Buff2Int(b) ==
  LET w == Len(b)
      u == FoldLeft(LAMBDA v, x : Radix * v + x, 0, b)
  IN IF u >= (Radix^w) \div 2 THEN u - Radix^w ELSE u

-----------------------------------------------------------------------------
(* Encodings *)

HexValue(c) == CASE c \in Digit -> c - 48 [] c \in 97..102 -> c - 87 [] c \in 65..70 -> c - 55
IsHex(c) == c \in Digit \cup 97..102 \cup 65..70
HexChar(v, a) == IF v < 10 THEN 48 + v ELSE a + v - 10

\* bin2hex, "%02x".
Bin2Hex(s) == FlattenSeq([i \in DOMAIN s |-> << HexChar(s[i] \div 16, 97), HexChar(s[i] % 16, 97) >>])

\* strtol of two characters, base 16, as a char.
StrtolHex(a, b) ==
  CASE IsHex(a) /\ IsHex(b) -> 16 * HexValue(a) + HexValue(b)
    [] IsHex(a) -> HexValue(a)
    [] a \in Blank \cup {Plus} /\ IsHex(b) -> HexValue(b)
    [] a = Minus /\ IsHex(b) -> (256 - HexValue(b)) % 256
    [] OTHER -> 0

\* hex2bin: an odd last character is dropped.
Hex2Bin(s) == [i \in 1..(Len(s) \div 2) |-> StrtolHex(s[2 * i - 1], s[2 * i])]

Plain(c) == c \in Digit \cup 97..122 \cup 65..90 \cup {95, 45, 46}

\* urlencode.
UrlEncode(s) ==
  FlattenSeq([i \in DOMAIN s |->
    CASE Plain(s[i]) -> << s[i] >>
      [] s[i] = 32 -> << Plus >>
      [] OTHER -> << Percent, HexChar(s[i] \div 16, 65), HexChar(s[i] % 16, 65) >>])

\* url_encode of str.cpp: blanks too, in small digits.
UrlEncodeCpp(s) ==
  FlattenSeq([i \in DOMAIN s |->
    IF Plain(s[i]) \/ s[i] = 126 THEN << s[i] >>
    ELSE << Percent, HexChar(s[i] \div 16, 97), HexChar(s[i] % 16, 97) >>])

\* urldecode_ex, and urldecode, which adds a terminator: a % that no two hex
\* digits follow stays.
RECURSIVE UrlDecode(_)
UrlDecode(s) ==
  IF s = << >> THEN << >>
  ELSE IF s[1] = Percent /\ Len(s) > 2 /\ IsHex(s[2]) /\ IsHex(s[3])
       THEN << 16 * HexValue(s[2]) + HexValue(s[3]) >> \o UrlDecode(From(s, 4))
       ELSE << IF s[1] = Plus THEN 32 ELSE s[1] >> \o UrlDecode(Tail(s))

-----------------------------------------------------------------------------
(* Paths *)

LastSlash(s) == SelectLastInSeq(s, LAMBDA c : c = Slash)
DirOf(s) == Upto(s, LastSlash(s) - 1)
BaseOf(s) == From(s, LastSlash(s) + 1)
CwdCut == IF Last(Cwd) = Slash THEN Front(Cwd) ELSE Cwd

\* getAbsolutePath: the directory of a file.
GetAbsolutePath(f) ==
  LET dir == DirOf(f) IN
  CASE dir # << >> /\ dir[1] = Slash -> dir
    [] dir # << >> -> CwdCut \o << Slash >> \o dir
    [] OTHER -> CwdCut

\* getExeAbsoluteFilename, of a program found in the search path `bin', which is
\* looked at for a name without a slash only (<< >>: not found there).
GetExeAbsoluteFilename(f, bin) ==
  LET dir == DirOf(f) IN
  CASE LastSlash(f) = 0 /\ bin # << >> -> bin \o << Slash >> \o f
    [] dir # << >> /\ dir[1] = Slash -> dir \o << Slash >> \o BaseOf(f)
    [] dir # << >> -> CwdCut \o << Slash >> \o dir \o << Slash >> \o BaseOf(f)
    [] OTHER -> CwdCut \o << Slash >> \o BaseOf(f)

\* resolve_path.
ResolvePath(from, f) ==
  CASE f # << >> /\ f[1] = Slash -> f
    [] LastSlash(from) # 0 -> DirOf(from) \o << Slash >> \o f
    [] OTHER -> f

\* chopPath.
ChopPath(s) == IF s # << >> /\ Last(s) = Slash THEN Front(s) ELSE s

-----------------------------------------------------------------------------
(* Buffers *)

\* buffer_strcpy (room = 1, for the terminator) and buffer_memcpy (room = 0):
\* what they leave, and, when memory runs out, a buffer of nothing.
BufferCopy(b, s, room) ==
  LET grown == IF b.alloc <= Len(s) THEN Len(s) + room ELSE b.alloc
  IN [alloc |-> grown, length |-> Len(s), written |-> Len(s) + room]
BufferCopyFails(s) == [alloc |-> 0, length |-> Len(s), written |-> 0]

-----------------------------------------------------------------------------
(* What they should give *)

Ascending(S, n) == SelectSeq([i \in 1..n |-> i], LAMBDA i : i \in S)

\* The stretches of s without delimiters, as long as they can be.
Words(s, delims) ==
  LET starts == {i \in DOMAIN s : s[i] \notin delims /\ (i = 1 \/ s[i - 1] \in delims)}
      last(i) == CHOOSE j \in i..Len(s) : (j = Len(s) \/ s[j + 1] \in delims)
                                          /\ \A k \in i..j : s[k] \notin delims
      seq == Ascending(starts, Len(s))
  IN [k \in DOMAIN seq |-> SubSeq(s, seq[k], last(seq[k]))]

RECURSIVE Joined(_, _)
Joined(cols, sep) ==
  IF cols = << >> THEN << >>
  ELSE IF Len(cols) = 1 THEN cols[1] ELSE cols[1] \o << sep >> \o Joined(Tail(cols), sep)

RECURSIVE Replaced(_, _, _)
Replaced(s, old, new) ==
  CASE s = << >> \/ old = << >> -> s
    [] IsPrefix(old, s) /\ old # << >> -> new \o Replaced(From(s, Len(old) + 1), old, new)
    [] OTHER -> << s[1] >> \o Replaced(Tail(s), old, new)

\* An absolute name for a path, without slashes that follow one another.
Absolute(p) ==
  LET q == IF p # << >> /\ p[1] = Slash THEN p ELSE Cwd \o << Slash >> \o p
      keep == Ascending({i \in DOMAIN q : i = 1 \/ q[i] # Slash \/ q[i - 1] # Slash}, Len(q))
  IN [k \in DOMAIN keep |-> q[keep[k]]]

\* Trimming takes the blanks at the ends and nothing else, whichever of the two
\* families does it and in whichever order.
TrimSound(s) ==
  LET t == Trim(s)
      whole == [str |-> 1, len |-> Len(s)]
      v == StringLtrim(s, StringRtrim(s, whole))
  IN /\ \E i \in 0..Len(s) :
          /\ SubSeq(s, i + 1, i + Len(t)) = t
          /\ \A k \in 1..i \cup (i + Len(t) + 1)..Len(s) : s[k] \in Blank
     /\ t # << >> => Head(t) \notin Blank /\ Last(t) \notin Blank
     /\ SubSeq(s, v.str, v.str + v.len - 1) = t
     /\ TrimRight(TrimLeft(s)) = t
     /\ Upper(Lower(s)) = Upper(s)

\* The columns put together again are the text, no column but a last one that
\* took the rest holds a separator, and the tokenizers find the words.
SplitSound(s, sep, max) ==
  LET cols == Split(s, sep, max)
      words == Words(s, {sep})
      toks == MyStrtok(s, {sep}, max)
  IN /\ Joined(cols, sep) = s
     /\ max > 0 => Len(cols) <= max /\ SplitEx(s, sep, max) = cols
     /\ \A i \in DOMAIN cols : sep \in ToSet(cols[i]) => i = max
     /\ FcSplitString(s, {sep}, max) = Upto(words, max)
     /\ max > 0 =>
          /\ Len(toks) = Least(Len(words), max)
          /\ \A i \in DOMAIN toks : IF i = max THEN IsPrefix(words[i], toks[i]) /\ IsSuffix(toks[i], s)
                                               ELSE toks[i] = words[i]

\* A search finds the first place; str_replace gives the text with every
\* occurrence replaced, cut to the room.
ReplaceSound(s, old, new, size) ==
  LET p == FcMemmem(s, old)
      all == Replaced(s, old, new)
  IN /\ p # 0 => StartsWith(From(s, p), old) /\ EndsWith(Upto(s, p + Len(old) - 1), old)
     /\ \A i \in 1..Len(s) : StartsWith(From(s, i), old) => p \in 1..i
     /\ StrReplace(s, old, new, size) = Upto(all, size - 1)

\* replaceAll ends when the replacement is shorter or has no character of what it
\* replaces, in the latter case with every occurrence replaced; it does not end
\* when the replacement holds what it replaces and there is something to replace.
ReplaceAllSound(s, from, to) ==
  LET r == ReplaceAllCpp(s, from, to, Len(s) + 1) IN
  /\ Len(to) < Len(from) => r.ends
  /\ from # << >> /\ to # << >> /\ ToSet(from) \cap ToSet(to) = {} =>
       r.ends /\ r.str = Replaced(s, from, to)
  /\ r.ends /\ FcMemmem(to, from) # 0 => r.str = s

\* Numbers keep their digits and get a comma before every third from the end;
\* numbers in bytes come back, with their sign.
NumberSound(s) ==
  /\ s # << >> /\ (\A i \in DOMAIN s : s[i] \in Digit \/ (i = 1 /\ s[i] = Minus)) =>
       LET t == AddThousandsSeparator(s) IN
       /\ SelectSeq(t, LAMBDA c : c # Comma) = s
       /\ \A i \in DOMAIN t :
            (t[i] = Comma) <=> (Len(t) - i) % 4 = 3 /\ i > 1 /\ t[i - 1] # Minus
  /\ \A t \in {GetTimeItem(s)} : t.ok =>
       t.hour * 3600 + t.minute * 60 + t.second \in 0..86399
  /\ Len(s) \in {2, 4, 8} =>
       LET b == [i \in DOMAIN s |-> s[i] % Radix] IN Int2Buff(Buff2Int(b), Len(b)) = b
  /\ ParseBytes(s, 1).ok /\ s # << >> /\ Last(s) \in Digit /\ (\E i \in DOMAIN s : s[i] \in Digit) =>
       ParseBytes(s, Kilo).bytes \in {ParseBytes(s, 1).bytes, ParseBytes(Append(s, 75), 1).bytes}

\* What was encoded is decoded; a decoded text is never longer than its source,
\* so that it can be decoded in place; urldecode leaves what it cannot read.
EncodingSound(s) ==
  /\ Hex2Bin(Bin2Hex(s)) = s /\ Hex2Bin(Upper(Bin2Hex(s))) = s
  /\ UrlDecode(UrlEncode(s)) = s /\ UrlDecode(UrlEncodeCpp(s)) = s
  /\ \A c \in ToSet(UrlEncode(s)) : Plain(c) \/ c \in {Percent, Plus}
  /\ Len(UrlDecode(s)) <= Len(s)
  /\ Percent \notin ToSet(s) => UrlDecode(s) = ReplaceAll(s, Plus, 32)

\* The directory and the name make the file that was asked for, whatever the
\* working directory.  getAbsolutePath and getExeAbsoluteFilename take a file in
\* the root for one in the working directory (the directory part of "/a" is
\* empty), which is excepted.
PathSound(s) ==
  /\ LastSlash(s) # 1 =>
       /\ Absolute(GetAbsolutePath(s) \o << Slash >> \o BaseOf(s)) = Absolute(s)
       /\ Absolute(GetExeAbsoluteFilename(s, << >>)) = Absolute(s)
  /\ s # << >> => GetExeAbsoluteFilename(s, << >>)[1] = Slash
  /\ LastSlash(s) = 0 => ResolvePath(s, << 97 >>) = << 97 >>
  /\ LastSlash(s) # 0 => Absolute(ResolvePath(s, << 97 >>)) = Absolute(Upto(s, LastSlash(s)) \o << 97 >>)
  /\ IsPrefix(ChopPath(s), s)

BufferSound(s, alloc) ==
  \A room \in 0..1 :
    LET b == BufferCopy([alloc |-> alloc, length |-> 0, written |-> 0], s, room) IN
    /\ b.written <= b.alloc /\ b.alloc >= alloc
    /\ BufferCopy(BufferCopyFails(s), s, room).alloc >= b.written
-----------------------------------------------------------------------------
(***************************************************************************)
(* The loops around read and write in shared_func.c, and the response that *)
(* get_url_content_ex of http_func.c collects.  What the calls do is given *)
(* as a sequence of outcomes: k >= 0 bytes at most, Interrupted, or        *)
(* CallFailed; a call beyond the sequence transfers all it is asked for.   *)
(***************************************************************************)
Interrupted == -1
CallFailed  == -2
Newline     == 10

Rest(out)        == IF out = << >> THEN << >> ELSE Tail(out)
Outcome(out, n)  == IF out = << >> \/ Head(out) > n THEN n ELSE Head(out)
Bytes(s, i, n)   == SubSeq(s, i + 1, Least(i + n, Len(s)))     \* n bytes from offset i
-----------------------------------------------------------------------------
\* fc_safe_write of n bytes, of which left are still to be written: interrupted
\* and short calls are repeated.
RECURSIVE SafeWrite(_, _, _)
SafeWrite(n, left, out) ==
  LET r == Outcome(out, left)
  IN CASE left = 0 -> [ret |-> n, written |-> n]
       [] left > 0 /\ r = Interrupted -> SafeWrite(n, left, Rest(out))
       [] left > 0 /\ r = CallFailed -> [ret |-> IF n = left THEN -1 ELSE n - left, written |-> n - left]
       [] OTHER -> SafeWrite(n, left - r, Rest(out))

\* fc_safe_read of n bytes at pos: short reads are repeated until the end.
RECURSIVE SafeRead(_, _, _, _)
SafeRead(file, pos, n, out) ==
  LET r    == Outcome(out, n)
      k    == Least(r, Len(file) - pos)
      rest == SafeRead(file, pos + k, n - k, Rest(out))
  IN CASE n = 0 -> [ret |-> 0, data |-> << >>]
       [] n > 0 /\ r = Interrupted -> SafeRead(file, pos, n, Rest(out))
       [] n > 0 /\ r = CallFailed -> [ret |-> -1, data |-> << >>]
       [] n > 0 /\ k = 0 -> [ret |-> 0, data |-> << >>]
       [] OTHER -> [ret |-> k + (IF rest.ret < 0 THEN 0 ELSE rest.ret),
                    data |-> Bytes(file, pos, k) \o rest.data]

\* A plausible slip: what was read beyond the newline is not given back.
RewoundNot(pos, k, nl) == pos + k

\* Where fd_gets leaves the file after a read of k bytes with the newline at nl.
Rewound(pos, k, nl) == pos + nl

\* fd_gets: reads of once bytes up to a newline, the end or room bytes; what is
\* beyond the newline is given back with lseek.
RECURSIVE FdGets(_, _, _, _, _)
FdGets(file, pos, room, once0, out) ==
  LET once == Least(IF once0 <= 0 THEN 1 ELSE once0, room)
      r    == Outcome(out, once)
      got  == Bytes(file, pos, r)
      nl   == SelectInSeq(got, LAMBDA c : c = Newline)
      rest == FdGets(file, pos + Len(got), room - Len(got), once, Rest(out))
  IN CASE room <= 0 -> [ret |-> 0, line |-> << >>, pos |-> pos]
       [] room > 0 /\ r < 0 -> [ret |-> -1, line |-> << >>, pos |-> pos]
       [] room > 0 /\ got = << >> -> [ret |-> 0, line |-> << >>, pos |-> pos]
       [] room > 0 /\ nl > 0 -> [ret |-> nl, line |-> SubSeq(got, 1, nl), pos |-> Rewound(pos, Len(got), nl)]
       [] OTHER -> [ret |-> IF rest.ret < 0 THEN -1 ELSE Len(got) + rest.ret,
                    line |-> got \o rest.line, pos |-> rest.pos]

\* getFileContentEx: one read, with room for the terminator.
GetFileContentEx(file, offset, size, out) ==
  LET r == Outcome(out, size - 1)
  IN CASE size <= 0 -> [err |-> "EINVAL", data |-> << >>]
       [] size > 0 /\ r < 0 -> [err |-> "EIO", data |-> << >>]
       [] OTHER -> [err |-> "ok", data |-> Bytes(file, offset, r)]
-----------------------------------------------------------------------------
(* get_url_content_ex.  A response is a sequence of symbols: 32 a blank, 10 *)
(* the two line ends behind the header, 0 a NUL, other numbers themselves.  *)

\* The buffer is doubled while it is full.
RECURSIVE Room(_, _)
Room(alloc, n) == IF n < alloc THEN alloc ELSE Room(2 * alloc, n)

\* The receiving loop: all that comes until the connection ends, or, in a
\* buffer of the caller's, until it is full.
Collected(response, alloc, own) ==
  IF own /\ Len(response) >= alloc THEN [full |-> TRUE, data |-> SubSeq(response, 1, alloc), alloc |-> alloc]
  ELSE [full |-> FALSE, data |-> response, alloc |-> IF own THEN alloc ELSE Room(alloc, Len(response))]

\* The content as C string functions see it.
AsString(s) ==
  LET z == SelectInSeq(s, LAMBDA c : c = 0) IN IF z = 0 THEN s ELSE SubSeq(s, 1, z - 1)

\* Cutting the header off: the status behind the first blank, the content
\* behind the empty line.
Parsed(data) ==
  LET s     == AsString(data)
      blank == SelectInSeq(s, LAMBDA c : c = Newline)
      space == SelectInSeq(s, LAMBDA c : c = 32)
  IN IF blank = 0 \/ space = 0 \/ space > blank THEN [err |-> "EINVAL", status |-> 0, content |-> data]
     ELSE [err |-> "ok", status |-> IF space < Len(data) THEN data[space + 1] ELSE 0,
           content |-> SubSeq(data, blank + 1, Len(data))]

\* get_url_content_ex, with the step at which it fails, if any, and the way the
\* connection ends.  A caller's buffer that is too small leaves the socket open.
GetUrlContentEx(fails, response, end, alloc, own) ==
  LET c == Collected(response, alloc, own)
      p == Parsed(c.data)
      Gone(e) == [err |-> e, status |-> 0, content |-> << >>, sock |-> "closed",
                  buffer |-> IF own THEN "own" ELSE "none"]
  IN CASE fails \in {"url", "resolve", "socket", "connect", "send", "malloc"} -> Gone(fails)
       [] fails = "none" /\ c.full -> [Gone("ENOSPC") EXCEPT !.sock = "open", !.content = c.data]
       [] fails = "none" /\ ~c.full /\ end # "ENOTCONN" ->
            [Gone(end) EXCEPT !.content = IF own THEN c.data ELSE << >>]
       [] OTHER -> [Gone(p.err) EXCEPT !.status = p.status,
                      !.content = IF p.err = "ok" \/ own THEN p.content ELSE << >>,
                      !.buffer = IF own THEN "own" ELSE IF p.err = "ok" THEN "given" ELSE "none"]
-----------------------------------------------------------------------------
\* The line a caller of fd_gets expects.
LineAt(file, pos, room) ==
  LET rest == Bytes(file, pos, room)
      nl   == SelectInSeq(rest, LAMBDA c : c = Newline)
  IN IF nl = 0 THEN rest ELSE SubSeq(rest, 1, nl)

NoFailure(out) == CallFailed \notin Range(out)
NoEnd(out)     == \A i \in DOMAIN out : out[i] # 0

\* Whatever the calls do: fc_safe_write says how much is written and stops
\* early only for an error; fc_safe_read returns a stretch of the file, and all
\* of it without an error; fd_gets returns the next line, however much it
\* reads at once, and leaves the file behind it.
LoopsSound(file, out) ==
  /\ \A n \in 0 .. 3 :
       LET w == SafeWrite(n, n, out) IN
         /\ w.ret = w.written \/ (w.ret = -1 /\ w.written = 0 /\ ~NoFailure(out))
         /\ w.written < n => ~NoFailure(out)
  /\ \A n \in 0 .. 4, pos \in 0 .. Len(file) :
       LET r == SafeRead(file, pos, n, out) IN
         /\ r.data = Bytes(file, pos, Len(r.data))
         /\ r.ret >= 0 => r.ret = Len(r.data)
         /\ NoFailure(out) /\ NoEnd(out) => r.data = Bytes(file, pos, n)
  /\ \A size \in 0 .. 5, once \in 0 .. 3, pos \in 0 .. Len(file) :
       LET g == FdGets(file, pos, size - 1, once, SelectSeq(out, LAMBDA x : x # 0))
           f == GetFileContentEx(file, pos, size, out)
       IN /\ g.ret >= 0 =>
               /\ g.line = LineAt(file, pos, size - 1)
               /\ g.ret = Len(g.line) /\ g.pos = pos + g.ret
          /\ f.err = "ok" => Len(f.data) < size /\ f.data = Bytes(file, pos, Len(f.data))

Failures == {"none", "url", "resolve", "socket", "connect", "send", "malloc"}

\* get_url_content_ex gives out the whole content and the status, or an error;
\* a buffer it allocated is freed on every error, and the socket is closed
\* except for a buffer of the caller's that is too small (README section 5).
UrlSound(response) ==
  \A fails \in Failures, end \in {"ENOTCONN", "ETIMEDOUT"}, alloc \in 1 .. 4, own \in BOOLEAN :
    \A r \in {GetUrlContentEx(fails, response, end, alloc, own)},
       blank \in {SelectInSeq(response, LAMBDA c : c = Newline)} :
       /\ r.sock = "open" => r.err = "ENOSPC"
       /\ r.err # "ok" => r.buffer # "given"
       /\ r.err = "ok" => /\ fails = "none" /\ end = "ENOTCONN" /\ blank > 0
                          /\ r.content = SubSeq(response, blank + 1, Len(response))
                          /\ own => Len(response) < alloc
       /\ Collected(response, alloc, own).alloc >= Len(Collected(response, alloc, own).data)
-----------------------------------------------------------------------------
(***************************************************************************)
(* load_allow_hosts of shared_func.c: the values of allow_hosts, each a    *)
(* host, a network in CIDR form or a name with a list of numbers in        *)
(* brackets, become a sorted array of addresses that grows as it is        *)
(* needed.  The list of a range is a sequence of tokens: << "n", number,   *)
(* digits >> for a run of digits, << "b" >> for blanks, << "," >>,         *)
(* << "-" >>, and << "x" >> for anything else; an address is a number      *)
(* below 2^AddrBits.                                                       *)
(***************************************************************************)
None == -1       \* INADDR_NONE
GetIpaddrByName(n) == IF n \in DOMAIN Address THEN Address[n] ELSE None
-----------------------------------------------------------------------------
(* The array: [ips, alloc, err, over]; over: an address was written beyond  *)
(* the allocation.                                                          *)

\* A plausible slip: the addresses that are there already are not counted.
CheckReallocExtra(s, target) ==
  [s EXCEPT !.alloc = IF @ < target - Len(s.ips) THEN target - Len(s.ips) ELSE @]

\* check_realloc_allow_ips
CheckRealloc(s, target) == [s EXCEPT !.alloc = IF @ < target THEN target ELSE @]

AddIp(s, ip) == [s EXCEPT !.over = @ \/ Len(s.ips) >= s.alloc, !.ips = Append(@, ip)]
Fail(s)      == [s EXCEPT !.err = "EINVAL"]

\* parse_cidr_ips: the host bits are or-ed into the address as it is written.
ParseCidr(s, v, remain) ==
  LET hosts == 2 ^ (AddrBits - v.bits)
  IN IF v.bits < MinNetBits \/ v.bits >= AddrBits \/ ~v.ok THEN Fail(s)
     ELSE FoldLeft(AddIp, CheckRealloc(s, Len(s.ips) + hosts + remain),
                   [h \in 1 .. hosts |-> v.ip | (h - 1)])

\* The pieces between the commas, without their blanks.
RECURSIVE Pieces(_)
Pieces(t) ==
  LET comma == {i \in DOMAIN t : t[i] = << "," >>}
      c     == CHOOSE i \in comma : \A j \in comma : i <= j
      Dense(u) == SelectSeq(u, LAMBDA x : x # << "b" >>)
  IN IF comma = {} THEN << Dense(t) >>
     ELSE << Dense(SubSeq(t, 1, c - 1)) >> \o Pieces(SubSeq(t, c + 1, Len(t)))

IsNumber(x) == x[1] = "n"

\* The names from a to b; all have the width of the first number.
Names(head, a, b) ==
  [i \in 1 .. (IF b[2] >= a[2] THEN b[2] - a[2] + 1 ELSE 0) |-> << head, a[2] + (i - 1), a[3] >>]

AddName(s, n) ==
  IF GetIpaddrByName(n) = None THEN s ELSE AddIp(s, GetIpaddrByName(n))

\* parse_range_hosts: one number or range after the other; an error ends it.
ParseRange(s0, v, remain) ==
  LET Piece(s, p) ==
        LET names == Names(v.head, p[1], p[Len(p)])
        IN CASE s.err # "ok" -> s
             [] (Len(p) = 1 /\ IsNumber(p[1]))
                \/ (Len(p) = 3 /\ IsNumber(p[1]) /\ p[2] = << "-" >> /\ IsNumber(p[3])) ->
                  FoldLeft(AddName,
                           CheckRealloc(s, Len(s.ips) + remain + (p[Len(p)][2] - p[1][2] + 1)), names)
             [] OTHER -> Fail(s)
  IN FoldLeft(Piece, s0, Pieces(v.toks))

\* One value: nothing, a network, a host, or a range, which must be closed.
LoadItem(s, v, remain) ==
  CASE v.k = "empty" -> s
    [] v.k = "cidr"  -> ParseCidr(s, v, remain)
    [] v.k = "host"  -> IF GetIpaddrByName(v.name) = None THEN s
                        ELSE AddIp(CheckRealloc(s, Len(s.ips) + remain), GetIpaddrByName(v.name))
    [] v.k = "range" -> IF v.closed THEN ParseRange(s, v, remain) ELSE Fail(s)

AnyAddress == [count |-> -1, ips |-> << >>, err |-> "ok", over |-> FALSE]

\* load_allow_hosts: no value, or "*", allows every address; after an error the
\* array is left as it is, unsorted.
LoadAllowHosts(values) ==
  LET Step(s, i) == IF s.err = "ok" THEN LoadItem(s, values[i], Len(values) - i + 1) ELSE s
      end == FoldLeft(Step, [ips |-> << >>, alloc |-> Len(values), err |-> "ok", over |-> FALSE],
                      [i \in DOMAIN values |-> i])
  IN IF values = << >> \/ \E i \in DOMAIN values : values[i].k = "any" THEN AnyAddress
     ELSE [count |-> Len(end.ips), err |-> end.err, over |-> end.over,
           ips |-> IF end.err = "ok" THEN SortSeq(end.ips, <) ELSE end.ips]
-----------------------------------------------------------------------------
\* What a value allows, as its author would put it.
Meant(v) ==
  CASE v.k = "host"  -> {GetIpaddrByName(v.name)} \ {None}
    [] v.k = "cidr"  -> {a \in 0 .. (2 ^ AddrBits - 1) :
                           a \div 2 ^ (AddrBits - v.bits) = v.ip \div 2 ^ (AddrBits - v.bits)}
    [] v.k = "range" -> {Address[n] : n \in {m \in DOMAIN Address : m[1] = v.head /\
                           \E p \in Range(Pieces(v.toks)) :
                             m[3] = p[1][3] /\ m[2] \in p[1][2] .. Last(p)[2]}}
    [] OTHER -> {}

\* A network whose address has no host bits set.
Clean(v) == v.k # "cidr" \/ v.ip % 2 ^ (AddrBits - v.bits) = 0

\* The array is sorted, nothing is written beyond what was allocated, and no
\* address is in it that no value allows; every address that a value allows is
\* there, except for networks written with host bits set (README section 5).
HostsSound(values) ==
  \A r \in {LoadAllowHosts(values)} :
     /\ ~r.over
     /\ r.err = "ok" /\ r.count >= 0 =>
          \A all \in {UNION {Meant(values[i]) : i \in DOMAIN values}} :
            /\ \A i, j \in 1 .. r.count : i < j => r.ips[i] <= r.ips[j]
            /\ Range(r.ips) \subseteq all
            /\ (\A i \in DOMAIN values : Clean(values[i])) => Range(r.ips) = all

\* A network allows all of its addresses, however it is written.
WholeNetworks(values) ==
  LET r == LoadAllowHosts(values)
  IN r.err = "ok" /\ r.count >= 0 => Range(r.ips) = UNION {Meant(values[i]) : i \in DOMAIN values}
-----------------------------------------------------------------------------
(* base64.c *)

\* base64_init_ex, with the separator base64_set_line_separator gives, and the
\* line length base64_set_line_length rounds.
Base64Init(line, sep) ==
  [line |-> (line \div 4) * 4, sep |-> sep, pad |-> 61,
   chars |-> [v \in 0..63 |-> CASE v < 26 -> 65 + v [] v < 52 -> 71 + v [] v < 62 -> v - 4
                                [] v = 62 -> 43 [] v = 63 -> 47]]

Ignored == -1
Padding == -2
Base64Value(x, c) ==
  CASE c = x.pad -> Padding
    [] \E v \in 0..63 : x.chars[v] = c -> CHOOSE v \in 0..63 : x.chars[v] = c
    [] OTHER -> Ignored

\* base64_get_encode_length.
Base64EncodeLength(x, n) ==
  LET out == ((n + 2) \div 3) * 4
      lines == (out + x.line - 1) \div x.line - 1
  IN IF x.line = 0 THEN out ELSE out + (IF lines > 0 THEN lines ELSE 0) * Len(x.sep)

\* Mutant: a new line starts one group late.
LineFullLate(x, pos) == pos > x.line

\* A new line starts when the next four characters do not fit on this one.
LineFull(x, pos) == pos + 4 > x.line

\* base64_encode_ex: groups of three bytes, the last one filled with zeros; a
\* separator before a group that does not fit on the line; then the characters
\* that stand for the filling become padding, or are cut off.
Base64Encode(x, s, pad) ==
  LET Group(st, g) ==
        LET breaks == LineFull(x, st.pos)
            at(k) == IF 3 * g + k <= Len(s) THEN s[3 * g + k] ELSE 0
            n == 65536 * at(1) + 256 * at(2) + at(3)
        IN [out |-> st.out \o (IF breaks /\ x.line # 0 THEN x.sep ELSE << >>)
                     \o [k \in 1..4 |-> x.chars[(n \div 64^(4 - k)) % 64]],
            pos |-> IF breaks THEN 4 ELSE st.pos + 4]
      all == FoldLeft(Group, [out |-> << >>, pos |-> 0], [g \in 1..((Len(s) + 2) \div 3) |-> g - 1]).out
      over == (3 - (Len(s) % 3)) % 3
  IN SubSeq(all, 1, Len(all) - over) \o [k \in 1..(IF pad THEN over ELSE 0) |-> x.pad]

\* base64_decode: dest_len, which is negative when there is more padding than
\* text, and the bytes.
Base64Decode(x, s) ==
  LET Take(st, c) ==
        LET v == Base64Value(x, c)
            n == 64 * st.combined + (IF v = Padding THEN 0 ELSE v)
            d == st.dummies + (IF v = Padding THEN 1 ELSE 0)
        IN CASE v = Ignored -> st
             [] st.cycle = 3 -> [out |-> st.out \o << n \div 65536, (n \div 256) % 256, n % 256 >>,
                                 combined |-> 0, cycle |-> 0, dummies |-> d]
             [] OTHER -> [st EXCEPT !.combined = n, !.cycle = @ + 1, !.dummies = d]
      end == FoldLeft(Take, [out |-> << >>, combined |-> 0, cycle |-> 0, dummies |-> 0], s)
      n == Len(end.out) - end.dummies
  IN IF end.cycle # 0 THEN [len |-> 0, bytes |-> << >>] ELSE [len |-> n, bytes |-> Upto(end.out, n)]

\* base64_decode_auto: padding for what is missing of a multiple of four, line
\* separators counted as characters.
Base64DecodeAuto(x, s) ==
  Base64Decode(x, s \o [k \in 1..((4 - (Len(s) % 4)) % 4) |-> x.pad])

\* What was encoded is decoded, with lines or without, with padding or, by
\* base64_decode_auto, without; base64_get_encode_length is the length the
\* encoder needs, which the callers allocate.
Base64Sound(s, line, sep) ==
  LET x == Base64Init(line, sep)
      padded == Base64Encode(x, s, TRUE)
      bare == Base64Encode(x, s, FALSE)
      flat == Base64Init(0, sep)
  IN /\ Base64Decode(x, padded) = [len |-> Len(s), bytes |-> s]
     /\ Len(padded) = Base64EncodeLength(x, Len(s))
     /\ IsPrefix(bare, padded)
     /\ Base64DecodeAuto(flat, Base64Encode(flat, s, FALSE)) = [len |-> Len(s), bytes |-> s]
     /\ \A i \in DOMAIN padded : padded[i] = x.pad => i + 1 >= Len(padded)

-----------------------------------------------------------------------------
(* json_parser.c *)

Quote == 34
Apostrophe == 39
Backslash == 92
JsonToken(c) == c \in Digit \cup 97..122 \cup 65..90 \cup {95, 45, 46}
JsonSpace == {32, 9, 13, 10}

\* json_escape_string; the letters are those of \t, \r, \n and \b.
JsonEscape(s) ==
  LET esc == [c \in {92, 9, 13, 10, 8, 34, 39} |->
                CASE c = 9 -> 116 [] c = 13 -> 114 [] c = 10 -> 110 [] c = 8 -> 98 [] OTHER -> c]
  IN FlattenSeq([i \in DOMAIN s |-> IF s[i] \in DOMAIN esc THEN << Backslash, esc[s[i]] >> ELSE << s[i] >>])

\* The switch of next_json_element; \b gives a form feed.
Unescape == [c \in {92, 47, 116, 114, 110, 98, 34, 39} |->
               CASE c = 116 -> 9 [] c = 114 -> 13 [] c = 110 -> 10 [] c = 98 -> 12 [] OTHER -> c]

\* The inside of a quoted element: where it ends, past the quote.
RECURSIVE JsonQuoted(_, _, _, _)
JsonQuoted(s, p, q, el) ==
  CASE p > Len(s) -> [ok |-> FALSE, p |-> p, el |-> el]
    [] s[p] = q -> [ok |-> TRUE, p |-> p + 1, el |-> el]
    [] s[p] = Backslash ->
         IF p + 1 > Len(s) \/ s[p + 1] \notin DOMAIN Unescape THEN [ok |-> FALSE, p |-> p + 1, el |-> el]
         ELSE JsonQuoted(s, p + 2, q, Append(el, Unescape[s[p + 1]]))
    [] OTHER -> JsonQuoted(s, p + 1, q, Append(el, s[p]))

\* next_json_element: at p <= Len(s), or at the end in a map, where nothing is
\* read (the closing bracket is no token).  s is what the brackets enclose.
NextJsonElement(s, p) ==
  IF p <= Len(s) /\ s[p] \in {Quote, Apostrophe} THEN JsonQuoted(s, p + 1, s[p], << >>)
  ELSE LET e == SelectInSubSeq(s, p, Len(s), LAMBDA c : ~JsonToken(c))
           n == IF e = 0 THEN Len(s) + 1 ELSE e
       IN [ok |-> TRUE, p |-> n, el |-> SubSeq(s, p, n - 1)]

SkipSpaces(s, p) ==
  LET e == SelectInSubSeq(s, p, Len(s), LAMBDA c : c \notin JsonSpace) IN IF e = 0 THEN Len(s) + 1 ELSE e

Failed(used) == [ok |-> FALSE, els |-> << >>, used |-> used]

\* Mutant: the comma may be missing.
SeparatedAnyhow(s, c) == TRUE

\* A comma, or the end, at c.
Separated(s, c) == c <= Len(s) => s[c] = Comma

\* The loop of decode_json_array; used is what it has written of the buffer.
RECURSIVE DecodeArrayLoop(_, _, _, _)
DecodeArrayLoop(s, from, els, used) ==
  LET p == SkipSpaces(s, from)
      e == NextJsonElement(s, p)
      c == SkipSpaces(s, e.p)
      u == used + Len(e.el) + 1
  IN CASE p > Len(s) -> [ok |-> TRUE, els |-> els, used |-> used]
       [] p <= Len(s) /\ s[p] = Comma -> Failed(used)
       [] OTHER -> IF ~e.ok THEN Failed(u - 1)
                   ELSE IF ~Separated(s, c) THEN Failed(u)
                   ELSE DecodeArrayLoop(s, c + 1, Append(els, e.el), u)

\* decode_json_array and prepare_json_parse.
DecodeJsonArray(s) ==
  IF Len(s) < 2 \/ s[1] # 91 \/ Last(s) # 93 THEN Failed(0)
  ELSE DecodeArrayLoop(SubSeq(s, 2, Len(s) - 1), 1, << >>, 0)

RECURSIVE DecodeMapLoop(_, _, _, _)
DecodeMapLoop(s, from, els, used) ==
  LET p == SkipSpaces(s, from)
      k == NextJsonElement(s, p)
      colon == SkipSpaces(s, k.p)
      v == NextJsonElement(s, SkipSpaces(s, colon + 1))
      c == SkipSpaces(s, v.p)
      u == used + Len(k.el) + 1
  IN CASE p > Len(s) -> [ok |-> TRUE, els |-> els, used |-> used]
       [] p <= Len(s) /\ s[p] = Comma -> Failed(used)
       [] OTHER -> IF ~k.ok THEN Failed(u - 1)
                   ELSE IF ~(colon <= Len(s) /\ s[colon] = 58) THEN Failed(u)
                   ELSE IF ~v.ok THEN Failed(u + Len(v.el))
                   ELSE IF ~Separated(s, c) THEN Failed(u + Len(v.el) + 1)
                   ELSE DecodeMapLoop(s, c + 1, Append(els, << k.el, v.el >>), u + Len(v.el) + 1)

\* decode_json_map.
DecodeJsonMap(s) ==
  IF Len(s) < 2 \/ s[1] # 123 \/ Last(s) # 125 THEN Failed(0)
  ELSE DecodeMapLoop(SubSeq(s, 2, Len(s) - 1), 1, << >>, 0)

JsonQuote(s) == << Quote >> \o JsonEscape(s) \o << Quote >>

SumOf(seq) == FoldLeft(LAMBDA a, b : a + b, 0, seq)

\* encode_json_array and encode_json_map: the text, and the size of the memory
\* allocated for it and its terminator.
EncodeJsonArray(els) ==
  [text |-> << 91 >> \o FlattenSeq([i \in DOMAIN els |->
              (IF i > 1 THEN << Comma >> ELSE << >>) \o JsonQuote(els[i])]) \o << 93 >>,
   size |-> 3 + SumOf([i \in DOMAIN els |-> 2 * Len(els[i]) + 3])]
EncodeJsonMap(els) ==
  [text |-> << 123 >> \o FlattenSeq([i \in DOMAIN els |->
              (IF i > 1 THEN << Comma >> ELSE << >>) \o JsonQuote(els[i][1]) \o << 58 >> \o JsonQuote(els[i][2])])
            \o << 125 >>,
   size |-> 3 + SumOf([i \in DOMAIN els |-> 2 * (Len(els[i][1]) + Len(els[i][2]) + 2) + 1])]

\* detect_json_type.
DetectJsonType(s) ==
  CASE Len(s) >= 2 /\ s[1] = 91 /\ Last(s) = 93 -> "array"
    [] Len(s) >= 2 /\ s[1] = 123 /\ Last(s) = 125 -> "map"
    [] OTHER -> "string"

\* The text between the brackets: elements never write past the buffer, one
\* byte longer than that text; what was decoded and encoded is decoded to the
\* same again; any elements are encoded within the memory allocated and come
\* back; and a text without quotes is read as its columns.
JsonSound(s) ==
  LET arr == << 91 >> \o s \o << 93 >>
      map == << 123 >> \o s \o << 125 >>
      Word(t) == t # << >> /\ \A i \in DOMAIN t : JsonToken(t[i])
  IN \A a \in {DecodeJsonArray(arr)}, m \in {DecodeJsonMap(map)}, els \in {Split(s, 44, 0)} :
     \A cols \in {[i \in DOMAIN els |-> Trim(els[i])]} :
     /\ a.used <= Len(s) + 1 /\ m.used <= Len(s) + 1
     /\ DetectJsonType(arr) = "array" /\ DetectJsonType(map) = "map"
     /\ a.ok => DecodeJsonArray(EncodeJsonArray(a.els).text).els = a.els
     /\ m.ok => DecodeJsonMap(EncodeJsonMap(m.els).text).els = m.els
     /\ DecodeJsonArray(EncodeJsonArray(els).text) =
          [ok |-> TRUE, els |-> els, used |-> SumOf([i \in DOMAIN els |-> Len(els[i]) + 1])]
     /\ Len(EncodeJsonArray(els).text) < EncodeJsonArray(els).size
     /\ ToSet(s) \cap {Quote, Apostrophe, Backslash} = {} =>
          /\ a.ok <=> (\A i \in 1..(Len(cols) - 1) : Word(cols[i])) /\ (Word(Last(cols)) \/ Last(cols) = << >>)
          /\ a.ok => a.els = SelectSeq(cols, Word)

-----------------------------------------------------------------------------
(* http_func.c *)

\* http_parse_query, of what follows the question mark.
RECURSIVE HttpParseQuery(_, _)
HttpParseQuery(s, max) ==
  LET amp == Find(s, 1, 38)
      piece == IF amp = 0 THEN s ELSE SubSeq(s, 1, amp - 1)
      rest == IF amp = 0 THEN << >> ELSE From(s, amp + 1)
      eq == Find(piece, 1, 61)
  IN CASE s = << >> \/ max = 0 -> << >>
       [] s # << >> /\ max # 0 ->
            IF eq <= 1 THEN HttpParseQuery(rest, max)
            ELSE << [key |-> Upto(piece, eq - 1), value |-> UrlDecode(From(piece, eq + 1))] >>
                 \o HttpParseQuery(rest, max - 1)

\* http_parse_url_params: the equals sign is looked for in all of the text and
\* overwritten with 0; past the piece, it leaves a value of no characters.
RECURSIVE HttpParseUrlParams(_, _, _)
HttpParseUrlParams(s, from, max) ==
  LET amp == Find(s, from, 38)
      last == IF amp = 0 THEN Len(s) ELSE amp - 1
      eq == Find(s, from, 61)
      cut == IF eq = 0 THEN s ELSE [s EXCEPT ![eq] = 0]
  IN CASE from > Len(s) \/ max = 0 -> << >>
       [] from <= Len(s) /\ max # 0 ->
            IF eq \in {0, from} THEN HttpParseUrlParams(cut, last + 2, max)
            ELSE << [key |-> SubSeq(s, from, eq - 1), value |-> UrlDecode(SubSeq(s, eq + 1, last))] >>
                 \o HttpParseUrlParams(cut, last + 2, max - 1)

\* What a query says: its pieces that have a name and an equals sign.
QueryMeans(s, max) ==
  LET pieces == SelectSeq(Split(s, 38, 0), LAMBDA t : Find(t, 1, 61) > 1)
      pair(t) == [key |-> Split(t, 61, 2)[1], value |-> UrlDecode(Split(t, 61, 2)[2])]
  IN Upto([i \in DOMAIN pieces |-> pair(pieces[i])], max)

\* The parsers give the pieces of the query that have a name and a value.
\* http_parse_url_params does so when every piece has an equals sign: without
\* one it takes the sign of the next piece.
QuerySound(s, max) ==
  /\ HttpParseQuery(s, max) = QueryMeans(s, max)
  /\ (\A i \in DOMAIN Split(s, 38, 0) : Find(Split(s, 38, 0)[i], 1, 61) # 0)
       => HttpParseUrlParams(s, 1, max) = QueryMeans(s, max)

\* "//no =" (http_func.c:376): a piece without an equals sign is passed over.
QueryPassesOver(s, max) == HttpParseUrlParams(s, 1, max) = QueryMeans(s, max)

-----------------------------------------------------------------------------
(* char_converter.c *)

NoOp == "none"
AddBackslash == "add_backslash"
NoBackslash == "no_backslash"

\* std_spaces_add_backslash_converter_init and char_converter_init_ex; one of the
\* pairs may have been set again by char_converter_set_pair_ex.
SpacesAddBackslash ==
  [c \in {0, 9, 10, 11, 12, 13, 32, 92} |->
     [op |-> AddBackslash,
      dest |-> CASE c = 0 -> 48 [] c = 9 -> 116 [] c = 10 -> 110 [] c = 11 -> 118 [] c = 12 -> 102
                 [] c = 13 -> 114 [] c = 32 -> 45 [] c = 92 -> 92]]
\* std_space_char_converter_init.
SpaceConverter(base) ==
  [c \in {0, 9, 10, 11, 12, 13, 32} |->
     [op |-> NoBackslash, dest |-> base + (IF c = 0 THEN 0 ELSE IF c = 32 THEN 6 ELSE c - 8)]]
SetPair(table, src, op, dest) ==
  [c \in DOMAIN table \cup {src} |-> IF c = src THEN [op |-> op, dest |-> dest] ELSE table[c]]

OpOf(table, c) == IF c \in DOMAIN table THEN table[c].op ELSE NoOp
Converted(table, c) ==
  CASE OpOf(table, c) = NoOp -> << c >>
    [] OpOf(table, c) = AddBackslash -> << Backslash, table[c].dest >>
    [] OTHER -> << table[c].dest >>

\* fast_char_convert: one character for one until the first that gets a
\* backslash; from there on as long as two more fit.  No more of the input is
\* looked at than the output has room for.
FastCharConvert(table, s, size) ==
  LET in == Upto(s, size)
      b == SelectInSeq(in, LAMBDA c : OpOf(table, c) = AddBackslash)
      Put(st, c) ==
        IF st.full \/ Len(st.out) >= size - 1 THEN [st EXCEPT !.full = TRUE]
        ELSE [st EXCEPT !.out = @ \o Converted(table, c), !.count = @ + (IF OpOf(table, c) = NoOp THEN 0 ELSE 1)]
      plain == IF b = 0 THEN in ELSE SubSeq(in, 1, b - 1)
      head == [out |-> FlattenSeq([i \in DOMAIN plain |-> Converted(table, plain[i])]),
               count |-> Len(SelectSeq(plain, LAMBDA c : OpOf(table, c) # NoOp)), full |-> FALSE]
  IN IF b = 0 THEN head ELSE FoldLeft(Put, head, From(in, b))

\* Reading the backslashes back.
RECURSIVE Unconverted(_, _)
Unconverted(table, t) ==
  LET src(d) == CHOOSE c \in DOMAIN table : table[c].op = AddBackslash /\ table[c].dest = d IN
  CASE t = << >> -> << >>
    [] t # << >> /\ t[1] = Backslash -> << src(t[2]) >> \o Unconverted(table, From(t, 3))
    [] OTHER -> << t[1] >> \o Unconverted(table, Tail(t))

\* The output stays within its room, holds the conversion of a beginning of the
\* input, all of it when it fits with a byte to spare, and can be read back.
ConvertSound(s, size) ==
  LET table == SpacesAddBackslash
      one == SpaceConverter(65)
      mixed == SetPair(table, 97, NoBackslash, 98)
  IN \A t \in {table, one, mixed, SetPair(mixed, 32, NoOp, 0)} :
       LET r == FastCharConvert(t, s, size)
           whole == FlattenSeq([i \in DOMAIN s |-> Converted(t, s[i])])
       IN /\ Len(r.out) <= size
          /\ \E n \in 0..Len(s) :
               /\ r.out = FlattenSeq([i \in 1..n |-> Converted(t, s[i])])
               /\ r.count = Len(SelectSeq(Upto(s, n), LAMBDA c : OpOf(t, c) # NoOp))
               /\ t = table => Unconverted(t, r.out) = Upto(s, n)
          /\ Len(whole) < size => r.out = whole
-----------------------------------------------------------------------------
(* char_convert_loader.c: pairs of characters from a configuration file. *)

Hex(c) == CASE c \in 48..57 -> c - 48 [] c \in 97..102 -> c - 87 [] c \in 65..70 -> c - 55 [] OTHER -> -1
Invalid == -1

\* The letters behind a backslash: 0 a b t n v f r s and the backslash itself.
Letters == [c \in {48, 97, 98, 116, 110, 118, 102, 114, 115, 92} |->
              CASE c = 48 -> 0 [] c = 97 -> 7 [] c = 98 -> 8 [] c = 116 -> 9 [] c = 110 -> 10
                [] c = 118 -> 11 [] c = 102 -> 12 [] c = 114 -> 13 [] c = 115 -> 32 [] c = 92 -> 92]

\* char_convert_loader_parse: a character, a letter behind a backslash, or \x##.
LoaderParse(s) ==
  CASE Len(s) = 1 -> s[1]
    [] Len(s) = 2 /\ s[1] = Backslash -> IF s[2] \in DOMAIN Letters THEN Letters[s[2]] ELSE Invalid
    [] Len(s) = 4 /\ s[1] = Backslash /\ s[2] = 120 /\ Hex(s[3]) >= 0 /\ Hex(s[4]) >= 0 ->
         16 * Hex(s[3]) + Hex(s[4])
    [] OTHER -> Invalid

\* char_convert_loader_set_pair: a quoted destination gets a backslash.
LoaderSetPair(table, src, dest) ==
  LET quoted == dest # << >> /\ dest[1] = 34
      d == IF quoted THEN IF Len(dest) = 4 /\ dest[2] = Backslash /\ dest[4] = 34 THEN dest[3] ELSE Invalid
           ELSE LoaderParse(dest)
  IN IF src = << >> \/ dest = << >> \/ LoaderParse(src) = Invalid \/ d = Invalid
     THEN [err |-> TRUE, table |-> table]
     ELSE [err |-> FALSE, table |-> SetPair(table, LoaderParse(src), IF quoted THEN AddBackslash ELSE NoBackslash, d)]

\* char_convert_loader_add: pair by pair, up to the first bad one.
LoaderAdd(table, items) ==
  FoldLeft(LAMBDA st, it : IF st.err THEN st ELSE LoaderSetPair(st.table, it[1], it[2]),
           [err |-> FALSE, table |-> table], items)

\* What the loader accepts it means: converting the source character gives the
\* destination, with its backslash, and every other character stays; \x## is
\* the same as the character itself, and a bad pair leaves the earlier ones.  (A
\* quote alone is a source but, being the start of a quoted one, no destination.)
LoaderSound(s) ==
  LET none == [c \in {} |-> 0]
      q    == << 34, Backslash, 98, 34 >>
      one  == LoaderAdd(none, << << s, q >> >>)
      two  == LoaderAdd(none, << << << 99 >>, s >>, << s, << 100 >> >> >>)
  IN /\ ~one.err => \A c \in {0, 7, 10, 92, 97, 170} :
            Converted(one.table, c) = IF c = LoaderParse(s) THEN << Backslash, 98 >> ELSE << c >>
     /\ one.err <=> LoaderParse(s) = Invalid
     /\ LoaderParse(s) \in 0 .. 255 \cup {Invalid}
     /\ (s = q \/ LoaderParse(s) \notin {Invalid, 34}) =>
            Converted(two.table, 99) = IF s = q THEN << Backslash, 98 >>
                                       ELSE IF LoaderParse(s) = 99 THEN << 100 >> ELSE << LoaderParse(s) >>
=============================================================================
