------------------------------ MODULE BStream ------------------------------
(***************************************************************************)
(* bstrlib.c: a bStream buffers what was read from a core stream beyond    *)
(* what was asked for.  bssplitscb hands out the pieces of a stream to a   *)
(* callback that may itself read from the stream or put something back.    *)
(* The core is a file that fread reads.                                    *)
(***************************************************************************)
EXTENDS Integers, Sequences, SequencesExt

CONSTANTS
  Inputs,      \* what the core stream may hold
  Terms,       \* sets of terminators
  Unreads,     \* what is put back
  SplitLen,    \* BSSSC_BUFF_LEN
  MaxBuff,     \* bound: maxBuffSz
  MaxRest      \* bound: characters not read yet

VARIABLES
  s,        \* the bStream, and the core it reads from
  split,    \* the terminators of a bssplitscb under way, or {}
  got,      \* the last result: r->slen = 0 before the call, so r and the return value
  rest,     \* what is still to be read, in order
  due       \* what the last call should have returned

vars == << s, split, got, rest, due >>

Least(x, y)  == IF x < y THEN x ELSE y
Upto(q, n)   == SubSeq(q, 1, Least(n, Len(q)))
Beyond(q, n) == SubSeq(q, n + 1, Len(q))
Ends(q, T)   == {i \in DOMAIN q : q[i] \in T}
FirstEnd(q, T) == CHOOSE i \in Ends(q, T) : \A j \in Ends(q, T) : i <= j

Answer(st, r, err) == [st |-> st, r |-> r, err |-> err]

-----------------------------------------------------------------------------
(* bsreadlna and bsreadlnsa: up to a terminator, which is part of the      *)
(* line.                                                                   *)

\* Mutant: the over-read is put back without its first character.
RECURSIVE ReadLinesSkips(_, _, _, _)
ReadLinesSkips(st, r, rlo, T) ==
  LET b == Upto(st.core, st.max)
      c == [st EXCEPT !.core = Beyond(@, st.max)] IN
  IF b = << >> THEN Answer([c EXCEPT !.buff = << >>, !.eof = TRUE], r, Len(r) = rlo)
  ELSE IF Ends(b, T) = {} THEN ReadLinesSkips(c, r \o b, rlo, T)
  ELSE Answer([c EXCEPT !.buff = Beyond(b, FirstEnd(b, T) + 1)],
              r \o Upto(b, FirstEnd(b, T)), FALSE)

\* The loop that reads into the destination.
RECURSIVE ReadLines(_, _, _, _)
ReadLines(st, r, rlo, T) ==
  LET b == Upto(st.core, st.max)
      c == [st EXCEPT !.core = Beyond(@, st.max)] IN
  IF b = << >> THEN Answer([c EXCEPT !.buff = << >>, !.eof = TRUE], r, Len(r) = rlo)
  ELSE IF Ends(b, T) = {} THEN ReadLines(c, r \o b, rlo, T)
  ELSE Answer([c EXCEPT !.buff = Beyond(b, FirstEnd(b, T))],
              r \o Upto(b, FirstEnd(b, T)), FALSE)

Bsreadlnsa(st, r, T) ==
  IF Ends(st.buff, T) # {}
  THEN Answer([st EXCEPT !.buff = Beyond(@, FirstEnd(st.buff, T))],
              r \o Upto(st.buff, FirstEnd(st.buff, T)), FALSE)
  ELSE ReadLines(st, r \o st.buff, Len(r), T)

-----------------------------------------------------------------------------
(* bsreada: n characters, or what there is.                                *)

\* The do loop; b is what was read last, and n counts r as it was.
RECURSIVE ReadMany(_, _, _, _, _)
ReadMany(st, b, r, n, orslen) ==
  IF Len(b) + Len(r) >= n
  THEN LET x == n - Len(r) IN
       Answer([st EXCEPT !.buff = Beyond(b, x)], r \o Upto(b, x), n = orslen)
  ELSE LET l == Least(n - Len(r \o b), st.max)
           c == [st EXCEPT !.core = Beyond(@, l)] IN
       IF Upto(st.core, l) = << >>
       THEN Answer([c EXCEPT !.buff = << >>, !.eof = TRUE], r \o b, Len(r \o b) = orslen)
       ELSE ReadMany(c, Upto(st.core, l), r \o b, n, orslen)

\* roomy: the destination has room enough, and the core is read at once.
Bsreada(st, r, len, roomy) ==
  CASE st.buff = << >> /\ st.eof -> Answer(st, r, TRUE)
    [] st.buff = << >> /\ ~st.eof /\ roomy ->
         IF st.core = << >> THEN Answer([st EXCEPT !.eof = TRUE], r, TRUE)
         ELSE Answer([st EXCEPT !.core = Beyond(@, len)], r \o Upto(st.core, len), FALSE)
    [] OTHER -> ReadMany(st, st.buff, r, Len(r) + len, Len(r))

-----------------------------------------------------------------------------

Init ==
  /\ \E input \in Inputs :
       /\ s = [buff |-> << >>, core |-> input, eof |-> FALSE, max |-> MaxBuff]
       /\ rest = input
  /\ split = {}
  /\ got = [r |-> << >>, err |-> FALSE]
  /\ due = got

Returns(a) == s' = a.st /\ got' = [r |-> a.r, err |-> a.err]

\* A line, or all there is if no terminator follows.
LineOf(q, T) == IF Ends(q, T) = {} THEN q ELSE Upto(q, FirstEnd(q, T))

Owed(q) == due' = [r |-> q, err |-> q = << >>] /\ rest' = Beyond(rest, Len(q))

Bsreadlns(T) ==
  /\ Returns(Bsreadlnsa(s, << >>, T))
  /\ Owed(LineOf(rest, T))
  /\ UNCHANGED split

Bsread(n, roomy) ==
  /\ Returns(Bsreada(s, << >>, n, roomy))
  /\ Owed(Upto(rest, n))
  /\ UNCHANGED split

Bsunread(q) ==
  /\ Len(q \o rest) <= MaxRest
  /\ s' = [s EXCEPT !.buff = q \o @]
  /\ rest' = q \o rest
  /\ UNCHANGED << split, got, due >>

Bsbufflength(n) ==
  /\ s' = [s EXCEPT !.max = n]
  /\ UNCHANGED << split, got, rest, due >>

\* bssplitscb up to a call of the callback: reads until a terminator is in
\* buff, and puts back what is behind it.  R: the lengths at which buff happens
\* to have room for another read.
RECURSIVE Scan(_, _, _, _)
Scan(st, buff, T, R) ==
  IF Ends(buff, T) # {}
  THEN LET i == FirstEnd(buff, T) IN
       [st |-> [st EXCEPT !.buff = Beyond(buff, i) \o @], piece |-> Upto(buff, i - 1), last |-> FALSE]
  ELSE LET a == Bsreada(st, buff, SplitLen, Len(buff) \in R) IN
       IF Len(a.r) = Len(buff) THEN [st |-> a.st, piece |-> buff, last |-> TRUE]
       ELSE Scan(a.st, a.r, T, R)

BeginSplit(T) ==
  /\ split = {}
  /\ split' = T
  /\ UNCHANGED << s, got, rest, due >>

NextPiece(R) ==
  /\ split # {}
  /\ LET a    == Scan(s, << >>, split, R)
         line == LineOf(rest, split) IN
     /\ s' = a.st
     /\ got' = [r |-> a.piece, err |-> a.last]
     /\ split' = IF a.last THEN {} ELSE split
     /\ due' = IF Ends(line, split) = {} THEN [r |-> line, err |-> TRUE]
               ELSE [r |-> Upto(line, Len(line) - 1), err |-> FALSE]
     /\ rest' = Beyond(rest, Len(line))

\* The callback returns a negative value.
StopSplit == split # {} /\ split' = {} /\ UNCHANGED << s, got, rest, due >>

Next ==
  \/ \E T \in Terms : Bsreadlns(T) \/ BeginSplit(T)
  \/ \E n \in 1..(SplitLen + 1), roomy \in BOOLEAN : Bsread(n, roomy)
  \/ \E q \in Unreads : Bsunread(q)
  \/ \E n \in 1..MaxBuff : Bsbufflength(n)
  \/ \E R \in SUBSET {0, SplitLen} : NextPiece(R)
  \/ StopSplit

Spec == Init /\ [][Next]_vars

-----------------------------------------------------------------------------

\* Whatever the order of reads, of what is put back and of changes to the
\* buffer's length, also from within bssplitscb's callback: each call returns
\* what is next in the stream and nothing is lost or read twice; a call fails
\* only at the end; and bseof is true only when nothing is left.
Sound ==
  /\ s.buff \o s.core = rest
  /\ got = due
  /\ s.eof /\ s.buff = << >> => rest = << >>

=============================================================================
