----------------------------- MODULE FastBuffer -----------------------------
(***************************************************************************)
(* fast_buffer.c: a growing buffer of bytes with a terminator behind them. *)
(* Any malloc may fail.  Sizes are scaled down: FormatRoom stands for the  *)
(* 64 bytes fast_buffer_append makes room for before it knows the length,  *)
(* IntRoom for the 16 of append_int.                                       *)
(***************************************************************************)
EXTENDS Integers, Sequences

CONSTANTS
  Capacity,      \* init_capacity
  Texts,         \* what is appended: sequences of bytes
  FormatRoom, IntRoom,
  MaxLength      \* bound: bytes in the buffer

End     == 0     \* '\0'
Garbage == -1    \* what malloc'ed memory holds

VARIABLES
  buf,     \* the memory, alloc_size and length
  text,    \* the bytes the buffer should hold
  torn     \* a file could not be read after the buffer grew for it

vars == << buf, text, torn >>

\* New memory of n bytes, with the old bytes and without their terminator.
Grown(b, n) ==
  [b EXCEPT !.mem = [i \in 1..n |-> IF i <= b.length THEN b.mem[i] ELSE Garbage], !.size = n]

\* s written at offset off.  What it writes past the memory makes that longer.
Write(b, off, s) ==
  [b EXCEPT !.mem = [i \in 1..(IF Len(@) > off + Len(s) THEN Len(@) ELSE off + Len(s)) |->
                       IF i \in (off + 1)..(off + Len(s)) THEN s[i - off]
                       ELSE IF i <= Len(@) THEN @[i] ELSE Garbage]]

\* The first of n, 2n, 4n, ... that is larger than need.
Doubled(n, need) ==
  LET size[k \in 0..need] == IF k = 0 THEN n ELSE 2 * size[k - 1]
  IN size[CHOOSE k \in 0..need : size[k] > need /\ \A j \in 0..(k - 1) : size[j] <= need]

\* Mutant: the size is doubled once.
CheckOnce(b, inc) ==
  IF b.size > b.length + inc THEN {b}
  ELSE {Grown(b, 2 * b.size)}

\* fast_buffer_check: the buffers it may leave when it returns 0.
Check(b, inc) ==
  IF b.size > b.length + inc THEN {b}
  ELSE {Grown(b, Doubled(2 * b.size, b.length + inc))}

\* It may fail only where it has to allocate.
MayFail(b, inc) == b.size <= b.length + inc

\* fast_buffer_init_ex.
Fresh == [mem |-> [i \in 1..Capacity |-> IF i = 1 THEN End ELSE Garbage],
          size |-> Capacity, length |-> 0]

Init ==
  /\ buf = Fresh
  /\ text = << >>
  /\ torn = FALSE

Room(s) == Len(text) + Len(s) <= MaxLength

\* vsnprintf into what is left: as much of s as fits, and a terminator.
Formatted(b, s) ==
  LET left == b.size - b.length
      n    == IF Len(s) < left THEN Len(s) ELSE left - 1
  IN Write(b, b.length, SubSeq(s, 1, n) \o << End >>)

\* fast_buffer_append: formatted again when the first try did not fit, and the
\* terminator put back where it was when there is no memory for that.
AppendFormat(s) ==
  /\ Room(s)
  /\ torn' = FALSE
  /\ \E b \in Check(buf, FormatRoom) :
       LET first == Formatted(b, s) IN
       IF Len(s) < b.size - b.length
       THEN buf' = [first EXCEPT !.length = @ + Len(s)] /\ text' = text \o s
       ELSE \/ \E c \in Check(first, Len(s)) :
                 buf' = [Formatted(c, s) EXCEPT !.length = @ + Len(s)] /\ text' = text \o s
            \/ /\ MayFail(first, Len(s))
               /\ buf' = Write(first, first.length, << End >>) /\ UNCHANGED text

\* fast_buffer_append_buff, of len > 0 bytes.
AppendBuff(s) ==
  /\ Room(s) /\ s # << >>
  /\ torn' = FALSE
  /\ \E b \in Check(buf, Len(s)) :
       buf' = [Write(b, b.length, s \o << End >>) EXCEPT !.length = @ + Len(s)]
  /\ text' = text \o s

\* fast_buffer_append_int and _int64: sprintf, of no more than the room.
AppendInt(s) ==
  /\ Room(s) /\ Len(s) < IntRoom
  /\ torn' = FALSE
  /\ \E b \in Check(buf, IntRoom) :
       buf' = [Write(b, b.length, s \o << End >>) EXCEPT !.length = @ + Len(s)]
  /\ text' = text \o s

\* fast_buffer_append_file: room for the size stat gave and a terminator, and
\* then what read gives of it, which is less when the file was cut meanwhile.
AppendFile(s, n) ==
  /\ Room(s)
  /\ torn' = FALSE
  /\ \E b \in Check(buf, Len(s) + 1) :
       buf' = [Write(b, b.length, SubSeq(s, 1, n) \o << End >>) EXCEPT !.length = @ + n]
  /\ text' = text \o SubSeq(s, 1, n)

\* The file cannot be opened or read: the buffer may have grown.
AppendFileFails(s) ==
  /\ Room(s)
  /\ buf' \in Check(buf, Len(s) + 1)
  /\ torn' = (torn \/ MayFail(buf, Len(s) + 1))
  /\ UNCHANGED text

\* fast_buffer_destroy and a new init.
Restart == buf' = Fresh /\ text' = << >> /\ torn' = FALSE

Next ==
  \/ \E s \in Texts : AppendFormat(s) \/ AppendBuff(s) \/ AppendInt(s) \/ AppendFileFails(s)
  \/ \E s \in Texts : \E n \in 0..Len(s) : AppendFile(s, n)
  \/ Restart

Spec == Init /\ [][Next]_vars

-----------------------------------------------------------------------------

\* The buffer holds what was appended, an append that failed left no trace of
\* its text, the memory was allocated for all of it and the terminator, and the
\* terminator is there, unless a file could not be read after the buffer grew:
\* fast_buffer_check copies the bytes without their terminator.
Sound ==
  /\ buf.length = Len(text)
  /\ buf.length < buf.size /\ Len(buf.mem) = buf.size
  /\ SubSeq(buf.mem, 1, buf.length) = text
  /\ ~torn => buf.mem[buf.length + 1] = End

=============================================================================
