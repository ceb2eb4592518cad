----------------------------- MODULE Recognizer -----------------------------
(***************************************************************************)
(* c/pic-recognizer: demo.c and utils.c.  The program reads a photographed *)
(* answer sheet, reduces it to dots and blanks, looks row by row for the   *)
(* vertical lines of the answer frame, derives the answer boxes from them  *)
(* and reports the box with the most dots.                                 *)
(*                                                                         *)
(* A picture is a sequence of rows of RGB pixels.  Uninitialised memory    *)
(* (the segment buffer, the range array, the box array) holds the point    *)
(* junk, chosen once, or what an earlier row left in the reused buffer.    *)
(***************************************************************************)
EXTENDS Integers, Sequences, FiniteSets, SequencesExt

CONSTANTS
    Lines,          \* vertical lines of the frame (5 in main)
    Bold,           \* a line is wider than this (2 in the code)
    MinRun,         \* rows that make a column vertical (5 in the code)
    BottomPercent,  \* share of dots that makes a row the bottom bar (95)
    Pictures,       \* the RGB pictures bmpread may deliver
    Junk            \* the points that uninitialised memory may hold

ASSUME RecognizerAssumption ==
    /\ Lines \in Nat \ {0} /\ Bold \in Nat /\ MinRun \in Nat
    /\ BottomPercent \in 0..100
    /\ \A pic \in Pictures : Len(pic) > 0 /\ Len(pic[1]) > 1

VARIABLES
    coordinate,     \* the picture as rows of points
    junk,           \* what fresh memory holds
    pc,             \* "rows", "areas", "count" or "done"
    row,            \* rows processed so far
    seq,            \* the segment buffer: endP of every unit, with left-overs
    units,          \* the units of the last row
    data,           \* the ranges recorded so far, row after row
    height,         \* rows recorded as crossing all the lines
    areas,          \* the answer boxes found
    marked          \* the box reported

vars == <<coordinate, junk, pc, row, seq, units, data, height, areas, marked>>

DOT == 1
BLANK == 0

----------------------------------------------------------------------------
(* From pixels to points. *)

to_hex(p) == p[1] * 65536 + p[2] * 256 + p[3]

Color(p) == IF to_hex(p) > 11184810 THEN BLANK ELSE DOT     \* 0xaaaaaa

MakeStandardCoordinate(pic) ==
    [y \in 1..Len(pic) |->
        [x \in 1..Len(pic[y]) |-> [x |-> x - 1, y |-> y - 1, c |-> Color(pic[y][x])]]]

Width == Len(coordinate[1])
Height == Len(coordinate)

----------------------------------------------------------------------------
(* One row: segments of one colour, then the ranges of the frame's lines. *)

\* Mutant: the count is not reset when the colour changes.
ExtendSegmentsKeepsCount(us, p) ==
    LET unit == [count |-> Last(us).count + 1, endP |-> p]
    IN  IF p.c = Last(us).endP.c THEN ReplaceAt(us, Len(us), unit) ELSE Append(us, unit)

\* The loop body of _get_bw_continuous_seq_of_row; the colour of the last unit
\* is the colour of lastP.
ExtendSegments(us, p) ==
    IF p.c = Last(us).endP.c
    THEN ReplaceAt(us, Len(us), [count |-> Last(us).count + 1, endP |-> p])
    ELSE Append(us, [count |-> 1, endP |-> p])

Segments(points) ==
    FoldLeft(ExtendSegments, <<[count |-> 1, endP |-> Head(points)]>>, Tail(points))

IsColLineRow(us) ==
    Cardinality({i \in DOMAIN us : us[i].endP.c = DOT}) = Lines

\* The buffer after a row: the units written, the rest as it was.
Overwrite(buffer, us) ==
    [i \in DOMAIN buffer |-> IF i \in DOMAIN us THEN us[i].endP ELSE buffer[i]]

\* Mutant: ranges that run backwards are kept.
LocateBackwards(buffer, len) ==
    LET pairs == [k \in 1..((len + 1) \div 2) |->
                    [from |-> buffer[2*k - 1], to |-> buffer[2*k]]]
    IN  SelectSeq(pairs, LAMBDA r : ~(r.to.x = 0 /\ r.to.y = 0))

\* _locate_col_line_coord_range: every even index paired with the next one,
\* which after the last unit is whatever the buffer holds.
LocateColLineRange(buffer, len) ==
    LET pairs == [k \in 1..((len + 1) \div 2) |->
                    [from |-> buffer[2*k - 1], to |-> buffer[2*k]]]
        valid(r) == ~(r.to.x = 0 /\ r.to.y = 0) /\ r.from.x <= r.to.x
    IN  SelectSeq(pairs, valid)

----------------------------------------------------------------------------
(* The boxes. *)

get_range_w(r) == LET w == r.to.x - r.from.x IN IF w < 0 THEN -w ELSE w

\* Entry r, c of the recorded ranges read as an array of Lines columns.
Entry(r, c) ==
    IF r * Lines + c < Len(data) THEN data[r * Lines + c + 1]
                                 ELSE [from |-> junk, to |-> junk]

SameColumn(top, r, k) ==
    /\ r.from.x = top.from.x
    /\ get_range_w(r) = get_range_w(top)
    /\ r.from.y - top.from.y = k

\* One column: the run counter and its maximum live across the columns.
ScanColumn(acc, c) ==
    LET top == Entry(0, c)
        step(a, k) == IF SameColumn(top, Entry(k, c), k)
                      THEN [a EXCEPT !.run = @ + 1]
                      ELSE [a EXCEPT !.max = IF @ > a.run THEN @ ELSE a.run, !.run = 1]
        scanned == FoldLeft(step, acc, [k \in 1..(height - 1) |-> k])
    IN  IF top.to.x - top.from.x <= Bold THEN acc
        ELSE IF scanned.max >= MinRun
             THEN [scanned EXCEPT !.tops = Append(@, top.from)]
             ELSE scanned

\* Mutant: the loop over the columns runs to col <= width.
ColumnScanOneMore ==
    FoldLeft(ScanColumn, [run |-> 1, max |-> 0, tops |-> <<>>],
             [c \in 1..(Lines + 1) |-> c - 1])

ColumnScan ==
    FoldLeft(ScanColumn, [run |-> 1, max |-> 0, tops |-> <<>>],
             [c \in 1..Lines |-> c - 1])

AnswerAreas(tops) ==
    [i \in 1..(Len(tops) - 1) |-> [from |-> tops[i], to |-> tops[i + 1]]]

----------------------------------------------------------------------------
(* The dots of a box. *)

\* A point by its place in the one-dimensional array; outside it, a blank.
PointAt(y, x) ==
    LET k == y * Width + x
    IN  IF k \in 0..(Width * Height - 1)
        THEN coordinate[(k \div Width) + 1][(k % Width) + 1].c ELSE BLANK

DotsInLine(r, y) ==
    Cardinality({x \in r.from.x..(r.to.x - 1) : PointAt(y, x) = DOT})

\* Mutant: a line with exactly the threshold's dots already ends the box.
CountDotsEndsEarly(r) ==
    LET bottom == ((r.to.x - r.from.x) * BottomPercent) \div 100
        step(a, y) == IF a.stop \/ DotsInLine(r, y) >= bottom
                      THEN [a EXCEPT !.stop = TRUE]
                      ELSE [a EXCEPT !.total = @ + DotsInLine(r, y)]
        lines == [i \in 1..(Height - r.from.y) |-> r.from.y + i - 1]
    IN  FoldLeft(step, [total |-> 0, stop |-> FALSE], lines).total

\* _count_dot_start_with_range: line by line until a line looks like the bottom.
CountDots(r) ==
    LET bottom == ((r.to.x - r.from.x) * BottomPercent) \div 100
        step(a, y) == IF a.stop \/ DotsInLine(r, y) > bottom
                      THEN [a EXCEPT !.stop = TRUE]
                      ELSE [a EXCEPT !.total = @ + DotsInLine(r, y)]
        lines == [i \in 1..(Height - r.from.y) |-> r.from.y + i - 1]
    IN  FoldLeft(step, [total |-> 0, stop |-> FALSE], lines).total

AreaAt(i) == IF i \in DOMAIN areas THEN areas[i] ELSE [from |-> junk, to |-> junk]

\* _scan_to_count_area_with_most_dot: the first box with the most dots.
AreaWithMostDots ==
    LET step(best, i) == IF CountDots(AreaAt(best)) < CountDots(AreaAt(i)) THEN i ELSE best
    IN  FoldLeft(step, 1, [i \in 1..(Lines - 2) |-> i + 1])

----------------------------------------------------------------------------
(* main *)

Init ==
    \E pic \in Pictures :
        /\ coordinate = MakeStandardCoordinate(pic)
        /\ junk \in Junk
        /\ seq = [i \in 1..(Len(pic[1]) + 1) |-> junk]
        /\ pc = "rows" /\ row = 0 /\ units = <<>>
        /\ data = <<>> /\ height = 0 /\ areas = <<>> /\ marked = 0

\* process_by_row with rowProcessor: one row of the picture.
RowProcessor ==
    /\ pc = "rows" /\ row < Height
    /\ units' = Segments(coordinate[row + 1])
    /\ seq' = Overwrite(seq, units')
    /\ IF IsColLineRow(units')
       THEN /\ data' = data \o LocateColLineRange(seq', Len(units'))
            /\ height' = height + 1
       ELSE UNCHANGED <<data, height>>
    /\ row' = row + 1
    /\ UNCHANGED <<coordinate, junk, pc, areas, marked>>

RowsDone ==
    /\ pc = "rows" /\ row = Height
    /\ pc' = "areas"
    /\ UNCHANGED <<coordinate, junk, row, seq, units, data, height, areas, marked>>

TryToGetAnswerAreaRange ==
    /\ pc = "areas"
    /\ areas' = AnswerAreas(ColumnScan.tops)
    /\ pc' = "count"
    /\ UNCHANGED <<coordinate, junk, row, seq, units, data, height, marked>>

ScanToCountArea ==
    /\ pc = "count"
    /\ marked' = AreaWithMostDots
    /\ pc' = "done"
    /\ UNCHANGED <<coordinate, junk, row, seq, units, data, height, areas>>

Next == RowProcessor \/ RowsDone \/ TryToGetAnswerAreaRange \/ ScanToCountArea

Spec == Init /\ [][Next]_vars

----------------------------------------------------------------------------
(* Properties *)

PointType == [x : Int, y : Int, c : {DOT, BLANK}]

\* The program's variables keep their types: recorded ranges and boxes are
\* pairs of points and the reported box is one of the Lines - 1 boxes.
TypeOK ==
    /\ pc \in {"rows", "areas", "count", "done"} /\ row \in 0..Height
    /\ height \in 0..row /\ marked \in 0..(Lines - 1)
    /\ \A i \in DOMAIN seq : seq[i] \in PointType
    /\ \A i \in DOMAIN data : data[i] \in [from : PointType, to : PointType]
    /\ Len(areas) <= Lines - 1
    /\ \A i \in DOMAIN areas : areas[i] \in [from : PointType, to : PointType]

\* The places where a stretch of one colour ends in row y (counted from 0).
RunEnds(y) ==
    {x \in 0..(Width - 1) : x = Width - 1 \/ PointAt(y, x) # PointAt(y, x + 1)}

DotRunEnds(y) == {x \in RunEnds(y) : PointAt(y, x) = DOT}

\* _get_bw_continuous_seq_of_row cuts a row into its maximal stretches of one
\* colour: the k-th unit ends where the k-th stretch ends, in its colour, and
\* counts its points.
SegmentsAreRuns ==
    row > 0 =>
        LET ends == RunEnds(row - 1)
        IN  /\ Len(units) = Cardinality(ends)
            /\ \A k \in DOMAIN units :
                LET before == {x \in ends : x < units[k].endP.x}
                    first == units[k].endP.x - units[k].count + 1
                IN  /\ units[k].endP \in Range(coordinate[row])
                    /\ units[k].endP.x \in ends /\ Cardinality(before) = k - 1
                    /\ first = 0 \/ first - 1 \in ends
                    /\ \A x \in first..units[k].endP.x : PointAt(row - 1, x) = units[k].endP.c

\* The recorded ranges form the two-dimensional array that
\* _try_to_get_answer_area_range walks by columns: every recorded row of the
\* picture adds exactly one range per line, in the order of the lines, and
\* the range in column c ends on the last dot of the row's line c.
GridAligned ==
    /\ Len(data) = Lines * height
    /\ \A r \in 0..(height - 1), c \in 0..(Lines - 1) :
        LET e == Entry(r, c)
            y == Entry(r, 0).to.y
        IN  /\ e.from.y = y /\ e.to.y = y
            /\ e.to.x \in DotRunEnds(y)
            /\ Cardinality({x \in DotRunEnds(y) : x < e.to.x}) = c

\* Row by row, the segments are the row's stretches and the ranges taken from
\* them stay aligned, whatever the arrays held before.
SegmentsOnGrid == TypeOK /\ SegmentsAreRuns /\ GridAligned

\* The comment of rowProcessor: a row has at most length/2 + 1 segments, so
\* its segments fit the buffer that it allocates.
SegmentsFit == Len(units) <= (Width \div 2) + 1

=============================================================================
