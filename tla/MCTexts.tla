------------------------------ MODULE MCTexts ------------------------------
(***************************************************************************)
(* What is read and what is made of it.  `unit' says what a behaviour is    *)
(* about: the answer sheet, which goes through the recognizer; contexts     *)
(* that load configuration files; or one family of functions on texts.  A   *)
(* text grows symbol by symbol, and the functions are compared with their   *)
(* references on every text they meet.                                      *)
(***************************************************************************)
EXTENDS Recognizer, TLC

CONSTANTS
  Kilo, Radix,                                        \* TextHelpers
  Room0,                                              \* Utf8
  Contexts, MaxSlots, MaxValue, Bits, Host, Libs      \* IniFile

VARIABLES
  unit, text,
  context, slots, index, count, annotations
-----------------------------------------------------------------------------
(* Answer sheets.  The frame has three lines, one pixel wide, and two boxes  *)
(* of four pixels; ten rows: a margin, the top bar, six rows of boxes, the   *)
(* bottom bar, a margin.  The margin on the right is wide enough for the     *)
(* segments of a marked row to fit the buffer.                               *)

Black == <<0, 0, 0>>
Pencil == <<170, 170, 170>>
LightPrint == <<171, 171, 171>>
White == <<255, 255, 255>>

SheetLines == {1, 6, 11}

Interior(box) == IF box = 1 THEN 2..5 ELSE 7..10

\* The sheet with the pencil strokes marks, a set of pixels <<y, x>>.
Sheet(marks) ==
    [y \in 1..10 |-> [x \in 1..18 |->
        IF y \in {2, 9} /\ x \in 2..12 THEN Black
        ELSE IF y \in 3..8 /\ x - 1 \in SheetLines THEN Black
        ELSE IF <<y - 1, x - 1>> \in marks THEN Pencil
        ELSE IF y = 6 THEN LightPrint ELSE White]]

\* One box marked, away from its lines, below two clean rows and above one.
MarkedSheets ==
    {Sheet(marks) : marks \in UNION {(SUBSET ((4..6) \X xs)) \ {{}} : xs \in {3..4, 8..9}}}

\* Small pictures whose rows come from a few patterns.
FromRows(rows, n) ==
    {[y \in 1..n |-> [x \in DOMAIN p[y] |-> IF p[y][x] = DOT THEN Black ELSE White]] :
        p \in [1..n -> rows]}

\* Pictures of four pixels by two with every pattern.
TinyPictures == FromRows([1..4 -> {DOT, BLANK}], 2)

Nowhere == [x |-> 0, y |-> 0, c |-> BLANK]
LeftOver == [x |-> 1, y |-> 1, c |-> DOT]
JunkPoints == {Nowhere, LeftOver}
ZeroPoint == {Nowhere}

\* The box that main reports is the one with pencil strokes in it.
MarkRecognised ==
    pc = "done" =>
        \E y \in 4..6, x \in Interior(marked) : PointAt(y, x) = DOT
-----------------------------------------------------------------------------
(* The configuration files. *)

Item(n, v)      == [k |-> "item", name |-> << n >>, value |-> v, at |-> "none"]
ItemAt(n, v, p) == [Item(n, v) EXCEPT !.at = p]
Section(n)      == [k |-> "section", name |-> n]
Set(v, x)       == [k |-> "set", var |-> v, val |-> x, ok |-> TRUE, exec |-> FALSE]
If(v, in)       == [k |-> "if", cond |-> [ok |-> TRUE, var |-> v, in |-> in]]
Else            == [k |-> "else", alone |-> TRUE]
Endif           == [k |-> "endif", alone |-> TRUE]
For(f, t, s)    == [k |-> "for", idLen |-> 1, from |-> f, to |-> t, step |-> s, ok |-> TRUE]
Endfor          == [k |-> "endfor", alone |-> TRUE]
Include(f)      == [k |-> "include", file |-> f]
Function(n)     == [k |-> "function", name |-> n]
Add(n, l)       == [k |-> "add", name |-> n, lib |-> l]
Comment         == [k |-> "other"]

VarTags == "%x" :> "x"
OwnIps  == << [addr |-> 5, private |-> TRUE], [addr |-> 9, private |-> FALSE],
              [addr |-> 6, private |-> TRUE] >>
IniFiles ==
  ("plain" :> << Item(3, << "a" >>), Item(1, << "b" >>), Section("s"), Item(3, << "c" >>),
                 Item(3, << "d" >>), Section("global"), Item(1, << "e" >>), Comment >>)
  @@ ("set" :> << Set("x", << "p" >>), If("x", << << "p" >>, << "q" >> >>), Item(1, << "a" >>),
                  Set("x", << "%x", "q" >>), Else, Item(2, << "b" >>), Endif,
                  Function("REPLACE_VARS"), Item(4, << "v", "%x" >>),
                  If("x", << << "p" >> >>), Item(5, << "c" >>), Endif >>)
  @@ ("loop" :> << Section("s"), For(0, 2, 2), ItemAt(1, << "a" >>, "name"),
                   ItemAt(1, << "b" >>, "value"), Endfor,
                   If("LOCAL_IP", << [addr |-> 4, bits |-> 3] >>), Item(2, << "in" >>), Else,
                   Item(2, << "out" >>), Endif >>)
  @@ ("outer" :> << Add("LIB", "l"), Section("s"), Item(1, << "a" >>), Include("plain"),
                    Function("LOCAL_IP_GET"), Item(1, << "inner" >>), Function("LIB"), Comment,
                    Item(2, << "x" >>) >>)
  @@ ("broken" :> << Item(1, << "a" >>), Add("LIB", "l"), Include("nowhere"), Item(2, << "b" >>) >>)

Ini == INSTANCE IniFile WITH File <- IniFiles, VarTag <- VarTags, LocalIps <- OwnIps
iniVars == << context, slots, index, count, annotations >>
-----------------------------------------------------------------------------
(* The texts: characters are codes, code points or bytes; the alphabets hold *)
(* what the functions tell apart.                                            *)

Uni  == INSTANCE Utf8
Str  == INSTANCE BstrText WITH StartRoom <- 2, ReadLen <- 3, Base64Line <- 3, UuLine <- 6,
                               InitInput <- 2
Cal  == INSTANCE Calendar WITH Ticks <- 10, Sub <- 1

\* The hosts of a small network, and values of allow_hosts.
Hosts == (<< "h", 0, 0 >> :> 5) @@ (<< "w", 1, 1 >> :> 9) @@ (<< "w", 2, 1 >> :> 3)
         @@ (<< "w", 3, 1 >> :> 12) @@ (<< "w", 2, 2 >> :> 1)

\* The current directory is "/b".
Code == INSTANCE TextHelpers WITH Cwd <- << 47, 98 >>, AddrBits <- 4, MinNetBits <- 2, Address <- Hosts

Digits(v, n) == << "n", v, n >>
Network(a, b, ok) == [k |-> "cidr", ip |-> a, bits |-> b, ok |-> ok]
Numbered(toks) == [k |-> "range", head |-> "w", closed |-> TRUE, toks |-> toks]
HostValues ==
  {[k |-> "any"], [k |-> "empty"], [k |-> "host", name |-> << "h", 0, 0 >>],
   [k |-> "host", name |-> << "g", 0, 0 >>],
   Network(8, 2, TRUE), Network(7, 3, TRUE), Network(7, 1, TRUE), Network(7, 3, FALSE),
   [Numbered(<< Digits(1, 1) >>) EXCEPT !.closed = FALSE], Numbered(<< Digits(1, 1) >>),
   Numbered(<< Digits(1, 1), << "b" >>, << "-" >>, Digits(3, 1) >>),
   Numbered(<< Digits(3, 1), << "-" >>, Digits(1, 1), << "," >>, Digits(2, 2) >>),
   Numbered(<< Digits(3, 1), << "," >> >>), Numbered(<< Digits(3, 1), << "b" >>, Digits(1, 1) >>)}

\* Operations on a buffered output stream.
WriteOp(k, n, p, f) == [k |-> k, n |-> n, packs |-> p, fails |-> f]
WriteOps ==
  {WriteOp("write", n, p, FALSE) : n \in {0, 1, 2, 4, 7}, p \in BOOLEAN}
  \cup {WriteOp("write", 3, FALSE, TRUE), WriteOp("close", 0, FALSE, FALSE)}
  \cup {WriteOp("flush", 0, FALSE, f) : f \in BOOLEAN}
  \cup {WriteOp("length", n, FALSE, FALSE) : n \in {1, 5}}

\* Days at the ends of years, Februaries, centuries and eras; times of a day, in
\* tenths of a second; formats that hold a date and a time to the tick (Whole), to
\* the second (Coarse), and a date (Dated); and what formats are made of.
Years == {-401, -400, -399, -101, -100, -5, -1, 0, 1, 4, 99, 100, 1899, 1900, 1970, 1999, 2000, 2015,
          2016, 2100, 9998}
Days  == UNION {{Cal!ToDays(Cal!Date(y, 1, 1)) + k : k \in -4..7}
                \cup {Cal!ToDays(Cal!Date(y, 2, 26)) + k : k \in 0..6} : y \in Years}
Times == {0, 1, 35990, 431990, 432005, 468000, 863999}
Whole ==
  {<< "%", "Y", "-", "%", "j", " ", "%", "H", ":", "%", "M", ":", "%", "S" >>,
   << "%", "Y", " ", "%", "U", " ", "%", "a", " ", "%", "I", ":", "%", "M", ":", "%", "S", "%", "p" >>,
   << "%", "C", "%", "y", " ", "%", "W", " ", "%", "w", " ", "%", "R", ":", "%", "S", " ", "%", "z" >>,
   << "%", "E", "Y", "%", "b", "%", "d", "%", "X", "%", "Z" >>,
   << "%", "Y", "%", "m", "%", "d", "%", "H", "%", "M", "%", "S" >>,
   << "%", "A", ",", "%", "O", "d", " ", "%", "B", " ", "%", "Y", " ", "%", "T", "%", "E", "z" >>}
Coarse == {<< "%", "c" >>, << "%", "G", "-", "%", "V", "-", "%", "u", " ", "%", "r" >>}
Dated  == {<< "%", "d", " ", "%", "h", " ", "%", "Y", "%", "%" >>, << "%", "G", "%", "V", "%", "u" >>,
           << "%", "Y", "%", "y", "%", "n", "%", "m", "%", "t", "%", "d" >>}
Signs  == {<< "%" >>, << "E" >>, << "O" >>, << "2" >>, << "d" >>, << "Y" >>, << "%", "m" >>,
           << "%", "e" >>, << "%", "I" >>, << "%", "H" >>, << "%", "y" >>, << "%", "C" >>, << "%", "j" >>,
           << "%", "F" >>, << "%", "D" >>, << "%", "w" >>, << "%", "g" >>, << "%", "V" >>, << "%", "p" >>}

Alphabet ==
  [split  |-> {44, 97, 98},                         \* , a b
   trim   |-> {32, 9, 97, 66},                      \* blank, tab, a B
   number |-> {45, 49, 50, 58, 53},                 \* - 1 2 : 5
   escape |-> {37, 43, 52, 97, 32, 255},            \* % + 4 a blank
   path   |-> {47, 97},                             \* / a
   base64 |-> {0, 77, 255},
   json   |-> {34, 44, 110, 92, 58, 32},            \* " , n \ : blank
   query  |-> {38, 61, 97, 37, 52},                 \* & = a % 4
   map    |-> {32, 92, 97, 0},                      \* blank \ a NUL
   points |-> {97, 65, 233, 232, 8364, 128512},
   bytes  |-> {97, 128, 193, 195, 224, 160, 240, 144},
   cases  |-> 0 .. 1100,
   needle |-> {1, 2},
   pair   |-> {92, 97, 120, 34, 98},                \* \ a x " b
   lines  |-> {10, 97},                             \* newline, a
   answer |-> {32, 10, 0, 50},                      \* blank, empty line, NUL, 2
   hosts  |-> HostValues,
   words  |-> {32, 97, 98},
   sgml   |-> {38, 34, 60, 97},                     \* & " < a
   octets |-> {0, 19, 77, 255},
   groups |-> {65, 61, 13, 47},                     \* A = CR /
   uu     |-> {33, 35, 96, 10, 34, 127},            \* ! # ` newline " DEL
   writes |-> WriteOps,
   order  |-> {0, 65, 97, 66, 200},                 \* NUL A a B, and a negative char
   seek   |-> {0, 65, 97, 98},
   pieces |-> {44, 59, 97},                         \* , ; a
   format |-> {0, 97},
   days   |-> Days,
   signs  |-> Signs]
Longest ==
  [split |-> 6, trim |-> 5, number |-> 6, escape |-> 4, path |-> 6, base64 |-> 7, json |-> 5,
   query |-> 6, map |-> 5, points |-> 4, bytes |-> 5, cases |-> 1, needle |-> 7,
   pair |-> 4, lines |-> 4, answer |-> 5, hosts |-> 3, words |-> 6, sgml |-> 4, octets |-> 6,
   groups |-> 7, uu |-> 5, writes |-> 4, order |-> 2, seek |-> 5, pieces |-> 6, format |-> 7,
   days |-> 1, signs |-> 3]

Olds    == {<< >>, << 97 >>, << 97, 97 >>, << 97, 98 >>}
News    == {<< >>, << 98 >>, << 97, 97 >>}
Others  == UNION {[1..n -> {97, 233}] : n \in 0..2}
           \cup {<< 65 >>, << 97, 65 >>, << 8364 >>, << 232, 233 >>, << 128512 >>}
Outcomes == UNION {[1..n -> {-2, -1, 0, 1, 2}] : n \in 0..2}
Strings == UNION {[1..n -> Alphabet.order] : n \in 0..2}
Sought  == UNION {[1..n -> {0, 65, 97}] : n \in 0..2}
Cuts    == {<< >>, << 44 >>, << 44, 59 >>, << 44, 44 >>}
Needles == UNION {[1..n -> {1, 2}] : n \in 1..4}
-----------------------------------------------------------------------------
sheetVars == << coordinate, junk, pc, row, seq, units, data, height, areas, marked >>

\* main has not been called.
NoSheet ==
  /\ coordinate = << >> /\ junk = Nowhere /\ pc = "off" /\ row = 0 /\ seq = << >>
  /\ units = << >> /\ data = << >> /\ height = 0 /\ areas = << >> /\ marked = 0

TextsInit ==
  /\ unit \in {"sheet", "ini"} \cup DOMAIN Alphabet
  /\ text = << >>
  /\ Ini!Init
  /\ IF unit = "sheet" THEN Init ELSE NoSheet

SheetStep == unit = "sheet" /\ Next /\ UNCHANGED << unit, text, iniVars >>
IniStep   == unit = "ini" /\ Ini!Next /\ UNCHANGED << unit, text, sheetVars >>
TextStep  ==
  /\ unit \in DOMAIN Alphabet /\ Len(text) < Longest[unit]
  /\ \E c \in Alphabet[unit] : text' = Append(text, c)
  /\ UNCHANGED << unit, iniVars, sheetVars >>

TextsNext == SheetStep \/ IniStep \/ TextStep

allVars   == << unit, text, iniVars, sheetVars >>
TextsSpec == TextsInit /\ [][TextsNext]_allVars

\* On a clean sheet the segments are the runs of the row, the ranges form a
\* grid, and the box that main reports is the marked one
\* (Recognizer!SegmentsOnGrid, MarkRecognised).
SheetRecognised == unit = "sheet" => SegmentsOnGrid /\ MarkRecognised

\* Contexts hold what their files say and give back what they took
\* (IniFile!Sound).
IniSound == unit = "ini" => Ini!Sound

\* The helpers of shared_func.c: trimming, splitting, replacing, numbers,
\* escapes, paths, copying into buffers, the loops around read and write, the
\* addresses that allow_hosts stands for, and the answer of a web server
\* (TextHelpers); justified lines, netstrings, SGML quotes, input and buffered
\* output of bstraux.c, comparing, searching, splitting and formatting of
\* bstrlib.c (BstrText).
TextSound ==
  CASE unit = "split"  -> /\ \A m \in 0..4 : Code!SplitSound(text, 44, m)
                          /\ \A o \in Olds, n \in News, z \in 1..8 : Code!ReplaceSound(text, o, n, z)
                          /\ \A o \in Olds, n \in News : Code!ReplaceAllSound(text, o, n)
    [] unit = "trim"   -> Code!TrimSound(text) /\ \A a \in 0..4 : Code!BufferSound(text, a)
    [] unit = "number" -> Code!NumberSound(text)
    [] unit = "escape" -> Code!EncodingSound(text)
    [] unit = "path"   -> Code!PathSound(text)
    [] unit = "lines"  -> \A o \in Outcomes : Code!LoopsSound(text, o)
    [] unit = "answer" -> Code!UrlSound(text)
    [] unit = "hosts"  -> Code!HostsSound(text)
    [] unit = "words"  -> \A w \in 1..8 : Str!WordsSound(text, w) /\ Str!InputSound(text, w - 1, 98)
    [] unit = "sgml"   -> Str!SgmlSound(text)
    [] unit = "writes" -> Str!WritesSound(text)
    [] unit = "order"  -> \A b, c \in Strings, n \in 0..2 : Str!CompareSound(text, b, c, n)
    [] unit = "seek"   -> \A f \in Sought, p \in 0..6 : Str!SearchSound(text, f, p)
    [] unit = "pieces" -> \A f \in Cuts, l \in BOOLEAN : Str!PiecesSound(text, f, l)
    [] unit = "format" -> \A z \in 0..3, n \in 0..8 : Str!FormatSound(text, << 98 >>, z, n)
    [] OTHER           -> TRUE

\* Base64, JSON, queries, character maps and the files they are loaded from
\* (TextHelpers); base64, uuencode and yEnc of bstraux.c (BstrText).
CodecSound ==
  CASE unit = "base64" -> \A line \in {0, 4, 8, 11}, sep \in {<< 10 >>, << 13, 10 >>} :
                            Code!Base64Sound(text, line, sep)
    [] unit = "json"   -> Code!JsonSound(text)
    [] unit = "query"  -> \A m \in 0..3 : Code!QuerySound(text, m)
    [] unit = "map"    -> \A z \in 1..8 : Code!ConvertSound(text, z)
    [] unit = "pair"   -> Code!LoaderSound(text)
    [] unit = "octets" -> Str!CodedSound(text)
    [] unit = "groups" -> Str!Base64TextSound(text)
    [] unit = "uu"     -> Str!UuTextSound(text)
    [] OTHER           -> TRUE

\* utf8.h, on code points, on single characters and on bytes that are not UTF-8,
\* and the searches of utstring.h (Utf8).
Utf8Sound ==
  CASE unit = "points" -> Uni!PointsSound(text) /\ \A o \in Others : Uni!SearchSound(text, o, 98)
    [] unit = "bytes"  -> Uni!ValidSound(text)
    [] unit = "cases"  -> text # << >> => Uni!CaseSound(text[1])
    [] unit = "needle" -> \A p \in Needles : Uni!FindSound(text, p) /\ Uni!BufferSound(text, p)
    [] OTHER           -> TRUE

\* date.h (Calendar): days and dates, months, times of day; a point of time is
\* read back from what every format that holds it whole writes, in years before
\* and after 0 (the last two digits of a century before 0 excepted), and any format
\* reads what it wrote with the same values or not at all.
DatesSound ==
  CASE unit = "days" /\ text # << >> ->
         LET z == text[1]
             y == Cal!FromDays(z).y
         IN /\ Cal!DaySound(z)
            /\ \A n \in {-25, -13, -12, -1, 0, 1, 11, 12, 25} : Cal!MonthsSound(Cal!FromDays(z), n)
            /\ \A t \in Times : Cal!TimeSound(t) /\ Cal!TimeSound(-t)
            /\ \A p \in (Whole \X Times) \cup (Coarse \X {t - (t % 10) : t \in Times})
                        \cup (IF y < 0 THEN {} ELSE {<< << "%", "F", " ", "%", "T" >>, 863999 >>}) :
                 Cal!RoundTrip(p[1], z, p[2])
            /\ \A f \in Dated : (y < 0 /\ y % 100 = 0) \/ Cal!DateRoundTrip(f, z)
    [] unit = "signs" ->
         \A z \in {Cal!ToDays(Cal!Date(2000, 1, 1)), Cal!ToDays(Cal!Date(1969, 12, 29))}, t \in {432005} :
           Cal!ReadsWhatItWrote(FlattenSeq(text), z, t)
    [] OTHER -> TRUE

=============================================================================
