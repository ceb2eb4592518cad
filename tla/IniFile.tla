------------------------------ MODULE IniFile ------------------------------
(***************************************************************************)
(* ini_file_reader.c: loading of configuration files with #@set, #@if,     *)
(* #@for and #include, annotations (#@function), and the queries.          *)
(*                                                                         *)
(* A file is a sequence of lines, a line a record whose field k says what  *)
(* it is; every line ends with a newline.  A name is a sequence of numbers *)
(* (its characters), a value a sequence of strings: text, or the tags of   *)
(* variables (%{v}).  Positions are counted in lines where the code counts *)
(* bytes.                                                                  *)
(*                                                                         *)
(*   set       var, val, ok              if    cond      else   endif  alone *)
(*   for       idLen, from, to, step, ok                       endfor      *)
(*   include   file                      function  name                    *)
(*   add       name, lib                 section   name                    *)
(*   item      name, value, at: where the loop variable stands, "none",    *)
(*             "name" or "value"         other                             *)
(***************************************************************************)
EXTENDS Integers, Sequences, SequencesExt, FiniteSets, TLC

CONSTANTS
  File,         \* what each file holds
  VarTag,       \* the parts that are variables, and their names
  Contexts,     \* IniContext objects
  MaxSlots,     \* _MAX_DYNAMIC_CONTENTS
  MaxValue,     \* FAST_INI_ITEM_VALUE_LEN, in parts
  Bits,         \* width of an address, 32 in the code
  LocalIps,     \* sequence of [addr, private]
  Host,         \* gethostname
  Libs          \* libraries that can be opened

VARIABLES
  context,      \* of each context: is it loaded, from which file, its sections
  slots,        \* g_dynamic_contents
  index,        \* g_dynamic_content_index
  count,        \* g_dynamic_content_count
  annotations   \* g_annotations

vars == << context, slots, index, count, annotations >>

Global == "global"       \* the section without a name
Builtin == << "LOCAL_IP_GET", "REPLACE_VARS" >>
NoVars == << >>          \* an empty function
Empty  == [used |-> FALSE, context |-> "none", vars |-> NoVars, offset |-> 0, annos |-> << >>]

-----------------------------------------------------------------------------
(* Values and conditions *)

\* doReplaceVars: a name that is not set stays as it is written, and the
\* result is cut to the size of a value.
DoReplaceVars(set, value) ==
  LET part(p) == IF p \in DOMAIN VarTag /\ VarTag[p] \in DOMAIN set THEN set[VarTag[p]] ELSE << p >>
      all == FlattenSeq([i \in DOMAIN value |-> part(value[i])])
  IN SubSeq(all, 1, IF Len(all) < MaxValue THEN Len(all) ELSE MaxValue)

\* iniMatchCIDR: the network bits must leave room on both sides.
MatchCIDR(target, net) ==
  /\ net.bits \in 1..(Bits - 1)
  /\ target \div 2^(Bits - net.bits) = net.addr \div 2^(Bits - net.bits)

\* iniMatchIP, with bits = Bits for a value without a slash.
MatchIP(target, values) ==
  \E i \in DOMAIN values :
    IF values[i].bits = Bits THEN target = values[i].addr ELSE MatchCIDR(target, values[i])

MatchValue(target, values) == \E i \in DOMAIN values : values[i] = target

\* iniCalcCondition: %{variable} in [...].
CalcCondition(cond, set) ==
  /\ cond.ok
  /\ CASE cond.var = "LOCAL_HOST" -> MatchValue(Host, cond.in)
       [] cond.var = "LOCAL_IP" -> \E i \in DOMAIN LocalIps : MatchIP(LocalIps[i].addr, cond.in)
       [] OTHER -> cond.var \in DOMAIN set /\ MatchValue(set[cond.var], cond.in)

-----------------------------------------------------------------------------
(* Directives *)

\* iniFindTag: the first line from `from' on that has the tag, 0 without one.
FindTag(c, from, tag) == SelectInSubSeq(c, from, Len(c), LAMBDA l : l.k = tag)

Hang == -1

\* iniFindAloneTag searches from the same place again when something follows
\* the tag, and so for ever.
FindAloneTag(c, from, tag) ==
  LET i == FindTag(c, from, tag) IN IF i > 0 /\ ~c[i].alone THEN Hang ELSE i

\* iniDoProccessSet; commands are not executed: FAST_INI_FLAGS_SHELL_EXECUTE is off.
DoProcessSet(slot, line) ==
  IF ~line.ok THEN slot
  ELSE [slot EXCEPT !.vars = (line.var :> IF line.exec THEN << >>
                                          ELSE DoReplaceVars(@, line.val)) @@ @]

\* iniProccessSet: the #@set lines from the offset to `end'.
ProcessSet(c, end, slot) ==
  LET sets == SelectSeq(SubSeq(c, slot.offset + 1, end - 1), LAMBDA l : l.k = "set")
  IN [FoldLeft(DoProcessSet, slot, sets) EXCEPT !.offset = end - 1]

\* iniProccessIf: the first #@if is replaced by the part its condition selects.
\* next says whether there may be another.
ProcessIf(c, slot) ==
  LET p    == FindTag(c, 1, "if")
      s    == ProcessSet(c, IF p = 0 THEN Len(c) + 1 ELSE p, slot)
      e    == FindAloneTag(c, p + 1, "endif")
      el   == FindAloneTag(c, p + 1, "else")
      then == SubSeq(c, p + 1, (IF el = 0 \/ el > e THEN e ELSE el) - 1)
      else == IF el = 0 \/ el > e THEN << >> ELSE SubSeq(c, el + 1, e - 1)
  IN IF p = 0 \/ e = 0 THEN [c |-> c, slot |-> s, next |-> 0]
     ELSE IF Hang \in {e, el} THEN [c |-> c, slot |-> s, next |-> Hang]
     ELSE [c    |-> SubSeq(c, 1, p - 1) \o (IF CalcCondition(c[p].cond, s.vars) THEN then ELSE else)
                      \o SubSeq(c, e + 1, Len(c)),
           slot |-> s,
           next |-> 1]

\* What the range of a #@for says (iniParseForRange), or nothing.
ForRange(line) ==
  IF ~line.ok \/ line.step = 0 \/ (line.to < line.from /\ line.from - line.to >= line.step)
  THEN << >>
  ELSE << [i \in 0..((line.to - line.from) \div line.step) |-> line.from + i * line.step] >>

\* One line of the loop's block with the variable replaced.
Instantiate(line, i) ==
  IF line.k # "item" THEN line
  ELSE CASE line.at = "name"  -> [line EXCEPT !.name = Append(@, i), !.at = "none"]
         [] line.at = "value" -> [line EXCEPT !.value = Append(@, ToString(i)), !.at = "none"]
         [] OTHER -> line

\* A turn of the loop: what is behind the last {$i} is copied only when it is
\* at least as long as that tag, else the last line ends there: the tag is
\* idLen + 3 long, and an = and the value follow, and the newline.
CopyBlock(block, i, idLen) ==
  LET n == Len(block)
      last == block[n]
  IN [j \in 1..n |->
        IF j = n /\ last.k = "item" /\ last.at = "name" /\ 2 + Len(last.value) < idLen + 3
        THEN [k |-> "other"] ELSE Instantiate(block[j], i)]

\* iniProccessFor.  A statement it does not accept is left where it is, and
\* the caller's loop starts over from the beginning.
ProcessFor(c) ==
  LET p == FindTag(c, 1, "for")
      e == FindAloneTag(c, p + 1, "endfor")
      r == ForRange(c[p])
      turns == r[1]
  IN IF p = 0 \/ e = 0 THEN [c |-> c, next |-> 0]
     ELSE IF e = Hang \/ r = << >> THEN [c |-> c, next |-> Hang]
     ELSE [c    |-> SubSeq(c, 1, p - 1)
                      \o FlattenSeq([t \in 1..Cardinality(DOMAIN turns) |->
                            CopyBlock(SubSeq(c, p + 1, e - 1), turns[t - 1], c[p].idLen)])
                      \o SubSeq(c, e + 1, Len(c)),
           next |-> 1]

\* The two loops of iniLoadItemsFromBuffer, after the turn that returned r.
RECURSIVE Ifs(_)
Ifs(r) == IF r.next = 1 THEN Ifs(ProcessIf(r.c, r.slot)) ELSE r

RECURSIVE Fors(_)
Fors(r) == IF r.next = 1 THEN Fors(ProcessFor(r.c)) ELSE r

-----------------------------------------------------------------------------
(* Sections and items *)

\* iniAnnotationFuncLocalIpGet: inner or outer addresses, all or the one with
\* an index (-1 for the last).
LocalIpGet(value) ==
  LET private == value[1] = "inner"
      ips == SelectSeq(LocalIps, LAMBDA a : a.private = private)
      n == Len(ips)
      all == [i \in 1..n |-> << ToString(ips[i].addr) >>]
  IN IF n = 0 THEN << << >> >>
     ELSE IF Len(value) = 1 THEN all
     ELSE LET i == CHOOSE j \in -1..9 : ToString(j) = value[2]
          IN << IF i = -1 THEN all[n] ELSE IF i >= n THEN << >> ELSE all[i + 1] >>

\* What an annotation's function makes of the value, nothing when it is unknown
\* (iniFindAnnotation in the context's annotations, then in the global ones).
Annotated(a, name, value) ==
  IF name \in ToSet(a.slot.annos)
  THEN IF name = "LOCAL_IP_GET" THEN LocalIpGet(value)
       ELSE << DoReplaceVars(a.slot.vars, value) >>
  ELSE IF name \in ToSet(a.annotations) THEN << << name, value[1] >> >>
  ELSE << >>

\* Items are written where pItem points, which is one local variable of a load,
\* and counted in the section.
Written(a, name, values) ==
  LET old == a.sections[a.section]
      new == [i \in 1..Len(values) |-> [name |-> name, value |-> values[i]]]
      items == [i \in 1..(Len(old) + Len(new)) |->
                  IF i >= a.pItem /\ i < a.pItem + Len(new) THEN new[i - a.pItem + 1]
                  ELSE IF i <= Len(old) THEN old[i] ELSE [name |-> << >>, value |-> << >>]]
  IN [a EXCEPT !.sections[a.section] = items, !.pItem = @ + Len(values)]

\* A section line, with the sections there are so far.
EnterSection(a, name) ==
  LET secs == IF name \in DOMAIN a.sections THEN a.sections ELSE (name :> << >>) @@ a.sections
  IN [a EXCEPT !.section = name, !.sections = secs, !.pItem = Len(secs[name]) + 1]

\* iniAddAnnotation: EEXIST does not stop the load, a missing library does.
AddAnnotation(a, line) ==
  CASE line.name \in ToSet(a.annotations) -> a
    [] line.lib \notin Libs -> [a EXCEPT !.result = "ENOENT"]
    [] OTHER -> [a EXCEPT !.annotations = Append(@, line.name)]

\* An item line, with the annotation of the line before it.
AddItem(a, line) ==
  LET given == IF a.function = "" THEN << >> ELSE Annotated(a, a.function, line.value)
      cut(v) == SubSeq(v, 1, IF Len(v) < MaxValue THEN Len(v) ELSE MaxValue)
  IN Written(a, line.name, IF given = << >> THEN << cut(line.value) >>
                           ELSE [i \in DOMAIN given |-> cut(given[i])])

\* Mutant: after an #include the load goes on where pItem pointed before.
AfterIncludeKeepsItem(a, r) ==
  [r EXCEPT !.section = Global, !.pItem = a.pItem, !.function = ""]

\* After an #include the load goes on at the end of the global section.
AfterInclude(a, r) ==
  [r EXCEPT !.section = Global, !.pItem = Len(r.sections[Global]) + 1, !.function = ""]

\* iniLoadItemsFromBuffer with iniDoLoadItemsFromBuffer; an included file is
\* loaded in the same way, into the same context and with its set offset.
RECURSIVE LoadItems(_, _)
LoadItems(lines, a0) ==
  LET Include(a, file) ==
        IF file \notin DOMAIN File THEN [a EXCEPT !.result = "ENOENT"]
        ELSE AfterInclude(a, LoadItems(File[file], [a EXCEPT !.section = Global]))
      Step(a, line) ==
        LET b == [a EXCEPT !.function = ""] IN
        IF a.result # "ok" THEN a
        ELSE CASE line.k = "include"  -> Include(b, line.file)
               [] line.k = "function" -> [a EXCEPT !.function = line.name]
               [] line.k = "add"      -> AddAnnotation(b, line)
               [] line.k = "section"  -> EnterSection(b, line.name)
               [] line.k = "item"     -> [AddItem(a, line) EXCEPT !.function = ""]
               [] OTHER -> b
      Start(f) == [a0 EXCEPT !.slot = f.slot, !.pItem = Len(a0.sections[a0.section]) + 1]
      Items(f, g) ==
        IF Hang \in {f.next, g.next} THEN [Start(f) EXCEPT !.result = "hang"]
        ELSE FoldLeft(Step, Start(f), g.c)
      AfterIfs(f) == Items(f, Fors([c |-> f.c, next |-> 1]))
  IN AfterIfs(Ifs([c |-> lines, slot |-> a0.slot, next |-> 1]))

-----------------------------------------------------------------------------
(* Contexts *)

\* iniGetCDCPair: the slot of a context, 0 without one.
GetCDCPair(c) ==
  IF slots[index].context = c THEN index
  ELSE IF count = 0 THEN 0 ELSE SelectInSeq(slots, LAMBDA s : s.context = c)

\* iniAllocCDCPair: the context's slot or the first that is not used.
AllocCDCPair(c) ==
  IF GetCDCPair(c) # 0 THEN GetCDCPair(c)
  ELSE IF count = MaxSlots THEN 0 ELSE SelectInSeq(slots, LAMBDA s : ~s.used)

\* The slot taken, with the builtin annotations put in (iniSetAnnotations).
Taken(s, c) == [s EXCEPT !.used = TRUE, !.context = c, !.annos = Builtin]

\* iniFreeDynamicContent with iniFreeContext: the offset goes back to zero only
\* when there are variables.
Released(s) ==
  [s EXCEPT !.used = FALSE, !.context = "none", !.annos = << >>, !.vars = NoVars,
            !.offset = IF s.vars = NoVars THEN @ ELSE 0]

\* iniSortItems orders the items by name.
NameLess(x, y) == x.name # y.name /\
  LET i == CHOOSE j \in 1..(Len(x.name) + 1) :
             /\ j > Len(x.name) \/ j > Len(y.name) \/ x.name[j] # y.name[j]
             /\ \A k \in 1..(j - 1) : x.name[k] = y.name[k]
  IN i > Len(x.name) \/ (i <= Len(y.name) /\ x.name[i] < y.name[i])
SortItems(sections) == [s \in DOMAIN sections |-> SortSeq(sections[s], NameLess)]

\* iniDestroyAnnotations: what the load has added goes again.
DestroyAnnotations(old, new) == SubSeq(new, 1, Len(old))

Unloaded == [loaded |-> FALSE, file |-> "none", sections |-> Global :> << >>, clean |-> TRUE]

Init ==
  /\ context = [c \in Contexts |-> Unloaded]
  /\ slots = [i \in 1..MaxSlots |-> Empty]
  /\ index = 1
  /\ count = 0
  /\ annotations = << >>

\* The end of a load into slot i that came out as a: one that fails frees the
\* context.
EndLoad(c, file, i, a) ==
  /\ a.result # "hang"
  /\ index' = i
  /\ slots' = [slots EXCEPT ![i] = IF a.result = "ok" THEN a.slot ELSE Released(a.slot)]
  /\ count' = IF a.result = "ok" THEN count + 1 ELSE count
  /\ context' = IF a.result # "ok" THEN context
                ELSE [context EXCEPT ![c] =
                       [loaded |-> TRUE, file |-> file, sections |-> SortItems(a.sections),
                        clean |-> slots[i].offset = 0]]
  /\ annotations' = DestroyAnnotations(annotations, a.annotations)

\* iniLoadFromFile (or iniLoadFromBuffer with the same text); without a slot it
\* returns at once.
Load(c, file) ==
  LET i == AllocCDCPair(c) IN
  /\ ~context[c].loaded
  /\ IF i = 0 THEN UNCHANGED vars
     ELSE EndLoad(c, file, i,
                  LoadItems(File[file], [slot |-> Taken(slots[i], c), annotations |-> annotations,
                                         sections |-> Global :> << >>, section |-> Global,
                                         pItem |-> 1, function |-> "", result |-> "ok"]))

\* iniFreeContext, of a context that is loaded.
Free(c) ==
  /\ context[c].loaded
  /\ context' = [context EXCEPT ![c] = Unloaded]
  /\ slots' = [slots EXCEPT ![GetCDCPair(c)] = Released(@)]
  /\ count' = count - 1
  /\ index' = GetCDCPair(c)
  /\ UNCHANGED annotations

\* iniSetAnnotationCallBack and iniDestroyAnnotationCallBack.
SetAnnotationCallBack(name) ==
  /\ annotations' = IF name \in ToSet(annotations) THEN annotations ELSE Append(annotations, name)
  /\ UNCHANGED << context, slots, index, count >>

DestroyAnnotationCallBack ==
  /\ annotations # << >>
  /\ annotations' = << >>
  /\ UNCHANGED << context, slots, index, count >>

Next ==
  \/ \E c \in Contexts : Free(c) \/ \E f \in DOMAIN File : Load(c, f)
  \/ SetAnnotationCallBack("CALL")
  \/ DestroyAnnotationCallBack

Spec == Init /\ [][Next]_vars

-----------------------------------------------------------------------------
(* Queries and what they should say *)

\* INI_FIND_ITEM: bsearch may find any of the items with the name.
FindItem(items, name) == {i \in DOMAIN items : items[i].name = name}

\* iniGetValuesEx: back and forth from the item found, and their values in
\* order; GetStrValue takes the last.
GetValues(items, name, found) ==
  LET Same(i, j) == \A k \in i..j : items[k].name = name
      first == CHOOSE i \in 1..found : Same(i, found) /\ (i = 1 \/ ~Same(i - 1, found))
      last  == CHOOSE j \in found..Len(items) :
                 Same(found, j) /\ (j = Len(items) \/ ~Same(found, j + 1))
  IN [i \in 1..(last - first + 1) |-> items[first + i - 1].value]

\* The same files read in one pass from top to bottom: each #@if by the
\* variables set above it, each #@for with all its turns, each #include in its
\* place with the global section around it.
RECURSIVE Meant(_, _)
Meant(lines, set) ==
  IF lines = << >> THEN << << >>, set >>
  ELSE LET l == Head(lines)
           rest == Tail(lines)
           from(i) == SubSeq(rest, i, Len(rest))
           end == SelectInSeq(rest, LAMBDA x : x.k = (IF l.k = "if" THEN "endif" ELSE "endfor"))
           else == SelectInSeq(SubSeq(rest, 1, end), LAMBDA x : x.k = "else")
           cut == IF else = 0 THEN end ELSE else
           chosen == IF CalcCondition(l.cond, set) THEN SubSeq(rest, 1, cut - 1)
                     ELSE SubSeq(rest, cut + 1, end - 1)
           turns(i) == [j \in 1..(end - 1) |-> Instantiate(rest[j], i)]
           all == FlattenSeq([t \in 1..((l.to - l.from) \div l.step + 1) |->
                                turns(l.from + (t - 1) * l.step)])
           global == << [k |-> "section", name |-> Global] >>
           more == Meant(rest, set)
       IN CASE l.k = "set" -> Meant(rest, (l.var :> DoReplaceVars(set, l.val)) @@ set)
            [] l.k = "if"  -> Meant(chosen \o from(end + 1), set)
            [] l.k = "for" -> Meant(all \o from(end + 1), set)
            [] l.k = "include" -> << global \o Meant(File[l.file], set)[1] \o global \o more[1],
                                     more[2] >>
            [] OTHER -> << << l >> \o more[1], more[2] >>

\* The values a section and a name should have, in the order of the file.
ValuesIn(m, section, name) ==
  LET f == m[1]
      In(i) == LET s == SelectLastInSubSeq(f, 1, i, LAMBDA l : l.k = "section")
               IN IF s = 0 THEN Global ELSE f[s].name
      Given(i) == IF i > 1 /\ f[i - 1].k = "function"
                  THEN Annotated([slot |-> [annos |-> Builtin, vars |-> m[2]], annotations |-> << >>],
                                 f[i - 1].name, f[i].value)
                  ELSE << >>
  IN FlattenSeq([i \in DOMAIN f |->
       IF f[i].k = "item" /\ f[i].name = name /\ In(i) = section
       THEN IF Given(i) = << >> THEN << f[i].value >> ELSE Given(i)
       ELSE << >>])
Values(file, section, name) == ValuesIn(Meant(File[file], NoVars), section, name)

Names == {<< n >> : n \in 1..9} \cup (1..9) \X (0..3)

\* A context answers with what its file says, whichever of the equal items
\* bsearch finds.
Answers(c) ==
  \A s \in DOMAIN c.sections, n \in Names :
    LET items == c.sections[s]
        due == Values(c.file, s, n)
    IN /\ FindItem(items, n) = {} <=> due = << >>
       /\ \A found \in FindItem(items, n) :
            \E p \in [1..Len(due) -> 1..Len(due)] :
              /\ IsInjective(p)
              /\ GetValues(items, n, found) = [i \in 1..Len(due) |-> due[p[i]]]

\* Loads, failed loads and frees of several contexts in any order: a context
\* that was loaded through a fresh slot answers what its file says; each loaded
\* context has one slot and every slot in use belongs to one; and annotations
\* added by a file are gone after its load.
Sound ==
  /\ \A c \in Contexts : context[c].loaded =>
       /\ context[c].clean => Answers(context[c])
       /\ Cardinality({i \in 1..MaxSlots : slots[i].used /\ slots[i].context = c}) = 1
  /\ count = Cardinality({i \in 1..MaxSlots : slots[i].used})
  /\ count = Cardinality({c \in Contexts : context[c].loaded})
  /\ ToSet(annotations) \subseteq {"CALL"}

\* iniCalcCondition: "support variables are: LOCAL_IP, LOCAL_HOST and variables
\* by #@set directive", in whichever slot the context is.
SetIsSupported == \A c \in Contexts : context[c].loaded => Answers(context[c])

=============================================================================
