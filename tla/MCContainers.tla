--------------------------- MODULE MCContainers ---------------------------
(***************************************************************************)
(* The containers and strings, each run by itself: `unit' says which one a *)
(* behaviour exercises, and the others stay as they were initialised.      *)
(***************************************************************************)
EXTENDS Integers, Sequences

CONSTANTS
  ListKeys, ListNodes, ListTop, ListBorn,         \* Skiplists
  TreeKeys, TreeVersions,                         \* AvlTree
  HeapElements, HeapPriorities, HeapStep,         \* PQueue
  HashKeys, HashLimits, HashMaxValue,             \* HashTable
  ChainCells, ChainData,                          \* Chain
  Chars, Space, MinSize, ReadStep, ReadMost, MaxLen,   \* BString
  SplitLen, MaxBuff, MaxRest,                     \* BStream
  TableElems, Buckets0, Thresh,                   \* UtHash
  ListElems,                                      \* UtList
  Strings, Blocks, Slots0, RingSize, ArrayMost,   \* UtArray
  ProcessNames, Processes, Messages               \* Dispatcher

HashValues == {<< 1 >>, << 1, 2, 1 >>}
Words      == {<< >>, << 1 >>, << 1, 2 >>, << 2, 2 >>, << 1, 1, 2 >>}
Inputs     == UNION {[1..n -> {1, 2}] : n \in 0..4}
Unreads    == {<< >>, << 1 >>, << 2, 1 >>}
TableKey   == << 1, 2, 3, 4, 5, 1 >>
TableHash  == << 1, 5, 9, 2, 3 >>
TableRank  == << 2, 1, 2, 3, 1, 2 >>
ListRank   == << 2, 1, 2, 3, 1 >>
OtherArray == << "x", "y" >>

VARIABLES
  unit,
  kind, sl, free, w, r, born, bag,
  root, treeMap, ret,
  q, queued,
  h, cfg, hashMap,
  list, node, want,
  b, bwant,
  s, split, got, rest, due,
  users, chosen, order, picked,
  macros, mem, head, head2, listed, listed2,
  heap, arr, ring, arrWant, ringWant, bad,
  processes, memory, answered, up, registered

List == INSTANCE Skiplists WITH Keys <- ListKeys, Nodes <- ListNodes,
                                TopLevel <- ListTop, MaxBorn <- ListBorn
Tree == INSTANCE AvlTree WITH Keys <- TreeKeys, Versions <- TreeVersions, map <- treeMap
Heap == INSTANCE PQueue WITH Elements <- HeapElements, Priorities <- HeapPriorities,
                             Step <- HeapStep
Hash == INSTANCE HashTable WITH Keys <- HashKeys, Values <- HashValues,
                                Limits <- HashLimits, MaxValue <- HashMaxValue,
                                map <- hashMap
Links == INSTANCE Chain WITH Cells <- ChainCells, Data <- ChainData
Str == INSTANCE BString WITH want <- bwant
Stream == INSTANCE BStream WITH Terms <- {{2}, {1, 2}}
UTable == INSTANCE UtHash WITH Elems <- TableElems, Key <- TableKey, HashOf <- TableHash,
                              Rank <- TableRank
UList == INSTANCE UtList WITH Elems <- ListElems, Rank <- ListRank, kind <- macros,
                              order <- listed, order2 <- listed2
UArray == INSTANCE UtArray WITH Other <- OtherArray, MaxLen <- ArrayMost, want <- arrWant
Registry == INSTANCE Dispatcher WITH Names <- ProcessNames, Objects <- Processes,
                                    Data <- Messages, None <- "none"

listVars == << kind, sl, free, w, r, born, bag >>
treeVars == << root, treeMap, ret >>
heapVars == << q, queued >>
hashVars == << h, cfg, hashMap >>
linkVars == << list, node, want >>
strVars  == << b, bwant >>
streamVars == << s, split, got, rest, due >>
tableVars == << users, chosen, order, picked >>
ulistVars == << macros, mem, head, head2, listed, listed2 >>
arrayVars == << heap, arr, ring, arrWant, ringWant, bad >>
registryVars == << processes, memory, answered, up, registered >>
utVars    == << tableVars, ulistVars, arrayVars, registryVars >>

vars == << unit, listVars, treeVars, heapVars, hashVars, linkVars, strVars, streamVars, utVars >>

Init ==
  /\ unit \in {"list", "tree", "heap", "hash", "links", "string", "stream", "table",
             "ulist", "array", "registry"}
  /\ List!Init /\ Tree!Init /\ Heap!Init /\ Hash!Init /\ Links!Init
  /\ Str!Init /\ Stream!Init /\ UTable!Init /\ UList!Init /\ UArray!Init /\ Registry!Init
  /\ unit # "list" => kind = "set"
  /\ unit # "hash" => cfg.max = 0 /\ ~cfg.mallocValue
  /\ unit # "links" => list.type = "append"
  /\ unit # "stream" => rest = << >>
  /\ unit # "ulist" => macros = "LL"

ListStep ==
  /\ unit = "list" /\ List!Next
  /\ UNCHANGED << unit, treeVars, heapVars, hashVars, linkVars, strVars, streamVars, utVars >>
TreeStep ==
  /\ unit = "tree" /\ Tree!Next
  /\ UNCHANGED << unit, listVars, heapVars, hashVars, linkVars, strVars, streamVars, utVars >>
HeapStepOf ==
  /\ unit = "heap" /\ Heap!Next
  /\ UNCHANGED << unit, listVars, treeVars, hashVars, linkVars, strVars, streamVars, utVars >>
HashStep ==
  /\ unit = "hash" /\ Hash!Next
  /\ UNCHANGED << unit, listVars, treeVars, heapVars, linkVars, strVars, streamVars, utVars >>
LinkStep ==
  /\ unit = "links" /\ Links!Next
  /\ UNCHANGED << unit, listVars, treeVars, heapVars, hashVars, strVars, streamVars, utVars >>
StrStep ==
  /\ unit = "string" /\ Str!Next
  /\ UNCHANGED << unit, listVars, treeVars, heapVars, hashVars, linkVars, streamVars, utVars >>
StreamStep ==
  /\ unit = "stream" /\ Stream!Next
  /\ UNCHANGED << unit, listVars, treeVars, heapVars, hashVars, linkVars, strVars, utVars >>

classicVars ==
  << listVars, treeVars, heapVars, hashVars, linkVars, strVars, streamVars >>
TableStep ==
  unit = "table" /\ UTable!Next /\ UNCHANGED << unit, classicVars, ulistVars, arrayVars, registryVars >>
UListStep ==
  unit = "ulist" /\ UList!Next /\ UNCHANGED << unit, classicVars, tableVars, arrayVars, registryVars >>
ArrayStep ==
  unit = "array" /\ UArray!Next /\ UNCHANGED << unit, classicVars, tableVars, ulistVars, registryVars >>
RegistryStep ==
  unit = "registry" /\ Registry!Next /\ UNCHANGED << unit, classicVars, tableVars, ulistVars, arrayVars >>

Next ==
  LinkStep \/ ListStep \/ TreeStep \/ HeapStepOf \/ HashStep \/ StrStep \/ StreamStep
  \/ TableStep \/ UListStep \/ ArrayStep \/ RegistryStep

Spec == Init /\ [][Next]_vars

\* The skip lists iterate over exactly what they hold, sorted and stable,
\* find_all and find_range give what filtering would, and a search concurrent
\* with an insertion follows only written links and misses nothing.
SkiplistSound ==
  unit = "list" => List!IteratesInOrder /\ List!RangesExact /\ List!SearchSafe

\* The AVL tree stays balanced and answers as a map (AvlTree!Sound).
AvlTreeSound == unit = "tree" => Tree!Sound

\* The heap stays a heap and its elements know their places (PQueue!Sound).
PQueueSound == unit = "heap" => Heap!Sound

\* The hash table finds what was stored and keeps its accounts; the table of
\* processes owns each of its processes once and dispatches as registered
\* (HashTable!Sound, Dispatcher!Sound).
HashTableSound ==
  /\ unit = "hash" => Hash!Sound
  /\ unit = "registry" => Registry!Sound

\* The chain list, the macros' lists and the arrays hold what was put in, in its
\* order; their links stay whole, and every copy has one owner (Chain!Sound,
\* UtList!Sound, UtArray!Sound).
ListsSound ==
  /\ unit = "links" => Links!Sound
  /\ unit = "ulist" => UList!Sound
  /\ unit = "array" => UArray!Sound

\* A uthash table finds every element, iterates in the order the application
\* asked for and passes the checks of HASH_FSCK (UtHash!Sound).
UtHashSound == unit = "table" => UTable!Sound

\* Edits, searches, splits and joins of bstrings give the text they should and
\* stay within the memory there is; reads of a bStream give what is next and
\* lose nothing (BString!Sound, BStream!Sound).
BStringSound ==
  /\ unit = "string" => Str!Sound
  /\ unit = "stream" => Stream!Sound

\* bsplitstr: "divided by the entire substring splitStr" (BString!SplitsAtEvery).
BStringSplitsAtEvery == unit = "string" => Str!SplitsAtEvery

\* "thread safe for one write with many read model", for the skip lists' find
\* (Skiplists!FindReturnsEqual).
SkiplistFindReturnsEqual == List!FindReturnsEqual

\* What HASH_SELECT leaves can be appended to: its tail is its last element
\* (UtHash!SelectKeepsTail).
UtHashSelectKeepsTail == unit = "table" => UTable!SelectKeepsTail

=============================================================================
