----------------------------- MODULE MCSupport -----------------------------
(***************************************************************************)
(* Memory and logging, each run by itself: `unit' says which one a         *)
(* behaviour exercises, and the others stay as they were initialised.      *)
(***************************************************************************)
EXTENDS Integers, Sequences, FiniteSets

CONSTANTS
  BlockTrunks, BlockDelays, BlockTime,            \* FastMblock
  Trunks, PerTrunk, Sizes, BigBlocks, BytesLimit, \* FastAllocator
  SizeOnce, Discard, BlockSizes, MaxTrunks,       \* FastMpool
  Capacity, Texts, FormatRoom, IntRoom, MaxLength, \* FastBuffer
  Loggers, Syncer, BuffSize, RotateSize, KeepDays, MaxLines, MaxDay, MaxFaults  \* Logger

Regions == << << 0, 4, 2 >>, << 4, 12, 4 >> >>

\* Texts of the runs.
ShortTexts == {<< 1 >>, << 2, 3 >>, << 4, 5, 6, 7, 8 >>}

ASSUME SupportAssumption ==
  /\ IsFiniteSet(BlockTrunks) /\ PerTrunk \in Nat \ {0} /\ BlockDelays \in SUBSET Int
  /\ BlockSizes \in SUBSET Nat /\ SizeOnce \in Nat /\ Discard \in Int
  /\ Capacity \in Nat \ {0} /\ FormatRoom \in Nat /\ IntRoom \in Nat
  /\ Texts \in SUBSET Seq(Int)
  /\ Syncer \notin Loggers /\ "none" \notin Loggers \cup {Syncer}
  /\ BuffSize \in Nat \ {0} /\ MaxDay \in Nat /\ KeepDays \in Int

VARIABLES
  unit,
  pool, used, gone, blockNow,
  pools, objects, acc, now,
  trunks, chain, blocks,
  buf, text, torn,
  log, holder, th, files, err, lost, deleted, count, today, faults

Block == INSTANCE FastMblock WITH Trunks <- BlockTrunks, Delays <- BlockDelays,
                                  MaxTime <- BlockTime, now <- blockNow
Alloc == INSTANCE FastAllocator WITH RatioNum <- 1, RatioDen <- 2, ReclaimInterval <- 1,
                                     MaxTime <- 2
Arena == INSTANCE FastMpool
Bytes == INSTANCE FastBuffer
Lines == INSTANCE Logger WITH now <- today

blockVars == << pool, used, gone, blockNow >>
allocVars == << pools, objects, acc, now >>
arenaVars == << trunks, chain, blocks >>
bytesVars == << buf, text, torn >>
linesVars == << log, holder, th, files, err, lost, deleted, count, today, faults >>

vars == << unit, blockVars, allocVars, arenaVars, bytesVars, linesVars >>

Init ==
  /\ unit \in {"block", "alloc", "arena", "bytes", "lines"}
  /\ Block!Init /\ Alloc!Init /\ Arena!Init /\ Bytes!Init /\ Lines!Init

BlockStep ==
  unit = "block" /\ Block!Next /\ UNCHANGED << unit, allocVars, arenaVars, bytesVars, linesVars >>
AllocStep ==
  unit = "alloc" /\ Alloc!Next /\ UNCHANGED << unit, blockVars, arenaVars, bytesVars, linesVars >>
ArenaStep ==
  unit = "arena" /\ Arena!Next /\ UNCHANGED << unit, blockVars, allocVars, bytesVars, linesVars >>
BytesStep ==
  unit = "bytes" /\ Bytes!Next /\ UNCHANGED << unit, blockVars, allocVars, arenaVars, linesVars >>

LinesStep ==
  unit = "lines" /\ Lines!Next /\ UNCHANGED << unit, blockVars, allocVars, arenaVars, bytesVars >>

Next == LinesStep \/ BlockStep \/ AllocStep \/ ArenaStep \/ BytesStep

Spec == Init /\ [][Next]_vars

\* fast_mblock and fast_allocator: every node is in one place, and pools, blocks,
\* counters and accounts agree (FastMblock!Exact, FastAllocator!Exact).
AllocatorExact ==
  /\ unit = "block" => Block!Exact
  /\ unit = "alloc" => Alloc!Exact

\* fast_mblock: a delayed free is not given out early (FastMblock!NeverEarly).
MblockNeverEarly == Block!NeverEarly

\* fast_mpool and fast_buffer: blocks do not overlap and trunks are not
\* forgotten; the buffer holds what was appended (FastMpool!Sound,
\* FastBuffer!Sound).
MpoolSound ==
  /\ unit = "arena" => Arena!Sound
  /\ unit = "bytes" => Bytes!Sound

\* logger: lines are neither lost nor doubled nor out of order, and are kept for
\* the days asked for (Logger!Sound).
LoggerSound == unit = "lines" => Lines!Sound

=============================================================================
