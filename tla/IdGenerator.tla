----------------------------- MODULE IdGenerator -----------------------------
(***************************************************************************)
(* id_generator.c: processes draw serial numbers from one file, under a     *)
(* lock of fcntl (file_write_lock, shared_func.c), and put the second, the  *)
(* machine, extra data and the serial together to an id.  A lock of fcntl   *)
(* belongs to a process: it does not keep two threads of one process apart, *)
(* and goes when the process dies.                                          *)
(***************************************************************************)
EXTENDS Integers, FiniteSets

CONSTANTS
  Threads, ProcOf,             \* callers, and the process of each
  MidBits, ExtraBits, SnBits,  \* widths of machine id, extra data, serial
  MachineId,
  MaxSerial, MaxTime           \* bounds on the serials drawn and on the clock

VARIABLES
  file,        \* the number in the file; 0 also stands for an empty file
  holder,      \* the process that holds the lock, or "none"
  th,          \* [Threads -> [pc, sn, result]]
  clock,       \* time(NULL)
  ids          \* history: the ids given out with success, with their parts

vars == << file, holder, th, clock, ids >>

Procs == {ProcOf[t] : t \in Threads}

MesBitsSum  == MidBits + ExtraBits + SnBits
MaskedMid   == MachineId * 2 ^ (ExtraBits + SnBits)
\* (extra << sn_bits) & extra_mask
ExtraPart(x) == (x % 2 ^ ExtraBits) * 2 ^ SnBits
SnPart(sn)   == sn % 2 ^ SnBits
Id(time, extra, sn) == time * 2 ^ MesBitsSum + MaskedMid + ExtraPart(extra) + SnPart(sn)

Idle == [pc |-> "idle", sn |-> 0, result |-> "none"]

\* id_generator_init_extra_ex opens or creates the file after it has checked
\* that the widths fit (the ASSUME of the instance).
Init ==
  /\ MachineId \in 0 .. 2 ^ MidBits - 1
  /\ file = 0 /\ holder = "none" /\ th = [t \in Threads |-> Idle]
  /\ clock = 1 /\ ids = {}

\* file_write_lock: F_SETLKW, tried again when it was interrupted.
FileWriteLock(t) ==
  /\ th[t].pc = "idle" /\ file < MaxSerial
  /\ holder \in {"none", ProcOf[t]}
  /\ holder' = ProcOf[t] /\ th' = [th EXCEPT ![t] = [Idle EXCEPT !.pc = "read"]]
  /\ UNCHANGED << file, clock, ids >>

\* A plausible slip: the lock is given up before the number is written back.
ReadSerialUnlocks(t) ==
  /\ th[t].pc = "read" /\ th' = [th EXCEPT ![t].pc = "write", ![t].sn = file + 1]
  /\ holder' = "none" /\ UNCHANGED << file, clock, ids >>

\* lseek and read; strtoll of an empty file is 0.
ReadSerial(t) ==
  /\ th[t].pc = "read"
  /\ \/ th' = [th EXCEPT ![t].pc = "write", ![t].sn = file + 1]
     \/ th' = [th EXCEPT ![t].pc = "unlock", ![t].sn = 0, ![t].result = "read"]
  /\ UNCHANGED << file, holder, clock, ids >>

\* lseek and write of twenty characters over the old ones: all or nothing.
WriteSerial(t) ==
  /\ th[t].pc = "write"
  /\ \/ file' = th[t].sn /\ th' = [th EXCEPT ![t].pc = "unlock", ![t].result = "ok"]
     \/ UNCHANGED file /\ th' = [th EXCEPT ![t].pc = "unlock", ![t].result = "write"]
  /\ UNCHANGED << holder, clock, ids >>

FileUnlock(t) ==
  /\ th[t].pc = "unlock" /\ th' = [th EXCEPT ![t].pc = "make"]
  /\ holder' = IF holder = ProcOf[t] THEN "none" ELSE holder
  /\ UNCHANGED << file, clock, ids >>

\* The id, with the time of now; extra data NULL stands for sn % 2^extra_bits.
MakeId(t, extra) ==
  /\ th[t].pc = "make" /\ th' = [th EXCEPT ![t] = Idle]
  /\ ids' = IF th[t].result = "ok"
            THEN ids \cup {[id |-> Id(clock, extra, th[t].sn), sn |-> th[t].sn,
                            extra |-> extra, time |-> clock, by |-> t]}
            ELSE ids
  /\ UNCHANGED << file, holder, clock >>

Tick == clock < MaxTime /\ clock' = clock + 1 /\ UNCHANGED << file, holder, th, ids >>

\* A process dies and is started again; the kernel releases its lock.
Crash(p) ==
  /\ \E t \in Threads : ProcOf[t] = p /\ th[t].pc # "idle"
  /\ th' = [t \in Threads |-> IF ProcOf[t] = p THEN Idle ELSE th[t]]
  /\ holder' = IF holder = p THEN "none" ELSE holder
  /\ UNCHANGED << file, clock, ids >>

Next ==
  \/ \E t \in Threads :
       \/ FileWriteLock(t) \/ ReadSerial(t) \/ WriteSerial(t) \/ FileUnlock(t)
       \/ \E extra \in {th[t].sn % 2 ^ ExtraBits, 2 ^ ExtraBits + 1} : MakeId(t, extra)
  \/ \E p \in Procs : Crash(p)
  \/ Tick

Spec == Init /\ [][Next]_vars
-----------------------------------------------------------------------------
\* No serial number is given to two calls, whichever processes die in between;
\* an id holds its parts undamaged, whatever extra data a caller passes; so two
\* ids are equal only when their serials are a whole round of 2^sn_bits apart.
Sound ==
  /\ \A i, j \in ids : i.sn = j.sn => i = j
  /\ \A i \in ids :
       /\ i.id \div 2 ^ MesBitsSum = i.time
       /\ (i.id \div 2 ^ (ExtraBits + SnBits)) % 2 ^ MidBits = MachineId
       /\ i.id % 2 ^ SnBits = i.sn % 2 ^ SnBits
  /\ \A i, j \in ids : i.id = j.id => (i.sn - j.sn) % 2 ^ SnBits = 0
=============================================================================
