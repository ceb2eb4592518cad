----------------------------- MODULE FileHelpers -----------------------------
(***************************************************************************)
(* shared_func.c: writeToFile, safeWriteToFile and getFileContent on one    *)
(* file, system call by system call, with a writer that may die, a machine  *)
(* that may lose its power, failing calls and a reader at the same time.    *)
(* A directory entry points to an inode; a descriptor keeps the inode it    *)
(* opened.  When the power fails (external), data that fsync has not forced *)
(* out may be lost from the end, and the directory, which nobody forces     *)
(* out, may be as it was before its last changes, in their order; a file    *)
(* system does not give the inodes of such a directory away.                *)
(***************************************************************************)
EXTENDS Integers, Sequences

CONSTANTS
  Versions,    \* the contents that are written one after the other
  Inodes,      \* inode numbers, the bound on files at one time
  MaxFaults    \* bound on failures and crashes

VARIABLES
  dir,         \* ["file", "tmp" -> inode or 0]
  data,        \* [Inodes -> contents]
  synced,      \* [Inodes -> how much of it is on the disk]
  ondisk,      \* the directories a power failure may leave, with their done
  wr,          \* the writer: [pc, ino, n, result]; n counts the versions
  rd,          \* the reader: [pc, ino, size, result, got]
  done,        \* history: the last version told written that dir goes back to
  started,     \* history: the last version that safeWriteToFile was given
  faults

vars == << dir, data, synced, ondisk, wr, rd, done, started, faults >>

Fault   == faults < MaxFaults /\ faults' = faults + 1
NoFault == UNCHANGED faults
None    == << >>

Init ==
  /\ dir = [f \in {"file", "tmp"} |-> 0]
  /\ data = [i \in Inodes |-> None] /\ synced = [i \in Inodes |-> 0]
  /\ wr = [pc |-> "idle", ino |-> 0, result |-> "none"]
  /\ rd = [pc |-> "idle", ino |-> 0, size |-> 0, result |-> "none", got |-> None]
  /\ done = 0 /\ started = 0 /\ faults = 0
  /\ ondisk = {[dir |-> dir, done |-> 0]}

InUse   == {wr.ino, rd.ino} \cup {k.dir[f] : k \in ondisk, f \in {"file", "tmp"}}
Content == Versions[started]
-----------------------------------------------------------------------------
Quiet == UNCHANGED << ondisk, rd, done >>
Fails(res) == wr' = [pc |-> "idle", ino |-> 0, result |-> res]

\* The directory changes, in memory at once and on the disk some time.
DirChanges(d, n) == /\ dir' = d /\ done' = n
                    /\ ondisk' = ondisk \cup {[dir |-> d, done |-> n]}

\* safeWriteToFile calls writeToFile for "<filename>.tmp": the temporary file
\* is created, or emptied when an earlier attempt left one.
OpenTmp ==
  /\ wr.pc = "idle" /\ started < Len(Versions) /\ started' = started + 1
  /\ \/ /\ NoFault
        /\ \E i \in Inodes :
             /\ IF dir["tmp"] # 0 THEN i = dir["tmp"]
                ELSE i \notin InUse /\ \A j \in Inodes \ InUse : i <= j
             /\ DirChanges([dir EXCEPT !["tmp"] = i], done)
             /\ data' = [data EXCEPT ![i] = None] /\ synced' = [synced EXCEPT ![i] = 0]
             /\ wr' = [pc |-> "write", ino |-> i, result |-> "none"]
     \/ Fault /\ Fails("open") /\ UNCHANGED << dir, data, synced, ondisk, done >>
  /\ UNCHANGED rd

\* A short write is a failure and closes the file.
WriteTmp ==
  /\ wr.pc = "write"
  /\ \/ /\ NoFault /\ data' = [data EXCEPT ![wr.ino] = Content]
        /\ wr' = [wr EXCEPT !.pc = "fsync"]
     \/ /\ Fault /\ \E k \in 0 .. Len(Content) - 1 :
                      data' = [data EXCEPT ![wr.ino] = SubSeq(Content, 1, k)]
        /\ Fails("write")
  /\ UNCHANGED << dir, synced, started >> /\ Quiet

\* A plausible slip: no fsync before the rename.
FsyncTmpSkipped ==
  /\ wr.pc = "fsync" /\ NoFault /\ wr' = [wr EXCEPT !.pc = "rename", !.ino = 0]
  /\ UNCHANGED << dir, data, synced, started >> /\ Quiet

FsyncTmp ==
  /\ wr.pc = "fsync"
  /\ \/ /\ NoFault /\ synced' = [synced EXCEPT ![wr.ino] = Len(data[wr.ino])]
        /\ wr' = [wr EXCEPT !.pc = "rename", !.ino = 0]
     \/ Fault /\ Fails("fsync") /\ UNCHANGED synced
  /\ UNCHANGED << dir, data, started >> /\ Quiet

RenameTmp ==
  /\ wr.pc = "rename"
  /\ \/ /\ NoFault /\ DirChanges([dir EXCEPT !["file"] = dir["tmp"], !["tmp"] = 0], started)
        /\ Fails("ok")
     \/ Fault /\ Fails("rename") /\ UNCHANGED << dir, ondisk, done >>
  /\ UNCHANGED << data, synced, started, rd >>
-----------------------------------------------------------------------------
Writing == UNCHANGED << dir, data, synced, ondisk, wr, done, started >>
Ends(res, got) == rd' = [pc |-> "done", ino |-> 0, size |-> 0, result |-> res, got |-> got]

\* getFileContent: stat, then open (the file may be replaced in between).
Stat ==
  /\ rd.pc \in {"idle", "done"} /\ NoFault /\ Writing
  /\ IF dir["file"] = 0 THEN Ends("ENOENT", None)
     ELSE rd' = [rd EXCEPT !.pc = "open", !.result = "none", !.got = None]

OpenRead ==
  /\ rd.pc = "open" /\ Writing
  /\ \/ NoFault /\ rd' = [rd EXCEPT !.pc = "size", !.ino = dir["file"]]
     \/ Fault /\ Ends("open", None)

\* lseek to the end tells the size; the buffer is that large.
SeekEnd ==
  /\ rd.pc = "size" /\ Writing
  /\ \/ NoFault /\ rd' = [rd EXCEPT !.pc = "read", !.size = Len(data[rd.ino])]
     \/ Fault /\ Ends("lseek", None)

\* Anything but size bytes is an error; getFileContentEx takes what there is.
Read ==
  /\ rd.pc = "read" /\ Writing
  /\ \/ /\ NoFault
        /\ IF Len(data[rd.ino]) >= rd.size
           THEN Ends("ok", SubSeq(data[rd.ino], 1, rd.size)) ELSE Ends("read", None)
     \/ Fault /\ Ends("read", None)
-----------------------------------------------------------------------------
\* The writer's process dies and is started again.
Crash ==
  /\ wr.pc # "idle" /\ Fault
  /\ wr' = [pc |-> "idle", ino |-> 0, result |-> "none"]
  /\ UNCHANGED << dir, data, synced, ondisk, rd, done, started >>

\* The power fails: the directory is one that it was since the last time, and of
\* every file at least what was synced is there.
PowerLoss ==
  /\ Fault
  /\ \E k \in ondisk : dir' = k.dir /\ done' = k.done /\ ondisk' = {k}
  /\ \E cut \in [Inodes -> BOOLEAN] :
       data' = [i \in Inodes |-> IF cut[i] THEN SubSeq(data[i], 1, synced[i]) ELSE data[i]]
  /\ wr' = [pc |-> "idle", ino |-> 0, result |-> "none"]
  /\ rd' = [pc |-> "idle", ino |-> 0, size |-> 0, result |-> "none", got |-> None]
  /\ UNCHANGED << synced, started >>

Next == \/ OpenTmp \/ WriteTmp \/ FsyncTmp \/ RenameTmp
        \/ Stat \/ OpenRead \/ SeekEnd \/ Read \/ Crash \/ PowerLoss

Spec == Init /\ [][Next]_vars
-----------------------------------------------------------------------------
\* Whatever fails and whenever the writer or the machine goes down, the file
\* is whole: while the machine runs it holds the version that was last reported
\* written, or a later one.  After a power failure it holds a whole version
\* that was reported written at some time since the failure before, or what it
\* held after that one, so that a file that was there then is there still.  A
\* reader that is told success has read one whole version.
Sound ==
  /\ dir["file"] # 0 => \E v \in 1 .. started : data[dir["file"]] = Versions[v] /\ v >= done
  /\ done > 0 => dir["file"] # 0
  /\ rd.result = "ok" => \E v \in 1 .. started : rd.got = Versions[v]

\* What was reported written is not taken back.  It may be: safeWriteToFile does
\* not force the directory out after the rename (README section 5).
NothingTakenBack == [][done' >= done]_vars
=============================================================================
