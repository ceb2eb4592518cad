------------------------------- MODULE Logger -------------------------------
(***************************************************************************)
(* logger.c with a file, a cache and daily rotation: threads log, the      *)
(* schedule thread runs log_sync_func, log_notify_rotate and               *)
(* log_delete_old_files, and someone calls log_reopen without the lock.    *)
(* A line takes one unit of the cache and of the file; its day is when it  *)
(* was logged.  Compression and the header callback are left out.          *)
(***************************************************************************)
EXTENDS Integers, Sequences, FiniteSets, SequencesExt

CONSTANTS
  Loggers,       \* the threads that call log_it_ex1
  Syncer,        \* the thread of log_sync_func and log_destroy
  BuffSize,      \* LOG_BUFF_SIZE
  RotateSize,    \* rotate_size, 0 for none
  KeepDays,      \* keep_days
  MaxLines,      \* bound: lines logged
  MaxDay,        \* bound: days
  MaxFaults      \* bound: writes, renames and opens that fail, and reopens

NoOne   == "none"
Threads == Loggers \cup {Syncer}
Current == MaxDay + 1     \* log_filename, which sorts behind the old names

VARIABLES
  log,       \* buff, size (current_size), flag (rotate_immediately), fd
  holder,    \* of log_thread_lock
  th,        \* each thread: where it is, where log_fsync returns to, its line
  files,     \* the lines of each file there is
  err, lost, deleted,    \* lines on stderr, not written, in files deleted
  count,     \* history: lines accepted
  now,       \* the day, and whether it is in its first two minutes
  faults

vars == << log, holder, th, files, err, lost, deleted, count, now, faults >>

Idle    == [at |-> "idle", then |-> "idle", line |-> << >>]
Size(f) == IF f \in DOMAIN files THEN Len(files[f]) ELSE 0

With(fs, f, lines) == [x \in DOMAIN fs \cup {f} |-> IF x = f THEN lines ELSE fs[x]]
Without(fs, D)     == [x \in DOMAIN fs \ D |-> fs[x]]

Fault == faults < MaxFaults /\ faults' = faults + 1

-----------------------------------------------------------------------------
(* Opening and rotating.                                                   *)

\* log_open, after what happened to the files: fd, current_size and the file,
\* or stderr.
Open(lg, fs) ==
  LET lines == IF Current \in DOMAIN fs THEN fs[Current] ELSE << >> IN
  \/ /\ log' = [lg EXCEPT !.fd = "file", !.size = Len(lines)]
     /\ files' = With(fs, Current, lines)
     /\ UNCHANGED faults
  \/ Fault /\ log' = [lg EXCEPT !.fd = "stderr"] /\ files' = fs

\* The name a rotated file gets: until two minutes past midnight, yesterday's.
OldName == IF now.early THEN now.day - 1 ELSE now.day

\* log_rotate: no old file is replaced, and without a rename the same file is
\* opened again.
Rotate(lg) ==
  \/ /\ OldName \notin DOMAIN files /\ Current \in DOMAIN files
     /\ Open(lg, With(Without(files, {Current}), OldName, files[Current]))
  \/ /\ OldName \in DOMAIN files \/ Current \notin DOMAIN files
     /\ Open(lg, files)
  \/ /\ OldName \notin DOMAIN files
     /\ Fault /\ log' = [lg EXCEPT !.fd = "file", !.size = Size(Current)]
     /\ files' = With(files, Current, IF Current \in DOMAIN files THEN files[Current] ELSE << >>)

\* log_check_rotate.
CheckRotate(lg) ==
  CASE lg.fd = "stderr" -> log' = [lg EXCEPT !.size = 0] /\ UNCHANGED << files, faults >>
    [] lg.flag /\ lg.fd # "stderr" -> Rotate([lg EXCEPT !.flag = FALSE])
    [] OTHER -> log' = lg /\ UNCHANGED << files, faults >>

-----------------------------------------------------------------------------
(* log_fsync.                                                              *)

\* A thread that logs has the lock already; the syncer takes it.
CanLock(t) == holder \in {NoOne, t}
Unlocked(t) == IF t = Syncer THEN NoOne ELSE holder

Returned(t) == [th EXCEPT ![t].at = th[t].then]
GoTo(t, at) == [th EXCEPT ![t].at = at]

\* The test of the buffer, for which the syncer does not lock.
FsyncTest(t) ==
  /\ th[t].at = "fsync"
  /\ th' = CASE log.buff # << >>            -> GoTo(t, "size")
             [] log.buff = << >> /\ log.flag -> GoTo(t, "rotate")
             [] OTHER                       -> Returned(t)
  /\ UNCHANGED << log, holder, files, err, lost, deleted, count, now, faults >>

FsyncRotate(t) ==
  /\ th[t].at = "rotate" /\ CanLock(t)
  /\ CheckRotate(log)
  /\ th' = Returned(t)
  /\ UNCHANGED << holder, err, lost, deleted, count, now >>

FsyncSize(t) ==
  LET size == log.size + Len(log.buff)
      over == RotateSize > 0 /\ size > RotateSize
      lg   == [log EXCEPT !.size = size] IN
  /\ th[t].at = "size" /\ CanLock(t)
  /\ holder' = t
  /\ IF over THEN CheckRotate([lg EXCEPT !.flag = TRUE])
     ELSE log' = lg /\ UNCHANGED << files, faults >>
  /\ th' = GoTo(t, "write")
  /\ UNCHANGED << err, lost, deleted, count, now >>

\* Mutant: the cache is emptied when everything was written, and no earlier.
FsyncWriteKeeps(t) ==
  /\ th[t].at = "write"
  /\ IF log.fd = "file"
     THEN /\ files' = With(files, Current, files[Current] \o log.buff)
          /\ log' = [log EXCEPT !.buff = IF Len(log.buff) = BuffSize THEN << >> ELSE @]
          /\ UNCHANGED err
     ELSE err' = err \o log.buff /\ log' = [log EXCEPT !.buff = << >>] /\ UNCHANGED files
  /\ th' = GoTo(t, "end")
  /\ UNCHANGED << holder, lost, deleted, count, now, faults >>

\* write, to the file, to stderr, or in vain; the cache is empty in any case.
FsyncWrite(t) ==
  /\ th[t].at = "write"
  /\ \/ log.fd = "file" /\ files' = With(files, Current, files[Current] \o log.buff)
        /\ UNCHANGED << err, lost, faults >>
     \/ log.fd = "stderr" /\ err' = err \o log.buff /\ UNCHANGED << files, lost, faults >>
     \/ log.fd = "closed" /\ lost' = lost \cup ToSet(log.buff) /\ UNCHANGED << files, err, faults >>
     \/ log.fd # "closed" /\ Fault /\ lost' = lost \cup ToSet(log.buff) /\ UNCHANGED << files, err >>
  /\ log' = [log EXCEPT !.buff = << >>]
  /\ th' = GoTo(t, "end")
  /\ UNCHANGED << holder, deleted, count, now >>

FsyncEnd(t) ==
  /\ th[t].at = "end"
  /\ IF log.flag THEN CheckRotate(log) ELSE UNCHANGED << log, files, faults >>
  /\ holder' = Unlocked(t)
  /\ th' = Returned(t)
  /\ UNCHANGED << err, lost, deleted, count, now >>

-----------------------------------------------------------------------------
(* log_it_ex1 and doLogEx.                                                 *)

\* The lock is taken, and the cache written if there is no room.
LogIt(t) ==
  /\ th[t] = Idle /\ holder = NoOne /\ count < MaxLines
  /\ th[Syncer].then # "destroyed"
  /\ holder' = t
  /\ count' = count + 1
  /\ th' = [th EXCEPT ![t] = [at   |-> IF Len(log.buff) + 1 > BuffSize THEN "fsync" ELSE "put",
                              then |-> "put",
                              line |-> << [n |-> count + 1, day |-> now.day] >>]]
  /\ UNCHANGED << log, files, err, lost, deleted, now, faults >>

\* The line goes into the cache, which is written at once for the priorities
\* that ask for it.
Put(t) ==
  /\ th[t].at = "put"
  /\ log' = [log EXCEPT !.buff = @ \o th[t].line]
  /\ \E sync \in BOOLEAN :
       th' = [th EXCEPT ![t] = [at   |-> IF sync THEN "fsync" ELSE "unlock",
                                then |-> "unlock", line |-> << >>]]
  /\ UNCHANGED << holder, files, err, lost, deleted, count, now, faults >>

Unlock(t) ==
  /\ th[t].at = "unlock"
  /\ holder' = NoOne
  /\ th' = [th EXCEPT ![t] = Idle]
  /\ UNCHANGED << log, files, err, lost, deleted, count, now, faults >>

-----------------------------------------------------------------------------
(* The schedule thread, and others.                                        *)

LogSyncFunc ==
  /\ th[Syncer] = Idle
  /\ th' = [th EXCEPT ![Syncer].at = "fsync"]
  /\ UNCHANGED << log, holder, files, err, lost, deleted, count, now, faults >>

LogNotifyRotate ==
  /\ ~log.flag
  /\ log' = [log EXCEPT !.flag = TRUE]
  /\ UNCHANGED << holder, th, files, err, lost, deleted, count, now, faults >>

\* log_delete_old_files: day by day, until there is no file of that day.
Stale ==
  LET day == now.day - KeepDays IN
  {d \in (DOMAIN files) \cap (-1)..(day - 1) : \A x \in d..(day - 1) : x \in DOMAIN files}

LogDeleteOldFiles ==
  /\ KeepDays > 0
  /\ Stale # {}
  /\ deleted' = deleted \cup UNION {ToSet(files[d]) : d \in Stale}
  /\ files' = Without(files, Stale)
  /\ UNCHANGED << log, holder, th, err, lost, count, now, faults >>

\* log_reopen_ex closes and opens without the lock.
ReopenClose ==
  /\ log.fd = "file" /\ Fault
  /\ log' = [log EXCEPT !.fd = "closed"]
  /\ UNCHANGED << holder, th, files, err, lost, deleted, count, now >>

ReopenOpen ==
  /\ log.fd \in {"closed", "stderr"}
  /\ th[Syncer].then # "destroyed"
  /\ Open(log, files)
  /\ UNCHANGED << holder, th, err, lost, deleted, count, now >>

\* log_destroy_ex, once nobody logs: the cache is written if there is a file.
DestroyBegin ==
  /\ \A t \in Threads : th[t] = Idle
  /\ log.fd # "closed"
  /\ th' = [th EXCEPT ![Syncer] = [at   |-> IF log.fd = "file" THEN "fsync" ELSE "destroyed",
                                   then |-> "destroyed", line |-> << >>]]
  /\ UNCHANGED << log, holder, files, err, lost, deleted, count, now, faults >>

DestroyEnd ==
  /\ th[Syncer].at = "destroyed"
  /\ log' = [log EXCEPT !.fd = "stderr", !.buff = << >>]
  /\ lost' = lost \cup ToSet(log.buff)
  /\ th' = [th EXCEPT ![Syncer].at = "gone"]
  /\ UNCHANGED << holder, files, err, deleted, count, now, faults >>

Tick ==
  /\ now.day < MaxDay \/ now.early
  /\ now' = IF now.early THEN [now EXCEPT !.early = FALSE] ELSE [day |-> now.day + 1, early |-> TRUE]
  /\ UNCHANGED << log, holder, th, files, err, lost, deleted, count, faults >>

Init ==
  /\ log = [buff |-> << >>, size |-> 0, flag |-> FALSE, fd |-> "file"]
  /\ holder = NoOne
  /\ th = [t \in Threads |-> Idle]
  /\ files = [f \in {Current} |-> << >>]
  /\ err = << >> /\ lost = {} /\ deleted = {}
  /\ count = 0 /\ faults = 0
  /\ now = [day |-> 0, early |-> FALSE]

Running == th[Syncer].at # "gone"

Next ==
  /\ Running
  /\ \/ \E t \in Threads : FsyncTest(t) \/ FsyncRotate(t) \/ FsyncSize(t) \/ FsyncWrite(t) \/ FsyncEnd(t)
     \/ \E t \in Loggers : LogIt(t) \/ Put(t) \/ Unlock(t)
     \/ LogSyncFunc \/ LogNotifyRotate \/ LogDeleteOldFiles
     \/ ReopenClose \/ ReopenOpen \/ DestroyBegin \/ DestroyEnd \/ Tick

Spec == Init /\ [][Next]_vars

-----------------------------------------------------------------------------

\* Where a line can be, and the lines there.
Places == ({"file"} \X (-1..Current)) \cup ({"hand"} \X Threads)
            \cup {<< "cache" >>, << "stderr" >>, << "lost" >>, << "deleted" >>}

LinesAt(p) ==
  CASE p[1] = "file"    -> IF p[2] \in DOMAIN files THEN ToSet(files[p[2]]) ELSE {}
    [] p[1] = "hand"    -> ToSet(th[p[2]].line)
    [] p[1] = "cache"   -> ToSet(log.buff)
    [] p[1] = "stderr"  -> ToSet(err)
    [] p[1] = "lost"    -> lost
    [] p[1] = "deleted" -> deleted

\* The number of every line there is, with its place.
Located == UNION {{<< l.n, p >> : l \in LinesAt(p)} : p \in Places}

Ascending(s) == \A i, j \in 1..Len(s) : i < j => s[i].n < s[j].n
Before(s, r) == \A i \in 1..Len(s), j \in 1..Len(r) : s[i].n < r[j].n

\* Every line accepted is in one place: a thread's hand, the cache, a file or
\* stderr, unless its write failed, its file is too old, or it was in the cache
\* of a log without a file when that was destroyed; the files, oldest first, and
\* the cache have the lines in the order in which they were logged.
LinesKept ==
  /\ LET lines == Located IN
       /\ {x[1] : x \in lines} = 1..count
       /\ \A x, y \in lines : x[1] = y[1] => x = y
  /\ \A f \in DOMAIN files : Ascending(files[f]) /\ Before(files[f], log.buff)
  /\ \A f, g \in DOMAIN files : f < g => Before(files[f], files[g])
  /\ Ascending(log.buff) /\ Ascending(err)

\* A file is deleted when its lines are keep_days old, and no sooner.
KeptForDays == \A l \in deleted : l.day + KeepDays <= now.day

\* The size on which rotation depends never runs more than one cache behind the
\* file, although the write after a rotation is not counted, and a log that is
\* rotated or opened anew starts from the file's own size.
SizeAccount ==
  log.fd = "file" => Size(Current) <= log.size + BuffSize

Sound == LinesKept /\ KeptForDays /\ SizeAccount

=============================================================================
