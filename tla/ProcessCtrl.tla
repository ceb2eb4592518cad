----------------------------- MODULE ProcessCtrl -----------------------------
(***************************************************************************)
(* process_ctrl.c: a daemon that keeps its pid in a file, and the commands  *)
(* start, stop and restart, which are runs of the same program.  Pids are   *)
(* used again by other programs.  writeToFile empties the pid file in one   *)
(* step and fills it in another; get_pid_from_file refuses an empty one.    *)
(***************************************************************************)
EXTENDS Integers, FiniteSets

CONSTANTS
  Pids,        \* process ids
  Exclusive    \* TRUE: the administrator waits for a command before the next

VARIABLES
  pidfile,     \* Absent, Empty or a pid
  proc,        \* [Pids -> [exe, pc, target, sig]]; sig: SIGTERM is pending
  gone         \* history: the process a stop waited for, when it reports success

vars == << pidfile, proc, gone >>

Absent == "absent"
Empty  == "empty"
Nobody == "nobody"
Dead   == [exe |-> "none", pc |-> "none", target |-> Nobody, sig |-> FALSE]

Init == pidfile = Absent /\ proc = [p \in Pids |-> Dead] /\ gone = Nobody

Alive(p)    == proc[p].exe # "none"
Commands    == {p \in Pids : proc[p].exe = "daemon" /\ proc[p].pc # "run"}
Go(p, pc)   == proc' = [proc EXCEPT ![p].pc = pc]
Exit(p)     == proc' = [proc EXCEPT ![p] = Dead]
Named       == pidfile \in Pids

Spawn(p, action) ==
  /\ ~Alive(p) /\ (Exclusive => Commands = {})
  /\ proc' = [proc EXCEPT ![p] = [Dead EXCEPT !.exe = "daemon", !.pc = action]]
  /\ gone' = Nobody /\ UNCHANGED pidfile

\* A plausible slip: the pid of a program that runs is taken for a free one.
ProcessStartBlind(p) ==
  /\ proc[p].pc = "start" /\ Go(p, "open") /\ UNCHANGED << pidfile, gone >>

\* process_start: goes on when there is no file, when its process is gone, or
\* when that pid belongs to another program by now (/proc/<pid>/cmdline).
ProcessStart(p) ==
  /\ proc[p].pc = "start"
  /\ IF pidfile = Empty \/ (Named /\ Alive(pidfile) /\ proc[pidfile].exe = "daemon")
     THEN Exit(p) ELSE Go(p, "open")
  /\ UNCHANGED << pidfile, gone >>

\* write_to_pid_file: open with O_TRUNC, then write.
OpenPidFile(p) ==
  /\ proc[p].pc = "open" /\ pidfile' = Empty /\ Go(p, "write") /\ UNCHANGED gone

WritePidFile(p) ==
  /\ proc[p].pc = "write" /\ pidfile' = p /\ Go(p, "run") /\ UNCHANGED gone

\* do_stop: the process of the pid file gets SIGTERM, whatever program it is;
\* restart goes on without a file or without a process.
DoStop(p) ==
  /\ proc[p].pc \in {"stop", "restart"}
  /\ IF Named /\ Alive(pidfile)
     THEN proc' = [proc EXCEPT ![p].target = pidfile,
                               ![p].pc = IF @ = "stop" THEN "waiting" ELSE "restarting",
                               ![pidfile].sig = TRUE]
     ELSE IF proc[p].pc = "restart" /\ pidfile # Empty THEN Go(p, "open") ELSE Exit(p)
  /\ UNCHANGED << pidfile, gone >>

\* process_stop and process_restart: SIGTERM again every second until nobody
\* has that pid.
Wait(p) ==
  /\ proc[p].pc \in {"waiting", "restarting"} /\ UNCHANGED pidfile
  /\ \/ /\ Alive(proc[p].target) /\ ~proc[proc[p].target].sig
        /\ proc' = [proc EXCEPT ![proc[p].target].sig = TRUE] /\ UNCHANGED gone
     \/ /\ ~Alive(proc[p].target)
        /\ IF proc[p].pc = "waiting" THEN Exit(p) /\ gone' = proc[p].target
           ELSE Go(p, "open") /\ UNCHANGED gone

\* The daemon is told to end: delete_pid_file removes a file that names it.
Terminate(p) ==
  /\ proc[p].exe = "daemon" /\ proc[p].pc = "run" /\ proc[p].sig
  /\ IF pidfile = p THEN Go(p, "unlink") ELSE Exit(p)
  /\ UNCHANGED << pidfile, gone >>

DeletePidFile(p) ==
  /\ proc[p].pc = "unlink" /\ pidfile' = Absent /\ Exit(p) /\ UNCHANGED gone

\* External: a process is killed, and other programs come and go.
Killed(p) == Alive(p) /\ Exit(p) /\ UNCHANGED << pidfile, gone >>

OtherProgram(p) ==
  /\ ~Alive(p) /\ proc' = [proc EXCEPT ![p] = [Dead EXCEPT !.exe = "other"]]
  /\ UNCHANGED << pidfile, gone >>

Next ==
  \E p \in Pids :
    \/ \E a \in {"start", "stop", "restart"} : Spawn(p, a)
    \/ ProcessStart(p) \/ OpenPidFile(p) \/ WritePidFile(p) \/ DoStop(p) \/ Wait(p)
    \/ Terminate(p) \/ DeletePidFile(p) \/ Killed(p) \/ OtherProgram(p)

Spec == Init /\ [][Next]_vars
-----------------------------------------------------------------------------
Running == {p \in Pids : proc[p].exe = "daemon" /\ proc[p].pc = "run"}

\* With one command at a time there is one daemon, and as long as no command is
\* under way the file names it: neither a killed daemon, nor a stale file whose
\* pid another program has, nor the deletion at the end of an older daemon
\* breaks that.  A stop that succeeds leaves the daemon it found gone.
Sound ==
  /\ Cardinality(Running) <= 1
  /\ Commands = {} => \A p \in Running : pidfile = p
  /\ gone # Nobody => gone \notin Running
=============================================================================
