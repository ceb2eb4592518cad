----------------------------- MODULE MCServices -----------------------------
(***************************************************************************)
(* What runs beside the program, or talks to the world outside: the        *)
(* schedule thread, the event loop, a transfer over a socket, a request on *)
(* several sockets, a file that is replaced, the file of serial numbers    *)
(* and the pid file, each by itself: `unit' says which one a behaviour     *)
(* exercises, and the others stay as they were initialised.                *)
(***************************************************************************)
EXTENDS Scheduler, TLC

CONSTANTS
  SentFile, Chunk, WireSize, FsyncAfter, TransferFaults,  \* Sockets
  Inodes, FileFaults, FileVersions,               \* FileHelpers
  Callers, MidBits, ExtraBits, SnBits, MachineId, MaxSerial, MaxTime,  \* IdGenerator
  Pids,                                           \* ProcessCtrl
  LoopTasks, LoopTime, OthersOnTimeout,           \* EventLoop
  Peers, RequestSize, HeaderSize, PeerBodies, MaxRequests, PeerFaults  \* MultiSocket

\* Three schedule entries: 1 and 3 are started with or added to nothing, 2 has a
\* time base and is added and deleted while the thread runs.
MCInterval == [e \in Ids |-> IF e = 3 THEN 1 ELSE 2]
MCBase     == [e \in Ids |-> IF e = 2 THEN 1 ELSE NoBase]
MCBatches  == {<< 2 >>}

\* The second unit is like the trailer of a file of one unit.
MCFile     == << 5, 1, 7 >>
MCBodies   == {-1, 1}
MCVersions == << << 1, 1 >>, << 2 >>, << 3, 3, 3 >> >>

VARIABLES
  unit,
  mode, cl, sv, wire, link, tx, rx, disk, fds, faults,
  dir, data, synced, ondisk, wr, rd, done, started, fileFaults,
  file, holder, th, idClock, ids,
  pidfile, proc, gone,
  st, attached, wheel, deleted, loop, now, lastCheck, flag, called,
  asking, entry, batch, server, spoilt, peerFaults

Transfer == INSTANCE Sockets WITH File <- SentFile, MaxFaults <- TransferFaults
Files == INSTANCE FileHelpers WITH Versions <- FileVersions, MaxFaults <- FileFaults,
                                   faults <- fileFaults
\* Each caller is a process of its own.
Serials == INSTANCE IdGenerator WITH Threads <- Callers, ProcOf <- [c \in Callers |-> c],
                                     clock <- idClock
\* The administrator waits for a command before he gives the next.
Daemon == INSTANCE ProcessCtrl WITH Exclusive <- TRUE

Looping == INSTANCE EventLoop WITH Tasks <- LoopTasks, Size <- 3, Timeout <- 1, MaxTime <- LoopTime
Many == INSTANCE MultiSocket WITH Entries <- Peers, RequestLength <- RequestSize, HeaderLength <- HeaderSize,
          BodyLengths <- PeerBodies, Timeout <- 1, Requests <- MaxRequests,
          MaxFaults <- PeerFaults, faults <- peerFaults, client <- asking

\* Tasks are not the entry of the pipe nor a cleared event, and the callback
\* of a timeout closes no task but its own.
LoopConstants ==
  /\ IsFiniteSet(LoopTasks) /\ Looping!Notify \notin LoopTasks /\ Looping!Null \notin LoopTasks
  /\ ~ OthersOnTimeout

\* An inode number is positive, and a version is a sequence of bytes.
FileConstants == Inodes \in SUBSET (Nat \ {0}) /\ FileVersions \in Seq(Seq(Nat))

\* No caller has the name that stands for no holder; and the laws of exponents
\* for the widths, which any naturals satisfy (no prover knows them).
SerialConstants ==
  /\ "none" \notin Callers
  /\ 2 ^ MidBits \in Nat \ {0} /\ 2 ^ ExtraBits \in Nat \ {0} /\ 2 ^ SnBits \in Nat \ {0}
  /\ 2 ^ (ExtraBits + SnBits) = 2 ^ ExtraBits * 2 ^ SnBits
  /\ 2 ^ (MidBits + ExtraBits + SnBits) = 2 ^ MidBits * 2 ^ (ExtraBits + SnBits)

\* The file is shorter than INFINITE_FILE_SIZE stands for, and a part of it
\* is not empty.
TransferConstants ==
  /\ SentFile \in Seq(Nat) /\ Len(SentFile) + 1 < Transfer!Infinite
  /\ Chunk \in Nat \ {0} /\ WireSize \in Nat /\ FsyncAfter \in Nat

\* Neither a request nor a header is empty.
RequestConstants ==
  /\ IsFiniteSet(Peers) /\ PeerBodies \in SUBSET Int
  /\ RequestSize \in Nat \ {0} /\ HeaderSize \in Nat \ {0}

ASSUME ServicesAssumption ==
  LoopConstants /\ FileConstants /\ SerialConstants /\ TransferConstants /\ RequestConstants

transferVars == << mode, cl, sv, wire, link, tx, rx, disk, fds, faults >>
fileVars     == << dir, data, synced, ondisk, wr, rd, done, started, fileFaults >>
serialVars   == << file, holder, th, idClock, ids >>
daemonVars   == << pidfile, proc, gone >>
loopVars     == << st, attached, wheel, deleted, loop, now, lastCheck, flag, called >>
manyVars     == << asking, entry, batch, server, spoilt, peerFaults >>

allVars == << unit, vars, transferVars, fileVars, serialVars, daemonVars, loopVars, manyVars >>

ServicesInit ==
  /\ unit \in {"schedule", "transfer", "files", "serials", "daemon", "loop", "request"}
  /\ Init /\ Transfer!Init /\ Files!Init /\ Serials!Init /\ Daemon!Init
  /\ Looping!Init /\ Many!Init
  /\ unit # "request" => \A i \in Peers : entry[i].conn
  /\ unit # "schedule" => chain = << >>
  /\ unit # "transfer" => mode = [send |-> "data", sendNb |-> FALSE,
                                  recv |-> "discard", recvNb |-> FALSE,
                                  runs |-> Transfer!Sides]

\* A step of one unit.
InSchedule(A) == /\ unit = "schedule" /\ A
                 /\ UNCHANGED << unit, transferVars, fileVars, serialVars, daemonVars, loopVars, manyVars >>
InTransfer(A) == /\ unit = "transfer" /\ A
                 /\ UNCHANGED << unit, vars, fileVars, serialVars, daemonVars, loopVars, manyVars >>
InLoop(A)     == /\ unit = "loop" /\ A
                 /\ UNCHANGED << unit, vars, transferVars, fileVars, serialVars, daemonVars, manyVars >>
InRequest(A)  == /\ unit = "request" /\ A
                 /\ UNCHANGED << unit, vars, transferVars, fileVars, serialVars, daemonVars, loopVars >>
FilesStep     == /\ unit = "files" /\ Files!Next
                 /\ UNCHANGED << unit, vars, transferVars, serialVars, daemonVars, loopVars, manyVars >>
SerialsStep   == /\ unit = "serials" /\ Serials!Next
                 /\ UNCHANGED << unit, vars, transferVars, fileVars, daemonVars, loopVars, manyVars >>
DaemonStep    == /\ unit = "daemon" /\ Daemon!Next
                 /\ UNCHANGED << unit, vars, transferVars, fileVars, serialVars, loopVars, manyVars >>

\* A second request is made on one connected socket only.
Bounded == asking'.req < 2 \/ Cardinality({i \in Peers : entry[i].conn}) < 2

ServicesNext ==
  \/ InSchedule(Next) \/ InTransfer(Transfer!Next) \/ FilesStep \/ SerialsStep \/ DaemonStep
  \/ InLoop(Looping!Next) \/ InRequest(Many!Next /\ Bounded)

\* The fairness of Scheduler, Sockets, EventLoop and MultiSocket: of threads of
\* this program, and of a transfer of the sides that `mode' lets run.  The
\* other units need none.
ServicesFairness ==
  /\ WF_allVars(InSchedule(ScheduleThread))
  /\ WF_allVars(InSchedule(InCall))
  /\ SF_allVars(InSchedule(\E d \in 1..MaxStep : LoopTopAfter(d)))
  /\ WF_allVars(InTransfer(Transfer!ClientRuns)) /\ WF_allVars(InTransfer(Transfer!ServerRuns))
  /\ WF_allVars(InLoop(Looping!IoeventLoop))
  /\ WF_allVars(InRequest(Many!DealEvent \/ Many!DealIoEnd)) /\ WF_allVars(InRequest(Many!Tick))

ServicesSpec == ServicesInit /\ [][ServicesNext]_allVars /\ ServicesFairness

\* The chain of scheduled entries stays sorted and whole and its entries run on
\* their grid of times (Scheduler!ScheduleSound).
SchedulerSound == unit = "schedule" => ScheduleSound

\* A receiver that is told success has the sender's bytes in their order up to
\* an end of the file, which in an infinite file may be a unit that looks like
\* its trailer; a sender that is told success has sent all; and whoever fails
\* leaves no file and no descriptor behind, with two exceptions.  Of a request
\* on several sockets only whole answers are counted (Sockets!Sound,
\* MultiSocket!Sound).
TransferSound ==
  /\ unit = "transfer" => Transfer!Sound
  /\ unit = "request" => Many!Sound

Waits == \/ unit = "schedule" /\ client # Idle
         \/ unit = "transfer"
         \/ unit = "request" /\ asking.pc = "loop"
         \/ unit = "loop" /\ deleted # << >>
GetsOn == \/ unit = "schedule" /\ (client = Idle \/ ~on \/ ~Running)
          \/ unit = "transfer" /\ Transfer!Over
          \/ unit = "request" /\ asking.pc = "returned"
          \/ unit = "loop" /\ (deleted = << >> \/ loop.pc \in {"done", "failed"})

\* Nobody waits for ever: a call to add or delete a schedule entry returns as
\* long as the schedule thread runs; the receiver of a transfer returns
\* whatever the sender does, and so does the sender on a non-blocking socket
\* without sendfile, while a blocking send and sendfile return when the
\* receiver runs (Sockets!Over); every request on several sockets returns
\* whatever the peers do; and closed tasks are cleaned up unless the event loop
\* is left.
EveryWaitEnds == Waits ~> GetsOn

\* No callback is called for a task that has been closed, and no open task is
\* without its timer (EventLoop!Sound).
EventLoopSound == unit = "loop" => Looping!Sound

\* A file that is replaced is whole at every moment, though a power failure may
\* take it back to an earlier whole version; serial numbers are given out once;
\* and a pid file names the one daemon (FileHelpers!Sound, IdGenerator!Sound,
\* ProcessCtrl!Sound).
FilesSound ==
  /\ unit = "files" => Files!Sound
  /\ unit = "serials" => Serials!Sound
  /\ unit = "daemon" => Daemon!Sound

\* "return: error no, 0 success, != 0 fail" (Sockets!SentMeansSuccess).
TransferSentMeansSuccess == unit = "transfer" => Transfer!SentMeansSuccess

\* "total_send_bytes: store the send bytes" (Sockets!CountStored).
TransferCountStored == unit = "transfer" => Transfer!CountStored

\* Success of the receiver means the sender's whole file (Sockets!WholeFile).
TransferWholeFile == unit = "transfer" => Transfer!WholeFile

\* A sender returns without its receiver (Sockets!SenderReturns).
TransferSenderReturns ==
  unit = "transfer" /\ "client" \in mode.runs ~> (cl.pc = "done" \/ tx.pc = "done")

\* What was reported written survives a power failure
\* (FileHelpers!NothingTakenBack).
FileNothingTakenBack == [][unit = "files" => done' >= done]_fileVars

\* A counted answer belongs to the request (MultiSocket!OwnAnswer).
RequestOwnAnswer == unit = "request" => Many!OwnAnswer

=============================================================================
