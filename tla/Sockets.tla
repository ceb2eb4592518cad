------------------------------- MODULE Sockets -------------------------------
(***************************************************************************)
(* sockopt.c: a client connects to a server and one side sends a file that  *)
(* the other stores, with the loops around poll, send and recv, partial     *)
(* transfers, interrupted calls, timeouts, a peer that goes away and a disk *)
(* that fails.  The network is a stream of at most WireSize bytes; a system *)
(* call is a step.  A unit of File stands for 8 bytes, so that one can hold *)
(* a count: an "infinite" file is sent with the number of its units behind  *)
(* it and ends when the sender closes the connection.  Nothing tells that   *)
(* trailer from a unit of the file that holds the same number.  The build   *)
(* is that of Linux, where tcpsendfile_ex calls sendfile; mode.send =       *)
(* "read" is the loop compiled without USE_SENDFILE.                        *)
(***************************************************************************)
EXTENDS Integers, Sequences, FiniteSets

CONSTANTS
  File,        \* the file the sender sends
  Chunk,       \* FAST_WRITE_BUFF_SIZE
  WireSize,    \* what the two socket buffers hold
  FsyncAfter,  \* fsync_after_written_bytes
  MaxFaults    \* bound on interrupts, resets and failing calls

VARIABLES
  mode,        \* which functions are used, and how
  cl,          \* the connecting side: [pc, open, nonblock, result]
  sv,          \* the listening side:  [pc, listening, result]
  wire,        \* bytes under way
  link,        \* "none", "pending", "up", "eof" (the sender closed), "reset"
  tx,          \* the sender: [pc, left, part, remain, total, result, restore]
  rx,          \* the receiver: [pc, remain, want, buf, unsynced, total, result]
  disk,        \* the stored file: [exists, data]
  fds,         \* descriptors of files the two functions have open
  faults       \* faults so far

vars == << mode, cl, sv, wire, link, tx, rx, disk, fds, faults >>

\* runs names the sides that go on to their end; the other one may stop at any
\* step for ever, without closing anything.
Sides == {"client", "server"}
Modes == [send : {"data", "read", "sendfile"}, sendNb : BOOLEAN,
          recv : {"file", "infinite", "file_ex", "discard"}, recvNb : BOOLEAN,
          runs : {{"client"}, {"server"}, Sides}]

Infinite   == 1000                   \* INFINITE_FILE_SIZE
NotWritten == -1                     \* a variable of the caller nobody has set
Units      == IF mode.recv = "infinite" THEN Append(File, Len(File)) ELSE File
Smaller(a, b) == IF a < b THEN a ELSE b

Fault  == faults < MaxFaults /\ faults' = faults + 1
NoFault == UNCHANGED faults

Init ==
  /\ mode \in Modes
  /\ cl = [pc |-> "create", open |-> FALSE, nonblock |-> FALSE, result |-> "none"]
  /\ sv = [pc |-> "create", listening |-> FALSE, result |-> "none"]
  /\ wire = << >> /\ link = "none"
  /\ tx = [pc |-> "open", left |-> 0, part |-> 0, remain |-> 0, total |-> NotWritten,
           result |-> "none", restore |-> FALSE]
  /\ rx = [pc |-> "open", remain |-> 0, want |-> 0, buf |-> << >>, unsynced |-> 0,
           total |-> 0, result |-> "none"]
  /\ disk = [exists |-> FALSE, data |-> << >>] /\ fds = {} /\ faults = 0
-----------------------------------------------------------------------------
(* Setting up the connection. *)

\* socketServer2: socket, SO_REUSEADDR, bind and listen; a failure closes it.
SocketServer ==
  /\ sv.pc = "create"
  /\ \/ NoFault /\ sv' = [sv EXCEPT !.pc = "accept", !.listening = TRUE]
     \/ Fault /\ sv' = [sv EXCEPT !.pc = "done", !.result = "server"]
  /\ UNCHANGED << mode, cl, wire, link, tx, rx, disk, fds >>

\* A plausible slip: the timeout is not given to select.
NbacceptForEver ==
  /\ sv.pc = "accept" /\ link \in {"pending", "eof"} /\ NoFault
  /\ sv' = [sv EXCEPT !.pc = "connected", !.result = "ok"]
  /\ link' = IF link = "eof" THEN link ELSE "up"
  /\ UNCHANGED << mode, cl, wire, tx, rx, disk, fds >>

\* nbaccept: select with a timeout, then accept; the peer of a connection that
\* waits there may have closed it already.
Nbaccept ==
  /\ sv.pc = "accept"
  /\ \/ /\ link \in {"pending", "eof"} /\ NoFault
        /\ sv' = [sv EXCEPT !.pc = "connected", !.result = "ok"]
        /\ link' = IF link = "eof" THEN link ELSE "up"
     \/ /\ link \in {"none", "reset"} /\ NoFault
        /\ sv' = [sv EXCEPT !.pc = "done", !.listening = FALSE, !.result = "ETIMEDOUT"]
        /\ UNCHANGED link
     \/ /\ Fault
        /\ sv' = [sv EXCEPT !.pc = "done", !.listening = FALSE, !.result = "EINTR"]
        /\ link' = IF link = "none" THEN link ELSE "reset"
  /\ UNCHANGED << mode, cl, wire, tx, rx, disk, fds >>

\* socketCreateEx2: a failing fcntl or bind closes the socket again.
SocketCreate ==
  /\ cl.pc = "create"
  /\ \/ NoFault /\ cl' = [cl EXCEPT !.pc = "connect", !.open = TRUE, !.nonblock = mode.sendNb]
     \/ Fault /\ cl' = [cl EXCEPT !.pc = "done", !.result = "create"]
  /\ UNCHANGED << mode, sv, wire, link, tx, rx, disk, fds >>

\* The end of socketClientEx2: what connectserverbyip_nb_ex said, after the
\* flags were restored where it had changed them.
Connected(res) ==
  cl' = [cl EXCEPT !.pc = IF res = "ok" THEN "connected" ELSE "done",
                   !.open = (res = "ok"), !.nonblock = mode.sendNb, !.result = res]

\* connectserverbyip_nb_ex: a blocking socket is made non-blocking first
\* (auto_detect); connect succeeds, is refused or stays in progress.
Connect ==
  /\ cl.pc = "connect"
  /\ \/ /\ sv.listening /\ NoFault /\ link' = "pending"
        /\ \/ Connected("ok")
           \/ cl' = [cl EXCEPT !.pc = "poll", !.nonblock = TRUE]
     \/ /\ ~sv.listening /\ NoFault /\ Connected("ECONNREFUSED") /\ UNCHANGED link
     \/ /\ Fault /\ Connected("EACCES") /\ UNCHANGED link
  /\ UNCHANGED << mode, sv, wire, tx, rx, disk, fds >>

\* poll for the connection in progress, then SO_ERROR; neither a timeout nor
\* an interrupted poll is tried again.
ConnectPoll ==
  /\ cl.pc = "poll"
  /\ \/ link \in {"pending", "up"} /\ NoFault /\ Connected("ok") /\ UNCHANGED link
     \/ link = "reset" /\ NoFault /\ Connected("ECONNRESET") /\ UNCHANGED link
     \/ Fault /\ link # "reset" /\ link' = "reset"
        /\ \E e \in {"ETIMEDOUT", "EINTR"} : Connected(e)
  /\ UNCHANGED << mode, sv, wire, tx, rx, disk, fds >>
-----------------------------------------------------------------------------
(* The sender: tcpsendfile_ex, or tcpsenddata of bytes in memory. *)

Sending == cl.pc = "connected" /\ UNCHANGED << mode, sv, rx, disk >>

\* *total_send_bytes when tcpsendfile_ex returns: 0 when it could not begin,
\* what went out in whole parts with read.  The Linux branch with sendfile does
\* not write it, and tcpsenddata has no such argument.
Reported(t) == IF t.pc = "open" THEN 0
               ELSE IF mode.send = "read" THEN Len(Units) - t.remain ELSE t.total

\* The sender closes its socket when it is done, whatever the result.
TxEnd(t, res) ==
  /\ tx' = [t EXCEPT !.pc = "done", !.result = res, !.total = Reported(t)]
  /\ link' = IF link = "reset" THEN link ELSE "eof"
  /\ cl' = [cl EXCEPT !.open = FALSE,
                      !.nonblock = (t.restore /\ res # "restore") \/ @]

\* open and fcntl; with sendfile a non-blocking socket is made blocking.  When
\* fcntl fails the function returns at once and leaves fd open.
TxOpen ==
  /\ Sending /\ tx.pc = "open"
  /\ \E t \in {[tx EXCEPT !.left = Len(Units), !.remain = Len(Units)]} :
       \/ /\ mode.send = "data" /\ NoFault
          /\ tx' = [t EXCEPT !.pc = "part"] /\ UNCHANGED << fds, link, cl >>
       \/ /\ mode.send # "data" /\ NoFault /\ fds' = fds \cup {"send"}
          /\ tx' = [t EXCEPT !.pc = IF mode.send = "read" THEN "part" ELSE "sendfile",
                             !.restore = (mode.send = "sendfile" /\ cl.nonblock)]
          /\ cl' = [cl EXCEPT !.nonblock = @ /\ mode.send # "sendfile"]
          /\ UNCHANGED link
       \/ mode.send # "data" /\ Fault /\ TxEnd(t, "open") /\ UNCHANGED fds
       \/ mode.send # "data" /\ Fault /\ TxEnd(t, "fcntl") /\ fds' = fds \cup {"send"}
  /\ UNCHANGED wire

\* The next part: the whole of it with tcpsenddata, a buffer of the file with
\* read, which may fail.
TxPart ==
  /\ Sending /\ tx.pc = "part"
  /\ \/ /\ tx.left > 0 /\ NoFault
        /\ tx' = [tx EXCEPT !.pc = IF cl.nonblock THEN "send" ELSE "poll",
                            !.part = IF mode.send = "data" THEN tx.left ELSE Smaller(tx.left, Chunk)]
        /\ UNCHANGED << link, fds, cl >>
     \/ tx.left = 0 /\ NoFault /\ TxEnd(tx, "ok") /\ fds' = fds \ {"send"}
     \/ /\ tx.left > 0 /\ mode.send = "read" /\ Fault
        /\ TxEnd(tx, "read") /\ fds' = fds \ {"send"}
  /\ UNCHANGED wire

SendFails(res) == TxEnd(tx, res) /\ fds' = fds \ {"send"} /\ UNCHANGED wire
Same           == UNCHANGED << tx, link, fds, cl, wire >>
Room           == WireSize - Len(wire)

\* poll for POLLOUT in tcpsenddata and tcpsenddata_nb.
TxPoll ==
  /\ Sending /\ tx.pc = "poll"
  /\ \/ /\ link # "reset" /\ Room > 0 /\ NoFault
        /\ tx' = [tx EXCEPT !.pc = "send"] /\ UNCHANGED << link, fds, cl, wire >>
     \/ link = "reset" /\ NoFault /\ SendFails("ENOTCONN")
     \/ link # "reset" /\ Room = 0 /\ NoFault /\ SendFails("ETIMEDOUT")
     \/ Fault /\ Same

\* k bytes have gone out.
Sent(k) ==
  /\ wire' = wire \o SubSeq(Units, Len(Units) - tx.left + 1, Len(Units) - tx.left + k)
  /\ UNCHANGED << link, fds, cl >>

\* send takes what fits.  On a non-blocking socket the loop calls it again until
\* it says EAGAIN, and polls then; on a blocking one the call waits for room
\* until it has taken the whole part, however long, and only a signal makes it
\* return before, to the poll.
TxSend ==
  /\ Sending /\ tx.pc = "send"
  /\ \/ /\ link # "reset" /\ NoFault
        /\ \E k \in 1 .. Smaller(tx.part, Room) :
             /\ Sent(k)
             /\ tx' = [tx EXCEPT !.left = @ - k, !.part = @ - k,
                                 !.remain = IF tx.part = k THEN tx.left - k ELSE @,
                                 !.pc = IF tx.part = k THEN "part" ELSE "send"]
     \/ /\ link # "reset" /\ Room = 0 /\ cl.nonblock /\ NoFault
        /\ tx' = [tx EXCEPT !.pc = "poll"] /\ UNCHANGED << link, fds, cl, wire >>
     \/ link = "reset" /\ NoFault /\ SendFails("EPIPE")
     \/ /\ Fault /\ tx' = [tx EXCEPT !.pc = "poll"]
        /\ UNCHANGED << link, fds, cl, wire >>

\* sendfile on the blocking socket, without a poll and without the timeout: it
\* waits while there is no room.  The result of an interrupted call stays, and
\* the flags are restored at the end, which may fail.
TxSendfile ==
  /\ Sending /\ tx.pc = "sendfile"
  /\ \/ /\ link # "reset" /\ tx.left > 0 /\ NoFault
        /\ \E k \in 1 .. Smaller(tx.left, Room) :
             Sent(k) /\ tx' = [tx EXCEPT !.left = @ - k]
     \/ link = "reset" /\ tx.left > 0 /\ NoFault /\ SendFails("EPIPE")
     \/ /\ tx.left > 0 /\ Fault /\ tx' = [tx EXCEPT !.result = "EINTR"]
        /\ UNCHANGED << link, fds, cl, wire >>
     \/ /\ tx.left = 0 /\ NoFault
        /\ SendFails(IF tx.result = "none" THEN "ok" ELSE tx.result)
     \/ tx.left = 0 /\ tx.restore /\ Fault /\ SendFails("restore")
-----------------------------------------------------------------------------
(* The receiver: tcprecvfile, tcprecvfile_ex or tcpdiscard. *)

Receiving == sv.pc = "connected" /\ UNCHANGED << mode, cl, tx >>
Keeps     == UNCHANGED << sv, link >>
Storing   == mode.recv # "discard"

\* The receiver closes the connection when its function returns.
RxEnd(r, res) ==
  /\ rx' = [r EXCEPT !.pc = "done", !.result = res, !.buf = << >>]
  /\ sv' = [sv EXCEPT !.listening = FALSE]
  /\ link' = IF link \in {"eof", "reset"} THEN link ELSE "reset"

Unlinked == disk' = [exists |-> FALSE, data |-> << >>] /\ fds' = fds \ {"write", "read"}

RxOpen ==
  /\ Receiving /\ rx.pc = "open" /\ UNCHANGED wire
  /\ \/ /\ NoFault /\ Keeps
        /\ rx' = [rx EXCEPT !.pc = "fill",
                            !.remain = IF mode.recv = "infinite" THEN Infinite ELSE Len(File)]
        /\ IF Storing THEN disk' = [exists |-> TRUE, data |-> << >>] /\ fds' = fds \cup {"write"}
           ELSE UNCHANGED << disk, fds >>
     \/ Fault /\ RxEnd(rx, "open") /\ UNCHANGED << disk, fds >>

\* The next buffer, or the end of the file.
RxFill ==
  /\ Receiving /\ rx.pc = "fill" /\ UNCHANGED << wire, disk >> /\ NoFault
  /\ \/ /\ rx.remain > 0 /\ Keeps /\ UNCHANGED fds
        /\ rx' = [rx EXCEPT !.pc = IF mode.recvNb THEN "recv" ELSE "poll",
                            !.want = Smaller(rx.remain, Chunk), !.buf = << >>]
     \/ rx.remain = 0 /\ RxEnd(rx, "ok") /\ fds' = fds \ {"write"}

\* The end of one call of recv_func.
RecvEnd(r, res) == rx' = [r EXCEPT !.pc = "store", !.result = res]
Stays           == Keeps /\ UNCHANGED << wire, disk, fds >>

\* poll for POLLIN in tcprecvdata_ex and tcprecvdata_nb_ms.
RxPoll ==
  /\ Receiving /\ rx.pc = "poll" /\ Stays
  /\ \/ link # "reset" /\ (wire # << >> \/ link = "eof") /\ NoFault /\ rx' = [rx EXCEPT !.pc = "recv"]
     \/ link = "reset" /\ NoFault /\ RecvEnd(rx, "ENOTCONN")
     \/ link = "up" /\ wire = << >> /\ NoFault /\ RecvEnd(rx, "ETIMEDOUT")
     \/ Fault /\ UNCHANGED rx

\* recv takes part of what has come.
RxRecv ==
  /\ Receiving /\ rx.pc = "recv" /\ Keeps /\ UNCHANGED << disk, fds >>
  /\ \/ /\ wire # << >> /\ link # "reset" /\ NoFault
        /\ \E k \in 1 .. Smaller(rx.want - Len(rx.buf), Len(wire)) :
           \E r \in {[rx EXCEPT !.buf = @ \o SubSeq(wire, 1, k)]} :
             /\ wire' = SubSeq(wire, k + 1, Len(wire))
             /\ IF Len(r.buf) = rx.want THEN RecvEnd(r, "ok")
                ELSE rx' = [r EXCEPT !.pc = IF mode.recvNb THEN "recv" ELSE "poll"]
     \/ /\ wire = << >> /\ link = "eof" /\ NoFault
        /\ RecvEnd(rx, "ENOTCONN") /\ UNCHANGED wire
     \/ /\ wire = << >> /\ link = "up" /\ mode.recvNb /\ NoFault
        /\ rx' = [rx EXCEPT !.pc = "poll"] /\ UNCHANGED wire
     \/ /\ link = "reset" /\ NoFault /\ RecvEnd(rx, "ECONNRESET") /\ UNCHANGED wire
     \/ /\ Fault /\ rx' = [rx EXCEPT !.pc = "poll"] /\ UNCHANGED wire

\* A short count ends a file of known length; nothing of it is kept.
GivesUp == rx.result # "ok" /\ mode.recv \in {"file", "file_ex"}

\* tcpdiscard only counts what has come.
Discarded(r, n) ==
  /\ IF rx.result # "ok" THEN RxEnd(r, rx.result)
     ELSE Keeps /\ rx' = [r EXCEPT !.pc = "fill", !.remain = @ - n, !.buf = << >>]
  /\ UNCHANGED << disk, fds >>

\* What has come is written, and fsync called after FsyncAfter bytes; a
\* failure of either removes the file.
RxStore ==
  /\ Receiving /\ rx.pc = "store" /\ UNCHANGED wire
  /\ \E n \in {Len(rx.buf)} : \E r \in {[rx EXCEPT !.total = @ + n]} :
     \/ GivesUp /\ NoFault /\ RxEnd(rx, rx.result) /\ Unlinked
     \/ mode.recv = "discard" /\ NoFault /\ Discarded(r, n)
     \/ /\ Storing /\ ~GivesUp /\ NoFault /\ Keeps /\ UNCHANGED fds
        /\ disk' = [disk EXCEPT !.data = @ \o rx.buf]
        /\ rx' = [r EXCEPT !.pc = IF rx.result = "ok" THEN "fill" ELSE "trailer",
                           !.unsynced = IF @ + n >= FsyncAfter THEN 0 ELSE @ + n,
                           !.remain = IF rx.result = "ok" THEN @ - n ELSE @, !.buf = << >>]
     \/ /\ Storing /\ ~GivesUp /\ Fault /\ Unlinked
        /\ \E e \in {"write", "fsync"} : RxEnd(IF e = "write" THEN rx ELSE r, e)

\* A plausible slip: the file is kept without looking at its length.
RxTrailerTrusted ==
  /\ Receiving /\ rx.pc = "trailer" /\ UNCHANGED wire /\ NoFault
  /\ RxEnd(rx, "ok") /\ fds' = fds \ {"write", "read"} /\ UNCHANGED disk

\* The end of an infinite file, after any error of recv: the last unit that has
\* come must be the number of those before it, and is cut off.  When the file
\* cannot be opened for reading the function returns at once.
RxTrailer ==
  /\ Receiving /\ rx.pc = "trailer" /\ UNCHANGED wire
  /\ \E n \in {Len(disk.data)} :
     \/ n < 1 /\ NoFault /\ RxEnd(rx, rx.result) /\ Unlinked
     \/ n >= 1 /\ Fault /\ RxEnd(rx, "read_open") /\ UNCHANGED << disk, fds >>
     \/ n >= 1 /\ Fault /\ RxEnd(rx, "lseek") /\ Unlinked
     \/ /\ n >= 1 /\ NoFault
        /\ \E r \in {[rx EXCEPT !.total = @ - 1]} :
             IF disk.data[n] # r.total THEN RxEnd(r, "EINVAL") /\ Unlinked
             ELSE /\ RxEnd(r, "ok") /\ fds' = fds \ {"write", "read"}
                  /\ disk' = [disk EXCEPT !.data = SubSeq(@, 1, r.total)]
     \/ /\ n >= 1 /\ Fault /\ disk.data[n] = rx.total - 1
        /\ RxEnd([rx EXCEPT !.total = @ - 1], "ftruncate") /\ Unlinked

\* The connection breaks.
Reset ==
  /\ link \in {"up", "eof"} /\ rx.pc # "done" /\ Fault
  /\ link' = "reset" /\ wire' = << >>
  /\ UNCHANGED << mode, cl, sv, tx, rx, disk, fds >>

ClientStep == SocketCreate \/ Connect \/ ConnectPoll
SenderStep == TxOpen \/ TxPart \/ TxPoll \/ TxSend \/ TxSendfile
ServerStep == SocketServer \/ Nbaccept
ReceiverStep == RxOpen \/ RxFill \/ RxPoll \/ RxRecv \/ RxStore \/ RxTrailer

Next == ClientStep \/ SenderStep \/ ServerStep \/ ReceiverStep \/ Reset

ClientRuns == "client" \in mode.runs /\ (ClientStep \/ SenderStep)
ServerRuns == "server" \in mode.runs /\ (ServerStep \/ ReceiverStep)

\* The program on a side that runs takes its steps, with the steps of poll,
\* select and connect whose timeout is over among them.  Nothing is assumed of
\* a side that may stop.
Fairness == WF_vars(ClientRuns) /\ WF_vars(ServerRuns)

Spec == Init /\ [][Next]_vars /\ Fairness
-----------------------------------------------------------------------------
\* The units that have gone out.
Out == IF tx.pc = "open" THEN 0 ELSE Len(Units) - tx.left

\* Where the file may end for the receiver: at its end, and in an infinite file
\* in front of every unit that holds the number of units before it.
EndsAt == IF mode.recv = "infinite" THEN {n \in 0 .. Len(File) : Units[n + 1] = n}
          ELSE {Len(File)}

\* What the receiver holds of the file when its function has returned.
Received ==
  /\ rx.result = "ok" => rx.total \in EndsAt
  /\ Storing =>
       /\ rx.result = "ok" => disk = [exists |-> TRUE, data |-> SubSeq(File, 1, rx.total)]
       /\ rx.result \notin {"ok", "read_open"} => ~disk.exists

\* Success means the whole file.  Units are neither lost nor doubled on their
\* way; a receiver that reports success has exactly the sender's, up to an end
\* as EndsAt says, and their number, one that fails leaves no file; a sender
\* that reports success has sent all.  With read the sender reports no unit
\* that has not gone out, and all of them on success (with sendfile it reports
\* nothing, CountStored).  Sockets are closed on every failing path of the
\* set-up and get their flags back, and files are closed except on the two
\* paths that return without it (README section 5).
Sound ==
  /\ rx.pc # "done" /\ link # "reset" /\ Storing =>
       disk.data \o rx.buf \o wire = SubSeq(Units, 1, Out)
  /\ rx.pc = "done" =>
       /\ Received
       /\ fds \cap {"write", "read"} # {} => rx.result = "read_open"
  /\ tx.pc = "done" =>
       /\ tx.result = "ok" => Out = Len(Units)
       /\ mode.send = "read" => /\ tx.total <= Out
                                /\ tx.result = "ok" => tx.total = Len(Units)
       /\ "send" \in fds => tx.result = "fcntl"
  /\ cl.pc = "done" => ~cl.open
  /\ cl.pc = "connected" /\ tx.pc # "sendfile" /\ tx.result # "restore"
       => cl.nonblock = mode.sendNb

\* The sender needs no one else to return: on a non-blocking socket it waits in
\* poll only.  In the send of a blocking socket, and in sendfile always, it
\* waits for a receiver that reads or closes.
Alone == mode.sendNb /\ mode.send # "sendfile"

\* Every call has returned of a side that runs: of the receiver whatever the
\* sender does, of the sender when it stands alone or the receiver runs too.
Over ==
  /\ "client" \in mode.runs /\ (Alone \/ "server" \in mode.runs) =>
       cl.pc = "done" \/ tx.pc = "done"
  /\ "server" \in mode.runs => sv.pc = "done" \/ rx.pc = "done"

\* What the code does not keep (README section 5).

\* sockopt.h says of tcpsendfile_ex "return: error no, 0 success, != 0 fail";
\* an interrupted sendfile that is tried again leaves EINTR in result although
\* everything is sent.
SentMeansSuccess ==
  tx.pc = "done" /\ Out = Len(Units) /\ tx.result # "restore" => tx.result = "ok"

\* sockopt.h:478 says of tcpsendfile_ex "total_send_bytes: store the send bytes";
\* on Linux line 1474 of sockopt.c, which stores them, is not compiled.
CountStored == tx.pc = "done" /\ mode.send # "data" => tx.total = Out

\* A receiver that reports success has the whole file; but an infinite file may
\* hold a unit that looks like its trailer, and any error of recv behind it
\* ends the file there.
WholeFile == rx.pc = "done" /\ rx.result = "ok" /\ Storing => disk.data = File

\* The sender returns whatever the receiver does; but the timeout given to
\* tcpsendfile_ex is not used with sendfile.
SenderReturns == "client" \in mode.runs ~> (cl.pc = "done" \/ tx.pc = "done")
=============================================================================
