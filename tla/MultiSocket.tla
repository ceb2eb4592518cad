----------------------------- MODULE MultiSocket -----------------------------
(***************************************************************************)
(* multi_socket_client.c: one request goes out on several non-blocking     *)
(* sockets at once, and their answers are collected until all are there or *)
(* the deadline is over.  A server (external) answers a whole request with *)
(* a header that holds the length of the body, and the body; it may be     *)
(* slow, hang up, or send a nonsensical length.  A unit of data is a byte. *)
(***************************************************************************)
EXTENDS Integers, Sequences, FiniteSets, Functions

CONSTANTS
  Entries,        \* the sockets, 1 .. entry_count
  RequestLength, HeaderLength,
  BodyLengths,    \* what get_body_length_func may say
  Timeout,        \* seconds
  Requests,       \* bound on the number of requests
  MaxFaults       \* bound on failing calls and on servers that go away

VARIABLES
  client,   \* [pc, pulling, success, left, rest, result, req]; left = deadline - now,
            \* rest = remain_timeout
  entry,    \* per socket: [conn, sending, stage, remain, got, done, error, attached]
  batch,    \* events of the last poll that are still to be dealt with
  server,   \* per socket: [recv, out, wire, gone]: request bytes it has, what it
            \* has yet to send, what is under way
  spoilt,   \* sockets on which a request has failed half-way
  faults

vars == << client, entry, batch, server, spoilt, faults >>

Fault == faults < MaxFaults /\ faults' = faults + 1

Init ==
  /\ client = [pc |-> "idle", pulling |-> 0, success |-> 0, left |-> 0, rest |-> 0, result |-> "none", req |-> 0]
  /\ \E C \in SUBSET Entries :
       entry = [i \in Entries |-> [conn |-> i \in C, sending |-> FALSE, stage |-> "H", remain |-> 0,
                                   got |-> << >>, done |-> TRUE, error |-> "none", attached |-> FALSE]]
  /\ batch = << >> /\ spoilt = {} /\ faults = 0
  /\ server = [i \in Entries |-> [recv |-> 0, out |-> << >>, wire |-> << >>, gone |-> FALSE]]

\* What a server sends for request r: the header says how long the body is.
Answer(r, n) ==
  [i \in 1 .. HeaderLength |-> << r, "header", n >>]
    \o [i \in 1 .. (IF n > 0 THEN n ELSE 0) |-> << r, "body", i >>]

\* fast_multi_sock_client_send_data for one entry: a socket that is not
\* connected or cannot be attached is done at once.
Prepared(e, fails) ==
  [e EXCEPT !.remain = RequestLength, !.got = << >>, !.sending = TRUE,
            !.done = ~e.conn \/ fails, !.attached = e.conn /\ ~fails,
            !.error = IF ~e.conn THEN "ENOTCONN" ELSE IF fails THEN "EACCES" ELSE @]

\* fast_multi_sock_client_request
Request ==
  /\ client.pc \in {"idle", "returned"} /\ client.req < Requests
  /\ \E F \in SUBSET {i \in Entries : entry[i].conn} :
       /\ IF F = {} THEN UNCHANGED faults ELSE Cardinality(F) = 1 /\ Fault
       /\ entry' = [i \in Entries |-> Prepared(entry[i], i \in F)]
       /\ \E n \in {Cardinality({i \in Entries : entry'[i].attached})} :
            client' = [client EXCEPT !.pc = IF n > 0 THEN "loop" ELSE "returned", !.pulling = n,
                                     !.success = 0, !.left = Timeout, !.req = @ + 1,
                                     !.result = IF n > 0 THEN "none" ELSE "ENOENT"]
  /\ UNCHANGED << batch, server, spoilt >>

\* fast_multi_sock_client_finish
Finish(c, i, e, err) ==
  /\ entry' = [entry EXCEPT ![i] = [e EXCEPT !.error = err, !.done = TRUE, !.attached = FALSE]]
  /\ client' = [c EXCEPT !.pulling = @ - 1, !.success = IF err = "ok" THEN @ + 1 ELSE @]
  /\ spoilt' = IF err = "ok" THEN spoilt ELSE spoilt \cup {i}

\* An attached socket has an event: it can be written, there is something to
\* read, or the server has gone.
Ready(i) ==
  /\ entry[i].attached
  /\ entry[i].sending \/ server[i].wire # << >> \/ server[i].gone

\* The top of fast_multi_sock_client_deal_io: poll, for at most what is left
\* of the time.  An interrupted or failing poll finds nothing.
Poll ==
  /\ client.pc = "loop" /\ batch = << >> /\ client.pulling > 0 /\ client.left >= 0
  /\ \E S \in SUBSET {i \in Entries : Ready(i)} : S # {} /\ batch' \in Injection(1 .. Cardinality(S), S)
  /\ client' = [client EXCEPT !.rest = client.left]
  /\ UNCHANGED << entry, server, spoilt, faults >>

\* fast_multi_sock_client_do_send: k bytes go out; then the socket is full,
\* or all is sent and the poller is told to watch for the answer.
DoSend(i) ==
  \E e \in {entry[i]} : \E k \in 0 .. e.remain :
    /\ server' = [server EXCEPT ![i].recv = @ + k]
    /\ \/ /\ k < e.remain /\ UNCHANGED << client, spoilt, faults >>
          /\ entry' = [entry EXCEPT ![i].remain = @ - k]
       \/ /\ k = e.remain /\ UNCHANGED << client, spoilt, faults >>
          /\ entry' = [entry EXCEPT ![i].remain = HeaderLength, ![i].sending = FALSE, ![i].stage = "H"]
       \/ /\ k < e.remain /\ Fault
          /\ Finish(client, i, [e EXCEPT !.remain = @ - k], "ECONNRESET")
       \/ /\ k = e.remain /\ Fault       \* ioevent_modify fails
          /\ Finish(client, i, [e EXCEPT !.remain = HeaderLength, !.sending = FALSE, !.stage = "H"], "EACCES")

\* A round of the loop of fast_multi_sock_client_do_recv on what has come.
TakeUnits(e, w) ==
  LET k == IF Len(w) < e.remain THEN Len(w) ELSE e.remain
  IN [e EXCEPT !.got = @ \o SubSeq(w, 1, k), !.remain = @ - k]

\* get_body_length_func: the length that the header, the last unit read, names.
BodyLength(e) == e.got[Len(e.got)][3]

\* A plausible slip: the header's bytes are counted as part of the body.
AfterHeaderCounted(e) ==
  [e EXCEPT !.stage = "B", !.remain = IF BodyLength(e) > 0 THEN BodyLength(e) - 1 ELSE 0]

\* The header is complete: get_body_length_func says how much is to follow.
AfterHeader(e) ==
  [e EXCEPT !.stage = "B", !.remain = IF BodyLength(e) > 0 THEN BodyLength(e) ELSE 0]

\* All that was waited for has come, and it was the header.
HeaderComplete(e) == e.remain = 0 /\ e.stage = "H"

\* fast_multi_sock_client_do_recv reads until there is nothing more.
DoRecv(i) ==
  \E e1 \in {TakeUnits(entry[i], server[i].wire)} :
  \E e2 \in {IF HeaderComplete(e1) THEN AfterHeader(e1) ELSE e1} :
  \E w1 \in {SubSeq(server[i].wire, 1 + Len(e1.got) - Len(entry[i].got), Len(server[i].wire))} :
  \E e3 \in {IF HeaderComplete(e1) THEN TakeUnits(e2, w1) ELSE e2} :
    /\ server' = [server EXCEPT ![i].wire = SubSeq(w1, 1 + Len(e3.got) - Len(e2.got), Len(w1))]
    /\ \/ /\ HeaderComplete(e1) /\ BodyLength(e1) < 0
          /\ Finish(client, i, e2, "EINVAL") /\ UNCHANGED faults
       \/ /\ ~(HeaderComplete(e1) /\ BodyLength(e1) < 0) /\ UNCHANGED faults
          /\ IF e3.remain = 0 THEN Finish(client, i, e3, "ok")
             ELSE IF server[i].gone THEN Finish(client, i, e3, "ECONNRESET")
             ELSE entry' = [entry EXCEPT ![i] = e3] /\ UNCHANGED << client, spoilt >>
       \/ /\ Fault                      \* read or fast_buffer_check fails
          /\ e3.remain > 0 /\ Finish(client, i, e3, "EIO")

\* One event: an error event finishes the entry, any other goes to io_callback.
DealEvent ==
  /\ client.pc = "loop" /\ batch # << >> /\ batch' = Tail(batch)
  /\ \E i \in {Head(batch)} :
       \/ server[i].gone /\ Finish(client, i, entry[i], "ECONNRESET") /\ UNCHANGED << server, faults >>
       \/ ~server[i].gone /\ entry[i].sending /\ DoSend(i)
       \/ ~entry[i].sending /\ DoRecv(i)

\* The end of fast_multi_sock_client_deal_io: who is not done has timed out.
DealIoEnd ==
  /\ client.pc = "loop" /\ batch = << >> /\ (client.pulling = 0 \/ client.left < 0)
  /\ \E T \in {{i \in Entries : ~entry[i].done}} :
       /\ entry' = [i \in Entries |-> IF i \in T THEN [entry[i] EXCEPT !.error = "ETIMEDOUT", !.done = TRUE,
                                                                      !.attached = FALSE]
                                      ELSE entry[i]]
       /\ spoilt' = spoilt \cup T
       /\ client' = [client EXCEPT !.pc = "returned", !.pulling = @ - Cardinality(T),
                                   !.result = IF client.success > 0 THEN "ok"
                                              ELSE IF client.pulling = 0 /\ client.rest > 0 THEN "ENOENT" ELSE "ETIMEDOUT"]
  /\ UNCHANGED << batch, server, faults >>

\* A server has the whole request and answers; its answer comes in pieces.
ServerAnswers(i) ==
  /\ server[i].recv >= RequestLength /\ ~server[i].gone
  /\ \E n \in BodyLengths :
       server' = [server EXCEPT ![i].recv = @ - RequestLength, ![i].out = @ \o Answer(client.req, n)]
  /\ UNCHANGED << client, entry, batch, spoilt, faults >>
Arrive(i) ==
  /\ server[i].out # << >> /\ ~server[i].gone
  /\ \E k \in {1, Len(server[i].out)} :
       server' = [server EXCEPT ![i].wire = @ \o SubSeq(server[i].out, 1, k),
                                ![i].out = SubSeq(@, k + 1, Len(@))]
  /\ UNCHANGED << client, entry, batch, spoilt, faults >>
HangUp(i) ==
  /\ entry[i].conn /\ ~server[i].gone /\ Fault
  /\ server' = [server EXCEPT ![i].gone = TRUE, ![i].out = << >>]
  /\ UNCHANGED << client, entry, batch, spoilt >>

Tick ==
  /\ client.pc = "loop" /\ client.left >= 0 /\ client' = [client EXCEPT !.left = @ - 1]
  /\ UNCHANGED << entry, batch, server, spoilt, faults >>

ClientStep == Request \/ Poll \/ DealEvent \/ DealIoEnd
Next == \/ ClientStep \/ Tick
        \/ \E i \in Entries : ServerAnswers(i) \/ Arrive(i) \/ HangUp(i)

\* Time passes, and the client deals with its events.
Spec == Init /\ [][Next]_vars /\ WF_vars(DealEvent \/ DealIoEnd) /\ WF_vars(Tick)
-----------------------------------------------------------------------------
\* The counters agree with the entries at every moment; a socket that is
\* counted as a success holds the whole answer to this request, unless an
\* earlier one failed on it; and the result is success only with one.
Sound ==
  /\ client.pulling = Cardinality({i \in Entries : ~entry[i].done})
  /\ client.req > 0 => client.success = Cardinality({i \in Entries : entry[i].error = "ok" /\ entry[i].done})
  /\ \A i \in Entries : entry[i].attached <=> ~entry[i].done
  /\ \A i \in Entries : entry[i].done /\ entry[i].error = "ok" =>
       i \in spoilt \/ \E n \in BodyLengths : n >= 0 /\ entry[i].got = Answer(client.req, n)
  /\ client.pc = "returned" =>
       /\ client.pulling = 0
       /\ client.result = "ok" <=> client.success > 0

\* An answer that is counted is the answer to the request that was made; a
\* socket that timed out is not closed, and gives the next request the answer
\* to the last one.
OwnAnswer ==
  \A i \in Entries : entry[i].done /\ entry[i].error = "ok" => entry[i].got[1][1] = client.req
=============================================================================
