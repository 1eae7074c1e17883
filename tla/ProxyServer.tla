----------------------------- MODULE ProxyServer -----------------------------
(***************************************************************************)
(* The local proxy: connections that serve one request after the other,     *)
(* each request admitted, buffered under a shared budget, sent upstream     *)
(* with the route's credential, and answered from a buffer or by a task of  *)
(* its own that streams.  Clients leave, upstreams fail and the server is   *)
(* shut down at any moment.                                                 *)
(*                                                                          *)
(* Bodies are counted in units of bytes; what the scrubber does to a chunk  *)
(* is that it may hold it back (see ResponseScrubber).  The rate limiter's  *)
(* verdict and the presence of a credential are choices of the request.     *)
(***************************************************************************)
EXTENDS Naturals, FiniteSets, FiniteSetsExt

CONSTANTS
    Clients,        \* one connection at a time each
    MaxConnections, \* MAX_CONCURRENT_CONNECTIONS
    MaxRequests,    \* MAX_CONCURRENT_REQUESTS
    MaxBody,        \* max_body_size
    Budget,         \* max_buffered_bytes
    UrlAuth,        \* allow_query_token_auth
    Requests,       \* the requests that clients send
    MaxServed,      \* bound: requests received
    MaxChunks       \* bound: chunks of an upstream's response

\* What the constants have to satisfy.
ProxyAssumption ==
    /\ IsFiniteSet(Clients)
    /\ {MaxConnections, MaxRequests, MaxBody, Budget, MaxServed, MaxChunks} \subseteq Nat
    /\ UrlAuth \in BOOLEAN
    /\ Requests \subseteq [token : {"header", "url", "none"},
                           path : {"route", "health", "misplaced", "dots", "unknown", "forbidden"},
                           usable : BOOLEAN, size : Nat]

VARIABLES
    server,     \* run_server: running, draining or stopped
    signal,     \* the shutdown channel
    conn,       \* the connections
    task,       \* the streaming task of a connection's response
    upstream,   \* the upstream exchange of a client's request
    permits,    \* request_slots
    budget,     \* buffer_budget
    got,        \* what the client has got of its current response
    served

vars == <<server, signal, conn, task, upstream, permits, budget, got, served>>

NoRequest == [token |-> "none", path |-> "unknown", usable |-> FALSE, size |-> 0]

\* req, and body: what handle_request has collected; held: its reservation; slot:
\* its permit; reply: bytes of a buffered response; gone: the client has left.
Closed == [pc |-> "closed", req |-> NoRequest, body |-> 0, held |-> 0, slot |-> FALSE,
           reply |-> 0, drain |-> FALSE, gone |-> FALSE]

\* data: bytes in the channel; kept: held back by the scrubber; last: how it ends.
NoTask == [pc |-> "none", data |-> 0, kept |-> 0, last |-> "open"]

\* given: what it has sent, of which taken was read.
NoUpstream == [state |-> "none", given |-> 0, taken |-> 0]

NoAnswer == [data |-> 0, end |-> "open"]

Init ==
    /\ server = "running"
    /\ signal = FALSE
    /\ conn = [c \in Clients |-> Closed]
    /\ task = [c \in Clients |-> NoTask]
    /\ upstream = [c \in Clients |-> NoUpstream]
    /\ permits = MaxRequests
    /\ budget = Budget
    /\ got = [c \in Clients |-> NoAnswer]
    /\ served = 0

At(c, pc) == conn[c].pc = pc

Open(c) == ~At(c, "closed")

\* What handle_request gives back whenever it returns or is dropped.
Released(c) ==
    /\ permits' = permits + (IF conn[c].slot THEN 1 ELSE 0)
    /\ budget' = budget + conn[c].held

\* What all requests together have reserved, counted unit by unit.
Reserved == Cardinality({x \in Clients \X (1..Budget) : x[2] <= conn[x[1]].held})

\* Where a connection stands when a response is complete.
AfterReply(c) ==
    IF conn[c].drain THEN Closed
    ELSE [Closed EXCEPT !.pc = "idle", !.gone = conn[c].gone]

\* Mutant: an error response keeps the slot and the bytes.
RefuseKeeping(c) ==
    /\ conn' = [conn EXCEPT ![c] = AfterReply(c)]
    /\ got' = [got EXCEPT ![c] = [data |-> 0, end |-> "error"]]
    /\ upstream' = [upstream EXCEPT ![c] = IF @.state = "open" THEN [@ EXCEPT !.state = "closed"] ELSE @]
    /\ UNCHANGED <<permits, budget>>

\* handle_request returns an error response, which is sent at once.
Refuse(c) ==
    /\ conn' = [conn EXCEPT ![c] = AfterReply(c)]
    /\ got' = [got EXCEPT ![c] = [data |-> 0, end |-> "error"]]
    /\ upstream' = [upstream EXCEPT ![c] = IF @.state = "open" THEN [@ EXCEPT !.state = "closed"] ELSE @]
    /\ Released(c)

-----------------------------------------------------------------------------
(* run_server                                                               *)

\* A connection is accepted while a slot is free, also after the signal as long
\* as the loop has not seen it.
Accept(c) ==
    /\ server = "running"
    /\ At(c, "closed") /\ task[c].pc = "none"
    /\ served < MaxServed
    /\ Cardinality({d \in Clients : Open(d)}) < MaxConnections
    /\ conn' = [conn EXCEPT ![c] = [Closed EXCEPT !.pc = "idle"]]
    /\ got' = [got EXCEPT ![c] = NoAnswer]
    /\ UNCHANGED <<server, signal, task, upstream, permits, budget, served>>

\* The connection's future ends: the handler in it is dropped, and with it
\* the receiver of a streaming response.
CloseConn(c) ==
    /\ conn' = [conn EXCEPT ![c] = Closed]
    /\ upstream' = [upstream EXCEPT ![c] =
                        IF @.state = "open" /\ task[c].pc = "none" THEN [@ EXCEPT !.state = "closed"] ELSE @]
    /\ Released(c)

Shutdown ==
    /\ ~signal
    /\ signal' = TRUE
    /\ UNCHANGED <<server, conn, task, upstream, permits, budget, got, served>>

\* The accept loop sees the signal and stops.
Break ==
    /\ server = "running" /\ signal
    /\ server' = "draining"
    /\ UNCHANGED <<signal, conn, task, upstream, permits, budget, got, served>>

\* graceful_shutdown: an idle connection closes, a busy one after its response.
Drain(c) ==
    /\ signal /\ Open(c) /\ ~conn[c].drain
    /\ conn' = [conn EXCEPT ![c] = IF @.pc = "idle" THEN Closed ELSE [@ EXCEPT !.drain = TRUE]]
    /\ UNCHANGED <<server, signal, task, upstream, permits, budget, got, served>>

\* The connection's own drain timeout.
DrainTimeout(c) ==
    /\ Open(c) /\ conn[c].drain
    /\ CloseConn(c)
    /\ UNCHANGED <<server, signal, task, got, served>>

\* Mutant: the deadline does not abort what still runs.
StopWithoutAbort ==
    /\ server = "draining"
    /\ server' = "stopped"
    /\ UNCHANGED <<signal, conn, task, upstream, permits, budget, got, served>>

\* All connections have ended, or the deadline aborts the rest.
Stop ==
    /\ server = "draining"
    /\ server' = "stopped"
    /\ conn' = [c \in Clients |-> Closed]
    /\ upstream' = [c \in Clients |->
            IF upstream[c].state = "open" /\ task[c].pc = "none"
            THEN [upstream[c] EXCEPT !.state = "closed"] ELSE upstream[c]]
    /\ permits' = permits + Cardinality({c \in Clients : conn[c].slot})
    /\ budget' = budget + Reserved
    /\ UNCHANGED <<signal, task, got, served>>

-----------------------------------------------------------------------------
(* handle_request                                                           *)

\* The session token in the header, or in the URL where that is allowed.
Authorised(q) == q.token = "header" \/ (UrlAuth /\ q.token = "url")

\* The reviewed part of the request: what is not refused before any work.
Reviewed(q) == Authorised(q) /\ q.path = "route"

\* A request arrives, and is refused or gets a request slot without waiting.
Receive(c, q) ==
    /\ At(c, "idle") /\ ~conn[c].gone /\ ~conn[c].drain
    /\ served < MaxServed
    /\ served' = served + 1
    /\ upstream' = [upstream EXCEPT ![c] = NoUpstream]
    /\ IF Reviewed(q) /\ permits > 0
       THEN /\ permits' = permits - 1
            /\ conn' = [conn EXCEPT ![c].pc = "admit", ![c].req = q, ![c].slot = TRUE]
            /\ got' = [got EXCEPT ![c] = NoAnswer]
       ELSE /\ got' = [got EXCEPT ![c] = [data |-> 0, end |-> "error"]]
            /\ UNCHANGED <<conn, permits>>
    /\ UNCHANGED <<server, signal, task, budget>>

\* The rate limiter alerts, there is no credential, or Basic lacks a username;
\* otherwise the credential is put into the outgoing request.
Admit(c) ==
    /\ At(c, "admit")
    /\ IF conn[c].req.usable
       THEN conn' = [conn EXCEPT ![c].pc = "body"]
            /\ UNCHANGED <<got, upstream, permits, budget>>
       ELSE Refuse(c)
    /\ UNCHANGED <<server, signal, task, served>>

\* A frame of the body: too large, over the budget, or kept.
Collect(c) ==
    LET n == conn[c]
    IN  /\ At(c, "body") /\ n.body < n.req.size
        /\ IF n.body + 1 > MaxBody \/ budget = 0
           THEN Refuse(c)
           ELSE /\ conn' = [conn EXCEPT ![c].body = @ + 1, ![c].held = @ + 1]
                /\ budget' = budget - 1
                /\ UNCHANGED <<got, upstream, permits>>
        /\ UNCHANGED <<server, signal, task, served>>

\* REQUEST_BODY_TIMEOUT, or an error while reading.
BodyFails(c) ==
    /\ At(c, "body") /\ conn[c].body < conn[c].req.size
    /\ Refuse(c)
    /\ UNCHANGED <<server, signal, task, served>>

\* The body is complete: the request goes upstream.
Send(c) ==
    /\ At(c, "body") /\ conn[c].body = conn[c].req.size
    /\ conn' = [conn EXCEPT ![c].pc = "sent"]
    /\ upstream' = [upstream EXCEPT ![c].state = "open"]
    /\ UNCHANGED <<server, signal, task, permits, budget, got, served>>

\* No connection, a timeout, or an encoded response.
SendFails(c) ==
    /\ At(c, "sent")
    /\ Refuse(c)
    /\ UNCHANGED <<server, signal, task, served>>

\* A response of declared length is buffered.
Buffer(c) ==
    /\ At(c, "sent")
    /\ conn' = [conn EXCEPT ![c].pc = "buffer"]
    /\ UNCHANGED <<server, signal, task, upstream, permits, budget, got, served>>

\* A response without one is streamed: the task starts and handle_request returns,
\* so that its permit and its reservation are free again.
Stream(c) ==
    /\ At(c, "sent")
    /\ task' = [task EXCEPT ![c] = [NoTask EXCEPT !.pc = "pull"]]
    /\ conn' = [conn EXCEPT ![c].pc = "stream", ![c].slot = FALSE, ![c].held = 0, ![c].body = 0]
    /\ Released(c)
    /\ UNCHANGED <<server, signal, upstream, got, served>>

-----------------------------------------------------------------------------
(* The upstream, an external service.                                       *)

\* The next chunk of the response comes.
UpstreamChunk(c) ==
    /\ upstream[c].state = "open" /\ conn[c].pc # "sent"
    /\ upstream[c].given < MaxChunks
    /\ upstream' = [upstream EXCEPT ![c].given = @ + 1]
    /\ UNCHANGED <<server, signal, conn, task, permits, budget, got, served>>

\* The response is complete, or breaks off.
UpstreamEnds(c) ==
    /\ upstream[c].state = "open" /\ conn[c].pc # "sent"
    /\ \E s \in {"ended", "failed"} : upstream' = [upstream EXCEPT ![c].state = s]
    /\ UNCHANGED <<server, signal, conn, task, permits, budget, got, served>>

Unread(c) == upstream[c].given > upstream[c].taken

-----------------------------------------------------------------------------
(* The buffered response.                                                   *)

\* A chunk is charged like the request's, and kept.
BufferChunk(c) ==
    LET n == conn[c]
    IN  /\ At(c, "buffer") /\ Unread(c)
        /\ IF n.reply + 1 > MaxBody \/ budget = 0
           THEN Refuse(c)
           ELSE /\ conn' = [conn EXCEPT ![c].reply = @ + 1, ![c].held = @ + 1]
                /\ budget' = budget - 1
                /\ upstream' = [upstream EXCEPT ![c].taken = @ + 1]
                /\ UNCHANGED <<got, permits>>
        /\ UNCHANGED <<server, signal, task, served>>

\* The whole response is scrubbed and returned; its bytes are with the connection
\* until they are written, its reservation is not.
BufferEnds(c) ==
    /\ At(c, "buffer") /\ ~Unread(c)
    /\ \/ /\ upstream[c].state = "ended"
          /\ conn' = [conn EXCEPT ![c].pc = "reply", ![c].slot = FALSE, ![c].held = 0,
                                  ![c].body = 0]
          /\ Released(c)
          /\ UNCHANGED <<upstream, got>>
       \/ upstream[c].state = "failed" /\ Refuse(c)
    /\ UNCHANGED <<server, signal, task, served>>

\* The client has read it all.
Reply(c) ==
    /\ At(c, "reply") /\ ~conn[c].gone
    /\ got' = [got EXCEPT ![c] = [data |-> conn[c].reply, end |-> "clean"]]
    /\ conn' = [conn EXCEPT ![c] = AfterReply(c)]
    /\ UNCHANGED <<server, signal, task, upstream, permits, budget, served>>

-----------------------------------------------------------------------------
(* The streaming task, which nobody waits for.                              *)

Receiver(c) == At(c, "stream")

\* tx.closed() comes first, whether the task waits for a chunk or for the channel.
TaskClientGone(c) ==
    /\ task[c].pc \in {"pull", "send", "flush", "abort"} /\ ~Receiver(c)
    /\ task' = [task EXCEPT ![c] = NoTask]
    /\ upstream' = [upstream EXCEPT ![c].state = IF @ = "open" THEN "closed" ELSE @]
    /\ UNCHANGED <<server, signal, conn, permits, budget, got, served>>

\* A chunk is scrubbed, which may hold it back.
TaskChunk(c) ==
    /\ task[c].pc = "pull" /\ Receiver(c) /\ Unread(c)
    /\ upstream' = [upstream EXCEPT ![c].taken = @ + 1]
    /\ \/ task' = [task EXCEPT ![c].kept = @ + 1, ![c].pc = "send"]
       \/ task' = [task EXCEPT ![c].kept = @ + 1]
    /\ UNCHANGED <<server, signal, conn, permits, budget, got, served>>

\* tx.send: the channel has room for one frame.
TaskSend(c) ==
    /\ task[c].pc = "send" /\ Receiver(c) /\ task[c].data = 0
    /\ task' = [task EXCEPT ![c] = [@ EXCEPT !.pc = "pull", !.data = task[c].kept, !.kept = 0]]
    /\ UNCHANGED <<server, signal, conn, upstream, permits, budget, got, served>>

\* The upstream's end: what is held back is flushed, or the body is aborted.
TaskEnds(c) ==
    /\ task[c].pc = "pull" /\ Receiver(c) /\ ~Unread(c)
    /\ \/ upstream[c].state = "ended" /\ task' = [task EXCEPT ![c].pc = "flush"]
       \/ upstream[c].state = "failed" /\ task' = [task EXCEPT ![c].pc = "abort"]
    /\ UNCHANGED <<server, signal, conn, upstream, permits, budget, got, served>>

\* finish_stream, and the sender is dropped.
TaskFlush(c) ==
    /\ task[c].pc = "flush" /\ Receiver(c)
    /\ task[c].kept > 0 => task[c].data = 0
    /\ task' = [task EXCEPT ![c] = [pc |-> "over", data |-> @.data + @.kept, kept |-> 0,
                                    last |-> "clean"]]
    /\ UNCHANGED <<server, signal, conn, upstream, permits, budget, got, served>>

\* Mutant: a failed stream just ends.
TaskAbortQuietly(c) ==
    /\ task[c].pc = "abort" /\ Receiver(c) /\ task[c].data = 0
    /\ task' = [task EXCEPT ![c] = [NoTask EXCEPT !.pc = "over", !.last = "clean"]]
    /\ UNCHANGED <<server, signal, conn, upstream, permits, budget, got, served>>

\* An error is sent, so that the body does not end cleanly.
TaskAbort(c) ==
    /\ task[c].pc = "abort" /\ Receiver(c) /\ task[c].data = 0
    /\ task' = [task EXCEPT ![c] = [NoTask EXCEPT !.pc = "over", !.last = "cut"]]
    /\ UNCHANGED <<server, signal, conn, upstream, permits, budget, got, served>>

\* The client reads a frame, or the end: an error closes the connection.
ReadFrame(c) ==
    /\ Receiver(c) /\ ~conn[c].gone
    /\ \/ /\ task[c].data > 0
          /\ got' = [got EXCEPT ![c].data = @ + task[c].data]
          /\ task' = [task EXCEPT ![c].data = 0]
          /\ UNCHANGED conn
       \/ /\ task[c].pc = "over" /\ task[c].data = 0
          /\ got' = [got EXCEPT ![c].end = task[c].last]
          /\ task' = [task EXCEPT ![c] = NoTask]
          /\ conn' = [conn EXCEPT ![c] = IF task[c].last = "clean" THEN AfterReply(c) ELSE Closed]
    /\ UNCHANGED <<server, signal, upstream, permits, budget, served>>

\* A channel nobody reads any more goes with its task.
TaskForgotten(c) ==
    /\ task[c].pc = "over" /\ ~Receiver(c)
    /\ task' = [task EXCEPT ![c] = NoTask]
    /\ UNCHANGED <<server, signal, conn, upstream, permits, budget, got, served>>

-----------------------------------------------------------------------------
\* The client leaves, and the connection notices.
Leave(c) ==
    /\ Open(c) /\ ~conn[c].gone
    /\ conn' = [conn EXCEPT ![c].gone = TRUE]
    /\ UNCHANGED <<server, signal, task, upstream, permits, budget, got, served>>

NoticeGone(c) ==
    /\ Open(c) /\ conn[c].gone
    /\ CloseConn(c)
    /\ UNCHANGED <<server, signal, task, got, served>>

Task(c) ==
    \/ TaskClientGone(c) \/ TaskChunk(c) \/ TaskSend(c) \/ TaskEnds(c)
    \/ TaskFlush(c) \/ TaskAbort(c) \/ TaskForgotten(c)

Finished == server = "stopped" /\ (\A c \in Clients : task[c].pc = "none") /\ UNCHANGED vars

Next ==
    \/ Shutdown \/ Break \/ Stop \/ Finished
    \/ \E c \in Clients :
        \/ Accept(c) \/ Drain(c) \/ DrainTimeout(c)
        \/ \E q \in Requests : Receive(c, q)
        \/ Admit(c) \/ Collect(c) \/ BodyFails(c) \/ Send(c) \/ SendFails(c)
        \/ Buffer(c) \/ Stream(c)
        \/ UpstreamChunk(c) \/ UpstreamEnds(c)
        \/ BufferChunk(c) \/ BufferEnds(c) \/ Reply(c)
        \/ Task(c) \/ ReadFrame(c)
        \/ Leave(c) \/ NoticeGone(c)

Spec == Init /\ [][Next]_vars

\* The executor polls every task that is ready, and the drain deadline comes.
\* Nothing is assumed of clients, of upstreams or of a signal being sent.
FairSpec ==
    /\ Spec
    /\ WF_vars(Break) /\ WF_vars(Stop)
    /\ \A c \in Clients : WF_vars(Task(c)) /\ WF_vars(NoticeGone(c))

-----------------------------------------------------------------------------
(* Properties.                                                               *)

\* The type invariant of the proxy.
TypeOK ==
    /\ server \in {"running", "draining", "stopped"}
    /\ \A c \in Clients :
        /\ conn[c].pc \in {"closed", "idle", "admit", "body", "sent", "buffer", "reply", "stream"}
        /\ task[c].pc \in {"none", "pull", "send", "flush", "abort", "over"}
        /\ upstream[c].state \in {"none", "open", "ended", "failed", "closed"}
        /\ got[c].end \in {"open", "clean", "cut", "error"}
    /\ permits \in 0..MaxRequests
    /\ budget \in 0..Budget

\* Every permit and every byte of the budget is either free or with a request
\* that handle_request still works on, however requests end.
NothingLeaks ==
    /\ permits + Cardinality({c \in Clients : conn[c].slot}) = MaxRequests
    /\ budget + Reserved = Budget

\* "This is a deliberate atomicity boundary": the credential leaves only with a
\* reviewed request whose body is complete and within the cap.
OnlyWholeRequestsLeave ==
    \A c \in Clients : conn[c].pc \in {"sent", "buffer"} =>
        /\ conn[c].req.token = "header" \/ UrlAuth
        /\ conn[c].req.path = "route"
        /\ conn[c].body = conn[c].req.size /\ conn[c].body <= MaxBody

\* "A clean end would make a truncated SSE stream look like a complete response":
\* a response that ends cleanly has every byte of one that the upstream completed.
CleanEndIsComplete ==
    \A c \in Clients : got[c].end = "clean" =>
        upstream[c].state = "ended" /\ got[c].data = upstream[c].given

\* When shutdown returns, no connection is open and none is accepted any more.
StoppedIsStopped == server = "stopped" => \A c \in Clients : At(c, "closed")

\* What holds of a proxy whatever its clients and its upstreams do.
ProxySafe == TypeOK /\ NothingLeaks /\ OnlyWholeRequestsLeave /\ StoppedIsStopped

\* "An SDK that gives up must release the upstream socket now, not when the next
\* chunk (or the idle timeout) finally arrives."
GoneReleasesUpstream ==
    \A c \in Clients : conn[c].gone ~> (conn[c].pc \in {"closed", "idle"} /\ upstream[c].state # "open")

\* A shutdown ends, and takes every upstream exchange with it.
ShutdownEnds ==
    signal ~> (server = "stopped" /\ \A c \in Clients : upstream[c].state # "open")

\* "Aggregate budget in bytes for request and buffered-response bodies held by
\* all in-flight requests."
HeldWithinBudget ==
    MapThenSumSet(LAMBDA c : conn[c].body + conn[c].reply, Clients) <= Budget
=============================================================================
