--------------------------- MODULE ProxyServerProofs ---------------------------
(***************************************************************************)
(* Proofs about ProxyServer, for any number of clients, any limits and any *)
(* requests.                                                               *)
(*                                                                         *)
(* A connection, its streaming task, its upstream exchange and what its    *)
(* client has got belong together: Sound relates the four.  The request    *)
(* slots are counted over all connections, and the buffer budget by the    *)
(* units that the requests hold: pairs of a client and a number.           *)
(***************************************************************************)
EXTENDS ProxyServer, FiniteSetTheorems, FunctionTheorems, TLAPS

RequestType ==
    [token : {"header", "url", "none"},
     path : {"route", "health", "misplaced", "dots", "unknown", "forbidden"},
     usable : BOOLEAN, size : Nat]

\* The phases of handle_request.
Handling == {"admit", "body", "sent", "buffer"}

Conns ==
    [pc : {"closed", "idle", "reply", "stream"} \cup Handling, req : RequestType,
     body : Nat, held : Nat, slot : BOOLEAN, reply : Nat, drain : BOOLEAN, gone : BOOLEAN]

Tasks ==
    [pc : {"none", "pull", "send", "flush", "abort", "over"}, data : Nat, kept : Nat,
     last : {"open", "clean", "cut"}]

Upstreams == [state : {"none", "open", "ended", "failed", "closed"}, given : Nat, taken : Nat]

Answers == [data : Nat, end : {"open", "clean", "cut", "error"}]

\* The types, without the budget.
Types ==
    /\ server \in {"running", "draining", "stopped"}
    /\ signal \in BOOLEAN
    /\ conn \in [Clients -> Conns]
    /\ task \in [Clients -> Tasks]
    /\ upstream \in [Clients -> Upstreams]
    /\ got \in [Clients -> Answers]
    /\ permits \in Nat
    /\ served \in Nat

\* What handle_request has of its request, in each phase.
RequestSound(n) ==
    /\ n.pc \in {"idle", "admit"} => n.body = 0
    /\ n.pc \in Handling => Reviewed(n.req)
    /\ n.pc = "body" => n.body <= n.req.size /\ n.body <= MaxBody
    /\ n.pc \in {"sent", "buffer"} => n.body = n.req.size /\ n.body <= MaxBody
    /\ n.slot <=> n.pc \in Handling

\* The upstream exchange of a request begins when it is sent, and a buffered
\* response is what was taken of it.
ReplySound(n, u, g) ==
    /\ u.taken <= u.given
    /\ n.pc \in {"admit", "body"} => u.state = "none"
    /\ n.pc = "sent" => u.state = "open"
    /\ n.pc \in {"admit", "body", "sent"} => u.given = 0
    /\ n.pc \notin {"closed", "idle"} => g.end = "open"
    /\ n.pc \in Handling \cup {"reply"} => g.data = 0
    /\ n.pc \in {"closed", "idle", "admit", "body", "sent"} => n.reply = 0
    /\ n.pc = "buffer" => n.reply = u.taken
    /\ n.pc = "reply" => u.state = "ended" /\ n.reply = u.given

\* Every byte taken from the upstream is with the client, in the channel or held
\* back by the scrubber, until the body is cut; a task that ends cleanly has
\* taken all of a response that the upstream completed.
StreamSound(n, k, u, g) ==
    /\ n.pc \in {"idle", "reply"} \cup Handling => k.pc = "none"
    /\ n.pc = "stream" =>
        /\ k.pc # "none"
        /\ k.pc # "over" \/ k.last = "clean" => g.data + k.data + k.kept = u.taken
        /\ k.pc = "over" => k.kept = 0 /\ k.last \in {"clean", "cut"}
        /\ k.pc = "flush" \/ (k.pc = "over" /\ k.last = "clean") =>
             u.state = "ended" /\ u.taken = u.given

\* A clean end is the end of a complete response.
CleanSound(u, g) == g.end = "clean" => u.state = "ended" /\ g.data = u.given

Sound(n, k, u, g) ==
    RequestSound(n) /\ ReplySound(n, u, g) /\ StreamSound(n, k, u, g) /\ CleanSound(u, g)

SoundInv == \A c \in Clients : Sound(conn[c], task[c], upstream[c], got[c])

\* Every request slot is free or with a request that handle_request works on.
SlotsInv == permits + Cardinality({c \in Clients : conn[c].slot}) = MaxRequests

Inv == Types /\ SoundInv /\ SlotsInv /\ StoppedIsStopped

-----------------------------------------------------------------------------
(* The frame of a step.                                                    *)

LEMMA TypesOf ==
  ASSUME Inv, NEW c \in Clients
  PROVE  /\ conn[c] \in Conns /\ task[c] \in Tasks
         /\ upstream[c] \in Upstreams /\ got[c] \in Answers
         /\ Sound(conn[c], task[c], upstream[c], got[c])
BY DEF Inv, Types, SoundInv

\* The slots, when one connection takes one or gives one back.
LEMMA SlotsMove ==
  ASSUME ProxyAssumption, Inv, NEW c \in Clients, conn' \in [Clients -> Conns],
         \A d \in Clients : d # c => conn'[d] = conn[d],
         permits' = permits + (IF conn[c].slot THEN 1 ELSE 0) - (IF conn'[c].slot THEN 1 ELSE 0),
         conn'[c].slot => conn[c].slot \/ permits > 0
  PROVE  SlotsInv' /\ permits' \in Nat
<1> DEFINE S == {d \in Clients : conn[d].slot}
           T == {d \in Clients : conn'[d].slot}
<1>1. IsFiniteSet(S) /\ IsFiniteSet(T)
  BY FS_Subset DEF ProxyAssumption
<1>2. Cardinality(S) \in Nat /\ Cardinality(T) \in Nat /\ MaxRequests \in Nat /\ permits \in Nat
  BY <1>1, FS_CardinalityType DEF ProxyAssumption, Inv, Types
<1>3. permits + Cardinality(S) = MaxRequests
  BY DEF Inv, SlotsInv
<1>4. conn[c].slot \in BOOLEAN /\ conn'[c].slot \in BOOLEAN
  BY DEF Inv, Types, Conns
<1>5. CASE conn[c].slot <=> conn'[c].slot
  <2>0. \A d \in Clients : conn[d].slot <=> conn'[d].slot
    BY <1>5, Zenon
  <2>1. S = T
    BY <2>0
  <2>2. permits' = permits
    BY <1>2, <1>4, <1>5
  <2> QED
    BY <1>2, <1>3, <2>1, <2>2 DEF SlotsInv
<1>6. CASE conn[c].slot /\ ~conn'[c].slot
  <2>1. T = S \ {c} /\ c \in S
    BY <1>6
  <2>2. Cardinality(T) = Cardinality(S) - 1
    BY <1>1, <2>1, FS_RemoveElement
  <2>3. permits' = permits + 1
    BY <1>2, <1>6
  <2> QED
    BY <1>2, <1>3, <2>2, <2>3 DEF SlotsInv
<1>7. CASE ~conn[c].slot /\ conn'[c].slot
  <2>1. T = S \cup {c} /\ c \notin S
    BY <1>7
  <2>2. Cardinality(T) = Cardinality(S) + 1
    BY <1>1, <2>1, FS_AddElement
  <2>3. permits' = permits - 1
    BY <1>2, <1>7
  <2> QED
    BY <1>2, <1>3, <1>7, <2>2, <2>3 DEF SlotsInv
<1> QED
  BY <1>4, <1>5, <1>6, <1>7

\* A step that concerns one client.
LEMMA OneClient ==
  ASSUME ProxyAssumption, Inv, NEW c \in Clients,
         NEW n \in Conns, NEW k \in Tasks, NEW u \in Upstreams, NEW g \in Answers,
         \/ conn' = conn /\ n = conn[c]
         \/ conn' = [conn EXCEPT ![c] = n],
         \/ task' = task /\ k = task[c]
         \/ task' = [task EXCEPT ![c] = k],
         \/ upstream' = upstream /\ u = upstream[c]
         \/ upstream' = [upstream EXCEPT ![c] = u],
         \/ got' = got /\ g = got[c]
         \/ got' = [got EXCEPT ![c] = g],
         Sound(n, k, u, g),
         permits' = permits + (IF conn[c].slot THEN 1 ELSE 0) - (IF n.slot THEN 1 ELSE 0),
         n.slot => conn[c].slot \/ permits > 0,
         server' = server, signal' = signal, served' \in {served, served + 1},
         conn[c].pc # "closed" \/ n.pc = "closed" \/ server = "running"
  PROVE  Inv'
<1>1. Types
  BY DEF Inv
<1>2. /\ conn' \in [Clients -> Conns] /\ conn'[c] = n
      /\ \A d \in Clients : d # c => conn'[d] = conn[d]
  BY <1>1 DEF Types
<1>3. /\ task' \in [Clients -> Tasks] /\ task'[c] = k
      /\ \A d \in Clients : d # c => task'[d] = task[d]
  BY <1>1 DEF Types
<1>4. /\ upstream' \in [Clients -> Upstreams] /\ upstream'[c] = u
      /\ \A d \in Clients : d # c => upstream'[d] = upstream[d]
  BY <1>1 DEF Types
<1>5. /\ got' \in [Clients -> Answers] /\ got'[c] = g
      /\ \A d \in Clients : d # c => got'[d] = got[d]
  BY <1>1 DEF Types
<1>6. SlotsInv' /\ permits' \in Nat
  BY <1>2, SlotsMove
<1>7. Types'
  BY <1>1, <1>2, <1>3, <1>4, <1>5, <1>6 DEF Types
<1>8. SoundInv'
  <2>1. SUFFICES ASSUME NEW d \in Clients
                 PROVE  Sound(conn'[d], task'[d], upstream'[d], got'[d])
    BY DEF SoundInv
  <2>2. CASE d = c
    BY <1>2, <1>3, <1>4, <1>5, <2>2
  <2>3. CASE d # c
    <3>1. Sound(conn[d], task[d], upstream[d], got[d])
      BY TypesOf
    <3>2. conn'[d] = conn[d] /\ task'[d] = task[d] /\ upstream'[d] = upstream[d] /\ got'[d] = got[d]
      BY <1>2, <1>3, <1>4, <1>5, <2>3
    <3> QED
      BY <3>1, <3>2
  <2> QED
    BY <2>2, <2>3
<1>9. StoppedIsStopped'
  BY <1>2 DEF Inv, StoppedIsStopped, At
<1> QED
  BY <1>6, <1>7, <1>8, <1>9 DEF Inv

\* A step of one client that leaves the slots alone.
LEMMA KeepsSlot ==
  ASSUME ProxyAssumption, Inv, NEW c \in Clients,
         NEW n \in Conns, NEW k \in Tasks, NEW u \in Upstreams, NEW g \in Answers,
         \/ conn' = conn /\ n = conn[c]
         \/ conn' = [conn EXCEPT ![c] = n],
         \/ task' = task /\ k = task[c]
         \/ task' = [task EXCEPT ![c] = k],
         \/ upstream' = upstream /\ u = upstream[c]
         \/ upstream' = [upstream EXCEPT ![c] = u],
         \/ got' = got /\ g = got[c]
         \/ got' = [got EXCEPT ![c] = g],
         Sound(n, k, u, g),
         permits' = permits, n.slot <=> conn[c].slot,
         server' = server, signal' = signal, served' \in {served, served + 1},
         conn[c].pc # "closed" \/ n.pc = "closed" \/ server = "running"
  PROVE  Inv'
<1>1. permits \in Nat
  BY DEF Inv, Types
<1>2. /\ permits' = permits + (IF conn[c].slot THEN 1 ELSE 0) - (IF n.slot THEN 1 ELSE 0)
      /\ n.slot => conn[c].slot \/ permits > 0
  BY <1>1
<1> QED
  BY <1>2, OneClient

\* A step of one client that gives its slot back, if it has one.
LEMMA GivesSlot ==
  ASSUME ProxyAssumption, Inv, NEW c \in Clients,
         NEW n \in Conns, NEW k \in Tasks, NEW u \in Upstreams, NEW g \in Answers,
         \/ conn' = conn /\ n = conn[c]
         \/ conn' = [conn EXCEPT ![c] = n],
         \/ task' = task /\ k = task[c]
         \/ task' = [task EXCEPT ![c] = k],
         \/ upstream' = upstream /\ u = upstream[c]
         \/ upstream' = [upstream EXCEPT ![c] = u],
         \/ got' = got /\ g = got[c]
         \/ got' = [got EXCEPT ![c] = g],
         Sound(n, k, u, g), Released(c), ~n.slot,
         server' = server, signal' = signal, served' = served,
         conn[c].pc # "closed" \/ n.pc = "closed"
  PROVE  Inv'
<1>1. permits \in Nat
  BY DEF Inv, Types
<1>2. permits' = permits + (IF conn[c].slot THEN 1 ELSE 0) - (IF n.slot THEN 1 ELSE 0)
  BY <1>1 DEF Released
<1> QED
  BY <1>2, OneClient

\* A connection between requests, and a closed one.
LEMMA Fresh ==
  /\ Closed \in Conns
  /\ Closed.pc = "closed" /\ ~Closed.slot /\ Closed.body = 0 /\ Closed.reply = 0
  /\ Closed.gone = FALSE /\ Closed.drain = FALSE
  /\ NoTask \in Tasks /\ NoTask.pc = "none" /\ NoTask.data = 0 /\ NoTask.kept = 0
  /\ NoUpstream \in Upstreams /\ NoUpstream.state = "none"
  /\ NoUpstream.given = 0 /\ NoUpstream.taken = 0
  /\ NoAnswer \in Answers /\ NoAnswer.data = 0 /\ NoAnswer.end = "open"
<1>1. NoRequest \in RequestType
  BY DEF NoRequest, RequestType
<1>2. Closed \in Conns
  BY <1>1 DEF Closed, Conns
<1>3. Closed.pc = "closed" /\ ~Closed.slot /\ Closed.body = 0 /\ Closed.reply = 0
      /\ Closed.gone = FALSE /\ Closed.drain = FALSE
  BY DEF Closed
<1>4. NoTask \in Tasks /\ NoTask.pc = "none" /\ NoTask.data = 0 /\ NoTask.kept = 0
  BY DEF NoTask, Tasks
<1>5. /\ NoUpstream \in Upstreams /\ NoUpstream.state = "none"
      /\ NoUpstream.given = 0 /\ NoUpstream.taken = 0
      /\ NoAnswer \in Answers /\ NoAnswer.data = 0 /\ NoAnswer.end = "open"
  BY DEF NoUpstream, Upstreams, NoAnswer, Answers
<1> QED
  BY <1>2, <1>3, <1>4, <1>5

LEMMA FreshIdle ==
  ASSUME NEW b \in BOOLEAN
  PROVE  LET n == [Closed EXCEPT !.pc = "idle", !.gone = b] IN
           n \in Conns /\ n.pc = "idle" /\ ~n.slot /\ n.body = 0 /\ n.reply = 0
<1> DEFINE m == [Closed EXCEPT !.pc = "idle"]
           n == [m EXCEPT !.gone = b]
<1>1. m \in Conns /\ m.pc = "idle" /\ ~m.slot /\ m.body = 0 /\ m.reply = 0
  BY Fresh DEF Conns, Closed
<1> HIDE DEF m
<1>2. n \in Conns /\ n.pc = "idle" /\ ~n.slot /\ n.body = 0 /\ n.reply = 0
  BY <1>1 DEF Conns
<1> QED
  BY <1>2 DEF m

\* A connection without a request has no part in a response.
LEMMA QuietSound ==
  ASSUME ProxyAssumption, NEW n \in Conns, NEW k \in Tasks, NEW u \in Upstreams, NEW g \in Answers,
         \/ n.pc = "closed"
         \/ n.pc = "idle" /\ n.body = 0 /\ k.pc = "none",
         ~n.slot, n.reply = 0, u.taken <= u.given, CleanSound(u, g)
  PROVE  Sound(n, k, u, g)
BY DEF Sound, RequestSound, ReplySound, StreamSound, Handling

LEMMA AfterReplyFacts ==
  ASSUME Inv, NEW c \in Clients
  PROVE  /\ AfterReply(c) \in Conns /\ AfterReply(c).pc \in {"closed", "idle"}
         /\ ~AfterReply(c).slot /\ AfterReply(c).body = 0 /\ AfterReply(c).reply = 0
<1>1. conn[c].gone \in BOOLEAN
  BY TypesOf DEF Conns
<1> DEFINE n == [Closed EXCEPT !.pc = "idle", !.gone = conn[c].gone]
<1>2. n \in Conns /\ n.pc = "idle" /\ ~n.slot /\ n.body = 0 /\ n.reply = 0
  BY <1>1, FreshIdle
<1>3. AfterReply(c) = Closed \/ AfterReply(c) = n
  BY DEF AfterReply
<1> QED
  BY <1>2, <1>3, Fresh

\* The upstream exchange of a request that ends before its response.
LEMMA GivenUp ==
  ASSUME NEW u \in Upstreams
  PROVE  LET v == IF u.state = "open" THEN [u EXCEPT !.state = "closed"] ELSE u IN
         v \in Upstreams /\ v.given = u.given /\ v.taken = u.taken
         /\ (u.state # "open" => v = u)
BY DEF Upstreams

LEMMA RefuseInv ==
  ASSUME ProxyAssumption, Inv, NEW c \in Clients, conn[c].pc \in Handling, Refuse(c),
         UNCHANGED <<server, signal, task, served>>
  PROVE  Inv'
<1> DEFINE n == AfterReply(c)
           g == [data |-> 0, end |-> "error"]
           u == IF upstream[c].state = "open" THEN [upstream[c] EXCEPT !.state = "closed"]
                ELSE upstream[c]
<1>1. /\ conn[c] \in Conns /\ task[c] \in Tasks /\ upstream[c] \in Upstreams
      /\ Sound(conn[c], task[c], upstream[c], got[c])
  BY TypesOf
<1>2. /\ n \in Conns /\ n.pc \in {"closed", "idle"}
      /\ ~n.slot /\ n.body = 0 /\ n.reply = 0
  BY AfterReplyFacts
<1>3. g \in Answers /\ g.end = "error"
  BY DEF Answers
<1>4. u \in Upstreams /\ u.given = upstream[c].given /\ u.taken = upstream[c].taken
  BY <1>1, GivenUp
<1>5. /\ conn' = [conn EXCEPT ![c] = n] /\ got' = [got EXCEPT ![c] = g]
      /\ upstream' = [upstream EXCEPT ![c] = u] /\ Released(c)
  BY DEF Refuse
<1> HIDE DEF n, g, u
<1>6. task[c].pc = "none" /\ u.taken <= u.given
  BY <1>1, <1>4 DEF Sound, StreamSound, ReplySound
<1>7. Sound(n, task[c], u, g)
  BY <1>1, <1>2, <1>3, <1>4, <1>6, QuietSound DEF CleanSound
<1>8. conn[c].pc # "closed"
  BY DEF Handling
<1> QED
  BY <1>1, <1>2, <1>3, <1>4, <1>5, <1>7, <1>8, GivesSlot

-----------------------------------------------------------------------------
(* run_server.                                                             *)

LEMMA AcceptInv ==
  ASSUME ProxyAssumption, Inv, NEW c \in Clients, Accept(c)
  PROVE  Inv'
<1> DEFINE n == [Closed EXCEPT !.pc = "idle"]
<1>1. /\ task[c] \in Tasks /\ upstream[c] \in Upstreams
      /\ Sound(conn[c], task[c], upstream[c], got[c])
  BY TypesOf
<1>2. n \in Conns /\ n.pc = "idle" /\ ~n.slot /\ n.body = 0 /\ n.reply = 0
  BY Fresh DEF Closed, Conns
<1>3. /\ conn' = [conn EXCEPT ![c] = n] /\ got' = [got EXCEPT ![c] = NoAnswer]
      /\ conn[c].pc = "closed" /\ task[c].pc = "none" /\ server = "running"
      /\ UNCHANGED <<server, signal, task, upstream, permits, served>>
  BY DEF Accept, At
<1> HIDE DEF n
<1>4. ~conn[c].slot /\ upstream[c].taken <= upstream[c].given
  BY <1>1, <1>3 DEF Sound, RequestSound, ReplySound, Handling
<1>5. Sound(n, task[c], upstream[c], NoAnswer)
  BY <1>1, <1>2, <1>3, <1>4, Fresh, QuietSound DEF CleanSound
<1> QED
  BY <1>1, <1>2, <1>3, <1>4, <1>5, Fresh, KeepsSlot

\* Closing a connection, with whatever is at work on it.
LEMMA CloseInv ==
  ASSUME ProxyAssumption, Inv, NEW c \in Clients, CloseConn(c),
         UNCHANGED <<server, signal, task, got, served>>
  PROVE  Inv'
<1> DEFINE u == IF upstream[c].state = "open" /\ task[c].pc = "none"
                THEN [upstream[c] EXCEPT !.state = "closed"] ELSE upstream[c]
<1>1. /\ task[c] \in Tasks /\ upstream[c] \in Upstreams /\ got[c] \in Answers
      /\ Sound(conn[c], task[c], upstream[c], got[c])
  BY TypesOf
<1>2. /\ u \in Upstreams /\ u.given = upstream[c].given /\ u.taken = upstream[c].taken
      /\ upstream[c].state = "ended" => u.state = "ended"
  BY <1>1 DEF Upstreams
<1>3. /\ conn' = [conn EXCEPT ![c] = Closed]
      /\ upstream' = [upstream EXCEPT ![c] = u] /\ Released(c)
  BY DEF CloseConn
<1> HIDE DEF u
<1>4. Sound(Closed, task[c], u, got[c])
  <2>1. u.taken <= u.given /\ CleanSound(u, got[c])
    BY <1>1, <1>2 DEF Sound, ReplySound, CleanSound
  <2> QED
    BY <1>1, <1>2, <2>1, Fresh, QuietSound
<1> QED
  BY <1>1, <1>2, <1>3, <1>4, Fresh, GivesSlot

LEMMA SignalInv ==
  ASSUME ProxyAssumption, Inv, Shutdown \/ Break
  PROVE  Inv'
<1>1. /\ UNCHANGED <<conn, task, upstream, permits, got, served>>
      /\ server' \in {server, "draining"} /\ signal' \in {signal, TRUE}
  BY DEF Shutdown, Break
<1>2. Types'
  BY <1>1 DEF Inv, Types
<1>3. SoundInv' /\ SlotsInv' /\ StoppedIsStopped'
  BY <1>1 DEF Inv, SoundInv, SlotsInv, StoppedIsStopped, At
<1> QED
  BY <1>2, <1>3 DEF Inv

LEMMA DrainInv ==
  ASSUME ProxyAssumption, Inv, NEW c \in Clients, Drain(c)
  PROVE  Inv'
<1> DEFINE n == [conn[c] EXCEPT !.drain = TRUE]
<1>1. /\ conn[c] \in Conns /\ task[c] \in Tasks /\ upstream[c] \in Upstreams /\ got[c] \in Answers
      /\ Sound(conn[c], task[c], upstream[c], got[c])
  BY TypesOf
<1>2. /\ UNCHANGED <<server, signal, task, upstream, permits, got, served>>
      /\ conn[c].pc # "closed"
      /\ \/ conn[c].pc = "idle" /\ conn' = [conn EXCEPT ![c] = Closed]
         \/ conn' = [conn EXCEPT ![c] = n]
  BY DEF Drain, Open, At
<1>3. CASE conn[c].pc = "idle" /\ conn' = [conn EXCEPT ![c] = Closed]
  <2>1. ~conn[c].slot /\ upstream[c].taken <= upstream[c].given /\ CleanSound(upstream[c], got[c])
    BY <1>1, <1>3 DEF Sound, RequestSound, ReplySound, Handling
  <2>2. Sound(Closed, task[c], upstream[c], got[c])
    BY <1>1, <2>1, Fresh, QuietSound
  <2> QED
    BY <1>1, <1>2, <1>3, <2>1, <2>2, Fresh, KeepsSlot
<1>4. CASE conn' = [conn EXCEPT ![c] = n]
  <2>1. /\ n \in Conns /\ n.pc = conn[c].pc /\ n.req = conn[c].req /\ n.body = conn[c].body
        /\ n.slot = conn[c].slot /\ n.reply = conn[c].reply
    BY <1>1 DEF Conns
  <2> HIDE DEF n
  <2>2. Sound(n, task[c], upstream[c], got[c])
    BY <1>1, <2>1 DEF Sound, RequestSound, ReplySound, StreamSound
  <2> QED
    BY <1>1, <1>2, <1>4, <2>1, <2>2, KeepsSlot
<1> QED
  BY <1>2, <1>3, <1>4

\* shutdown returns: every connection is dropped, and its slot with it.
LEMMA StopInv ==
  ASSUME ProxyAssumption, Inv, Stop
  PROVE  Inv'
<1> DEFINE U(c) == IF upstream[c].state = "open" /\ task[c].pc = "none"
                   THEN [upstream[c] EXCEPT !.state = "closed"] ELSE upstream[c]
           S == {c \in Clients : conn[c].slot}
<1>1. /\ server' = "stopped" /\ conn' = [c \in Clients |-> Closed]
      /\ upstream' = [c \in Clients |-> U(c)]
      /\ permits' = permits + Cardinality(S)
      /\ UNCHANGED <<signal, task, got, served>>
  BY DEF Stop
<1>2. ASSUME NEW c \in Clients
      PROVE  /\ U(c) \in Upstreams /\ Sound(Closed, task[c], U(c), got[c])
  <2>1. /\ task[c] \in Tasks /\ upstream[c] \in Upstreams /\ got[c] \in Answers
        /\ Sound(conn[c], task[c], upstream[c], got[c])
    BY TypesOf
  <2>2. /\ U(c) \in Upstreams /\ U(c).given = upstream[c].given /\ U(c).taken = upstream[c].taken
        /\ upstream[c].state = "ended" => U(c).state = "ended"
    BY <2>1 DEF Upstreams
  <2> HIDE DEF U
  <2>3. U(c).taken <= U(c).given /\ CleanSound(U(c), got[c])
    BY <2>1, <2>2 DEF Sound, ReplySound, CleanSound
  <2> QED
    BY <2>1, <2>2, <2>3, Fresh, QuietSound
<1>3. IsFiniteSet(S) /\ Cardinality(S) \in Nat
  BY FS_Subset, FS_CardinalityType DEF ProxyAssumption
<1>4. permits \in Nat /\ permits + Cardinality(S) = MaxRequests
  BY DEF Inv, Types, SlotsInv
<1> HIDE DEF U, S
<1>5. Types'
  <2>1. conn' \in [Clients -> Conns]
    BY <1>1, Fresh
  <2>2. upstream' \in [Clients -> Upstreams]
    BY <1>1, <1>2
  <2>3. permits' \in Nat /\ server' \in {"running", "draining", "stopped"}
    BY <1>1, <1>3, <1>4
  <2> QED
    BY <1>1, <2>1, <2>2, <2>3 DEF Inv, Types
<1>6. SoundInv'
  BY <1>1, <1>2 DEF SoundInv
<1>7. {c \in Clients : conn'[c].slot} = {}
  BY <1>1, Fresh
<1>8. SlotsInv'
  <2>1. permits' = MaxRequests /\ MaxRequests \in Nat
    BY <1>1, <1>4 DEF ProxyAssumption
  <2>2. Cardinality({c \in Clients : conn'[c].slot}) = 0
    BY <1>7, FS_EmptySet
  <2> QED
    BY <2>1, <2>2 DEF SlotsInv
<1>9. StoppedIsStopped'
  BY <1>1, Fresh DEF StoppedIsStopped, At
<1> QED
  BY <1>5, <1>6, <1>8, <1>9 DEF Inv

-----------------------------------------------------------------------------
(* handle_request.                                                         *)

LEMMA ReceiveInv ==
  ASSUME ProxyAssumption, Inv, NEW c \in Clients, NEW q \in Requests, Receive(c, q)
  PROVE  Inv'
<1>1. /\ conn[c] \in Conns /\ task[c] \in Tasks /\ upstream[c] \in Upstreams
      /\ Sound(conn[c], task[c], upstream[c], got[c])
  BY TypesOf
<1>2. /\ conn[c].pc = "idle" /\ served' = served + 1
      /\ upstream' = [upstream EXCEPT ![c] = NoUpstream]
      /\ UNCHANGED <<server, signal, task>>
  BY DEF Receive, At
<1>3. conn[c].body = 0 /\ ~conn[c].slot /\ conn[c].reply = 0 /\ task[c].pc = "none"
  BY <1>1, <1>2 DEF Sound, RequestSound, ReplySound, StreamSound, Handling
<1>4. CASE Reviewed(q) /\ permits > 0
  <2> DEFINE n == [conn[c] EXCEPT !.pc = "admit", !.req = q, !.slot = TRUE]
  <2>1. q \in RequestType
    BY DEF ProxyAssumption, RequestType
  <2>2. /\ n \in Conns /\ n.pc = "admit" /\ n.req = q /\ n.slot /\ n.body = 0 /\ n.reply = 0
    BY <1>1, <1>3, <2>1 DEF Conns, Handling
  <2>3. /\ conn' = [conn EXCEPT ![c] = n] /\ got' = [got EXCEPT ![c] = NoAnswer]
        /\ permits' = permits - 1
    BY <1>4 DEF Receive
  <2> HIDE DEF n
  <2>4. Sound(n, task[c], NoUpstream, NoAnswer)
    BY <1>3, <1>4, <2>2, Fresh DEF Sound, RequestSound, ReplySound, StreamSound, CleanSound, Handling
  <2>5. permits' = permits + (IF conn[c].slot THEN 1 ELSE 0) - (IF n.slot THEN 1 ELSE 0)
    <3>1. permits \in Nat
      BY DEF Inv, Types
    <3> QED
      BY <1>3, <2>2, <2>3, <3>1
  <2> QED
    BY <1>1, <1>2, <1>4, <2>2, <2>3, <2>4, <2>5, Fresh, OneClient
<1>5. CASE ~(Reviewed(q) /\ permits > 0)
  <2> DEFINE g == [data |-> 0, end |-> "error"]
  <2>1. UNCHANGED <<conn, permits>> /\ got' = [got EXCEPT ![c] = g]
    BY <1>5 DEF Receive
  <2>2. g \in Answers /\ g.end = "error"
    BY DEF Answers
  <2> HIDE DEF g
  <2>3. Sound(conn[c], task[c], NoUpstream, g)
    BY <1>1, <1>2, <1>3, <2>2, Fresh, QuietSound DEF CleanSound
  <2> QED
    BY <1>1, <1>2, <2>1, <2>2, <2>3, Fresh, KeepsSlot
<1> QED
  BY <1>4, <1>5

LEMMA AdmitInv ==
  ASSUME ProxyAssumption, Inv, NEW c \in Clients, Admit(c)
  PROVE  Inv'
<1>1. /\ conn[c] \in Conns /\ task[c] \in Tasks /\ upstream[c] \in Upstreams /\ got[c] \in Answers
      /\ Sound(conn[c], task[c], upstream[c], got[c])
  BY TypesOf
<1>2. conn[c].pc = "admit" /\ UNCHANGED <<server, signal, task, served>>
  BY DEF Admit, At
<1>3. CASE conn[c].req.usable
  <2> DEFINE n == [conn[c] EXCEPT !.pc = "body"]
  <2>1. /\ n \in Conns /\ n.pc = "body" /\ n.req = conn[c].req /\ n.body = conn[c].body
        /\ n.slot = conn[c].slot /\ n.reply = conn[c].reply /\ n.req.size \in Nat
    BY <1>1 DEF Conns, Handling, RequestType
  <2>2. conn' = [conn EXCEPT ![c] = n] /\ UNCHANGED <<got, upstream, permits>>
    BY <1>3 DEF Admit
  <2> HIDE DEF n
  <2>3. MaxBody \in Nat
    BY DEF ProxyAssumption
  <2>4. Sound(n, task[c], upstream[c], got[c])
    BY <1>1, <1>2, <2>1, <2>3 DEF Sound, RequestSound, ReplySound, StreamSound, Handling
  <2> QED
    BY <1>1, <1>2, <2>1, <2>2, <2>4, KeepsSlot
<1>4. CASE ~conn[c].req.usable
  BY <1>2, <1>4, RefuseInv DEF Admit, Handling
<1> QED
  BY <1>3, <1>4

LEMMA CollectInv ==
  ASSUME ProxyAssumption, Inv, NEW c \in Clients, Collect(c)
  PROVE  Inv'
<1>1. /\ conn[c] \in Conns /\ task[c] \in Tasks /\ upstream[c] \in Upstreams /\ got[c] \in Answers
      /\ Sound(conn[c], task[c], upstream[c], got[c])
  BY TypesOf
<1>2. /\ conn[c].pc = "body" /\ UNCHANGED <<server, signal, task, served>>
      /\ conn[c].body < conn[c].req.size
  BY DEF Collect, At
<1>3. CASE conn[c].body + 1 > MaxBody \/ budget = 0
  BY <1>2, <1>3, RefuseInv DEF Collect, Handling
<1>4. CASE ~(conn[c].body + 1 > MaxBody \/ budget = 0)
  <2> DEFINE m == [conn[c] EXCEPT !.body = @ + 1]
             n == [conn[c] EXCEPT !.body = @ + 1, !.held = @ + 1]
  <2>0. /\ m \in Conns /\ m.pc = "body" /\ m.req = conn[c].req /\ m.body = conn[c].body + 1
        /\ m.slot = conn[c].slot /\ m.reply = conn[c].reply
        /\ conn[c].req.size \in Nat /\ conn[c].body \in Nat
    BY <1>1, <1>2 DEF Conns, RequestType
  <2>1. /\ n \in Conns /\ n.pc = "body" /\ n.req = conn[c].req /\ n.body = conn[c].body + 1
        /\ n.slot = conn[c].slot /\ n.reply = conn[c].reply
        /\ n.req.size \in Nat /\ conn[c].body \in Nat
    <3> DEFINE h == [m EXCEPT !.held = @ + 1]
    <3> HIDE DEF m
    <3>1. /\ h \in Conns /\ h.pc = "body" /\ h.req = conn[c].req /\ h.body = conn[c].body + 1
          /\ h.slot = conn[c].slot /\ h.reply = conn[c].reply
      BY <2>0 DEF Conns
    <3> QED
      BY <2>0, <3>1 DEF m
  <2>2. conn' = [conn EXCEPT ![c] = n] /\ UNCHANGED <<got, upstream, permits>>
    BY <1>4 DEF Collect
  <2> HIDE DEF n
  <2>3. MaxBody \in Nat
    BY DEF ProxyAssumption
  <2>4. Sound(n, task[c], upstream[c], got[c])
    BY <1>1, <1>2, <1>4, <2>1, <2>3 DEF Sound, RequestSound, ReplySound, StreamSound, Handling
  <2> QED
    BY <1>1, <1>2, <2>1, <2>2, <2>4, KeepsSlot
<1> QED
  BY <1>3, <1>4

LEMMA FailsInv ==
  ASSUME ProxyAssumption, Inv, NEW c \in Clients, BodyFails(c) \/ SendFails(c)
  PROVE  Inv'
<1>1. conn[c].pc \in Handling /\ Refuse(c) /\ UNCHANGED <<server, signal, task, served>>
  BY DEF BodyFails, SendFails, At, Handling
<1> QED
  BY <1>1, RefuseInv

LEMMA SendInv ==
  ASSUME ProxyAssumption, Inv, NEW c \in Clients, Send(c)
  PROVE  Inv'
<1> DEFINE n == [conn[c] EXCEPT !.pc = "sent"]
           u == [upstream[c] EXCEPT !.state = "open"]
<1>1. /\ conn[c] \in Conns /\ task[c] \in Tasks /\ upstream[c] \in Upstreams /\ got[c] \in Answers
      /\ Sound(conn[c], task[c], upstream[c], got[c])
  BY TypesOf
<1>2. /\ conn[c].pc = "body" /\ conn[c].body = conn[c].req.size
      /\ conn' = [conn EXCEPT ![c] = n] /\ upstream' = [upstream EXCEPT ![c] = u]
      /\ UNCHANGED <<server, signal, task, permits, got, served>>
  BY DEF Send, At
<1>3. /\ n \in Conns /\ n.pc = "sent" /\ n.req = conn[c].req /\ n.body = conn[c].body
      /\ n.slot = conn[c].slot /\ n.reply = conn[c].reply
  BY <1>1 DEF Conns, Handling
<1>4. /\ u \in Upstreams /\ u.state = "open" /\ u.given = upstream[c].given
      /\ u.taken = upstream[c].taken
  BY <1>1 DEF Upstreams
<1> HIDE DEF n, u
<1>5. Sound(n, task[c], u, got[c])
  BY <1>1, <1>2, <1>3, <1>4 DEF Sound, RequestSound, ReplySound, StreamSound, CleanSound, Handling
<1> QED
  BY <1>1, <1>2, <1>3, <1>4, <1>5, KeepsSlot

LEMMA BufferInv ==
  ASSUME ProxyAssumption, Inv, NEW c \in Clients, Buffer(c)
  PROVE  Inv'
<1> DEFINE n == [conn[c] EXCEPT !.pc = "buffer"]
<1>1. /\ conn[c] \in Conns /\ task[c] \in Tasks /\ upstream[c] \in Upstreams /\ got[c] \in Answers
      /\ Sound(conn[c], task[c], upstream[c], got[c])
  BY TypesOf
<1>2. /\ conn[c].pc = "sent" /\ conn' = [conn EXCEPT ![c] = n]
      /\ UNCHANGED <<server, signal, task, upstream, permits, got, served>>
  BY DEF Buffer, At
<1>3. /\ n \in Conns /\ n.pc = "buffer" /\ n.req = conn[c].req /\ n.body = conn[c].body
      /\ n.slot = conn[c].slot /\ n.reply = conn[c].reply
  BY <1>1 DEF Conns, Handling
<1>4. upstream[c].taken \in Nat
  BY <1>1 DEF Upstreams
<1> HIDE DEF n
<1>5. Sound(n, task[c], upstream[c], got[c])
  BY <1>1, <1>2, <1>3, <1>4 DEF Sound, RequestSound, ReplySound, StreamSound, Handling
<1> QED
  BY <1>1, <1>2, <1>3, <1>5, KeepsSlot

LEMMA StreamInv ==
  ASSUME ProxyAssumption, Inv, NEW c \in Clients, Stream(c)
  PROVE  Inv'
<1> DEFINE n == [conn[c] EXCEPT !.pc = "stream", !.slot = FALSE, !.held = 0, !.body = 0]
           k == [NoTask EXCEPT !.pc = "pull"]
<1>1. /\ conn[c] \in Conns /\ upstream[c] \in Upstreams /\ got[c] \in Answers
      /\ Sound(conn[c], task[c], upstream[c], got[c])
  BY TypesOf
<1>2. /\ conn[c].pc = "sent" /\ conn' = [conn EXCEPT ![c] = n] /\ task' = [task EXCEPT ![c] = k]
      /\ Released(c) /\ UNCHANGED <<server, signal, upstream, got, served>>
  BY DEF Stream, At
<1>3. n \in Conns /\ n.pc = "stream" /\ ~n.slot /\ n.reply = conn[c].reply
  BY <1>1 DEF Conns, Handling
<1>4. k \in Tasks /\ k.pc = "pull" /\ k.data = 0 /\ k.kept = 0
  BY DEF NoTask, Tasks
<1>5. upstream[c].taken \in Nat
  BY <1>1 DEF Upstreams
<1> HIDE DEF n, k
<1>6. Sound(n, k, upstream[c], got[c])
  BY <1>1, <1>2, <1>3, <1>4, <1>5
     DEF Sound, RequestSound, ReplySound, StreamSound, CleanSound, Handling
<1> QED
  BY <1>1, <1>2, <1>3, <1>4, <1>6, GivesSlot

-----------------------------------------------------------------------------
(* The upstream and the buffered response.                                 *)

LEMMA UpstreamInv ==
  ASSUME ProxyAssumption, Inv, NEW c \in Clients, UpstreamChunk(c) \/ UpstreamEnds(c)
  PROVE  Inv'
<1>1. /\ conn[c] \in Conns /\ task[c] \in Tasks /\ upstream[c] \in Upstreams /\ got[c] \in Answers
      /\ Sound(conn[c], task[c], upstream[c], got[c])
  BY TypesOf
<1>2. /\ upstream[c].state = "open" /\ conn[c].pc # "sent"
      /\ UNCHANGED <<server, signal, conn, task, permits, got, served>>
  BY DEF UpstreamChunk, UpstreamEnds
<1>3. PICK u \in Upstreams :
        /\ upstream' = [upstream EXCEPT ![c] = u]
        /\ u.taken = upstream[c].taken /\ u.given \in {upstream[c].given, upstream[c].given + 1}
  <2>1. CASE UpstreamChunk(c)
    <3> DEFINE v == [upstream[c] EXCEPT !.given = @ + 1]
    <3>1. v \in Upstreams /\ v.taken = upstream[c].taken /\ v.given = upstream[c].given + 1
      BY <1>1 DEF Upstreams
    <3>2. upstream' = [upstream EXCEPT ![c] = v]
      BY <2>1 DEF UpstreamChunk
    <3> HIDE DEF v
    <3> QED
      BY <3>1, <3>2
  <2>2. CASE UpstreamEnds(c)
    <3>1. PICK s \in {"ended", "failed"} : upstream' = [upstream EXCEPT ![c].state = s]
      BY <2>2 DEF UpstreamEnds
    <3> DEFINE v == [upstream[c] EXCEPT !.state = s]
    <3>2. v \in Upstreams /\ v.taken = upstream[c].taken /\ v.given = upstream[c].given
      BY <1>1 DEF Upstreams
    <3>3. upstream' = [upstream EXCEPT ![c] = v]
      BY <3>1
    <3> HIDE DEF v
    <3> QED
      BY <3>2, <3>3
  <2> QED
    BY <2>1, <2>2
<1>4. upstream[c].taken \in Nat /\ upstream[c].given \in Nat
  BY <1>1 DEF Upstreams
<1>5. Sound(conn[c], task[c], u, got[c])
  BY <1>1, <1>2, <1>3, <1>4 DEF Sound, RequestSound, ReplySound, StreamSound, CleanSound
<1> QED
  BY <1>1, <1>2, <1>3, <1>5, KeepsSlot

LEMMA BufferChunkInv ==
  ASSUME ProxyAssumption, Inv, NEW c \in Clients, BufferChunk(c)
  PROVE  Inv'
<1>1. /\ conn[c] \in Conns /\ task[c] \in Tasks /\ upstream[c] \in Upstreams /\ got[c] \in Answers
      /\ Sound(conn[c], task[c], upstream[c], got[c])
  BY TypesOf
<1>2. /\ conn[c].pc = "buffer" /\ UNCHANGED <<server, signal, task, served>>
      /\ upstream[c].given > upstream[c].taken
  BY DEF BufferChunk, At, Unread
<1>3. CASE conn[c].reply + 1 > MaxBody \/ budget = 0
  BY <1>2, <1>3, RefuseInv DEF BufferChunk, Handling
<1>4. CASE ~(conn[c].reply + 1 > MaxBody \/ budget = 0)
  <2> DEFINE m == [conn[c] EXCEPT !.reply = @ + 1]
             n == [conn[c] EXCEPT !.reply = @ + 1, !.held = @ + 1]
             u == [upstream[c] EXCEPT !.taken = @ + 1]
  <2>0. /\ m \in Conns /\ m.pc = "buffer" /\ m.req = conn[c].req /\ m.body = conn[c].body
        /\ m.slot = conn[c].slot /\ m.reply = conn[c].reply + 1
    BY <1>1, <1>2 DEF Conns
  <2>1. /\ n \in Conns /\ n.pc = "buffer" /\ n.req = conn[c].req /\ n.body = conn[c].body
        /\ n.slot = conn[c].slot /\ n.reply = conn[c].reply + 1
    <3> DEFINE h == [m EXCEPT !.held = @ + 1]
    <3> HIDE DEF m
    <3>1. /\ h \in Conns /\ h.pc = "buffer" /\ h.req = conn[c].req /\ h.body = conn[c].body
          /\ h.slot = conn[c].slot /\ h.reply = conn[c].reply + 1
      BY <2>0 DEF Conns
    <3> QED
      BY <2>0, <3>1 DEF m
  <2>2. /\ u \in Upstreams /\ u.state = upstream[c].state /\ u.given = upstream[c].given
        /\ u.taken = upstream[c].taken + 1 /\ upstream[c].taken \in Nat /\ upstream[c].given \in Nat
    BY <1>1 DEF Upstreams
  <2>3. conn' = [conn EXCEPT ![c] = n] /\ upstream' = [upstream EXCEPT ![c] = u]
        /\ UNCHANGED <<got, permits>>
    BY <1>4 DEF BufferChunk
  <2> HIDE DEF n, u
  <2>4. Sound(n, task[c], u, got[c])
    BY <1>1, <1>2, <2>1, <2>2
       DEF Sound, RequestSound, ReplySound, StreamSound, CleanSound, Handling
  <2> QED
    BY <1>1, <1>2, <2>1, <2>2, <2>3, <2>4, KeepsSlot
<1> QED
  BY <1>3, <1>4

LEMMA BufferEndsInv ==
  ASSUME ProxyAssumption, Inv, NEW c \in Clients, BufferEnds(c)
  PROVE  Inv'
<1>1. /\ conn[c] \in Conns /\ task[c] \in Tasks /\ upstream[c] \in Upstreams /\ got[c] \in Answers
      /\ Sound(conn[c], task[c], upstream[c], got[c])
  BY TypesOf
<1>2. /\ conn[c].pc = "buffer" /\ UNCHANGED <<server, signal, task, served>>
      /\ ~(upstream[c].given > upstream[c].taken)
  BY DEF BufferEnds, At, Unread
<1>3. CASE Refuse(c)
  BY <1>2, <1>3, RefuseInv DEF Handling
<1>4. CASE /\ upstream[c].state = "ended"
           /\ conn' = [conn EXCEPT ![c].pc = "reply", ![c].slot = FALSE, ![c].held = 0,
                                   ![c].body = 0]
           /\ Released(c)
           /\ UNCHANGED <<upstream, got>>
  <2> DEFINE n == [conn[c] EXCEPT !.pc = "reply", !.slot = FALSE, !.held = 0, !.body = 0]
  <2>1. n \in Conns /\ n.pc = "reply" /\ ~n.slot /\ n.reply = conn[c].reply
    BY <1>1 DEF Conns, Handling
  <2>2. conn' = [conn EXCEPT ![c] = n]
    BY <1>4
  <2>3. upstream[c].taken \in Nat /\ upstream[c].given \in Nat
    BY <1>1 DEF Upstreams
  <2> HIDE DEF n
  <2>4. Sound(n, task[c], upstream[c], got[c])
    BY <1>1, <1>2, <1>4, <2>1, <2>3
       DEF Sound, RequestSound, ReplySound, StreamSound, CleanSound, Handling
  <2> QED
    BY <1>1, <1>2, <1>4, <2>1, <2>2, <2>4, GivesSlot
<1> QED
  BY <1>3, <1>4 DEF BufferEnds

LEMMA ReplyInv ==
  ASSUME ProxyAssumption, Inv, NEW c \in Clients, Reply(c)
  PROVE  Inv'
<1> DEFINE n == AfterReply(c)
           g == [data |-> conn[c].reply, end |-> "clean"]
<1>1. /\ conn[c] \in Conns /\ task[c] \in Tasks /\ upstream[c] \in Upstreams
      /\ Sound(conn[c], task[c], upstream[c], got[c])
  BY TypesOf
<1>2. /\ n \in Conns /\ n.pc \in {"closed", "idle"}
      /\ ~n.slot /\ n.body = 0 /\ n.reply = 0
  BY AfterReplyFacts
<1>3. g \in Answers /\ g.end = "clean" /\ g.data = conn[c].reply
  BY <1>1 DEF Answers, Conns
<1>4. /\ conn[c].pc = "reply" /\ conn' = [conn EXCEPT ![c] = n] /\ got' = [got EXCEPT ![c] = g]
      /\ UNCHANGED <<server, signal, task, upstream, permits, served>>
  BY DEF Reply, At
<1> HIDE DEF n, g
<1>5. /\ ~conn[c].slot /\ task[c].pc = "none" /\ upstream[c].taken <= upstream[c].given
      /\ CleanSound(upstream[c], g)
  BY <1>1, <1>3, <1>4 DEF Sound, RequestSound, ReplySound, StreamSound, CleanSound, Handling
<1>6. Sound(n, task[c], upstream[c], g)
  BY <1>1, <1>2, <1>3, <1>5, QuietSound
<1> QED
  BY <1>1, <1>2, <1>3, <1>4, <1>5, <1>6, KeepsSlot

-----------------------------------------------------------------------------
(* The streaming task.                                                     *)

\* A task whose connection no longer streams belongs to a closed one.
LEMMA LeftAlone ==
  ASSUME ProxyAssumption, Inv, NEW c \in Clients, task[c].pc # "none", ~Receiver(c)
  PROVE  conn[c].pc = "closed" /\ ~conn[c].slot /\ conn[c].reply = 0
<1>1. conn[c] \in Conns /\ Sound(conn[c], task[c], upstream[c], got[c])
  BY TypesOf
<1>2. conn[c].pc = "closed"
  BY <1>1 DEF Conns, Sound, StreamSound, Receiver, At
<1> QED
  BY <1>1, <1>2 DEF Sound, RequestSound, ReplySound, Handling

LEMMA TaskClientGoneInv ==
  ASSUME ProxyAssumption, Inv, NEW c \in Clients, TaskClientGone(c)
  PROVE  Inv'
<1> DEFINE u == [upstream[c] EXCEPT !.state = IF @ = "open" THEN "closed" ELSE @]
<1>1. /\ conn[c] \in Conns /\ upstream[c] \in Upstreams /\ got[c] \in Answers
      /\ Sound(conn[c], task[c], upstream[c], got[c])
  BY TypesOf
<1>2. /\ task[c].pc # "none" /\ ~Receiver(c)
      /\ task' = [task EXCEPT ![c] = NoTask] /\ upstream' = [upstream EXCEPT ![c] = u]
      /\ UNCHANGED <<server, signal, conn, permits, got, served>>
  BY DEF TaskClientGone
<1>3. /\ u \in Upstreams /\ u.given = upstream[c].given /\ u.taken = upstream[c].taken
      /\ upstream[c].state = "ended" => u.state = "ended"
  BY <1>1 DEF Upstreams
<1> HIDE DEF u
<1>4. conn[c].pc = "closed" /\ ~conn[c].slot /\ conn[c].reply = 0
  BY <1>2, LeftAlone
<1>5. u.taken <= u.given /\ CleanSound(u, got[c])
  BY <1>1, <1>3 DEF Sound, ReplySound, CleanSound
<1>6. Sound(conn[c], NoTask, u, got[c])
  BY <1>1, <1>3, <1>4, <1>5, Fresh, QuietSound
<1> QED
  BY <1>1, <1>2, <1>3, <1>6, <1>4, Fresh, KeepsSlot

LEMMA TaskForgottenInv ==
  ASSUME ProxyAssumption, Inv, NEW c \in Clients, TaskForgotten(c)
  PROVE  Inv'
<1>1. /\ conn[c] \in Conns /\ upstream[c] \in Upstreams /\ got[c] \in Answers
      /\ Sound(conn[c], task[c], upstream[c], got[c])
  BY TypesOf
<1>2. /\ task[c].pc # "none" /\ ~Receiver(c)
      /\ task' = [task EXCEPT ![c] = NoTask]
      /\ UNCHANGED <<server, signal, conn, upstream, permits, got, served>>
  BY DEF TaskForgotten
<1>3. conn[c].pc = "closed" /\ ~conn[c].slot /\ conn[c].reply = 0
  BY <1>2, LeftAlone
<1>4. upstream[c].taken <= upstream[c].given /\ CleanSound(upstream[c], got[c])
  BY <1>1 DEF Sound, ReplySound
<1>5. Sound(conn[c], NoTask, upstream[c], got[c])
  BY <1>1, <1>3, <1>4, Fresh, QuietSound
<1> QED
  BY <1>1, <1>2, <1>3, <1>5, Fresh, KeepsSlot

\* A task that streams: the connection's part of the invariant is about the task.
LEMMA Streaming ==
  ASSUME NEW n \in Conns, NEW k \in Tasks, NEW u \in Upstreams, NEW g \in Answers,
         Sound(n, k, u, g), n.pc = "stream",
         NEW j \in Tasks, NEW v \in Upstreams,
         v.state = u.state, v.given = u.given, v.taken <= v.given,
         /\ j.pc # "none"
         /\ j.pc # "over" \/ j.last = "clean" => g.data + j.data + j.kept = v.taken
         /\ j.pc = "over" => j.kept = 0 /\ j.last \in {"clean", "cut"}
         /\ j.pc = "flush" \/ (j.pc = "over" /\ j.last = "clean") =>
              v.state = "ended" /\ v.taken = v.given
  PROVE  Sound(n, j, v, g)
BY DEF Sound, RequestSound, ReplySound, StreamSound, CleanSound, Handling

\* The numbers of a stream.
LEMMA StreamFacts ==
  ASSUME Inv, NEW c \in Clients, Receiver(c)
  PROVE  /\ conn[c] \in Conns /\ task[c] \in Tasks /\ upstream[c] \in Upstreams
         /\ got[c] \in Answers /\ Sound(conn[c], task[c], upstream[c], got[c])
         /\ conn[c].pc = "stream" /\ ~conn[c].slot /\ conn[c].pc # "closed"
         /\ task[c].data \in Nat /\ task[c].kept \in Nat /\ got[c].data \in Nat
         /\ upstream[c].taken \in Nat /\ upstream[c].given \in Nat
         /\ upstream[c].taken <= upstream[c].given
         /\ task[c].pc # "over" \/ task[c].last = "clean" =>
              got[c].data + task[c].data + task[c].kept = upstream[c].taken
         /\ task[c].pc = "over" => task[c].kept = 0 /\ task[c].last \in {"clean", "cut"}
         /\ task[c].pc = "flush" \/ (task[c].pc = "over" /\ task[c].last = "clean") =>
              upstream[c].state = "ended" /\ upstream[c].taken = upstream[c].given
<1>1. /\ conn[c] \in Conns /\ task[c] \in Tasks /\ upstream[c] \in Upstreams
      /\ got[c] \in Answers /\ Sound(conn[c], task[c], upstream[c], got[c])
  BY TypesOf
<1>2. conn[c].pc = "stream"
  BY DEF Receiver, At
<1>3. /\ task[c].data \in Nat /\ task[c].kept \in Nat /\ got[c].data \in Nat
      /\ upstream[c].taken \in Nat /\ upstream[c].given \in Nat
  BY <1>1 DEF Tasks, Upstreams, Answers
<1> QED
  BY <1>1, <1>2, <1>3 DEF Sound, RequestSound, ReplySound, StreamSound, Handling

LEMMA TaskChunkInv ==
  ASSUME ProxyAssumption, Inv, NEW c \in Clients, TaskChunk(c)
  PROVE  Inv'
<1> DEFINE u == [upstream[c] EXCEPT !.taken = @ + 1]
           m == [task[c] EXCEPT !.kept = @ + 1]
           k == [task[c] EXCEPT !.kept = @ + 1, !.pc = "send"]
<1>1. /\ conn[c] \in Conns /\ task[c] \in Tasks /\ upstream[c] \in Upstreams
      /\ got[c] \in Answers /\ Sound(conn[c], task[c], upstream[c], got[c])
      /\ conn[c].pc = "stream" /\ ~conn[c].slot
      /\ task[c].data \in Nat /\ task[c].kept \in Nat /\ got[c].data \in Nat
      /\ upstream[c].taken \in Nat /\ upstream[c].given \in Nat
      /\ task[c].pc = "pull" /\ upstream[c].given > upstream[c].taken
      /\ got[c].data + task[c].data + task[c].kept = upstream[c].taken
  BY StreamFacts DEF TaskChunk, Unread
<1>2. /\ upstream' = [upstream EXCEPT ![c] = u]
      /\ task' = [task EXCEPT ![c] = k] \/ task' = [task EXCEPT ![c] = m]
      /\ UNCHANGED <<server, signal, conn, permits, got, served>>
  BY DEF TaskChunk
<1>3. /\ u \in Upstreams /\ u.state = upstream[c].state /\ u.given = upstream[c].given
      /\ u.taken = upstream[c].taken + 1
  BY <1>1 DEF Upstreams
<1>4. m \in Tasks /\ m.pc = "pull" /\ m.data = task[c].data /\ m.kept = task[c].kept + 1
  BY <1>1 DEF Tasks
<1>5. k \in Tasks /\ k.pc = "send" /\ k.data = task[c].data /\ k.kept = task[c].kept + 1
  <2> DEFINE j == [m EXCEPT !.pc = "send"]
  <2> HIDE DEF m
  <2>1. j \in Tasks /\ j.pc = "send" /\ j.data = task[c].data /\ j.kept = task[c].kept + 1
    BY <1>4 DEF Tasks
  <2> QED
    BY <2>1 DEF m
<1> HIDE DEF u, m, k
<1>6. Sound(conn[c], k, u, got[c]) /\ Sound(conn[c], m, u, got[c])
  BY <1>1, <1>3, <1>4, <1>5, Streaming
<1>7. CASE task' = [task EXCEPT ![c] = k]
  BY <1>1, <1>2, <1>3, <1>5, <1>6, <1>7, KeepsSlot
<1>8. CASE task' = [task EXCEPT ![c] = m]
  BY <1>1, <1>2, <1>3, <1>4, <1>6, <1>8, KeepsSlot
<1> QED
  BY <1>2, <1>7, <1>8

LEMMA TaskSendInv ==
  ASSUME ProxyAssumption, Inv, NEW c \in Clients, TaskSend(c)
  PROVE  Inv'
<1> DEFINE k == [task[c] EXCEPT !.pc = "pull", !.data = task[c].kept, !.kept = 0]
<1>1. /\ conn[c] \in Conns /\ task[c] \in Tasks /\ upstream[c] \in Upstreams
      /\ got[c] \in Answers /\ Sound(conn[c], task[c], upstream[c], got[c])
      /\ conn[c].pc = "stream" /\ ~conn[c].slot
      /\ task[c].data = 0 /\ task[c].kept \in Nat /\ got[c].data \in Nat
      /\ upstream[c].taken <= upstream[c].given
      /\ task[c].pc = "send"
      /\ got[c].data + task[c].data + task[c].kept = upstream[c].taken
  BY StreamFacts DEF TaskSend
<1>2. /\ task' = [task EXCEPT ![c] = k]
      /\ UNCHANGED <<server, signal, conn, upstream, permits, got, served>>
  BY DEF TaskSend
<1>3. k \in Tasks /\ k.pc = "pull" /\ k.data = task[c].kept /\ k.kept = 0
  BY <1>1 DEF Tasks
<1> HIDE DEF k
<1>4. Sound(conn[c], k, upstream[c], got[c])
  BY <1>1, <1>3, Streaming
<1> QED
  BY <1>1, <1>2, <1>3, <1>4, KeepsSlot

LEMMA TaskEndsInv ==
  ASSUME ProxyAssumption, Inv, NEW c \in Clients, TaskEnds(c)
  PROVE  Inv'
<1>1. /\ conn[c] \in Conns /\ task[c] \in Tasks /\ upstream[c] \in Upstreams
      /\ got[c] \in Answers /\ Sound(conn[c], task[c], upstream[c], got[c])
      /\ conn[c].pc = "stream" /\ ~conn[c].slot
      /\ upstream[c].taken \in Nat /\ upstream[c].given \in Nat
      /\ upstream[c].taken = upstream[c].given
      /\ task[c].pc = "pull"
      /\ got[c].data + task[c].data + task[c].kept = upstream[c].taken
  BY StreamFacts DEF TaskEnds, Unread
<1>2. /\ UNCHANGED <<server, signal, conn, upstream, permits, got, served>>
      /\ \/ upstream[c].state = "ended" /\ task' = [task EXCEPT ![c].pc = "flush"]
         \/ task' = [task EXCEPT ![c].pc = "abort"]
  BY DEF TaskEnds
<1>3. \E p \in {"flush", "abort"} :
        task' = [task EXCEPT ![c].pc = p] /\ (p = "flush" => upstream[c].state = "ended")
  BY <1>2
<1>4. PICK p \in {"flush", "abort"} :
        task' = [task EXCEPT ![c].pc = p] /\ (p = "flush" => upstream[c].state = "ended")
  BY <1>3
<1> DEFINE k == [task[c] EXCEPT !.pc = p]
<1>5. k \in Tasks /\ k.pc = p /\ k.data = task[c].data /\ k.kept = task[c].kept
  BY <1>1 DEF Tasks
<1>6. task' = [task EXCEPT ![c] = k]
  BY <1>4
<1> HIDE DEF k
<1>7. Sound(conn[c], k, upstream[c], got[c])
  BY <1>1, <1>4, <1>5, Streaming
<1> QED
  BY <1>1, <1>2, <1>5, <1>6, <1>7, KeepsSlot

LEMMA TaskFlushInv ==
  ASSUME ProxyAssumption, Inv, NEW c \in Clients, TaskFlush(c)
  PROVE  Inv'
<1> DEFINE k == [pc |-> "over", data |-> task[c].data + task[c].kept, kept |-> 0, last |-> "clean"]
<1>1. /\ conn[c] \in Conns /\ task[c] \in Tasks /\ upstream[c] \in Upstreams
      /\ got[c] \in Answers /\ Sound(conn[c], task[c], upstream[c], got[c])
      /\ conn[c].pc = "stream" /\ ~conn[c].slot
      /\ task[c].data \in Nat /\ task[c].kept \in Nat /\ got[c].data \in Nat
      /\ upstream[c].taken <= upstream[c].given
      /\ upstream[c].state = "ended" /\ upstream[c].taken = upstream[c].given
      /\ got[c].data + task[c].data + task[c].kept = upstream[c].taken
  BY StreamFacts DEF TaskFlush
<1>2. /\ task' = [task EXCEPT ![c] = k]
      /\ UNCHANGED <<server, signal, conn, upstream, permits, got, served>>
  BY DEF TaskFlush
<1>3. k \in Tasks /\ k.pc = "over" /\ k.data = task[c].data + task[c].kept /\ k.kept = 0
      /\ k.last = "clean"
  BY <1>1 DEF Tasks
<1> HIDE DEF k
<1>4. Sound(conn[c], k, upstream[c], got[c])
  BY <1>1, <1>3, Streaming
<1> QED
  BY <1>1, <1>2, <1>3, <1>4, KeepsSlot

LEMMA TaskAbortInv ==
  ASSUME ProxyAssumption, Inv, NEW c \in Clients, TaskAbort(c)
  PROVE  Inv'
<1> DEFINE k == [NoTask EXCEPT !.pc = "over", !.last = "cut"]
<1>1. /\ conn[c] \in Conns /\ task[c] \in Tasks /\ upstream[c] \in Upstreams
      /\ got[c] \in Answers /\ Sound(conn[c], task[c], upstream[c], got[c])
      /\ conn[c].pc = "stream" /\ ~conn[c].slot
      /\ upstream[c].taken <= upstream[c].given
  BY StreamFacts DEF TaskAbort
<1>2. /\ task' = [task EXCEPT ![c] = k]
      /\ UNCHANGED <<server, signal, conn, upstream, permits, got, served>>
  BY DEF TaskAbort
<1>3. k \in Tasks /\ k.pc = "over" /\ k.kept = 0 /\ k.last = "cut"
  BY DEF Tasks, NoTask
<1> HIDE DEF k
<1>4. Sound(conn[c], k, upstream[c], got[c])
  BY <1>1, <1>3, Streaming
<1> QED
  BY <1>1, <1>2, <1>3, <1>4, KeepsSlot

LEMMA ReadFrameInv ==
  ASSUME ProxyAssumption, Inv, NEW c \in Clients, ReadFrame(c)
  PROVE  Inv'
<1>1. /\ conn[c] \in Conns /\ task[c] \in Tasks /\ upstream[c] \in Upstreams
      /\ got[c] \in Answers /\ Sound(conn[c], task[c], upstream[c], got[c])
      /\ conn[c].pc = "stream" /\ ~conn[c].slot
      /\ task[c].data \in Nat /\ task[c].kept \in Nat /\ got[c].data \in Nat
      /\ upstream[c].taken \in Nat /\ upstream[c].given \in Nat
      /\ upstream[c].taken <= upstream[c].given
      /\ task[c].pc # "over" \/ task[c].last = "clean" =>
           got[c].data + task[c].data + task[c].kept = upstream[c].taken
      /\ task[c].pc = "over" => task[c].kept = 0 /\ task[c].last \in {"clean", "cut"}
      /\ task[c].pc = "flush" \/ (task[c].pc = "over" /\ task[c].last = "clean") =>
           upstream[c].state = "ended" /\ upstream[c].taken = upstream[c].given
  BY StreamFacts DEF ReadFrame
<1>2. UNCHANGED <<server, signal, upstream, permits, served>>
  BY DEF ReadFrame
<1>3. CASE /\ got' = [got EXCEPT ![c].data = @ + task[c].data]
           /\ task' = [task EXCEPT ![c].data = 0]
           /\ UNCHANGED conn
  <2> DEFINE g == [got[c] EXCEPT !.data = @ + task[c].data]
             k == [task[c] EXCEPT !.data = 0]
  <2>1. g \in Answers /\ g.data = got[c].data + task[c].data /\ g.end = got[c].end
    BY <1>1 DEF Answers
  <2>2. /\ k \in Tasks /\ k.pc = task[c].pc /\ k.data = 0 /\ k.kept = task[c].kept
        /\ k.last = task[c].last
    BY <1>1 DEF Tasks
  <2>3. got' = [got EXCEPT ![c] = g] /\ task' = [task EXCEPT ![c] = k]
    BY <1>3
  <2> HIDE DEF g, k
  <2>4. got[c].end = "open" /\ task[c].pc # "none"
    BY <1>1 DEF Sound, ReplySound, StreamSound
  <2>5. Sound(conn[c], k, upstream[c], g)
    <3>1. RequestSound(conn[c]) /\ ReplySound(conn[c], upstream[c], g)
      BY <1>1, <2>1 DEF Sound, ReplySound, Handling
    <3>2. CleanSound(upstream[c], g)
      BY <2>1, <2>4 DEF CleanSound
    <3>3. StreamSound(conn[c], k, upstream[c], g)
      BY <1>1, <2>1, <2>2, <2>4 DEF StreamSound, Handling
    <3> QED
      BY <3>1, <3>2, <3>3 DEF Sound
  <2> QED
    BY <1>1, <1>2, <1>3, <2>1, <2>2, <2>3, <2>5, KeepsSlot
<1>4. CASE /\ task[c].pc = "over" /\ task[c].data = 0
           /\ got' = [got EXCEPT ![c].end = task[c].last]
           /\ task' = [task EXCEPT ![c] = NoTask]
           /\ conn' = [conn EXCEPT ![c] =
                         IF task[c].last = "clean" THEN AfterReply(c) ELSE Closed]
  <2> DEFINE g == [got[c] EXCEPT !.end = task[c].last]
             n == IF task[c].last = "clean" THEN AfterReply(c) ELSE Closed
  <2>1. task[c].last \in {"clean", "cut"}
    BY <1>1, <1>4
  <2>2. g \in Answers /\ g.data = got[c].data /\ g.end = task[c].last
    BY <1>1, <2>1 DEF Answers
  <2>3. /\ n \in Conns /\ n.pc \in {"closed", "idle"}
        /\ ~n.slot /\ n.body = 0 /\ n.reply = 0
    BY AfterReplyFacts, Fresh
  <2>4. conn' = [conn EXCEPT ![c] = n] /\ got' = [got EXCEPT ![c] = g]
    BY <1>4
  <2> HIDE DEF g, n
  <2>5. CleanSound(upstream[c], g)
    BY <1>1, <1>4, <2>1, <2>2 DEF CleanSound
  <2>6. Sound(n, NoTask, upstream[c], g)
    BY <1>1, <2>2, <2>3, <2>5, Fresh, QuietSound
  <2> QED
    BY <1>1, <1>2, <1>4, <2>2, <2>3, <2>4, <2>6, Fresh, KeepsSlot
<1> QED
  BY <1>3, <1>4 DEF ReadFrame

LEMMA LeaveInv ==
  ASSUME ProxyAssumption, Inv, NEW c \in Clients, Leave(c)
  PROVE  Inv'
<1> DEFINE n == [conn[c] EXCEPT !.gone = TRUE]
<1>1. /\ conn[c] \in Conns /\ task[c] \in Tasks /\ upstream[c] \in Upstreams /\ got[c] \in Answers
      /\ Sound(conn[c], task[c], upstream[c], got[c])
  BY TypesOf
<1>2. /\ UNCHANGED <<server, signal, task, upstream, permits, got, served>>
      /\ conn[c].pc # "closed" /\ conn' = [conn EXCEPT ![c] = n]
  BY DEF Leave, Open, At
<1>3. /\ n \in Conns /\ n.pc = conn[c].pc /\ n.req = conn[c].req /\ n.body = conn[c].body
      /\ n.slot = conn[c].slot /\ n.reply = conn[c].reply
  BY <1>1 DEF Conns
<1> HIDE DEF n
<1>4. Sound(n, task[c], upstream[c], got[c])
  BY <1>1, <1>3 DEF Sound, RequestSound, ReplySound, StreamSound
<1> QED
  BY <1>1, <1>2, <1>3, <1>4, KeepsSlot

-----------------------------------------------------------------------------
(* The theorems.                                                           *)

LEMMA InvInit ==
  ASSUME ProxyAssumption, Init
  PROVE  Inv
<1>1. MaxRequests \in Nat
  BY DEF ProxyAssumption
<1>2. Types
  BY <1>1, Fresh DEF Init, Types
<1>3. SoundInv
  <2>1. CleanSound(NoUpstream, NoAnswer)
    BY Fresh DEF CleanSound
  <2>2. Sound(Closed, NoTask, NoUpstream, NoAnswer)
    BY <2>1, Fresh, QuietSound
  <2> QED
    BY <2>2 DEF Init, SoundInv
<1>4. SlotsInv
  <2>1. {c \in Clients : conn[c].slot} = {}
    BY Fresh DEF Init
  <2> QED
    BY <1>1, <2>1, FS_EmptySet DEF Init, SlotsInv
<1>5. StoppedIsStopped
  BY DEF Init, StoppedIsStopped
<1> QED
  BY <1>2, <1>3, <1>4, <1>5 DEF Inv

LEMMA InvNext ==
  ASSUME ProxyAssumption, Inv, [Next]_vars
  PROVE  Inv'
<1>1. ASSUME NEW c \in Clients, DrainTimeout(c) \/ NoticeGone(c)
      PROVE  Inv'
  BY <1>1, CloseInv DEF DrainTimeout, NoticeGone
<1>2. ASSUME NEW c \in Clients, Task(c)
      PROVE  Inv'
  BY <1>2, TaskClientGoneInv, TaskChunkInv, TaskSendInv, TaskEndsInv, TaskFlushInv,
     TaskAbortInv, TaskForgottenInv DEF Task
<1>3. ASSUME NEW c \in Clients,
             \/ Admit(c) \/ Collect(c) \/ BodyFails(c) \/ Send(c) \/ SendFails(c)
             \/ Buffer(c) \/ Stream(c)
             \/ UpstreamChunk(c) \/ UpstreamEnds(c)
             \/ BufferChunk(c) \/ BufferEnds(c) \/ Reply(c)
      PROVE  Inv'
  BY <1>3, AdmitInv, CollectInv, FailsInv, SendInv, BufferInv, StreamInv, UpstreamInv,
     BufferChunkInv, BufferEndsInv, ReplyInv
<1>4. CASE UNCHANGED vars
  BY <1>4 DEF vars, Inv, Types, SoundInv, SlotsInv, StoppedIsStopped, At
<1>5. CASE Next
  <2>1. CASE Shutdown \/ Break \/ Stop
    BY <2>1, SignalInv, StopInv
  <2>2. CASE Finished
    BY <1>4, <2>2 DEF Finished
  <2>3. CASE \E c \in Clients :
               \/ Accept(c) \/ Drain(c) \/ DrainTimeout(c)
               \/ \E q \in Requests : Receive(c, q)
               \/ Admit(c) \/ Collect(c) \/ BodyFails(c) \/ Send(c) \/ SendFails(c)
               \/ Buffer(c) \/ Stream(c)
               \/ UpstreamChunk(c) \/ UpstreamEnds(c)
               \/ BufferChunk(c) \/ BufferEnds(c) \/ Reply(c)
               \/ Task(c) \/ ReadFrame(c)
               \/ Leave(c) \/ NoticeGone(c)
    BY <1>1, <1>2, <1>3, <2>3, AcceptInv, DrainInv, ReceiveInv, ReadFrameInv, LeaveInv
  <2> QED
    BY <1>5, <2>1, <2>2, <2>3 DEF Next
<1> QED
  BY <1>4, <1>5

\* The connection, its task, the upstream exchange and what the client has got
\* are related as Sound says, in every state.
THEOREM ProxyInvariant ==
  ASSUME ProxyAssumption
  PROVE  Spec => []Inv
<1>1. Init => Inv
  BY InvInit
<1>2. Inv /\ [Next]_vars => Inv'
  BY InvNext
<1> QED
  BY <1>1, <1>2, PTL DEF Spec

-----------------------------------------------------------------------------
(* The budget.                                                             *)

Units == Clients \X (1..Budget)

\* The units of the budget that requests hold, by client.
HeldUnits == {x \in Units : x[2] <= conn[x[1]].held}

\* Every unit is free or with a request that handle_request works on.
BudgetInv ==
    /\ budget \in Nat
    /\ budget + Cardinality(HeldUnits) = Budget
    /\ \A c \in Clients : conn[c].held <= Budget /\ (~conn[c].slot => conn[c].held = 0)

LEMMA UnitsFinite ==
  ASSUME ProxyAssumption
  PROVE  Budget \in Nat /\ IsFiniteSet(Units)
<1>1. Budget \in Nat /\ IsFiniteSet(Clients)
  BY DEF ProxyAssumption
<1>2. IsFiniteSet(1..Budget)
  BY <1>1, FS_Interval
<1> QED
  BY <1>1, <1>2, FS_Product DEF Units

\* A client that holds h bytes holds h units.
LEMMA OwnUnits ==
  ASSUME ProxyAssumption, NEW c \in Clients, NEW h \in 0..Budget
  PROVE  /\ IsFiniteSet({x \in Units : x[1] = c /\ x[2] <= h})
         /\ Cardinality({x \in Units : x[1] = c /\ x[2] <= h}) = h
<1> DEFINE T == {x \in Units : x[1] = c /\ x[2] <= h}
           F == [i \in 1..h |-> <<c, i>>]
<1>1. Budget \in Nat
  BY UnitsFinite
<1>2. F \in [1..h -> T]
  BY <1>1 DEF Units
<1>3. \A a, b \in 1..h : F[a] = F[b] => a = b
  OBVIOUS
<1>4. ASSUME NEW t \in T PROVE \E i \in 1..h : F[i] = t
  <2>1. t = <<c, t[2]>> /\ t[2] \in 1..h
    BY <1>1 DEF Units
  <2> QED
    BY <2>1
<1>5. F \in Bijection(1..h, T)
  BY <1>2, <1>3, <1>4, Fun_IsBij
<1>6. ExistsBijection(1..h, T)
  BY <1>5, Fun_ExistsBij
<1>7. IsFiniteSet(1..h) /\ Cardinality(1..h) = h
  BY <1>1, FS_Interval
<1> QED
  BY <1>6, <1>7, FS_Bijection

LEMMA DisjointUnion ==
  ASSUME NEW S, NEW T, IsFiniteSet(S), IsFiniteSet(T), S \cap T = {}
  PROVE  Cardinality(S \cup T) = Cardinality(S) + Cardinality(T)
<1>1. Cardinality(S \cup T) = Cardinality(S) + Cardinality(T) - Cardinality(S \cap T)
  BY FS_Union
<1>2. Cardinality(S \cap T) = 0
  BY FS_EmptySet
<1>3. Cardinality(S) \in Nat /\ Cardinality(T) \in Nat
  BY FS_CardinalityType
<1> QED
  BY <1>1, <1>2, <1>3

\* The budget, when one request reserves more or gives back.
LEMMA BudgetMoves ==
  ASSUME ProxyAssumption, Inv, Inv', BudgetInv, NEW c \in Clients,
         \A d \in Clients : d # c => conn'[d] = conn[d],
         budget' \in Nat, budget' + conn'[c].held = budget + conn[c].held,
         ~conn'[c].slot => conn'[c].held = 0
  PROVE  BudgetInv'
<1> DEFINE Own(h) == {x \in Units : x[1] = c /\ x[2] <= h}
           Rest == {x \in Units : x[1] # c /\ x[2] <= conn[x[1]].held}
           old == conn[c].held
           new == conn'[c].held
<1>1. Budget \in Nat /\ IsFiniteSet(Units)
  BY UnitsFinite
<1>2. old \in Nat /\ new \in Nat /\ old \in 0..Budget
  BY <1>1 DEF Inv, Types, Conns, BudgetInv
<1>3. IsFiniteSet(Rest) /\ Cardinality(Rest) \in Nat
  BY <1>1, FS_Subset, FS_CardinalityType
<1>4. IsFiniteSet(Own(old)) /\ Cardinality(Own(old)) = old
  BY <1>2, OwnUnits
<1>5. HeldUnits = Rest \cup Own(old) /\ Rest \cap Own(old) = {}
  BY DEF HeldUnits
<1>6. Cardinality(HeldUnits) = Cardinality(Rest) + old
  <2> HIDE DEF Own, Rest
  <2> QED
    BY <1>3, <1>4, <1>5, DisjointUnion
<1>7. budget' + Cardinality(Rest) + new = Budget /\ budget' \in Nat /\ budget \in Nat
  BY <1>1, <1>2, <1>3, <1>6 DEF BudgetInv
<1>8. new \in 0..Budget
  BY <1>1, <1>2, <1>3, <1>7
<1>9. IsFiniteSet(Own(new)) /\ Cardinality(Own(new)) = new
  BY <1>8, OwnUnits
<1>10. HeldUnits' = Rest \cup Own(new) /\ Rest \cap Own(new) = {}
  BY DEF HeldUnits, Units
<1>11. Cardinality(HeldUnits') = Cardinality(Rest) + new
  <2> HIDE DEF Own, Rest
  <2> QED
    BY <1>3, <1>9, <1>10, DisjointUnion
<1>12. budget' + Cardinality(HeldUnits') = Budget
  BY <1>1, <1>2, <1>3, <1>7, <1>11
<1>13. \A d \in Clients : conn'[d].held <= Budget /\ (~conn'[d].slot => conn'[d].held = 0)
  BY <1>8 DEF BudgetInv
<1> QED
  BY <1>7, <1>12, <1>13 DEF BudgetInv

\* The budget, when no request reserves or gives back anything.
LEMMA BudgetRests ==
  ASSUME BudgetInv, budget' = budget,
         \A d \in Clients : conn'[d].held = conn[d].held,
         \A d \in Clients : ~conn'[d].slot => ~conn[d].slot
  PROVE  BudgetInv'
<1>1. HeldUnits' = HeldUnits
  BY DEF HeldUnits, Units
<1> QED
  BY <1>1 DEF BudgetInv

LEMMA BudgetUnchanged ==
  ASSUME BudgetInv, UNCHANGED <<conn, budget>>
  PROVE  BudgetInv'
BY BudgetRests

\* A step that gives back the reservation of a request.
LEMMA BudgetReleased ==
  ASSUME ProxyAssumption, Inv, Inv', BudgetInv, NEW c \in Clients, Released(c),
         NEW n, conn' = [conn EXCEPT ![c] = n], n.held = 0
  PROVE  BudgetInv'
<1>1. budget \in Nat /\ conn[c].held \in Nat
  BY DEF Inv, Types, Conns, BudgetInv
<1>2. budget' = budget + conn[c].held
  BY DEF Released
<1>3. conn'[c] = n /\ \A d \in Clients : d # c => conn'[d] = conn[d]
  BY DEF Inv, Types
<1>4. budget' \in Nat /\ budget' + conn'[c].held = budget + conn[c].held
  BY <1>1, <1>2, <1>3
<1> QED
  BY <1>3, <1>4, BudgetMoves

LEMMA NothingHeld ==
  ASSUME NEW c
  PROVE  Closed.held = 0 /\ AfterReply(c).held = 0
<1>1. Closed.held = 0
  BY DEF Closed
<1>2. [Closed EXCEPT !.pc = "idle", !.gone = conn[c].gone].held = 0
  BY DEF Closed
<1> QED
  BY <1>1, <1>2 DEF AfterReply

LEMMA BudgetRefused ==
  ASSUME ProxyAssumption, Inv, Inv', BudgetInv, NEW c \in Clients,
         Refuse(c) \/ CloseConn(c)
  PROVE  BudgetInv'
<1>1. Released(c)
  BY DEF Refuse, CloseConn
<1>2. CASE Refuse(c)
  BY <1>1, <1>2, BudgetReleased, NothingHeld DEF Refuse
<1>3. CASE CloseConn(c)
  BY <1>1, <1>3, BudgetReleased, NothingHeld DEF CloseConn
<1> QED
  BY <1>2, <1>3

\* A step that reserves one more unit for a request that has a slot.
LEMMA BudgetReserved ==
  ASSUME ProxyAssumption, Inv, Inv', BudgetInv, NEW c \in Clients,
         conn[c].slot, budget # 0, budget' = budget - 1,
         NEW n, conn' = [conn EXCEPT ![c] = n], n.held = conn[c].held + 1, n.slot <=> conn[c].slot
  PROVE  BudgetInv'
<1>1. budget \in Nat /\ conn[c].held \in Nat
  BY DEF Inv, Types, Conns, BudgetInv
<1>2. conn'[c] = n /\ \A d \in Clients : d # c => conn'[d] = conn[d]
  BY DEF Inv, Types
<1>3. budget' \in Nat /\ budget' + conn'[c].held = budget + conn[c].held
  BY <1>1, <1>2
<1> QED
  BY <1>2, <1>3, BudgetMoves

\* A connection without a reservation is put back to its start.
LEMMA BudgetReset ==
  ASSUME ProxyAssumption, Inv, BudgetInv, NEW c \in Clients, ~conn[c].slot, budget' = budget,
         NEW n, conn' = [conn EXCEPT ![c] = n], n.held = 0
  PROVE  BudgetInv'
<1>1. conn[c].held = 0
  BY DEF BudgetInv
<1>2. conn'[c] = n /\ \A d \in Clients : d # c => conn'[d] = conn[d]
  BY DEF Inv, Types
<1> QED
  BY <1>1, <1>2, BudgetRests

\* A step of a connection that is not about its reservation.
LEMMA BudgetKept ==
  ASSUME ProxyAssumption, Inv, BudgetInv, NEW c \in Clients, budget' = budget,
         NEW n, conn' = [conn EXCEPT ![c] = n], n.held = conn[c].held,
         conn[c].slot => n.slot
  PROVE  BudgetInv'
<1>1. conn'[c] = n /\ \A d \in Clients : d # c => conn'[d] = conn[d]
  BY DEF Inv, Types
<1> QED
  BY <1>1, BudgetRests

LEMMA SlotOf ==
  ASSUME Inv, NEW c \in Clients
  PROVE  conn[c] \in Conns /\ (conn[c].slot <=> conn[c].pc \in Handling)
BY DEF Inv, Types, SoundInv, Sound, RequestSound

LEMMA BudgetServer ==
  ASSUME ProxyAssumption, Inv, Inv', BudgetInv, NEW c \in Clients,
         Accept(c) \/ Drain(c) \/ DrainTimeout(c) \/ Leave(c) \/ NoticeGone(c)
  PROVE  BudgetInv'
<1>1. conn[c] \in Conns /\ (conn[c].slot <=> conn[c].pc \in Handling)
  BY SlotOf
<1>2. CASE Accept(c)
  <2>1. ~conn[c].slot
    BY <1>1, <1>2 DEF Accept, At, Handling
  <2>2. [Closed EXCEPT !.pc = "idle"].held = 0
    BY DEF Closed
  <2> QED
    BY <1>2, <2>1, <2>2, BudgetReset DEF Accept
<1>3. CASE Drain(c)
  <2> DEFINE n == [conn[c] EXCEPT !.drain = TRUE]
  <2>1. n.held = conn[c].held /\ (conn[c].slot => n.slot)
    BY <1>1 DEF Conns
  <2>2. /\ budget' = budget
        /\ conn' = [conn EXCEPT ![c] = Closed] \/ conn' = [conn EXCEPT ![c] = n]
        /\ conn[c].pc # "idle" \/ ~conn[c].slot
    BY <1>1, <1>3 DEF Drain, Handling, Open, At
  <2> QED
    BY <1>1, <1>3, <2>1, <2>2, BudgetKept, BudgetReset, NothingHeld DEF Drain, Open, At, Handling
<1>4. CASE DrainTimeout(c) \/ NoticeGone(c)
  BY <1>4, BudgetRefused DEF DrainTimeout, NoticeGone
<1>5. CASE Leave(c)
  <2> DEFINE n == [conn[c] EXCEPT !.gone = TRUE]
  <2>1. n.held = conn[c].held /\ (conn[c].slot => n.slot)
    BY <1>1 DEF Conns
  <2>2. budget' = budget /\ conn' = [conn EXCEPT ![c] = n]
    BY <1>5 DEF Leave
  <2> QED
    BY <2>1, <2>2, BudgetKept
<1> QED
  BY <1>2, <1>3, <1>4, <1>5

\* The deadline of the shutdown gives back what every request holds.
LEMMA BudgetStop ==
  ASSUME ProxyAssumption, Inv, BudgetInv, Stop
  PROVE  BudgetInv'
<1>1. Budget \in Nat /\ IsFiniteSet(Units)
  BY UnitsFinite
<1>2. conn' = [c \in Clients |-> Closed] /\ budget' = budget + Cardinality(HeldUnits)
  BY DEF Stop, Reserved, HeldUnits, Units
<1>3. \A c \in Clients : conn'[c].held = 0
  BY <1>2, NothingHeld
<1>4. HeldUnits' = {}
  BY <1>1, <1>3 DEF HeldUnits, Units
<1>5. Cardinality(HeldUnits') = 0
  BY <1>4, FS_EmptySet
<1>6. budget' = Budget
  BY <1>2 DEF BudgetInv
<1> QED
  BY <1>1, <1>3, <1>5, <1>6 DEF BudgetInv

LEMMA BudgetRequest ==
  ASSUME ProxyAssumption, Inv, Inv', BudgetInv, NEW c \in Clients,
         \/ \E q \in Requests : Receive(c, q)
         \/ Admit(c) \/ Collect(c) \/ BodyFails(c) \/ Send(c) \/ SendFails(c)
         \/ Buffer(c) \/ Stream(c)
  PROVE  BudgetInv'
<1>1. conn[c] \in Conns /\ (conn[c].slot <=> conn[c].pc \in Handling)
  BY SlotOf
<1>2. ASSUME NEW q \in Requests, Receive(c, q) PROVE BudgetInv'
  <2> DEFINE n == [conn[c] EXCEPT !.pc = "admit", !.req = q, !.slot = TRUE]
  <2>1. n.held = conn[c].held /\ (conn[c].slot => n.slot)
    BY <1>1 DEF Conns
  <2>2. budget' = budget /\ (conn' = [conn EXCEPT ![c] = n] \/ conn' = conn)
    BY <1>2 DEF Receive
  <2> QED
    BY <2>1, <2>2, BudgetKept, BudgetUnchanged
<1>3. ASSUME NEW p, conn' = [conn EXCEPT ![c].pc = p], budget' = budget PROVE BudgetInv'
  <2> DEFINE n == [conn[c] EXCEPT !.pc = p]
  <2>1. n.held = conn[c].held /\ (conn[c].slot => n.slot)
    BY <1>1 DEF Conns
  <2> QED
    BY <1>3, <2>1, BudgetKept
<1>4. CASE Admit(c)
  BY <1>3, <1>4, BudgetRefused DEF Admit
<1>5. CASE Collect(c)
  <2>1. CASE Refuse(c)
    BY <2>1, BudgetRefused
  <2>2. CASE ~Refuse(c)
    <3> DEFINE m == [conn[c] EXCEPT !.body = @ + 1]
               n == [conn[c] EXCEPT !.body = @ + 1, !.held = @ + 1]
    <3>1. m \in Conns /\ m.held = conn[c].held /\ (m.slot <=> conn[c].slot)
      BY <1>1 DEF Conns
    <3>2. n.held = conn[c].held + 1 /\ (n.slot <=> conn[c].slot)
      <4> DEFINE h == [m EXCEPT !.held = @ + 1]
      <4> HIDE DEF m
      <4>1. h.held = conn[c].held + 1 /\ (h.slot <=> conn[c].slot)
        BY <3>1 DEF Conns
      <4> QED
        BY <4>1 DEF m
    <3>3. /\ conn' = [conn EXCEPT ![c] = n] /\ budget # 0 /\ budget' = budget - 1
          /\ conn[c].slot
      BY <1>1, <1>5, <2>2 DEF Collect, At, Handling
    <3> HIDE DEF n
    <3> QED
      BY <3>2, <3>3, BudgetReserved
  <2> QED
    BY <2>1, <2>2
<1>6. CASE BodyFails(c) \/ SendFails(c)
  BY <1>6, BudgetRefused DEF BodyFails, SendFails
<1>7. CASE Send(c) \/ Buffer(c)
  BY <1>3, <1>7 DEF Send, Buffer
<1>8. CASE Stream(c)
  <2> DEFINE n == [conn[c] EXCEPT !.pc = "stream", !.slot = FALSE, !.held = 0, !.body = 0]
  <2>1. n.held = 0
    BY <1>1 DEF Conns
  <2>2. conn' = [conn EXCEPT ![c] = n] /\ Released(c)
    BY <1>8 DEF Stream
  <2> HIDE DEF n
  <2> QED
    BY <2>1, <2>2, BudgetReleased
<1> QED
  BY <1>2, <1>4, <1>5, <1>6, <1>7, <1>8

LEMMA BudgetResponse ==
  ASSUME ProxyAssumption, Inv, Inv', BudgetInv, NEW c \in Clients,
         \/ UpstreamChunk(c) \/ UpstreamEnds(c)
         \/ BufferChunk(c) \/ BufferEnds(c) \/ Reply(c)
         \/ Task(c) \/ ReadFrame(c)
  PROVE  BudgetInv'
<1>1. conn[c] \in Conns /\ (conn[c].slot <=> conn[c].pc \in Handling)
  BY SlotOf
<1>2. CASE UpstreamChunk(c) \/ UpstreamEnds(c) \/ Task(c)
  BY <1>2, BudgetUnchanged
     DEF UpstreamChunk, UpstreamEnds, Task, TaskClientGone, TaskChunk, TaskSend, TaskEnds,
         TaskFlush, TaskAbort, TaskForgotten
<1>3. CASE BufferChunk(c)
  <2>1. CASE Refuse(c)
    BY <2>1, BudgetRefused
  <2>2. CASE ~Refuse(c)
    <3> DEFINE m == [conn[c] EXCEPT !.reply = @ + 1]
               n == [conn[c] EXCEPT !.reply = @ + 1, !.held = @ + 1]
    <3>1. m \in Conns /\ m.held = conn[c].held /\ (m.slot <=> conn[c].slot)
      BY <1>1 DEF Conns
    <3>2. n.held = conn[c].held + 1 /\ (n.slot <=> conn[c].slot)
      <4> DEFINE h == [m EXCEPT !.held = @ + 1]
      <4> HIDE DEF m
      <4>1. h.held = conn[c].held + 1 /\ (h.slot <=> conn[c].slot)
        BY <3>1 DEF Conns
      <4> QED
        BY <4>1 DEF m
    <3>3. /\ conn' = [conn EXCEPT ![c] = n] /\ budget # 0 /\ budget' = budget - 1
          /\ conn[c].slot
      BY <1>1, <1>3, <2>2 DEF BufferChunk, At, Handling
    <3> HIDE DEF n
    <3> QED
      BY <3>2, <3>3, BudgetReserved
  <2> QED
    BY <2>1, <2>2
<1>4. CASE BufferEnds(c)
  <2>1. CASE Refuse(c)
    BY <2>1, BudgetRefused
  <2>2. CASE ~Refuse(c)
    <3> DEFINE n == [conn[c] EXCEPT !.pc = "reply", !.slot = FALSE, !.held = 0, !.body = 0]
    <3>1. n.held = 0
      BY <1>1 DEF Conns
    <3>2. conn' = [conn EXCEPT ![c] = n] /\ Released(c)
      BY <1>4, <2>2 DEF BufferEnds
    <3> HIDE DEF n
    <3> QED
      BY <3>1, <3>2, BudgetReleased
  <2> QED
    BY <2>1, <2>2
<1>5. CASE Reply(c)
  <2>1. ~conn[c].slot
    BY <1>1, <1>5 DEF Reply, At, Handling
  <2> QED
    BY <1>5, <2>1, BudgetReset, NothingHeld DEF Reply
<1>6. CASE ReadFrame(c)
  <2> DEFINE n == IF task[c].last = "clean" THEN AfterReply(c) ELSE Closed
  <2>1. ~conn[c].slot
    BY <1>1, <1>6 DEF ReadFrame, Receiver, At, Handling
  <2>2. n.held = 0
    BY NothingHeld
  <2>3. budget' = budget /\ (conn' = conn \/ conn' = [conn EXCEPT ![c] = n])
    BY <1>6 DEF ReadFrame
  <2> HIDE DEF n
  <2> QED
    BY <2>1, <2>2, <2>3, BudgetReset, BudgetUnchanged
<1> QED
  BY <1>2, <1>3, <1>4, <1>5, <1>6

LEMMA BudgetNext ==
  ASSUME ProxyAssumption, Inv, Inv', BudgetInv, [Next]_vars
  PROVE  BudgetInv'
<1>1. CASE UNCHANGED vars
  BY <1>1, BudgetUnchanged DEF vars
<1>2. CASE Next
  <2>1. CASE Shutdown \/ Break
    BY <2>1, BudgetUnchanged DEF Shutdown, Break
  <2>2. CASE Finished
    BY <1>1, <2>2 DEF Finished
  <2>3. CASE \E c \in Clients :
               \/ Accept(c) \/ Drain(c) \/ DrainTimeout(c)
               \/ \E q \in Requests : Receive(c, q)
               \/ Admit(c) \/ Collect(c) \/ BodyFails(c) \/ Send(c) \/ SendFails(c)
               \/ Buffer(c) \/ Stream(c)
               \/ UpstreamChunk(c) \/ UpstreamEnds(c)
               \/ BufferChunk(c) \/ BufferEnds(c) \/ Reply(c)
               \/ Task(c) \/ ReadFrame(c)
               \/ Leave(c) \/ NoticeGone(c)
    BY <2>3, BudgetServer, BudgetRequest, BudgetResponse
  <2> QED
    BY <1>2, <2>1, <2>2, <2>3, BudgetStop DEF Next
<1> QED
  BY <1>1, <1>2

LEMMA BudgetInit ==
  ASSUME ProxyAssumption, Init
  PROVE  BudgetInv
<1>1. Budget \in Nat /\ IsFiniteSet(Units)
  BY UnitsFinite
<1>2. \A c \in Clients : conn[c].held = 0
  BY DEF Init, Closed
<1>3. HeldUnits = {}
  BY <1>1, <1>2 DEF HeldUnits, Units
<1>4. Cardinality(HeldUnits) = 0
  BY <1>3, FS_EmptySet
<1> QED
  BY <1>1, <1>2, <1>4 DEF BudgetInv, Init

\* What BudgetInv says of the budget, in the terms of NothingLeaks.
LEMMA BudgetConserved ==
  ASSUME ProxyAssumption, BudgetInv
  PROVE  budget \in 0..Budget /\ budget + Reserved = Budget
<1>1. Budget \in Nat /\ IsFiniteSet(Units)
  BY UnitsFinite
<1>2. IsFiniteSet(HeldUnits)
  BY <1>1, FS_Subset DEF HeldUnits
<1>3. Cardinality(HeldUnits) \in Nat
  BY <1>2, FS_CardinalityType
<1>4. Reserved = Cardinality(HeldUnits)
  BY DEF Reserved, HeldUnits, Units
<1> QED
  BY <1>1, <1>3, <1>4 DEF BudgetInv

-----------------------------------------------------------------------------
(* The properties.                                                         *)

\* A response that ends cleanly at the client is one that its upstream
\* completed, every byte of it, buffered or streamed, wherever the upstream
\* breaks off, the client leaves or the server is shut down.
THEOREM CleanEndsAreComplete ==
  ASSUME ProxyAssumption
  PROVE  Spec => []CleanEndIsComplete
<1>1. Inv => CleanEndIsComplete
  BY DEF Inv, SoundInv, Sound, CleanSound, CleanEndIsComplete
<1> QED
  BY <1>1, ProxyInvariant, PTL

\* The credential leaves only with a reviewed request whose body is complete
\* and within the cap, and a proxy that has stopped has no connection left.
THEOREM OnlyReviewedRequestsLeave ==
  ASSUME ProxyAssumption
  PROVE  Spec => [](OnlyWholeRequestsLeave /\ StoppedIsStopped)
<1>1. Inv => OnlyWholeRequestsLeave
  BY DEF Inv, SoundInv, Sound, RequestSound, Reviewed, Authorised, Handling,
         OnlyWholeRequestsLeave
<1>2. Inv => StoppedIsStopped
  BY DEF Inv
<1> QED
  BY <1>1, <1>2, ProxyInvariant, PTL

\* No request slot is lost or made up, however requests end: refused, served,
\* given up by a client that leaves, or dropped by the shutdown's deadline.
THEOREM SlotsAreConserved ==
  ASSUME ProxyAssumption
  PROVE  Spec => [](permits \in 0..MaxRequests /\
                    permits + Cardinality({c \in Clients : conn[c].slot}) = MaxRequests)
<1>1. Inv => /\ permits \in 0..MaxRequests
             /\ permits + Cardinality({c \in Clients : conn[c].slot}) = MaxRequests
  <2>1. SUFFICES ASSUME Inv
                 PROVE  /\ permits \in 0..MaxRequests
                        /\ permits + Cardinality({c \in Clients : conn[c].slot}) = MaxRequests
    OBVIOUS
  <2> DEFINE S == {c \in Clients : conn[c].slot}
  <2>2. permits + Cardinality(S) = MaxRequests /\ permits \in Nat /\ MaxRequests \in Nat
    BY <2>1 DEF Inv, SlotsInv, Types, ProxyAssumption
  <2>3. Cardinality(S) \in Nat
    BY FS_Subset, FS_CardinalityType DEF ProxyAssumption
  <2> HIDE DEF S
  <2>4. permits \in 0..MaxRequests
    BY <2>2, <2>3
  <2> QED
    BY <2>2, <2>4 DEF S
<1> QED
  BY <1>1, ProxyInvariant, PTL

LEMMA TypeOKFromInv ==
  ASSUME Types, permits \in 0..MaxRequests, budget \in 0..Budget
  PROVE  TypeOK
<1>1. ASSUME NEW c \in Clients
      PROVE  conn[c] \in Conns /\ task[c] \in Tasks /\ upstream[c] \in Upstreams /\ got[c] \in Answers
  BY DEF Types
<1>2. ASSUME NEW c \in Clients
      PROVE  /\ conn[c].pc \in {"closed", "idle", "admit", "body", "sent", "buffer", "reply", "stream"}
             /\ task[c].pc \in {"none", "pull", "send", "flush", "abort", "over"}
             /\ upstream[c].state \in {"none", "open", "ended", "failed", "closed"}
             /\ got[c].end \in {"open", "clean", "cut", "error"}
  BY <1>1 DEF Conns, Handling, Tasks, Upstreams, Answers
<1> QED
  BY <1>2 DEF TypeOK, Types

\* No request slot and no byte of the buffer budget is lost or made up, the
\* credential leaves only with a whole reviewed request, and a proxy that has
\* stopped has no connection left, whatever its clients and upstreams do.
THEOREM ProxyIsSafe ==
  ASSUME ProxyAssumption
  PROVE  Spec => []ProxySafe
<1>1. Init => BudgetInv
  BY BudgetInit
<1>2. Inv /\ Inv' /\ BudgetInv /\ [Next]_vars => BudgetInv'
  BY BudgetNext
<1>3. BudgetInv => budget \in 0..Budget /\ budget + Reserved = Budget
  BY BudgetConserved
<1>4. Inv => Types /\ StoppedIsStopped
  BY DEF Inv
<1>5. /\ Types /\ StoppedIsStopped /\ OnlyWholeRequestsLeave
      /\ permits \in 0..MaxRequests
      /\ permits + Cardinality({c \in Clients : conn[c].slot}) = MaxRequests
      /\ budget \in 0..Budget /\ budget + Reserved = Budget
      => ProxySafe
  BY TypeOKFromInv DEF ProxySafe, NothingLeaks
<1> QED
  BY <1>1, <1>2, <1>3, <1>4, <1>5, ProxyInvariant, OnlyReviewedRequestsLeave,
     SlotsAreConserved, PTL DEF Spec
===============================================================================
