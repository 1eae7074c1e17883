--------------------------- MODULE DeviceLoginProofs ---------------------------
(***************************************************************************)
(* Proofs about DeviceLogin, for any device codes, browsers, limits and     *)
(* lifetimes, however polls overlap, are repeated or lose their answers.    *)
(*                                                                          *)
(* A poll acts on a row it read earlier, and a browser on a row it looked   *)
(* at.  The invariant therefore says what stays true of a row once it has   *)
(* been read: an approved row has a user, and keeps it.                     *)
(*                                                                          *)
(* The bearer that a login ends with is what phantom cloud and phantom team *)
(* call the service with.  The second and the third part prove what those   *)
(* commands promise of the values they move (CloudSync, TeamVault).         *)
(***************************************************************************)
EXTENDS DeviceLogin, FiniteSetTheorems, TLAPS

Rows ==
    [status : {"none", "pending", "approved", "expired"}, user : Users \cup {None},
     expires : Nat, claimed : BOOLEAN, until : Nat]

Requests == [code : Codes, read : Rows, late : BOOLEAN, own : BOOLEAN]

Bearers == [code : Codes, user : Users \cup {None}, own : BOOLEAN]

Approvals == [code : Codes \cup {None}, told : SUBSET Codes, unsure : SUBSET Codes]

Stages == {"start", "waiting", "polling", "loggedIn", "failed"}

Types ==
    /\ now \in 0..MaxTime
    /\ row \in [Codes -> Rows]
    /\ cli \in [Codes -> Stages]
    /\ attempts \in [Codes -> 0..MaxAttempts]
    /\ polls \subseteq Requests
    /\ approval \in [Users -> Approvals]
    /\ bearers \subseteq Bearers

\* A login that has not begun has neither a row nor a poll.
StartInv ==
    \A d \in Codes : cli[d] = "start" =>
        row[d] = NoRow /\ attempts[d] = 0 /\ \A p \in polls : p.code # d

\* A login that polls has one poll of its own under way, and no other has.
OwnInv ==
    /\ \A d \in Codes : cli[d] = "polling" <=> \E p \in polls : p.code = d /\ p.own
    /\ \A p, q \in polls : p.own /\ q.own /\ p.code = q.code => p = q

\* A row that is approved or claimed has a user, and so has one that a poll has
\* read as approved, whatever it is by now; a pending row has none.
UserInv ==
    /\ \A d \in Codes : row[d].status = "pending" => row[d].user = None
    /\ \A d \in Codes : row[d].status = "approved" \/ row[d].claimed => row[d].user # None
    /\ \A p \in polls : p.read.status = "approved" => row[p.code].user # None

\* The user of a row is the one who was told of the approval, or of the error.
ToldInv ==
    \A d \in Codes : \A u \in Users :
        /\ d \in approval[u].told => row[d].user = u /\ row[d].status \in {"approved", "expired"}
        /\ row[d].user = u => d \in approval[u].told \cup approval[u].unsure

\* The bearer of a code belongs to its claimed row, and there is one.
BearerInv ==
    /\ \A b \in bearers : row[b.code].claimed /\ b.user = row[b.code].user
    /\ \A b, c \in bearers : b.code = c.code => b = c
    /\ \A d \in Codes : cli[d] = "loggedIn" => \E b \in bearers : b.code = d /\ b.own

Inv == Types /\ StartInv /\ OwnInv /\ UserInv /\ ToldInv /\ BearerInv

-----------------------------------------------------------------------------
(* The login and the clock.                                                 *)

LEMMA NoRowIs ==
  NoRow \in Rows /\ NoRow.status = "none" /\ NoRow.user = None /\ ~NoRow.claimed
BY DEF NoRow, Rows

LEMMA InitiateInv ==
  ASSUME DeviceAssumption, Inv, NEW d \in Codes, Initiate(d)
  PROVE  Inv'
<1> DEFINE r == [NoRow EXCEPT !.status = "pending", !.expires = now + CodeTTL]
<1>1. cli[d] = "start" /\ UNCHANGED <<now, attempts, polls, approval, bearers>>
  BY DEF Initiate
<1>2. row[d] = NoRow /\ \A p \in polls : p.code # d
  BY <1>1 DEF Inv, StartInv
<1>3. CASE cli' = [cli EXCEPT ![d] = "failed"] /\ UNCHANGED row
  <2>1. Types' /\ StartInv' /\ OwnInv' /\ UserInv' /\ ToldInv' /\ BearerInv'
    BY <1>1, <1>2, <1>3 DEF Inv, Types, Stages, StartInv, OwnInv, UserInv, ToldInv, BearerInv
  <2> QED
    BY <2>1 DEF Inv
<1>4. ASSUME NEW answer \in {"waiting", "failed"}, cli' = [cli EXCEPT ![d] = answer],
             row' = [row EXCEPT ![d] = r]
      PROVE  Inv'
  <2>1. now \in Nat /\ CodeTTL \in Nat /\ now + CodeTTL \in Nat
    BY DEF Inv, Types, DeviceAssumption
  <2>2. r \in Rows /\ r.status = "pending" /\ r.user = None /\ ~r.claimed
    BY <2>1 DEF NoRow, Rows
  <2> HIDE DEF r
  <2>3. /\ row'[d] = r /\ (\A c \in Codes : c # d => row'[c] = row[c])
        /\ cli'[d] = answer /\ (\A c \in Codes : c # d => cli'[c] = cli[c])
    BY <1>4 DEF Inv, Types
  <2>4. \A p \in polls : p.code \in Codes /\ p.code # d /\ row'[p.code] = row[p.code]
    BY <1>2, <2>3 DEF Inv, Types, Requests
  <2>5. \A b \in bearers : b.code \in Codes /\ b.code # d /\ row'[b.code] = row[b.code]
    BY <1>2, <2>3, NoRowIs DEF Inv, Types, Bearers, BearerInv
  <2>6. \A u \in Users : u # None /\ d \notin approval[u].told
    BY <1>2, NoRowIs DEF Inv, ToldInv, DeviceAssumption
  <2>7. Types'
    BY <1>1, <1>4, <2>2 DEF Inv, Types, Stages
  <2>8. StartInv' /\ OwnInv'
    BY <1>1, <1>4, <2>3, <2>4 DEF Inv, StartInv, OwnInv
  <2>9. UserInv'
    BY <1>1, <2>2, <2>3, <2>4 DEF Inv, UserInv
  <2>10. ToldInv'
    BY <1>1, <2>2, <2>3, <2>6 DEF Inv, ToldInv
  <2>11. BearerInv'
    BY <1>1, <1>4, <2>3, <2>5 DEF Inv, BearerInv
  <2> QED
    BY <2>7, <2>8, <2>9, <2>10, <2>11 DEF Inv
<1> QED
  BY <1>3, <1>4 DEF Initiate

LEMMA SendPollInv ==
  ASSUME DeviceAssumption, Inv, NEW d \in Codes, SendPoll(d)
  PROVE  Inv'
<1> DEFINE q == [NoPoll EXCEPT !.code = d]
<1>1. cli[d] = "waiting" /\ UNCHANGED <<now, row, approval, bearers>>
  BY DEF SendPoll
<1>2. CASE cli' = [cli EXCEPT ![d] = "failed"] /\ UNCHANGED <<attempts, polls>>
  <2>1. Types' /\ StartInv' /\ OwnInv' /\ UserInv' /\ ToldInv' /\ BearerInv'
    BY <1>1, <1>2 DEF Inv, Types, Stages, StartInv, OwnInv, UserInv, ToldInv, BearerInv
  <2> QED
    BY <2>1 DEF Inv
<1>3. CASE /\ attempts[d] # MaxAttempts
           /\ cli' = [cli EXCEPT ![d] = "polling"]
           /\ attempts' = [attempts EXCEPT ![d] = @ + 1]
           /\ polls' = polls \cup {q}
  <2>1. q \in Requests /\ q.code = d /\ q.own /\ q.read = NoRow
    BY NoRowIs DEF NoPoll, Requests
  <2> HIDE DEF q
  <2>2. /\ cli'[d] = "polling" /\ (\A c \in Codes : c # d => cli'[c] = cli[c])
        /\ \A c \in Codes : c # d => attempts'[c] = attempts[c]
    BY <1>3 DEF Inv, Types
  <2>3. \A p \in polls : p.code \in Codes /\ ~(p.own /\ p.code = d)
    BY <1>1 DEF Inv, Types, Requests, OwnInv
  <2>4. attempts[d] + 1 \in 0..MaxAttempts
    BY <1>3 DEF Inv, Types, DeviceAssumption
  <2>5. Types'
    BY <1>1, <1>3, <2>1, <2>4 DEF Inv, Types, Stages
  <2>6. StartInv'
    BY <1>1, <1>3, <2>1, <2>2 DEF Inv, StartInv
  <2>7. OwnInv'
    BY <1>3, <2>1, <2>2, <2>3 DEF Inv, OwnInv
  <2>8. UserInv' /\ ToldInv' /\ BearerInv'
    BY <1>1, <1>3, <2>1, <2>2, NoRowIs DEF Inv, UserInv, ToldInv, BearerInv
  <2> QED
    BY <2>5, <2>6, <2>7, <2>8 DEF Inv
<1> QED
  BY <1>2, <1>3 DEF SendPoll

LEMMA RepeatPollInv ==
  ASSUME DeviceAssumption, Inv, NEW d \in Codes, RepeatPoll(d)
  PROVE  Inv'
<1> DEFINE q == [NoPoll EXCEPT !.code = d, !.own = FALSE]
<1>1. /\ attempts[d] > 0 /\ polls' = polls \cup {q}
      /\ UNCHANGED <<now, row, cli, attempts, approval, bearers>>
  BY DEF RepeatPoll
<1>2. q \in Requests /\ q.code = d /\ ~q.own /\ q.read = NoRow
  BY NoRowIs DEF NoPoll, Requests
<1> HIDE DEF q
<1>3. cli[d] # "start"
  BY <1>1 DEF Inv, StartInv
<1>4. Types'
  BY <1>1, <1>2 DEF Inv, Types
<1>5. StartInv' /\ OwnInv'
  BY <1>1, <1>2, <1>3 DEF Inv, StartInv, OwnInv
<1>6. UserInv' /\ ToldInv' /\ BearerInv'
  BY <1>1, <1>2, NoRowIs DEF Inv, UserInv, ToldInv, BearerInv
<1> QED
  BY <1>4, <1>5, <1>6 DEF Inv

-----------------------------------------------------------------------------
(* The poll route.                                                          *)

\* What an answer does to the login it belongs to.
LEMMA Answered ==
  ASSUME Inv, NEW p \in polls, NEW s \in {"waiting", "loggedIn", "failed"}, Answer(p, s)
  PROVE  /\ p \in Requests /\ polls' = polls \ {p}
         /\ cli' \in [Codes -> Stages]
         /\ OwnInv'
         /\ \A d \in Codes : cli'[d] = "start" => cli[d] = "start"
         /\ \A d \in Codes : cli'[d] = "loggedIn" =>
                cli[d] = "loggedIn" \/ (d = p.code /\ p.own /\ s = "loggedIn")
<1>1. p \in Requests /\ p.code \in Codes /\ polls \subseteq Requests /\ polls' = polls \ {p}
  BY DEF Inv, Types, Requests, Answer
<1>2. CASE ~p.own /\ UNCHANGED cli
  BY <1>1, <1>2 DEF Inv, Types, OwnInv
<1>3. ASSUME p.own, NEW o \in {s, "failed"}, cli' = [cli EXCEPT ![p.code] = o]
      PROVE  /\ cli' \in [Codes -> Stages]
             /\ OwnInv'
             /\ \A d \in Codes : cli'[d] = "start" => cli[d] = "start"
             /\ \A d \in Codes : cli'[d] = "loggedIn" =>
                    cli[d] = "loggedIn" \/ (d = p.code /\ p.own /\ s = "loggedIn")
  <2>1. cli' \in [Codes -> Stages] /\ o \notin {"start", "polling"}
    BY <1>1, <1>3 DEF Inv, Types, Stages
  <2>2. cli'[p.code] = o /\ \A d \in Codes : d # p.code => cli'[d] = cli[d]
    BY <1>1, <1>3 DEF Inv, Types
  <2>3. \A q \in polls' : q \in polls /\ ~(q.own /\ q.code = p.code)
    BY <1>1, <1>3 DEF Inv, OwnInv
  <2>4. OwnInv'
    BY <1>1, <2>1, <2>2, <2>3 DEF Inv, OwnInv
  <2> QED
    BY <1>3, <2>1, <2>2, <2>4
<1> QED
  BY <1>1, <1>2, <1>3 DEF Answer

LEMMA PollReadInv ==
  ASSUME DeviceAssumption, Inv, NEW p \in polls, PollRead(p)
  PROVE  Inv'
<1> DEFINE q == [p EXCEPT !.read = row[p.code], !.late = row[p.code].expires < now]
<1>1. p \in Requests /\ p.code \in Codes /\ row[p.code] \in Rows
  BY DEF Inv, Types, Requests
<1>2. polls' = (polls \ {p}) \cup {q} /\ UNCHANGED <<now, row, cli, attempts, approval, bearers>>
  BY DEF PollRead
<1>3. q \in Requests /\ q.code = p.code /\ (q.own <=> p.own) /\ q.read = row[p.code]
  <2> DEFINE f(r, x) == [p EXCEPT !.read = r, !.late = x]
  <2>1. ASSUME NEW r \in Rows, NEW x \in BOOLEAN
        PROVE  /\ f(r, x) \in Requests /\ f(r, x).code = p.code
               /\ (f(r, x).own <=> p.own) /\ f(r, x).read = r
    BY <1>1 DEF Requests
  <2>2. (row[p.code].expires < now) \in BOOLEAN
    OBVIOUS
  <2> HIDE DEF f
  <2>3. /\ f(row[p.code], row[p.code].expires < now) \in Requests
        /\ f(row[p.code], row[p.code].expires < now).code = p.code
        /\ (f(row[p.code], row[p.code].expires < now).own <=> p.own)
        /\ f(row[p.code], row[p.code].expires < now).read = row[p.code]
    BY <1>1, <2>1, <2>2, Zenon
  <2> QED
    BY <2>3 DEF f
<1> HIDE DEF q
<1>4. Types'
  BY <1>2, <1>3 DEF Inv, Types
<1>5. StartInv' /\ OwnInv'
  <2>1. StartInv'
    BY <1>2, <1>3 DEF Inv, StartInv
  <2>2. \A d \in Codes : (\E t \in polls : t.code = d /\ t.own) <=> \E t \in polls' : t.code = d /\ t.own
    BY <1>2, <1>3
  <2>3. \A t, w \in polls' : t.own /\ w.own /\ t.code = w.code => t = w
    BY <1>2, <1>3 DEF Inv, OwnInv
  <2> QED
    BY <1>2, <2>1, <2>2, <2>3 DEF Inv, OwnInv
<1>6. UserInv' /\ ToldInv' /\ BearerInv'
  BY <1>1, <1>2, <1>3 DEF Inv, UserInv, ToldInv, BearerInv
<1> QED
  BY <1>4, <1>5, <1>6 DEF Inv

\* An answer that leaves the row as it is.
LEMMA AnswerInv ==
  ASSUME DeviceAssumption, Inv, NEW p \in polls, NEW s \in {"waiting", "failed"}, Answer(p, s),
         UNCHANGED <<now, row, attempts, approval, bearers>>
  PROVE  Inv'
<1>1. /\ polls' \subseteq polls /\ cli' \in [Codes -> Stages] /\ OwnInv'
      /\ \A d \in Codes : cli'[d] = "start" => cli[d] = "start"
      /\ \A d \in Codes : cli'[d] = "loggedIn" => cli[d] = "loggedIn"
  BY Answered
<1>2. Types'
  BY <1>1 DEF Inv, Types
<1>3. StartInv' /\ UserInv' /\ ToldInv' /\ BearerInv'
  BY <1>1 DEF Inv, StartInv, UserInv, ToldInv, BearerInv
<1> QED
  BY <1>1, <1>2, <1>3 DEF Inv

LEMMA PollExpiredInv ==
  ASSUME DeviceAssumption, Inv, NEW p \in polls, PollExpired(p)
  PROVE  Inv'
<1> DEFINE r == [row[p.code] EXCEPT !.status = "expired"]
<1>1. /\ p \in Requests /\ polls' \subseteq polls /\ cli' \in [Codes -> Stages] /\ OwnInv'
      /\ \A d \in Codes : cli'[d] = "start" => cli[d] = "start"
      /\ \A d \in Codes : cli'[d] = "loggedIn" => cli[d] = "loggedIn"
  BY Answered DEF PollExpired
<1>2. p.code \in Codes /\ row[p.code] \in Rows
  BY <1>1 DEF Inv, Types, Requests
<1>3. row' \in {row, [row EXCEPT ![p.code] = r]} /\ UNCHANGED <<now, attempts, approval, bearers>>
  BY DEF PollExpired
<1>4. /\ r \in Rows /\ r.status = "expired" /\ r.user = row[p.code].user
      /\ (r.claimed <=> row[p.code].claimed)
  BY <1>2 DEF Rows
<1> HIDE DEF r
<1>5. row'[p.code] \in {row[p.code], r} /\ \A d \in Codes : d # p.code => row'[d] = row[d]
  BY <1>2, <1>3 DEF Inv, Types
<1>6. \A d \in Codes : /\ row'[d].user = row[d].user /\ (row'[d].claimed <=> row[d].claimed)
                       /\ row'[d].status \in {row[d].status, "expired"}
  BY <1>4, <1>5
<1>7. Types'
  BY <1>1, <1>2, <1>3, <1>4 DEF Inv, Types
<1>8. StartInv'
  BY <1>1, <1>3, <1>5 DEF Inv, StartInv
<1>9. UserInv'
  BY <1>1, <1>3, <1>6 DEF Inv, Types, Requests, UserInv
<1>10. ToldInv'
  BY <1>3, <1>6 DEF Inv, ToldInv
<1>11. BearerInv'
  BY <1>1, <1>3, <1>6 DEF Inv, Types, Bearers, BearerInv
<1> QED
  BY <1>1, <1>7, <1>8, <1>9, <1>10, <1>11 DEF Inv

LEMMA PollClaimInv ==
  ASSUME DeviceAssumption, Inv, NEW p \in polls, PollClaim(p)
  PROVE  Inv'
<1> DEFINE r == [row[p.code] EXCEPT !.claimed = TRUE, !.until = now + TokenTTL]
           b == [code |-> p.code, user |-> row[p.code].user, own |-> p.own]
<1>1. p \in Requests /\ p.code \in Codes /\ row[p.code] \in Rows
  BY DEF Inv, Types, Requests
<1>2. p.read.status = "approved" /\ UNCHANGED <<now, attempts, approval>>
  BY DEF PollClaim
<1>3. CASE row[p.code].claimed
  BY <1>2, <1>3, AnswerInv DEF PollClaim
<1>4. CASE ~row[p.code].claimed
  <2>1. /\ row' = [row EXCEPT ![p.code] = r] /\ bearers' = bearers \cup {b}
        /\ Answer(p, "loggedIn")
    BY <1>4 DEF PollClaim
  <2>2. /\ polls' \subseteq polls /\ cli' \in [Codes -> Stages] /\ OwnInv'
        /\ \A d \in Codes : cli'[d] = "start" => cli[d] = "start"
        /\ \A d \in Codes : cli'[d] = "loggedIn" => cli[d] = "loggedIn" \/ (d = p.code /\ p.own)
    BY <2>1, Answered
  <2>3. now + TokenTTL \in Nat
    BY DEF Inv, Types, DeviceAssumption
  <2>4. /\ r \in Rows /\ r.status = row[p.code].status /\ r.user = row[p.code].user
        /\ r.claimed
    BY <1>1, <2>3 DEF Rows
  <2>5. b \in Bearers /\ b.code = p.code /\ b.user = row[p.code].user /\ (b.own <=> p.own)
    BY <1>1 DEF Bearers, Rows, Requests
  <2> HIDE DEF r, b
  <2>6. row'[p.code] = r /\ \A d \in Codes : d # p.code => row'[d] = row[d]
    BY <1>1, <2>1 DEF Inv, Types
  <2>7. \A d \in Codes : /\ row'[d].user = row[d].user /\ row'[d].status = row[d].status
                         /\ row[d].claimed => row'[d].claimed
    BY <2>4, <2>6
  <2>8. row[p.code].user # None
    BY <1>2 DEF Inv, UserInv
  <2>9. \A c \in bearers : c.code \in Codes /\ c.code # p.code
    BY <1>4 DEF Inv, Types, Bearers, BearerInv
  <2>10. Types'
    BY <1>1, <1>2, <2>1, <2>2, <2>4, <2>5 DEF Inv, Types
  <2>11. StartInv'
    BY <1>2, <2>2, <2>6 DEF Inv, StartInv
  <2>12. UserInv'
    BY <2>2, <2>6, <2>7, <2>8 DEF Inv, Types, Requests, UserInv
  <2>13. ToldInv'
    BY <1>2, <2>7 DEF Inv, ToldInv
  <2>14. BearerInv'
    <3>1. \A c \in bearers' : row'[c.code].claimed /\ c.user = row'[c.code].user
      BY <1>1, <2>1, <2>4, <2>5, <2>6, <2>9 DEF Inv, BearerInv
    <3>2. \A c, e \in bearers' : c.code = e.code => c = e
      BY <2>1, <2>5, <2>9 DEF Inv, BearerInv
    <3>3. \A d \in Codes : cli'[d] = "loggedIn" => \E c \in bearers' : c.code = d /\ c.own
      BY <2>1, <2>2, <2>5 DEF Inv, BearerInv
    <3> QED
      BY <3>1, <3>2, <3>3 DEF BearerInv
  <2> QED
    BY <2>2, <2>10, <2>11, <2>12, <2>13, <2>14 DEF Inv
<1> QED
  BY <1>3, <1>4

\* The row is claimed, but no answer carries the bearer.
LEMMA PollClaimLostInv ==
  ASSUME DeviceAssumption, Inv, NEW p \in polls, PollClaimLost(p)
  PROVE  Inv'
<1> DEFINE r == [row[p.code] EXCEPT !.claimed = TRUE, !.until = now + TokenTTL]
<1>1. p \in Requests /\ p.code \in Codes /\ row[p.code] \in Rows /\ now + TokenTTL \in Nat
  BY DEF Inv, Types, Requests, DeviceAssumption
<1>2. /\ p.read.status = "approved" /\ row' = [row EXCEPT ![p.code] = r]
      /\ Answer(p, "failed") /\ UNCHANGED <<now, attempts, approval, bearers>>
  BY DEF PollClaimLost
<1>3. /\ polls' \subseteq polls /\ cli' \in [Codes -> Stages] /\ OwnInv'
      /\ \A d \in Codes : cli'[d] = "start" => cli[d] = "start"
      /\ \A d \in Codes : cli'[d] = "loggedIn" => cli[d] = "loggedIn"
  BY <1>2, Answered
<1>4. r \in Rows /\ r.status = row[p.code].status /\ r.user = row[p.code].user /\ r.claimed
  BY <1>1 DEF Rows
<1> HIDE DEF r
<1>5. row'[p.code] = r /\ \A d \in Codes : d # p.code => row'[d] = row[d]
  BY <1>1, <1>2 DEF Inv, Types
<1>6. \A d \in Codes : /\ row'[d].user = row[d].user /\ row'[d].status = row[d].status
                       /\ row[d].claimed => row'[d].claimed
  BY <1>4, <1>5
<1>7. row[p.code].user # None
  BY <1>2 DEF Inv, UserInv
<1>8. Types'
  BY <1>1, <1>2, <1>3, <1>4 DEF Inv, Types
<1>9. StartInv'
  BY <1>2, <1>3, <1>5 DEF Inv, StartInv
<1>10. UserInv'
  BY <1>3, <1>5, <1>6, <1>7 DEF Inv, Types, Requests, UserInv
<1>11. ToldInv'
  BY <1>2, <1>6 DEF Inv, ToldInv
<1>12. BearerInv'
  BY <1>2, <1>3, <1>6 DEF Inv, Types, Bearers, BearerInv
<1> QED
  BY <1>3, <1>8, <1>9, <1>10, <1>11, <1>12 DEF Inv

LEMMA PollInv ==
  ASSUME DeviceAssumption, Inv, NEW p \in polls, Poll(p)
  PROVE  Inv'
<1>1. CASE PollPending(p)
  BY <1>1, AnswerInv DEF PollPending
<1>2. CASE PollRefused(p)
  BY <1>2, AnswerInv DEF PollRefused
<1>3. CASE PollError(p)
  BY <1>3, AnswerInv DEF PollError
<1> QED
  BY <1>1, <1>2, <1>3, PollReadInv, PollExpiredInv, PollClaimInv, PollClaimLostInv DEF Poll

-----------------------------------------------------------------------------
(* The approve route.                                                       *)

LEMMA ApproveReadInv ==
  ASSUME DeviceAssumption, Inv, NEW u \in Users, NEW d \in Codes, ApproveRead(u, d)
  PROVE  Inv'
<1> DEFINE a == [approval[u] EXCEPT !.code = d]
<1>1. /\ approval' = [approval EXCEPT ![u] = a]
      /\ UNCHANGED <<now, row, cli, attempts, polls, bearers>>
  BY DEF ApproveRead
<1>2. a \in Approvals /\ a.told = approval[u].told /\ a.unsure = approval[u].unsure
  BY DEF Inv, Types, Approvals
<1> HIDE DEF a
<1>3. \A w \in Users : /\ approval'[w].told = approval[w].told
                       /\ approval'[w].unsure = approval[w].unsure
  BY <1>1, <1>2 DEF Inv, Types
<1>4. Types'
  BY <1>1, <1>2 DEF Inv, Types
<1>5. StartInv' /\ OwnInv' /\ UserInv' /\ ToldInv' /\ BearerInv'
  BY <1>1, <1>3 DEF Inv, StartInv, OwnInv, UserInv, ToldInv, BearerInv
<1> QED
  BY <1>4, <1>5 DEF Inv

\* An answer of the approve route: the row is approved or as it was, and who is
\* told of an approval, or warned, has the row or nothing of it.
ApproveAnswer(u, d, a) ==
    /\ d \in Codes /\ a \in Approvals
    /\ approval' = [approval EXCEPT ![u] = a]
    /\ approval[u].told \subseteq a.told /\ a.told \subseteq approval[u].told \cup {d}
    /\ approval[u].unsure \subseteq a.unsure
    /\ UNCHANGED <<now, cli, attempts, polls, bearers, repeats>>
    /\ \/ row' = row /\ a.told = approval[u].told
       \/ row[d].status = "pending" /\ d \in a.told \cup a.unsure /\ row' = Approved(d, u)

LEMMA ApproveAnswers ==
  ASSUME DeviceAssumption, Inv, NEW u \in Users, ApproveWrite(u) \/ ApproveError(u)
  PROVE  \E d \in Codes : \E a \in Approvals : ApproveAnswer(u, d, a)
<1> DEFINE d == approval[u].code
<1>1. d \in Codes /\ row[d] \in Rows /\ approval[u] \in Approvals
  BY DEF Inv, Types, Approvals, ApproveWrite, ApproveError
<1>2. row[d].status # "pending" => Approved(d, u) = row
  BY DEF Approved
<1>3. CASE ApproveWrite(u)
  <2> DEFINE mine == IF row[d].status = "pending" THEN {d} ELSE {}
             a == [code |-> None, told |-> approval[u].told \cup mine,
                   unsure |-> approval[u].unsure]
  <2>1. /\ a \in Approvals /\ a.told = approval[u].told \cup mine
        /\ a.unsure = approval[u].unsure
    BY <1>1 DEF Approvals
  <2>2. /\ approval' = [approval EXCEPT ![u] = a] /\ row' = Approved(d, u)
        /\ UNCHANGED <<now, cli, attempts, polls, bearers, repeats>>
    BY <1>3 DEF ApproveWrite
  <2> HIDE DEF a
  <2> QED
    BY <1>1, <1>2, <2>1, <2>2 DEF ApproveAnswer
<1>4. CASE ApproveError(u)
  <2> DEFINE a == [code |-> None, told |-> approval[u].told,
                   unsure |-> approval[u].unsure \cup {d}]
  <2>1. /\ a \in Approvals /\ a.told = approval[u].told
        /\ a.unsure = approval[u].unsure \cup {d}
    BY <1>1 DEF Approvals
  <2>2. /\ approval' = [approval EXCEPT ![u] = a] /\ row' \in {row, Approved(d, u)}
        /\ UNCHANGED <<now, cli, attempts, polls, bearers, repeats>>
    BY <1>4 DEF ApproveError
  <2> HIDE DEF a
  <2> QED
    BY <1>1, <1>2, <2>1, <2>2 DEF ApproveAnswer
<1> QED
  BY <1>3, <1>4

LEMMA ApproveAnswerInv ==
  ASSUME DeviceAssumption, Inv, NEW u \in Users, NEW d, NEW a, ApproveAnswer(u, d, a)
  PROVE  Inv'
<1>1. /\ d \in Codes /\ row[d] \in Rows /\ u # None /\ a \in Approvals
      /\ approval' = [approval EXCEPT ![u] = a]
      /\ UNCHANGED <<now, cli, attempts, polls, bearers>>
  BY DEF Inv, Types, ApproveAnswer, DeviceAssumption
<1>2. approval'[u] = a /\ \A w \in Users : w # u => approval'[w] = approval[w]
  BY <1>1 DEF Inv, Types
<1>3. CASE row' = row /\ a.told = approval[u].told
  <2>1. \A w \in Users : /\ approval'[w].told = approval[w].told
                         /\ approval[w].unsure \subseteq approval'[w].unsure
    BY <1>2, <1>3 DEF ApproveAnswer
  <2>2. Types'
    BY <1>1, <1>3 DEF Inv, Types
  <2>3. StartInv' /\ OwnInv' /\ UserInv' /\ BearerInv'
    BY <1>1, <1>3 DEF Inv, StartInv, OwnInv, UserInv, BearerInv
  <2>4. ToldInv'
    BY <1>3, <2>1 DEF Inv, ToldInv
  <2> QED
    BY <2>2, <2>3, <2>4 DEF Inv
<1>4. CASE row[d].status = "pending" /\ d \in a.told \cup a.unsure /\ row' = Approved(d, u)
  <2> DEFINE r == [row[d] EXCEPT !.status = "approved", !.user = u]
  <2>1. r \in Rows /\ r.status = "approved" /\ r.user = u /\ (r.claimed <=> row[d].claimed)
    BY <1>1 DEF Rows
  <2>2. \A w \in Users : d \notin approval[w].told
    BY <1>1, <1>4 DEF Inv, ToldInv
  <2>3. ~row[d].claimed /\ row[d] # NoRow
    BY <1>1, <1>4, NoRowIs DEF Inv, UserInv
  <2> HIDE DEF r
  <2>4. row' = [row EXCEPT ![d] = r]
    BY <1>4 DEF r, Approved
  <2>5. row'[d] = r /\ \A c \in Codes : c # d => row'[c] = row[c]
    BY <1>1, <2>4 DEF Inv, Types
  <2>6. \A b \in bearers : b.code \in Codes /\ b.code # d
    BY <2>3 DEF Inv, Types, Bearers, BearerInv
  <2>7. Types'
    BY <1>1, <2>1, <2>4 DEF Inv, Types
  <2>8. StartInv' /\ OwnInv'
    BY <1>1, <2>3, <2>5 DEF Inv, StartInv, OwnInv
  <2>9. UserInv'
    BY <1>1, <2>1, <2>5 DEF Inv, Types, Requests, UserInv
  <2>10. ToldInv'
    BY <1>1, <1>2, <1>4, <2>1, <2>2, <2>5 DEF Inv, ToldInv, ApproveAnswer
  <2>11. BearerInv'
    BY <1>1, <2>5, <2>6 DEF Inv, BearerInv
  <2> QED
    BY <2>7, <2>8, <2>9, <2>10, <2>11 DEF Inv
<1> QED
  BY <1>3, <1>4 DEF ApproveAnswer

-----------------------------------------------------------------------------
(* The theorems.                                                            *)

LEMMA InvInit ==
  ASSUME DeviceAssumption, Init
  PROVE  Inv
<1>1. Types
  BY NoRowIs DEF Init, Types, Stages, Approvals, DeviceAssumption
<1>2. \A d \in Codes : row[d] = NoRow
  BY DEF Init
<1>3. StartInv /\ OwnInv /\ UserInv /\ BearerInv
  BY <1>2, NoRowIs DEF Init, StartInv, OwnInv, UserInv, BearerInv
<1>4. ToldInv
  BY <1>2, NoRowIs DEF Init, ToldInv, DeviceAssumption
<1> QED
  BY <1>1, <1>3, <1>4 DEF Inv

LEMMA InvNext ==
  ASSUME DeviceAssumption, Inv, [Next]_vars
  PROVE  Inv'
<1>1. CASE UNCHANGED vars
  BY <1>1 DEF vars, Inv, Types, StartInv, OwnInv, UserInv, ToldInv, BearerInv
<1>2. CASE Tick
  <2>1. now' \in 0..MaxTime /\ UNCHANGED <<row, cli, attempts, polls, approval, bearers>>
    BY <1>2 DEF Tick, Inv, Types, DeviceAssumption
  <2> QED
    BY <2>1 DEF Inv, Types, StartInv, OwnInv, UserInv, ToldInv, BearerInv
<1>3. CASE \E d \in Codes : Initiate(d) \/ SendPoll(d) \/ RepeatPoll(d)
  BY <1>3, InitiateInv, SendPollInv, RepeatPollInv
<1>4. CASE \E p \in polls : Poll(p)
  BY <1>4, PollInv
<1>5. CASE \E u \in Users : \E d \in Codes : ApproveRead(u, d)
  BY <1>5, ApproveReadInv
<1>6. CASE \E u \in Users : ApproveWrite(u) \/ ApproveError(u)
  BY <1>6, ApproveAnswers, ApproveAnswerInv
<1> QED
  BY <1>1, <1>2, <1>3, <1>4, <1>5, <1>6 DEF Next

\* A device code yields at most one bearer, that of the one user who was told
\* of the approval, and a login that succeeded is the one that got it, whichever
\* polls and approvals overlap, are repeated or lose their answers.
THEOREM OneBearerForItsApprover ==
  ASSUME DeviceAssumption
  PROVE  Spec => []LoginSafe
<1>1. Init => Inv
  BY InvInit
<1>2. Inv /\ [Next]_vars => Inv'
  BY InvNext
<1>3. Inv => LoginSafe
  <2> SUFFICES ASSUME Inv PROVE LoginSafe
    OBVIOUS
  <2>1. TypeOK
    <3>1. \A d \in Codes : row[d] \in Rows
      BY DEF Inv, Types
    <3>2. \A d \in Codes : row[d].status \in {"none", "pending", "approved", "expired"}
                           /\ row[d].user \in Users \cup {None}
      BY <3>1 DEF Rows
    <3> QED
      BY <3>2 DEF Inv, Types, Stages, Approvals, OwnInv, UserInv, TypeOK
  <2>2. OneBearerPerCode
    BY DEF Inv, BearerInv, OneBearerPerCode
  <2>3. BearerIsTheApprovers
    BY DEF Inv, BearerInv, ToldInv, BearerIsTheApprovers
  <2> QED
    BY <2>1, <2>2, <2>3 DEF LoginSafe
<1> QED
  BY <1>1, <1>2, <1>3, PTL DEF Spec

-----------------------------------------------------------------------------
(* Without repeated polls.                                                  *)

\* The only polls are those a login waits for, so nothing marks a row expired
\* behind the back of a login that goes on or has succeeded.
AloneInv ==
    /\ repeats = 0
    /\ \A p \in polls : p.own /\ cli[p.code] = "polling"
    /\ \A p \in polls : p.read.status = "approved" => row[p.code].status = "approved"
    /\ \A d \in Codes : cli[d] \in {"waiting", "polling"} => row[d].status \in {"pending", "approved"}
    /\ \A d \in Codes : cli[d] = "loggedIn" => row[d].status = "approved" /\ row[d].claimed

\* What an answer does when there is no other poll of its code.
LEMMA AnsweredAlone ==
  ASSUME Inv, AloneInv, NEW p \in polls, NEW s \in {"waiting", "loggedIn", "failed"}, Answer(p, s)
  PROVE  /\ p.code \in Codes
         /\ cli[p.code] = "polling"
         /\ cli'[p.code] \in {s, "failed"}
         /\ \A d \in Codes : d # p.code => cli'[d] = cli[d]
         /\ \A q \in polls' : q \in polls /\ q.code \in Codes /\ q.code # p.code
<1>1. p \in Requests /\ p.code \in Codes /\ polls \subseteq Requests /\ p.own
  BY DEF Inv, Types, Requests, AloneInv
<1>2. PICK o \in {s, "failed"} : cli' = [cli EXCEPT ![p.code] = o]
  BY <1>1 DEF Answer
<1>3. cli'[p.code] \in {s, "failed"} /\ \A d \in Codes : d # p.code => cli'[d] = cli[d]
  BY <1>1, <1>2 DEF Inv, Types
<1>4. \A q \in polls' : q \in polls /\ q.code \in Codes /\ q.code # p.code
  BY <1>1 DEF Inv, Types, Requests, OwnInv, AloneInv, Answer
<1> QED
  BY <1>1, <1>3, <1>4 DEF AloneInv

LEMMA AloneLogin ==
  ASSUME DeviceAssumption, MaxRepeats = 0, Inv, AloneInv, NEW d \in Codes,
         Initiate(d) \/ SendPoll(d) \/ RepeatPoll(d)
  PROVE  AloneInv'
<1>1. \A p \in polls : p.code \in Codes
  BY DEF Inv, Types, Requests
<1>2. CASE Initiate(d)
  <2> DEFINE r == [NoRow EXCEPT !.status = "pending", !.expires = now + CodeTTL]
  <2>1. cli[d] = "start" /\ UNCHANGED <<polls, repeats>>
    BY <1>2 DEF Initiate
  <2>2. \A p \in polls : p.code # d
    BY <2>1 DEF Inv, StartInv
  <2>3. r.status = "pending"
    BY DEF NoRow
  <2>4. \/ cli' = [cli EXCEPT ![d] = "failed"] /\ row' = row
        \/ \E answer \in {"waiting", "failed"} :
                cli' = [cli EXCEPT ![d] = answer] /\ row' = [row EXCEPT ![d] = r]
    BY <1>2 DEF Initiate
  <2> HIDE DEF r
  <2>5. /\ \/ cli'[d] = "failed"
           \/ cli'[d] = "waiting" /\ row'[d] = r
        /\ \A c \in Codes : c # d => cli'[c] = cli[c] /\ row'[c] = row[c]
    BY <2>4 DEF Inv, Types
  <2> QED
    BY <1>1, <2>1, <2>2, <2>3, <2>5 DEF AloneInv
<1>3. CASE SendPoll(d)
  <2> DEFINE q == [NoPoll EXCEPT !.code = d]
  <2>1. cli[d] = "waiting" /\ UNCHANGED <<row, repeats>>
    BY <1>3 DEF SendPoll
  <2>2. q.code = d /\ q.own /\ q.read = NoRow
    BY DEF NoPoll
  <2>3. \/ cli' = [cli EXCEPT ![d] = "failed"] /\ polls' = polls
        \/ cli' = [cli EXCEPT ![d] = "polling"] /\ polls' = polls \cup {q}
    BY <1>3 DEF SendPoll
  <2> HIDE DEF q
  <2>4. /\ \/ cli'[d] = "failed" /\ polls' = polls
           \/ cli'[d] = "polling" /\ polls' = polls \cup {q}
        /\ \A c \in Codes : c # d => cli'[c] = cli[c]
    BY <2>3 DEF Inv, Types
  <2>5. \A p \in polls : p.code # d
    BY <2>1 DEF AloneInv
  <2> QED
    BY <1>1, <2>1, <2>2, <2>4, <2>5, NoRowIs DEF AloneInv
<1>4. ~RepeatPoll(d)
  BY DEF RepeatPoll, AloneInv
<1> QED
  BY <1>2, <1>3, <1>4

LEMMA AlonePoll ==
  ASSUME DeviceAssumption, Inv, AloneInv, NEW p \in polls, Poll(p)
  PROVE  AloneInv'
<1>1. p \in Requests /\ p.code \in Codes /\ row[p.code] \in Rows
  BY DEF Inv, Types, Requests
<1>2. CASE PollRead(p)
  <2> DEFINE q == [p EXCEPT !.read = row[p.code], !.late = row[p.code].expires < now]
  <2>1. polls' = (polls \ {p}) \cup {q} /\ UNCHANGED <<row, cli, repeats>>
    BY <1>2 DEF PollRead
  <2>2. q.code = p.code /\ (q.own <=> p.own) /\ q.read = row[p.code]
    <3> DEFINE f(x) == [p EXCEPT !.read = row[p.code], !.late = x]
    <3>1. ASSUME NEW x \in BOOLEAN
          PROVE  f(x).code = p.code /\ (f(x).own <=> p.own) /\ f(x).read = row[p.code]
      BY <1>1 DEF Requests
    <3>2. (row[p.code].expires < now) \in BOOLEAN
      OBVIOUS
    <3> HIDE DEF f
    <3>3. LET x == row[p.code].expires < now
          IN  f(x).code = p.code /\ (f(x).own <=> p.own) /\ f(x).read = row[p.code]
      BY <3>1, <3>2, Zenon
    <3> QED
      BY <3>3 DEF f
  <2> HIDE DEF q
  <2> QED
    BY <2>1, <2>2 DEF AloneInv
<1>3. CASE PollExpired(p)
  <2>1. /\ cli'[p.code] = "failed"
        /\ \A d \in Codes : d # p.code => cli'[d] = cli[d]
        /\ \A q \in polls' : q \in polls /\ q.code \in Codes /\ q.code # p.code
    BY <1>3, AnsweredAlone DEF PollExpired
  <2>2. UNCHANGED repeats /\ \A d \in Codes : d # p.code => row'[d] = row[d]
    BY <1>1, <1>3 DEF PollExpired, Inv, Types
  <2> QED
    BY <2>1, <2>2 DEF AloneInv
<1>4. ASSUME NEW s \in {"waiting", "failed"}, Answer(p, s), UNCHANGED <<row, repeats>>
      PROVE  AloneInv'
  <2>1. /\ cli[p.code] = "polling" /\ cli'[p.code] \in {"waiting", "failed"}
        /\ \A d \in Codes : d # p.code => cli'[d] = cli[d]
        /\ \A q \in polls' : q \in polls /\ q.code \in Codes /\ q.code # p.code
    BY <1>4, AnsweredAlone
  <2> QED
    BY <1>1, <1>4, <2>1 DEF AloneInv
<1>5. CASE PollPending(p) \/ PollRefused(p) \/ PollError(p)
  BY <1>4, <1>5 DEF PollPending, PollRefused, PollError
<1>6. CASE PollClaim(p)
  <2>1. CASE row[p.code].claimed
    BY <1>4, <1>6, <2>1 DEF PollClaim
  <2>2. CASE ~row[p.code].claimed
    <3> DEFINE r == [row[p.code] EXCEPT !.claimed = TRUE, !.until = now + TokenTTL]
    <3>1. row' = [row EXCEPT ![p.code] = r] /\ Answer(p, "loggedIn") /\ UNCHANGED repeats
      BY <1>6, <2>2 DEF PollClaim
    <3>2. /\ cli'[p.code] \in {"loggedIn", "failed"}
          /\ \A d \in Codes : d # p.code => cli'[d] = cli[d]
          /\ \A q \in polls' : q \in polls /\ q.code \in Codes /\ q.code # p.code
      BY <3>1, AnsweredAlone
    <3>3. row[p.code].status = "approved"
      BY <1>6 DEF PollClaim, AloneInv
    <3>4. r.status = row[p.code].status /\ r.claimed
      BY <1>1 DEF Rows
    <3> HIDE DEF r
    <3>5. row'[p.code] = r /\ \A d \in Codes : d # p.code => row'[d] = row[d]
      BY <1>1, <3>1 DEF Inv, Types
    <3> QED
      BY <1>1, <3>1, <3>2, <3>3, <3>4, <3>5 DEF AloneInv
  <2> QED
    BY <2>1, <2>2
<1>7. CASE PollClaimLost(p)
  <2> DEFINE r == [row[p.code] EXCEPT !.claimed = TRUE, !.until = now + TokenTTL]
  <2>1. row' = [row EXCEPT ![p.code] = r] /\ Answer(p, "failed") /\ UNCHANGED repeats
    BY <1>7 DEF PollClaimLost
  <2>2. /\ cli'[p.code] = "failed"
        /\ \A d \in Codes : d # p.code => cli'[d] = cli[d]
        /\ \A q \in polls' : q \in polls /\ q.code \in Codes /\ q.code # p.code
    BY <2>1, AnsweredAlone
  <2> HIDE DEF r
  <2>3. \A d \in Codes : d # p.code => row'[d] = row[d]
    BY <1>1, <2>1 DEF Inv, Types
  <2> QED
    BY <1>1, <2>1, <2>2, <2>3 DEF AloneInv
<1> QED
  BY <1>2, <1>3, <1>5, <1>6, <1>7 DEF Poll

LEMMA AloneApprove ==
  ASSUME DeviceAssumption, Inv, AloneInv, NEW u \in Users,
         \/ ApproveWrite(u) \/ ApproveError(u)
         \/ \E d \in Codes : ApproveRead(u, d)
  PROVE  AloneInv'
<1>1. UNCHANGED <<cli, polls, repeats>>
  BY DEF ApproveWrite, ApproveError, ApproveRead
<1>2. CASE row' = row
  BY <1>1, <1>2 DEF AloneInv
<1>3. ASSUME NEW d \in Codes, row[d].status = "pending", row' = Approved(d, u)
      PROVE  AloneInv'
  <2> DEFINE r == [row[d] EXCEPT !.status = "approved", !.user = u]
  <2>1. row[d] \in Rows /\ row' = [row EXCEPT ![d] = r]
    BY <1>3 DEF Inv, Types, Approved
  <2>2. r.status = "approved" /\ (r.claimed <=> row[d].claimed)
    BY <2>1 DEF Rows
  <2>3. \A p \in polls : p.code \in Codes
    BY DEF Inv, Types, Requests
  <2> HIDE DEF r
  <2>4. row'[d] = r /\ \A c \in Codes : c # d => row'[c] = row[c]
    BY <1>3, <2>1 DEF Inv, Types
  <2> QED
    BY <1>1, <1>3, <2>1, <2>2, <2>3, <2>4 DEF AloneInv
<1>4. CASE ApproveWrite(u) \/ ApproveError(u)
  <2>1. PICK d \in Codes : \E a \in Approvals : ApproveAnswer(u, d, a)
    BY <1>4, ApproveAnswers
  <2> QED
    BY <1>2, <1>3, <2>1 DEF ApproveAnswer
<1> QED
  BY <1>2, <1>4 DEF ApproveRead

\* A bearer that the CLI has stored is accepted until it expires, long after its
\* device code, as long as no poll reaches the server a second time.
THEOREM BearerLivesOn ==
  ASSUME DeviceAssumption, MaxRepeats = 0
  PROVE  Spec => []BearerOutlivesCode
<1>1. Init => Inv /\ AloneInv
  BY InvInit DEF Init, AloneInv
<1>2. Inv /\ AloneInv /\ [Next]_vars => Inv' /\ AloneInv'
  <2> SUFFICES ASSUME Inv, AloneInv, [Next]_vars PROVE AloneInv'
    BY InvNext
  <2>1. CASE Tick \/ UNCHANGED vars
    BY <2>1 DEF Tick, vars, AloneInv
  <2>2. CASE \E d \in Codes : Initiate(d) \/ SendPoll(d) \/ RepeatPoll(d)
    BY <2>2, AloneLogin
  <2>3. CASE \E p \in polls : Poll(p)
    BY <2>3, AlonePoll
  <2>4. CASE \E u \in Users : \/ ApproveWrite(u) \/ ApproveError(u)
                             \/ \E d \in Codes : ApproveRead(u, d)
    BY <2>4, AloneApprove
  <2> QED
    BY <2>1, <2>2, <2>3, <2>4 DEF Next
<1>3. Inv /\ AloneInv => BearerOutlivesCode
  BY DEF AloneInv, BearerOutlivesCode, Authenticates
<1> QED
  BY <1>1, <1>2, <1>3, PTL DEF Spec

-----------------------------------------------------------------------------
(* The sync of the checkouts of a project, for any checkouts, keychains and  *)
(* names, however pushes, pulls, users and lost answers interleave.  Nobody  *)
(* names a version that the server has not made (SeenVersionInv), so a       *)
(* version that is named stands for what was read or sent with it; until     *)
(* the last value of a commit is written the version it records need not be  *)
(* held, and a rollback brings back one that was (HeldInv); a keychain never *)
(* replaces a key (CloudKeyInv).                                             *)

CONSTANTS Checkouts, Keychain, KeysFrom, Names, MaxWrites, MaxCalls, MaxFaults,
          ConfigInGit, NoKey

VARIABLES vault, config, remote, keys, call, writes, calls, known, cut, faults

Cloud == INSTANCE CloudSync

\* FiniteSets as CloudSync sees it.
LEMMA SameFiniteInCloud == \A S : Cloud!IsFiniteSet(S) <=> IsFiniteSet(S)
BY DEF Cloud!IsFiniteSet, IsFiniteSet

SecretSets == [Names -> 0..MaxWrites]

Keyed == {KeysFrom[k] : k \in DOMAIN KeysFrom} \cup Checkouts \cup {NoKey}

Configs == [version : Nat, blocked : BOOLEAN]

SyncSteps ==
    {"idle", "key", "makeKey", "crypt", "receipt", "commit", "values", "undo", "undoValues"}

Syncs == [pc : SyncSteps, before : Configs, secrets : SecretSets, read : SecretSets,
          key : Keyed, blobKey : Keyed, force : BOOLEAN, version : Nat,
          left : SUBSET Names, wrote : SUBSET Names]

CloudShape ==
    /\ vault \in [Checkouts -> SecretSets]
    /\ config \in [Checkouts -> Configs]
    /\ remote \in [secrets : SecretSets, key : Keyed, version : Nat]
    /\ keys \in [DOMAIN KeysFrom -> Keyed]
    /\ call \in [Checkouts -> Syncs]
    /\ writes \in 0..MaxWrites /\ calls \in 0..MaxCalls
    /\ known \in [Checkouts -> SUBSET Nat]
    /\ cut \subseteq Checkouts /\ faults \in 0..MaxFaults

\* Nobody knows of a version that the server has not made.
SeenVersionInv ==
    \A c \in Checkouts :
        /\ config[c].version <= remote.version
        /\ call[c].version <= remote.version
        /\ call[c].before.version <= remote.version

\* Every version is that of a sync that can send no other.
MaySend == {c \in Checkouts : call[c].pc \in {"key", "makeKey", "crypt"}}

SyncBudgetInv == remote.version + Cardinality(MaySend) <= calls

\* A commit writes what it has bound.
LeftInv == \A c \in Checkouts : call[c].pc = "values" => call[c].left \subseteq Cloud!Bound(call[c])

CloudInv == CloudShape /\ SeenVersionInv /\ SyncBudgetInv /\ LeftInv

\* What the assumptions say of the types.
LEMMA CloudTypes ==
  ASSUME Cloud!CloudAssumption
  PROVE  /\ \A c \in Checkouts : Keychain[c] \in DOMAIN KeysFrom
         /\ KeysFrom \in [DOMAIN KeysFrom -> Keyed]
         /\ Checkouts \subseteq Keyed /\ NoKey \in Keyed /\ NoKey \notin Checkouts
         /\ IsFiniteSet(Checkouts) /\ MaxWrites \in Nat /\ MaxCalls \in Nat /\ MaxFaults \in Nat
BY SameFiniteInCloud DEF Cloud!CloudAssumption, Keyed

\* The checkout that does not sync.
LEMMA NoSyncTypes ==
  ASSUME Cloud!CloudAssumption
  PROVE  /\ Cloud!NoCall \in Syncs /\ Cloud!Empty \in SecretSets /\ Cloud!NoConfig \in Configs
         /\ Cloud!NoCall.pc = "idle" /\ Cloud!NoCall.version = 0 /\ Cloud!NoCall.before.version = 0
         /\ Cloud!NoCall.before = Cloud!NoConfig /\ Cloud!NoCall.secrets = Cloud!Empty
                  /\ Cloud!NoCall.read = Cloud!Empty
         /\ Cloud!NoCall.key = NoKey /\ Cloud!NoCall.blobKey = NoKey /\ Cloud!NoCall.force = FALSE
         /\ Cloud!NoCall.left = {} /\ Cloud!NoCall.wrote = {}
         /\ Cloud!NoConfig.version = 0 /\ Cloud!NoConfig.blocked = FALSE
         /\ \A n \in Names : Cloud!Empty[n] = 0
<1>1. /\ Cloud!Empty \in SecretSets /\ \A n \in Names : Cloud!Empty[n] = 0
  BY CloudTypes DEF Cloud!Empty, SecretSets
<1>2. Cloud!NoConfig \in Configs /\ Cloud!NoConfig.version = 0 /\ Cloud!NoConfig.blocked = FALSE
  BY DEF Cloud!NoConfig, Configs
<1>3. /\ Cloud!NoCall.pc = "idle" /\ Cloud!NoCall.version = 0 /\ Cloud!NoCall.before = Cloud!NoConfig
      /\ Cloud!NoCall.secrets = Cloud!Empty /\ Cloud!NoCall.read = Cloud!Empty
      /\ Cloud!NoCall.key = NoKey /\ Cloud!NoCall.blobKey = NoKey /\ Cloud!NoCall.force = FALSE
      /\ Cloud!NoCall.left = {} /\ Cloud!NoCall.wrote = {}
  BY DEF Cloud!NoCall
<1>4. Cloud!NoCall \in Syncs
  BY <1>1, <1>2, CloudTypes DEF Cloud!NoCall, Syncs, SyncSteps
<1> QED BY <1>1, <1>2, <1>3, <1>4

\* The number of syncs that may still send.
LEMMA MaySendStep ==
  ASSUME IsFiniteSet(Checkouts), call \in [Checkouts -> Syncs], call' \in [Checkouts -> Syncs],
         NEW c \in Checkouts, \A d \in Checkouts \ {c} : call'[d] = call[d]
  PROVE  /\ Cardinality(MaySend) \in Nat /\ Cardinality(MaySend') \in Nat
         /\ c \in MaySend => Cardinality(MaySend') <= Cardinality(MaySend)
         /\ c \in MaySend /\ c \notin MaySend' => Cardinality(MaySend') = Cardinality(MaySend) - 1
         /\ c \notin MaySend' => Cardinality(MaySend') <= Cardinality(MaySend)
         /\ c \notin MaySend => Cardinality(MaySend') <= Cardinality(MaySend) + 1
<1>1. /\ IsFiniteSet(MaySend) /\ Cardinality(MaySend) \in Nat
      /\ IsFiniteSet(MaySend') /\ Cardinality(MaySend') \in Nat
  <2>1. MaySend \subseteq Checkouts /\ MaySend' \subseteq Checkouts
    BY DEF MaySend
  <2> QED BY <2>1, FS_Subset, FS_CardinalityType
<1>2. MaySend' \ {c} = MaySend \ {c}
  BY DEF MaySend
<1>3. ASSUME c \in MaySend, c \in MaySend' PROVE Cardinality(MaySend') = Cardinality(MaySend)
  <2>1. MaySend' = MaySend
    BY <1>2, <1>3
  <2> QED BY <2>1
<1>4. ASSUME c \in MaySend, c \notin MaySend' PROVE Cardinality(MaySend') = Cardinality(MaySend) - 1
  <2>1. MaySend' = MaySend \ {c}
    BY <1>2, <1>4
  <2> QED BY <2>1, <1>1, <1>4, FS_RemoveElement
<1>5. ASSUME c \notin MaySend, c \notin MaySend' PROVE Cardinality(MaySend') = Cardinality(MaySend)
  <2>1. MaySend' = MaySend
    BY <1>2, <1>5
  <2> QED BY <2>1
<1>6. ASSUME c \notin MaySend, c \in MaySend' PROVE Cardinality(MaySend') = Cardinality(MaySend) + 1
  <2>1. MaySend' = MaySend \cup {c}
    BY <1>2, <1>6
  <2> QED BY <2>1, <1>1, <1>6, FS_AddElement
<1> QED BY <1>1, <1>3, <1>4, <1>5, <1>6

\* The syncs of the others stay as they are.
SyncStep(c, e) ==
    call' \in [Checkouts -> Syncs] /\ call'[c] = e /\ \A d \in Checkouts \ {c} : call'[d] = call[d]

\* A step of one checkout.
LEMMA SyncFrame ==
  ASSUME CloudShape, NEW c \in Checkouts, NEW e \in Syncs, call' = [call EXCEPT ![c] = e]
  PROVE  SyncStep(c, e)
BY DEF SyncStep, CloudShape

\* Steps of a checkout that send nothing.
LEMMA SyncKeeps ==
  ASSUME Cloud!CloudAssumption, CloudInv, NEW c \in Checkouts, NEW e \in Syncs, SyncStep(c, e),
         e.version <= remote.version, e.before.version <= remote.version,
         call[c].pc \in {"key", "makeKey", "crypt"} \/ e.pc \notin {"key", "makeKey", "crypt"},
         e.pc = "values" => e.left \subseteq Cloud!Bound(e),
         cut' \subseteq Checkouts, faults' \in 0..MaxFaults,
         vault' \in [Checkouts -> SecretSets], known' \in [Checkouts -> SUBSET Nat],
         config' \in [Checkouts -> Configs], \A d \in Checkouts : config'[d].version <= remote.version,
         keys' \in [DOMAIN KeysFrom -> Keyed], UNCHANGED <<remote, writes, calls>>
  PROVE  CloudInv'
<1>1. CloudShape /\ SeenVersionInv /\ SyncBudgetInv /\ LeftInv
  BY DEF CloudInv
<1>2. call' \in [Checkouts -> Syncs] /\ call'[c] = e /\ \A d \in Checkouts \ {c} : call'[d] = call[d]
  BY DEF SyncStep
<1>3. CloudShape'
  BY <1>1, <1>2 DEF CloudShape
<1>4. SeenVersionInv'
  BY <1>1, <1>2 DEF SeenVersionInv
<1>5. SyncBudgetInv'
  <2>1. /\ Cardinality(MaySend) \in Nat /\ Cardinality(MaySend') \in Nat
        /\ Cardinality(MaySend') <= Cardinality(MaySend)
    <3>1. c \in MaySend \/ c \notin MaySend'
      BY <1>2 DEF MaySend
    <3> QED BY <3>1, <1>1, <1>2, MaySendStep, CloudTypes DEF CloudShape
  <2>2. remote.version \in Nat /\ calls \in Nat
    BY <1>1, CloudTypes DEF CloudShape
  <2> QED BY <1>1, <2>1, <2>2 DEF SyncBudgetInv
<1>6. LeftInv'
  BY <1>1, <1>2 DEF LeftInv, Cloud!Bound, Cloud!Skipped, Cloud!Held
<1> QED BY <1>3, <1>4, <1>5, <1>6 DEF CloudInv

\* A sync may always end.
LEMMA EndSyncStep ==
  ASSUME Cloud!CloudAssumption, CloudInv, NEW c \in Checkouts, Cloud!End(c),
         vault' \in [Checkouts -> SecretSets], known' \in [Checkouts -> SUBSET Nat],
         config' \in [Checkouts -> Configs], \A d \in Checkouts : config'[d].version <= remote.version,
         cut' \subseteq Checkouts, faults' \in 0..MaxFaults, UNCHANGED <<remote, keys, writes, calls>>
  PROVE  CloudInv'
<1>1. SyncStep(c, Cloud!NoCall) /\ Cloud!NoCall \in Syncs
  BY NoSyncTypes, SyncFrame DEF Cloud!End, CloudInv
<1>2. remote.version \in Nat /\ keys' \in [DOMAIN KeysFrom -> Keyed]
  BY DEF CloudInv, CloudShape
<1>3. Cloud!NoCall.version <= remote.version /\ Cloud!NoCall.before.version <= remote.version
         /\ Cloud!NoCall.pc = "idle"
  BY <1>2, NoSyncTypes
<1> QED BY <1>1, <1>2, <1>3, SyncKeeps

\* A sync that goes on with what it has.
KeptSync(e, f) ==
    /\ e.before = f.before /\ e.secrets = f.secrets /\ e.blobKey = f.blobKey
    /\ e.force = f.force /\ e.version = f.version

\* What looking for a key does to a sync.
LEMMA KeyFields ==
  ASSUME Cloud!CloudAssumption, CloudShape, NEW c \in Checkouts, Cloud!FindKey(c) \/ Cloud!MakeKey(c)
  PROVE  /\ SyncStep(c, call'[c]) /\ call'[c] \in Syncs /\ KeptSync(call'[c], call[c])
         /\ call[c].pc \in {"key", "makeKey"} /\ call'[c].read = call[c].read
         /\ Cloud!FindKey(c) => /\ call'[c].key = keys[Keychain[c]] /\ call[c].pc = "key"
                          /\ call'[c].pc = IF keys[Keychain[c]] = NoKey THEN "makeKey" ELSE "crypt"
         /\ Cloud!MakeKey(c) => /\ call'[c].key = c /\ call'[c].pc = "crypt" /\ call[c].pc = "makeKey"
<1>1. /\ call \in [Checkouts -> Syncs] /\ keys[Keychain[c]] \in Keyed /\ c \in Keyed
  BY CloudTypes DEF CloudShape
<1>2. CASE Cloud!FindKey(c)
  <2> DEFINE k == keys[Keychain[c]]
             s == IF k = NoKey THEN "makeKey" ELSE "crypt"
             e == [call[c] EXCEPT !.key = k, !.pc = s]
  <2>1. call' = [call EXCEPT ![c].key = k, ![c].pc = s] /\ call[c].pc = "key"
    BY <1>2 DEF Cloud!FindKey, Cloud!At
  <2>2. s \in SyncSteps
    BY DEF SyncSteps
  <2> HIDE DEF k, s
  <2>3. e \in Syncs /\ e.key = k /\ e.pc = s /\ KeptSync(e, call[c]) /\ e.read = call[c].read
    BY <1>1, <2>2 DEF Syncs, KeptSync, k
  <2>4. call'[c] = e /\ \A d \in Checkouts \ {c} : call'[d] = call[d]
    BY <1>1, <2>1 DEF Syncs
  <2> HIDE DEF e
  <2>5. call' \in [Checkouts -> Syncs]
    BY <1>1, <2>1, <2>3, <2>4
  <2>6. ~Cloud!MakeKey(c)
    BY <2>1 DEF Cloud!MakeKey, Cloud!At
  <2> QED BY <2>1, <2>3, <2>4, <2>5, <2>6 DEF SyncStep, k, s
<1>3. CASE Cloud!MakeKey(c)
  <2> DEFINE e == [call[c] EXCEPT !.key = c, !.pc = "crypt"]
  <2>1. call' = [call EXCEPT ![c].key = c, ![c].pc = "crypt"] /\ call[c].pc = "makeKey"
    BY <1>3 DEF Cloud!MakeKey, Cloud!At
  <2>3. e \in Syncs /\ e.key = c /\ e.pc = "crypt" /\ KeptSync(e, call[c]) /\ e.read = call[c].read
    BY <1>1 DEF Syncs, KeptSync, SyncSteps
  <2>4. call'[c] = e /\ \A d \in Checkouts \ {c} : call'[d] = call[d]
    BY <1>1, <2>1 DEF Syncs
  <2> HIDE DEF e
  <2>5. call' \in [Checkouts -> Syncs]
    BY <1>1, <2>1, <2>3, <2>4
  <2>6. ~Cloud!FindKey(c)
    BY <2>1 DEF Cloud!FindKey, Cloud!At
  <2> QED BY <2>1, <2>3, <2>4, <2>5, <2>6 DEF SyncStep
<1> QED BY <1>2, <1>3

\* Finding and making a key.
LEMMA KeySyncStep ==
  ASSUME Cloud!CloudAssumption, CloudInv, NEW c \in Checkouts, Cloud!FindKey(c) \/ Cloud!MakeKey(c)
           PROVE CloudInv'
<1>1. CloudShape /\ SeenVersionInv
  BY DEF CloudInv
<1>2. /\ SyncStep(c, call'[c]) /\ call'[c] \in Syncs
      /\ call'[c].version = call[c].version /\ call'[c].before = call[c].before
      /\ call[c].pc \in {"key", "makeKey"} /\ call'[c].pc \in {"makeKey", "crypt"}
  BY <1>1, KeyFields DEF KeptSync
<1>3. keys' \in [DOMAIN KeysFrom -> Keyed] /\ UNCHANGED <<vault, config, remote, writes, calls, known, cut, faults>>
  BY <1>1, CloudTypes DEF Cloud!FindKey, Cloud!MakeKey, CloudShape
<1>4. call'[c].version <= remote.version /\ call'[c].before.version <= remote.version
      /\ \A d \in Checkouts : config[d].version <= remote.version
  BY <1>1, <1>2 DEF SeenVersionInv
<1>5. /\ vault' \in [Checkouts -> SecretSets] /\ known' \in [Checkouts -> SUBSET Nat]
      /\ config' \in [Checkouts -> Configs] /\ cut' \subseteq Checkouts /\ faults' \in 0..MaxFaults
  BY <1>1, <1>3 DEF CloudShape
<1> QED BY <1>2, <1>3, <1>4, <1>5, SyncKeeps

\* What decrypting does to a sync.
LEMMA DecryptFields ==
  ASSUME CloudShape, NEW c \in Checkouts, Cloud!Decrypt(c)
  PROVE  /\ SyncStep(c, call'[c]) /\ call'[c] \in Syncs /\ KeptSync(call'[c], call[c])
         /\ call'[c].pc = "commit" /\ call'[c].read = vault[c] /\ call'[c].key = call[c].key
         /\ call[c].pc = "crypt" /\ call[c].version # 0
<1> DEFINE r == vault[c]
           e == [call[c] EXCEPT !.pc = "commit", !.read = r]
<1>1. call \in [Checkouts -> Syncs] /\ r \in SecretSets
  BY DEF CloudShape
<1>2. call' = [call EXCEPT ![c].pc = "commit", ![c].read = r] /\ call[c].pc = "crypt" /\ call[c].version # 0
  BY DEF Cloud!Decrypt, Cloud!At, Cloud!Pushing
<1> HIDE DEF r
<1>3. e \in Syncs /\ e.read = r /\ e.pc = "commit" /\ KeptSync(e, call[c]) /\ e.key = call[c].key
  BY <1>1 DEF Syncs, KeptSync, SyncSteps
<1>4. call'[c] = e /\ \A d \in Checkouts \ {c} : call'[d] = call[d]
  BY <1>1, <1>2 DEF Syncs
<1> HIDE DEF e
<1>5. call' \in [Checkouts -> Syncs]
  BY <1>1, <1>2, <1>3, <1>4
<1> QED BY <1>2, <1>3, <1>4, <1>5 DEF SyncStep, r

\* A sync that goes on.
LEMMA GoSyncFields ==
  ASSUME CloudShape, NEW c \in Checkouts, NEW s \in SyncSteps, Cloud!Go(c, s)
  PROVE  /\ SyncStep(c, call'[c]) /\ call'[c] \in Syncs /\ KeptSync(call'[c], call[c])
         /\ call'[c].pc = s /\ call'[c].key = call[c].key /\ call'[c].read = call[c].read
         /\ call'[c].left = call[c].left /\ call'[c].wrote = call[c].wrote
<1> DEFINE e == [call[c] EXCEPT !.pc = s]
<1>1. call \in [Checkouts -> Syncs] /\ call' = [call EXCEPT ![c].pc = s]
  BY DEF CloudShape, Cloud!Go
<1>3. /\ e \in Syncs /\ e.pc = s /\ KeptSync(e, call[c]) /\ e.key = call[c].key
      /\ e.read = call[c].read /\ e.left = call[c].left /\ e.wrote = call[c].wrote
  BY <1>1 DEF Syncs, KeptSync
<1>4. call'[c] = e /\ \A d \in Checkouts \ {c} : call'[d] = call[d]
  BY <1>1 DEF Syncs
<1> HIDE DEF e
<1>5. call' \in [Checkouts -> Syncs]
  BY <1>1, <1>3, <1>4
<1> QED BY <1>3, <1>4, <1>5 DEF SyncStep

\* The steps between the answer and its effect.
LEMMA LocalStep ==
  ASSUME Cloud!CloudAssumption, CloudInv, NEW c \in Checkouts, Cloud!Decrypt(c)
           \/ Cloud!Undecryptable(c) \/ Cloud!CheckNames(c)
  PROVE  CloudInv'
<1>1. CloudShape /\ SeenVersionInv
  BY DEF CloudInv
<1>2. UNCHANGED <<vault, config, remote, keys, writes, calls, known, cut, faults>>
  BY DEF Cloud!Decrypt, Cloud!Undecryptable, Cloud!CheckNames
<1>3. /\ vault' \in [Checkouts -> SecretSets] /\ known' \in [Checkouts -> SUBSET Nat]
      /\ config' \in [Checkouts -> Configs] /\ keys' \in [DOMAIN KeysFrom -> Keyed]
      /\ \A d \in Checkouts : config'[d].version <= remote.version
      /\ cut' \subseteq Checkouts /\ faults' \in 0..MaxFaults
  BY <1>1, <1>2 DEF CloudShape, SeenVersionInv
<1>4. CASE Cloud!End(c)
  BY <1>2, <1>3, <1>4, EndSyncStep
<1>5. CASE Cloud!Decrypt(c) \/ (Cloud!CheckNames(c) /\ Cloud!Go(c, "commit"))
  <2>1. /\ SyncStep(c, call'[c]) /\ call'[c] \in Syncs /\ KeptSync(call'[c], call[c])
        /\ call'[c].pc = "commit"
    BY <1>1, <1>5, DecryptFields, GoSyncFields DEF SyncSteps
  <2>2. call'[c].version <= remote.version /\ call'[c].before.version <= remote.version
    BY <1>1, <2>1 DEF SeenVersionInv, KeptSync
  <2> QED BY <1>2, <1>3, <2>1, <2>2, SyncKeeps
<1> QED BY <1>4, <1>5 DEF Cloud!Undecryptable, Cloud!CheckNames

\* The effect of a step of commit_init on its own call.
CommitGoes(c, s, l, w) ==
    /\ SyncStep(c, call'[c]) /\ call'[c] \in Syncs /\ KeptSync(call'[c], call[c])
    /\ call'[c].read = call[c].read
    /\ call'[c].pc = s /\ call'[c].left = l /\ call'[c].wrote = w

\* A commit goes on with other sets of names.
LEMMA CommitGoesOn ==
  ASSUME CloudShape, NEW c \in Checkouts, NEW s \in SyncSteps, NEW l \in SUBSET Names, NEW w \in SUBSET Names,
         call' = [call EXCEPT ![c] = [call[c] EXCEPT !.pc = s, !.left = l, !.wrote = w]]
  PROVE  CommitGoes(c, s, l, w)
<1> DEFINE e == [call[c] EXCEPT !.pc = s, !.left = l, !.wrote = w]
<1>1. call \in [Checkouts -> Syncs] /\ call[c] \in Syncs
  BY DEF CloudShape
<1>2. /\ e \in Syncs /\ e.pc = s /\ e.left = l /\ e.wrote = w /\ KeptSync(e, call[c])
      /\ e.read = call[c].read
  BY <1>1 DEF Syncs, KeptSync
<1>3. call' = [call EXCEPT ![c] = e]
  OBVIOUS
<1> HIDE DEF e
<1>4. SyncStep(c, e)
  BY <1>2, <1>3, SyncFrame
<1> QED BY <1>2, <1>4 DEF CommitGoes, SyncStep

\* The ways in which a commit goes on.
LEMMA CommitForms ==
  ASSUME CloudShape, NEW c \in Checkouts, NEW l \in SUBSET Names, NEW w \in SUBSET Names
  PROVE  /\ call' = [call EXCEPT ![c].pc = "values", ![c].left = l]
                => CommitGoes(c, "values", l, call[c].wrote)
         /\ Cloud!Undo(c, w) => CommitGoes(c, "undo", call[c].left, w)
         /\ \A n \in Names :
              call' = [call EXCEPT ![c].left = @ \ {n}, ![c].wrote = @ \cup {n}]
                => CommitGoes(c, call[c].pc, call[c].left \ {n}, call[c].wrote \cup {n})
         /\ \A n \in Names :
              call' = [call EXCEPT ![c].wrote = @ \ {n}]
                => CommitGoes(c, call[c].pc, call[c].left, call[c].wrote \ {n})
         /\ Cloud!Go(c, "undoValues") => CommitGoes(c, "undoValues", call[c].left, call[c].wrote)
<1>1. /\ call \in [Checkouts -> Syncs] /\ call[c] \in Syncs
      /\ call[c].pc \in SyncSteps /\ call[c].left \in SUBSET Names /\ call[c].wrote \in SUBSET Names
  BY DEF CloudShape, Syncs
<1>3. {"values", "undo", "undoValues"} \subseteq SyncSteps
  BY DEF SyncSteps
<1>4. ASSUME call' = [call EXCEPT ![c].pc = "values", ![c].left = l]
      PROVE  CommitGoes(c, "values", l, call[c].wrote)
  <2> DEFINE v == call[c].wrote
             e == [call[c] EXCEPT !.pc = "values", !.left = l, !.wrote = v]
  <2>1. call' = [call EXCEPT ![c] = e]
    BY <1>1, <1>4 DEF Syncs
  <2> QED BY <1>1, <1>3, <2>1, CommitGoesOn
<1>5. ASSUME Cloud!Undo(c, w) PROVE CommitGoes(c, "undo", call[c].left, w)
  <2> DEFINE v == call[c].left
             e == [call[c] EXCEPT !.pc = "undo", !.left = v, !.wrote = w]
  <2>1. call' = [call EXCEPT ![c] = e]
    BY <1>1, <1>5 DEF Syncs, Cloud!Undo
  <2> QED BY <1>1, <1>3, <2>1, CommitGoesOn
<1>6. ASSUME NEW n \in Names, call' = [call EXCEPT ![c].left = @ \ {n}, ![c].wrote = @ \cup {n}]
      PROVE  CommitGoes(c, call[c].pc, call[c].left \ {n}, call[c].wrote \cup {n})
  <2> DEFINE s == call[c].pc
             u == call[c].left \ {n}
             v == call[c].wrote \cup {n}
             e == [call[c] EXCEPT !.pc = s, !.left = u, !.wrote = v]
  <2>0. u \in SUBSET Names /\ v \in SUBSET Names /\ s \in SyncSteps
    BY <1>1
  <2>1. call' = [call EXCEPT ![c] = e]
    BY <1>1, <1>6 DEF Syncs
  <2> HIDE DEF s, u, v
  <2>2. CommitGoes(c, s, u, v)
    BY <2>0, <2>1, CommitGoesOn
  <2> QED BY <2>2 DEF s, u, v
<1>7. ASSUME NEW n \in Names, call' = [call EXCEPT ![c].wrote = @ \ {n}]
      PROVE  CommitGoes(c, call[c].pc, call[c].left, call[c].wrote \ {n})
  <2> DEFINE s == call[c].pc
             u == call[c].left
             v == call[c].wrote \ {n}
             e == [call[c] EXCEPT !.pc = s, !.left = u, !.wrote = v]
  <2>0. u \in SUBSET Names /\ v \in SUBSET Names /\ s \in SyncSteps
    BY <1>1
  <2>1. call' = [call EXCEPT ![c] = e]
    BY <1>1, <1>7 DEF Syncs
  <2> HIDE DEF s, u, v
  <2>2. CommitGoes(c, s, u, v)
    BY <2>0, <2>1, CommitGoesOn
  <2> QED BY <2>2 DEF s, u, v
<1>8. ASSUME Cloud!Go(c, "undoValues") PROVE CommitGoes(c, "undoValues", call[c].left, call[c].wrote)
  BY <1>3, <1>8, GoSyncFields DEF CommitGoes
<1> QED BY <1>4, <1>5, <1>6, <1>7, <1>8

\* What a commit may count and record.
LEMMA CommitRecords ==
  ASSUME Cloud!CloudAssumption, CloudShape, NEW c \in Checkouts
  PROVE  /\ Cloud!Fault \/ UNCHANGED faults => faults' \in 0..MaxFaults
         /\ Cloud!Bound(call[c]) \in SUBSET Names /\ Cloud!After(call[c]) \in Configs
         /\ Cloud!Skipped(call[c]) = {} => Cloud!After(call[c]).version = call[c].version
         /\ Cloud!Skipped(call[c]) # {} => /\ Cloud!After(call[c]).version = call[c].before.version
                                          /\ Cloud!After(call[c]).blocked = TRUE
<1>1. /\ call[c].before \in Configs /\ call[c].version \in Nat /\ faults \in 0..MaxFaults /\ MaxFaults \in Nat
  BY CloudTypes DEF CloudShape, Syncs
<1>2. Cloud!Fault \/ UNCHANGED faults => faults' \in 0..MaxFaults
  BY <1>1 DEF Cloud!Fault
<1>3. Cloud!Bound(call[c]) \in SUBSET Names
  BY DEF Cloud!Bound, Cloud!Held
<1>4. CASE Cloud!Skipped(call[c]) = {}
  BY <1>1, <1>2, <1>3, <1>4 DEF Cloud!After, Configs
<1>5. CASE Cloud!Skipped(call[c]) # {}
  <2> DEFINE b == call[c].before
  <2>1. Cloud!After(call[c]) = [b EXCEPT !.blocked = TRUE] /\ b \in Configs
    BY <1>1, <1>5 DEF Cloud!After
  <2> HIDE DEF b
  <2>2. /\ Cloud!After(call[c]) \in Configs /\ Cloud!After(call[c]).version = b.version
        /\ Cloud!After(call[c]).blocked = TRUE
    BY <2>1 DEF Configs
  <2> QED BY <1>2, <1>3, <1>5, <2>2 DEF b
<1> QED BY <1>4, <1>5

\* .phantom.toml is replaced, or nothing is.
LEMMA ConfigFields ==
  ASSUME Cloud!CloudAssumption, CloudShape, NEW c \in Checkouts, Cloud!CommitConfig(c)
  PROVE  /\ call[c].pc = "commit" /\ UNCHANGED <<vault, remote, keys, writes, calls, known>>
         /\ faults' \in 0..MaxFaults
         /\ \/ Cloud!End(c) /\ config' = config /\ cut' = cut
            \/ /\ config' = [config EXCEPT ![c] = Cloud!After(call[c])]
               /\ \/ Cloud!Bound(call[c]) = {} /\ Cloud!Done(c)
                  \/ CommitGoes(c, "values", Cloud!Bound(call[c]), call[c].wrote) /\ cut' = cut
                  \/ CommitGoes(c, "undo", call[c].left, {}) /\ cut' = cut
<1>1. /\ call[c].pc = "commit" /\ UNCHANGED <<vault, remote, keys, writes, calls, known>>
      /\ Cloud!Fault \/ UNCHANGED faults
  BY DEF Cloud!CommitConfig, Cloud!At
<1>2. \/ Cloud!End(c) /\ config' = config /\ cut' = cut
      \/ /\ config' = [config EXCEPT ![c] = Cloud!After(call[c])]
         /\ \/ Cloud!Bound(call[c]) = {} /\ Cloud!Done(c)
            \/ /\ call' = [call EXCEPT ![c].pc = "values", ![c].left = Cloud!Bound(call[c])]
               /\ cut' = cut
            \/ Cloud!Undo(c, {}) /\ cut' = cut
  BY DEF Cloud!CommitConfig
<1>3. /\ Cloud!Bound(call[c]) \in SUBSET Names /\ faults' \in 0..MaxFaults
  BY <1>1, CommitRecords
<1>4. call' = [call EXCEPT ![c].pc = "values", ![c].left = Cloud!Bound(call[c])]
        => CommitGoes(c, "values", Cloud!Bound(call[c]), call[c].wrote)
  <2> DEFINE l == Cloud!Bound(call[c])
  <2>1. l \in SUBSET Names
    BY <1>3
  <2> HIDE DEF l
  <2>2. call' = [call EXCEPT ![c].pc = "values", ![c].left = l] => CommitGoes(c, "values", l, call[c].wrote)
    BY <2>1, CommitForms
  <2> QED BY <2>2 DEF l
<1>5. Cloud!Undo(c, {}) => CommitGoes(c, "undo", call[c].left, {})
  <2>1. {} \in SUBSET Names
    OBVIOUS
  <2> QED BY <2>1, CommitForms
<1> QED BY <1>1, <1>2, <1>3, <1>4, <1>5

\* One value of a vault is replaced.
LEMMA OneValue ==
  ASSUME vault \in [Checkouts -> SecretSets], NEW c \in Checkouts, NEW n \in Names, NEW x \in 0..MaxWrites,
         vault' = [vault EXCEPT ![c][n] = x]
  PROVE  /\ vault' \in [Checkouts -> SecretSets] /\ vault'[c][n] = x
         /\ \A d \in Checkouts \ {c} : vault'[d] = vault[d]
         /\ \A m \in Names \ {n} : vault'[c][m] = vault[c][m]
<1>1. vault[c] \in SecretSets
  OBVIOUS
<1> DEFINE v == [vault[c] EXCEPT ![n] = x]
<1>2. v \in SecretSets /\ v[n] = x /\ \A m \in Names \ {n} : v[m] = vault[c][m]
  BY <1>1 DEF SecretSets
<1>3. vault' = [vault EXCEPT ![c] = v]
  OBVIOUS
<1> HIDE DEF v
<1> QED BY <1>2, <1>3

\* A value is refused or written.
LEMMA ValueFields ==
  ASSUME Cloud!CloudAssumption, CloudShape, NEW c \in Checkouts, NEW n \in Names,
         Cloud!RefuseValue(c, n) \/ Cloud!CommitValue(c, n)
  PROVE  /\ call[c].pc = "values" /\ n \in call[c].left /\ UNCHANGED <<config, remote, keys, writes, calls>>
         /\ faults' \in 0..MaxFaults
         /\ \/ /\ UNCHANGED <<vault, known, cut>> /\ CommitGoes(c, "undo", call[c].left, call[c].wrote)
            \/ /\ Cloud!CommitValue(c, n) /\ vault[c][n] = call[c].read[n]
               /\ vault' = [vault EXCEPT ![c][n] = call[c].secrets[n]]
               /\ known' = [known EXCEPT ![c] = @ \cup {call[c].secrets[n]}]
               /\ \/ call[c].left = {n} /\ Cloud!Done(c)
                  \/ /\ CommitGoes(c, "values", call[c].left \ {n}, call[c].wrote \cup {n})
                     /\ cut' = cut
                  \/ CommitGoes(c, "undo", call[c].left, call[c].wrote \cup {n}) /\ cut' = cut
<1>1. /\ call[c].pc = "values" /\ n \in call[c].left /\ UNCHANGED <<config, remote, keys, writes, calls>>
      /\ Cloud!Fault \/ UNCHANGED faults
  BY DEF Cloud!RefuseValue, Cloud!CommitValue, Cloud!At
<1>2. call[c].wrote \in SUBSET Names /\ call[c].wrote \cup {n} \in SUBSET Names
  BY DEF CloudShape, Syncs
<1>3. faults' \in 0..MaxFaults
  BY <1>1, CommitRecords
<1>4. CASE Cloud!RefuseValue(c, n)
  <2>1. UNCHANGED <<vault, known, cut>> /\ Cloud!Undo(c, call[c].wrote)
    BY <1>4 DEF Cloud!RefuseValue
  <2> DEFINE w == call[c].wrote
  <2>2. w \in SUBSET Names /\ Cloud!Undo(c, w)
    BY <1>2, <2>1
  <2> HIDE DEF w
  <2>3. CommitGoes(c, "undo", call[c].left, w)
    BY <2>2, CommitForms
  <2> QED BY <1>1, <1>3, <2>1, <2>3 DEF w
<1>5. CASE Cloud!CommitValue(c, n)
  <2>1. /\ vault[c][n] = call[c].read[n]
        /\ vault' = [vault EXCEPT ![c][n] = call[c].secrets[n]]
        /\ known' = [known EXCEPT ![c] = @ \cup {call[c].secrets[n]}]
        /\ \/ call[c].left = {n} /\ Cloud!Done(c)
           \/ /\ call' = [call EXCEPT ![c].left = @ \ {n}, ![c].wrote = @ \cup {n}]
              /\ cut' = cut
           \/ Cloud!Undo(c, call[c].wrote \cup {n}) /\ cut' = cut
    BY <1>5 DEF Cloud!CommitValue
  <2>2. call' = [call EXCEPT ![c].left = @ \ {n}, ![c].wrote = @ \cup {n}]
          => CommitGoes(c, "values", call[c].left \ {n}, call[c].wrote \cup {n})
    BY <1>1, CommitForms
  <2>3. Cloud!Undo(c, call[c].wrote \cup {n}) => CommitGoes(c, "undo", call[c].left, call[c].wrote \cup {n})
    <3> DEFINE w == call[c].wrote \cup {n}
    <3>1. w \in SUBSET Names
      BY <1>2
    <3> HIDE DEF w
    <3>2. Cloud!Undo(c, w) => CommitGoes(c, "undo", call[c].left, w)
      BY <3>1, CommitForms
    <3> QED BY <3>2 DEF w
  <2> QED BY <1>1, <1>3, <1>5, <2>1, <2>2, <2>3
<1> QED BY <1>4, <1>5

\* Config and values go back, or the process dies.
LEMMA UndoFields ==
  ASSUME Cloud!CloudAssumption, CloudShape, NEW c \in Checkouts
  PROVE  /\ Cloud!UndoConfig(c) =>
              /\ call[c].pc = "undo" /\ UNCHANGED <<vault, remote, keys, writes, calls, known>>
              /\ faults' \in 0..MaxFaults
              /\ \/ config' = [config EXCEPT ![c] = call[c].before] /\ cut' = cut
                 \/ config' = config /\ cut' = cut \cup {c}
              /\ Cloud!End(c) \/ CommitGoes(c, "undoValues", call[c].left, call[c].wrote)
         /\ \A n \in Names : Cloud!UndoValue(c, n) =>
              /\ call[c].pc = "undoValues" /\ n \in call[c].wrote
              /\ UNCHANGED <<config, remote, keys, writes, calls, known, cut>>
              /\ faults' \in 0..MaxFaults
              /\ \/ vault' = vault
                 \/ vault[c][n] = call[c].secrets[n] /\ vault' = [vault EXCEPT ![c][n] = call[c].read[n]]
              /\ Cloud!End(c) \/ CommitGoes(c, "undoValues", call[c].left, call[c].wrote \ {n})
         /\ Cloud!Die(c) =>
              /\ call[c].pc # "idle" /\ UNCHANGED <<vault, config, remote, keys, writes, calls, known>>
              /\ faults' \in 0..MaxFaults /\ Cloud!End(c)
              /\ cut' = IF call[c].pc \in {"values", "undo"} THEN cut \cup {c} ELSE cut
<1>1. ASSUME Cloud!UndoConfig(c)
      PROVE  /\ call[c].pc = "undo" /\ UNCHANGED <<vault, remote, keys, writes, calls, known>>
             /\ faults' \in 0..MaxFaults
             /\ \/ config' = [config EXCEPT ![c] = call[c].before] /\ cut' = cut
                \/ config' = config /\ cut' = cut \cup {c}
             /\ Cloud!End(c) \/ CommitGoes(c, "undoValues", call[c].left, call[c].wrote)
  <2>1. /\ call[c].pc = "undo" /\ UNCHANGED <<vault, remote, keys, writes, calls, known>>
        /\ Cloud!Fault \/ UNCHANGED faults
        /\ \/ config' = [config EXCEPT ![c] = call[c].before] /\ cut' = cut
           \/ config' = config /\ cut' = cut \cup {c}
        /\ Cloud!End(c) \/ Cloud!Go(c, "undoValues")
    BY <1>1 DEF Cloud!UndoConfig, Cloud!At
  <2>2. {} \in SUBSET Names
    OBVIOUS
  <2> QED BY <2>1, <2>2, CommitForms, CommitRecords
<1>2. ASSUME NEW n \in Names, Cloud!UndoValue(c, n)
      PROVE  /\ call[c].pc = "undoValues" /\ n \in call[c].wrote
             /\ UNCHANGED <<config, remote, keys, writes, calls, known, cut>>
             /\ faults' \in 0..MaxFaults
             /\ \/ vault' = vault
                \/ vault[c][n] = call[c].secrets[n] /\ vault' = [vault EXCEPT ![c][n] = call[c].read[n]]
             /\ Cloud!End(c) \/ CommitGoes(c, "undoValues", call[c].left, call[c].wrote \ {n})
  <2>1. /\ call[c].pc = "undoValues" /\ n \in call[c].wrote
        /\ UNCHANGED <<config, remote, keys, writes, calls, known, cut>>
        /\ Cloud!Fault \/ UNCHANGED faults
        /\ \/ vault' = vault
           \/ vault[c][n] = call[c].secrets[n] /\ vault' = [vault EXCEPT ![c][n] = call[c].read[n]]
        /\ Cloud!End(c) \/ call' = [call EXCEPT ![c].wrote = @ \ {n}]
    BY <1>2 DEF Cloud!UndoValue, Cloud!At
  <2>2. {} \in SUBSET Names
    OBVIOUS
  <2>3. call' = [call EXCEPT ![c].wrote = @ \ {n}]
          => CommitGoes(c, "undoValues", call[c].left, call[c].wrote \ {n})
    BY <2>1, <2>2, CommitForms
  <2> QED BY <2>1, <2>3, CommitRecords
<1>3. ASSUME Cloud!Die(c)
      PROVE  /\ call[c].pc # "idle" /\ UNCHANGED <<vault, config, remote, keys, writes, calls, known>>
             /\ faults' \in 0..MaxFaults /\ Cloud!End(c)
             /\ cut' = IF call[c].pc \in {"values", "undo"} THEN cut \cup {c} ELSE cut
  BY <1>3, CommitRecords DEF Cloud!Die, Cloud!At
<1> QED BY <1>1, <1>2, <1>3

\* A step of commit_init, of its rollback, or the death of the process.
Commits(c) ==
    \/ Cloud!CommitConfig(c) \/ Cloud!UndoConfig(c) \/ Cloud!Die(c)
    \/ \E n \in Names : Cloud!RefuseValue(c, n) \/ Cloud!CommitValue(c, n) \/ Cloud!UndoValue(c, n)

\* What every one of them leaves alone, and how its call goes on.
LEMMA CommitFields ==
  ASSUME Cloud!CloudAssumption, CloudInv, NEW c \in Checkouts, Commits(c)
  PROVE  /\ UNCHANGED <<remote, keys, writes, calls>> /\ faults' \in 0..MaxFaults
         /\ vault' \in [Checkouts -> SecretSets] /\ known' \in [Checkouts -> SUBSET Nat]
         /\ \A d \in Checkouts \ {c} : /\ vault'[d] = vault[d] /\ config'[d] = config[d]
                                     /\ known'[d] = known[d] /\ call'[d] = call[d]
         /\ known[c] \subseteq known'[c]
         /\ config'[c] \in {config[c], Cloud!After(call[c]), call[c].before}
         /\ config' \in [Checkouts -> Configs] /\ cut' \subseteq Checkouts
         /\ \A d \in Checkouts \ {c} : d \in cut' <=> d \in cut
         /\ \/ Cloud!End(c)
            \/ \E s \in {"values", "undo", "undoValues"}, l, w \in SUBSET Names :
                  CommitGoes(c, s, l, w) /\ (s = "values" => l \subseteq Cloud!Bound(call[c]))
<1>1. CloudShape /\ LeftInv
  BY DEF CloudInv
<1>2. /\ vault \in [Checkouts -> SecretSets] /\ known \in [Checkouts -> SUBSET Nat]
      /\ config \in [Checkouts -> Configs] /\ cut \subseteq Checkouts
      /\ call[c].secrets \in SecretSets /\ call[c].read \in SecretSets
      /\ call[c].before \in Configs /\ Cloud!After(call[c]) \in Configs
      /\ call[c].left \in SUBSET Names /\ call[c].wrote \in SUBSET Names /\ Cloud!Bound(call[c]) \in SUBSET Names
  BY <1>1, CommitRecords DEF CloudShape, Syncs
<1>3. Cloud!End(c) => \A d \in Checkouts \ {c} : call'[d] = call[d]
  BY <1>1 DEF Cloud!End, CloudShape
<1>4. \A s, l, w : CommitGoes(c, s, l, w) => \A d \in Checkouts \ {c} : call'[d] = call[d]
  BY DEF CommitGoes, SyncStep
<1>5. CASE Cloud!CommitConfig(c)
  <2>1. Cloud!Done(c) => Cloud!End(c) /\ cut' \in {cut, cut \ {c}}
    BY DEF Cloud!Done
  <2>2. \/ Cloud!End(c) /\ config' = config /\ cut' = cut
        \/ /\ config' = [config EXCEPT ![c] = Cloud!After(call[c])]
           /\ \/ Cloud!End(c) /\ cut' \in {cut, cut \ {c}}
              \/ CommitGoes(c, "values", Cloud!Bound(call[c]), call[c].wrote) /\ cut' = cut
              \/ CommitGoes(c, "undo", call[c].left, {}) /\ cut' = cut
    BY <1>1, <1>5, <2>1, ConfigFields
  <2>3. UNCHANGED <<vault, remote, keys, writes, calls, known>> /\ faults' \in 0..MaxFaults
    BY <1>1, <1>5, ConfigFields
  <2> QED BY <1>2, <1>3, <1>4, <2>2, <2>3
<1>6. CASE \E n \in Names : Cloud!RefuseValue(c, n) \/ Cloud!CommitValue(c, n)
  <2> PICK n \in Names : Cloud!RefuseValue(c, n) \/ Cloud!CommitValue(c, n)
    BY <1>6
  <2>1. Cloud!Done(c) => Cloud!End(c) /\ cut' \in {cut, cut \ {c}}
    BY DEF Cloud!Done
  <2>2. /\ UNCHANGED <<config, remote, keys, writes, calls>> /\ faults' \in 0..MaxFaults
        /\ call[c].pc = "values"
        /\ \/ UNCHANGED <<vault, known, cut>> /\ CommitGoes(c, "undo", call[c].left, call[c].wrote)
           \/ /\ vault' = [vault EXCEPT ![c][n] = call[c].secrets[n]]
              /\ known' = [known EXCEPT ![c] = @ \cup {call[c].secrets[n]}]
              /\ \/ Cloud!End(c) /\ cut' \in {cut, cut \ {c}}
                 \/ CommitGoes(c, "values", call[c].left \ {n}, call[c].wrote \cup {n}) /\ cut' = cut
                 \/ CommitGoes(c, "undo", call[c].left, call[c].wrote \cup {n}) /\ cut' = cut
    BY <1>1, <2>1, ValueFields
  <2>3. call[c].left \ {n} \subseteq Cloud!Bound(call[c])
    BY <1>1, <2>2 DEF LeftInv
  <2>4. /\ call[c].wrote \cup {n} \in SUBSET Names /\ call[c].left \ {n} \in SUBSET Names
        /\ call[c].secrets[n] \in 0..MaxWrites /\ call[c].secrets[n] \in Nat
    BY <1>2, CloudTypes DEF SecretSets
  <2> DEFINE x == call[c].secrets[n]
  <2>5. vault' = vault \/ vault' = [vault EXCEPT ![c][n] = x]
    BY <2>2
  <2>6. known' = known \/ known' = [known EXCEPT ![c] = @ \cup {x}]
    BY <2>2
  <2>7. x \in 0..MaxWrites /\ x \in Nat
    BY <2>4
  <2> HIDE DEF x
  <2>8. vault' \in [Checkouts -> SecretSets] /\ \A d \in Checkouts \ {c} : vault'[d] = vault[d]
    BY <1>2, <2>5, <2>7, OneValue
  <2>9. /\ known' \in [Checkouts -> SUBSET Nat] /\ \A d \in Checkouts \ {c} : known'[d] = known[d]
        /\ known[c] \subseteq known'[c]
    BY <1>2, <2>6, <2>7
  <2>10. /\ \/ Cloud!End(c)
            \/ \E s \in {"values", "undo", "undoValues"}, l, w \in SUBSET Names :
                  CommitGoes(c, s, l, w) /\ (s = "values" => l \subseteq Cloud!Bound(call[c]))
         /\ \A d \in Checkouts \ {c} : call'[d] = call[d]
    BY <1>2, <1>3, <1>4, <2>2, <2>3, <2>4
  <2>11. cut' \subseteq Checkouts /\ \A d \in Checkouts \ {c} : d \in cut' <=> d \in cut
    BY <1>2, <2>2
  <2> QED BY <1>2, <2>2, <2>8, <2>9, <2>10, <2>11
<1>7. CASE Cloud!UndoConfig(c)
  <2>1. /\ UNCHANGED <<vault, remote, keys, writes, calls, known>> /\ faults' \in 0..MaxFaults
        /\ \/ config' = [config EXCEPT ![c] = call[c].before] /\ cut' = cut
           \/ config' = config /\ cut' = cut \cup {c}
        /\ Cloud!End(c) \/ CommitGoes(c, "undoValues", call[c].left, call[c].wrote)
    BY <1>1, <1>7, UndoFields
  <2> QED BY <1>2, <1>3, <1>4, <2>1
<1>8. CASE \E n \in Names : Cloud!UndoValue(c, n)
  <2> PICK n \in Names : Cloud!UndoValue(c, n)
    BY <1>8
  <2>1. /\ UNCHANGED <<config, remote, keys, writes, calls, known, cut>> /\ faults' \in 0..MaxFaults
        /\ vault' = vault \/ vault' = [vault EXCEPT ![c][n] = call[c].read[n]]
        /\ Cloud!End(c) \/ CommitGoes(c, "undoValues", call[c].left, call[c].wrote \ {n})
    BY <1>1, UndoFields
  <2>2. call[c].read[n] \in 0..MaxWrites
    BY <1>2 DEF SecretSets
  <2>3. vault' \in [Checkouts -> SecretSets] /\ \A d \in Checkouts \ {c} : vault'[d] = vault[d]
    BY <1>2, <2>1, <2>2, OneValue
  <2>4. call[c].wrote \ {n} \in SUBSET Names
    BY <1>2
  <2> QED BY <1>2, <1>3, <1>4, <2>1, <2>3, <2>4
<1>9. CASE Cloud!Die(c)
  <2>1. /\ UNCHANGED <<vault, config, remote, keys, writes, calls, known>> /\ faults' \in 0..MaxFaults
        /\ Cloud!End(c) /\ cut' \in {cut, cut \cup {c}}
    BY <1>1, <1>9, UndoFields
  <2> QED BY <1>2, <1>3, <2>1
<1> QED BY <1>5, <1>6, <1>7, <1>8, <1>9 DEF Commits

\* Every one of them keeps the invariant.
LEMMA CommitStep ==
  ASSUME Cloud!CloudAssumption, CloudInv, NEW c \in Checkouts, Commits(c) PROVE CloudInv'
<1>1. CloudShape /\ SeenVersionInv
  BY DEF CloudInv
<1>2. /\ UNCHANGED <<remote, keys, writes, calls>> /\ faults' \in 0..MaxFaults /\ cut' \subseteq Checkouts
      /\ vault' \in [Checkouts -> SecretSets] /\ known' \in [Checkouts -> SUBSET Nat]
      /\ config' \in [Checkouts -> Configs]
  BY CommitFields
<1>3. \A d \in Checkouts : config'[d].version <= remote.version
  <2>1. \A d \in Checkouts \ {c} : config'[d] = config[d]
    BY CommitFields
  <2>2. config'[c] \in {config[c], Cloud!After(call[c]), call[c].before}
    BY CommitFields
  <2>3. Cloud!After(call[c]).version \in {call[c].version, call[c].before.version}
    BY <1>1, CommitRecords
  <2> QED BY <1>1, <2>1, <2>2, <2>3 DEF SeenVersionInv
<1>4. CASE Cloud!End(c)
  BY <1>2, <1>3, <1>4, EndSyncStep
<1>5. CASE \E s \in {"values", "undo", "undoValues"}, l, w \in SUBSET Names :
              CommitGoes(c, s, l, w) /\ (s = "values" => l \subseteq Cloud!Bound(call[c]))
  <2> PICK s \in {"values", "undo", "undoValues"}, l \in SUBSET Names, w \in SUBSET Names :
              CommitGoes(c, s, l, w) /\ (s = "values" => l \subseteq Cloud!Bound(call[c]))
    BY <1>5
  <2>1. /\ SyncStep(c, call'[c]) /\ call'[c] \in Syncs /\ KeptSync(call'[c], call[c])
        /\ call'[c].read = call[c].read /\ call'[c].pc = s /\ call'[c].left = l
    BY DEF CommitGoes
  <2>2. Cloud!Bound(call'[c]) = Cloud!Bound(call[c])
    BY <2>1 DEF KeptSync, Cloud!Bound, Cloud!Skipped, Cloud!Held
  <2>3. call'[c].version <= remote.version /\ call'[c].before.version <= remote.version
    BY <1>1, <2>1 DEF SeenVersionInv, KeptSync
  <2>4. keys' \in [DOMAIN KeysFrom -> Keyed]
    BY <1>1, <1>2 DEF CloudShape
  <2> DEFINE e == call'[c]
  <2>5. /\ e \in Syncs /\ SyncStep(c, e) /\ e.version <= remote.version /\ e.before.version <= remote.version
        /\ e.pc \notin {"key", "makeKey", "crypt"} /\ (e.pc = "values" => e.left \subseteq Cloud!Bound(e))
    BY <2>1, <2>2, <2>3
  <2> HIDE DEF e
  <2> QED BY <1>2, <1>3, <2>4, <2>5, SyncKeeps
<1> QED BY <1>4, <1>5, CommitFields

\* The server takes the push or does not; the answer may be lost.
LEMMA SendFields ==
  ASSUME Cloud!CloudAssumption, CloudShape, NEW c \in Checkouts, Cloud!Send(c)
  PROVE  /\ SyncStep(c, call'[c]) /\ call'[c] \in Syncs
         /\ call[c].pc = "crypt" /\ call[c].version = 0 /\ call'[c].pc \in {"receipt", "idle"}
         /\ UNCHANGED <<vault, config, keys, writes, calls, known, cut, faults>>
         /\ \/ remote' = remote /\ call'[c] = Cloud!NoCall
            \/ /\ Cloud!Accepted(call[c])
               /\ remote' \in [secrets : SecretSets, key : Keyed, version : Nat]
               /\ remote'.secrets = call[c].secrets /\ remote'.key = call[c].key
               /\ remote'.version = remote.version + 1
               /\ \/ call'[c] = Cloud!NoCall
                  \/ /\ call'[c].pc = "receipt" /\ call'[c].version = remote.version + 1
                     /\ call'[c].secrets = call[c].secrets /\ call'[c].before = call[c].before
                     /\ call'[c].read = call[c].read
<1>1. /\ call[c].pc = "crypt" /\ call[c].version = 0
      /\ UNCHANGED <<vault, config, keys, writes, calls, known, cut, faults>>
  BY DEF Cloud!Send, Cloud!At, Cloud!Pushing
<1>2. /\ call \in [Checkouts -> Syncs] /\ call[c].secrets \in SecretSets /\ call[c].key \in Keyed
      /\ remote.version \in Nat
  BY DEF CloudShape, Syncs
<1> DEFINE r == [secrets |-> call[c].secrets, key |-> call[c].key, version |-> remote.version + 1]
<1>3. /\ r \in [secrets : SecretSets, key : Keyed, version : Nat]
      /\ r.secrets = call[c].secrets /\ r.key = call[c].key /\ r.version = remote.version + 1
  BY <1>2
<1>4. \/ Cloud!Accepted(call[c]) /\ remote' = r
      \/ ~Cloud!Accepted(call[c]) /\ remote' = remote
  BY DEF Cloud!Send
<1> HIDE DEF r
<1>5. CASE Cloud!End(c)
  <2>1. SyncStep(c, Cloud!NoCall) /\ Cloud!NoCall \in Syncs
    BY <1>5, NoSyncTypes, SyncFrame DEF Cloud!End
  <2>2. call'[c] = Cloud!NoCall /\ Cloud!NoCall.pc = "idle"
    BY <2>1, NoSyncTypes DEF SyncStep
  <2> QED BY <1>1, <1>3, <1>4, <2>1, <2>2
<1>6. CASE Cloud!Accepted(call[c]) /\ call' = [call EXCEPT ![c].pc = "receipt",
         ![c].version = remote.version + 1]
  <2> DEFINE w == remote.version + 1
             e == [call[c] EXCEPT !.pc = "receipt", !.version = w]
  <2>0. w \in Nat /\ call' = [call EXCEPT ![c].pc = "receipt", ![c].version = w]
    BY <1>2, <1>6
  <2> HIDE DEF w
  <2>1. /\ e \in Syncs /\ e.pc = "receipt" /\ e.version = w /\ e.secrets = call[c].secrets
        /\ e.before = call[c].before /\ e.read = call[c].read
    BY <1>2, <2>0 DEF Syncs, SyncSteps
  <2>2. call'[c] = e /\ \A d \in Checkouts \ {c} : call'[d] = call[d]
    BY <1>2, <2>0 DEF Syncs
  <2> HIDE DEF e
  <2>3. call' \in [Checkouts -> Syncs]
    BY <1>2, <2>0, <2>1, <2>2
  <2> QED BY <1>1, <1>3, <1>4, <1>6, <2>1, <2>2, <2>3 DEF SyncStep, w
<1> QED BY <1>5, <1>6 DEF Cloud!Send

\* A push reaches the server.
LEMMA SendStep == ASSUME Cloud!CloudAssumption, CloudInv, NEW c \in Checkouts, Cloud!Send(c) PROVE CloudInv'
<1>1. CloudShape /\ SeenVersionInv /\ SyncBudgetInv /\ LeftInv
  BY DEF CloudInv
<1>2. /\ call' \in [Checkouts -> Syncs] /\ \A d \in Checkouts \ {c} : call'[d] = call[d]
      /\ call[c].pc = "crypt" /\ call'[c].pc \in {"receipt", "idle"}
      /\ UNCHANGED <<vault, config, keys, writes, calls, known, cut, faults>>
  BY <1>1, SendFields DEF SyncStep
<1>3. /\ remote' \in [secrets : SecretSets, key : Keyed, version : Nat]
      /\ remote.version \in Nat /\ remote'.version \in {remote.version, remote.version + 1}
      /\ \/ call'[c] = Cloud!NoCall
         \/ call'[c].version = remote'.version /\ call'[c].before = call[c].before
  <2>1. remote \in [secrets : SecretSets, key : Keyed, version : Nat] /\ remote.version \in Nat
    BY <1>1 DEF CloudShape
  <2> QED BY <1>1, <2>1, SendFields
<1>4. CloudShape'
  BY <1>1, <1>2, <1>3 DEF CloudShape
<1>5. SeenVersionInv'
  <2> SUFFICES ASSUME NEW d \in Checkouts
               PROVE  /\ config'[d].version <= remote'.version
                      /\ call'[d].version <= remote'.version
                      /\ call'[d].before.version <= remote'.version
    BY DEF SeenVersionInv
  <2>1. /\ config[d].version \in Nat /\ call[d].version \in Nat /\ call[d].before.version \in Nat
        /\ call'[d].version \in Nat
    BY <1>1, <1>4 DEF CloudShape, Syncs, Configs
  <2>2. /\ config[d].version <= remote.version /\ call[d].version <= remote.version
        /\ call[d].before.version <= remote.version
    BY <1>1 DEF SeenVersionInv
  <2>3. CASE d = c
    <3>1. Cloud!NoCall.version = 0 /\ Cloud!NoCall.before.version = 0
      BY NoSyncTypes
    <3> QED BY <1>2, <1>3, <2>1, <2>2, <2>3, <3>1
  <2>4. CASE d # c
    BY <1>2, <1>3, <2>1, <2>2, <2>4
  <2> QED BY <2>3, <2>4
<1>6. SyncBudgetInv'
  <2>1. /\ Cardinality(MaySend) \in Nat /\ Cardinality(MaySend') \in Nat
        /\ Cardinality(MaySend') = Cardinality(MaySend) - 1
    <3>1. c \in MaySend /\ c \notin MaySend'
      BY <1>2 DEF MaySend
    <3> QED BY <3>1, <1>1, <1>2, MaySendStep, CloudTypes DEF CloudShape
  <2>2. calls \in Nat /\ calls' = calls
    BY <1>1, <1>2, CloudTypes DEF CloudShape
  <2> QED BY <1>1, <1>3, <2>1, <2>2 DEF SyncBudgetInv
<1>7. LeftInv'
  BY <1>1, <1>2 DEF LeftInv, Cloud!Bound, Cloud!Skipped, Cloud!Held
<1> QED BY <1>4, <1>5, <1>6, <1>7 DEF CloudInv

\* The syncs that begin.
LEMMA BeginFields ==
  ASSUME Cloud!CloudAssumption, CloudShape, NEW c \in Checkouts, NEW force \in BOOLEAN, Cloud!Push(c)
           \/ Cloud!Pull(c, force)
  PROVE  /\ SyncStep(c, call'[c]) /\ call'[c] \in Syncs /\ call'[c].pc = "key" /\ call'[c].before = config[c]
         /\ call[c].pc = "idle" /\ calls < MaxCalls /\ calls' = calls + 1
         /\ UNCHANGED <<vault, config, remote, keys, writes, known, cut, faults>>
         /\ Cloud!Push(c) => /\ call'[c].secrets = vault[c] /\ call'[c].read = vault[c] /\ call'[c].version = 0 /\ ~config[c].blocked
         /\ ~Cloud!Push(c) => /\ call'[c].secrets = remote.secrets /\ call'[c].version = remote.version
                        /\ call'[c].read = Cloud!Empty
                        /\ remote.version > 0
<1>1. /\ config[c] \in Configs /\ vault[c] \in SecretSets /\ remote.secrets \in SecretSets
      /\ remote.key \in Keyed /\ remote.version \in Nat /\ call \in [Checkouts -> Syncs]
  BY DEF CloudShape
<1>2. CASE Cloud!Push(c)
  <2> DEFINE g == config[c]
             v == vault[c]
             e == [Cloud!NoCall EXCEPT !.pc = "key", !.before = g, !.secrets = v, !.read = v]
  <2>1. call' = [call EXCEPT ![c] = e]
    BY <1>2 DEF Cloud!Push
  <2>2. g \in Configs /\ v \in SecretSets
    BY <1>1
  <2> HIDE DEF g, v
  <2>3. /\ e \in Syncs /\ e.pc = "key" /\ e.before = g /\ e.secrets = v /\ e.version = 0
        /\ e.read = v
    BY <2>2, NoSyncTypes DEF Syncs, SyncSteps
  <2> HIDE DEF e
  <2>4. SyncStep(c, e) /\ call'[c] = e
    BY <2>1, <2>3, SyncFrame DEF SyncStep
  <2> QED BY <1>2, <2>3, <2>4 DEF Cloud!Push, Cloud!At, g, v
<1>3. CASE Cloud!Pull(c, force) /\ ~Cloud!Push(c)
  <2> DEFINE g == config[c]
             a == remote.secrets
             k == remote.key
             w == remote.version
             f == [Cloud!NoCall EXCEPT !.secrets = a, !.version = w, !.blobKey = k]
             e == [f EXCEPT !.pc = "key", !.before = g, !.force = force]
  <2>1. call' = [call EXCEPT ![c] = e] /\ w > 0
    BY <1>3 DEF Cloud!Pull, Cloud!Fetched
  <2>2. g \in Configs /\ a \in SecretSets /\ k \in Keyed /\ w \in Nat
    BY <1>1
  <2> HIDE DEF g, a, k, w
  <2>3. f \in Syncs /\ f.secrets = a /\ f.version = w /\ f.read = Cloud!Empty
    BY <2>2, NoSyncTypes DEF Syncs
  <2> HIDE DEF f
  <2>4. /\ e \in Syncs /\ e.pc = "key" /\ e.before = g /\ e.secrets = a /\ e.version = w
        /\ e.read = Cloud!Empty
    BY <2>2, <2>3 DEF Syncs, SyncSteps
  <2> HIDE DEF e
  <2>5. SyncStep(c, e) /\ call'[c] = e
    BY <2>1, <2>4, SyncFrame DEF SyncStep
  <2> QED BY <1>3, <2>1, <2>4, <2>5 DEF Cloud!Pull, Cloud!At, g, a, w
<1> QED BY <1>2, <1>3

\* A push or a pull begins.
LEMMA BeginSyncStep ==
  ASSUME Cloud!CloudAssumption, CloudInv, NEW c \in Checkouts, NEW force \in BOOLEAN, Cloud!Push(c)
           \/ Cloud!Pull(c, force)
  PROVE  CloudInv'
<1>1. CloudShape /\ SeenVersionInv /\ SyncBudgetInv /\ LeftInv
  BY DEF CloudInv
<1>2. /\ call' \in [Checkouts -> Syncs] /\ \A d \in Checkouts \ {c} : call'[d] = call[d]
      /\ call'[c].before = config[c] /\ call'[c].version \in {0, remote.version}
      /\ call[c].pc = "idle" /\ call'[c].pc = "key" /\ calls < MaxCalls /\ calls' = calls + 1
      /\ UNCHANGED <<vault, config, remote, keys, writes, known, cut, faults>>
  BY <1>1, BeginFields DEF SyncStep
<1>3. calls \in Nat /\ calls' \in 0..MaxCalls /\ remote.version \in Nat
  BY <1>1, <1>2, CloudTypes DEF CloudShape
<1>4. CloudShape'
  BY <1>1, <1>2, <1>3 DEF CloudShape
<1>5. SeenVersionInv'
  BY <1>1, <1>2, <1>3 DEF SeenVersionInv
<1>6. SyncBudgetInv'
  <2>1. /\ Cardinality(MaySend) \in Nat /\ Cardinality(MaySend') \in Nat
        /\ Cardinality(MaySend') <= Cardinality(MaySend) + 1
    <3>1. c \notin MaySend
      BY <1>2 DEF MaySend
    <3> QED BY <3>1, <1>1, <1>2, MaySendStep, CloudTypes DEF CloudShape
  <2> QED BY <1>1, <1>2, <1>3, <2>1 DEF SyncBudgetInv
<1>7. LeftInv'
  BY <1>1, <1>2 DEF LeftInv, Cloud!Bound, Cloud!Skipped, Cloud!Held
<1> QED BY <1>4, <1>5, <1>6, <1>7 DEF CloudInv

\* Changes of a vault by others, and of the config by git.
LEMMA StoreFields ==
  ASSUME Cloud!CloudAssumption, CloudShape, NEW c \in Checkouts, NEW n \in Names, Cloud!Store(c, n)
           \/ Cloud!Remove(c, n)
  PROVE  /\ vault' \in [Checkouts -> SecretSets] /\ known' \in [Checkouts -> SUBSET Nat]
         /\ writes' \in 0..MaxWrites /\ UNCHANGED <<config, remote, keys, call, calls, cut, faults>>
         /\ \A d \in Checkouts : known[d] \subseteq known'[d]
         /\ \A d \in Checkouts, m \in Names :
               \/ vault'[d][m] = vault[d][m] \/ vault'[d][m] = 0 \/ vault'[d][m] \in known'[d]
<1>1. /\ vault \in [Checkouts -> SecretSets] /\ known \in [Checkouts -> SUBSET Nat]
      /\ writes \in 0..MaxWrites /\ MaxWrites \in Nat
  BY CloudTypes DEF CloudShape
<1>2. CASE Cloud!Store(c, n)
  <2> DEFINE w == writes + 1
  <2>1. /\ writes < MaxWrites /\ writes' = w
        /\ vault' = [vault EXCEPT ![c][n] = w] /\ known' = [known EXCEPT ![c] = known[c] \cup {w}]
        /\ UNCHANGED <<config, remote, keys, call, calls, cut, faults>>
    BY <1>2 DEF Cloud!Store
  <2>2. w \in 0..MaxWrites /\ w \in Nat
    BY <1>1, <2>1
  <2> HIDE DEF w
  <2>3. vault' \in [Checkouts -> SecretSets]
    BY <1>1, <2>1, <2>2 DEF SecretSets
  <2>4. known' \in [Checkouts -> SUBSET Nat] /\ \A d \in Checkouts : known[d] \subseteq known'[d]
    BY <1>1, <2>1, <2>2
  <2>5. \A d \in Checkouts, m \in Names : vault'[d][m] = vault[d][m] \/ vault'[d][m] \in known'[d]
    BY <1>1, <2>1, <2>2 DEF SecretSets
  <2> QED BY <2>1, <2>2, <2>3, <2>4, <2>5
<1>3. CASE Cloud!Remove(c, n)
  <2>1. /\ vault' = [vault EXCEPT ![c][n] = 0]
        /\ UNCHANGED <<config, remote, keys, call, writes, calls, known, cut, faults>>
    BY <1>3 DEF Cloud!Remove
  <2>2. vault' \in [Checkouts -> SecretSets]
    BY <1>1, <2>1 DEF SecretSets
  <2>3. \A d \in Checkouts, m \in Names : vault'[d][m] = vault[d][m] \/ vault'[d][m] = 0
    BY <1>1, <2>1 DEF SecretSets
  <2> QED BY <1>1, <2>1, <2>2, <2>3
<1> QED BY <1>2, <1>3

\* What users and git do meanwhile.
LEMMA OtherSteps ==
  ASSUME Cloud!CloudAssumption, CloudInv,
         \/ \E c \in Checkouts : \E n \in Names : Cloud!Store(c, n) \/ Cloud!Remove(c, n)
         \/ \E c, d \in Checkouts : Cloud!ShareConfig(c, d)
         \/ UNCHANGED Cloud!vars
  PROVE  CloudInv'
<1>1. CloudShape /\ SeenVersionInv /\ SyncBudgetInv /\ LeftInv
  BY DEF CloudInv
<1>2. /\ vault' \in [Checkouts -> SecretSets] /\ known' \in [Checkouts -> SUBSET Nat]
      /\ writes' \in 0..MaxWrites /\ UNCHANGED <<remote, keys, call, calls, cut, faults>>
      /\ config' = config \/ \E c, d \in Checkouts : config' = [config EXCEPT ![d] = config[c]]
  <2>1. CASE \E c \in Checkouts : \E n \in Names : Cloud!Store(c, n) \/ Cloud!Remove(c, n)
    BY <1>1, <2>1, StoreFields
  <2>2. CASE UNCHANGED Cloud!vars
    BY <1>1, <2>2 DEF Cloud!vars, CloudShape
  <2>3. CASE \E c, d \in Checkouts : Cloud!ShareConfig(c, d)
    BY <1>1, <2>3 DEF Cloud!ShareConfig, CloudShape
  <2> QED BY <2>1, <2>2, <2>3
<1>3. config' \in [Checkouts -> Configs] /\ \A d \in Checkouts : config'[d].version <= remote.version
  BY <1>1, <1>2 DEF CloudShape, SeenVersionInv
<1>4. CloudShape'
  BY <1>1, <1>2, <1>3 DEF CloudShape
<1>5. SeenVersionInv'
  BY <1>1, <1>2, <1>3 DEF SeenVersionInv
<1>6. SyncBudgetInv' /\ LeftInv'
  BY <1>1, <1>2 DEF SyncBudgetInv, MaySend, LeftInv, Cloud!Bound, Cloud!Skipped, Cloud!Held
<1> QED BY <1>4, <1>5, <1>6 DEF CloudInv

\* The invariant holds at first.
LEMMA CloudStarts == ASSUME Cloud!CloudAssumption, Cloud!Init PROVE CloudInv
<1>1. /\ vault = [c \in Checkouts |-> Cloud!Empty] /\ config = [c \in Checkouts |-> Cloud!NoConfig]
      /\ remote = [secrets |-> Cloud!Empty, key |-> NoKey, version |-> 0] /\ keys = KeysFrom
      /\ call = [c \in Checkouts |-> Cloud!NoCall] /\ writes = 0 /\ calls = 0
      /\ known = [c \in Checkouts |-> {}] /\ cut = {} /\ faults = 0
  BY DEF Cloud!Init
<1>2. CloudShape
  <2>1. remote \in [secrets : SecretSets, key : Keyed, version : Nat]
    BY <1>1, NoSyncTypes, CloudTypes
  <2>2. writes \in 0..MaxWrites /\ calls \in 0..MaxCalls /\ faults \in 0..MaxFaults
    BY <1>1, CloudTypes
  <2>3. keys \in [DOMAIN KeysFrom -> Keyed]
    BY <1>1, CloudTypes
  <2> QED BY <1>1, <2>1, <2>2, <2>3, NoSyncTypes DEF CloudShape
<1>3. SeenVersionInv
  BY <1>1, NoSyncTypes DEF SeenVersionInv
<1>4. SyncBudgetInv
  <2>1. MaySend = {}
    BY <1>1, NoSyncTypes DEF MaySend
  <2> QED BY <1>1, <2>1, FS_EmptySet DEF SyncBudgetInv
<1>5. LeftInv
  BY <1>1, NoSyncTypes DEF LeftInv
<1> QED BY <1>2, <1>3, <1>4, <1>5 DEF CloudInv

\* Every step keeps the invariant.
LEMMA CloudKeeps == ASSUME Cloud!CloudAssumption, CloudInv, [Cloud!Next]_(Cloud!vars) PROVE CloudInv'
<1>1. TRUE \in BOOLEAN
  OBVIOUS
<1> QED BY <1>1, OtherSteps, KeySyncStep, BeginSyncStep, SendStep, LocalStep, CommitStep
   DEF Cloud!Next, Commits

\* Every checkout knows only versions that the server has made, and the server
\* makes one per push at most.
THEOREM CloudTypeCorrect == ASSUME Cloud!CloudAssumption PROVE Cloud!Spec => []Cloud!TypeOK
<1>1. Cloud!Init => CloudInv
  BY CloudStarts
<1>2. CloudInv /\ [Cloud!Next]_(Cloud!vars) => CloudInv'
  BY CloudKeeps
<1>3. CloudInv => Cloud!TypeOK
  <2> SUFFICES ASSUME CloudInv PROVE Cloud!TypeOK
    OBVIOUS
  <2>1. CloudShape /\ SeenVersionInv /\ SyncBudgetInv
    BY DEF CloudInv
  <2>2. remote.version \in 0..MaxCalls /\ remote.version \in Nat
    <3>1. remote.version \in Nat /\ calls \in Nat /\ calls <= MaxCalls /\ MaxCalls \in Nat
      BY <2>1, CloudTypes DEF CloudShape
    <3>2. Cardinality(MaySend) \in Nat
      <4>1. MaySend \subseteq Checkouts
        BY DEF MaySend
      <4> QED BY <4>1, CloudTypes, FS_Subset, FS_CardinalityType
    <3> QED BY <2>1, <3>1, <3>2 DEF SyncBudgetInv
  <2>3. \A c \in Checkouts : config[c].version \in 0..remote.version /\ config[c].blocked \in BOOLEAN
    <3> SUFFICES ASSUME NEW c \in Checkouts
                 PROVE  config[c].version \in 0..remote.version /\ config[c].blocked \in BOOLEAN
      OBVIOUS
    <3>1. config[c] \in Configs /\ config[c].version <= remote.version
      BY <2>1 DEF CloudShape, SeenVersionInv
    <3> QED BY <3>1, <2>2 DEF Configs
  <2>4. \A c \in Checkouts : call[c].pc \in
          {"idle", "key", "makeKey", "crypt", "receipt", "commit", "values", "undo", "undoValues"}
    BY <2>1 DEF CloudShape, Syncs, SyncSteps
  <2>5. vault \in [Checkouts -> [Names -> 0..MaxWrites]]
    BY <2>1 DEF CloudShape, SecretSets
  <2>6. cut \subseteq Checkouts /\ faults \in 0..MaxFaults
    BY <2>1 DEF CloudShape
  <2> QED BY <2>2, <2>3, <2>4, <2>5, <2>6 DEF Cloud!TypeOK
<1> QED BY <1>1, <1>2, <1>3, PTL DEF Cloud!Spec

\* Only a commit and its rollback change a value and their call in one step.
LEMMA ValuesOfTheirOwnCommit ==
  ASSUME Cloud!CloudAssumption, CloudInv, Cloud!Next, NEW c \in Checkouts, NEW n \in Names,
         call'[c] # call[c], vault'[c][n] # vault[c][n]
  PROVE  Cloud!CommitValue(c, n) \/ Cloud!UndoValue(c, n)
<1>1. CloudShape
  BY DEF CloudInv
<1>2. \A d \in Checkouts, m \in Names :
         (Cloud!CommitValue(d, m) \/ Cloud!UndoValue(d, m)) => d = c /\ m = n
  <2> SUFFICES ASSUME NEW d \in Checkouts, NEW m \in Names,
                      Cloud!CommitValue(d, m) \/ Cloud!UndoValue(d, m)
               PROVE  d = c /\ m = n
    OBVIOUS
  <2>1. \/ vault' = vault \/ vault' = [vault EXCEPT ![d][m] = call[d].secrets[m]]
        \/ vault' = [vault EXCEPT ![d][m] = call[d].read[m]]
    BY DEF Cloud!CommitValue, Cloud!UndoValue
  <2>2. /\ call[d].secrets[m] \in 0..MaxWrites /\ call[d].read[m] \in 0..MaxWrites
        /\ vault \in [Checkouts -> SecretSets]
    BY <1>1 DEF CloudShape, Syncs, SecretSets
  <2>3. \/ vault' = vault
        \/ /\ \A e \in Checkouts \ {d} : vault'[e] = vault[e]
           /\ \A k \in Names \ {m} : vault'[d][k] = vault[d][k]
    BY <2>1, <2>2, OneValue
  <2> QED BY <2>3
<1>3. \A d \in Checkouts : \A m \in Names : ~Cloud!Store(d, m) /\ ~Cloud!Remove(d, m)
  BY DEF Cloud!Store, Cloud!Remove
<1>4. \A d, e \in Checkouts : ~Cloud!ShareConfig(d, e)
  BY DEF Cloud!ShareConfig
<1>5. vault' # vault
  OBVIOUS
<1>6. \A d \in Checkouts :
        ~(Cloud!FindKey(d) \/ Cloud!MakeKey(d) \/ Cloud!Push(d) \/ Cloud!Send(d) \/ Cloud!CheckNames(d)
          \/ Cloud!Decrypt(d) \/ Cloud!Undecryptable(d) \/ Cloud!CommitConfig(d) \/ Cloud!UndoConfig(d)
          \/ Cloud!Die(d) \/ (\E force \in BOOLEAN : Cloud!Pull(d, force))
          \/ (\E m \in Names : Cloud!RefuseValue(d, m)))
  BY <1>5 DEF Cloud!FindKey, Cloud!MakeKey, Cloud!Push, Cloud!Send, Cloud!CheckNames, Cloud!Decrypt,
       Cloud!Undecryptable, Cloud!CommitConfig, Cloud!UndoConfig, Cloud!Die, Cloud!Pull, Cloud!RefuseValue
<1> QED BY <1>2, <1>3, <1>4, <1>6 DEF Cloud!Next

\* apply_cloud_pull_transaction, commit_init and its rollback: a local value is
\* taken away only with force, and only the one that was looked at, or as the
\* commit's own.
THEOREM PullsKeepWhatTheyHaveNotSeen ==
  ASSUME Cloud!CloudAssumption PROVE Cloud!Spec => [][Cloud!PullKeeps]_(Cloud!vars)
<1>1. Cloud!Init => CloudInv
  BY CloudStarts
<1>2. CloudInv /\ [Cloud!Next]_(Cloud!vars) => CloudInv'
  BY CloudKeeps
<1>3. CloudInv /\ [Cloud!Next]_(Cloud!vars) => [Cloud!PullKeeps]_(Cloud!vars)
  <2> SUFFICES ASSUME CloudInv, Cloud!Next PROVE Cloud!PullKeeps
    OBVIOUS
  <2> SUFFICES ASSUME NEW c \in Checkouts, NEW n \in Cloud!Held(vault[c]), call'[c] # call[c],
                      vault'[c][n] # vault[c][n]
               PROVE  \/ call[c].force /\ vault[c][n] = call[c].read[n]
                      \/ /\ n \in call[c].wrote /\ vault[c][n] = call[c].secrets[n]
                         /\ vault'[c][n] = call[c].read[n]
    BY DEF Cloud!PullKeeps
  <2>1. CloudShape /\ LeftInv /\ n \in Names /\ vault[c][n] # 0
    BY DEF CloudInv, Cloud!Held
  <2>2. Cloud!CommitValue(c, n) \/ Cloud!UndoValue(c, n)
    BY <2>1, ValuesOfTheirOwnCommit
  <2>3. /\ vault \in [Checkouts -> SecretSets]
        /\ call[c].secrets[n] \in 0..MaxWrites /\ call[c].read[n] \in 0..MaxWrites
    BY <2>1 DEF CloudShape, Syncs, SecretSets
  <2>4. CASE Cloud!CommitValue(c, n)
    <3>1. /\ call[c].pc = "values" /\ n \in call[c].left /\ vault[c][n] = call[c].read[n]
          /\ vault' = [vault EXCEPT ![c][n] = call[c].secrets[n]]
      BY <2>4 DEF Cloud!CommitValue, Cloud!At
    <3>2. vault'[c][n] = call[c].secrets[n]
      BY <2>1, <2>3, <3>1, OneValue
    <3>3. n \in Cloud!Bound(call[c])
      BY <2>1, <3>1 DEF LeftInv
    <3>4. ~(~call[c].force /\ call[c].read[n] # 0 /\ call[c].read[n] # call[c].secrets[n])
      BY <3>3 DEF Cloud!Bound, Cloud!Skipped
    <3> QED BY <2>1, <3>1, <3>2, <3>4
  <2>5. CASE Cloud!UndoValue(c, n)
    <3>1. /\ n \in call[c].wrote
          /\ \/ vault' = vault
             \/ vault[c][n] = call[c].secrets[n] /\ vault' = [vault EXCEPT ![c][n] = call[c].read[n]]
      BY <2>1, <2>5, UndoFields
    <3> QED BY <2>1, <2>3, <3>1, OneValue
  <2> QED BY <2>2, <2>4, <2>5
<1> QED BY <1>1, <1>2, <1>3, PTL DEF Cloud!Spec

-----------------------------------------------------------------------------
\* A checkout has held these secrets.
HasHeld(c, s) == \A n \in Names : s[n] # 0 => s[n] \in known[c]

\* What a checkout knows of the version it records: everything, when all of its
\* commits that changed .phantom.toml have ended well.
ConfigHeld(c) ==
    c \notin cut /\ call[c].pc \notin {"values", "undo"}
        /\ config[c].version = remote.version /\ config[c].blocked = FALSE => HasHeld(c, remote.secrets)

\* The same of the version its sync began with, which a rollback brings back.
BeforeHeld(c) ==
    call[c].pc # "idle" /\ c \notin cut
        /\ call[c].before.version = remote.version /\ call[c].before.blocked = FALSE => HasHeld(c, remote.secrets)

\* The version of a sync stands for its secrets.
VersionHeld(c) ==
    /\ call[c].version # 0 /\ call[c].version = remote.version => call[c].secrets = remote.secrets
    /\ call[c].pc \in {"receipt", "commit", "values"} => call[c].version # 0
    /\ call[c].pc \in {"key", "makeKey", "crypt"} /\ call[c].version = 0 => call[c].before.blocked = FALSE

\* A commit that has replaced .phantom.toml has written what is no longer left.
WrittenHeld(c) ==
    /\ call[c].pc = "values" => \A n \in Cloud!Bound(call[c]) \ call[c].left : call[c].secrets[n] \in known[c]
    /\ call[c].pc = "values" => config[c] = Cloud!After(call[c])

HeldBy(c) ==
    /\ HasHeld(c, vault[c]) /\ HasHeld(c, call[c].read)
    /\ ConfigHeld(c) /\ BeforeHeld(c) /\ VersionHeld(c) /\ WrittenHeld(c)

HeldInv == \A c \in Checkouts : HeldBy(c)

\* The checkouts that a step does not concern.
LEMMA HeldByOther ==
  ASSUME CloudInv, NEW d \in Checkouts, HeldBy(d), vault'[d] = vault[d], config'[d] = config[d],
         call'[d] = call[d], known[d] \subseteq known'[d], d \in cut' <=> d \in cut,
         remote' = remote \/ remote'.version = remote.version + 1
  PROVE  HeldBy(d)'
<1>1. /\ remote.version \in Nat /\ config[d].version \in Nat /\ call[d].version \in Nat
      /\ call[d].before.version \in Nat
      /\ config[d].version <= remote.version /\ call[d].version <= remote.version
      /\ call[d].before.version <= remote.version
  BY DEF CloudInv, CloudShape, SeenVersionInv, Syncs, Configs
<1>2. (HasHeld(d, vault[d]) /\ HasHeld(d, call[d].read))'
  BY DEF HeldBy, HasHeld
<1>3. WrittenHeld(d)'
  BY DEF HeldBy, WrittenHeld, Cloud!Bound, Cloud!Skipped, Cloud!Held, Cloud!After
<1>4. CASE remote' = remote
  <2>1. HasHeld(d, remote.secrets) => HasHeld(d, remote.secrets)'
    BY <1>4 DEF HasHeld
  <2>2. ConfigHeld(d)' /\ BeforeHeld(d)' /\ VersionHeld(d)'
    BY <1>4, <2>1 DEF HeldBy, ConfigHeld, BeforeHeld, VersionHeld
  <2> QED BY <1>2, <1>3, <2>2 DEF HeldBy
<1>5. CASE remote'.version = remote.version + 1
  <2>1. /\ config'[d].version # remote'.version /\ call'[d].version # remote'.version
        /\ call'[d].before.version # remote'.version
    BY <1>1, <1>5
  <2>2. ConfigHeld(d)' /\ BeforeHeld(d)' /\ VersionHeld(d)'
    BY <2>1 DEF HeldBy, ConfigHeld, BeforeHeld, VersionHeld
  <2> QED BY <1>2, <1>3, <2>2 DEF HeldBy
<1> QED BY <1>4, <1>5

\* A checkout whose sync has ended.
LEMMA HeldAtEnd ==
  ASSUME Cloud!CloudAssumption, NEW c \in Checkouts, call'[c] = Cloud!NoCall,
         HasHeld(c, vault[c])',
         c \notin cut' /\ config'[c].version = remote'.version /\ config'[c].blocked = FALSE
            => HasHeld(c, remote.secrets)'
  PROVE  HeldBy(c)'
BY NoSyncTypes DEF HeldBy, ConfigHeld, BeforeHeld, VersionHeld, WrittenHeld, HasHeld

\* The end of a sync leaves the others.
LEMMA EndIs ==
  ASSUME CloudShape, NEW c \in Checkouts, Cloud!End(c)
  PROVE  call'[c] = Cloud!NoCall /\ \A d \in Checkouts \ {c} : call'[d] = call[d]
BY DEF Cloud!End, CloudShape

\* A sync that goes on without having changed anything.
LEMMA HeldGoesOn ==
  ASSUME NEW c \in Checkouts, HeldBy(c), UNCHANGED <<vault, config, remote, known, cut>>,
         KeptSync(call'[c], call[c]), HasHeld(c, call'[c].read),
         call[c].pc \notin {"idle", "values", "undo"}, call'[c].pc \notin {"idle", "values"},
         call'[c].pc \in {"receipt", "commit"} => call[c].version # 0,
         call'[c].pc \in {"key", "makeKey", "crypt"} => call[c].pc \in {"key", "makeKey", "crypt"}
  PROVE  HeldBy(c)'
<1>1. /\ call'[c].before = call[c].before /\ call'[c].secrets = call[c].secrets
      /\ call'[c].version = call[c].version
  BY DEF KeptSync
<1>2. HasHeld(c, vault[c])' /\ HasHeld(c, call[c].read)' /\ (HasHeld(c, remote.secrets) <=> HasHeld(c, remote.secrets)')
  BY DEF HeldBy, HasHeld
<1>3. ConfigHeld(c)' /\ BeforeHeld(c)'
  BY <1>1, <1>2 DEF HeldBy, ConfigHeld, BeforeHeld
<1>4. VersionHeld(c)' /\ WrittenHeld(c)'
  BY <1>1 DEF HeldBy, VersionHeld, WrittenHeld
<1> QED BY <1>2, <1>3, <1>4 DEF HeldBy

\* Steps of c that concern only its sync.
LEMMA HeldOwnStep ==
  ASSUME Cloud!CloudAssumption, CloudInv, HeldInv, NEW c \in Checkouts,
         \/ Cloud!FindKey(c) \/ Cloud!MakeKey(c) \/ Cloud!Push(c) \/ Cloud!CheckNames(c)
         \/ \E force \in BOOLEAN : Cloud!Pull(c, force)
         \/ Cloud!Decrypt(c) \/ Cloud!Undecryptable(c)
  PROVE  HeldInv'
<1>1. CloudShape /\ HeldBy(c)
  BY DEF CloudInv, HeldInv
<1>2. UNCHANGED <<vault, config, remote, known, cut>>
  BY DEF Cloud!FindKey, Cloud!MakeKey, Cloud!Push, Cloud!CheckNames, Cloud!Pull, Cloud!Decrypt,
           Cloud!Undecryptable
<1>3. \A d \in Checkouts \ {c} : call'[d] = call[d]
  BY <1>1 DEF Cloud!FindKey, Cloud!MakeKey, Cloud!Push, Cloud!CheckNames, Cloud!Pull, Cloud!Decrypt,
           Cloud!Undecryptable, Cloud!End, Cloud!Go, CloudShape
<1>4. \A d \in Checkouts \ {c} : HeldBy(d)'
  BY <1>2, <1>3, HeldByOther DEF HeldInv
<1>5. HasHeld(c, vault[c]) /\ HasHeld(c, call[c].read) /\ HasHeld(c, vault[c])'
  BY <1>1, <1>2 DEF HeldBy, HasHeld
<1>6. CASE Cloud!End(c) /\ call[c].pc \notin {"values", "undo"}
  <2>1. call'[c] = Cloud!NoCall
    BY <1>1, <1>6, EndIs
  <2>2. c \notin cut' /\ config'[c].version = remote'.version /\ config'[c].blocked = FALSE
            => HasHeld(c, remote.secrets)'
    BY <1>1, <1>2, <1>6 DEF HeldBy, ConfigHeld, HasHeld
  <2>3. HeldBy(c)'
    BY <1>5, <2>1, <2>2, HeldAtEnd
  <2> QED BY <1>4, <2>3 DEF HeldInv
<1>7. CASE Cloud!FindKey(c) \/ Cloud!MakeKey(c)
  <2>1. /\ KeptSync(call'[c], call[c]) /\ call[c].pc \in {"key", "makeKey"}
        /\ call'[c].pc \in {"makeKey", "crypt"} /\ call'[c].read = call[c].read
    BY <1>1, <1>7, KeyFields
  <2>2. HeldBy(c)'
    BY <1>1, <1>2, <1>5, <2>1, HeldGoesOn
  <2> QED BY <1>4, <2>2 DEF HeldInv
<1>8. CASE Cloud!Push(c)
  <2>1. /\ call[c].pc = "idle" /\ call'[c].pc = "key" /\ call'[c].before = config[c]
        /\ call'[c].secrets = vault[c] /\ call'[c].read = vault[c]
        /\ call'[c].version = 0 /\ ~config[c].blocked
    <3>1. TRUE \in BOOLEAN
      OBVIOUS
    <3> QED BY <1>1, <1>8, <3>1, BeginFields
  <2>2. config[c].blocked = FALSE
    BY <1>1, <2>1 DEF CloudShape, Configs
  <2>3. ConfigHeld(c)' /\ BeforeHeld(c)' /\ VersionHeld(c)' /\ WrittenHeld(c)'
    BY <1>1, <1>2, <2>1, <2>2 DEF HeldBy, ConfigHeld, BeforeHeld, VersionHeld, WrittenHeld, HasHeld
  <2>4. HasHeld(c, call[c].read)'
    BY <1>2, <1>5, <2>1 DEF HasHeld
  <2>5. HeldBy(c)'
    BY <1>5, <2>3, <2>4 DEF HeldBy
  <2> QED BY <1>4, <2>5 DEF HeldInv
<1>9. CASE (\E force \in BOOLEAN : Cloud!Pull(c, force)) /\ ~Cloud!Push(c)
  <2>1. /\ call[c].pc = "idle" /\ call'[c].pc = "key" /\ call'[c].secrets = remote.secrets
        /\ call'[c].version = remote.version /\ remote.version > 0 /\ call'[c].before = config[c]
        /\ call'[c].read = Cloud!Empty
    BY <1>1, <1>9, BeginFields
  <2>2. remote.version \in Nat
    BY <1>1 DEF CloudShape
  <2>3. ConfigHeld(c)' /\ BeforeHeld(c)' /\ VersionHeld(c)' /\ WrittenHeld(c)'
    BY <1>1, <1>2, <2>1, <2>2 DEF HeldBy, ConfigHeld, BeforeHeld, VersionHeld, WrittenHeld, HasHeld
  <2>4. HasHeld(c, call[c].read)'
    BY <2>1, NoSyncTypes DEF HasHeld
  <2>5. HeldBy(c)'
    BY <1>5, <2>3, <2>4 DEF HeldBy
  <2> QED BY <1>4, <2>5 DEF HeldInv
<1>10. CASE Cloud!CheckNames(c) /\ Cloud!Go(c, "commit")
  <2>1. /\ KeptSync(call'[c], call[c]) /\ call[c].pc = "receipt" /\ call'[c].pc = "commit"
        /\ call'[c].read = call[c].read
    BY <1>1, <1>10, GoSyncFields DEF SyncSteps, Cloud!CheckNames, Cloud!At
  <2>2. call[c].version # 0
    BY <1>1, <2>1 DEF HeldBy, VersionHeld
  <2>3. HeldBy(c)'
    BY <1>1, <1>2, <1>5, <2>1, <2>2, HeldGoesOn
  <2> QED BY <1>4, <2>3 DEF HeldInv
<1>11. CASE Cloud!Decrypt(c)
  <2>1. /\ KeptSync(call'[c], call[c]) /\ call'[c].pc = "commit" /\ call[c].version # 0
        /\ call[c].pc = "crypt" /\ call'[c].read = vault[c]
    BY <1>1, <1>11, DecryptFields
  <2>2. HeldBy(c)'
    BY <1>1, <1>2, <1>5, <2>1, HeldGoesOn
  <2> QED BY <1>4, <2>2 DEF HeldInv
<1>12. Cloud!Undecryptable(c) => Cloud!End(c) /\ call[c].pc = "crypt"
  BY DEF Cloud!Undecryptable, Cloud!At
<1>13. Cloud!CheckNames(c) => (Cloud!End(c) /\ call[c].pc = "receipt") \/ Cloud!Go(c, "commit")
  BY DEF Cloud!CheckNames, Cloud!At
<1> QED BY <1>6, <1>7, <1>8, <1>9, <1>10, <1>11, <1>12, <1>13

\* A new version makes every other name of a version an old one.
LEMMA HeldSend ==
  ASSUME Cloud!CloudAssumption, CloudInv, HeldInv, NEW c \in Checkouts, Cloud!Send(c) PROVE HeldInv'
<1>1. CloudShape /\ HeldBy(c)
  BY DEF CloudInv, HeldInv
<1>2. /\ \A d \in Checkouts \ {c} : call'[d] = call[d]
      /\ call[c].pc = "crypt" /\ call[c].version = 0
      /\ UNCHANGED <<vault, config, known, cut>>
  BY <1>1, SendFields DEF SyncStep
<1>3. remote' = remote \/ remote'.version = remote.version + 1
  BY <1>1, SendFields
<1>4. \A d \in Checkouts \ {c} : HeldBy(d)'
  BY <1>2, <1>3, HeldByOther DEF HeldInv
<1>5. /\ remote.version \in Nat /\ config[c].version \in Nat /\ config[c].version <= remote.version
      /\ call[c].before.version \in Nat /\ call[c].before.version <= remote.version
      /\ HasHeld(c, vault[c])'
  BY <1>1, <1>2 DEF CloudInv, CloudShape, SeenVersionInv, Configs, Syncs, HeldBy, HasHeld
<1>6. CASE call'[c] = Cloud!NoCall
  <2>1. c \notin cut' /\ config'[c].version = remote'.version /\ config'[c].blocked = FALSE
            => HasHeld(c, remote.secrets)'
    <3>1. CASE remote' = remote
      BY <3>1, <1>1, <1>2 DEF HeldBy, ConfigHeld, HasHeld
    <3>2. CASE remote'.version = remote.version + 1
      BY <3>2, <1>2, <1>5
    <3> QED BY <3>1, <3>2, <1>3
  <2>2. HeldBy(c)'
    BY <1>5, <1>6, <2>1, HeldAtEnd
  <2> QED BY <1>4, <2>2 DEF HeldInv
<1>7. CASE call'[c] # Cloud!NoCall
  <2>1. /\ remote'.secrets = call[c].secrets /\ remote'.version = remote.version + 1
        /\ call'[c].pc = "receipt" /\ call'[c].version = remote.version + 1
        /\ call'[c].secrets = call[c].secrets /\ call'[c].before = call[c].before
        /\ call'[c].read = call[c].read
    BY <1>1, <1>7, SendFields
  <2>2. /\ call'[c].version # 0 /\ config'[c].version # remote'.version
        /\ call'[c].before.version # remote'.version
    BY <1>2, <1>5, <2>1
  <2>3. HasHeld(c, call[c].read)'
    BY <1>1, <1>2, <2>1 DEF HeldBy, HasHeld
  <2>4. ConfigHeld(c)' /\ BeforeHeld(c)' /\ VersionHeld(c)' /\ WrittenHeld(c)'
    BY <2>1, <2>2 DEF ConfigHeld, BeforeHeld, VersionHeld, WrittenHeld
  <2>5. HeldBy(c)'
    BY <1>5, <2>3, <2>4 DEF HeldBy
  <2> QED BY <1>4, <2>5 DEF HeldInv
<1> QED BY <1>6, <1>7

\* Everything is written, and nothing of what is recorded was skipped.
LEMMA HeldDone ==
  ASSUME Cloud!CloudAssumption, CloudInv, HeldInv, NEW c \in Checkouts, Commits(c), Cloud!Done(c),
         HasHeld(c, vault[c])', call[c].version # 0,
         \A n \in Cloud!Bound(call[c]) : call[c].secrets[n] \in known'[c],
         config'[c] = Cloud!After(call[c])
  PROVE  HeldInv'
<1>1. CloudShape /\ HeldBy(c)
  BY DEF CloudInv, HeldInv
<1>2. /\ remote' = remote /\ known[c] \subseteq known'[c]
      /\ \A d \in Checkouts \ {c} : /\ vault'[d] = vault[d] /\ config'[d] = config[d]
                                  /\ known'[d] = known[d] /\ call'[d] = call[d]
      /\ \A d \in Checkouts \ {c} : d \in cut' <=> d \in cut
  BY CommitFields
<1>3. \A d \in Checkouts \ {c} : HeldBy(d)'
  BY <1>2, HeldByOther DEF HeldInv
<1>4. call'[c] = Cloud!NoCall
  BY <1>1, EndIs DEF Cloud!Done
<1>5. ASSUME config'[c].version = remote'.version, config'[c].blocked = FALSE
      PROVE  HasHeld(c, remote.secrets)'
  <2>1. Cloud!Skipped(call[c]) = {} /\ config'[c].version = call[c].version
    BY <1>1, <1>5, CommitRecords
  <2>2. call[c].secrets = remote.secrets
    BY <1>1, <1>2, <1>5, <2>1 DEF HeldBy, VersionHeld
  <2>3. \A n \in Names : call[c].secrets[n] # 0 => n \in Cloud!Bound(call[c])
    BY <2>1 DEF Cloud!Bound, Cloud!Held
  <2> QED BY <1>2, <2>2, <2>3 DEF HasHeld
<1>6. HeldBy(c)'
  BY <1>4, <1>5, HeldAtEnd
<1> QED BY <1>3, <1>6 DEF HeldInv

\* A commit that goes on after its first write.
LEMMA HeldCommits ==
  ASSUME Cloud!CloudAssumption, CloudInv, HeldInv, NEW c \in Checkouts, Commits(c),
         NEW s, NEW l, NEW w, CommitGoes(c, s, l, w), s \in {"values", "undo", "undoValues"},
         call[c].pc # "idle", c \in cut => c \in cut', HasHeld(c, vault[c])',
         s = "values" => /\ call[c].version # 0 /\ config'[c] = Cloud!After(call[c])
                         /\ \A n \in Cloud!Bound(call[c]) \ l : call[c].secrets[n] \in known'[c],
         s = "undoValues" /\ c \notin cut' /\ config'[c].version = remote.version
            /\ config'[c].blocked = FALSE => HasHeld(c, remote.secrets)'
  PROVE  HeldInv'
<1>1. CloudShape /\ HeldBy(c)
  BY DEF CloudInv, HeldInv
<1>2. /\ remote' = remote /\ known[c] \subseteq known'[c]
      /\ \A d \in Checkouts \ {c} : /\ vault'[d] = vault[d] /\ config'[d] = config[d]
                                  /\ known'[d] = known[d] /\ call'[d] = call[d]
      /\ \A d \in Checkouts \ {c} : d \in cut' <=> d \in cut
  BY CommitFields
<1>3. \A d \in Checkouts \ {c} : HeldBy(d)'
  BY <1>2, HeldByOther DEF HeldInv
<1>4. /\ call'[c].before = call[c].before /\ call'[c].secrets = call[c].secrets
      /\ call'[c].version = call[c].version /\ call'[c].force = call[c].force
      /\ call'[c].read = call[c].read /\ call'[c].pc = s /\ call'[c].left = l
  BY DEF CommitGoes, KeptSync
<1>5. HasHeld(c, call[c].read)' /\ (HasHeld(c, remote.secrets) => HasHeld(c, remote.secrets)')
  BY <1>1, <1>2, <1>4 DEF HeldBy, HasHeld
<1>6. ConfigHeld(c)'
  BY <1>2, <1>4 DEF ConfigHeld
<1>7. BeforeHeld(c)' /\ VersionHeld(c)'
  BY <1>1, <1>2, <1>4, <1>5 DEF HeldBy, BeforeHeld, VersionHeld
<1>8. Cloud!Bound(call'[c]) = Cloud!Bound(call[c]) /\ Cloud!After(call'[c]) = Cloud!After(call[c])
  BY <1>4 DEF Cloud!Bound, Cloud!Skipped, Cloud!Held, Cloud!After
<1>9. WrittenHeld(c)'
  BY <1>4, <1>8 DEF WrittenHeld
<1>10. HeldBy(c)'
  BY <1>5, <1>6, <1>7, <1>9 DEF HeldBy
<1> QED BY <1>3, <1>10 DEF HeldInv

\* .phantom.toml is replaced before any value: until the last one is written the
\* checkout need not hold what it records.
LEMMA HeldConfig ==
  ASSUME Cloud!CloudAssumption, CloudInv, HeldInv, NEW c \in Checkouts, Cloud!CommitConfig(c) PROVE HeldInv'
<1>1. CloudShape /\ HeldBy(c) /\ Commits(c)
  BY DEF CloudInv, HeldInv, Commits
<1>2. /\ call[c].pc = "commit" /\ UNCHANGED <<vault, remote, known>>
      /\ \/ Cloud!End(c) /\ config' = config /\ cut' = cut
         \/ /\ config' = [config EXCEPT ![c] = Cloud!After(call[c])]
            /\ \/ Cloud!Bound(call[c]) = {} /\ Cloud!Done(c)
               \/ CommitGoes(c, "values", Cloud!Bound(call[c]), call[c].wrote) /\ cut' = cut
               \/ CommitGoes(c, "undo", call[c].left, {}) /\ cut' = cut
  BY <1>1, ConfigFields
<1>3. HasHeld(c, vault[c])' /\ call[c].version # 0
  BY <1>1, <1>2 DEF HeldBy, VersionHeld, HasHeld
<1>4. config' = [config EXCEPT ![c] = Cloud!After(call[c])] => config'[c] = Cloud!After(call[c])
  BY <1>1 DEF CloudShape
<1>5. CASE Cloud!End(c) /\ config' = config /\ cut' = cut
  <2>1. call'[c] = Cloud!NoCall /\ \A d \in Checkouts \ {c} : call'[d] = call[d]
    BY <1>1, <1>5, EndIs
  <2>2. \A d \in Checkouts \ {c} : HeldBy(d)'
    BY <1>2, <1>5, <2>1, HeldByOther DEF HeldInv
  <2>3. c \notin cut' /\ config'[c].version = remote'.version /\ config'[c].blocked = FALSE
            => HasHeld(c, remote.secrets)'
    BY <1>1, <1>2, <1>5 DEF HeldBy, ConfigHeld, HasHeld
  <2>4. HeldBy(c)'
    BY <1>3, <2>1, <2>3, HeldAtEnd
  <2> QED BY <2>2, <2>4 DEF HeldInv
<1>6. CASE /\ config' = [config EXCEPT ![c] = Cloud!After(call[c])]
           /\ Cloud!Bound(call[c]) = {} /\ Cloud!Done(c)
  BY <1>1, <1>3, <1>4, <1>6, HeldDone
<1>7. CASE /\ config' = [config EXCEPT ![c] = Cloud!After(call[c])]
           /\ CommitGoes(c, "values", Cloud!Bound(call[c]), call[c].wrote) /\ cut' = cut
  BY <1>1, <1>2, <1>3, <1>4, <1>7, HeldCommits
<1>8. CASE CommitGoes(c, "undo", call[c].left, {}) /\ cut' = cut
  BY <1>1, <1>2, <1>3, <1>8, HeldCommits
<1> QED BY <1>2, <1>5, <1>6, <1>7, <1>8

\* The values are written one by one.
LEMMA HeldValue ==
  ASSUME Cloud!CloudAssumption, CloudInv, HeldInv, NEW c \in Checkouts, NEW n \in Names,
         Cloud!RefuseValue(c, n) \/ Cloud!CommitValue(c, n)
  PROVE  HeldInv'
<1>1. CloudShape /\ HeldBy(c) /\ Commits(c)
  BY DEF CloudInv, HeldInv, Commits
<1>2. /\ call[c].pc = "values" /\ n \in call[c].left /\ UNCHANGED <<config, remote>>
      /\ \/ UNCHANGED <<vault, known, cut>> /\ CommitGoes(c, "undo", call[c].left, call[c].wrote)
         \/ /\ vault' = [vault EXCEPT ![c][n] = call[c].secrets[n]]
            /\ known' = [known EXCEPT ![c] = @ \cup {call[c].secrets[n]}]
            /\ \/ call[c].left = {n} /\ Cloud!Done(c)
               \/ /\ CommitGoes(c, "values", call[c].left \ {n}, call[c].wrote \cup {n})
                  /\ cut' = cut
               \/ CommitGoes(c, "undo", call[c].left, call[c].wrote \cup {n}) /\ cut' = cut
  BY <1>1, ValueFields
<1>3. /\ call[c].version # 0 /\ config'[c] = Cloud!After(call[c])
      /\ \A m \in Cloud!Bound(call[c]) \ call[c].left : call[c].secrets[m] \in known[c]
  BY <1>1, <1>2 DEF HeldBy, VersionHeld, WrittenHeld
<1>4. CASE UNCHANGED <<vault, known, cut>> /\ CommitGoes(c, "undo", call[c].left, call[c].wrote)
  <2>1. HasHeld(c, vault[c])'
    BY <1>1, <1>4 DEF HeldBy, HasHeld
  <2> QED BY <1>1, <1>2, <1>4, <2>1, HeldCommits
<1>5. CASE /\ vault' = [vault EXCEPT ![c][n] = call[c].secrets[n]]
           /\ known' = [known EXCEPT ![c] = @ \cup {call[c].secrets[n]}]
           /\ \/ call[c].left = {n} /\ Cloud!Done(c)
              \/ /\ CommitGoes(c, "values", call[c].left \ {n}, call[c].wrote \cup {n})
                 /\ cut' = cut
              \/ CommitGoes(c, "undo", call[c].left, call[c].wrote \cup {n}) /\ cut' = cut
  <2> DEFINE x == call[c].secrets[n]
  <2>1. /\ x \in 0..MaxWrites /\ vault \in [Checkouts -> SecretSets]
        /\ vault' = [vault EXCEPT ![c][n] = x]
    BY <1>1, <1>5 DEF CloudShape, Syncs, SecretSets
  <2>2. known \in [Checkouts -> SUBSET Nat] /\ known' = [known EXCEPT ![c] = @ \cup {x}]
    BY <1>1, <1>5 DEF CloudShape
  <2> HIDE DEF x
  <2>3. vault'[c][n] = x /\ \A m \in Names \ {n} : vault'[c][m] = vault[c][m]
    BY <2>1, OneValue
  <2>4. known'[c] = known[c] \cup {x}
    BY <2>2
  <2>5. HasHeld(c, vault[c])'
    BY <1>1, <2>3, <2>4 DEF HeldBy, HasHeld
  <2>6. \A m \in Cloud!Bound(call[c]) \ (call[c].left \ {n}) : call[c].secrets[m] \in known'[c]
    BY <1>3, <2>4 DEF x
  <2>7. CASE call[c].left = {n} /\ Cloud!Done(c)
    <3>1. \A m \in Cloud!Bound(call[c]) : call[c].secrets[m] \in known'[c]
      BY <2>6, <2>7
    <3> QED BY <1>1, <1>3, <2>5, <2>7, <3>1, HeldDone
  <2>8. CASE CommitGoes(c, "values", call[c].left \ {n}, call[c].wrote \cup {n}) /\ cut' = cut
    BY <1>1, <1>2, <1>3, <2>5, <2>6, <2>8, HeldCommits
  <2>9. CASE CommitGoes(c, "undo", call[c].left, call[c].wrote \cup {n}) /\ cut' = cut
    BY <1>1, <1>2, <2>5, <2>9, HeldCommits
  <2> QED BY <1>5, <2>7, <2>8, <2>9
<1> QED BY <1>2, <1>4, <1>5

\* A rollback brings back the version and the values the sync began with; one
\* that fails, and a death before the last value, count the checkout as cut.
LEMMA HeldUndo ==
  ASSUME Cloud!CloudAssumption, CloudInv, HeldInv, NEW c \in Checkouts,
         Cloud!UndoConfig(c) \/ Cloud!Die(c) \/ \E n \in Names : Cloud!UndoValue(c, n)
  PROVE  HeldInv'
<1>1. CloudShape /\ HeldBy(c) /\ Commits(c)
  BY DEF CloudInv, HeldInv, Commits
<1>2. /\ remote' = remote /\ known[c] \subseteq known'[c]
      /\ \A d \in Checkouts \ {c} : /\ vault'[d] = vault[d] /\ config'[d] = config[d]
                                  /\ known'[d] = known[d] /\ call'[d] = call[d]
      /\ \A d \in Checkouts \ {c} : d \in cut' <=> d \in cut
  BY <1>1, CommitFields
<1>3. \A d \in Checkouts \ {c} : HeldBy(d)'
  BY <1>2, HeldByOther DEF HeldInv
<1>4. \A e : HasHeld(c, e) /\ known' = known => \A n \in Names : e[n] # 0 => e[n] \in known'[c]
  BY DEF HasHeld
<1>5. ASSUME known' = known, call[c].pc # "idle", HasHeld(c, vault[c])', c \in cut => c \in cut',
             (Cloud!End(c) \/ \E l, w : CommitGoes(c, "undoValues", l, w)),
             c \notin cut' /\ config'[c].version = remote.version /\ config'[c].blocked = FALSE
                => HasHeld(c, remote.secrets)
      PROVE  HeldInv'
  <2>1. HasHeld(c, remote.secrets) => HasHeld(c, remote.secrets)'
    BY <1>2 DEF HasHeld
  <2>2. CASE Cloud!End(c)
    <3>1. call'[c] = Cloud!NoCall
      BY <1>1, <2>2, EndIs
    <3>2. HeldBy(c)'
      BY <1>2, <1>5, <2>1, <3>1, HeldAtEnd
    <3> QED BY <1>3, <3>2 DEF HeldInv
  <2>3. CASE \E l, w : CommitGoes(c, "undoValues", l, w)
    BY <1>1, <1>5, <2>1, <2>3, HeldCommits
  <2> QED BY <1>5, <2>2, <2>3
<1>6. CASE Cloud!UndoConfig(c)
  <2>1. /\ call[c].pc = "undo" /\ UNCHANGED <<vault, known>>
        /\ \/ config' = [config EXCEPT ![c] = call[c].before] /\ cut' = cut
           \/ config' = config /\ cut' = cut \cup {c}
        /\ Cloud!End(c) \/ CommitGoes(c, "undoValues", call[c].left, call[c].wrote)
    BY <1>1, <1>6, UndoFields
  <2>2. HasHeld(c, vault[c])' /\ (c \in cut => c \in cut')
    BY <1>1, <2>1 DEF HeldBy, HasHeld
  <2>3. c \notin cut' /\ config'[c].version = remote.version /\ config'[c].blocked = FALSE
                => HasHeld(c, remote.secrets)
    <3>1. CASE config' = [config EXCEPT ![c] = call[c].before] /\ cut' = cut
      <4>1. config'[c] = call[c].before
        BY <1>1, <3>1 DEF CloudShape
      <4> QED BY <1>1, <2>1, <3>1, <4>1 DEF HeldBy, BeforeHeld
    <3>2. CASE cut' = cut \cup {c}
      BY <3>2
    <3> QED BY <2>1, <3>1, <3>2
  <2> QED BY <1>5, <2>1, <2>2, <2>3
<1>7. CASE Cloud!Die(c)
  <2>1. /\ call[c].pc # "idle" /\ UNCHANGED <<vault, config, known>> /\ Cloud!End(c)
        /\ cut' = IF call[c].pc \in {"values", "undo"} THEN cut \cup {c} ELSE cut
    BY <1>1, <1>7, UndoFields
  <2>2. HasHeld(c, vault[c])' /\ (c \in cut => c \in cut')
    BY <1>1, <2>1 DEF HeldBy, HasHeld
  <2>3. c \notin cut' /\ config'[c].version = remote.version /\ config'[c].blocked = FALSE
                => HasHeld(c, remote.secrets)
    BY <1>1, <2>1 DEF HeldBy, ConfigHeld
  <2> QED BY <1>5, <2>1, <2>2, <2>3
<1>8. CASE \E n \in Names : Cloud!UndoValue(c, n)
  <2> PICK n \in Names : Cloud!UndoValue(c, n)
    BY <1>8
  <2>1. /\ call[c].pc = "undoValues" /\ UNCHANGED <<config, known, cut>>
        /\ vault' = vault \/ vault' = [vault EXCEPT ![c][n] = call[c].read[n]]
        /\ Cloud!End(c) \/ CommitGoes(c, "undoValues", call[c].left, call[c].wrote \ {n})
    BY <1>1, UndoFields
  <2>2. call[c].read[n] \in 0..MaxWrites /\ vault \in [Checkouts -> SecretSets]
    BY <1>1 DEF CloudShape, Syncs, SecretSets
  <2>3. vault' = vault \/ (vault'[c][n] = call[c].read[n] /\ \A m \in Names \ {n} : vault'[c][m] = vault[c][m])
    <3> DEFINE x == call[c].read[n]
    <3>1. x \in 0..MaxWrites /\ (vault' = vault \/ vault' = [vault EXCEPT ![c][n] = x])
      BY <2>1, <2>2
    <3> HIDE DEF x
    <3>2. vault' = vault \/ (vault'[c][n] = x /\ \A m \in Names \ {n} : vault'[c][m] = vault[c][m])
      BY <2>2, <3>1, OneValue
    <3> QED BY <3>2 DEF x
  <2>4. HasHeld(c, vault[c])'
    BY <1>1, <2>1, <2>3 DEF HeldBy, HasHeld
  <2>5. c \notin cut' /\ config'[c].version = remote.version /\ config'[c].blocked = FALSE
                => HasHeld(c, remote.secrets)
    BY <1>1, <2>1 DEF HeldBy, ConfigHeld
  <2> QED BY <1>5, <2>1, <2>4, <2>5
<1> QED BY <1>6, <1>7, <1>8

\* What users store is held, and stays so.
LEMMA HeldStore ==
  ASSUME Cloud!CloudAssumption, CloudInv, HeldInv, NEW c \in Checkouts, NEW n \in Names, Cloud!Store(c,
           n) \/ Cloud!Remove(c, n)
  PROVE  HeldInv'
<1>1. CloudShape
  BY DEF CloudInv
<1>2. /\ UNCHANGED <<config, remote, call, cut>> /\ \A d \in Checkouts : known[d] \subseteq known'[d]
      /\ \A d \in Checkouts, m \in Names :
               \/ vault'[d][m] = vault[d][m] \/ vault'[d][m] = 0 \/ vault'[d][m] \in known'[d]
  BY <1>1, StoreFields
<1> SUFFICES ASSUME NEW d \in Checkouts PROVE HeldBy(d)'
  BY DEF HeldInv
<1>3. HeldBy(d) /\ known[d] \subseteq known'[d]
  BY <1>2 DEF HeldInv
<1>4. HasHeld(d, vault[d])' /\ HasHeld(d, call[d].read)'
  BY <1>2, <1>3 DEF HeldBy, HasHeld
<1>5. HasHeld(d, remote.secrets) => HasHeld(d, remote.secrets)'
  BY <1>2, <1>3 DEF HasHeld
<1>6. ConfigHeld(d)' /\ BeforeHeld(d)' /\ VersionHeld(d)'
  BY <1>2, <1>3, <1>5 DEF HeldBy, ConfigHeld, BeforeHeld, VersionHeld
<1>7. WrittenHeld(d)'
  BY <1>2, <1>3 DEF HeldBy, WrittenHeld, Cloud!Bound, Cloud!Skipped, Cloud!Held, Cloud!After
<1> QED BY <1>4, <1>6, <1>7 DEF HeldBy

\* Nothing is held and nothing is there.
LEMMA HeldStarts == ASSUME Cloud!CloudAssumption, Cloud!Init PROVE HeldInv
BY NoSyncTypes
   DEF Cloud!Init, HeldInv, HeldBy, HasHeld, ConfigHeld, BeforeHeld, VersionHeld, WrittenHeld

\* Every step keeps what is known of versions, unless the config travels.
LEMMA HeldKept ==
  ASSUME Cloud!CloudAssumption, ConfigInGit = FALSE, CloudInv, HeldInv, [Cloud!Next]_(Cloud!vars) PROVE HeldInv'
<1>1. CASE UNCHANGED Cloud!vars
  BY <1>1, HeldByOther DEF Cloud!vars, HeldInv
<1>2. \A c, d \in Checkouts : ~Cloud!ShareConfig(c, d)
  BY DEF Cloud!ShareConfig
<1> QED BY <1>1, <1>2, HeldOwnStep, HeldSend, HeldConfig, HeldValue, HeldUndo, HeldStore DEF Cloud!Next

\* ensure_cloud_push_allowed and the version that a push names: what a push
\* replaces or omits its checkout has held, and a checkout that records a version
\* has held all of it, unless a commit was cut short between .phantom.toml and its
\* last value.  With a .phantom.toml that travels through git both are false,
\* because the version arrives without the values.
THEOREM PushesKeepWhatTheyHaveNotHeld ==
  ASSUME Cloud!CloudAssumption, ConfigInGit = FALSE PROVE Cloud!Spec => []Cloud!RecordedMeansHeld
           /\ [][Cloud!PushKeeps]_(Cloud!vars)
<1> DEFINE I == CloudInv /\ HeldInv
<1>1. Cloud!Init => I
  BY CloudStarts, HeldStarts
<1>2. I /\ [Cloud!Next]_(Cloud!vars) => I'
  BY CloudKeeps, HeldKept
<1>3. I => Cloud!RecordedMeansHeld
  <2> SUFFICES ASSUME CloudInv, HeldInv, NEW c \in Checkouts \ cut, config[c].version = remote.version,
                      ~config[c].blocked, call[c].pc \notin {"values", "undo"}
               PROVE  Cloud!Values(remote.secrets) \subseteq known[c]
    BY DEF Cloud!RecordedMeansHeld
  <2>1. config[c].blocked = FALSE
    BY DEF CloudInv, CloudShape, Configs
  <2>2. HasHeld(c, remote.secrets)
    BY <2>1 DEF HeldInv, HeldBy, ConfigHeld
  <2> QED BY <2>2 DEF HasHeld, Cloud!Values, Cloud!Held
<1>4. I /\ [Cloud!Next]_(Cloud!vars) => [Cloud!PushKeeps]_(Cloud!vars)
  <2> SUFFICES ASSUME CloudInv, HeldInv, NEW c \in Checkouts \ cut, Cloud!Send(c), remote' # remote,
                      NEW n \in Cloud!Held(remote.secrets)
               PROVE  remote.secrets[n] \in known[c]
    BY DEF Cloud!PushKeeps
  <2>1. CloudShape
    BY DEF CloudInv
  <2>2. call[c].pc = "crypt" /\ call[c].version = 0 /\ Cloud!Accepted(call[c])
    BY <2>1, SendFields
  <2>3. HasHeld(c, remote.secrets)
    BY <2>2 DEF HeldInv, HeldBy, BeforeHeld, VersionHeld, Cloud!Accepted
  <2> QED BY <2>3 DEF HasHeld, Cloud!Held
<1> HIDE DEF I
<1> QED BY <1>1, <1>2, <1>3, <1>4, PTL DEF Cloud!Spec

-----------------------------------------------------------------------------
\* A keychain that several checkouts share has a key before any of them looks.
SharedKeychainsHaveKeys ==
    \A c, d \in Checkouts : c # d /\ Keychain[c] = Keychain[d] => KeysFrom[Keychain[c]] # NoKey

\* No key is replaced, and a sync has the key of its keychain.
CloudKeyInv ==
    /\ \A k \in DOMAIN KeysFrom : KeysFrom[k] # NoKey => keys[k] = KeysFrom[k]
    /\ \A c \in Checkouts :
        /\ call[c].pc = "makeKey" => keys[Keychain[c]] = NoKey
        /\ call[c].pc = "crypt" => call[c].key # NoKey /\ call[c].key = keys[Keychain[c]]
    /\ remote.version > 0 =>
            remote.key # NoKey /\ \E k \in DOMAIN KeysFrom : keys[k] = remote.key

\* Steps that make no key and send nothing.
LEMMA KeyCalm ==
  ASSUME CloudKeyInv, UNCHANGED <<keys, remote>>, NEW c \in Checkouts,
         \A d \in Checkouts \ {c} : call'[d] = call[d],
         call'[c].pc = "makeKey" => keys[Keychain[c]] = NoKey,
         call'[c].pc = "crypt" => call'[c].key # NoKey /\ call'[c].key = keys[Keychain[c]]
  PROVE  CloudKeyInv'
BY DEF CloudKeyInv

\* Every step keeps the keys.
LEMMA KeyKept ==
  ASSUME Cloud!CloudAssumption, SharedKeychainsHaveKeys, CloudInv, CloudKeyInv,
           [Cloud!Next]_(Cloud!vars) PROVE CloudKeyInv'
<1>1. CloudShape
  BY DEF CloudInv
<1>2. ASSUME NEW c \in Checkouts, Cloud!FindKey(c) PROVE CloudKeyInv'
  <2>1. /\ \A d \in Checkouts \ {c} : call'[d] = call[d]
        /\ call'[c].key = keys[Keychain[c]]
        /\ call'[c].pc = IF keys[Keychain[c]] = NoKey THEN "makeKey" ELSE "crypt"
    BY <1>1, <1>2, KeyFields DEF SyncStep
  <2>2. UNCHANGED <<keys, remote>>
    BY <1>2 DEF Cloud!FindKey
  <2> QED BY <2>1, <2>2, KeyCalm
<1>3. ASSUME NEW c \in Checkouts, Cloud!MakeKey(c) PROVE CloudKeyInv'
  <2>1. /\ \A d \in Checkouts \ {c} : call'[d] = call[d]
        /\ call'[c].key = c /\ call'[c].pc = "crypt" /\ call[c].pc = "makeKey"
    BY <1>1, <1>3, KeyFields DEF SyncStep
  <2>2. /\ keys' = [keys EXCEPT ![Keychain[c]] = c] /\ remote' = remote
        /\ keys \in [DOMAIN KeysFrom -> Keyed] /\ Keychain[c] \in DOMAIN KeysFrom /\ c # NoKey
    BY <1>1, <1>3, CloudTypes DEF Cloud!MakeKey, CloudShape
  <2>3. keys[Keychain[c]] = NoKey /\ KeysFrom[Keychain[c]] = NoKey
    BY <2>1, <2>2 DEF CloudKeyInv
  <2>4. /\ keys'[Keychain[c]] = c
        /\ \A k \in DOMAIN KeysFrom : k # Keychain[c] => keys'[k] = keys[k]
        /\ \A k \in DOMAIN KeysFrom : keys[k] # NoKey => keys'[k] = keys[k]
    BY <2>2, <2>3
  <2>5. \A d \in Checkouts \ {c} : Keychain[d] # Keychain[c] /\ Keychain[d] \in DOMAIN KeysFrom
    BY <2>3, CloudTypes DEF SharedKeychainsHaveKeys
  <2>6. \A k \in DOMAIN KeysFrom : KeysFrom[k] # NoKey => keys'[k] = KeysFrom[k]
    BY <2>4 DEF CloudKeyInv
  <2>7. \A d \in Checkouts :
          /\ call'[d].pc = "makeKey" => keys'[Keychain[d]] = NoKey
          /\ call'[d].pc = "crypt" => call'[d].key # NoKey /\ call'[d].key = keys'[Keychain[d]]
    BY <2>1, <2>2, <2>4, <2>5 DEF CloudKeyInv
  <2>8. remote'.version > 0 =>
            remote'.key # NoKey /\ \E k \in DOMAIN KeysFrom : keys'[k] = remote'.key
    BY <2>2, <2>4 DEF CloudKeyInv
  <2> QED BY <2>6, <2>7, <2>8 DEF CloudKeyInv
<1>4. ASSUME NEW c \in Checkouts, Cloud!Send(c) PROVE CloudKeyInv'
  <2>1. /\ \A d \in Checkouts \ {c} : call'[d] = call[d]
        /\ call[c].pc = "crypt" /\ call'[c].pc \in {"receipt", "idle"} /\ keys' = keys
        /\ remote' = remote \/ remote'.key = call[c].key
    BY <1>1, <1>4, SendFields DEF SyncStep
  <2>2. call[c].key # NoKey /\ \E k \in DOMAIN KeysFrom : keys[k] = call[c].key
    BY <2>1, CloudTypes DEF CloudKeyInv
  <2> QED BY <2>1, <2>2 DEF CloudKeyInv
<1>5. ASSUME NEW c \in Checkouts,
             \/ Cloud!Push(c) \/ Cloud!CheckNames(c) \/ \E force \in BOOLEAN : Cloud!Pull(c, force)
             \/ Cloud!Decrypt(c) \/ Cloud!Undecryptable(c)
      PROVE  CloudKeyInv'
  <2>1. UNCHANGED <<keys, remote>>
    BY <1>5 DEF Cloud!Push, Cloud!CheckNames, Cloud!Pull, Cloud!Decrypt, Cloud!Undecryptable
  <2>2. \A d \in Checkouts \ {c} : call'[d] = call[d]
    BY <1>1, <1>5 DEF Cloud!Push, Cloud!CheckNames, Cloud!Pull, Cloud!Decrypt,
             Cloud!Undecryptable, Cloud!End, Cloud!Go, CloudShape
  <2>3. call'[c].pc \in {"idle", "key", "commit"}
    <3>1. CASE Cloud!End(c)
      BY <1>1, <3>1, EndIs, NoSyncTypes
    <3>2. CASE Cloud!Push(c) \/ \E force \in BOOLEAN : Cloud!Pull(c, force)
      <4>1. TRUE \in BOOLEAN
        OBVIOUS
      <4> QED BY <1>1, <3>2, <4>1, BeginFields
    <3>3. CASE Cloud!Decrypt(c)
      BY <1>1, <3>3, DecryptFields
    <3>4. CASE Cloud!Go(c, "commit")
      BY <1>1, <3>4, GoSyncFields DEF SyncSteps
    <3> QED BY <1>5, <3>1, <3>2, <3>3, <3>4 DEF Cloud!CheckNames, Cloud!Undecryptable
  <2> QED BY <2>1, <2>2, <2>3, KeyCalm
<1>7. ASSUME NEW c \in Checkouts, Commits(c) PROVE CloudKeyInv'
  <2>1. UNCHANGED <<keys, remote>> /\ \A d \in Checkouts \ {c} : call'[d] = call[d]
    BY <1>7, CommitFields
  <2>2. call'[c].pc \in {"idle", "values", "undo", "undoValues"}
    <3>1. CASE Cloud!End(c)
      BY <1>1, <3>1, EndIs, NoSyncTypes
    <3>2. CASE ~Cloud!End(c)
      BY <1>7, <3>2, CommitFields DEF CommitGoes
    <3> QED BY <3>1, <3>2
  <2> QED BY <2>1, <2>2, KeyCalm
<1>6. CASE \/ \E c \in Checkouts : \E n \in Names : Cloud!Store(c, n) \/ Cloud!Remove(c, n)
           \/ \E c, d \in Checkouts : Cloud!ShareConfig(c, d)
           \/ UNCHANGED Cloud!vars
  <2>1. UNCHANGED <<keys, remote, call>>
    BY <1>6 DEF Cloud!Store, Cloud!Remove, Cloud!ShareConfig, Cloud!vars
  <2> QED BY <2>1 DEF CloudKeyInv
<1> QED BY <1>2, <1>3, <1>4, <1>5, <1>6, <1>7 DEF Cloud!Next, Commits

\* get_or_create_cloud_passphrase never replaces a key that something was pushed
\* with.  Of two checkouts that both find a shared keychain empty the second
\* replaces the key of the first: hence SharedKeychainsHaveKeys.
THEOREM PushedStaysDecryptable ==
  ASSUME Cloud!CloudAssumption, SharedKeychainsHaveKeys PROVE Cloud!Spec => []Cloud!PushedIsDecryptable
<1> DEFINE I == CloudInv /\ CloudKeyInv
<1>1. Cloud!Init => I
  <2> SUFFICES ASSUME Cloud!Init PROVE I
    OBVIOUS
  <2>1. CloudInv
    BY CloudStarts
  <2>2. keys = KeysFrom /\ remote.version = 0 /\ \A c \in Checkouts : call[c] = Cloud!NoCall
    BY DEF Cloud!Init
  <2>3. CloudKeyInv
    BY <2>2, NoSyncTypes DEF CloudKeyInv
  <2> QED BY <2>1, <2>3
<1>2. I /\ [Cloud!Next]_(Cloud!vars) => I'
  BY CloudKeeps, KeyKept
<1>3. I => Cloud!PushedIsDecryptable
  BY DEF CloudInv, CloudShape, CloudKeyInv, Cloud!PushedIsDecryptable
<1> HIDE DEF I
<1> QED BY <1>1, <1>2, <1>3, PTL DEF Cloud!Spec

-----------------------------------------------------------------------------
(* The vault of a team, for any users, devices and commands.  A version is   *)
(* taken by one write (ToldVersionInv); a rotation either has the contents   *)
(* of the stored version or is out of date (RotationInv); and a public key   *)
(* reaches the server only after both halves are in a keychain (PairInv), so *)
(* that what is wrapped for it opens (OpenInv).                              *)

CONSTANTS TeamUsers, Founder, Devices, UserOf, Procs, DeviceOf

VARIABLES members, registered, shared, keychain, local, command, made, stored, commands, told

Team == INSTANCE TeamVault WITH
    Users <- TeamUsers, call <- command, writes <- stored, calls <- commands

\* FiniteSets as TeamVault sees it.
LEMMA SameFiniteInTeam == \A S : Team!IsFiniteSet(S) <=> IsFiniteSet(S)
BY DEF Team!IsFiniteSet, IsFiniteSet

KeyPairs == [pub : Nat, sec : Nat]

CommandSteps == {"idle", "readPub", "readSec", "writeSec", "writePub", "register", "roster", "version",
                 "fetch", "cover", "occ", "write", "compare", "apply"}

Commands == [op : Team!Ops \cup {"none"}, pc : CommandSteps, keys : KeyPairs, contents : Nat,
             before : Nat, version : Nat, roster : [TeamUsers -> Nat]]

TeamShape ==
    /\ members \subseteq TeamUsers
    /\ registered \in [TeamUsers -> Nat]
    /\ shared \in [contents : Nat, version : Nat, shares : [TeamUsers -> Nat]]
    /\ keychain \in [Devices -> KeyPairs]
    /\ local \in [Devices -> Nat]
    /\ command \in [Procs -> Commands]
    /\ made \in Nat /\ stored \in Nat /\ commands \in 0..MaxCalls
    /\ told \subseteq [by : Procs, version : Nat]

\* Nothing has a number that was not given out yet.
NumberInv ==
    /\ \A u \in TeamUsers : registered[u] <= made
    /\ \A d \in Devices : keychain[d].pub <= made /\ keychain[d].sec <= made /\ local[d] <= stored
    /\ shared.contents <= stored
    /\ \A p \in Procs : /\ command[p].keys.pub <= made /\ command[p].keys.sec <= made
                        /\ command[p].contents <= stored

\* No version was told twice, and none that is not stored yet.
ToldVersionInv ==
    /\ \A x \in told : x.version <= shared.version
    /\ \A x, y \in told : x.version = y.version => x = y

\* A rotation that is not out of date has the contents it is about to replace.
RotationInv ==
    \A p \in Procs :
        /\ command[p].pc = "version" => command[p].op # "rotate"
        /\ command[p].op = "rotate" /\ command[p].pc \in {"register", "roster", "cover", "occ", "write"} =>
               /\ command[p].version <= shared.version
               /\ command[p].version = shared.version => command[p].contents = shared.contents

\* Every version is that of a command that has ended.
Running == {p \in Procs : command[p].pc # "idle"}

BudgetInv == shared.version + Cardinality(Running) <= commands

TeamInv == TeamShape /\ NumberInv /\ ToldVersionInv /\ RotationInv /\ BudgetInv

\* What a step of p does to the commands.
CommandStep(p, c) ==
    command' \in [Procs -> Commands] /\ command'[p] = c /\ \A q \in Procs \ {p} : command'[q] = command[q]

\* What the assumptions say of the types.
LEMMA TeamTypes ==
  ASSUME Team!TeamAssumption
  PROVE  /\ Founder \in TeamUsers
         /\ \A p \in Procs : DeviceOf[p] \in Devices /\ UserOf[DeviceOf[p]] \in TeamUsers
         /\ IsFiniteSet(Procs) /\ MaxWrites \in Nat /\ MaxCalls \in Nat
BY SameFiniteInTeam DEF Team!TeamAssumption

\* The process without a command.
LEMMA NoCallTypes ==
  /\ Team!NoCall \in Commands /\ Team!NoKeys \in KeyPairs /\ Team!NoShares \in [TeamUsers -> Nat]
  /\ Team!NoCall.op = "none" /\ Team!NoCall.pc = "idle" /\ Team!NoCall.keys = Team!NoKeys
  /\ Team!NoCall.contents = 0 /\ Team!NoCall.version = 0 /\ Team!NoCall.roster = Team!NoShares
  /\ Team!NoKeys.pub = 0 /\ Team!NoKeys.sec = 0
  /\ \A u \in TeamUsers : Team!NoShares[u] = 0
BY DEF Team!NoCall, Team!NoKeys, Team!NoShares, Commands, CommandSteps, KeyPairs

\* The number of commands that run.
LEMMA RunningStep ==
  ASSUME IsFiniteSet(Procs), command \in [Procs -> Commands], command' \in [Procs -> Commands],
         NEW p \in Procs, \A q \in Procs \ {p} : command'[q] = command[q]
  PROVE  /\ Cardinality(Running) \in Nat /\ Cardinality(Running') \in Nat
         /\ command[p].pc # "idle" /\ command'[p].pc # "idle" => Cardinality(Running') = Cardinality(Running)
         /\ command[p].pc # "idle"
                  /\ command'[p].pc = "idle" => Cardinality(Running') = Cardinality(Running) - 1
         /\ command[p].pc = "idle" => Cardinality(Running') <= Cardinality(Running) + 1
<1>1. /\ IsFiniteSet(Running) /\ Cardinality(Running) \in Nat
      /\ IsFiniteSet(Running') /\ Cardinality(Running') \in Nat
  <2>1. Running \subseteq Procs /\ Running' \subseteq Procs
    BY DEF Running
  <2> QED BY <2>1, FS_Subset, FS_CardinalityType
<1>2. ASSUME command[p].pc # "idle", command'[p].pc # "idle" PROVE Cardinality(Running') = Cardinality(Running)
  <2>1. Running' = Running
    BY <1>2 DEF Running
  <2> QED BY <2>1
<1>3. ASSUME command[p].pc # "idle", command'[p].pc = "idle"
         PROVE Cardinality(Running') = Cardinality(Running) - 1
  <2>1. Running' = Running \ {p} /\ p \in Running
    BY <1>3 DEF Running
  <2> QED BY <2>1, <1>1, FS_RemoveElement
<1>4. ASSUME command[p].pc = "idle" PROVE Cardinality(Running') <= Cardinality(Running) + 1
  <2>1. Running' = Running \/ Running' = Running \cup {p}
    BY <1>4 DEF Running
  <2> QED BY <2>1, <1>1, FS_AddElement
<1> QED BY <1>1, <1>2, <1>3, <1>4

\* What a step has to leave of the keys and the values.
NumberedStep ==
    /\ made' \in Nat /\ made <= made'
    /\ registered' \in [TeamUsers -> Nat] /\ \A u \in TeamUsers : registered'[u] <= made'
    /\ keychain' \in [Devices -> KeyPairs]
    /\ \A d \in Devices : keychain'[d].pub <= made' /\ keychain'[d].sec <= made'
    /\ local' \in [Devices -> Nat] /\ \A d \in Devices : local'[d] <= stored
    /\ UNCHANGED <<members, shared, stored, commands, told>>

\* What p is left with.
FitCommand(c) ==
    /\ c \in Commands
    /\ c.keys.pub <= made' /\ c.keys.sec <= made' /\ c.contents <= stored
    /\ c.pc = "version" => c.op # "rotate"
    /\ c.op = "rotate" /\ c.pc \in {"register", "roster", "cover", "occ", "write"} =>
            /\ c.version <= shared.version
            /\ c.version = shared.version => c.contents = shared.contents

\* A step of one command.
LEMMA CommandFrame ==
  ASSUME TeamShape, NEW p \in Procs, NEW c \in Commands, command' = [command EXCEPT ![p] = c]
  PROVE  CommandStep(p, c)
BY DEF CommandStep, TeamShape

\* Steps that leave keys and values alone.
LEMMA KeepsNumbers ==
  ASSUME TeamInv, UNCHANGED <<members, registered, shared, keychain, local, made, stored, commands, told>>
  PROVE  NumberedStep
BY DEF TeamInv, TeamShape, NumberInv, NumberedStep

\* A step of a command that writes no vault.
LEMMA TeamStep ==
  ASSUME Team!TeamAssumption, TeamInv, NEW p \in Procs, command[p].pc # "idle", NumberedStep,
         NEW c, FitCommand(c), CommandStep(p, c)
  PROVE  TeamInv'
<1>1. TeamShape /\ NumberInv /\ ToldVersionInv /\ RotationInv /\ BudgetInv
  BY DEF TeamInv
<1>2. c \in Commands
  BY DEF FitCommand
<1>3. command' \in [Procs -> Commands] /\ command'[p] = c /\ \A q \in Procs \ {p} : command'[q] = command[q]
  BY DEF CommandStep
<1>4. shared' = shared /\ told' = told /\ commands' = commands /\ stored' = stored /\ members' = members
  BY DEF NumberedStep
<1>5. TeamShape'
  BY <1>1, <1>3, <1>4 DEF TeamShape, NumberedStep
<1>6. NumberInv'
  <2>1. \A q \in Procs \ {p} : command'[q].keys.pub <= made' /\ command'[q].keys.sec <= made'
    <3> SUFFICES ASSUME NEW q \in Procs \ {p} PROVE command'[q].keys.pub <= made'
             /\ command'[q].keys.sec <= made'
      OBVIOUS
    <3>1. command'[q] = command[q] /\ command[q].keys.pub \in Nat /\ command[q].keys.sec \in Nat
      BY <1>1, <1>3 DEF TeamShape, Commands, KeyPairs
    <3>2. command[q].keys.pub <= made /\ command[q].keys.sec <= made /\ made \in Nat /\ made' \in Nat
             /\ made <= made'
      BY <1>1 DEF NumberInv, TeamShape, NumberedStep
    <3> QED BY <3>1, <3>2
  <2>2. \A q \in Procs : command'[q].contents <= stored
    BY <1>1, <1>3 DEF NumberInv, FitCommand
  <2>3. command'[p].keys.pub <= made' /\ command'[p].keys.sec <= made'
    BY <1>3 DEF FitCommand
  <2> QED BY <1>1, <1>4, <2>1, <2>2, <2>3 DEF NumberInv, NumberedStep
<1>7. ToldVersionInv'
  BY <1>1, <1>4 DEF ToldVersionInv
<1>8. RotationInv'
  BY <1>1, <1>3, <1>4 DEF RotationInv, FitCommand
<1>9. BudgetInv'
  <2>1. Cardinality(Running') \in Nat /\ Cardinality(Running) \in Nat
           /\ Cardinality(Running') <= Cardinality(Running)
    BY <1>1, <1>3, RunningStep, TeamTypes DEF TeamShape
  <2>2. shared.version \in Nat /\ commands \in Nat
    BY <1>1, TeamTypes DEF TeamShape
  <2> QED BY <1>1, <1>4, <2>1, <2>2 DEF BudgetInv
<1> QED BY <1>5, <1>6, <1>7, <1>8, <1>9 DEF TeamInv

\* A command may always end.
LEMMA EndFits ==
  ASSUME TeamInv, NumberedStep PROVE FitCommand(Team!NoCall)
<1>1. made' \in Nat /\ stored \in Nat
  BY DEF TeamInv, TeamShape, NumberedStep
<1> QED BY <1>1, NoCallTypes DEF FitCommand

\* The end of a command.
LEMMA EndCommandStep ==
  ASSUME Team!TeamAssumption, TeamInv, NEW p \in Procs, command[p].pc # "idle", NumberedStep, Team!End(p)
  PROVE  TeamInv'
BY EndFits, NoCallTypes, CommandFrame, TeamStep DEF Team!End, TeamInv

\* A step that goes on with what the command has.
LEMMA GoesOn ==
  ASSUME TeamInv, NEW p \in Procs, NumberedStep, NEW s \in CommandSteps, s # "version",
         command[p].op = "rotate" /\ s \in {"register", "roster", "cover", "occ", "write"} =>
            command[p].pc \in {"register", "roster", "cover", "occ", "write"}
  PROVE  FitCommand([command[p] EXCEPT !.pc = s])
<1> DEFINE c == [command[p] EXCEPT !.pc = s]
<1>1. command[p] \in Commands
  BY DEF TeamInv, TeamShape
<1>2. /\ c \in Commands /\ c.op = command[p].op /\ c.pc = s /\ c.keys = command[p].keys
      /\ c.contents = command[p].contents /\ c.version = command[p].version
  BY <1>1 DEF Commands
<1> HIDE DEF c
<1>3. /\ command[p].keys.pub \in Nat /\ command[p].keys.sec \in Nat /\ made \in Nat /\ made' \in Nat
      /\ command[p].keys.pub <= made /\ command[p].keys.sec <= made /\ made <= made'
      /\ command[p].contents <= stored
  BY <1>1 DEF TeamInv, TeamShape, NumberInv, NumberedStep, Commands, KeyPairs
<1>4. c.keys.pub <= made' /\ c.keys.sec <= made' /\ c.contents <= stored
  BY <1>2, <1>3
<1>5. /\ c.pc = "version" => c.op # "rotate"
      /\ c.op = "rotate" /\ c.pc \in {"register", "roster", "cover", "occ", "write"} =>
            /\ c.version <= shared.version
            /\ c.version = shared.version => c.contents = shared.contents
  BY <1>2 DEF TeamInv, RotationInv
<1> QED BY <1>2, <1>4, <1>5 DEF FitCommand, c

\* A command that goes on.
LEMMA GoesOnAs ==
  ASSUME TeamInv, NEW p \in Procs, NEW s \in CommandSteps, command' = [command EXCEPT ![p].pc = s]
  PROVE  CommandStep(p, [command[p] EXCEPT !.pc = s])
<1>1. command \in [Procs -> Commands]
  BY DEF TeamInv, TeamShape
<1>2. command'[p] = [command[p] EXCEPT !.pc = s] /\ \A q \in Procs \ {p} : command'[q] = command[q]
  BY <1>1 DEF Commands
<1>3. [command[p] EXCEPT !.pc = s] \in Commands
  BY <1>1 DEF Commands
<1>4. command' \in [Procs -> Commands]
  BY <1>1, <1>2, <1>3
<1> QED BY <1>2, <1>4 DEF CommandStep

\* Reading the public half.
LEMMA ReadPubStep == ASSUME Team!TeamAssumption, TeamInv, NEW p \in Procs, Team!ReadPub(p) PROVE TeamInv'
<1> DEFINE k == keychain[DeviceOf[p]].pub
           ks == [command[p].keys EXCEPT !.pub = k]
           c == [command[p] EXCEPT !.pc = "readSec", !.keys = ks]
<1>1. /\ command[p] \in Commands /\ k \in Nat /\ k <= made /\ command[p].pc = "readPub"
      /\ UNCHANGED <<members, registered, shared, keychain, local, made, stored, commands, told>>
  BY TeamTypes DEF TeamInv, TeamShape, NumberInv, KeyPairs, Team!ReadPub, Team!At, Team!remote
<1>2. CommandStep(p, c)
  <2>1. ks \in KeyPairs /\ command \in [Procs -> Commands]
    BY <1>1 DEF Commands, KeyPairs, TeamInv, TeamShape
  <2>2. command'[p] = c /\ \A q \in Procs \ {p} : command'[q] = command[q]
    BY <2>1 DEF Team!ReadPub, Commands
  <2>3. c \in Commands
    BY <2>1 DEF Commands, CommandSteps
  <2>4. command' \in [Procs -> Commands]
    BY <2>1, <2>2, <2>3 DEF Team!ReadPub
  <2> QED BY <2>2, <2>4 DEF CommandStep
<1>3. NumberedStep /\ made' = made
  BY <1>1, KeepsNumbers
<1>4. /\ c \in Commands /\ c.pc = "readSec" /\ c.keys.pub = k /\ c.keys.sec = command[p].keys.sec
      /\ c.contents = command[p].contents
  BY <1>1 DEF Commands, KeyPairs, CommandSteps
<1>5. command[p].keys.sec <= made /\ command[p].contents <= stored
  BY DEF TeamInv, NumberInv
<1> HIDE DEF c, k, ks
<1>6. FitCommand(c)
  BY <1>1, <1>3, <1>4, <1>5 DEF FitCommand
<1> QED BY <1>1, <1>2, <1>3, <1>6, TeamStep

\* Where a command goes on with its keys.
LEMMA AfterKeysTypes ==
  ASSUME NEW p \in Procs
  PROVE  /\ Team!AfterKeys(p) \in CommandSteps /\ Team!AfterKeys(p) \in {"register", "fetch"}
         /\ command[p].op = "rotate" => Team!AfterKeys(p) = "fetch"
BY DEF Team!AfterKeys, CommandSteps

\* Reading the private half, or making a pair.
LEMMA ReadSecStep == ASSUME Team!TeamAssumption, TeamInv, NEW p \in Procs, Team!ReadSec(p) PROVE TeamInv'
<1> DEFINE k == keychain[DeviceOf[p]].sec
<1>1. /\ command[p] \in Commands /\ k \in Nat /\ k <= made /\ command[p].pc = "readSec" /\ made \in Nat
      /\ UNCHANGED <<members, registered, shared, keychain, local, stored, commands, told>>
  BY TeamTypes DEF TeamInv, TeamShape, NumberInv, KeyPairs, Team!ReadSec, Team!At, Team!remote
<1>2. command[p].keys.pub <= made /\ command[p].contents <= stored
  BY DEF TeamInv, NumberInv
<1>3. CASE command' = [command EXCEPT ![p].pc = Team!AfterKeys(p), ![p].keys.sec = k] /\ made' = made
  <2> DEFINE ks == [command[p].keys EXCEPT !.sec = k]
             c == [command[p] EXCEPT !.pc = Team!AfterKeys(p), !.keys = ks]
  <2>1. CommandStep(p, c)
    <3>1. ks \in KeyPairs /\ command \in [Procs -> Commands]
      BY <1>1 DEF Commands, KeyPairs, TeamInv, TeamShape
    <3>2. command'[p] = c /\ \A q \in Procs \ {p} : command'[q] = command[q]
      BY <3>1, <1>3 DEF Commands
    <3>3. c \in Commands
      BY <3>1, AfterKeysTypes DEF Commands
    <3>4. command' \in [Procs -> Commands]
      BY <3>1, <3>2, <3>3, <1>3
    <3> QED BY <3>2, <3>4 DEF CommandStep
  <2>2. /\ c \in Commands /\ c.pc = Team!AfterKeys(p) /\ c.keys.sec = k /\ c.keys.pub = command[p].keys.pub
        /\ c.contents = command[p].contents /\ c.op = command[p].op
    BY <1>1, AfterKeysTypes DEF Commands, KeyPairs
  <2>3. NumberedStep
    BY <1>1, <1>3, KeepsNumbers
  <2> HIDE DEF c, k
  <2>4. FitCommand(c)
    BY <1>1, <1>2, <1>3, <2>2, AfterKeysTypes DEF FitCommand
  <2> QED BY <1>1, <2>1, <2>3, <2>4, TeamStep
<1>4. CASE made' = made + 1
           /\ command' = [command EXCEPT ![p].pc = "writeSec", ![p].keys = [pub |-> made + 1, sec |-> made + 1]]
  <2> DEFINE ks == [pub |-> made + 1, sec |-> made + 1]
             c == [command[p] EXCEPT !.pc = "writeSec", !.keys = ks]
  <2>0. ks \in KeyPairs /\ ks.pub = made + 1 /\ ks.sec = made + 1
    BY <1>1 DEF KeyPairs
  <2>5. command' = [command EXCEPT ![p].pc = "writeSec", ![p].keys = ks]
    BY <1>4
  <2> HIDE DEF ks
  <2>2. /\ c \in Commands /\ c.pc = "writeSec" /\ c.keys = ks /\ c.contents = command[p].contents
    BY <1>1, <2>0 DEF Commands, CommandSteps
  <2>1. CommandStep(p, c)
    BY <2>2, <2>5 DEF CommandStep, TeamInv, TeamShape, Commands
  <2>3. NumberedStep
    <3>1. /\ \A u \in TeamUsers : registered[u] \in Nat /\ registered[u] <= made
          /\ \A d \in Devices : /\ keychain[d].pub \in Nat /\ keychain[d].pub <= made
                                /\ keychain[d].sec \in Nat /\ keychain[d].sec <= made
      BY DEF TeamInv, TeamShape, NumberInv, KeyPairs
    <3>2. /\ \A u \in TeamUsers : registered[u] <= made + 1
          /\ \A d \in Devices : keychain[d].pub <= made + 1 /\ keychain[d].sec <= made + 1
      BY <3>1, <1>1
    <3> QED BY <3>2, <1>1, <1>4 DEF NumberedStep, TeamInv, TeamShape, NumberInv
  <2> HIDE DEF c, k
  <2>4. FitCommand(c)
    BY <1>1, <1>2, <1>4, <2>2, <2>0 DEF FitCommand
  <2> QED BY <1>1, <2>1, <2>3, <2>4, TeamStep
<1> QED BY <1>3, <1>4 DEF Team!ReadSec

\* Writing a pair.
LEMMA WriteKeyStep ==
  ASSUME Team!TeamAssumption, TeamInv, NEW p \in Procs, Team!WriteSec(p) \/ Team!WritePub(p) PROVE TeamInv'
<1> DEFINE d == DeviceOf[p]
<1>1. /\ d \in Devices /\ command[p].pc \in {"writeSec", "writePub"}
      /\ UNCHANGED <<members, registered, shared, local, made, stored, commands, told>>
      /\ command[p].keys.pub \in Nat /\ command[p].keys.sec \in Nat
      /\ command[p].keys.pub <= made /\ command[p].keys.sec <= made
      /\ keychain \in [Devices -> KeyPairs]
  BY TeamTypes DEF Team!WriteSec, Team!WritePub, Team!At, Team!remote, TeamInv, TeamShape, NumberInv,
           Commands, KeyPairs
<1>2. NumberedStep
  <2>1. /\ keychain' \in [Devices -> KeyPairs]
        /\ \A e \in Devices \ {d} : keychain'[e] = keychain[e]
        /\ keychain'[d].pub \in {keychain[d].pub, command[p].keys.pub}
        /\ keychain'[d].sec \in {keychain[d].sec, command[p].keys.sec}
    BY <1>1 DEF Team!WriteSec, Team!WritePub, KeyPairs
  <2>2. \A e \in Devices : keychain[e].pub <= made /\ keychain[e].sec <= made
    BY DEF TeamInv, NumberInv
  <2>3. \A e \in Devices : keychain'[e].pub <= made /\ keychain'[e].sec <= made
    BY <1>1, <2>1, <2>2
  <2> HIDE DEF d
  <2> QED BY <1>1, <2>1, <2>3 DEF NumberedStep, TeamInv, TeamShape, NumberInv
<1>3. CASE Team!WriteSec(p)
  BY <1>1, <1>2, <1>3, GoesOn, GoesOnAs, TeamStep DEF Team!WriteSec, Team!Go, CommandSteps
<1>4. CASE Team!WritePub(p)
  BY <1>1, <1>2, <1>4, GoesOn, GoesOnAs, TeamStep, AfterKeysTypes DEF Team!WritePub, Team!Go
<1> QED BY <1>3, <1>4

\* Registering the public half.
LEMMA RegisterStep == ASSUME Team!TeamAssumption, TeamInv, NEW p \in Procs, Team!Register(p) PROVE TeamInv'
<1> DEFINE k == command[p].keys.pub
           l == local[DeviceOf[p]]
<1>1. /\ Team!Caller(p) \in TeamUsers /\ command[p] \in Commands /\ command[p].pc = "register"
      /\ k \in Nat /\ k <= made /\ l \in Nat /\ l <= stored
      /\ UNCHANGED <<members, shared, keychain, local, made, stored, commands, told>>
  BY TeamTypes DEF Team!Register, Team!At, TeamInv, TeamShape, NumberInv, Commands, KeyPairs, Team!Caller
<1>2. /\ registered \in [TeamUsers -> Nat] /\ \A u \in TeamUsers : registered[u] <= made
  BY DEF TeamInv, TeamShape, NumberInv
<1>3. registered' = registered \/ registered' = [registered EXCEPT ![Team!Caller(p)] = k]
  BY DEF Team!Register
<1>4. registered' \in [TeamUsers -> Nat] /\ \A u \in TeamUsers : registered'[u] <= made
  BY <1>1, <1>2, <1>3
<1> HIDE DEF k, l
<1>5. NumberedStep
  BY <1>1, <1>4 DEF NumberedStep, TeamInv, TeamShape, NumberInv
<1>6. CASE Team!End(p)
  BY <1>1, <1>5, <1>6, EndCommandStep
<1>7. CASE command' = [command EXCEPT ![p] = [command[p] EXCEPT !.pc = "roster", !.contents = l]]
         /\ command[p].op = "push"
  <2> DEFINE c == [command[p] EXCEPT !.pc = "roster", !.contents = l]
  <2>1. /\ c \in Commands /\ c.pc = "roster" /\ c.keys = command[p].keys /\ c.contents = l /\ c.op = "push"
    BY <1>1, <1>7 DEF Commands, CommandSteps
  <2>2. c.keys.pub <= made' /\ c.keys.sec <= made'
    BY <1>1, <2>1 DEF TeamInv, NumberInv
  <2> HIDE DEF c
  <2>3. FitCommand(c)
    BY <1>1, <2>1, <2>2 DEF FitCommand
  <2> QED BY <1>1, <1>5, <1>7, <2>1, <2>3, CommandFrame, TeamStep DEF TeamInv, c
<1>8. CASE command' = [command EXCEPT ![p] = [command[p] EXCEPT !.pc = "roster"]]
  <2>1. FitCommand([command[p] EXCEPT !.pc = "roster"])
    BY <1>1, <1>5, GoesOn DEF CommandSteps
  <2> QED BY <1>1, <1>5, <1>8, <2>1, CommandFrame, TeamStep DEF TeamInv, FitCommand
<1> QED BY <1>6, <1>7, <1>8 DEF Team!Register, Team!End, k, l

\* Reading the roster.
LEMMA RosterStep == ASSUME Team!TeamAssumption, TeamInv, NEW p \in Procs, Team!Roster(p) PROVE TeamInv'
<1> DEFINE s == IF command[p].op = "push" THEN "version" ELSE "cover"
           c == [command[p] EXCEPT !.roster = registered, !.pc = s]
<1>1. /\ command[p] \in Commands /\ command[p].pc = "roster" /\ registered \in [TeamUsers -> Nat]
      /\ UNCHANGED <<members, registered, shared, keychain, local, made, stored, commands, told>>
  BY DEF Team!Roster, Team!At, Team!remote, TeamInv, TeamShape
<1>2. CommandStep(p, c)
  <2>1. command \in [Procs -> Commands]
    BY DEF TeamInv, TeamShape
  <2>2. command'[p] = c /\ \A q \in Procs \ {p} : command'[q] = command[q]
    BY <2>1 DEF Team!Roster, Commands
  <2>3. c \in Commands
    BY <2>1, <1>1 DEF Commands, CommandSteps
  <2>4. command' \in [Procs -> Commands]
    BY <2>1, <2>2, <2>3 DEF Team!Roster
  <2> QED BY <2>2, <2>4 DEF CommandStep
<1>3. /\ c \in Commands /\ c.keys = command[p].keys /\ c.contents = command[p].contents
      /\ c.version = command[p].version /\ c.op = command[p].op
      /\ c.pc = "version" => c.op = "push"
  BY <1>1 DEF Commands, CommandSteps
<1> HIDE DEF c, s
<1>4. NumberedStep /\ made' = made
  BY <1>1, KeepsNumbers
<1>5. FitCommand(c)
  BY <1>1, <1>3, <1>4 DEF FitCommand, TeamInv, NumberInv, RotationInv
<1> QED BY <1>1, <1>2, <1>4, <1>5, TeamStep

\* Asking for the version.
LEMMA VersionStep == ASSUME Team!TeamAssumption, TeamInv, NEW p \in Procs, Team!Version(p) PROVE TeamInv'
<1> DEFINE c == [command[p] EXCEPT !.version = shared.version, !.pc = "cover"]
<1>1. /\ command[p] \in Commands /\ command[p].pc = "version" /\ shared.version \in Nat
      /\ UNCHANGED <<members, registered, shared, keychain, local, made, stored, commands, told>>
  BY DEF Team!Version, Team!At, Team!remote, TeamInv, TeamShape
<1>2. NumberedStep /\ made' = made
  BY <1>1, KeepsNumbers
<1>3. CASE Team!End(p)
  BY <1>1, <1>2, <1>3, EndCommandStep
<1>4. CASE command' = [command EXCEPT ![p].version = shared.version, ![p].pc = "cover"]
  <2>1. CommandStep(p, c)
    <3>1. command \in [Procs -> Commands]
      BY DEF TeamInv, TeamShape
    <3>2. command'[p] = c /\ \A q \in Procs \ {p} : command'[q] = command[q]
      BY <3>1, <1>4 DEF Commands
    <3>3. c \in Commands
      BY <3>1, <1>1 DEF Commands, CommandSteps
    <3>4. command' \in [Procs -> Commands]
      BY <3>1, <3>2, <3>3, <1>4
    <3> QED BY <3>2, <3>4 DEF CommandStep
  <2>2. /\ c \in Commands /\ c.keys = command[p].keys /\ c.contents = command[p].contents
        /\ c.version = shared.version /\ c.op = command[p].op /\ c.pc = "cover"
    BY <1>1 DEF Commands, CommandSteps
  <2> HIDE DEF c
  <2>3. FitCommand(c)
    BY <1>1, <1>2, <2>2 DEF FitCommand, TeamInv, NumberInv, RotationInv
  <2> QED BY <1>1, <1>2, <2>1, <2>3, TeamStep
<1> QED BY <1>3, <1>4 DEF Team!Version

\* Fetching the vault.
LEMMA FetchStep == ASSUME Team!TeamAssumption, TeamInv, NEW p \in Procs, Team!Fetch(p) PROVE TeamInv'
<1> DEFINE s == IF command[p].op = "rotate" THEN "register" ELSE "compare"
           c == [command[p] EXCEPT !.contents = shared.contents, !.version = shared.version, !.pc = s]
<1>1. /\ command[p] \in Commands /\ command[p].pc = "fetch"
      /\ shared.version \in Nat /\ shared.contents \in Nat /\ shared.contents <= stored
      /\ UNCHANGED <<members, registered, shared, keychain, local, made, stored, commands, told>>
  BY DEF Team!Fetch, Team!At, Team!remote, TeamInv, TeamShape, NumberInv
<1>2. NumberedStep /\ made' = made
  BY <1>1, KeepsNumbers
<1>3. CASE Team!End(p)
  BY <1>1, <1>2, <1>3, EndCommandStep
<1>4. CASE command' = [command EXCEPT ![p] = c]
  <2>1. /\ c \in Commands /\ c.keys = command[p].keys /\ c.contents = shared.contents
        /\ c.version = shared.version /\ c.pc # "version"
    BY <1>1 DEF Commands, CommandSteps
  <2> HIDE DEF c
  <2>2. FitCommand(c)
    BY <1>1, <1>2, <2>1 DEF FitCommand, TeamInv, NumberInv
  <2> QED BY <1>1, <1>2, <1>4, <2>1, <2>2, CommandFrame, TeamStep DEF TeamInv
<1> QED BY <1>3, <1>4 DEF Team!Fetch

\* The checks of the POST, and failures.
LEMMA CheckSteps ==
  ASSUME Team!TeamAssumption, TeamInv, NEW p \in Procs, Team!Cover(p) \/ Team!CheckVersion(p)
           \/ Team!Fail(p) PROVE TeamInv'
<1>1. /\ command[p].pc # "idle"
      /\ UNCHANGED <<members, registered, shared, keychain, local, made, stored, commands, told>>
  BY DEF Team!Cover, Team!CheckVersion, Team!Fail, Team!At, Team!remote
<1>2. NumberedStep
  BY <1>1, KeepsNumbers
<1>3. CASE Team!End(p)
  BY <1>1, <1>2, <1>3, EndCommandStep
<1>4. CASE Team!Go(p, "occ") /\ command[p].pc = "cover"
  BY <1>1, <1>2, <1>4, GoesOn, GoesOnAs, TeamStep DEF Team!Go, CommandSteps
<1>5. CASE Team!Go(p, "write") /\ command[p].pc = "occ"
  BY <1>1, <1>2, <1>5, GoesOn, GoesOnAs, TeamStep DEF Team!Go, CommandSteps
<1> QED BY <1>3, <1>4, <1>5 DEF Team!Cover, Team!CheckVersion, Team!Fail, Team!At

\* A pull looks at the local values.
LEMMA CompareStep == ASSUME Team!TeamAssumption, TeamInv, NEW p \in Procs, Team!Compare(p) PROVE TeamInv'
<1> DEFINE b == local[DeviceOf[p]]
           c == [command[p] EXCEPT !.pc = "apply", !.before = b]
<1>1. /\ command[p] \in Commands /\ command[p].pc = "compare" /\ b \in Nat
      /\ UNCHANGED <<members, registered, shared, keychain, local, made, stored, commands, told>>
  BY TeamTypes DEF Team!Compare, Team!At, Team!remote, TeamInv, TeamShape
<1>2. NumberedStep /\ made' = made
  BY <1>1, KeepsNumbers
<1>3. CommandStep(p, c)
  <2>1. command \in [Procs -> Commands]
    BY DEF TeamInv, TeamShape
  <2>2. command'[p] = c /\ \A q \in Procs \ {p} : command'[q] = command[q]
    BY <2>1 DEF Team!Compare, Commands
  <2>3. c \in Commands
    BY <2>1, <1>1 DEF Commands, CommandSteps
  <2>4. command' \in [Procs -> Commands]
    BY <2>1, <2>2, <2>3 DEF Team!Compare
  <2> QED BY <2>2, <2>4 DEF CommandStep
<1>4. /\ c \in Commands /\ c.keys = command[p].keys /\ c.contents = command[p].contents /\ c.pc = "apply"
  BY <1>1 DEF Commands, CommandSteps
<1> HIDE DEF c, b
<1>5. FitCommand(c)
  BY <1>1, <1>2, <1>4 DEF FitCommand, TeamInv, NumberInv
<1> QED BY <1>1, <1>2, <1>3, <1>5, TeamStep

\* A pull replaces them.
LEMMA ApplyStep == ASSUME Team!TeamAssumption, TeamInv, NEW p \in Procs, Team!Apply(p) PROVE TeamInv'
<1> DEFINE d == DeviceOf[p]
<1>1. /\ command[p].pc = "apply" /\ d \in Devices /\ Team!End(p)
      /\ command[p].contents \in Nat /\ command[p].contents <= stored
      /\ local \in [Devices -> Nat] /\ \A e \in Devices : local[e] <= stored
      /\ UNCHANGED <<members, registered, shared, keychain, made, stored, commands, told>>
  BY TeamTypes DEF Team!Apply, Team!At, Team!remote, TeamInv, TeamShape, NumberInv, Commands
<1>2. local' = local \/ local' = [local EXCEPT ![d] = command[p].contents]
  BY DEF Team!Apply
<1> HIDE DEF d
<1>3. local' \in [Devices -> Nat] /\ \A e \in Devices : local'[e] <= stored
  BY <1>1, <1>2
<1>4. NumberedStep
  BY <1>1, <1>3 DEF NumberedStep, TeamInv, TeamShape, NumberInv
<1> QED BY <1>1, <1>4, EndCommandStep

\* The write of the POST.
LEMMA PostStep == ASSUME Team!TeamAssumption, TeamInv, NEW p \in Procs, Team!Write(p) PROVE TeamInv'
<1> DEFINE n == command[p]
<1>1. /\ n \in Commands /\ n.pc = "write" /\ Team!End(p)
      /\ UNCHANGED <<members, registered, keychain, local, made, stored, commands>>
  BY DEF Team!Write, Team!At, TeamInv, TeamShape
<1>2. CASE shared' = shared /\ told' = told
  <2>1. NumberedStep
    BY <1>1, <1>2, KeepsNumbers
  <2> QED BY <1>1, <2>1, EndCommandStep
<1>3. CASE /\ shared.version = n.version
           /\ shared' = [contents |-> n.contents, version |-> n.version + 1, shares |-> n.roster]
           /\ told' = told \cup {[by |-> p, version |-> n.version + 1]}
  <2>1. TeamShape /\ NumberInv /\ ToldVersionInv /\ RotationInv /\ BudgetInv
    BY DEF TeamInv
  <2>2. /\ command' \in [Procs -> Commands] /\ command'[p] = Team!NoCall
        /\ \A q \in Procs \ {p} : command'[q] = command[q]
    BY <1>1, <2>1, NoCallTypes, CommandFrame DEF Team!End, CommandStep
  <2>3. /\ shared.version \in Nat /\ n.contents \in Nat /\ n.contents <= stored
        /\ n.roster \in [TeamUsers -> Nat]
    BY <1>1, <2>1 DEF TeamShape, NumberInv, Commands
  <2>4. /\ shared' \in [contents : Nat, version : Nat, shares : [TeamUsers -> Nat]]
        /\ shared'.version = shared.version + 1 /\ shared'.contents = n.contents
    BY <1>3, <2>3
  <2> DEFINE x == [by |-> p, version |-> n.version + 1]
  <2>5. x \in [by : Procs, version : Nat] /\ x.version = shared.version + 1 /\ told' = told \cup {x}
    BY <1>3, <2>3
  <2> HIDE DEF x
  <2>6. TeamShape'
    BY <1>1, <2>1, <2>2, <2>4, <2>5 DEF TeamShape
  <2>7. NumberInv'
    <3>1. /\ Team!NoCall.keys.pub = 0 /\ Team!NoCall.keys.sec = 0 /\ Team!NoCall.contents = 0
             /\ made \in Nat /\ stored \in Nat
      BY <2>1, NoCallTypes DEF TeamShape
    <3>2. \A q \in Procs : /\ command'[q].keys.pub <= made /\ command'[q].keys.sec <= made
                           /\ command'[q].contents <= stored
      BY <2>1, <2>2, <3>1 DEF NumberInv
    <3> HIDE DEF n
    <3> QED BY <1>1, <2>1, <2>3, <2>4, <3>2 DEF NumberInv
  <2>8. ToldVersionInv'
    <3>1. \A y \in told : y.version \in Nat /\ y.version <= shared.version
      BY <2>1 DEF TeamShape, ToldVersionInv
    <3>2. \A y \in told : y.version # x.version /\ y.version <= shared'.version
      BY <3>1, <2>3, <2>4, <2>5
    <3> QED BY <3>2, <2>1, <2>3, <2>4, <2>5 DEF ToldVersionInv
  <2>9. RotationInv'
    <3> SUFFICES ASSUME NEW q \in Procs
                 PROVE  /\ command'[q].pc = "version" => command'[q].op # "rotate"
                        /\ command'[q].op = "rotate" /\ command'[q].pc \in {"register", "roster", "cover",
                                 "occ", "write"} =>
                             /\ command'[q].version <= shared'.version
                             /\ command'[q].version = shared'.version => command'[q].contents = shared'.contents
      BY DEF RotationInv
    <3>1. CASE q = p
      BY <3>1, <2>2, NoCallTypes
    <3>2. CASE q # p
      <4>1. command'[q] = command[q] /\ command[q].version \in Nat
        BY <3>2, <2>1, <2>2 DEF TeamShape, Commands
      <4>2. /\ command[q].pc = "version" => command[q].op # "rotate"
            /\ command[q].op = "rotate" /\ command[q].pc \in {"register", "roster", "cover", "occ", "write"} =>
                  command[q].version <= shared.version
        BY <2>1 DEF RotationInv
      <4> QED BY <4>1, <4>2, <2>3, <2>4
    <3> QED BY <3>1, <3>2
  <2>10. BudgetInv'
    <3>1. /\ Cardinality(Running') \in Nat /\ Cardinality(Running) \in Nat
          /\ Cardinality(Running') = Cardinality(Running) - 1
      BY <1>1, <2>1, <2>2, RunningStep, TeamTypes, NoCallTypes DEF TeamShape
    <3>2. commands \in Nat /\ commands' = commands
      BY <1>1, <2>1, TeamTypes DEF TeamShape
    <3> QED BY <2>1, <2>3, <2>4, <3>1, <3>2 DEF BudgetInv
  <2> QED BY <2>6, <2>7, <2>8, <2>9, <2>10 DEF TeamInv
<1> QED BY <1>2, <1>3 DEF Team!Write

\* A command begins.
LEMMA BeginCommandStep ==
  ASSUME Team!TeamAssumption, TeamInv, NEW p \in Procs, NEW op \in Team!Ops, Team!Begin(p, op) PROVE TeamInv'
<1> DEFINE c == [Team!NoCall EXCEPT !.op = op, !.pc = "readPub"]
<1>1. /\ command[p].pc = "idle" /\ commands < MaxCalls /\ commands' = commands + 1
         /\ command' = [command EXCEPT ![p] = c]
      /\ UNCHANGED <<members, registered, shared, keychain, local, made, stored, told>>
  BY DEF Team!Begin, Team!At, Team!remote
<1>2. TeamShape /\ NumberInv /\ ToldVersionInv /\ RotationInv /\ BudgetInv
  BY DEF TeamInv
<1>3. /\ c \in Commands /\ c.pc = "readPub" /\ c.keys = Team!NoKeys /\ c.contents = 0
  BY NoCallTypes DEF Commands, CommandSteps
<1> HIDE DEF c
<1>4. command' \in [Procs -> Commands] /\ command'[p] = c /\ \A q \in Procs \ {p} : command'[q] = command[q]
  BY <1>1, <1>2, <1>3, CommandFrame DEF CommandStep
<1>5. commands \in Nat /\ commands' \in 0..MaxCalls /\ shared.version \in Nat /\ made \in Nat /\ stored \in Nat
  BY <1>1, <1>2, TeamTypes DEF TeamShape
<1>6. TeamShape'
  BY <1>1, <1>2, <1>4, <1>5 DEF TeamShape
<1>7. NumberInv'
  <2>1. \A q \in Procs : /\ command'[q].keys.pub <= made /\ command'[q].keys.sec <= made
                         /\ command'[q].contents <= stored
    BY <1>2, <1>3, <1>4, <1>5, NoCallTypes DEF NumberInv
  <2> QED BY <1>1, <1>2, <2>1 DEF NumberInv
<1>8. ToldVersionInv' /\ RotationInv'
  BY <1>1, <1>2, <1>3, <1>4 DEF ToldVersionInv, RotationInv
<1>9. BudgetInv'
  <2>1. /\ Cardinality(Running') \in Nat /\ Cardinality(Running) \in Nat
        /\ Cardinality(Running') <= Cardinality(Running) + 1
    BY <1>1, <1>2, <1>4, RunningStep, TeamTypes DEF TeamShape
  <2> QED BY <1>1, <1>2, <1>5, <2>1 DEF BudgetInv
<1> QED BY <1>6, <1>7, <1>8, <1>9 DEF TeamInv

\* What users do meanwhile.
LEMMA UserSteps ==
  ASSUME Team!TeamAssumption, TeamInv,
         (\E d \in Devices : Team!Store(d)) \/ (\E u \in TeamUsers : Team!Invite(u)) \/ UNCHANGED Team!vars
  PROVE  TeamInv'
<1>1. /\ UNCHANGED <<registered, shared, keychain, command, made, commands, told>>
      /\ members' \subseteq TeamUsers
      /\ \/ UNCHANGED <<local, stored>>
         \/ stored' = stored + 1 /\ \E d \in Devices : local' = [local EXCEPT ![d] = stored + 1]
  BY DEF Team!Store, Team!Invite, Team!remote, Team!vars, TeamInv, TeamShape
<1>2. TeamShape /\ NumberInv /\ ToldVersionInv /\ RotationInv /\ BudgetInv
  BY DEF TeamInv
<1>3. /\ stored \in Nat /\ local \in [Devices -> Nat] /\ \A d \in Devices : local[d] <= stored
      /\ shared.contents \in Nat /\ shared.contents <= stored
      /\ \A p \in Procs : command[p].contents \in Nat /\ command[p].contents <= stored
  BY <1>2 DEF TeamShape, NumberInv, Commands
<1>4. /\ stored' \in Nat /\ local' \in [Devices -> Nat] /\ \A d \in Devices : local'[d] <= stored'
      /\ shared.contents <= stored' /\ \A p \in Procs : command[p].contents <= stored'
  BY <1>1, <1>3
<1>5. TeamShape'
  BY <1>1, <1>2, <1>4 DEF TeamShape
<1>6. NumberInv'
  BY <1>1, <1>2, <1>4 DEF NumberInv
<1>7. ToldVersionInv' /\ RotationInv'
  BY <1>1, <1>2 DEF ToldVersionInv, RotationInv
<1>8. BudgetInv'
  BY <1>1, <1>2 DEF BudgetInv, Running
<1> QED BY <1>5, <1>6, <1>7, <1>8 DEF TeamInv

\* The invariant holds at first.
LEMMA TeamStarts == ASSUME Team!TeamAssumption, Team!Init PROVE TeamInv
<1>1. /\ command = [p \in Procs |-> Team!NoCall] /\ registered = Team!NoShares /\ made = 0 /\ stored = 0
         /\ commands = 0
      /\ shared = [contents |-> 0, version |-> 0, shares |-> Team!NoShares] /\ told = {}
      /\ keychain = [d \in Devices |-> Team!NoKeys] /\ local = [d \in Devices |-> 0] /\ members = {Founder}
  BY DEF Team!Init
<1>2. TeamShape
  BY <1>1, TeamTypes, NoCallTypes DEF TeamShape
<1>3. NumberInv
  BY <1>1, NoCallTypes DEF NumberInv
<1>4. ToldVersionInv /\ RotationInv
  BY <1>1, NoCallTypes DEF ToldVersionInv, RotationInv
<1>5. BudgetInv
  <2>1. Running = {}
    BY <1>1, NoCallTypes DEF Running
  <2> QED BY <1>1, <2>1, FS_EmptySet DEF BudgetInv
<1> QED BY <1>2, <1>3, <1>4, <1>5 DEF TeamInv

\* Every step keeps the invariant.
LEMMA TeamKeeps == ASSUME Team!TeamAssumption, TeamInv, [Team!Next]_(Team!vars) PROVE TeamInv'
BY UserSteps, BeginCommandStep, ReadPubStep, ReadSecStep, WriteKeyStep, RegisterStep, RosterStep, VersionStep,
   FetchStep, CheckSteps, PostStep, CompareStep, ApplyStep DEF Team!Next

\* The compare-and-update of the vault route: no two pushes or rotations are told
\* that they wrote the same version, and none a version that is not stored.
THEOREM TeamVersionsAreDistinct ==
  ASSUME Team!TeamAssumption PROVE Team!Spec => [](Team!TypeOK /\ Team!VersionsAreDistinct)
<1>1. Team!Init => TeamInv
  BY TeamStarts
<1>2. TeamInv /\ [Team!Next]_(Team!vars) => TeamInv'
  BY TeamKeeps
<1>3. TeamInv => Team!TypeOK /\ Team!VersionsAreDistinct
  <2> SUFFICES ASSUME TeamInv PROVE Team!TypeOK /\ Team!VersionsAreDistinct
    OBVIOUS
  <2>1. TeamShape /\ NumberInv /\ ToldVersionInv /\ BudgetInv
    BY DEF TeamInv
  <2>2. shared.version \in 0..MaxCalls
    <3>1. /\ shared.version \in Nat /\ commands \in Nat /\ commands <= MaxCalls /\ MaxCalls \in Nat
      BY <2>1, TeamTypes DEF TeamShape
    <3>2. Cardinality(Running) \in Nat
      <4>1. Running \subseteq Procs
        BY DEF Running
      <4> QED BY <4>1, TeamTypes, FS_Subset, FS_CardinalityType
    <3> QED BY <2>1, <3>1, <3>2 DEF BudgetInv
  <2>3. /\ registered \in [TeamUsers -> 0..made] /\ local \in [Devices -> 0..stored]
        /\ shared.contents \in 0..stored
    BY <2>1 DEF TeamShape, NumberInv
  <2>4. \A d \in Devices : {keychain[d].pub, keychain[d].sec} \subseteq 0..made
    <3> SUFFICES ASSUME NEW d \in Devices PROVE keychain[d].pub \in 0..made /\ keychain[d].sec \in 0..made
      OBVIOUS
    <3> QED BY <2>1 DEF TeamShape, NumberInv, KeyPairs
  <2>5. members \subseteq TeamUsers
    BY <2>1 DEF TeamShape
  <2> QED BY <2>1, <2>2, <2>3, <2>4, <2>5 DEF Team!TypeOK, Team!VersionsAreDistinct, ToldVersionInv
<1> QED BY <1>1, <1>2, <1>3, PTL DEF Team!Spec

\* The commands that can end with a write or with an apply.
LEMMA EndsByItsOwnStep ==
  ASSUME TeamInv, Team!Next, NEW p \in Procs, command[p].pc \in {"write", "apply"}, command'[p].pc = "idle"
  PROVE  Team!Write(p) \/ Team!Apply(p) \/ Team!Fail(p)
<1>1. command \in [Procs -> Commands]
  BY DEF TeamInv, TeamShape
<1>2. ASSUME NEW q \in Procs, q # p,
             \/ \E op \in Team!Ops : Team!Begin(q, op)
             \/ Team!ReadPub(q) \/ Team!ReadSec(q) \/ Team!WriteSec(q) \/ Team!WritePub(q)
             \/ Team!Register(q) \/ Team!Roster(q) \/ Team!Version(q) \/ Team!Fetch(q)
             \/ Team!Cover(q) \/ Team!CheckVersion(q) \/ Team!Write(q) \/ Team!Compare(q)
                      \/ Team!Apply(q) \/ Team!Fail(q)
      PROVE  FALSE
  <2>1. command'[p] = command[p]
    BY <1>1, <1>2 DEF Team!Begin, Team!ReadPub, Team!ReadSec, Team!WriteSec, Team!WritePub, Team!Register,
             Team!Roster, Team!Version, Team!Fetch,
       Team!Cover, Team!CheckVersion, Team!Write, Team!Compare, Team!Apply, Team!Fail, Team!End, Team!Go
  <2> QED BY <2>1
<1>3. ~UNCHANGED command
  OBVIOUS
<1>4. \/ \E op \in Team!Ops : Team!Begin(p, op)
      \/ Team!ReadPub(p) \/ Team!ReadSec(p) \/ Team!WriteSec(p) \/ Team!WritePub(p)
      \/ Team!Register(p) \/ Team!Roster(p) \/ Team!Version(p) \/ Team!Fetch(p)
      \/ Team!Cover(p) \/ Team!CheckVersion(p) \/ Team!Write(p) \/ Team!Compare(p) \/ Team!Apply(p)
               \/ Team!Fail(p)
  <2>1. (\A d \in Devices : ~Team!Store(d)) /\ (\A u \in TeamUsers : ~Team!Invite(u))
    BY <1>3 DEF Team!Store, Team!Invite
  <2> QED BY <1>2, <2>1, Zenon DEF Team!Next
<1>5. ~\E op \in Team!Ops : Team!Begin(p, op)
  BY DEF Team!Begin, Team!At
<1>6. ~(Team!ReadPub(p) \/ Team!ReadSec(p) \/ Team!WriteSec(p) \/ Team!WritePub(p) \/ Team!Register(p)
         \/ Team!Roster(p))
  BY DEF Team!ReadPub, Team!ReadSec, Team!WriteSec, Team!WritePub, Team!Register, Team!Roster, Team!At
<1>7. ~(Team!Version(p) \/ Team!Fetch(p) \/ Team!Cover(p) \/ Team!CheckVersion(p) \/ Team!Compare(p))
  BY DEF Team!Version, Team!Fetch, Team!Cover, Team!CheckVersion, Team!Compare, Team!At
<1> QED BY <1>4, <1>5, <1>6, <1>7

\* rotate-vault never clobbers a push it has not pulled, and vault-pull never a
\* local value that was stored after it looked.
THEOREM TeamNothingUnseenIsReplaced ==
  ASSUME Team!TeamAssumption PROVE Team!Spec => [][Team!RotationKeeps /\ Team!PullKeeps]_(Team!vars)
<1>1. Team!Init => TeamInv
  BY TeamStarts
<1>2. TeamInv /\ [Team!Next]_(Team!vars) => TeamInv'
  BY TeamKeeps
<1>3. TeamInv /\ [Team!Next]_(Team!vars) => [Team!RotationKeeps /\ Team!PullKeeps]_(Team!vars)
  <2> SUFFICES ASSUME TeamInv, Team!Next PROVE Team!RotationKeeps /\ Team!PullKeeps
    OBVIOUS
  <2>1. Team!RotationKeeps
    <3> SUFFICES ASSUME NEW p \in Procs, command[p].pc = "write", command'[p].pc = "idle",
                        command[p].op = "rotate", shared' # shared
                 PROVE  shared'.contents = shared.contents
      BY DEF Team!RotationKeeps, Team!Writes, Team!At
    <3>1. Team!Write(p)
      BY EndsByItsOwnStep DEF Team!Apply, Team!Fail, Team!At, Team!remote
    <3>2. shared.version = command[p].version /\ shared'.contents = command[p].contents
      BY <3>1 DEF Team!Write
    <3> QED BY <3>2 DEF TeamInv, RotationInv
  <2>2. Team!PullKeeps
    <3> SUFFICES ASSUME NEW p \in Procs, command[p].pc = "apply", command'[p].pc = "idle", local' # local
                 PROVE  local[DeviceOf[p]] = command[p].before
      BY DEF Team!PullKeeps, Team!At
    <3> QED BY EndsByItsOwnStep DEF Team!Apply, Team!Write, Team!Fail, Team!At
  <2> QED BY <2>1, <2>2
<1> QED BY <1>1, <1>2, <1>3, PTL DEF Team!Spec

-----------------------------------------------------------------------------
\* No two commands share a keychain.
OneCommandPerDevice == \A p, q \in Procs : DeviceOf[p] = DeviceOf[q] => p = q

\* A key whose private half is on a device of u, next to its public half.
OpensFor(u, k) == \E d \in Devices : UserOf[d] = u /\ keychain[d].pub = k /\ keychain[d].sec = k

\* The halves belong together, and a command knows the public half it goes on with.
PairInv ==
    /\ \A d \in Devices : keychain[d].pub # 0 => keychain[d].sec = keychain[d].pub
    /\ \A p \in Procs :
        /\ command[p].pc \in {"readSec", "fetch", "register"} => command[p].keys.pub = keychain[DeviceOf[p]].pub
        /\ command[p].pc = "writeSec" => /\ keychain[DeviceOf[p]].pub = 0
                                      /\ command[p].keys.sec = command[p].keys.pub
        /\ command[p].pc = "writePub" => /\ keychain[DeviceOf[p]].pub = 0
                                      /\ keychain[DeviceOf[p]].sec = command[p].keys.pub

\* Every key that is registered, on a roster or has a share opens.
OpenInv ==
    \A u \in TeamUsers :
        /\ registered[u] # 0 => OpensFor(u, registered[u])
        /\ shared.shares[u] # 0 => OpensFor(u, shared.shares[u])
        /\ \A p \in Procs : command[p].roster[u] # 0 => OpensFor(u, command[p].roster[u])

\* Steps that leave the keychains alone.
LEMMA PairCalm ==
  ASSUME Team!TeamAssumption, TeamInv, PairInv, keychain' = keychain, NEW p \in Procs,
         \A q \in Procs \ {p} : command'[q] = command[q],
         \/ command'[p].pc \notin {"readSec", "fetch", "register", "writeSec", "writePub"}
         \/ command'[p].pc \in {"readSec", "fetch", "register"}
              /\ command'[p].keys.pub = keychain[DeviceOf[p]].pub
         \/ command'[p].pc = "writeSec" /\ keychain[DeviceOf[p]].pub = 0
                  /\ command'[p].keys.sec = command'[p].keys.pub
  PROVE  PairInv'
BY DEF PairInv

\* Steps that register no key and write no vault.
LEMMA OpenCalm ==
  ASSUME TeamInv, OpenInv, UNCHANGED <<registered, shared>>,
         \A d \in Devices : keychain[d].pub # 0 => keychain'[d] = keychain[d],
         \A q \in Procs : command'[q].roster = command[q].roster \/ command'[q].roster = Team!NoShares
                             \/ command'[q].roster = registered
  PROVE  OpenInv'
<1> SUFFICES ASSUME NEW u \in TeamUsers
             PROVE  /\ registered[u] # 0 => OpensFor(u, registered[u])'
                    /\ shared.shares[u] # 0 => OpensFor(u, shared.shares[u])'
                    /\ \A q \in Procs : command'[q].roster[u] # 0 => OpensFor(u, command[q].roster[u])'
  BY DEF OpenInv
<1>1. registered[u] # 0 => OpensFor(u, registered[u])'
  <2> SUFFICES ASSUME registered[u] # 0 PROVE OpensFor(u, registered[u])'
    OBVIOUS
  <2>1. OpensFor(u, registered[u])
    BY DEF OpenInv
  <2> QED BY <2>1 DEF OpensFor
<1>2. shared.shares[u] # 0 => OpensFor(u, shared.shares[u])'
  <2> SUFFICES ASSUME shared.shares[u] # 0 PROVE OpensFor(u, shared.shares[u])'
    OBVIOUS
  <2>1. OpensFor(u, shared.shares[u])
    BY DEF OpenInv
  <2> QED BY <2>1 DEF OpensFor
<1>3. ASSUME NEW q \in Procs, command'[q].roster[u] # 0 PROVE OpensFor(u, command[q].roster[u])'
  <2>1. command'[q].roster[u] = registered[u] \/ command'[q].roster[u] = command[q].roster[u]
    BY <1>3, NoCallTypes
  <2>2. OpensFor(u, command'[q].roster[u])
    BY <1>3, <2>1 DEF OpenInv
  <2> QED BY <2>2, <1>3 DEF OpensFor
<1> QED BY <1>1, <1>2, <1>3

\* What the steps of p that only concern its own command leave.
LEMMA QuietCommandStep ==
  ASSUME Team!TeamAssumption, TeamInv, PairInv, OpenInv, NEW p \in Procs,
         \/ \E op \in Team!Ops : Team!Begin(p, op)
         \/ Team!Roster(p) \/ Team!Version(p) \/ Team!Fetch(p) \/ Team!Cover(p) \/ Team!CheckVersion(p)
         \/ Team!Compare(p) \/ Team!Apply(p) \/ Team!Fail(p)
  PROVE  PairInv' /\ OpenInv'
<1>1. command \in [Procs -> Commands] /\ UNCHANGED <<registered, shared, keychain>>
  BY DEF TeamInv, TeamShape, Team!Begin, Team!Roster, Team!Version, Team!Fetch, Team!Cover, Team!CheckVersion,
           Team!Compare, Team!Apply, Team!Fail, Team!remote
<1>2. /\ \A q \in Procs \ {p} : command'[q] = command[q]
      /\ \/ command'[p] = Team!NoCall
         \/ command'[p].pc = "readPub" /\ command'[p].roster = Team!NoShares
         \/ command'[p].pc \in {"version", "cover"} /\ command'[p].roster = registered
         \/ command'[p].pc \in {"cover", "occ", "write", "apply", "compare"}
                  /\ command'[p].roster = command[p].roster
         \/ /\ command[p].pc = "fetch" /\ command'[p].pc = "register" /\ command'[p].roster = command[p].roster
            /\ command'[p].keys = command[p].keys
  <2>1. CASE \E op \in Team!Ops : Team!Begin(p, op)
    <3>1. PICK op \in Team!Ops : command' = [command EXCEPT ![p] = [Team!NoCall EXCEPT !.op = op,
             !.pc = "readPub"]]
      BY <2>1 DEF Team!Begin
    <3>2. [Team!NoCall EXCEPT !.op = op, !.pc = "readPub"].pc = "readPub"
          /\ [Team!NoCall EXCEPT !.op = op, !.pc = "readPub"].roster = Team!NoShares
      BY NoCallTypes DEF Commands
    <3> QED BY <1>1, <3>1, <3>2
  <2>2. CASE Team!Roster(p)
    BY <2>2, <1>1 DEF Team!Roster, Commands
  <2>3. CASE Team!Version(p)
    BY <2>3, <1>1 DEF Team!Version, Team!End, Commands
  <2>4. CASE Team!Fetch(p)
    <3>1. CASE Team!End(p)
      BY <3>1, <1>1 DEF Team!End
    <3>2. CASE ~Team!End(p)
      <4> DEFINE c == [command[p] EXCEPT !.contents = shared.contents, !.version = shared.version,
                            !.pc = IF command[p].op = "rotate" THEN "register" ELSE "compare"]
      <4>1. command' = [command EXCEPT ![p] = c] /\ command[p].pc = "fetch"
        BY <3>2, <2>4 DEF Team!Fetch, Team!At
      <4>2. c.roster = command[p].roster /\ c.keys = command[p].keys /\ c.pc \in {"register", "compare"}
        BY <1>1 DEF Commands
      <4> HIDE DEF c
      <4> QED BY <4>1, <4>2, <1>1
    <3> QED BY <3>1, <3>2
  <2>5. CASE Team!Cover(p) \/ Team!CheckVersion(p) \/ Team!Fail(p)
    BY <2>5, <1>1 DEF Team!Cover, Team!CheckVersion, Team!Fail, Team!End, Team!Go, Commands
  <2>6. CASE Team!Compare(p)
    BY <2>6, <1>1 DEF Team!Compare, Commands
  <2>7. CASE Team!Apply(p)
    BY <2>7, <1>1 DEF Team!Apply, Team!End
  <2> QED BY <2>1, <2>2, <2>3, <2>4, <2>5, <2>6, <2>7
<1>3. PairInv'
  <2>1. \/ command'[p].pc \notin {"readSec", "fetch", "register", "writeSec", "writePub"}
        \/ command'[p].pc = "register" /\ command'[p].keys.pub = keychain[DeviceOf[p]].pub
    BY <1>2, NoCallTypes DEF PairInv
  <2> QED BY <1>1, <1>2, <2>1, PairCalm
<1>4. OpenInv'
  <2>1. \A q \in Procs : command'[q].roster = command[q].roster \/ command'[q].roster = Team!NoShares
                             \/ command'[q].roster = registered
    BY <1>2, NoCallTypes
  <2> QED BY <1>1, <2>1, OpenCalm
<1> QED BY <1>3, <1>4

\* The public half that was read is the one that is there.
LEMMA ReadPubKeys ==
  ASSUME Team!TeamAssumption, TeamInv, PairInv, OpenInv, NEW p \in Procs, Team!ReadPub(p)
  PROVE  PairInv' /\ OpenInv'
<1>1. command \in [Procs -> Commands] /\ UNCHANGED <<registered, shared, keychain>>
  BY DEF TeamInv, TeamShape, Team!ReadPub, Team!remote
<1>2. /\ \A q \in Procs \ {p} : command'[q] = command[q]
      /\ command'[p].pc = "readSec" /\ command'[p].roster = command[p].roster
      /\ command'[p].keys.pub = keychain[DeviceOf[p]].pub
  BY <1>1 DEF Team!ReadPub, Commands, KeyPairs
<1>3. PairInv'
  BY <1>1, <1>2, PairCalm
<1>4. OpenInv'
  BY <1>1, <1>2, OpenCalm
<1> QED BY <1>3, <1>4

\* A new pair is made only while there is no public half.
LEMMA ReadSecKeys ==
  ASSUME Team!TeamAssumption, TeamInv, PairInv, OpenInv, NEW p \in Procs, Team!ReadSec(p)
  PROVE  PairInv' /\ OpenInv'
<1> DEFINE k == keychain[DeviceOf[p]]
<1>1. /\ command \in [Procs -> Commands] /\ UNCHANGED <<registered, shared, keychain>>
      /\ command[p].pc = "readSec" /\ DeviceOf[p] \in Devices
  BY TeamTypes DEF TeamInv, TeamShape, Team!ReadSec, Team!remote, Team!At
<1>2. command[p].keys.pub = k.pub /\ (k.pub # 0 => k.sec = k.pub)
  BY <1>1 DEF PairInv
<1>3. CASE command' = [command EXCEPT ![p].pc = Team!AfterKeys(p), ![p].keys.sec = k.sec]
  <2>1. /\ \A q \in Procs \ {p} : command'[q] = command[q]
        /\ command'[p].pc = Team!AfterKeys(p) /\ command'[p].roster = command[p].roster
        /\ command'[p].keys.pub = command[p].keys.pub
    BY <1>1, <1>3 DEF Commands, KeyPairs
  <2>2. PairInv'
    BY <1>1, <1>2, <2>1, AfterKeysTypes, PairCalm
  <2>3. OpenInv'
    BY <1>1, <2>1, OpenCalm
  <2> QED BY <2>2, <2>3
<1>4. CASE /\ ~(command[p].keys.pub # 0 /\ k.sec # 0)
           /\ command' = [command EXCEPT ![p].pc = "writeSec", ![p].keys = [pub |-> made + 1, sec |-> made + 1]]
  <2>1. /\ \A q \in Procs \ {p} : command'[q] = command[q]
        /\ command'[p].pc = "writeSec" /\ command'[p].roster = command[p].roster
        /\ command'[p].keys.pub = command'[p].keys.sec
    BY <1>1, <1>4 DEF Commands
  <2>2. k.pub = 0
    BY <1>2, <1>4
  <2>3. PairInv'
    BY <1>1, <2>1, <2>2, PairCalm
  <2>4. OpenInv'
    BY <1>1, <2>1, OpenCalm
  <2> QED BY <2>3, <2>4
<1> QED BY <1>3, <1>4 DEF Team!ReadSec

\* A pair is written where there was no public half.
LEMMA WriteKeyKeys ==
  ASSUME Team!TeamAssumption, OneCommandPerDevice, TeamInv, PairInv, OpenInv, NEW p \in Procs,
         Team!WriteSec(p) \/ Team!WritePub(p)
  PROVE  PairInv' /\ OpenInv'
<1> DEFINE d == DeviceOf[p]
<1>1. /\ command \in [Procs -> Commands] /\ keychain \in [Devices -> KeyPairs]
      /\ UNCHANGED <<registered, shared>> /\ d \in Devices
      /\ \A q \in Procs : DeviceOf[q] \in Devices
  BY TeamTypes DEF TeamInv, TeamShape, Team!WriteSec, Team!WritePub, Team!remote
<1>2. keychain[d].pub = 0
  BY DEF PairInv, Team!WriteSec, Team!WritePub, Team!At
<1>3. /\ \A q \in Procs \ {p} : command'[q] = command[q] /\ DeviceOf[q] # d
      /\ command'[p].roster = command[p].roster /\ command'[p].keys = command[p].keys
      /\ \A e \in Devices \ {d} : keychain'[e] = keychain[e]
  BY <1>1 DEF Team!WriteSec, Team!WritePub, Team!Go, Commands, OneCommandPerDevice
<1>4. OpenInv'
  BY <1>1, <1>2, <1>3, OpenCalm
<1>5. CASE Team!WriteSec(p)
  <2>1. /\ keychain'[d].pub = 0 /\ keychain'[d].sec = command[p].keys.pub /\ command'[p].pc = "writePub"
    BY <1>1, <1>2, <1>5 DEF Team!WriteSec, Team!At, Team!Go, PairInv, Commands, KeyPairs
  <2>2. \A e \in Devices : keychain'[e].pub # 0 => keychain'[e].sec = keychain'[e].pub
    BY <1>3, <2>1 DEF PairInv
  <2> HIDE DEF d
  <2>4. \A q \in Procs \ {p} : command'[q] = command[q] /\ keychain'[DeviceOf[q]] = keychain[DeviceOf[q]]
    BY <1>1, <1>3
  <2>5. ASSUME NEW q \in Procs
        PROVE  /\ command'[q].pc \in {"readSec", "fetch", "register"} =>
                     command'[q].keys.pub = keychain'[DeviceOf[q]].pub
               /\ command'[q].pc = "writeSec" => /\ keychain'[DeviceOf[q]].pub = 0
                                              /\ command'[q].keys.sec = command'[q].keys.pub
               /\ command'[q].pc = "writePub" => /\ keychain'[DeviceOf[q]].pub = 0
                                              /\ keychain'[DeviceOf[q]].sec = command'[q].keys.pub
    <3>1. CASE q = p
      BY <3>1, <1>3, <2>1 DEF d
    <3>2. CASE q # p
      BY <3>2, <2>4 DEF PairInv
    <3> QED BY <3>1, <3>2
  <2> QED BY <1>4, <2>2, <2>5 DEF PairInv
<1>6. CASE Team!WritePub(p)
  <2>1. /\ keychain'[d].pub = command[p].keys.pub /\ keychain'[d].sec = command[p].keys.pub
        /\ command'[p].pc = Team!AfterKeys(p)
    BY <1>1, <1>6 DEF Team!WritePub, Team!At, Team!Go, PairInv, Commands, KeyPairs
  <2>2. \A e \in Devices : keychain'[e].pub # 0 => keychain'[e].sec = keychain'[e].pub
    BY <1>3, <2>1 DEF PairInv
  <2>3. command'[p].pc \in {"register", "fetch"}
    BY <2>1, AfterKeysTypes
  <2> HIDE DEF d
  <2>4. \A q \in Procs \ {p} : command'[q] = command[q] /\ keychain'[DeviceOf[q]] = keychain[DeviceOf[q]]
    BY <1>1, <1>3
  <2>5. ASSUME NEW q \in Procs
        PROVE  /\ command'[q].pc \in {"readSec", "fetch", "register"} =>
                     command'[q].keys.pub = keychain'[DeviceOf[q]].pub
               /\ command'[q].pc = "writeSec" => /\ keychain'[DeviceOf[q]].pub = 0
                                              /\ command'[q].keys.sec = command'[q].keys.pub
               /\ command'[q].pc = "writePub" => /\ keychain'[DeviceOf[q]].pub = 0
                                              /\ keychain'[DeviceOf[q]].sec = command'[q].keys.pub
    <3>1. CASE q = p
      BY <3>1, <1>3, <2>1, <2>3 DEF d
    <3>2. CASE q # p
      BY <3>2, <2>4 DEF PairInv
    <3> QED BY <3>1, <3>2
  <2> QED BY <1>4, <2>2, <2>5 DEF PairInv
<1> QED BY <1>5, <1>6

\* A key that is registered opens.
LEMMA RegisterKeys ==
  ASSUME Team!TeamAssumption, TeamInv, PairInv, OpenInv, NEW p \in Procs, Team!Register(p)
  PROVE  PairInv' /\ OpenInv'
<1> DEFINE k == command[p].keys.pub
<1>1. /\ command \in [Procs -> Commands] /\ UNCHANGED <<shared, keychain>> /\ command[p].pc = "register"
      /\ registered \in [TeamUsers -> Nat] /\ DeviceOf[p] \in Devices
  BY TeamTypes DEF TeamInv, TeamShape, Team!Register, Team!At
<1>2. /\ \A q \in Procs \ {p} : command'[q] = command[q]
      /\ \/ command'[p] = Team!NoCall
         \/ command'[p].pc = "roster" /\ command'[p].roster = command[p].roster
  <2>1. CASE command' = [command EXCEPT ![p] = Team!NoCall]
    BY <1>1, <2>1
  <2>2. CASE command' = [command EXCEPT ![p] = [command[p] EXCEPT !.pc = "roster",
           !.contents = local[DeviceOf[p]]]]
    BY <1>1, <2>2 DEF Commands
  <2>3. CASE command' = [command EXCEPT ![p] = [command[p] EXCEPT !.pc = "roster"]]
    BY <1>1, <2>3 DEF Commands
  <2> QED BY <2>1, <2>2, <2>3 DEF Team!Register, Team!End
<1>3. PairInv'
  BY <1>1, <1>2, NoCallTypes, PairCalm
<1>4. \A u \in TeamUsers : registered'[u] = registered[u] \/ (u = Team!Caller(p) /\ registered'[u] = k)
  BY <1>1 DEF Team!Register, Team!Caller
<1>5. k # 0 => OpensFor(Team!Caller(p), k)
  BY <1>1 DEF PairInv, OpensFor, Team!Caller
<1>6. \A u \in TeamUsers : registered'[u] # 0 => OpensFor(u, registered'[u])
  BY <1>4, <1>5 DEF OpenInv
<1>7. \A u \in TeamUsers, q \in Procs : command'[q].roster[u] # 0 => OpensFor(u, command'[q].roster[u])
  <2> SUFFICES ASSUME NEW u \in TeamUsers, NEW q \in Procs, command'[q].roster[u] # 0
               PROVE  OpensFor(u, command'[q].roster[u])
    OBVIOUS
  <2>1. command'[q].roster[u] = command[q].roster[u]
    BY <1>2, NoCallTypes
  <2> QED BY <2>1 DEF OpenInv
<1>8. OpenInv'
  <2>1. \A u \in TeamUsers : shared.shares[u] # 0 => OpensFor(u, shared.shares[u])
    BY DEF OpenInv
  <2> QED BY <1>1, <1>6, <1>7, <2>1 DEF OpenInv, OpensFor
<1> QED BY <1>3, <1>8

\* The shares are those of a roster.
LEMMA WriteKeys ==
  ASSUME Team!TeamAssumption, TeamInv, PairInv, OpenInv, NEW p \in Procs, Team!Write(p)
  PROVE  PairInv' /\ OpenInv'
<1>1. command \in [Procs -> Commands] /\ UNCHANGED <<registered, keychain>> /\ Team!End(p)
  BY DEF TeamInv, TeamShape, Team!Write
<1>2. \A q \in Procs \ {p} : command'[q] = command[q]
  BY <1>1 DEF Team!End
<1>3. command'[p] = Team!NoCall
  BY <1>1 DEF Team!End
<1>4. PairInv'
  BY <1>1, <1>2, <1>3, NoCallTypes, PairCalm
<1>5. shared'.shares = shared.shares \/ shared'.shares = command[p].roster
  BY DEF Team!Write
<1>6. \A u \in TeamUsers : shared'.shares[u] # 0 => OpensFor(u, shared'.shares[u])
  BY <1>5 DEF OpenInv
<1>7. \A u \in TeamUsers, q \in Procs : command'[q].roster[u] # 0 => OpensFor(u, command'[q].roster[u])
  <2> SUFFICES ASSUME NEW u \in TeamUsers, NEW q \in Procs, command'[q].roster[u] # 0
               PROVE  OpensFor(u, command'[q].roster[u])
    OBVIOUS
  <2>1. command'[q].roster[u] = command[q].roster[u]
    BY <1>2, <1>3, NoCallTypes
  <2> QED BY <2>1 DEF OpenInv
<1>8. OpenInv'
  <2>1. \A u \in TeamUsers : registered[u] # 0 => OpensFor(u, registered[u])
    BY DEF OpenInv
  <2> QED BY <1>1, <1>6, <1>7, <2>1 DEF OpenInv, OpensFor
<1> QED BY <1>4, <1>8

\* There are no keys at first.
LEMMA KeysStart == ASSUME Team!TeamAssumption, Team!Init PROVE PairInv /\ OpenInv
<1>1. /\ command = [p \in Procs |-> Team!NoCall] /\ registered = Team!NoShares
         /\ keychain = [d \in Devices |-> Team!NoKeys]
      /\ shared.shares = Team!NoShares
  BY DEF Team!Init
<1> QED BY <1>1, NoCallTypes, TeamTypes DEF PairInv, OpenInv

\* Every step keeps the keys.
LEMMA KeysKept ==
  ASSUME Team!TeamAssumption, OneCommandPerDevice, TeamInv, PairInv, OpenInv, [Team!Next]_(Team!vars)
  PROVE  PairInv' /\ OpenInv'
<1>1. CASE (\E d \in Devices : Team!Store(d)) \/ (\E u \in TeamUsers : Team!Invite(u)) \/ UNCHANGED Team!vars
  <2>1. UNCHANGED <<registered, shared, keychain, command>>
    BY <1>1 DEF Team!Store, Team!Invite, Team!remote, Team!vars
  <2>2. PairInv'
    BY <2>1 DEF PairInv
  <2> QED BY <2>1, <2>2, OpenCalm
<1>2. CASE \E p \in Procs :
        \/ \E op \in Team!Ops : Team!Begin(p, op)
        \/ Team!ReadPub(p) \/ Team!ReadSec(p) \/ Team!WriteSec(p) \/ Team!WritePub(p)
        \/ Team!Register(p) \/ Team!Roster(p) \/ Team!Version(p) \/ Team!Fetch(p)
        \/ Team!Cover(p) \/ Team!CheckVersion(p) \/ Team!Write(p)
        \/ Team!Compare(p) \/ Team!Apply(p)
        \/ Team!Fail(p)
  BY <1>2, QuietCommandStep, ReadPubKeys, ReadSecKeys, WriteKeyKeys, RegisterKeys, WriteKeys
<1> QED BY <1>1, <1>2 DEF Team!Next

\* get_or_create_team_keypair never leaves a member with a share that none of the
\* user's devices can open, wherever commands die.  Of two commands on one device
\* that both find no key the second overwrites what the first registered: hence
\* OneCommandPerDevice.
THEOREM TeamSharesOpen ==
  ASSUME Team!TeamAssumption, OneCommandPerDevice PROVE Team!Spec => []Team!SharesOpen
<1> DEFINE I == TeamInv /\ PairInv /\ OpenInv
<1>1. Team!Init => I
  BY TeamStarts, KeysStart
<1>2. I /\ [Team!Next]_(Team!vars) => I'
  BY TeamKeeps, KeysKept
<1>3. I => Team!SharesOpen
  BY DEF OpenInv, OpensFor, Team!SharesOpen
<1> HIDE DEF I
<1> QED BY <1>1, <1>2, <1>3, PTL DEF Team!Spec
===============================================================================
