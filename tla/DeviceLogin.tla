----------------------------- MODULE DeviceLogin -----------------------------
(***************************************************************************)
(* Device login.  phantom login asks the server for a device code, shows    *)
(* its user code and polls; the user approves the code in a browser; the    *)
(* poll that finds it approved claims it and carries a bearer back.  Each    *)
(* handler reads the row of the code and writes it in a later step, so      *)
(* polls, approvals and the clock interleave; answers get lost, a poll may  *)
(* be repeated on its way, and an update whose error reaches the handler    *)
(* may have taken effect all the same.                                      *)
(***************************************************************************)
EXTENDS Naturals, FiniteSets

CONSTANTS
    Codes,          \* device codes, one for each run of phantom login
    Users,          \* browsers, each signed in as a user
    Client,         \* the address a code is asked from
    CodeTTL,        \* ticks before a device code expires
    TokenTTL,       \* ticks before a bearer expires
    MaxPending,     \* pending codes of one address
    MaxAttempts,    \* polls of one login
    MaxTime,        \* bound on the clock
    MaxRepeats,     \* bound: polls that arrive twice
    MaxUnsure,      \* bound: approvals that end in an error
    None

\* What the constants have to satisfy.
DeviceAssumption ==
    /\ CodeTTL \in Nat \ {0} /\ TokenTTL \in Nat /\ TokenTTL > CodeTTL
    /\ MaxPending \in Nat \ {0}
    /\ MaxAttempts \in Nat /\ MaxTime \in Nat /\ MaxUnsure \in Nat
    /\ None \notin Codes \cup Users

VARIABLES
    now,
    row,        \* device_tokens
    cli,        \* what phantom login is doing
    attempts,
    polls,      \* poll handlers: the code and the row as they read it
    approval,   \* what a browser's approval has read, the codes it was told that it
                \* approved, and those of which it was told that nothing is sure
    bearers,    \* <<code, user>> of the answers that carried a bearer
    repeats

vars == <<now, row, cli, attempts, polls, approval, bearers, repeats>>

NoRow == [status |-> "none", user |-> None, expires |-> 0, claimed |-> FALSE, until |-> 0]

NoPoll == [code |-> None, read |-> NoRow, late |-> FALSE, own |-> TRUE]

Init ==
    /\ now = 0
    /\ row = [d \in Codes |-> NoRow]
    /\ cli = [d \in Codes |-> "start"]
    /\ attempts = [d \in Codes |-> 0]
    /\ polls = {}
    /\ approval = [u \in Users |-> [code |-> None, told |-> {}, unsure |-> {}]]
    /\ bearers = {}
    /\ repeats = 0

-----------------------------------------------------------------------------
(* phantom login and the initiate route.                                     *)

Pending(c) == {d \in Codes : Client[d] = c /\ row[d].status = "pending" /\ row[d].expires > now}

\* issue_device_code; too many pending codes of an address are refused.  The CLI
\* may be told of an error, or hear nothing, though the code was issued.
Initiate(d) ==
    /\ cli[d] = "start"
    /\ \/ cli' = [cli EXCEPT ![d] = "failed"] /\ UNCHANGED row
       \/ /\ Cardinality(Pending(Client[d])) < MaxPending
          /\ \E answer \in {"waiting", "failed"} : cli' = [cli EXCEPT ![d] = answer]
          /\ row' = [row EXCEPT ![d] = [NoRow EXCEPT !.status = "pending",
                                           !.expires = now + CodeTTL]]
    /\ UNCHANGED <<now, attempts, polls, approval, bearers, repeats>>

\* The loop of run: the next poll, or the login timed out.
SendPoll(d) ==
    /\ cli[d] = "waiting"
    /\ IF attempts[d] = MaxAttempts
       THEN cli' = [cli EXCEPT ![d] = "failed"] /\ UNCHANGED <<attempts, polls>>
       ELSE /\ cli' = [cli EXCEPT ![d] = "polling"]
            /\ attempts' = [attempts EXCEPT ![d] = @ + 1]
            /\ polls' = polls \cup {[NoPoll EXCEPT !.code = d]}
    /\ UNCHANGED <<now, row, approval, bearers, repeats>>

\* The same request reaches the server a second time.
RepeatPoll(d) ==
    /\ attempts[d] > 0
    /\ repeats < MaxRepeats
    /\ repeats' = repeats + 1
    /\ polls' = polls \cup {[NoPoll EXCEPT !.code = d, !.own = FALSE]}
    /\ UNCHANGED <<now, row, cli, attempts, approval, bearers>>

\* An answer the CLI receives, or that is lost: any error ends the login.
Answer(p, status) ==
    /\ polls' = polls \ {p}
    /\ \/ ~p.own /\ UNCHANGED cli
       \/ p.own /\ \E outcome \in {status, "failed"} : cli' = [cli EXCEPT ![p.code] = outcome]

-----------------------------------------------------------------------------
(* The poll route.                                                           *)

\* The lookup, and the comparison of the code's expiry with the clock.
PollRead(p) ==
    /\ p.read = NoRow
    /\ polls' = (polls \ {p}) \cup
                 {[p EXCEPT !.read = row[p.code], !.late = row[p.code].expires < now]}
    /\ UNCHANGED <<now, row, cli, attempts, approval, bearers, repeats>>

\* Past the code's expiry the row is marked, whatever it has become, and nobody
\* looks whether that succeeded.
PollExpired(p) ==
    /\ p.late
    /\ row' \in {row, [row EXCEPT ![p.code].status = "expired"]}
    /\ Answer(p, "failed")
    /\ UNCHANGED <<now, attempts, approval, bearers, repeats>>

PollPending(p) ==
    /\ p.read.status = "pending" /\ ~p.late
    /\ Answer(p, "waiting")
    /\ UNCHANGED <<now, row, attempts, approval, bearers, repeats>>

\* Already expired, or already claimed: nothing is issued.
PollRefused(p) ==
    /\ ~p.late
    /\ p.read.status = "expired" \/ (p.read.status = "approved" /\ p.read.claimed)
    /\ Answer(p, "failed")
    /\ UNCHANGED <<now, row, attempts, approval, bearers, repeats>>

\* Mutant: the hash is stored without looking whether there is one.
PollClaimAlways(p) ==
    /\ p.read.status = "approved" /\ ~p.read.claimed /\ ~p.late
    /\ row' = [row EXCEPT ![p.code].claimed = TRUE, ![p.code].until = now + TokenTTL]
    /\ bearers' = bearers \cup {[code |-> p.code, user |-> row[p.code].user, own |-> p.own]}
    /\ Answer(p, "loggedIn")
    /\ UNCHANGED <<now, attempts, approval, repeats>>

\* Approved and unclaimed when read: the update that stores the hash takes
\* effect only while there is none.
PollClaim(p) ==
    /\ p.read.status = "approved" /\ ~p.read.claimed /\ ~p.late
    /\ IF row[p.code].claimed
       THEN Answer(p, "failed") /\ UNCHANGED <<row, bearers>>
       ELSE /\ row' = [row EXCEPT ![p.code].claimed = TRUE, ![p.code].until = now + TokenTTL]
            /\ bearers' = bearers \cup {[code |-> p.code, user |-> row[p.code].user, own |-> p.own]}
            /\ Answer(p, "loggedIn")
    /\ UNCHANGED <<now, attempts, approval, repeats>>

\* The update reports an error but the hash is stored: the code is claimed and
\* its bearer lost.
PollClaimLost(p) ==
    /\ p.read.status = "approved" /\ ~p.read.claimed /\ ~p.late
    /\ ~row[p.code].claimed
    /\ row' = [row EXCEPT ![p.code].claimed = TRUE, ![p.code].until = now + TokenTTL]
    /\ Answer(p, "failed")
    /\ UNCHANGED <<now, attempts, approval, bearers, repeats>>

\* The profile cannot be loaded, or the update fails: the code stays unclaimed.
PollError(p) ==
    /\ p.read.status = "approved" /\ ~p.read.claimed /\ ~p.late
    /\ Answer(p, "failed")
    /\ UNCHANGED <<now, row, attempts, approval, bearers, repeats>>

-----------------------------------------------------------------------------
(* The approve route.                                                        *)

ApproveRead(u, d) ==
    /\ approval[u].code = None
    /\ d \notin approval[u].told
    /\ row[d].status = "pending" /\ row[d].expires >= now
    /\ approval' = [approval EXCEPT ![u].code = d]
    /\ UNCHANGED <<now, row, cli, attempts, polls, bearers, repeats>>

\* The update takes effect only on a pending row.
Approved(d, u) ==
    IF row[d].status = "pending"
    THEN [row EXCEPT ![d].status = "approved", ![d].user = u] ELSE row

\* The browser is told whether it was its approval.
ApproveWrite(u) ==
    LET d == approval[u].code
        mine == IF row[d].status = "pending" THEN {d} ELSE {}
    IN  /\ d # None
        /\ row' = Approved(d, u)
        /\ approval' = [approval EXCEPT ![u] =
                [code |-> None, told |-> @.told \cup mine, unsure |-> @.unsure]]
        /\ UNCHANGED <<now, cli, attempts, polls, bearers, repeats>>

\* "Unable to confirm device approval": the update reports an error and has
\* taken effect or not.
ApproveError(u) ==
    LET d == approval[u].code
    IN  /\ d # None
        /\ Cardinality({m \in Users \X Codes : m[2] \in approval[m[1]].unsure}) < MaxUnsure
        /\ row' \in {row, Approved(d, u)}
        /\ approval' = [approval EXCEPT ![u] =
                [code |-> None, told |-> @.told, unsure |-> @.unsure \cup {d}]]
        /\ UNCHANGED <<now, cli, attempts, polls, bearers, repeats>>

-----------------------------------------------------------------------------
\* Mutant: the bearer of a row dies with its device code.
AuthenticatesByCode(d) == row[d].claimed /\ row[d].status = "approved" /\ row[d].expires >= now

\* authenticateRequest with the bearer of a code.
Authenticates(d) == row[d].claimed /\ row[d].status = "approved" /\ row[d].until >= now

Tick ==
    /\ now < MaxTime
    /\ now' = now + 1
    /\ UNCHANGED <<row, cli, attempts, polls, approval, bearers, repeats>>

Poll(p) ==
    \/ PollRead(p)
    \/ PollExpired(p)
    \/ PollPending(p)
    \/ PollRefused(p)
    \/ PollClaim(p)
    \/ PollClaimLost(p)
    \/ PollError(p)

Next ==
    \/ \E d \in Codes : Initiate(d) \/ SendPoll(d) \/ RepeatPoll(d)
    \/ \E p \in polls : Poll(p)
    \/ \E u \in Users : \E d \in Codes : ApproveRead(u, d)
    \/ \E u \in Users : ApproveWrite(u) \/ ApproveError(u)
    \/ Tick

Spec == Init /\ [][Next]_vars

\* The CLI keeps polling and requests are answered.
FairSpec ==
    /\ Spec
    /\ \A d \in Codes : WF_vars(Initiate(d)) /\ WF_vars(SendPoll(d))
    /\ \A d \in Codes : WF_vars(\E p \in polls : p.code = d /\ Poll(p))

-----------------------------------------------------------------------------
(* Properties.                                                               *)

\* The type invariant of the login.
TypeOK ==
    /\ now \in 0..MaxTime
    /\ \A d \in Codes :
        /\ row[d].status \in {"none", "pending", "approved", "expired"}
        /\ row[d].user \in Users \cup {None}
        /\ row[d].claimed => row[d].user # None
        /\ cli[d] \in {"start", "waiting", "polling", "loggedIn", "failed"}
        /\ attempts[d] \in 0..MaxAttempts
        /\ cli[d] = "polling" <=> \E p \in polls : p.code = d /\ p.own
    /\ \A u \in Users : approval[u].code \in Codes \cup {None}

\* A device code yields one bearer at most, however polls overlap, and a login
\* that succeeded is the one that got it.
OneBearerPerCode ==
    /\ \A b, c \in bearers : b.code = c.code => b = c
    /\ \A d \in Codes : cli[d] = "loggedIn" => \E b \in bearers : b.code = d /\ b.own

\* "A concurrent approval can otherwise reassign user_id": one browser at most
\* is told that it approved a code, the bearer is that user's, and nobody gets
\* a bearer of a user who was neither told so nor warned that it may be.
BearerIsTheApprovers ==
    \A d \in Codes : \A u \in Users :
        /\ d \in approval[u].told => row[d].user = u
        /\ \A b \in bearers :
            b.code = d /\ b.user = u => d \in approval[u].told \cup approval[u].unsure

\* "issued CLI bearer tokens need their own longer-lived expiry": a bearer the
\* CLI has stored is accepted until it expires, long after its device code.
BearerOutlivesCode ==
    \A d \in Codes : cli[d] = "loggedIn" /\ row[d].until >= now => Authenticates(d)

\* What a login may rely on, whichever polls overlap.
LoginSafe == TypeOK /\ OneBearerPerCode /\ BearerIsTheApprovers

\* Every login ends, approved or not.
LoginEnds == \A d \in Codes : <>(cli[d] \in {"loggedIn", "failed"})
=============================================================================
