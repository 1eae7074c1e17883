-------------------------- MODULE WorkspaceRequest --------------------------
(***************************************************************************)
(* The authenticated request store of phantom-core (workspace_request.rs). *)
(*                                                                         *)
(* Every operation runs under the store's exclusive file lock, so each is  *)
(* one step, except that create_request reads the clock before it waits    *)
(* for the lock: Ask and Create are two steps and the time Create works    *)
(* with may be stale.  The clock is the wall clock, which an administrator *)
(* or NTP can also set back.                                               *)
(*                                                                         *)
(* A basis stands for the tuple (workspace scope, plan id, pre-state id)   *)
(* that create_request compares and every transition re-binds; the action  *)
(* summary is computed from the plan.                                      *)
(***************************************************************************)
EXTENDS Integers, FiniteSets

CONSTANTS
  Ids,            \* request identifiers, fresh random values in the code
  Bases,          \* what a request can be about
  NoBasis,        \* the basis of an identifier not yet in use
  ScopeOf,        \* ScopeOf[b]: the workspace of basis b
  Clients,        \* callers of create_request
  MaxPending,     \* MAX_PENDING_PER_WORKSPACE
  Ttl,            \* REQUEST_TTL_SECS
  ClaimTtl,       \* CLAIM_EXECUTION_TTL_SECS
  MaxTime         \* bound on the clock

ASSUME StoreAssumption ==
  /\ IsFiniteSet(Ids)
  /\ NoBasis \notin Bases
  /\ MaxPending \in Nat \ {0}
  /\ Ttl \in Nat /\ ClaimTtl \in Nat /\ MaxTime \in Nat

None == -1

Outcomes == {"Applied", "Failed", "RolledBack"}

States ==
  {"unused", "Pending", "Claimed", "Expired", "removed"} \cup Outcomes

VARIABLES
  state,      \* state of each record; "unused" before it is written, "removed"
              \* once its file is deleted
  basis,      \* what each record is bound to
  expires,    \* expires_at
  deadline,   \* execution_deadline
  recovery,   \* records whose execution_outcome is RecoveryRequired
  asked,      \* time each client read before waiting for the lock, or None
  now         \* the wall clock

record == <<state, basis, expires, deadline, recovery>>
vars   == <<state, basis, expires, deadline, recovery, asked, now>>

Init ==
  /\ state = [i \in Ids |-> "unused"]
  /\ basis = [i \in Ids |-> NoBasis]
  /\ expires = [i \in Ids |-> 0]
  /\ deadline = [i \in Ids |-> None]
  /\ recovery = {}
  /\ asked = [c \in Clients |-> None]
  /\ now = 0

-----------------------------------------------------------------------------
(* create_request                                                          *)

\* is_expired_at: only Pending records expire.
ExpiredAt(i, t) == state[i] = "Pending" /\ t >= expires[i]

\* create_request evaluates now_unix() for its argument, before acquire_lock.
Ask(c) ==
  /\ asked[c] = None
  /\ asked' = [asked EXCEPT ![c] = now]
  /\ UNCHANGED <<record, now>>

\* cleanup_and_collect_pending_locked deletes the files of the records in S.
Pruned(S) == [i \in Ids |-> IF i \in S THEN "removed" ELSE state[i]]

ExpiredBy(t) == {i \in Ids : ExpiredAt(i, t)}

\* The pending records it returns.
LiveAt(t) == {i \in Ids : state[i] = "Pending" /\ ~ExpiredAt(i, t)}

\* Mutant: an equal pending request is not looked for.
SameNever(b, t) == {}

\* The live pending record of exactly this basis, if there is one.
Same(b, t) == {i \in LiveAt(t) : basis[i] = b}

\* Mutant: the limit admits one request too many.
BelowLimitOffByOne(b, t) ==
  Cardinality({i \in LiveAt(t) : ScopeOf[basis[i]] = ScopeOf[b]}) <= MaxPending

\* Fewer than MAX_PENDING_PER_WORKSPACE live records compete with basis b.
BelowLimit(b, t) ==
  Cardinality({i \in LiveAt(t) : ScopeOf[basis[i]] = ScopeOf[b]}) < MaxPending

\* create_request_at under the lock: prune, then return the identifier of an
\* equal pending request, write a fresh record, or fail with PendingLimit.
Create(c, b) ==
  LET t == asked[c] IN
  /\ t # None
  /\ asked' = [asked EXCEPT ![c] = None]
  /\ \/ /\ Same(b, t) = {} /\ BelowLimit(b, t)
        /\ \E i \in Ids :
             /\ state[i] = "unused"
             /\ state' = [Pruned(ExpiredBy(t)) EXCEPT ![i] = "Pending"]
             /\ basis' = [basis EXCEPT ![i] = b]
             /\ expires' = [expires EXCEPT ![i] = t + Ttl]
     \/ /\ Same(b, t) # {} \/ ~BelowLimit(b, t)
        /\ state' = Pruned(ExpiredBy(t))
        /\ UNCHANGED <<basis, expires>>
  /\ UNCHANGED <<deadline, recovery, now>>

\* An error or a crash while pruning or writing: some of the expired files are
\* gone, no record is written.
CreateFails(c) ==
  /\ asked[c] # None
  /\ asked' = [asked EXCEPT ![c] = None]
  /\ \E S \in SUBSET ExpiredBy(asked[c]) : state' = Pruned(S)
  /\ UNCHANGED <<basis, expires, deadline, recovery, now>>

-----------------------------------------------------------------------------
(* get_status and the transitions                                          *)

Exists(i) == state[i] \notin {"unused", "removed"}

Overdue(i) == state[i] = "Claimed" /\ now >= deadline[i]

\* Mutant: an overdue claim expires like a pending request.
ExpireClaimed(i) ==
  /\ state' = [state EXCEPT ![i] =
                 IF ExpiredAt(i, now) \/ Overdue(i) THEN "Expired" ELSE @]
  /\ recovery' = recovery

\* A pending record past expires_at becomes Expired; an overdue claim is
\* marked RecoveryRequired and stays claimed.
expire_if_needed(i) ==
  /\ state' = [state EXCEPT ![i] = IF ExpiredAt(i, now) THEN "Expired" ELSE @]
  /\ recovery' = recovery \cup {j \in {i} : Overdue(j)}

get_status(i) ==
  /\ Exists(i)
  /\ expire_if_needed(i)
  /\ UNCHANGED <<basis, expires, deadline, asked, now>>

\* transition_with_receipt: the expiry rules first, then the caller's basis and
\* the expected state must match the record's.
Transition(i, b, from, to) ==
  /\ Exists(i)
  /\ IF ~ExpiredAt(i, now) /\ basis[i] = b /\ state[i] = from
       THEN /\ state' = [state EXCEPT ![i] = to]
            /\ deadline' = [deadline EXCEPT ![i] =
                              IF to = "Claimed" THEN now + ClaimTtl ELSE None]
            /\ recovery' = recovery \ {i}
       ELSE expire_if_needed(i) /\ UNCHANGED deadline
  /\ UNCHANGED <<basis, expires, asked, now>>

claim_exact(i, b) == Transition(i, b, "Pending", "Claimed")

complete_request(i, b) == Transition(i, b, "Claimed", "Applied")

fail_request(i, b) == Transition(i, b, "Claimed", "Failed")

rollback_request(i, b) == Transition(i, b, "Claimed", "RolledBack")

\* Time passes, or the wall clock is set.
SetClock ==
  /\ now' \in 0..MaxTime
  /\ UNCHANGED <<record, asked>>

Next ==
  \/ \E c \in Clients : Ask(c) \/ CreateFails(c) \/ \E b \in Bases : Create(c, b)
  \/ \E i \in Ids : get_status(i)
  \/ \E i \in Ids, b \in Bases :
       \/ claim_exact(i, b) \/ complete_request(i, b)
       \/ fail_request(i, b) \/ rollback_request(i, b)
  \/ SetClock

Spec == Init /\ [][Next]_vars

-----------------------------------------------------------------------------
(* Properties                                                              *)

\* Every variable has its type; an execution deadline is set exactly while the
\* request is claimed, and only claimed requests are marked for recovery.
TypeOK ==
  /\ state \in [Ids -> States]
  /\ basis \in [Ids -> Bases \cup {NoBasis}]
  /\ expires \in [Ids -> Nat]
  /\ deadline \in [Ids -> Nat \cup {None}]
  /\ recovery \in SUBSET Ids
  /\ asked \in [Clients -> Nat \cup {None}]
  /\ now \in Nat
  /\ \A i \in Ids : (deadline[i] # None) <=> (state[i] = "Claimed")
  /\ \A i \in recovery : state[i] = "Claimed"

PendingIn(scope) ==
  {i \in Ids : state[i] = "Pending" /\ ScopeOf[basis[i]] = scope}

\* However stale the time a creator works with, and wherever the clock is set,
\* a workspace never has more pending records than the limit, expired ones
\* that still await cleanup included.
PendingCapped ==
  \A b \in Bases : Cardinality(PendingIn(ScopeOf[b])) <= MaxPending

\* Two concurrent requests for the same plan on the same workspace and
\* pre-state never leave two pending records a person could claim.
PendingUnique ==
  \A i, j \in Ids :
    state[i] = "Pending" /\ state[j] = "Pending" /\ basis[i] = basis[j] => i = j

\* A claim once found overdue stays marked RecoveryRequired, even when the
\* clock is set back, until its outcome is recorded.
RecoverySticky ==
  [][\A i \in recovery : i \in recovery' \/ state'[i] \in Outcomes]_vars

Life(i) == INSTANCE RequestLifecycle WITH request <- state[i]

\* Every record goes through the lifecycle of RequestLifecycle: the conjunction
\* of Life(i)!Spec over all records, in a form TLC accepts.
EachLifecycle ==
  /\ \A i \in Ids : Life(i)!Init
  /\ [][\A i \in Ids : [Life(i)!Next]_(state[i])]_state

=============================================================================
