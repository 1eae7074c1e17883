----------------------------- MODULE ReplayLedger -----------------------------
(***************************************************************************)
(* The broker's replay ledger: DurableReplayStore of phantom-broker        *)
(* (replay_store.rs) over the descriptor-owned storage of                  *)
(* replay_storage.rs.                                                      *)
(*                                                                         *)
(* One authenticated snapshot file holds the broker generation, the grant  *)
(* nonces that were spent, the idempotency records and the leases with     *)
(* their uses.  Every operation locks the file, reads it, decides, and     *)
(* replaces it with a synced temporary file, a rename and a sync of the    *)
(* directory.  Taking the lock syncs the directory too                     *)
(* (open_or_create_private), so a rename whose sync failed is made durable *)
(* before the next operation reads it.  What can go wrong in between is an *)
(* I/O error on either side of the rename, the death of a broker and a     *)
(* loss of power, after which the file is as of its last sync or later.    *)
(*                                                                         *)
(* SHA-256 digests are modelled as what they are taken of, and the MAC as  *)
(* unforgeable: nobody else writes the file.                               *)
(***************************************************************************)
EXTENDS Integers, FiniteSets

CONSTANTS
  Handles,         \* DurableReplayStore objects of broker processes
  Grants,          \* verified grants; each carries one nonce
  Keys,            \* idempotency keys
  LeaseIds,
  Ops,             \* operation ids
  Digests,         \* terminal record digests a caller may supply
  RestartDigest,   \* recovery_terminal_digest(.., "broker_restart")
  RevokeDigest,    \* recovery_terminal_digest(.., "revoked_before_completion")
  None,
  MaxUses,         \* UseCapacity::Bounded of every lease
  MaxConcurrent,
  NotBefore,       \* the time window of every lease
  ExpiresAt,
  MaxTime,         \* bound on the times a caller passes
  MaxGeneration,   \* bound on broker_generation
  MaxStateSize     \* MAX_STATE_BYTES, in the units of Size

\* TerminalDisposition, and the outcome a terminal record fixes.
Dispositions == {"finished", "abandoned"}
Outcome      == Dispositions \X (Digests \cup {RestartDigest, RevokeDigest})
CallerOutcome == Dispositions \X Digests

\* PersistedUseState: Finished and Abandoned are "terminal" with their outcome.
Use ==
  [state : {"none", "active"}, outcome : {None}]
    \cup [state : {"completing", "terminal"}, outcome : Outcome]

NoUse     == [state |-> "none", outcome |-> None]
ActiveUse == [state |-> "active", outcome |-> None]
Completing(out) == [state |-> "completing", outcome |-> out]
Terminal(out)   == [state |-> "terminal", outcome |-> out]

PersistedLease ==
  [grant : Grants \cup {None}, generation : 0..MaxGeneration,
   remaining : 0..MaxUses, uses : [Ops -> Use], revoked : BOOLEAN]

NoLease ==
  [grant |-> None, generation |-> 0, remaining |-> 0,
   uses |-> [o \in Ops |-> NoUse], revoked |-> FALSE]

\* The request fingerprint is taken of the whole binding.
Binding == [lease : LeaseIds, grant : Grants, generation : 1..MaxGeneration]

\* What the constants have to satisfy.
LedgerAssumption ==
  /\ None \notin Handles \cup Grants \cup LeaseIds \cup Binding
  /\ {RestartDigest, RevokeDigest} \cap Digests = {}
  /\ IsFiniteSet(Ops) /\ IsFiniteSet(LeaseIds)
  /\ MaxUses \in Nat \ {0} /\ MaxConcurrent \in Nat \ {0}
  /\ NotBefore \in Nat /\ ExpiresAt \in Nat /\ MaxTime \in Nat
  /\ MaxGeneration \in Nat /\ MaxStateSize \in Nat

PersistedState ==
  [present : BOOLEAN, generation : 0..MaxGeneration, seen : SUBSET Grants,
   idempotency : [Keys -> Binding \cup {None}], leases : [LeaseIds -> PersistedLease]]

NoFile ==
  [present |-> FALSE, generation |-> 0, seen |-> {},
   idempotency |-> [k \in Keys |-> None], leases |-> [l \in LeaseIds |-> NoLease]]

Permit  == [lease : LeaseIds, op : Ops, generation : 1..MaxGeneration]
Witness == [lease : LeaseIds, op : Ops, generation : 1..MaxGeneration,
            outcome : Outcome]

VARIABLES
  disk,        \* the snapshot file as processes see it
  synced,      \* the snapshot a loss of power may bring back
  activation,  \* of each handle; "closed" when it is not open
  epoch,       \* what start_epoch returned to the handle, or 0
  instance,    \* the handle that holds the instance lock, or None
  permits,     \* execution permits in the memory of brokers
  witnesses,   \* completion witnesses in the memory of brokers
  issued,      \* how often begin_use gave out a permit for an operation
  answered,    \* <<grant, lease>> pairs reserve has answered
  promised     \* every completion witness ever given out

file    == <<disk, synced>>
handles == <<activation, epoch, instance>>
trail   == <<issued, answered, promised>>
vars    == <<disk, synced, activation, epoch, instance, permits, witnesses,
             issued, answered, promised>>

Init ==
  /\ disk = NoFile /\ synced = NoFile
  /\ activation = [h \in Handles |-> "closed"]
  /\ epoch = [h \in Handles |-> 0]
  /\ instance = None
  /\ permits = {} /\ witnesses = {}
  /\ issued = [l \in LeaseIds |-> [o \in Ops |-> 0]]
  /\ answered = {} /\ promised = {}

-----------------------------------------------------------------------------
(* The size limit.  A use grows when it gets its digest, and again by the  *)
(* disposition while it is completing.                                     *)

Reserved(s)   == {l \in LeaseIds : s.leases[l].grant # None}
InState(s, w) == {x \in LeaseIds \X Ops : s.leases[x[1]].uses[x[2]].state = w}

Size(s) ==
  2 * Cardinality(Reserved(s)) + Cardinality(InState(s, "active"))
    + 3 * Cardinality(InState(s, "completing"))
    + 2 * Cardinality(InState(s, "terminal"))

\* Mutant: a use that is completing is ended too, and so is a recorded outcome.
EndedAll(uses, out) ==
  [o \in Ops |-> IF uses[o] = NoUse THEN NoUse ELSE Terminal(out)]

\* What ends an active use without a completion.
Ended(uses, out) ==
  [o \in Ops |-> IF uses[o] = ActiveUse THEN Terminal(out) ELSE uses[o]]

AbandonActive(leases, digest) ==
  [l \in LeaseIds |->
     [leases[l] EXCEPT !.uses = Ended(leases[l].uses, <<"abandoned", digest>>)]]

RecoverySized(s) == [s EXCEPT !.leases = AbandonActive(s.leases, RestartDigest)]

Fits(s) == Size(s) <= MaxStateSize /\ Size(RecoverySized(s)) <= MaxStateSize

-----------------------------------------------------------------------------
(* with_locked_state_unchecked: the ways one operation can leave the file. *)
(* An error before the rename leaves it as it was.                         *)

\* The lock is taken, which syncs the directory; nothing is written.
ReadOnly == synced' = disk /\ UNCHANGED disk

\* replace succeeds.
Saved(s) == Fits(s) /\ disk' = s /\ synced' = s

\* The rename succeeds and the sync of the directory fails: the caller gets
\* Io for a change that others see.
Unsynced(s) == Fits(s) /\ disk' = s /\ synced' = disk

-----------------------------------------------------------------------------
(* Opening a store and starting its epoch.                                 *)

\* bootstrap refuses to overwrite a state file.
Bootstrap(h) ==
  /\ activation[h] = "closed" /\ ~disk.present
  /\ LET fresh == [NoFile EXCEPT !.present = TRUE]
     IN \/ Saved(fresh) /\ activation' = [activation EXCEPT ![h] = "inactive"]
        \/ Unsynced(fresh) /\ UNCHANGED activation
  /\ UNCHANGED <<epoch, instance, permits, witnesses, trail>>

OpenExisting(h) ==
  /\ activation[h] = "closed" /\ disk.present
  /\ ReadOnly
  /\ activation' = [activation EXCEPT ![h] = "inactive"]
  /\ UNCHANGED <<epoch, instance, permits, witnesses, trail>>

\* The handle is dropped, or its process dies; the lock goes with it.
Release(h) == instance' = IF instance = h THEN None ELSE instance

Close(h) ==
  /\ activation[h] # "closed"
  /\ activation' = [activation EXCEPT ![h] = "closed"]
  /\ epoch' = [epoch EXCEPT ![h] = 0]
  /\ Release(h)
  /\ UNCHANGED <<file, permits, witnesses, trail>>

\* The first half of start_epoch: the compare-and-swap to ACTIVATING and the
\* instance lock.  A lock another handle holds puts the handle back.
LockInstance(h) ==
  /\ activation[h] = "inactive"
  /\ \/ instance = None /\ instance' = h
        /\ activation' = [activation EXCEPT ![h] = "starting"]
     \/ UNCHANGED instance           \* the lock file cannot be opened
        /\ activation' = [activation EXCEPT ![h] = "poisoned"]
  /\ UNCHANGED <<file, epoch, permits, witnesses, trail>>

\* A new generation: every lease of the last one is revoked and its active
\* uses are abandoned.
Restarted(s) ==
  [s EXCEPT !.generation = @ + 1,
            !.leases = [l \in LeaseIds |->
               [AbandonActive(s.leases, RestartDigest)[l] EXCEPT
                  !.revoked = s.leases[l].grant # None]]]

StartEpoch(h) ==
  /\ activation[h] = "starting" /\ disk.generation < MaxGeneration
  /\ \/ /\ Saved(Restarted(disk))
        /\ activation' = [activation EXCEPT ![h] = "active"]
        /\ epoch' = [epoch EXCEPT ![h] = disk.generation + 1]
        /\ UNCHANGED instance
     \/ /\ Unsynced(Restarted(disk)) \/ UNCHANGED file
        /\ activation' = [activation EXCEPT ![h] = "poisoned"]
        /\ Release(h)
        /\ UNCHANGED epoch
  /\ UNCHANGED <<permits, witnesses, trail>>

-----------------------------------------------------------------------------
(* Leases and their uses.                                                  *)

\* A nonce that has been spent is a replay, whatever lease asks for it.
Unspent(s, b) == b.grant \notin s.seen

WithLease(s, key, b) ==
  [s EXCEPT !.seen = @ \cup {b.grant},
            !.idempotency[key] = b,
            !.leases[b.lease] =
               [NoLease EXCEPT !.grant = b.grant, !.generation = b.generation,
                               !.remaining = MaxUses]]

\* The caller built the binding from a verified grant, for some generation.
Reserve(h, key, b) ==
  /\ activation[h] = "active"
  /\ b.generation = disk.generation
  /\ \/ /\ disk.idempotency[key] = b          \* an exact retry: Existing
        /\ ReadOnly
        /\ answered' = answered \cup {<<b.grant, b.lease>>}
     \/ /\ disk.idempotency[key] = None
        /\ Unspent(disk, b)
        /\ disk.leases[b.lease].grant = None
        /\ \/ /\ Saved(WithLease(disk, key, b))
              /\ answered' = answered \cup {<<b.grant, b.lease>>}
           \/ Unsynced(WithLease(disk, key, b)) /\ UNCHANGED answered
  /\ UNCHANGED <<handles, permits, witnesses, issued, promised>>

Live(lease) == {o \in Ops : lease.uses[o].state \in {"active", "completing"}}

Capacity(lease) ==
  lease.remaining > 0 /\ Cardinality(Live(lease)) < MaxConcurrent

\* A lease that may still be used: not revoked and of this generation.
Usable(s, l) ==
  /\ s.leases[l].grant # None
  /\ ~s.leases[l].revoked
  /\ s.leases[l].generation = s.generation

WithUse(s, l, o) ==
  [s EXCEPT !.leases[l].remaining = @ - 1, !.leases[l].uses[o] = ActiveUse]

PermitOf(s, l, o) == [lease |-> l, op |-> o, generation |-> s.generation]

\* Mutant: an operation that has ended may be begun again.
BeginUseForgetful(h, l, o, now) ==
  /\ activation[h] = "active"
  /\ Usable(disk, l)
  /\ NotBefore <= now /\ now < ExpiresAt
  /\ disk.leases[l].uses[o].state \in {"none", "terminal"}
  /\ Capacity(disk.leases[l])
  /\ Saved(WithUse(disk, l, o))
  /\ permits' = permits \cup {PermitOf(disk, l, o)}
  /\ issued' = [issued EXCEPT ![l][o] = @ + 1]
  /\ UNCHANGED <<handles, witnesses, answered, promised>>

\* An operation that is known already is answered with its state: only the
\* call that records it gets a permit.
BeginUse(h, l, o, now) ==
  /\ activation[h] = "active"
  /\ Usable(disk, l)
  /\ NotBefore <= now /\ now < ExpiresAt
  /\ disk.leases[l].uses[o] = NoUse
  /\ Capacity(disk.leases[l])
  /\ \/ /\ Saved(WithUse(disk, l, o))
        /\ permits' = permits \cup {PermitOf(disk, l, o)}
        /\ issued' = [issued EXCEPT ![l][o] = @ + 1]
     \/ Unsynced(WithUse(disk, l, o)) /\ UNCHANGED <<permits, issued>>
  /\ UNCHANGED <<handles, witnesses, answered, promised>>

\* LeaseSummary::status of a listed lease: the first case that applies.
Status(s, l, now) ==
  LET lease == s.leases[l]
  IN IF lease.generation > s.generation      THEN "inconsistent"
     ELSE IF lease.generation < s.generation THEN "revoked_by_restart"
     ELSE IF lease.revoked                   THEN "revoked"
     ELSE IF now < NotBefore                 THEN "not_yet_valid"
     ELSE IF now >= ExpiresAt                THEN "expired"
     ELSE IF lease.remaining = 0             THEN "exhausted"
     ELSE "current"

-----------------------------------------------------------------------------
(* The two-phase end of a use.                                             *)

Give(w) == witnesses' = witnesses \cup {w} /\ promised' = promised \cup {w}

WithState(s, l, o, u) == [s EXCEPT !.leases[l].uses[o] = u]

WitnessFor(s, l, o, out) ==
  [lease |-> l, op |-> o, generation |-> s.leases[l].generation, outcome |-> out]

PermitAccepted(s, p) ==
  p.generation = s.generation /\ Usable(s, p.lease)

\* A matching retry resumes or is told of the end; any other outcome conflicts.
BeginCompletion(h, p, out) ==
  LET use == disk.leases[p.lease].uses[p.op]
      w   == WitnessFor(disk, p.lease, p.op, out)
      new == WithState(disk, p.lease, p.op, Completing(out))
  IN /\ activation[h] = "active" /\ p \in permits
     /\ PermitAccepted(disk, p)
     /\ \/ use = ActiveUse /\ Saved(new) /\ Give(w)
        \/ use = ActiveUse /\ Unsynced(new) /\ UNCHANGED <<witnesses, promised>>
        \/ use = Completing(out) /\ ReadOnly /\ Give(w)
        \/ use = Terminal(out) /\ ReadOnly /\ UNCHANGED <<witnesses, promised>>
     /\ UNCHANGED <<handles, permits, issued, answered>>

\* After a restart, by operation and outcome alone; a completion that was
\* never started is not started here.
ResumeCompletion(h, l, o, out) ==
  /\ activation[h] = "active"
  /\ \/ /\ disk.leases[l].uses[o] = Completing(out)
        /\ Give(WitnessFor(disk, l, o, out))
     \/ /\ disk.leases[l].uses[o] = Terminal(out)
        /\ UNCHANGED <<witnesses, promised>>
  /\ ReadOnly
  /\ UNCHANGED <<handles, permits, issued, answered>>

\* Neither the lease's revocation nor a later generation is in the way.
CommitCompletion(h, w) ==
  LET use == disk.leases[w.lease].uses[w.op]
      new == WithState(disk, w.lease, w.op, Terminal(w.outcome))
  IN /\ activation[h] = "active" /\ w \in witnesses
     /\ w.generation = disk.leases[w.lease].generation
     /\ \/ use = Completing(w.outcome) /\ (Saved(new) \/ Unsynced(new))
        \/ use = Terminal(w.outcome) /\ ReadOnly
     /\ UNCHANGED <<handles, permits, witnesses, trail>>

RevokedState(s, l) ==
  [s EXCEPT !.leases[l].revoked = TRUE,
            !.leases[l].uses = Ended(@, <<"abandoned", RevokeDigest>>)]

\* revoke does not disturb a completion that was started.
Revoke(h, l) ==
  /\ activation[h] = "active"
  /\ disk.leases[l].grant # None /\ ~disk.leases[l].revoked
  /\ Saved(RevokedState(disk, l)) \/ Unsynced(RevokedState(disk, l))
  /\ UNCHANGED <<handles, permits, witnesses, trail>>

\* Every process is gone, and the file may be as of its last sync.
LosePower ==
  /\ disk' \in {disk, synced} /\ synced' = disk'
  /\ activation' = [h \in Handles |-> "closed"]
  /\ epoch' = [h \in Handles |-> 0]
  /\ instance' = None
  /\ permits' = {} /\ witnesses' = {}
  /\ UNCHANGED trail

Next ==
  \/ \E h \in Handles :
       \/ Bootstrap(h) \/ OpenExisting(h) \/ Close(h)
       \/ LockInstance(h) \/ StartEpoch(h)
       \/ \E key \in Keys, b \in Binding : Reserve(h, key, b)
       \/ \E l \in LeaseIds, o \in Ops, now \in 0..MaxTime : BeginUse(h, l, o, now)
       \/ \E p \in permits, out \in CallerOutcome : BeginCompletion(h, p, out)
       \/ \E l \in LeaseIds, o \in Ops, out \in CallerOutcome :
            ResumeCompletion(h, l, o, out)
       \/ \E w \in witnesses : CommitCompletion(h, w)
       \/ \E l \in LeaseIds : Revoke(h, l)
  \/ LosePower

Spec == Init /\ [][Next]_vars
-----------------------------------------------------------------------------
(* Properties.                                                             *)

\* Every variable holds what the code's types allow.
TypeOK ==
  /\ disk \in PersistedState /\ synced \in PersistedState
  /\ activation \in
       [Handles -> {"closed", "inactive", "starting", "poisoned", "active"}]
  /\ epoch \in [Handles -> 0..MaxGeneration]
  /\ instance \in Handles \cup {None}
  /\ permits \subseteq Permit
  /\ witnesses \subseteq Witness /\ promised \subseteq Witness
  /\ issued \in [LeaseIds -> [Ops -> Nat]]
  /\ answered \subseteq Grants \X LeaseIds

\* begin_use gives out one permit for an operation of a lease, ever: not again
\* to a retry, after a crash, a loss of power, a failed write or a restart.
OnePermitPerOperation == \A l \in LeaseIds, o \in Ops : issued[l][o] <= 1

\* The capacity of a lease bounds the permits given out, and how many of them
\* are for uses that have not ended (begin_use).
PermitsWithinCapacity ==
  \A l \in LeaseIds :
    LET given == {o \in Ops : issued[l][o] > 0}
    IN /\ Cardinality(given) <= MaxUses
       /\ Cardinality(given \cap Live(disk.leases[l])) <= MaxConcurrent

\* A grant becomes one lease: reserve never answers one nonce with two leases,
\* whatever keys and lease ids come with it, and whatever is lost in between.
OneLeasePerGrant ==
  \A x, y \in answered : x[1] = y[1] => x[2] = y[2]

\* A completion witness is a promise: once begin_completion or
\* resume_completion has given one out, the use is completing or has ended with
\* exactly that outcome, on disk and after a loss of power.
WitnessStands ==
  \A w \in promised : \A s \in {disk, synced} :
    s.leases[w.lease].uses[w.op] \in {Completing(w.outcome), Terminal(w.outcome)}

\* How a use ended does not change again, by a late permit, a late witness, a
\* revocation or a restart.
KeepsOutcomes ==
  \A l \in LeaseIds, o \in Ops :
    synced.leases[l].uses[o].state = "terminal" =>
      synced'.leases[l].uses[o] = synced.leases[l].uses[o]

OutcomeIsFinal == [][KeepsOutcomes]_vars

\* A broker that is active is the one of the newest generation on disk: no
\* broker of an older epoch can still write (start_epoch, the instance lock).
EpochIsCurrent ==
  \A h \in Handles : activation[h] = "active" => epoch[h] = disk.generation

\* What an earlier broker left behind conveys no authority: its leases are
\* revoked and none of their uses is active (start_epoch).
OldLeasesAreDead ==
  \A l \in Reserved(disk) :
    disk.leases[l].generation # disk.generation =>
      disk.leases[l].revoked /\ \A o \in Ops : disk.leases[l].uses[o] # ActiveUse

\* The status shown for a lease is what begin_use would do with a new operation
\* while a slot is free: current if and only if it is let in, and never
\* inconsistent (LeaseSummary::status).
StatusIsTrue ==
  \A l \in Reserved(disk), now \in 0..MaxTime :
    LET lease == disk.leases[l]
        letIn == /\ Usable(disk, l)
                 /\ NotBefore <= now /\ now < ExpiresAt
                 /\ lease.remaining > 0
    IN /\ Status(disk, l, now) # "inconsistent"
       /\ Status(disk, l, now) = "current" <=> letIn

\* The size limit never strands a store: whatever has been written, the
\* restart that revokes it fits (recovery_sized_state).
RestartFits == Fits(Restarted(disk)) /\ Fits(Restarted(synced))

\* What the ledger promises the broker, whatever crashes, is lost or comes late.
LedgerSafe ==
  /\ TypeOK
  /\ OnePermitPerOperation /\ PermitsWithinCapacity /\ WitnessStands
  /\ OneLeasePerGrant /\ EpochIsCurrent /\ OldLeasesAreDead /\ StatusIsTrue
  /\ RestartFits
=============================================================================
