-------------------------- MODULE ReplayLedgerProofs --------------------------
(***************************************************************************)
(* Proofs about ReplayLedger, for any number of brokers, grants, keys,     *)
(* leases and operations, any capacity and any size limit.                 *)
(*                                                                         *)
(* A loss of power may bring back the snapshot of the last sync, so what   *)
(* was promised to a caller has to be backed by both snapshots, the one    *)
(* processes see and the synced one (Backs).  Each snapshot by itself is   *)
(* sound (Sound): what was spent of a lease is what its uses say.  The     *)
(* instance lock ties the generation of the file to the one active broker  *)
(* (EpochInv), and an end recorded in the synced snapshot is the end in    *)
(* the visible one (NeverBehind).                                          *)
(*                                                                         *)
(* The operations that end or complete uses all move uses forward and      *)
(* leave the rest of a lease alone (Forward), which is proved once to keep *)
(* everything; only start_epoch, reserve and begin_use need more.          *)
(***************************************************************************)
EXTENDS ReplayLedger, FiniteSetTheorems, TLAPS

\* The operations a lease has ever begun.
Begun(lease) == {o \in Ops : lease.uses[o] # NoUse}

\* A lease nobody reserved has no uses, one that was reserved accounts for all
\* of its uses, keeps within its concurrency, and is dead unless it is of the
\* generation of the file.
SoundLease(s, l) ==
  LET lease == s.leases[l] IN
  /\ lease.grant = None => \A o \in Ops : lease.uses[o] = NoUse
  /\ lease.grant # None =>
       /\ Cardinality(Begun(lease)) + lease.remaining = MaxUses
       /\ lease.grant \in s.seen
       /\ lease.generation \in 1..s.generation
       /\ lease.generation # s.generation =>
            lease.revoked /\ \A o \in Ops : lease.uses[o] # ActiveUse
  /\ Cardinality(Live(lease)) <= MaxConcurrent

\* A snapshot that can be on the disk.
Sound(s) ==
  /\ \A l \in LeaseIds : SoundLease(s, l)
  /\ \A l, m \in LeaseIds :
       s.leases[l].grant # None /\ s.leases[l].grant = s.leases[m].grant => l = m
  /\ \A k \in Keys :
       s.idempotency[k] # None =>
         s.leases[s.idempotency[k].lease].grant = s.idempotency[k].grant
  /\ ~s.present => s.generation = 0 /\ \A l \in LeaseIds : s.leases[l].grant = None

\* What brokers were told is in the snapshot.
Backs(s) ==
  /\ \A l \in LeaseIds, o \in Ops : issued[l][o] > 0 => s.leases[l].uses[o] # NoUse
  /\ \A x \in answered : s.leases[x[2]].grant = x[1]
  /\ \A w \in promised :
       s.leases[w.lease].uses[w.op] \in {Completing(w.outcome), Terminal(w.outcome)}

\* The synced snapshot has no end of a use that the visible one has not.
EndsKept(s, t) ==
  \A l \in LeaseIds, o \in Ops :
    s.leases[l].uses[o].state = "terminal" => t.leases[l].uses[o] = s.leases[l].uses[o]

NeverBehind == EndsKept(synced, disk)

\* The instance lock: whoever starts or is active holds it, and the generation
\* of the file is the epoch of the active broker.
EpochInv ==
  \A h \in Handles :
    /\ activation[h] # "closed" => disk.present
    /\ activation[h] \in {"starting", "active"} => instance = h
    /\ activation[h] = "active" => epoch[h] = disk.generation /\ disk.generation > 0

FileInv ==
  /\ Sound(disk) /\ Sound(synced)
  /\ Backs(disk) /\ Backs(synced)
  /\ Fits(disk) /\ Fits(synced)
  /\ NeverBehind

Inv == TypeOK /\ FileInv /\ EpochInv /\ OnePermitPerOperation

-----------------------------------------------------------------------------
(* Uses and leases.                                                        *)

LEMMA UseFacts ==
  ASSUME NEW u \in Use
  PROVE  /\ u.state \in {"none", "active", "completing", "terminal"}
         /\ u.state = "none" <=> u = NoUse
         /\ u.state = "active" <=> u = ActiveUse
         /\ u.state = "completing" => u = Completing(u.outcome) /\ u.outcome \in Outcome
         /\ u.state = "terminal" => u = Terminal(u.outcome) /\ u.outcome \in Outcome
BY DEF Use, NoUse, ActiveUse, Completing, Terminal

LEMMA UseTypes ==
  /\ NoUse \in Use /\ ActiveUse \in Use
  /\ NoUse.state = "none" /\ ActiveUse.state = "active"
  /\ \A out \in Outcome : /\ Completing(out) \in Use /\ Terminal(out) \in Use
                          /\ Completing(out).state = "completing"
                          /\ Terminal(out).state = "terminal"
                          /\ Completing(out).outcome = out /\ Terminal(out).outcome = out
BY DEF Use, NoUse, ActiveUse, Completing, Terminal

LEMMA OutcomeTypes ==
  /\ CallerOutcome \subseteq Outcome
  /\ <<"abandoned", RestartDigest>> \in Outcome
  /\ <<"abandoned", RevokeDigest>> \in Outcome
BY DEF CallerOutcome, Outcome, Dispositions

LEMMA LeaseFields ==
  ASSUME NEW s \in PersistedState, NEW l \in LeaseIds
  PROVE  /\ s.leases \in [LeaseIds -> PersistedLease] /\ s.leases[l] \in PersistedLease
         /\ s.leases[l].grant \in Grants \cup {None}
         /\ s.leases[l].generation \in 0..MaxGeneration
         /\ s.leases[l].remaining \in 0..MaxUses
         /\ s.leases[l].uses \in [Ops -> Use]
         /\ s.leases[l].revoked \in BOOLEAN
BY DEF PersistedState, PersistedLease

LEMMA StateFields ==
  ASSUME NEW s \in PersistedState
  PROVE  /\ s.present \in BOOLEAN /\ s.generation \in 0..MaxGeneration
         /\ s.seen \in SUBSET Grants
         /\ s.idempotency \in [Keys -> Binding \cup {None}]
BY DEF PersistedState

\* Ending the active uses of a lease.
LEMMA EndedFacts ==
  ASSUME NEW uses \in [Ops -> Use], NEW out \in Outcome
  PROVE  /\ Ended(uses, out) \in [Ops -> Use]
         /\ \A o \in Ops :
              /\ uses[o] = ActiveUse => Ended(uses, out)[o] = Terminal(out)
              /\ uses[o] # ActiveUse => Ended(uses, out)[o] = uses[o]
              /\ Ended(uses, out)[o] # ActiveUse
<1>1. \A o \in Ops : Terminal(out) \in Use /\ Terminal(out) # ActiveUse
  BY UseTypes
<1> QED
  BY <1>1 DEF Ended

LEMMA NoLeaseFacts ==
  ASSUME LedgerAssumption
  PROVE  /\ NoLease \in PersistedLease
         /\ NoLease.grant = None /\ NoLease.generation = 0 /\ NoLease.remaining = 0
         /\ \A o \in Ops : NoLease.uses[o] = NoUse
BY UseTypes DEF NoLease, PersistedLease, LedgerAssumption

LEMMA NoFileFacts ==
  ASSUME LedgerAssumption
  PROVE  /\ NoFile \in PersistedState
         /\ NoFile.present = FALSE /\ NoFile.generation = 0 /\ NoFile.seen = {}
         /\ \A k \in Keys : NoFile.idempotency[k] = None
         /\ \A l \in LeaseIds : NoFile.leases[l] = NoLease
<1>1. 0 \in 0..MaxGeneration /\ {} \in SUBSET Grants /\ FALSE \in BOOLEAN
  BY DEF LedgerAssumption
<1>2. [k \in Keys |-> None] \in [Keys -> Binding \cup {None}]
  OBVIOUS
<1>3. [l \in LeaseIds |-> NoLease] \in [LeaseIds -> PersistedLease]
  BY NoLeaseFacts
<1> QED
  BY <1>1, <1>2, <1>3 DEF NoFile, PersistedState

-----------------------------------------------------------------------------
(* What the operations write.                                              *)

\* Everything but the leases and the generation is as it was.
SameRest(s, t) ==
  t.present = s.present /\ t.seen = s.seen /\ t.idempotency = s.idempotency

LEMMA ReplaceLeases ==
  ASSUME NEW s \in PersistedState, NEW leases \in [LeaseIds -> PersistedLease]
  PROVE  LET t == [s EXCEPT !.leases = leases]
         IN  /\ t \in PersistedState /\ SameRest(s, t)
             /\ t.generation = s.generation /\ t.leases = leases
BY DEF PersistedState, SameRest

\* abandon_active_uses of every lease.
LEMMA AbandonFacts ==
  ASSUME NEW s \in PersistedState, NEW digest, <<"abandoned", digest>> \in Outcome
  PROVE  LET leases == AbandonActive(s.leases, digest)
         IN  /\ leases \in [LeaseIds -> PersistedLease]
             /\ \A l \in LeaseIds :
                  /\ leases[l].grant = s.leases[l].grant
                  /\ leases[l].generation = s.leases[l].generation
                  /\ leases[l].remaining = s.leases[l].remaining
                  /\ leases[l].revoked = s.leases[l].revoked
                  /\ leases[l].uses = Ended(s.leases[l].uses, <<"abandoned", digest>>)
<1> DEFINE leases == AbandonActive(s.leases, digest)
           out == <<"abandoned", digest>>
<1>1. SUFFICES ASSUME NEW l \in LeaseIds
               PROVE  LET lease == [s.leases[l] EXCEPT !.uses = Ended(s.leases[l].uses, out)]
                      IN  /\ lease \in PersistedLease
                          /\ lease.grant = s.leases[l].grant
                          /\ lease.generation = s.leases[l].generation
                          /\ lease.remaining = s.leases[l].remaining
                          /\ lease.revoked = s.leases[l].revoked
                          /\ lease.uses = Ended(s.leases[l].uses, out)
  BY DEF AbandonActive
<1>2. s.leases[l] \in PersistedLease /\ s.leases[l].uses \in [Ops -> Use]
  BY LeaseFields
<1>3. Ended(s.leases[l].uses, out) \in [Ops -> Use]
  BY <1>2, EndedFacts
<1> QED
  BY <1>2, <1>3 DEF PersistedLease

LEMMA RestartedFacts ==
  ASSUME NEW s \in PersistedState, s.generation < MaxGeneration, LedgerAssumption
  PROVE  LET t == Restarted(s)
             out == <<"abandoned", RestartDigest>>
         IN  /\ t \in PersistedState /\ SameRest(s, t) /\ t.generation = s.generation + 1
             /\ \A l \in LeaseIds :
                  /\ t.leases[l].grant = s.leases[l].grant
                  /\ t.leases[l].generation = s.leases[l].generation
                  /\ t.leases[l].remaining = s.leases[l].remaining
                  /\ t.leases[l].grant # None => t.leases[l].revoked
                  /\ t.leases[l].uses = Ended(s.leases[l].uses, out)
<1> DEFINE out == <<"abandoned", RestartDigest>>
           ended == AbandonActive(s.leases, RestartDigest)
           leases == [l \in LeaseIds |-> [ended[l] EXCEPT !.revoked = s.leases[l].grant # None]]
           u == [s EXCEPT !.generation = s.generation + 1]
<1>1. /\ ended \in [LeaseIds -> PersistedLease]
      /\ \A l \in LeaseIds :
           /\ ended[l].grant = s.leases[l].grant
           /\ ended[l].generation = s.leases[l].generation
           /\ ended[l].remaining = s.leases[l].remaining
           /\ ended[l].uses = Ended(s.leases[l].uses, out)
  BY AbandonFacts, OutcomeTypes
<1> HIDE DEF ended
<1>2. \A l \in LeaseIds :
        /\ leases[l] \in PersistedLease
        /\ leases[l].grant = ended[l].grant
        /\ leases[l].generation = ended[l].generation
        /\ leases[l].remaining = ended[l].remaining
        /\ leases[l].revoked = (s.leases[l].grant # None)
        /\ leases[l].uses = ended[l].uses
  BY <1>1 DEF PersistedLease
<1>3. leases \in [LeaseIds -> PersistedLease]
  BY <1>2
<1>4. /\ u \in PersistedState /\ SameRest(s, u) /\ u.generation = s.generation + 1
      /\ u.leases = s.leases
  BY DEF PersistedState, SameRest, LedgerAssumption
<1>5. Restarted(s) = [u EXCEPT !.leases = leases]
  BY DEF Restarted, ended, PersistedState
<1> HIDE DEF u, leases
<1> DEFINE t == [u EXCEPT !.leases = leases]
<1>6. t \in PersistedState /\ SameRest(u, t) /\ t.generation = u.generation /\ t.leases = leases
  BY <1>3, <1>4, ReplaceLeases
<1>7. SameRest(s, t) /\ Restarted(s) = t
  BY <1>4, <1>5, <1>6 DEF SameRest
<1> HIDE DEF t
<1> QED
  BY <1>1, <1>2, <1>4, <1>6, <1>7

\* A state in which one lease was replaced.
LEMMA ReplaceLease ==
  ASSUME NEW s \in PersistedState, NEW l \in LeaseIds, NEW lease \in PersistedLease
  PROVE  LET t == [s EXCEPT !.leases[l] = lease]
         IN  /\ t \in PersistedState /\ SameRest(s, t) /\ t.generation = s.generation
             /\ t.leases[l] = lease
             /\ \A m \in LeaseIds : m # l => t.leases[m] = s.leases[m]
<1> DEFINE leases == [s.leases EXCEPT ![l] = lease]
<1>1. leases \in [LeaseIds -> PersistedLease]
  BY LeaseFields
<1>2. [s EXCEPT !.leases[l] = lease] = [s EXCEPT !.leases = leases]
  BY DEF PersistedState
<1>3. leases[l] = lease /\ \A m \in LeaseIds : m # l => leases[m] = s.leases[m]
  BY LeaseFields
<1> HIDE DEF leases
<1> DEFINE t == [s EXCEPT !.leases = leases]
<1>4. t \in PersistedState /\ SameRest(s, t) /\ t.generation = s.generation /\ t.leases = leases
  BY <1>1, ReplaceLeases
<1> HIDE DEF t
<1>5. [s EXCEPT !.leases[l] = lease] = t
  BY <1>2 DEF t
<1> QED
  BY <1>3, <1>4, <1>5

LEMMA WithStateFacts ==
  ASSUME NEW s \in PersistedState, NEW l \in LeaseIds, NEW o \in Ops, NEW u \in Use
  PROVE  LET t == WithState(s, l, o, u)
         IN  /\ t \in PersistedState /\ SameRest(s, t) /\ t.generation = s.generation
             /\ \A m \in LeaseIds : m # l => t.leases[m] = s.leases[m]
             /\ t.leases[l].grant = s.leases[l].grant
             /\ t.leases[l].generation = s.leases[l].generation
             /\ t.leases[l].remaining = s.leases[l].remaining
             /\ t.leases[l].revoked = s.leases[l].revoked
             /\ t.leases[l].uses = [s.leases[l].uses EXCEPT ![o] = u]
<1> DEFINE lease == [s.leases[l] EXCEPT !.uses[o] = u]
           uses == [s.leases[l].uses EXCEPT ![o] = u]
<1>1. s.leases[l] \in PersistedLease /\ s.leases[l].uses \in [Ops -> Use]
  BY LeaseFields
<1>2. uses \in [Ops -> Use]
  BY <1>1
<1>3. lease = [s.leases[l] EXCEPT !.uses = uses]
  BY <1>1 DEF PersistedLease
<1>4. WithState(s, l, o, u) = [s EXCEPT !.leases[l] = lease]
  BY DEF WithState, PersistedState
<1> HIDE DEF uses
<1>5. /\ lease \in PersistedLease
      /\ lease.grant = s.leases[l].grant
      /\ lease.generation = s.leases[l].generation
      /\ lease.remaining = s.leases[l].remaining
      /\ lease.revoked = s.leases[l].revoked
      /\ lease.uses = uses
  <2> HIDE DEF lease
  <2> QED BY <1>1, <1>2, <1>3 DEF PersistedLease
<1> HIDE DEF lease
<1> QED
  BY <1>4, <1>5, ReplaceLease DEF uses

LEMMA WithUseFacts ==
  ASSUME NEW s \in PersistedState, NEW l \in LeaseIds, NEW o \in Ops,
         s.leases[l].remaining > 0, LedgerAssumption
  PROVE  LET t == WithUse(s, l, o)
         IN  /\ t \in PersistedState /\ SameRest(s, t) /\ t.generation = s.generation
             /\ \A m \in LeaseIds : m # l => t.leases[m] = s.leases[m]
             /\ t.leases[l].grant = s.leases[l].grant
             /\ t.leases[l].generation = s.leases[l].generation
             /\ t.leases[l].remaining = s.leases[l].remaining - 1
             /\ t.leases[l].revoked = s.leases[l].revoked
             /\ t.leases[l].uses = [s.leases[l].uses EXCEPT ![o] = ActiveUse]
<1> DEFINE less == [s.leases[l] EXCEPT !.remaining = s.leases[l].remaining - 1]
           u == [s EXCEPT !.leases[l] = less]
<1>1. s.leases[l] \in PersistedLease /\ s.leases[l].remaining - 1 \in 0..MaxUses
  BY LeaseFields DEF LedgerAssumption
<1>2. /\ less \in PersistedLease
      /\ less.grant = s.leases[l].grant
      /\ less.generation = s.leases[l].generation
      /\ less.remaining = s.leases[l].remaining - 1
      /\ less.revoked = s.leases[l].revoked
      /\ less.uses = s.leases[l].uses
  BY <1>1 DEF PersistedLease
<1> HIDE DEF less
<1>3. /\ u \in PersistedState /\ SameRest(s, u) /\ u.generation = s.generation
      /\ u.leases[l] = less
      /\ \A m \in LeaseIds : m # l => u.leases[m] = s.leases[m]
  BY <1>2, ReplaceLease
<1>4. WithUse(s, l, o) = WithState(u, l, o, ActiveUse)
  BY DEF WithUse, WithState, PersistedState, less
<1> HIDE DEF u
<1> QED
  BY <1>2, <1>3, <1>4, WithStateFacts, UseTypes DEF SameRest

LEMMA RevokedFacts ==
  ASSUME NEW s \in PersistedState, NEW l \in LeaseIds
  PROVE  LET t == RevokedState(s, l)
             out == <<"abandoned", RevokeDigest>>
         IN  /\ t \in PersistedState /\ SameRest(s, t) /\ t.generation = s.generation
             /\ \A m \in LeaseIds : m # l => t.leases[m] = s.leases[m]
             /\ t.leases[l].grant = s.leases[l].grant
             /\ t.leases[l].generation = s.leases[l].generation
             /\ t.leases[l].remaining = s.leases[l].remaining
             /\ t.leases[l].revoked
             /\ t.leases[l].uses = Ended(s.leases[l].uses, out)
<1> DEFINE out == <<"abandoned", RevokeDigest>>
           uses == Ended(s.leases[l].uses, out)
           dead == [s.leases[l] EXCEPT !.revoked = TRUE]
           lease == [dead EXCEPT !.uses = uses]
<1>1. s.leases[l] \in PersistedLease /\ s.leases[l].uses \in [Ops -> Use]
  BY LeaseFields
<1>2. uses \in [Ops -> Use]
  BY <1>1, EndedFacts, OutcomeTypes
<1>3. /\ dead \in PersistedLease
      /\ dead.grant = s.leases[l].grant
      /\ dead.generation = s.leases[l].generation
      /\ dead.remaining = s.leases[l].remaining
      /\ dead.revoked = TRUE
      /\ dead.uses = s.leases[l].uses
  BY <1>1 DEF PersistedLease
<1>4. RevokedState(s, l) = [s EXCEPT !.leases[l] = lease]
  BY <1>1 DEF RevokedState, PersistedState, PersistedLease
<1> HIDE DEF dead, uses
<1>5. /\ lease \in PersistedLease
      /\ lease.grant = s.leases[l].grant
      /\ lease.generation = s.leases[l].generation
      /\ lease.remaining = s.leases[l].remaining
      /\ lease.revoked = TRUE
      /\ lease.uses = uses
  BY <1>2, <1>3 DEF PersistedLease
<1> HIDE DEF lease
<1> QED
  BY <1>4, <1>5, ReplaceLease DEF uses

LEMMA WithLeaseFacts ==
  ASSUME NEW s \in PersistedState, NEW key \in Keys, NEW b \in Binding, LedgerAssumption
  PROVE  LET t == WithLease(s, key, b)
         IN  /\ t \in PersistedState /\ t.present = s.present /\ t.generation = s.generation
             /\ t.seen = s.seen \cup {b.grant}
             /\ t.idempotency = [s.idempotency EXCEPT ![key] = b]
             /\ \A m \in LeaseIds : m # b.lease => t.leases[m] = s.leases[m]
             /\ t.leases[b.lease].grant = b.grant
             /\ t.leases[b.lease].generation = b.generation
             /\ t.leases[b.lease].remaining = MaxUses
             /\ \A o \in Ops : t.leases[b.lease].uses[o] = NoUse
<1> DEFINE lease == [NoLease EXCEPT !.grant = b.grant, !.generation = b.generation,
                                    !.remaining = MaxUses]
           ids == [s.idempotency EXCEPT ![key] = b]
           u == [s EXCEPT !.seen = s.seen \cup {b.grant}]
           v == [u EXCEPT !.idempotency = ids]
<1>0. /\ b.lease \in LeaseIds /\ b.grant \in Grants /\ b.generation \in 0..MaxGeneration
      /\ MaxUses \in 0..MaxUses
  BY DEF Binding, LedgerAssumption
<1>1. /\ lease \in PersistedLease /\ lease.grant = b.grant /\ lease.generation = b.generation
      /\ lease.remaining = MaxUses /\ \A o \in Ops : lease.uses[o] = NoUse
  <2> DEFINE one == [NoLease EXCEPT !.grant = b.grant]
             two == [one EXCEPT !.generation = b.generation]
  <2>1. one \in PersistedLease /\ one.grant = b.grant /\ one.uses = NoLease.uses
    BY <1>0, NoLeaseFacts DEF PersistedLease
  <2>2. lease = [two EXCEPT !.remaining = MaxUses]
    BY NoLeaseFacts DEF PersistedLease
  <2> HIDE DEF one
  <2>3. /\ two \in PersistedLease /\ two.grant = b.grant /\ two.uses = NoLease.uses
        /\ two.generation = b.generation
    BY <1>0, <2>1 DEF PersistedLease
  <2> HIDE DEF two, lease
  <2>4. /\ lease \in PersistedLease /\ lease.grant = b.grant /\ lease.uses = NoLease.uses
        /\ lease.generation = b.generation /\ lease.remaining = MaxUses
    BY <1>0, <2>2, <2>3 DEF PersistedLease
  <2> QED
    BY <2>4, NoLeaseFacts
<1> HIDE DEF lease
<1>2. ids \in [Keys -> Binding \cup {None}]
  BY StateFields
<1>3. /\ u \in PersistedState /\ u.present = s.present /\ u.generation = s.generation
      /\ u.seen = s.seen \cup {b.grant} /\ u.leases = s.leases /\ u.idempotency = s.idempotency
  BY <1>0 DEF PersistedState
<1>4. WithLease(s, key, b) = [v EXCEPT !.leases[b.lease] = lease]
  BY <1>3 DEF WithLease, lease, PersistedState
<1> HIDE DEF u, ids
<1>5. /\ v \in PersistedState /\ v.present = s.present /\ v.generation = s.generation
      /\ v.seen = s.seen \cup {b.grant} /\ v.leases = s.leases /\ v.idempotency = ids
  BY <1>2, <1>3 DEF PersistedState
<1> HIDE DEF v
<1> QED
  BY <1>0, <1>1, <1>4, <1>5, ReplaceLease DEF SameRest, ids

-----------------------------------------------------------------------------
(* Steps that only move uses forward.                                      *)

\* An active use is completed or ended, a completing one ends as promised.
UseMoves(u, v) ==
  \/ v = u
  \/ u = ActiveUse /\ v.state \in {"completing", "terminal"}
  \/ u.state = "completing" /\ v = Terminal(u.outcome)

Forward(s, t) ==
  /\ SameRest(s, t)
  /\ \A l \in LeaseIds :
       /\ t.leases[l].grant = s.leases[l].grant
       /\ t.leases[l].generation = s.leases[l].generation
       /\ t.leases[l].remaining = s.leases[l].remaining
       /\ \A o \in Ops : UseMoves(s.leases[l].uses[o], t.leases[l].uses[o])
  /\ \/ /\ t.generation = s.generation
        /\ \A l \in LeaseIds : s.leases[l].revoked => t.leases[l].revoked
     \/ /\ t.generation = s.generation + 1 /\ s.present
        /\ \A l \in LeaseIds : t.leases[l].grant # None =>
             t.leases[l].revoked /\ \A o \in Ops : t.leases[l].uses[o] # ActiveUse

LEMMA MoveFacts ==
  ASSUME NEW u \in Use, NEW v \in Use, UseMoves(u, v)
  PROVE  /\ v = NoUse <=> u = NoUse
         /\ v = ActiveUse => u = ActiveUse
         /\ v.state \in {"active", "completing"} => u.state \in {"active", "completing"}
         /\ u.state = "terminal" => v = u
         /\ \A out \in Outcome : u \in {Completing(out), Terminal(out)} =>
                                 v \in {Completing(out), Terminal(out)}
<1>1. CASE v = u
  BY <1>1
<1>2. CASE u = ActiveUse /\ v.state \in {"completing", "terminal"}
  <2>1. \A out \in Outcome : u \notin {Completing(out), Terminal(out)}
    BY <1>2, UseTypes
  <2> QED
    BY <1>2, <2>1, UseTypes
<1>3. CASE u.state = "completing" /\ v = Terminal(u.outcome)
  <2>1. u.outcome \in Outcome
    BY <1>3, UseFacts
  <2>2. \A out \in Outcome : u \in {Completing(out), Terminal(out)} => u.outcome = out
    BY UseTypes
  <2> QED
    BY <1>3, <2>1, <2>2, UseTypes
<1> QED
  BY <1>1, <1>2, <1>3 DEF UseMoves

\* The operations of a lease are finitely many.
LEMMA OpsFinite ==
  ASSUME LedgerAssumption, NEW lease
  PROVE  /\ IsFiniteSet(Begun(lease)) /\ IsFiniteSet(Live(lease))
         /\ Cardinality(Begun(lease)) \in Nat /\ Cardinality(Live(lease)) \in Nat
<1>1. Begun(lease) \subseteq Ops /\ Live(lease) \subseteq Ops /\ IsFiniteSet(Ops)
  BY DEF Begun, Live, LedgerAssumption
<1> QED
  BY <1>1, FS_Subset, FS_CardinalityType

LEMMA ForwardKeeps ==
  ASSUME LedgerAssumption, TypeOK,
         NEW s \in PersistedState, NEW t \in PersistedState,
         Sound(s), Backs(s), Forward(s, t)
  PROVE  Sound(t) /\ Backs(t) /\ EndsKept(s, t)
<1>1. \A l \in LeaseIds, o \in Ops :
        LET u == s.leases[l].uses[o]
            v == t.leases[l].uses[o]
        IN  /\ v = NoUse <=> u = NoUse
            /\ v = ActiveUse => u = ActiveUse
            /\ v.state \in {"active", "completing"} => u.state \in {"active", "completing"}
            /\ u.state = "terminal" => v = u
            /\ \A out \in Outcome : u \in {Completing(out), Terminal(out)} =>
                                    v \in {Completing(out), Terminal(out)}
  <2> TAKE l \in LeaseIds, o \in Ops
  <2> DEFINE u == s.leases[l].uses[o]
             v == t.leases[l].uses[o]
  <2>1. u \in Use /\ v \in Use
    BY LeaseFields
  <2>2. UseMoves(u, v)
    BY DEF Forward
  <2> HIDE DEF u, v
  <2>3. /\ v = NoUse <=> u = NoUse
        /\ v = ActiveUse => u = ActiveUse
        /\ v.state \in {"active", "completing"} => u.state \in {"active", "completing"}
        /\ u.state = "terminal" => v = u
        /\ \A out \in Outcome : u \in {Completing(out), Terminal(out)} =>
                                v \in {Completing(out), Terminal(out)}
    BY <2>1, <2>2, MoveFacts
  <2> QED BY <2>3 DEF u, v
<1>2. /\ t.present = s.present /\ t.seen = s.seen /\ t.idempotency = s.idempotency
      /\ \A l \in LeaseIds : /\ t.leases[l].grant = s.leases[l].grant
                             /\ t.leases[l].generation = s.leases[l].generation
                             /\ t.leases[l].remaining = s.leases[l].remaining
  BY DEF Forward, SameRest
<1>3. ASSUME NEW l \in LeaseIds
      PROVE  SoundLease(t, l)
  <2> DEFINE a == s.leases[l]
             b == t.leases[l]
  <2>1. SoundLease(s, l)
    BY DEF Sound
  <2>2. Begun(b) = Begun(a)
    BY <1>1 DEF Begun
  <2>3. Live(b) \subseteq Live(a)
    BY <1>1 DEF Live
  <2>4. Cardinality(Live(b)) <= MaxConcurrent
    <3>1. Cardinality(Live(b)) <= Cardinality(Live(a))
      BY <2>3, OpsFinite, FS_Subset
    <3>2. Cardinality(Live(a)) <= MaxConcurrent
      BY <2>1 DEF SoundLease
    <3> QED
      BY <3>1, <3>2, OpsFinite DEF LedgerAssumption
  <2>5. b.grant = None => \A o \in Ops : b.uses[o] = NoUse
    BY <1>1, <1>2, <2>1 DEF SoundLease
  <2>6. b.grant # None => Cardinality(Begun(b)) + b.remaining = MaxUses /\ b.grant \in t.seen
    BY <1>2, <2>1, <2>2 DEF SoundLease
  <2>7. b.grant # None =>
          /\ b.generation \in 1..t.generation
          /\ b.generation # t.generation =>
               b.revoked /\ \A o \in Ops : b.uses[o] # ActiveUse
    <3>1. SUFFICES ASSUME b.grant # None
                   PROVE  /\ b.generation \in 1..t.generation
                          /\ b.generation # t.generation =>
                               b.revoked /\ \A o \in Ops : b.uses[o] # ActiveUse
      OBVIOUS
    <3>2. /\ b.generation \in 1..s.generation
          /\ b.generation # s.generation =>
               a.revoked /\ \A o \in Ops : a.uses[o] # ActiveUse
      BY <1>2, <2>1, <3>1 DEF SoundLease
    <3>3. CASE t.generation = s.generation /\ (a.revoked => b.revoked)
      BY <1>1, <3>2, <3>3
    <3>4. CASE t.generation = s.generation + 1
               /\ b.revoked /\ \A o \in Ops : b.uses[o] # ActiveUse
      BY <3>2, <3>4, StateFields
    <3> QED
      BY <3>1, <3>3, <3>4 DEF Forward
  <2> QED
    BY <2>4, <2>5, <2>6, <2>7 DEF SoundLease
<1>4. ~t.present => t.generation = 0 /\ \A l \in LeaseIds : t.leases[l].grant = None
  BY <1>2 DEF Sound, Forward
<1>5. \A k \in Keys : t.idempotency[k] # None =>
        t.leases[t.idempotency[k].lease].grant = t.idempotency[k].grant
  <2>1. \A k \in Keys : s.idempotency[k] # None => s.idempotency[k].lease \in LeaseIds
    BY StateFields DEF Binding
  <2> QED
    BY <1>2, <2>1 DEF Sound
<1>6. Sound(t)
  <2>1. \A l, m \in LeaseIds :
          t.leases[l].grant # None /\ t.leases[l].grant = t.leases[m].grant => l = m
    BY <1>2 DEF Sound
  <2> QED
    BY <1>3, <1>4, <1>5, <2>1 DEF Sound
<1>7. Backs(t)
  <2>1. \A w \in promised : w.lease \in LeaseIds /\ w.op \in Ops /\ w.outcome \in Outcome
    BY DEF TypeOK, Witness
  <2>2. \A x \in answered : x[2] \in LeaseIds
    BY DEF TypeOK
  <2>3. \A l \in LeaseIds, o \in Ops : issued[l][o] > 0 => t.leases[l].uses[o] # NoUse
    BY <1>1 DEF Backs
  <2>4. \A x \in answered : t.leases[x[2]].grant = x[1]
    BY <1>2, <2>2 DEF Backs
  <2>5. \A w \in promised :
          t.leases[w.lease].uses[w.op] \in {Completing(w.outcome), Terminal(w.outcome)}
    BY <1>1, <2>1 DEF Backs
  <2> QED
    BY <2>3, <2>4, <2>5 DEF Backs
<1>8. EndsKept(s, t)
  BY <1>1 DEF EndsKept
<1> QED
  BY <1>6, <1>7, <1>8

\* start_epoch.
LEMMA RestartedForward ==
  ASSUME LedgerAssumption, NEW s \in PersistedState, s.generation < MaxGeneration, s.present
  PROVE  Restarted(s) \in PersistedState /\ Forward(s, Restarted(s))
<1> DEFINE t == Restarted(s)
           out == <<"abandoned", RestartDigest>>
<1>1. /\ t \in PersistedState /\ SameRest(s, t) /\ t.generation = s.generation + 1
      /\ \A l \in LeaseIds :
           /\ t.leases[l].grant = s.leases[l].grant
           /\ t.leases[l].generation = s.leases[l].generation
           /\ t.leases[l].remaining = s.leases[l].remaining
           /\ t.leases[l].grant # None => t.leases[l].revoked
           /\ t.leases[l].uses = Ended(s.leases[l].uses, out)
  BY RestartedFacts
<1> HIDE DEF t
<1>2. \A l \in LeaseIds, o \in Ops :
        /\ UseMoves(s.leases[l].uses[o], t.leases[l].uses[o])
        /\ t.leases[l].uses[o] # ActiveUse
  BY <1>1, LeaseFields, EndedFacts, OutcomeTypes, UseTypes DEF UseMoves
<1> QED
  BY <1>1, <1>2 DEF Forward, t

\* begin_completion and commit_completion.
LEMMA WithStateForward ==
  ASSUME NEW s \in PersistedState, NEW l \in LeaseIds, NEW o \in Ops, NEW u \in Use,
         UseMoves(s.leases[l].uses[o], u)
  PROVE  WithState(s, l, o, u) \in PersistedState /\ Forward(s, WithState(s, l, o, u))
<1> DEFINE t == WithState(s, l, o, u)
<1>1. /\ t \in PersistedState /\ SameRest(s, t) /\ t.generation = s.generation
      /\ \A m \in LeaseIds : m # l => t.leases[m] = s.leases[m]
      /\ t.leases[l].grant = s.leases[l].grant
      /\ t.leases[l].generation = s.leases[l].generation
      /\ t.leases[l].remaining = s.leases[l].remaining
      /\ t.leases[l].revoked = s.leases[l].revoked
      /\ t.leases[l].uses = [s.leases[l].uses EXCEPT ![o] = u]
  BY WithStateFacts
<1> HIDE DEF t
<1>2. \A m \in LeaseIds, p \in Ops : UseMoves(s.leases[m].uses[p], t.leases[m].uses[p])
  BY <1>1, LeaseFields DEF UseMoves
<1> QED
  BY <1>1, <1>2 DEF Forward, t

\* revoke.
LEMMA RevokedForward ==
  ASSUME NEW s \in PersistedState, NEW l \in LeaseIds
  PROVE  RevokedState(s, l) \in PersistedState /\ Forward(s, RevokedState(s, l))
<1> DEFINE t == RevokedState(s, l)
           out == <<"abandoned", RevokeDigest>>
<1>1. /\ t \in PersistedState /\ SameRest(s, t) /\ t.generation = s.generation
      /\ \A m \in LeaseIds : m # l => t.leases[m] = s.leases[m]
      /\ t.leases[l].grant = s.leases[l].grant
      /\ t.leases[l].generation = s.leases[l].generation
      /\ t.leases[l].remaining = s.leases[l].remaining
      /\ t.leases[l].revoked
      /\ t.leases[l].uses = Ended(s.leases[l].uses, out)
  BY RevokedFacts
<1> HIDE DEF t
<1>2. \A o \in Ops : UseMoves(s.leases[l].uses[o], t.leases[l].uses[o])
  BY <1>1, LeaseFields, EndedFacts, OutcomeTypes, UseTypes DEF UseMoves
<1>3. \A m \in LeaseIds, o \in Ops : UseMoves(s.leases[m].uses[o], t.leases[m].uses[o])
  BY <1>1, <1>2 DEF UseMoves
<1> QED
  BY <1>1, <1>3 DEF Forward, t

-----------------------------------------------------------------------------
(* The three writes that add something.                                    *)

\* begin_use: one operation more, one use less.
LEMMA WithUseKeeps ==
  ASSUME LedgerAssumption, TypeOK,
         NEW s \in PersistedState, NEW l \in LeaseIds, NEW o \in Ops,
         Sound(s), Backs(s), Usable(s, l), Capacity(s.leases[l]),
         s.leases[l].uses[o] = NoUse
  PROVE  LET t == WithUse(s, l, o)
         IN  /\ t \in PersistedState /\ Sound(t) /\ Backs(t) /\ EndsKept(s, t)
             /\ t.leases[l].uses[o] # NoUse
             /\ t.present = s.present /\ t.generation = s.generation
<1> DEFINE t == WithUse(s, l, o)
           a == s.leases[l]
           b == t.leases[l]
<1>0. a.remaining > 0 /\ Cardinality(Live(a)) < MaxConcurrent
  BY DEF Capacity
<1>1. /\ t \in PersistedState /\ SameRest(s, t) /\ t.generation = s.generation
      /\ \A m \in LeaseIds : m # l => t.leases[m] = s.leases[m]
      /\ b.grant = a.grant
      /\ b.generation = a.generation
      /\ b.remaining = a.remaining - 1
      /\ b.revoked = a.revoked
      /\ b.uses = [a.uses EXCEPT ![o] = ActiveUse]
  BY <1>0, WithUseFacts
<1> HIDE DEF t
<1>2. a.uses \in [Ops -> Use] /\ a.remaining \in Nat
  BY LeaseFields DEF LedgerAssumption
<1>3. b.uses[o] = ActiveUse /\ \A p \in Ops : p # o => b.uses[p] = a.uses[p]
  BY <1>1, <1>2
<1>4. ActiveUse # NoUse /\ ActiveUse.state = "active" /\ NoUse.state = "none"
  BY UseTypes
<1>5. SoundLease(s, l)
  BY DEF Sound
<1>6. SoundLease(t, l)
  <2>1. Begun(b) = Begun(a) \cup {o} /\ o \notin Begun(a)
    BY <1>3, <1>4 DEF Begun
  <2>2. Live(b) = Live(a) \cup {o} /\ o \notin Live(a)
    BY <1>3, <1>4 DEF Live
  <2>3. /\ Cardinality(Begun(b)) = Cardinality(Begun(a)) + 1
        /\ Cardinality(Live(b)) = Cardinality(Live(a)) + 1
    BY <2>1, <2>2, OpsFinite, FS_AddElement
  <2>4. Cardinality(Live(b)) <= MaxConcurrent
    BY <1>0, <2>3, OpsFinite DEF LedgerAssumption
  <2>5. a.grant # None /\ a.generation = s.generation
    BY DEF Usable
  <2>6. Cardinality(Begun(b)) + b.remaining = MaxUses
    <3>1. Cardinality(Begun(a)) + a.remaining = MaxUses
      BY <1>5, <2>5 DEF SoundLease
    <3> QED
      BY <1>1, <1>2, <2>3, <3>1, OpsFinite
  <2>7. b.grant # None /\ b.grant \in t.seen /\ b.generation = t.generation
    BY <1>1, <1>5, <2>5 DEF SoundLease, SameRest
  <2>8. b.generation \in 1..t.generation
    BY <1>1, <1>5, <2>5 DEF SoundLease
  <2>9. b.generation # t.generation => b.revoked /\ \A p \in Ops : b.uses[p] # ActiveUse
    BY <2>7
  <2> QED
    BY <2>4, <2>6, <2>7, <2>8, <2>9, Zenon DEF SoundLease
<1>7. \A m \in LeaseIds : SoundLease(t, m)
  <2>1. \A m \in LeaseIds : m # l => SoundLease(t, m)
    BY <1>1 DEF Sound, SoundLease, SameRest
  <2> QED
    BY <1>6, <2>1
<1>8. \A m \in LeaseIds : t.leases[m].grant = s.leases[m].grant
  BY <1>1
<1>9. Sound(t)
  <2>1. \A k \in Keys : s.idempotency[k] # None => s.idempotency[k].lease \in LeaseIds
    BY StateFields DEF Binding
  <2>2. \A k \in Keys : t.idempotency[k] # None =>
          t.leases[t.idempotency[k].lease].grant = t.idempotency[k].grant
    BY <1>1, <1>8, <2>1 DEF Sound, SameRest
  <2>3. ~t.present => t.generation = 0 /\ \A m \in LeaseIds : t.leases[m].grant = None
    BY <1>1, <1>8 DEF Sound, SameRest
  <2>4. \A m, n \in LeaseIds :
          t.leases[m].grant # None /\ t.leases[m].grant = t.leases[n].grant => m = n
    BY <1>8 DEF Sound
  <2> QED
    BY <1>7, <2>2, <2>3, <2>4 DEF Sound
<1>10. Backs(t)
  <2>1. \A w \in promised : w.lease \in LeaseIds /\ w.op \in Ops /\ w.outcome \in Outcome
    BY DEF TypeOK, Witness
  <2>2. \A x \in answered : x[2] \in LeaseIds
    BY DEF TypeOK
  <2>3. \A m \in LeaseIds, p \in Ops : issued[m][p] > 0 => t.leases[m].uses[p] # NoUse
    <3>1. \A m \in LeaseIds, p \in Ops :
            s.leases[m].uses[p] # NoUse => t.leases[m].uses[p] # NoUse
      BY <1>1, <1>3, <1>4
    <3> QED
      BY <3>1 DEF Backs
  <2>4. \A x \in answered : t.leases[x[2]].grant = x[1]
    BY <1>8, <2>2 DEF Backs
  <2>5. \A w \in promised :
          t.leases[w.lease].uses[w.op] \in {Completing(w.outcome), Terminal(w.outcome)}
    <3> TAKE w \in promised
    <3>1. s.leases[w.lease].uses[w.op] \in {Completing(w.outcome), Terminal(w.outcome)}
      BY DEF Backs
    <3>2. NoUse \notin {Completing(w.outcome), Terminal(w.outcome)}
      BY <1>4, <2>1, UseTypes
    <3>3. w.lease # l \/ w.op # o
      BY <3>1, <3>2
    <3> QED
      BY <1>1, <1>3, <2>1, <3>1, <3>3
  <2> QED
    BY <2>3, <2>4, <2>5 DEF Backs
<1>11. EndsKept(s, t)
  BY <1>1, <1>3, <1>4 DEF EndsKept
<1>12. t.present = s.present /\ b.uses[o] # NoUse
  BY <1>1, <1>3, <1>4 DEF SameRest
<1> QED
  BY <1>1, <1>9, <1>10, <1>11, <1>12 DEF t

\* reserve: a lease for a nonce that was not spent, in a place that was free.
LEMMA WithLeaseKeeps ==
  ASSUME LedgerAssumption, TypeOK,
         NEW s \in PersistedState, NEW key \in Keys, NEW b \in Binding,
         Sound(s), Backs(s), s.present,
         b.generation = s.generation, Unspent(s, b), s.leases[b.lease].grant = None
  PROVE  LET t == WithLease(s, key, b)
         IN  /\ t \in PersistedState /\ Sound(t) /\ Backs(t) /\ EndsKept(s, t)
             /\ t.leases[b.lease].grant = b.grant
             /\ t.present = s.present /\ t.generation = s.generation
<1> DEFINE t == WithLease(s, key, b)
           l == b.lease
<1>0. /\ l \in LeaseIds /\ b.grant \in Grants /\ b.grant # None
      /\ b.generation \in 1..MaxGeneration
  BY DEF Binding, LedgerAssumption
<1>1. /\ t \in PersistedState /\ t.present = s.present /\ t.generation = s.generation
      /\ t.seen = s.seen \cup {b.grant}
      /\ t.idempotency = [s.idempotency EXCEPT ![key] = b]
      /\ \A m \in LeaseIds : m # l => t.leases[m] = s.leases[m]
      /\ t.leases[l].grant = b.grant
      /\ t.leases[l].generation = b.generation
      /\ t.leases[l].remaining = MaxUses
      /\ \A o \in Ops : t.leases[l].uses[o] = NoUse
  BY WithLeaseFacts
<1> HIDE DEF t
<1>2. \A o \in Ops : s.leases[l].uses[o] = NoUse
  BY <1>0 DEF Sound, SoundLease
<1>3. \A m \in LeaseIds : s.leases[m].grant # b.grant
  BY <1>0 DEF Sound, SoundLease, Unspent
<1>4. \A m \in LeaseIds, o \in Ops : t.leases[m].uses[o] = s.leases[m].uses[o]
  BY <1>1, <1>2
<1>5. SoundLease(t, l)
  <2>1. Begun(t.leases[l]) = {} /\ Live(t.leases[l]) = {}
    BY <1>1, UseTypes DEF Begun, Live
  <2>2. Cardinality(Begun(t.leases[l])) = 0 /\ Cardinality(Live(t.leases[l])) = 0
    BY <2>1, FS_EmptySet
  <2>3. 0 <= MaxConcurrent /\ 0 + MaxUses = MaxUses
    BY DEF LedgerAssumption
  <2>4. b.generation \in 1..t.generation
    BY <1>0, <1>1
  <2> QED
    BY <1>0, <1>1, <2>2, <2>3, <2>4 DEF SoundLease
<1>6. \A m \in LeaseIds : SoundLease(t, m)
  <2>1. \A m \in LeaseIds : m # l => SoundLease(t, m)
    BY <1>1 DEF Sound, SoundLease
  <2> QED
    BY <1>5, <2>1
<1>7. \A k \in Keys : t.idempotency[k] # None =>
        t.leases[t.idempotency[k].lease].grant = t.idempotency[k].grant
  <2> TAKE k \in Keys
  <2>1. CASE k = key
    BY <1>1, <2>1, StateFields
  <2>2. CASE k # key
    <3>1. t.idempotency[k] = s.idempotency[k]
      BY <1>1, <2>2, StateFields
    <3>2. s.idempotency[k] # None =>
            /\ s.idempotency[k].lease \in LeaseIds
            /\ s.idempotency[k].grant \in Grants
            /\ s.leases[s.idempotency[k].lease].grant = s.idempotency[k].grant
      BY StateFields DEF Binding, Sound
    <3>3. s.idempotency[k] # None => s.idempotency[k].lease # l
      BY <3>2 DEF LedgerAssumption
    <3> QED
      BY <1>1, <3>1, <3>2, <3>3
  <2> QED
    BY <2>1, <2>2
<1>8. \A m, n \in LeaseIds :
        t.leases[m].grant # None /\ t.leases[m].grant = t.leases[n].grant => m = n
  BY <1>0, <1>1, <1>3 DEF Sound
<1>9. Sound(t)
  BY <1>1, <1>6, <1>7, <1>8 DEF Sound
<1>10. Backs(t)
  <2>1. \A w \in promised : w.lease \in LeaseIds /\ w.op \in Ops
    BY DEF TypeOK, Witness
  <2>2. \A x \in answered : x[2] \in LeaseIds /\ x[1] \in Grants
    BY DEF TypeOK
  <2>3. \A x \in answered : x[2] # l
    BY <2>2 DEF Backs, LedgerAssumption
  <2>4. \A m \in LeaseIds, o \in Ops : issued[m][o] > 0 => t.leases[m].uses[o] # NoUse
    BY <1>4 DEF Backs
  <2>5. \A x \in answered : t.leases[x[2]].grant = x[1]
    BY <1>1, <2>2, <2>3 DEF Backs
  <2>6. \A w \in promised :
          t.leases[w.lease].uses[w.op] \in {Completing(w.outcome), Terminal(w.outcome)}
    BY <1>4, <2>1 DEF Backs
  <2> QED
    BY <2>4, <2>5, <2>6 DEF Backs
<1>11. EndsKept(s, t)
  BY <1>4 DEF EndsKept
<1> QED
  BY <1>1, <1>9, <1>10, <1>11 DEF t

-----------------------------------------------------------------------------
(* The size limit.                                                         *)

\* The size is a matter of which leases are reserved and how far uses are.
LEMMA SameSize ==
  ASSUME NEW s, NEW t,
         \A l \in LeaseIds :
           /\ t.leases[l].grant = s.leases[l].grant
           /\ \A o \in Ops : t.leases[l].uses[o].state = s.leases[l].uses[o].state
  PROVE  Size(t) = Size(s)
<1>1. Reserved(t) = Reserved(s)
  BY DEF Reserved
<1>2. ASSUME NEW w
      PROVE  InState(t, w) = InState(s, w)
  <2>1. \A x \in LeaseIds \X Ops : x[1] \in LeaseIds /\ x[2] \in Ops
    OBVIOUS
  <2> QED
    BY <2>1 DEF InState
<1> QED
  BY <1>1, <1>2 DEF Size

LEMMA EmptyFits ==
  ASSUME LedgerAssumption, NEW s \in PersistedState,
         \A l \in LeaseIds : s.leases[l].grant = None /\ \A o \in Ops : s.leases[l].uses[o] = NoUse
  PROVE  Fits(s)
<1> DEFINE t == RecoverySized(s)
           leases == AbandonActive(s.leases, RestartDigest)
           out == <<"abandoned", RestartDigest>>
<1>1. /\ leases \in [LeaseIds -> PersistedLease]
      /\ \A l \in LeaseIds : /\ leases[l].grant = s.leases[l].grant
                             /\ leases[l].uses = Ended(s.leases[l].uses, out)
  BY AbandonFacts, OutcomeTypes
<1>2. t.leases = leases
  BY <1>1, ReplaceLeases DEF RecoverySized
<1>3. \A l \in LeaseIds, o \in Ops : leases[l].uses[o] = s.leases[l].uses[o]
  BY <1>1, LeaseFields, EndedFacts, OutcomeTypes, UseTypes
<1>4. Size(t) = Size(s)
  <2> HIDE DEF t, leases
  <2> QED BY <1>1, <1>2, <1>3, SameSize
<1>5. Size(s) = 0
  <2>1. Reserved(s) = {}
    BY DEF Reserved
  <2>2. \A w \in {"active", "completing", "terminal"} : InState(s, w) = {}
    <3>1. \A x \in LeaseIds \X Ops : s.leases[x[1]].uses[x[2]].state = "none"
      BY UseTypes
    <3> QED
      BY <3>1 DEF InState
  <2>3. Cardinality({}) = 0
    BY FS_EmptySet
  <2> QED
    BY <2>1, <2>2, <2>3 DEF Size
<1> QED
  BY <1>4, <1>5 DEF Fits, LedgerAssumption

\* recovery_sized_state: what fits with its active uses abandoned fits after
\* the restart, and so does the restart after that.
LEMMA RestartedFits ==
  ASSUME NEW s \in PersistedState, Fits(s)
  PROVE  Fits(Restarted(s))
<1> DEFINE out == <<"abandoned", RestartDigest>>
           r == RecoverySized(s)
           t == Restarted(s)
           q == RecoverySized(t)
           ended == AbandonActive(s.leases, RestartDigest)
           leases == [l \in LeaseIds |-> [ended[l] EXCEPT !.revoked = s.leases[l].grant # None]]
<1>1. /\ ended \in [LeaseIds -> PersistedLease]
      /\ \A l \in LeaseIds : /\ ended[l].grant = s.leases[l].grant
                             /\ ended[l].uses = Ended(s.leases[l].uses, out)
  BY AbandonFacts, OutcomeTypes
<1>2. r.leases = ended
  BY <1>1, ReplaceLeases DEF RecoverySized
<1>3. t.leases = leases
  BY DEF Restarted, PersistedState
<1>4. \A l \in LeaseIds : leases[l].grant = s.leases[l].grant /\ leases[l].uses = ended[l].uses
  <2> HIDE DEF ended
  <2> QED BY <1>1 DEF PersistedLease
<1>5. Size(t) = Size(r)
  <2>1. \A l \in LeaseIds : t.leases[l].grant = r.leases[l].grant /\ t.leases[l].uses = r.leases[l].uses
    <3> HIDE DEF t, r, ended, leases
    <3> QED BY <1>1, <1>2, <1>3, <1>4
  <2> HIDE DEF t, r
  <2> QED BY <2>1, SameSize
<1>6. Size(q) = Size(t)
  <2>1. q.leases = AbandonActive(leases, RestartDigest)
    <3>1. t \in [present : BOOLEAN, generation : Int, seen : SUBSET Grants,
                 idempotency : [Keys -> Binding \cup {None}], leases : [LeaseIds -> PersistedLease]]
      <4>1. leases \in [LeaseIds -> PersistedLease]
        <5> HIDE DEF ended
        <5> QED BY <1>1 DEF PersistedLease
      <4> DEFINE u == [s EXCEPT !.generation = s.generation + 1]
                 StateType == [present : BOOLEAN, generation : Int, seen : SUBSET Grants,
                               idempotency : [Keys -> Binding \cup {None}],
                               leases : [LeaseIds -> PersistedLease]]
      <4>2. u \in StateType
        BY DEF PersistedState
      <4>3. t = [u EXCEPT !.leases = leases]
        BY DEF Restarted, PersistedState
      <4> HIDE DEF u, leases, t
      <4> QED BY <4>1, <4>2, <4>3
    <3> HIDE DEF t
    <3> QED BY <3>1, <1>3 DEF RecoverySized
  <2>2. \A l \in LeaseIds :
          LET again == [leases[l] EXCEPT !.uses = Ended(leases[l].uses, out)]
          IN  q.leases[l] = again
    <3> HIDE DEF q, leases
    <3> QED BY <2>1 DEF AbandonActive
  <2>3. \A l \in LeaseIds : leases[l] \in PersistedLease
    <3> HIDE DEF ended
    <3> QED BY <1>1 DEF PersistedLease
  <2>4. \A l \in LeaseIds : /\ q.leases[l].grant = leases[l].grant
                            /\ q.leases[l].uses = Ended(leases[l].uses, out)
    <3> HIDE DEF q, leases
    <3> QED BY <2>2, <2>3 DEF PersistedLease
  <2>5. \A l \in LeaseIds : /\ s.leases[l].uses \in [Ops -> Use]
                            /\ leases[l].uses = Ended(s.leases[l].uses, out)
    <3> HIDE DEF leases, ended
    <3> QED BY <1>1, <1>4, LeaseFields
  <2>6. \A l \in LeaseIds : /\ leases[l].uses \in [Ops -> Use]
                            /\ \A o \in Ops : leases[l].uses[o] # ActiveUse
    <3> HIDE DEF leases
    <3> QED BY <2>5, EndedFacts, OutcomeTypes
  <2>7. \A l \in LeaseIds, o \in Ops : q.leases[l].uses[o] = leases[l].uses[o]
    <3> HIDE DEF leases, q
    <3> QED BY <2>4, <2>6, EndedFacts, OutcomeTypes
  <2>8. \A l \in LeaseIds : /\ q.leases[l].grant = t.leases[l].grant
                            /\ \A o \in Ops : q.leases[l].uses[o].state = t.leases[l].uses[o].state
    <3> HIDE DEF leases, q, t
    <3> QED BY <1>3, <2>4, <2>7
  <2> HIDE DEF q, t
  <2> QED BY <2>8, SameSize
<1> HIDE DEF r, t, q
<1>7. Size(r) <= MaxStateSize
  BY DEF Fits, r
<1>8. Size(t) <= MaxStateSize /\ Size(q) <= MaxStateSize
  BY <1>5, <1>6, <1>7
<1> QED
  BY <1>8 DEF Fits, t, q

-----------------------------------------------------------------------------
(* The ways an operation can leave the file.                               *)

\* What holds of the two snapshots by themselves.
FilesOK ==
  /\ disk \in PersistedState /\ synced \in PersistedState
  /\ Sound(disk) /\ Sound(synced)
  /\ Fits(disk) /\ Fits(synced)
  /\ NeverBehind

LEMMA FilesFromInv ==
  ASSUME Inv
  PROVE  FilesOK /\ Backs(disk) /\ Backs(synced)
BY DEF Inv, FileInv, FilesOK, TypeOK

LEMMA EndsKeptTransitive ==
  ASSUME NEW r, NEW s, NEW t, EndsKept(r, s), EndsKept(s, t)
  PROVE  EndsKept(r, t)
BY DEF EndsKept

LEMMA EndsKeptReflexive ==
  ASSUME NEW s
  PROVE  EndsKept(s, s)
BY DEF EndsKept

\* A write, the sync of the directory failed or not.
LEMMA Written ==
  ASSUME Inv, NEW t \in PersistedState, Sound(t), EndsKept(disk, t),
         Saved(t) \/ Unsynced(t)
  PROVE  FilesOK' /\ KeepsOutcomes /\ disk' = t /\ synced' \in {disk, t}
<1>1. disk' = t /\ synced' \in {disk, t} /\ Fits(t)
  BY DEF Saved, Unsynced
<1>2. FilesOK
  BY FilesFromInv
<1>3. EndsKept(synced, disk) /\ EndsKept(synced, t) /\ EndsKept(t, t)
  BY <1>2, EndsKeptTransitive, EndsKeptReflexive DEF FilesOK, NeverBehind
<1>4. EndsKept(synced', disk') /\ EndsKept(synced, synced')
  BY <1>1, <1>3
<1>5. KeepsOutcomes /\ NeverBehind'
  BY <1>4 DEF KeepsOutcomes, NeverBehind, EndsKept
<1>6. synced' \in PersistedState /\ Sound(synced') /\ Fits(synced')
  BY <1>1, <1>2 DEF FilesOK
<1> QED
  BY <1>1, <1>5, <1>6 DEF FilesOK

\* Taking the lock makes what is visible durable.
LEMMA ReadKeeps ==
  ASSUME Inv, ReadOnly
  PROVE  FilesOK' /\ KeepsOutcomes /\ disk' = disk /\ synced' = disk
<1>1. FilesOK /\ disk' = disk /\ synced' = disk
  BY FilesFromInv DEF ReadOnly
<1>2. EndsKept(synced, synced') /\ EndsKept(synced', disk')
  BY <1>1, EndsKeptReflexive DEF FilesOK, NeverBehind
<1>3. KeepsOutcomes /\ NeverBehind'
  BY <1>2 DEF KeepsOutcomes, NeverBehind, EndsKept
<1> QED
  BY <1>1, <1>3 DEF FilesOK

LEMMA FileStays ==
  ASSUME Inv, UNCHANGED file
  PROVE  FilesOK' /\ KeepsOutcomes /\ disk' = disk /\ synced' = synced
<1>1. FilesOK /\ disk' = disk /\ synced' = synced
  BY FilesFromInv DEF file
<1>2. KeepsOutcomes /\ NeverBehind'
  BY <1>1 DEF KeepsOutcomes, FilesOK, NeverBehind, EndsKept
<1> QED
  BY <1>1, <1>2 DEF FilesOK

\* The two snapshots still back what brokers were told.
LEMMA TrailStays ==
  ASSUME UNCHANGED trail, NEW t, NEW u, Backs(t), Backs(u), disk' = t, synced' = u
  PROVE  Backs(disk)' /\ Backs(synced)'
BY DEF Backs, trail

\* A step that leaves handles and what brokers know alone.
LEMMA QuietStep ==
  ASSUME Inv, FilesOK', Backs(disk)', Backs(synced)',
         UNCHANGED <<handles, permits, witnesses, trail>>,
         disk'.present = disk.present, disk'.generation = disk.generation
  PROVE  Inv'
<1>1. TypeOK'
  BY DEF Inv, TypeOK, FilesOK, handles, trail
<1>2. EpochInv'
  BY DEF Inv, EpochInv, handles
<1>3. FileInv' /\ OnePermitPerOperation'
  BY DEF Inv, FileInv, FilesOK, OnePermitPerOperation, trail
<1> QED
  BY <1>1, <1>2, <1>3 DEF Inv

\* A write that only moves uses forward, in one generation.
LEMMA ForwardStep ==
  ASSUME LedgerAssumption, Inv, NEW t \in PersistedState, Forward(disk, t),
         Saved(t) \/ Unsynced(t)
  PROVE  /\ FilesOK' /\ KeepsOutcomes /\ disk' = t
         /\ Backs(t) /\ synced' \in {disk, t}
         /\ UNCHANGED trail => Backs(disk)' /\ Backs(synced)'
<1>1. TypeOK /\ disk \in PersistedState /\ Sound(disk) /\ Backs(disk)
  BY FilesFromInv DEF FilesOK, Inv
<1>2. Sound(t) /\ Backs(t) /\ EndsKept(disk, t)
  BY <1>1, ForwardKeeps
<1>3. FilesOK' /\ KeepsOutcomes /\ disk' = t /\ synced' \in {disk, t}
  BY <1>2, Written
<1>4. UNCHANGED trail => Backs(disk)' /\ Backs(synced)'
  BY <1>1, <1>2, <1>3, TrailStays
<1> QED
  BY <1>2, <1>3, <1>4

-----------------------------------------------------------------------------
(* Opening a store and starting its epoch.                                 *)

LEMMA BootstrapStep ==
  ASSUME LedgerAssumption, Inv, NEW h \in Handles, Bootstrap(h)
  PROVE  Inv' /\ KeepsOutcomes
<1> DEFINE t == [NoFile EXCEPT !.present = TRUE]
<1>0. /\ TypeOK /\ Sound(disk) /\ Backs(disk) /\ disk \in PersistedState /\ ~disk.present
      /\ Saved(t) \/ Unsynced(t)
      /\ activation' \in {activation, [activation EXCEPT ![h] = "inactive"]}
      /\ UNCHANGED <<epoch, instance, permits, witnesses, trail>>
  BY FilesFromInv DEF Inv, FilesOK, Bootstrap
<1>1. /\ t \in PersistedState /\ t.present = TRUE /\ t.generation = 0
      /\ \A k \in Keys : t.idempotency[k] = None
      /\ \A l \in LeaseIds : t.leases[l] = NoLease
  BY NoFileFacts DEF PersistedState
<1> HIDE DEF t
<1>2. /\ disk.generation = 0
      /\ \A l \in LeaseIds : /\ disk.leases[l].grant = None
                             /\ \A o \in Ops : disk.leases[l].uses[o] = NoUse
  BY <1>0 DEF Sound, SoundLease
<1>3. Sound(t)
  <2>1. Begun(NoLease) = {} /\ Live(NoLease) = {}
    BY NoLeaseFacts, UseTypes DEF Begun, Live
  <2>2. Cardinality(Live(NoLease)) <= MaxConcurrent
    BY <2>1, FS_EmptySet DEF LedgerAssumption
  <2>3. \A l \in LeaseIds : SoundLease(t, l)
    BY <1>1, <2>2, NoLeaseFacts DEF SoundLease
  <2> QED
    BY <1>1, <2>3, NoLeaseFacts DEF Sound
<1>4. EndsKept(disk, t)
  BY <1>2, UseTypes DEF EndsKept
<1>5. Backs(t)
  <2>1. \A l \in LeaseIds, o \in Ops : ~(issued[l][o] > 0)
    BY <1>0, <1>2 DEF Backs
  <2>2. answered = {}
    BY <1>0, <1>2 DEF Backs, TypeOK, LedgerAssumption
  <2>3. promised = {}
    <3>1. SUFFICES ASSUME NEW w \in promised PROVE FALSE
      OBVIOUS
    <3>2. w.lease \in LeaseIds /\ w.op \in Ops /\ w.outcome \in Outcome
      BY <1>0 DEF TypeOK, Witness
    <3>3. NoUse \in {Completing(w.outcome), Terminal(w.outcome)}
      BY <1>0, <1>2, <3>2 DEF Backs
    <3> QED
      BY <3>2, <3>3, UseTypes
  <2> QED
    BY <2>1, <2>2, <2>3 DEF Backs
<1>6. FilesOK' /\ KeepsOutcomes /\ disk' = t /\ synced' \in {disk, t}
  BY <1>0, <1>1, <1>3, <1>4, Written
<1>7. Backs(disk)' /\ Backs(synced)'
  BY <1>0, <1>5, <1>6, TrailStays
<1>8. TypeOK'
  BY <1>0, <1>6 DEF TypeOK, FilesOK, trail
<1>9. EpochInv'
  <2>1. disk'.present = TRUE /\ disk'.generation = disk.generation
    BY <1>1, <1>2, <1>6
  <2> QED
    BY <1>0, <2>1 DEF Inv, EpochInv, TypeOK
<1> QED
  BY <1>0, <1>6, <1>7, <1>8, <1>9 DEF Inv, FileInv, FilesOK, OnePermitPerOperation, trail

LEMMA OpenExistingStep ==
  ASSUME LedgerAssumption, Inv, NEW h \in Handles, OpenExisting(h)
  PROVE  Inv' /\ KeepsOutcomes
<1>0. /\ TypeOK /\ Backs(disk) /\ disk.present /\ activation[h] = "closed"
      /\ activation' = [activation EXCEPT ![h] = "inactive"]
      /\ UNCHANGED <<epoch, instance, permits, witnesses, trail>>
  BY FilesFromInv DEF Inv, OpenExisting
<1>1. FilesOK' /\ KeepsOutcomes /\ disk' = disk /\ synced' = disk
  BY ReadKeeps DEF OpenExisting
<1>2. Backs(disk)' /\ Backs(synced)'
  BY <1>0, <1>1, TrailStays
<1>3. TypeOK'
  BY <1>0, <1>1 DEF TypeOK, FilesOK, trail
<1>4. EpochInv'
  BY <1>0, <1>1 DEF Inv, EpochInv, TypeOK
<1> QED
  BY <1>0, <1>1, <1>2, <1>3, <1>4 DEF Inv, FileInv, FilesOK, OnePermitPerOperation, trail

LEMMA CloseStep ==
  ASSUME LedgerAssumption, Inv, NEW h \in Handles, Close(h)
  PROVE  Inv' /\ KeepsOutcomes
<1>0. /\ TypeOK /\ Backs(disk) /\ Backs(synced)
      /\ activation' = [activation EXCEPT ![h] = "closed"]
      /\ epoch' = [epoch EXCEPT ![h] = 0]
      /\ instance' = IF instance = h THEN None ELSE instance
      /\ UNCHANGED <<file, permits, witnesses, trail>>
  BY FilesFromInv DEF Inv, Close, Release
<1>1. FilesOK' /\ KeepsOutcomes /\ disk' = disk /\ synced' = synced
  BY <1>0, FileStays
<1>2. Backs(disk)' /\ Backs(synced)'
  BY <1>0, <1>1, TrailStays
<1>3. TypeOK'
  BY <1>0, <1>1 DEF TypeOK, FilesOK, trail, LedgerAssumption
<1>4. EpochInv'
  BY <1>0, <1>1 DEF Inv, EpochInv, TypeOK, LedgerAssumption
<1> QED
  BY <1>0, <1>1, <1>2, <1>3, <1>4 DEF Inv, FileInv, FilesOK, OnePermitPerOperation, trail

LEMMA LockInstanceStep ==
  ASSUME LedgerAssumption, Inv, NEW h \in Handles, LockInstance(h)
  PROVE  Inv' /\ KeepsOutcomes
<1>0. /\ TypeOK /\ Backs(disk) /\ Backs(synced) /\ activation[h] = "inactive"
      /\ \/ /\ instance = None /\ instance' = h
            /\ activation' = [activation EXCEPT ![h] = "starting"]
         \/ /\ instance' = instance
            /\ activation' = [activation EXCEPT ![h] = "poisoned"]
      /\ UNCHANGED <<file, epoch, permits, witnesses, trail>>
  BY FilesFromInv DEF Inv, LockInstance
<1>1. FilesOK' /\ KeepsOutcomes /\ disk' = disk /\ synced' = synced
  BY <1>0, FileStays
<1>2. Backs(disk)' /\ Backs(synced)'
  BY <1>0, <1>1, TrailStays
<1>3. TypeOK'
  BY <1>0, <1>1 DEF TypeOK, FilesOK, trail
<1>4. EpochInv'
  BY <1>0, <1>1 DEF Inv, EpochInv, TypeOK, LedgerAssumption
<1> QED
  BY <1>0, <1>1, <1>2, <1>3, <1>4 DEF Inv, FileInv, FilesOK, OnePermitPerOperation, trail

\* The restart bumps the generation under the instance lock, so that no other
\* handle is active when it does.
LEMMA StartEpochStep ==
  ASSUME LedgerAssumption, Inv, NEW h \in Handles, StartEpoch(h)
  PROVE  Inv' /\ KeepsOutcomes
<1> DEFINE t == Restarted(disk)
<1>0. /\ TypeOK /\ disk \in PersistedState /\ Backs(disk) /\ Backs(synced)
      /\ activation[h] = "starting" /\ disk.present /\ instance = h
      /\ disk.generation < MaxGeneration
      /\ UNCHANGED <<permits, witnesses, trail>>
  BY FilesFromInv DEF Inv, StartEpoch, EpochInv, FilesOK
<1>1. \A g \in Handles : g # h => activation[g] \notin {"starting", "active"}
  BY <1>0 DEF Inv, EpochInv
<1>2. t \in PersistedState /\ Forward(disk, t) /\ t.generation = disk.generation + 1
      /\ t.present = disk.present
  BY <1>0, RestartedForward, RestartedFacts DEF SameRest
<1> HIDE DEF t
<1>3. CASE Saved(t) \/ Unsynced(t)
  <2>1. FilesOK' /\ KeepsOutcomes /\ disk' = t /\ Backs(disk)' /\ Backs(synced)'
    BY <1>0, <1>2, <1>3, ForwardStep
  <2>2. CASE /\ activation' = [activation EXCEPT ![h] = "active"]
             /\ epoch' = [epoch EXCEPT ![h] = disk.generation + 1]
             /\ UNCHANGED instance
    <3>1. disk.generation + 1 \in 0..MaxGeneration /\ disk.generation + 1 > 0
      BY <1>0, StateFields DEF LedgerAssumption
    <3>2. TypeOK'
      BY <1>0, <2>1, <2>2, <3>1 DEF TypeOK, FilesOK, trail
    <3>3. EpochInv'
      BY <1>0, <1>1, <1>2, <2>1, <2>2, <3>1 DEF Inv, EpochInv, TypeOK
    <3> QED
      BY <1>0, <2>1, <3>2, <3>3 DEF Inv, FileInv, FilesOK, OnePermitPerOperation, trail
  <2>3. CASE /\ activation' = [activation EXCEPT ![h] = "poisoned"]
             /\ instance' = None
             /\ UNCHANGED epoch
    <3>1. TypeOK'
      BY <1>0, <2>1, <2>3 DEF TypeOK, FilesOK, trail
    <3>2. EpochInv'
      BY <1>0, <1>1, <1>2, <2>1, <2>3 DEF Inv, EpochInv, TypeOK
    <3> QED
      BY <1>0, <2>1, <3>1, <3>2 DEF Inv, FileInv, FilesOK, OnePermitPerOperation, trail
  <2> QED
    BY <1>0, <2>2, <2>3 DEF StartEpoch, Release, t
<1>4. CASE /\ UNCHANGED file /\ UNCHANGED epoch
           /\ activation' = [activation EXCEPT ![h] = "poisoned"]
           /\ instance' = None
  <2>1. FilesOK' /\ KeepsOutcomes /\ disk' = disk /\ synced' = synced
    BY <1>4, FileStays
  <2>2. Backs(disk)' /\ Backs(synced)'
    BY <1>0, <2>1, TrailStays
  <2>3. TypeOK'
    BY <1>0, <1>4, <2>1 DEF TypeOK, FilesOK, trail
  <2>4. EpochInv'
    BY <1>0, <1>1, <1>4, <2>1 DEF Inv, EpochInv, TypeOK
  <2> QED
    BY <1>0, <2>1, <2>2, <2>3, <2>4 DEF Inv, FileInv, FilesOK, OnePermitPerOperation, trail
<1> QED
  BY <1>0, <1>3, <1>4 DEF StartEpoch, Release, t

-----------------------------------------------------------------------------
(* Leases and their uses.                                                  *)

\* An active handle has a file of a generation that was started.
LEMMA ActiveFacts ==
  ASSUME Inv, NEW h \in Handles, activation[h] = "active"
  PROVE  /\ TypeOK /\ FilesOK /\ Backs(disk) /\ Backs(synced)
         /\ disk \in PersistedState /\ Sound(disk)
         /\ disk.present /\ disk.generation > 0 /\ disk.generation \in 1..MaxGeneration
<1>1. /\ TypeOK /\ FilesOK /\ Backs(disk) /\ Backs(synced)
      /\ disk \in PersistedState /\ Sound(disk)
      /\ disk.present /\ disk.generation > 0
  BY FilesFromInv DEF Inv, EpochInv, FilesOK
<1> QED
  BY <1>1, StateFields

LEMMA ReserveStep ==
  ASSUME LedgerAssumption, Inv, NEW h \in Handles, NEW key \in Keys, NEW b \in Binding,
         Reserve(h, key, b)
  PROVE  Inv' /\ KeepsOutcomes
<1> DEFINE t == WithLease(disk, key, b)
           pair == <<b.grant, b.lease>>
<1>0. /\ TypeOK /\ Backs(disk) /\ Backs(synced) /\ disk \in PersistedState /\ Sound(disk)
      /\ disk.present
      /\ activation[h] = "active" /\ b.generation = disk.generation
      /\ UNCHANGED <<handles, permits, witnesses, issued, promised>>
      /\ b.lease \in LeaseIds /\ b.grant \in Grants /\ b # None
  BY ActiveFacts DEF Reserve, Binding, LedgerAssumption
<1>1. /\ FilesOK' /\ KeepsOutcomes
      /\ disk'.present = disk.present /\ disk'.generation = disk.generation
      /\ Backs(disk') /\ Backs(synced')
      /\ answered' # answered =>
           /\ answered' = answered \cup {pair}
           /\ disk'.leases[b.lease].grant = b.grant
           /\ synced' = disk'
  <2>1. CASE /\ disk.idempotency[key] = b /\ ReadOnly
             /\ answered' = answered \cup {pair}
    <3>1. FilesOK' /\ KeepsOutcomes /\ disk' = disk /\ synced' = disk
      BY <2>1, ReadKeeps
    <3>2. disk.leases[b.lease].grant = b.grant
      BY <1>0, <2>1 DEF Sound
    <3> QED
      BY <1>0, <2>1, <3>1, <3>2
  <2>2. CASE /\ Unspent(disk, b) /\ disk.leases[b.lease].grant = None
             /\ \/ Saved(t) /\ answered' = answered \cup {pair}
                \/ Unsynced(t) /\ UNCHANGED answered
    <3>1. /\ t \in PersistedState /\ Sound(t) /\ Backs(t) /\ EndsKept(disk, t)
          /\ t.leases[b.lease].grant = b.grant
          /\ t.present = disk.present /\ t.generation = disk.generation
      BY <1>0, <2>2, WithLeaseKeeps
    <3> HIDE DEF t
    <3>2. FilesOK' /\ KeepsOutcomes /\ disk' = t /\ synced' \in {disk, t}
      BY <2>2, <3>1, Written
    <3>3. answered' # answered => answered' = answered \cup {pair} /\ synced' = t
      BY <2>2 DEF Saved
    <3> QED
      BY <1>0, <3>1, <3>2, <3>3
  <2> QED
    BY <2>1, <2>2 DEF Reserve
<1>2. Backs(disk)' /\ Backs(synced)'
  <2>1. \A x \in answered' : /\ disk'.leases[x[2]].grant = x[1]
                             /\ synced'.leases[x[2]].grant = x[1]
    <3> TAKE x \in answered'
    <3>1. CASE x \in answered
      BY <1>1, <3>1 DEF Backs
    <3>2. CASE x \notin answered
      <4>1. x = pair
        BY <1>1, <3>2
      <4> QED
        BY <1>1, <3>2, <4>1
    <3> QED
      BY <3>1, <3>2
  <2> QED
    BY <1>0, <1>1, <2>1 DEF Backs
<1>3. TypeOK'
  <2>1. answered' \subseteq Grants \X LeaseIds
    BY <1>0, <1>1 DEF TypeOK
  <2> QED
    BY <1>0, <1>1, <2>1 DEF TypeOK, FilesOK, handles
<1>4. EpochInv'
  BY <1>0, <1>1 DEF Inv, EpochInv, handles
<1> QED
  BY <1>0, <1>1, <1>2, <1>3, <1>4 DEF Inv, FileInv, FilesOK, OnePermitPerOperation

LEMMA BeginUseStep ==
  ASSUME LedgerAssumption, Inv, NEW h \in Handles, NEW l \in LeaseIds, NEW o \in Ops,
         NEW now, BeginUse(h, l, o, now)
  PROVE  Inv' /\ KeepsOutcomes
<1> DEFINE t == WithUse(disk, l, o)
<1>0. /\ TypeOK /\ Backs(disk) /\ Backs(synced) /\ disk \in PersistedState /\ Sound(disk)
      /\ disk.generation \in 1..MaxGeneration
      /\ UNCHANGED <<handles, witnesses, answered, promised>>
      /\ Usable(disk, l) /\ Capacity(disk.leases[l]) /\ disk.leases[l].uses[o] = NoUse
  BY ActiveFacts DEF BeginUse
<1>1. /\ t \in PersistedState /\ Sound(t) /\ Backs(t) /\ EndsKept(disk, t)
      /\ t.leases[l].uses[o] # NoUse
      /\ t.present = disk.present /\ t.generation = disk.generation
  BY <1>0, WithUseKeeps
<1>2. /\ \/ /\ Saved(t) /\ permits' = permits \cup {PermitOf(disk, l, o)}
            /\ issued' = [issued EXCEPT ![l][o] = @ + 1]
         \/ Unsynced(t) /\ UNCHANGED <<permits, issued>>
  BY DEF BeginUse
<1> HIDE DEF t
<1>3. FilesOK' /\ KeepsOutcomes /\ disk' = t /\ synced' \in {disk, t}
  BY <1>1, <1>2, Written
<1>4. issued[l][o] = 0
  BY <1>0 DEF Backs, TypeOK
<1>5. CASE UNCHANGED <<permits, issued>>
  <2>1. UNCHANGED <<handles, permits, witnesses, trail>>
    BY <1>0, <1>5 DEF trail
  <2>2. Backs(disk)' /\ Backs(synced)'
    BY <1>0, <1>1, <1>3, <2>1, TrailStays
  <2>3. disk'.present = disk.present /\ disk'.generation = disk.generation
    BY <1>1, <1>3
  <2> QED
    BY <1>3, <2>1, <2>2, <2>3, QuietStep
<1>6. CASE /\ Saved(t) /\ permits' = permits \cup {PermitOf(disk, l, o)}
           /\ issued' = [issued EXCEPT ![l][o] = @ + 1]
  <2>0. synced' = t
    BY <1>6 DEF Saved
  <2>1. issued \in [LeaseIds -> [Ops -> Nat]]
    BY <1>0 DEF TypeOK
  <2>2. /\ issued' \in [LeaseIds -> [Ops -> Nat]]
        /\ issued'[l][o] = 1
        /\ \A m \in LeaseIds, p \in Ops : m # l \/ p # o => issued'[m][p] = issued[m][p]
    BY <1>4, <1>6, <2>1
  <2>3. PermitOf(disk, l, o) \in Permit
    BY <1>0 DEF PermitOf, Permit
  <2>4. TypeOK'
    BY <1>0, <1>3, <1>6, <2>2, <2>3 DEF TypeOK, FilesOK, handles
  <2>5. Backs(disk)' /\ Backs(synced)'
    <3>1. \A m \in LeaseIds, p \in Ops : issued'[m][p] > 0 => t.leases[m].uses[p] # NoUse
      BY <1>1, <2>2 DEF Backs
    <3> QED
      BY <1>0, <1>1, <1>3, <2>0, <3>1 DEF Backs
  <2>6. OnePermitPerOperation'
    BY <2>2 DEF Inv, OnePermitPerOperation
  <2>7. EpochInv'
    BY <1>0, <1>1, <1>3 DEF Inv, EpochInv, handles
  <2> QED
    BY <1>3, <2>4, <2>5, <2>6, <2>7 DEF Inv, FileInv, FilesOK
<1> QED
  BY <1>2, <1>5, <1>6

-----------------------------------------------------------------------------
(* The two-phase end of a use.                                             *)

LEMMA WitnessType ==
  ASSUME LedgerAssumption, NEW s \in PersistedState, Sound(s), NEW l \in LeaseIds, NEW o \in Ops,
         NEW out \in Outcome, s.leases[l].uses[o] # NoUse
  PROVE  LET w == WitnessFor(s, l, o, out)
         IN  w \in Witness /\ w.lease = l /\ w.op = o /\ w.outcome = out
<1>1. s.leases[l].generation \in 1..MaxGeneration
  <2>1. s.leases[l].generation \in 1..s.generation
    BY DEF Sound, SoundLease
  <2> QED
    BY <2>1, StateFields DEF LedgerAssumption
<1> QED
  BY <1>1 DEF WitnessFor, Witness

\* A step that gives out a witness and leaves the handles alone.
LEMMA GiveStep ==
  ASSUME LedgerAssumption, Inv, FilesOK', KeepsOutcomes, NEW w \in Witness, Give(w),
         UNCHANGED <<handles, permits, issued, answered>>,
         disk'.present = disk.present, disk'.generation = disk.generation,
         synced' = disk', Backs(disk'),
         disk'.leases[w.lease].uses[w.op] = Completing(w.outcome)
  PROVE  Inv'
<1>1. w.lease \in LeaseIds /\ w.op \in Ops /\ w.outcome \in Outcome
  BY DEF Witness
<1>2. TypeOK /\ disk' \in PersistedState /\ Sound(disk')
  BY DEF Inv, FilesOK
<1>3. Backs(disk)' /\ Backs(synced)'
  <2> DEFINE t == disk'
  <2>1. /\ t \in PersistedState /\ Sound(t) /\ Backs(t)
        /\ t.leases[w.lease].uses[w.op] = Completing(w.outcome)
        /\ disk' = t /\ synced' = t
    BY <1>2
  <2>2. \A x \in promised' :
          t.leases[x.lease].uses[x.op] \in {Completing(x.outcome), Terminal(x.outcome)}
    BY <2>1 DEF Backs, Give
  <2> QED
    BY <2>1, <2>2 DEF Backs
<1>4. TypeOK'
  BY <1>2 DEF TypeOK, FilesOK, handles, Give
<1>5. EpochInv'
  BY DEF Inv, EpochInv, handles
<1> QED
  BY <1>3, <1>4, <1>5 DEF Inv, FileInv, FilesOK, OnePermitPerOperation

LEMMA BeginCompletionStep ==
  ASSUME LedgerAssumption, Inv, NEW h \in Handles, NEW p \in permits, NEW out \in CallerOutcome,
         BeginCompletion(h, p, out)
  PROVE  Inv' /\ KeepsOutcomes
<1> DEFINE use == disk.leases[p.lease].uses[p.op]
           w == WitnessFor(disk, p.lease, p.op, out)
           t == WithState(disk, p.lease, p.op, Completing(out))
<1>0. /\ TypeOK /\ Backs(disk) /\ Backs(synced) /\ disk \in PersistedState /\ Sound(disk)
      /\ p.lease \in LeaseIds /\ p.op \in Ops /\ out \in Outcome
      /\ UNCHANGED <<handles, permits, issued, answered>>
  <2>1. /\ TypeOK /\ Backs(disk) /\ Backs(synced) /\ disk \in PersistedState /\ Sound(disk)
        /\ UNCHANGED <<handles, permits, issued, answered>>
    BY ActiveFacts DEF BeginCompletion
  <2>2. p.lease \in LeaseIds /\ p.op \in Ops
    BY <2>1 DEF TypeOK, Permit
  <2> QED
    BY <2>1, <2>2, OutcomeTypes
<1>1. /\ \/ use = ActiveUse /\ Saved(t) /\ Give(w)
         \/ use = ActiveUse /\ Unsynced(t) /\ UNCHANGED <<witnesses, promised>>
         \/ use = Completing(out) /\ ReadOnly /\ Give(w)
         \/ use = Terminal(out) /\ ReadOnly /\ UNCHANGED <<witnesses, promised>>
  BY DEF BeginCompletion
<1>2. use = ActiveUse =>
        /\ t \in PersistedState /\ Forward(disk, t)
        /\ t.present = disk.present /\ t.generation = disk.generation
        /\ t.leases[p.lease].uses[p.op] = Completing(out)
  <2> SUFFICES ASSUME use = ActiveUse
               PROVE  /\ t \in PersistedState /\ Forward(disk, t)
                      /\ t.present = disk.present /\ t.generation = disk.generation
                      /\ t.leases[p.lease].uses[p.op] = Completing(out)
    OBVIOUS
  <2>1. Completing(out) \in Use /\ UseMoves(use, Completing(out))
    BY <1>0, UseTypes DEF UseMoves
  <2>2. /\ t \in PersistedState /\ SameRest(disk, t) /\ t.generation = disk.generation
        /\ t.leases[p.lease].uses = [disk.leases[p.lease].uses EXCEPT ![p.op] = Completing(out)]
    BY <1>0, <2>1, WithStateFacts
  <2>3. Forward(disk, t)
    BY <1>0, <2>1, WithStateForward
  <2> HIDE DEF t
  <2> QED
    BY <1>0, <2>2, <2>3, LeaseFields DEF SameRest
<1>3. use # NoUse =>
        w \in Witness /\ w.lease = p.lease /\ w.op = p.op /\ w.outcome = out
  BY <1>0, WitnessType
<1>4. ActiveUse # NoUse /\ Completing(out) # NoUse
  BY <1>0, UseTypes
<1> HIDE DEF t, w
<1>5. CASE use = ActiveUse /\ Saved(t) /\ Give(w)
  <2>1. FilesOK' /\ KeepsOutcomes /\ disk' = t /\ Backs(t) /\ synced' = t
    BY <1>2, <1>5, ForwardStep DEF Saved
  <2> QED
    BY <1>0, <1>2, <1>3, <1>4, <1>5, <2>1, GiveStep
<1>6. CASE use = ActiveUse /\ Unsynced(t) /\ UNCHANGED <<witnesses, promised>>
  <2>1. UNCHANGED <<handles, permits, witnesses, trail>>
    BY <1>0, <1>6 DEF trail
  <2>2. FilesOK' /\ KeepsOutcomes /\ disk' = t /\ Backs(disk)' /\ Backs(synced)'
    BY <1>2, <1>6, <2>1, ForwardStep
  <2> QED
    BY <1>2, <1>6, <2>1, <2>2, QuietStep
<1>7. CASE use = Completing(out) /\ ReadOnly /\ Give(w)
  <2>1. FilesOK' /\ KeepsOutcomes /\ disk' = disk /\ synced' = disk
    BY <1>7, ReadKeeps
  <2> QED
    BY <1>0, <1>3, <1>4, <1>7, <2>1, GiveStep
<1>8. CASE ReadOnly /\ UNCHANGED <<witnesses, promised>>
  <2>1. FilesOK' /\ KeepsOutcomes /\ disk' = disk /\ synced' = disk
    BY <1>8, ReadKeeps
  <2>2. UNCHANGED <<handles, permits, witnesses, trail>>
    BY <1>0, <1>8 DEF trail
  <2>3. Backs(disk)' /\ Backs(synced)'
    BY <1>0, <2>1, <2>2, TrailStays
  <2> QED
    BY <2>1, <2>2, <2>3, QuietStep
<1> QED
  BY <1>1, <1>5, <1>6, <1>7, <1>8

LEMMA ResumeCompletionStep ==
  ASSUME LedgerAssumption, Inv, NEW h \in Handles, NEW l \in LeaseIds, NEW o \in Ops,
         NEW out \in CallerOutcome, ResumeCompletion(h, l, o, out)
  PROVE  Inv' /\ KeepsOutcomes
<1> DEFINE w == WitnessFor(disk, l, o, out)
<1>0. /\ TypeOK /\ Backs(disk) /\ Backs(synced) /\ disk \in PersistedState /\ Sound(disk)
      /\ out \in Outcome
      /\ UNCHANGED <<handles, permits, issued, answered>>
  BY ActiveFacts, OutcomeTypes DEF ResumeCompletion
<1>1. FilesOK' /\ KeepsOutcomes /\ disk' = disk /\ synced' = disk
  BY ReadKeeps DEF ResumeCompletion
<1>2. CASE disk.leases[l].uses[o] = Completing(out) /\ Give(w)
  <2>1. w \in Witness /\ w.lease = l /\ w.op = o /\ w.outcome = out
    BY <1>0, <1>2, WitnessType, UseTypes
  <2> HIDE DEF w
  <2> QED
    BY <1>0, <1>1, <1>2, <2>1, GiveStep
<1>3. CASE UNCHANGED <<witnesses, promised>>
  <2>1. UNCHANGED <<handles, permits, witnesses, trail>>
    BY <1>0, <1>3 DEF trail
  <2>2. Backs(disk)' /\ Backs(synced)'
    BY <1>0, <1>1, <2>1, TrailStays
  <2> QED
    BY <1>1, <2>1, <2>2, QuietStep
<1> QED
  BY <1>2, <1>3 DEF ResumeCompletion

LEMMA CommitCompletionStep ==
  ASSUME LedgerAssumption, Inv, NEW h \in Handles, NEW w \in witnesses, CommitCompletion(h, w)
  PROVE  Inv' /\ KeepsOutcomes
<1> DEFINE t == WithState(disk, w.lease, w.op, Terminal(w.outcome))
           use == disk.leases[w.lease].uses[w.op]
<1>0. /\ TypeOK /\ Backs(disk) /\ Backs(synced) /\ disk \in PersistedState /\ Sound(disk)
      /\ w.lease \in LeaseIds /\ w.op \in Ops /\ w.outcome \in Outcome
      /\ UNCHANGED <<handles, permits, witnesses, trail>>
  <2>1. /\ TypeOK /\ Backs(disk) /\ Backs(synced) /\ disk \in PersistedState /\ Sound(disk)
        /\ UNCHANGED <<handles, permits, witnesses, trail>>
    BY ActiveFacts DEF CommitCompletion
  <2>2. w.lease \in LeaseIds /\ w.op \in Ops /\ w.outcome \in Outcome
    BY <2>1 DEF TypeOK, Witness
  <2> QED
    BY <2>1, <2>2
<1>1. CASE use = Completing(w.outcome) /\ (Saved(t) \/ Unsynced(t))
  <2>1. Terminal(w.outcome) \in Use /\ UseMoves(use, Terminal(w.outcome))
    BY <1>0, <1>1, UseTypes DEF UseMoves
  <2>2. /\ t \in PersistedState /\ SameRest(disk, t) /\ t.generation = disk.generation
        /\ t.leases[w.lease].uses = [disk.leases[w.lease].uses EXCEPT ![w.op] = Terminal(w.outcome)]
    BY <1>0, <2>1, WithStateFacts
  <2>3. Forward(disk, t)
    BY <1>0, <2>1, WithStateForward
  <2> HIDE DEF t
  <2>4. FilesOK' /\ KeepsOutcomes /\ disk' = t /\ Backs(disk)' /\ Backs(synced)'
    BY <1>0, <1>1, <2>2, <2>3, ForwardStep
  <2> QED
    BY <1>0, <2>2, <2>4, QuietStep DEF SameRest
<1>2. CASE ReadOnly
  <2>1. FilesOK' /\ KeepsOutcomes /\ disk' = disk /\ synced' = disk
    BY <1>2, ReadKeeps
  <2>2. Backs(disk)' /\ Backs(synced)'
    BY <1>0, <2>1, TrailStays
  <2> QED
    BY <1>0, <2>1, <2>2, QuietStep
<1> QED
  BY <1>1, <1>2 DEF CommitCompletion

LEMMA RevokeStep ==
  ASSUME LedgerAssumption, Inv, NEW h \in Handles, NEW l \in LeaseIds, Revoke(h, l)
  PROVE  Inv' /\ KeepsOutcomes
<1> DEFINE t == RevokedState(disk, l)
<1>0. /\ disk \in PersistedState
      /\ UNCHANGED <<handles, permits, witnesses, trail>>
      /\ Saved(t) \/ Unsynced(t)
  BY ActiveFacts DEF Revoke
<1>1. t \in PersistedState /\ SameRest(disk, t) /\ t.generation = disk.generation
  BY <1>0, RevokedFacts
<1>2. Forward(disk, t)
  BY <1>0, RevokedForward
<1> HIDE DEF t
<1>3. FilesOK' /\ KeepsOutcomes /\ disk' = t /\ Backs(disk)' /\ Backs(synced)'
  BY <1>0, <1>1, <1>2, ForwardStep
<1> QED
  BY <1>0, <1>1, <1>3, QuietStep DEF SameRest

\* The power fails: the file may go back to its last sync, which backs
\* everything that was ever told.
LEMMA LosePowerStep ==
  ASSUME LedgerAssumption, Inv, LosePower
  PROVE  Inv' /\ KeepsOutcomes
<1>0. TypeOK /\ FilesOK /\ Backs(disk) /\ Backs(synced)
  BY FilesFromInv DEF Inv
<1>1. disk' \in {disk, synced} /\ synced' = disk'
  BY DEF LosePower
<1>2. EndsKept(synced, synced') /\ EndsKept(synced', disk')
  BY <1>0, <1>1, EndsKeptReflexive DEF FilesOK, NeverBehind
<1>3. FilesOK' /\ KeepsOutcomes
  BY <1>0, <1>1, <1>2 DEF FilesOK, KeepsOutcomes, NeverBehind, EndsKept
<1>4. Backs(disk)' /\ Backs(synced)'
  BY <1>0, <1>1, TrailStays DEF LosePower
<1>5. TypeOK'
  BY <1>0, <1>3 DEF TypeOK, FilesOK, LosePower, trail, LedgerAssumption
<1>6. EpochInv'
  BY DEF EpochInv, LosePower
<1> QED
  BY <1>3, <1>4, <1>5, <1>6 DEF Inv, FileInv, FilesOK, OnePermitPerOperation, LosePower, trail

-----------------------------------------------------------------------------
(* The theorems.                                                           *)

LEMMA InitInv ==
  ASSUME LedgerAssumption, Init
  PROVE  Inv
<1>0. disk = NoFile /\ synced = NoFile
  BY DEF Init
<1>1. TypeOK
  <2>1. /\ activation \in
             [Handles -> {"closed", "inactive", "starting", "poisoned", "active"}]
        /\ epoch \in [Handles -> 0..MaxGeneration] /\ instance \in Handles \cup {None}
        /\ issued \in [LeaseIds -> [Ops -> Nat]]
    BY DEF Init, LedgerAssumption
  <2> QED
    BY <1>0, <2>1, NoFileFacts DEF Init, TypeOK
<1>2. Sound(NoFile)
  <2>1. Begun(NoLease) = {} /\ Live(NoLease) = {}
    BY NoLeaseFacts, UseTypes DEF Begun, Live
  <2>2. Cardinality(Live(NoLease)) <= MaxConcurrent
    BY <2>1, FS_EmptySet DEF LedgerAssumption
  <2>3. \A l \in LeaseIds : SoundLease(NoFile, l)
    BY <2>2, NoLeaseFacts, NoFileFacts DEF SoundLease
  <2> QED
    BY <2>3, NoLeaseFacts, NoFileFacts DEF Sound
<1>3. Backs(NoFile)
  BY DEF Backs, Init
<1>4. Fits(NoFile)
  BY NoLeaseFacts, NoFileFacts, EmptyFits
<1>5. FileInv
  BY <1>0, <1>2, <1>3, <1>4, EndsKeptReflexive DEF FileInv, NeverBehind
<1>6. EpochInv /\ OnePermitPerOperation
  BY DEF Init, EpochInv, OnePermitPerOperation
<1> QED
  BY <1>1, <1>5, <1>6 DEF Inv

LEMMA NextStep ==
  ASSUME LedgerAssumption, Inv, [Next]_vars
  PROVE  Inv' /\ KeepsOutcomes
<1>1. CASE UNCHANGED vars
  <2>1. UNCHANGED file /\ UNCHANGED <<handles, permits, witnesses, trail>>
    BY <1>1 DEF vars, file, handles, trail
  <2>2. FilesOK' /\ KeepsOutcomes /\ disk' = disk /\ synced' = synced
    BY <2>1, FileStays
  <2>3. Backs(disk)' /\ Backs(synced)'
    BY <2>1, <2>2, FilesFromInv, TrailStays
  <2> QED
    BY <2>1, <2>2, <2>3, QuietStep
<1>2. CASE LosePower
  BY <1>2, LosePowerStep
<1>3. ASSUME NEW h \in Handles,
             \/ Bootstrap(h) \/ OpenExisting(h) \/ Close(h) \/ LockInstance(h) \/ StartEpoch(h)
      PROVE  Inv' /\ KeepsOutcomes
  BY <1>3, BootstrapStep, OpenExistingStep, CloseStep, LockInstanceStep, StartEpochStep
<1>4. ASSUME NEW h \in Handles, NEW key \in Keys, NEW b \in Binding, Reserve(h, key, b)
      PROVE  Inv' /\ KeepsOutcomes
  BY <1>4, ReserveStep
<1>5. ASSUME NEW h \in Handles, NEW l \in LeaseIds, NEW o \in Ops, NEW now \in 0..MaxTime,
             BeginUse(h, l, o, now)
      PROVE  Inv' /\ KeepsOutcomes
  BY <1>5, BeginUseStep
<1>6. ASSUME NEW h \in Handles, NEW p \in permits, NEW out \in CallerOutcome,
             BeginCompletion(h, p, out)
      PROVE  Inv' /\ KeepsOutcomes
  BY <1>6, BeginCompletionStep
<1>7. ASSUME NEW h \in Handles, NEW l \in LeaseIds, NEW o \in Ops, NEW out \in CallerOutcome,
             ResumeCompletion(h, l, o, out)
      PROVE  Inv' /\ KeepsOutcomes
  BY <1>7, ResumeCompletionStep
<1>8. ASSUME NEW h \in Handles, NEW w \in witnesses, CommitCompletion(h, w)
      PROVE  Inv' /\ KeepsOutcomes
  BY <1>8, CommitCompletionStep
<1>9. ASSUME NEW h \in Handles, NEW l \in LeaseIds, Revoke(h, l)
      PROVE  Inv' /\ KeepsOutcomes
  BY <1>9, RevokeStep
<1> QED
  BY <1>1, <1>2, <1>3, <1>4, <1>5, <1>6, <1>7, <1>8, <1>9 DEF Next

\* What the invariant says of the permits, the leases and their status.
LEMMA InvCapacity ==
  ASSUME LedgerAssumption, Inv
  PROVE  PermitsWithinCapacity
<1>1. SUFFICES ASSUME NEW l \in LeaseIds
               PROVE  LET given == {o \in Ops : issued[l][o] > 0}
                      IN /\ Cardinality(given) <= MaxUses
                         /\ Cardinality(given \cap Live(disk.leases[l])) <= MaxConcurrent
  BY DEF PermitsWithinCapacity
<1> DEFINE given == {o \in Ops : issued[l][o] > 0}
           lease == disk.leases[l]
<1>2. Sound(disk) /\ Backs(disk) /\ disk \in PersistedState
  BY FilesFromInv DEF FilesOK
<1>3. SoundLease(disk, l)
  BY <1>2 DEF Sound
<1>4. given \subseteq Begun(lease) /\ given \subseteq Ops
  BY <1>2 DEF Backs, Begun
<1>5. IsFiniteSet(given) /\ Cardinality(given) <= Cardinality(Begun(lease))
  BY <1>4, OpsFinite, FS_Subset
<1>6. Cardinality(Begun(lease)) <= MaxUses
  <2>1. CASE lease.grant = None
    <3>1. Begun(lease) = {}
      BY <1>3, <2>1 DEF SoundLease, Begun
    <3> QED
      BY <3>1, FS_EmptySet DEF LedgerAssumption
  <2>2. CASE lease.grant # None
    <3>1. Cardinality(Begun(lease)) + lease.remaining = MaxUses /\ lease.remaining \in 0..MaxUses
      BY <1>2, <1>3, <2>2, LeaseFields DEF SoundLease
    <3> QED
      BY <3>1, OpsFinite DEF LedgerAssumption
  <2> QED
    BY <2>1, <2>2
<1>7. Cardinality(given \cap Live(lease)) <= MaxConcurrent
  <2>1. Cardinality(given \cap Live(lease)) <= Cardinality(Live(lease))
    BY OpsFinite, FS_Subset
  <2>2. Cardinality(Live(lease)) <= MaxConcurrent
    BY <1>3 DEF SoundLease
  <2>3. Cardinality(given \cap Live(lease)) \in Nat
    BY <1>5, FS_Subset, FS_CardinalityType
  <2> QED
    BY <2>1, <2>2, <2>3, OpsFinite DEF LedgerAssumption
<1>8. Cardinality(given) \in Nat
  BY <1>5, FS_CardinalityType
<1> QED
  BY <1>5, <1>6, <1>7, <1>8, OpsFinite DEF LedgerAssumption

LEMMA InvStatus ==
  ASSUME LedgerAssumption, Inv
  PROVE  OldLeasesAreDead /\ StatusIsTrue
<1>1. Sound(disk) /\ disk \in PersistedState
  BY FilesFromInv DEF FilesOK
<1>2. \A l \in Reserved(disk) :
        /\ l \in LeaseIds
        /\ disk.leases[l].grant # None
        /\ disk.leases[l].generation \in 1..disk.generation
        /\ disk.leases[l].generation # disk.generation =>
             disk.leases[l].revoked /\ \A o \in Ops : disk.leases[l].uses[o] # ActiveUse
  BY <1>1 DEF Sound, SoundLease, Reserved
<1>3. OldLeasesAreDead
  BY <1>2 DEF OldLeasesAreDead
<1>4. ASSUME NEW l \in Reserved(disk), NEW now \in 0..MaxTime
      PROVE  LET lease == disk.leases[l]
                 letIn == /\ Usable(disk, l)
                          /\ NotBefore <= now /\ now < ExpiresAt
                          /\ lease.remaining > 0
             IN /\ Status(disk, l, now) # "inconsistent"
                /\ Status(disk, l, now) = "current" <=> letIn
  <2>1. /\ disk.leases[l].remaining \in Nat /\ disk.leases[l].generation \in Int
        /\ disk.generation \in Int /\ now \in Int /\ NotBefore \in Int /\ ExpiresAt \in Int
    BY <1>1, <1>2, LeaseFields, StateFields DEF LedgerAssumption
  <2>2. ~(disk.leases[l].generation > disk.generation) /\ disk.leases[l].grant # None
    BY <1>2, <2>1
  <2> QED
    BY <2>1, <2>2 DEF Status, Usable
<1> QED
  BY <1>3, <1>4 DEF StatusIsTrue

\* The inductive invariant of the ledger.
THEOREM LedgerInv ==
  ASSUME LedgerAssumption
  PROVE  Spec => []Inv
<1>1. Init => Inv
  BY InitInv
<1>2. Inv /\ [Next]_vars => Inv'
  BY NextStep
<1> QED
  BY <1>1, <1>2, PTL DEF Spec

\* DurableReplayStore, whatever crashes, is lost or comes late: one permit for
\* an operation, within the capacity of its lease; one lease for a grant; a
\* witness is kept on both sides of a loss of power; only the broker of the
\* newest generation is active; what older ones left is dead and shown so; and
\* the restart always fits the size limit.
THEOREM LedgerSafety ==
  ASSUME LedgerAssumption
  PROVE  Spec => []LedgerSafe
<1>1. ASSUME Inv PROVE LedgerSafe
  <2>1. FilesOK /\ Backs(disk) /\ Backs(synced)
    BY <1>1, FilesFromInv
  <2>2. WitnessStands
    BY <2>1 DEF Backs, WitnessStands
  <2>3. OneLeasePerGrant
    <3>1. \A x \in answered : x[1] \in Grants /\ x[2] \in LeaseIds
      BY <1>1 DEF Inv, TypeOK
    <3> QED
      BY <2>1, <3>1 DEF Backs, OneLeasePerGrant, FilesOK, Sound, LedgerAssumption
  <2>4. EpochIsCurrent
    BY <1>1 DEF Inv, EpochInv, EpochIsCurrent
  <2>5. RestartFits
    BY <2>1, RestartedFits DEF FilesOK, RestartFits
  <2> QED
    BY <1>1, <2>2, <2>3, <2>4, <2>5, InvCapacity, InvStatus DEF Inv, LedgerSafe
<1> QED
  BY <1>1, LedgerInv, PTL

\* An end of a use that is durable stays what it is: no late permit or witness,
\* revocation, restart or loss of power changes it.
THEOREM LedgerOutcomes ==
  ASSUME LedgerAssumption
  PROVE  Spec => OutcomeIsFinal
<1>1. Inv /\ [Next]_vars => KeepsOutcomes
  BY NextStep
<1> QED
  BY <1>1, LedgerInv, PTL DEF Spec, OutcomeIsFinal
===============================================================================
