---------------------------- MODULE EvidenceStore ----------------------------
(***************************************************************************)
(* The evidence log and receipts of one session in phantom-evidence.  Every *)
(* call takes the store's lock, decodes and replays the whole log, and      *)
(* appends at most one record or writes one receipt.  Calls come from any   *)
(* number of processes; a record's write can be cut short, and a write that *)
(* took effect can be reported as failed.                                   *)
(*                                                                          *)
(* MACs are taken to hold: a record is what some call wrote.  The identity  *)
(* and the digest of a grant, a lease or a receipt are one value each, and  *)
(* request_bytes and response_bytes are one counter.                        *)
(***************************************************************************)
EXTENDS Integers, FiniteSets, SequencesExt

CONSTANTS
    Grants, Leases,     \* identities of grants and leases
    Signers,            \* installations that assert receipts
    Uses,               \* <<attempted, forwarded, denied, bytes>> of an aggregate
    MaxU64,             \* the largest value of a counter
    MaxRecords,         \* MAX_RECORDS
    MaxClock            \* bound: the largest reading of the clock

\* What the constants have to satisfy.
EvidenceAssumption ==
    /\ Uses \subseteq Nat \X Nat \X Nat \X Nat
    /\ MaxU64 \in Nat /\ MaxRecords \in Nat /\ MaxClock \in Nat

Unsigned == "unsigned"

NoReceipt == [outcome |-> "none"]

Nothing == "none"

WorkerResults == {"Succeeded", "Failed", "TimedOut", "Revoked"}

RollbackResults == {"Applied", "Failed", "NotRequired"}

Outcomes == {"Succeeded", "Denied", "Failed", "TimedOut", "Revoked", "RolledBack"}

\* EvidenceEvent, with the digests that validate_next looks at.
Events ==
    {[kind |-> "SessionStarted"]}
    \cup {[kind |-> "AuthorityDecision", grant |-> g] : g \in Grants \cup {Nothing}}
    \cup {[kind |-> "LeaseBound", grant |-> g, lease |-> l] : g \in Grants, l \in Leases}
    \cup {[kind |-> "ProxyUseAggregate", lease |-> l, use |-> u] : l \in Leases, u \in Uses}
    \cup {[kind |-> "WorkerCompleted", result |-> r, digest |-> d] : r \in WorkerResults, d \in BOOLEAN}
    \cup {[kind |-> "RollbackCompleted", result |-> r, digest |-> d] : r \in RollbackResults, d \in BOOLEAN}
    \cup {[kind |-> "FinalOutcome", outcome |-> o] : o \in Outcomes}

VARIABLES
    records,    \* the whole records of the log: event and time
    torn,       \* whether the log ends in a record that was cut short
    receipts,   \* the stored receipt of each signer and the unsigned one
    clock       \* what unix_millis reads next

vars == <<records, torn, receipts, clock>>

-----------------------------------------------------------------------------
(* ReplayState.                                                              *)

ReplayDefault ==
    [ok |-> TRUE, last |-> 0, started |-> FALSE, decided |-> FALSE, grant |-> Nothing,
     lease |-> Nothing, used |-> <<0, 0, 0, 0>>, worker |-> Nothing, rollback |-> Nothing, final |-> Nothing]

\* can_finalize.
CanFinalize(s, outcome) ==
    /\ s.decided
    /\ CASE outcome = "Denied"     -> s.grant = Nothing
         [] outcome = "Succeeded"  -> s.worker = "Succeeded" /\ s.rollback = "NotRequired"
         [] outcome = "TimedOut"   -> s.rollback # Nothing /\ s.worker = "TimedOut"
         [] outcome = "Revoked"    -> s.rollback # Nothing /\ s.worker = "Revoked"
         [] outcome = "RolledBack" -> s.rollback = "Applied"
         [] outcome = "Failed"     -> s.rollback # Nothing /\
                                      (s.worker = "Failed" \/ s.rollback = "Failed")

\* validate_next.
Admissible(s, e, time) ==
    /\ s.final = Nothing
    /\ time >= s.last
    /\ CASE e.kind = "SessionStarted"    -> ~s.started
         [] e.kind = "AuthorityDecision" -> s.started /\ ~s.decided
         [] e.kind = "LeaseBound" ->
                s.grant # Nothing /\ s.lease = Nothing /\ s.grant = e.grant
         [] e.kind = "ProxyUseAggregate" ->
                /\ s.lease = e.lease
                /\ s.worker = Nothing
                /\ e.use[2] + e.use[3] <= e.use[1]
         [] e.kind = "WorkerCompleted" ->
                s.lease # Nothing /\ s.worker = Nothing /\ e.digest
         [] e.kind = "RollbackCompleted" ->
                /\ s.worker # Nothing
                /\ s.rollback = Nothing
                /\ e.digest = (e.result # "NotRequired")
         [] e.kind = "FinalOutcome" -> CanFinalize(s, e.outcome)

\* checked_add on each counter.
Added(u, v) == [i \in 1..4 |-> u[i] + v[i]]

\* apply: validate_next again, and then the summary; ok turns FALSE for good
\* where the code returns an error.
ApplyEvent(s, r) ==
    LET e == r.event
        next == [s EXCEPT !.last = r.time]
    IN  IF ~s.ok \/ ~Admissible(s, e, r.time) THEN [s EXCEPT !.ok = FALSE] ELSE
        CASE e.kind = "SessionStarted"    -> [next EXCEPT !.started = TRUE]
          [] e.kind = "AuthorityDecision" -> [next EXCEPT !.decided = TRUE, !.grant = e.grant]
          [] e.kind = "LeaseBound"        -> [next EXCEPT !.lease = e.lease]
          [] e.kind = "ProxyUseAggregate" ->
                [next EXCEPT !.used = Added(@, e.use),
                             !.ok = \A i \in 1..4 : Added(s.used, e.use)[i] <= MaxU64]
          [] e.kind = "WorkerCompleted"   -> [next EXCEPT !.worker = e.result]
          [] e.kind = "RollbackCompleted" -> [next EXCEPT !.rollback = e.result]
          [] e.kind = "FinalOutcome"      -> [next EXCEPT !.final = e.outcome]

Replay == FoldLeft(ApplyEvent, ReplayDefault, records)

\* decode_records: the log ends in a newline and replays.
Decodes == ~torn /\ Replay.ok

-----------------------------------------------------------------------------
(* The operations.                                                           *)

Init ==
    /\ records = <<>>
    /\ torn = FALSE
    /\ receipts = [s \in Signers \cup {Unsigned} |-> NoReceipt]
    /\ clock = 0

\* Mutant: an event is only checked when the log is replayed.
AppendNewBlind(s, e) ==
    /\ Len(records) < MaxRecords
    /\ records' = Append(records, [event |-> e, time |-> clock])
    /\ UNCHANGED <<torn, receipts, clock>>

\* append_new_locked: only validate_next stands between an event and the log.
AppendNew(s, e) ==
    /\ Admissible(s, e, clock)
    /\ Len(records) < MaxRecords
    /\ \/ /\ records' = Append(records, [event |-> e, time |-> clock])
          /\ UNCHANGED torn
       \/ torn' = TRUE /\ UNCHANGED records
    /\ UNCHANGED <<receipts, clock>>

\* append, and append_once at the end of the log.  At an earlier sequence
\* append_once answers Existing or IdempotencyConflict and changes nothing.
AppendEvent ==
    /\ ~torn
    /\ \E s \in {Replay} : s.ok /\ \E e \in Events : AppendNew(s, e)

\* rebuild_unsigned_receipt_locked.
Rebuilt ==
    LET s == Replay IN
    [outcome |-> s.final, count |-> Len(records), used |-> s.used,
     grant |-> s.grant, lease |-> s.lease, trust |-> Unsigned]

\* receipt with NoVerifiedSigner: rebuilt and written over the earlier one.
UnsignedReceipt ==
    /\ Decodes
    /\ Replay.final # Nothing
    /\ receipts' = [receipts EXCEPT ![Unsigned] = Rebuilt]
    /\ UNCHANGED <<records, torn, clock>>

\* receipt with CallerAsserted: an existing assertion is returned as it is,
\* otherwise the signer's signature, which may differ every time, is stored.
AssertedReceipt(s, signature) ==
    /\ Decodes
    /\ Replay.final # Nothing
    /\ receipts[s] = NoReceipt
    /\ receipts' = [receipts EXCEPT ![s] = [Rebuilt EXCEPT !.trust = signature]]
    /\ UNCHANGED <<records, torn, clock>>

\* The wall clock moves, in either direction.
SetClock(t) ==
    /\ clock' = t
    /\ UNCHANGED <<records, torn, receipts>>

Signatures == {"signature1", "signature2"}

Next ==
    \/ AppendEvent
    \/ UnsignedReceipt
    \/ \E s \in Signers, g \in Signatures : AssertedReceipt(s, g)
    \/ \E t \in 0..MaxClock : SetClock(t)

Spec == Init /\ [][Next]_vars

-----------------------------------------------------------------------------
(* Properties.                                                               *)

\* The type invariant of the log and of the stored receipts.
TypeOK ==
    /\ records \in Seq([event : Events, time : Nat])
    /\ Len(records) <= MaxRecords
    /\ torn \in BOOLEAN
    /\ \A s \in Signers \cup {Unsigned} : receipts[s] = NoReceipt \/
          receipts[s] \in [outcome : Outcomes, count : Nat, used : [1..4 -> Nat],
                           grant : Grants \cup {Nothing}, lease : Leases \cup {Nothing},
                           trust : Signatures \cup {Unsigned}]
    /\ clock \in Nat

EventsOf(kind) == {i \in 1..Len(records) : records[i].event.kind = kind}

\* append_once's comment: "Retrying the same event at the same sequence returns
\* Existing".  So a log that is not torn can be decoded again, whatever was
\* accepted into it.
AcceptedStaysReadable == ~torn => Replay.ok

\* can_finalize against the records themselves: a receipt's outcome is borne
\* out by events of its log, in an order that makes sense, and its totals are
\* those of the aggregates.
ReceiptTellsTheStory ==
    \A s \in Signers \cup {Unsigned} : receipts[s] # NoReceipt =>
        LET r == receipts[s]
            Happened(kind, result) ==
                \E i \in EventsOf(kind) : records[i].event.result = result
        IN  /\ r.count = Len(records)
            /\ r.outcome = "Denied" <=> EventsOf("WorkerCompleted") = {}
            /\ r.outcome = "Succeeded" =>
                  Happened("WorkerCompleted", "Succeeded") /\ Happened("RollbackCompleted", "NotRequired")
            /\ r.outcome = "RolledBack" => Happened("RollbackCompleted", "Applied")
            /\ r.outcome \in {"TimedOut", "Revoked"} => Happened("WorkerCompleted", r.outcome)
            /\ r.outcome = "Failed" =>
                  Happened("WorkerCompleted", "Failed") \/ Happened("RollbackCompleted", "Failed")
            /\ \A i \in EventsOf("LeaseBound") :
                  r.grant = records[i].event.grant /\ r.lease = records[i].event.lease
            /\ r.used[2] + r.used[3] <= r.used[1]

\* receipt: once a signer's assertion is stored it never changes, and no event
\* is appended to a session that has any receipt.
KeepsReceipts ==
    /\ \A s \in Signers : receipts[s] # NoReceipt => receipts'[s] = receipts[s]
    /\ (\E s \in Signers \cup {Unsigned} : receipts[s] # NoReceipt) => records' = records

ReceiptIsFinal == [][KeepsReceipts]_vars

\* validate_next: a session whose log is whole and not full can always go on
\* to a next event, until it has its final outcome.
NeverStuck ==
    LET s == Replay IN
    ~torn /\ s.ok /\ s.final = Nothing => \E e \in Events : Admissible(s, e, s.last)

\* What the evidence of a session promises its reader.
EvidenceSafe == TypeOK /\ AcceptedStaysReadable /\ ReceiptTellsTheStory /\ NeverStuck
=============================================================================
