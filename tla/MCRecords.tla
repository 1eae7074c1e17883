------------------------------ MODULE MCRecords ------------------------------
(***************************************************************************)
(* The durable records of the broker and of the CLI for TLC: the replay      *)
(* ledger, the session journal, the evidence store, the audit log and the    *)
(* supervised run that ends a use of the ledger.                             *)
(*                                                                           *)
(* These components share no state, so what holds of one holds whatever the  *)
(* others do.  Instead of their product a behaviour has one scenario, which  *)
(* is one component with values for its constants, and the others do not     *)
(* act: the run explores the sum of their state spaces.                      *)
(*                                                                           *)
(* The replay ledger is the module this one extends, so LedgerSafe is        *)
(* checked as it is proved; the other components are instances, and so is    *)
(* the ledger for two more choices of its constants.                         *)
(***************************************************************************)
EXTENDS ReplayLedger, Sequences, TLC

CONSTANT Scenarios

VARIABLES
    scenario,
    disk2, synced2, activation2, epoch2, instance2, permits2, witnesses2, issued2, answered2,
    promised2,
    state, known, news, journalFaults,
    records, torn, receipts, clock,
    log, auditSynced, dir, maybe, writer, lock, events, acked, settled, verifier, auditFaults,
    pc, branch, token, woken, timer, child, group, kind, use, revokedUse, result, runFaults

ledger == <<disk2, synced2, activation2, epoch2, instance2, permits2, witnesses2, issued2,
            answered2, promised2>>
journal == <<state, known, news, journalFaults>>
evidence == <<records, torn, receipts, clock>>
audit == <<log, auditSynced, dir, maybe, writer, lock, events, acked, settled, verifier, auditFaults>>
run == <<pc, branch, token, woken, timer, child, group, kind, use, revokedUse, result, runFaults>>

-----------------------------------------------------------------------------
(* The scenarios.                                                            *)

\* Records.cfg gives the ledger two brokers and one lease: three operations
\* compete for two uses, one at a time, and the clock passes both ends of the
\* lease.

\* Two grants and two leases in a store that is nearly full.
LedgerLeases == INSTANCE ReplayLedger WITH
    disk <- disk2, synced <- synced2, activation <- activation2, epoch <- epoch2,
    instance <- instance2, permits <- permits2, witnesses <- witnesses2, issued <- issued2,
    answered <- answered2, promised <- promised2,
    Handles <- Handles, Grants <- {"g1", "g2"}, Keys <- {"k1"}, LeaseIds <- {"l1", "l2"},
    Ops <- {"o1"}, Digests <- {"d1", "d2"}, RestartDigest <- "restart",
    RevokeDigest <- "revoked", MaxUses <- 2, MaxConcurrent <- 1,
    NotBefore <- 1, ExpiresAt <- 2, MaxTime <- 2, MaxGeneration <- 2, MaxStateSize <- 7

\* One broker that repeats and mixes up idempotency keys.
LedgerKeys == INSTANCE ReplayLedger WITH
    disk <- disk2, synced <- synced2, activation <- activation2, epoch <- epoch2,
    instance <- instance2, permits <- permits2, witnesses <- witnesses2, issued <- issued2,
    answered <- answered2, promised <- promised2,
    Handles <- {"broker"}, Grants <- {"g1", "g2"}, Keys <- {"k1", "k2"}, LeaseIds <- {"l1", "l2"},
    Ops <- {"o1"}, Digests <- {"d1"}, RestartDigest <- "restart",
    RevokeDigest <- "revoked", MaxUses <- 1, MaxConcurrent <- 1,
    NotBefore <- 1, ExpiresAt <- 2, MaxTime <- 1, MaxGeneration <- 2, MaxStateSize <- 7

\* Two coordinators that disagree about what is intended, or about its result.
JournalIntents == INSTANCE SessionJournal WITH
    faults <- journalFaults,
    Coordinators <- {"c1", "c2"}, Digests <- {"d1", "d2"}, Results <- {"r1"},
    LastPhase <- "LeaseReserved", MaxFaults <- 1

JournalResults == INSTANCE SessionJournal WITH
    faults <- journalFaults,
    Coordinators <- {"c1", "c2"}, Digests <- {"d1"}, Results <- {"r1", "r2"},
    LastPhase <- "LeaseReserved", MaxFaults <- 1

\* A whole session.
JournalWhole == INSTANCE SessionJournal WITH
    faults <- journalFaults,
    Coordinators <- {"c1"}, Digests <- {"d1"}, Results <- {"r1"},
    LastPhase <- "Complete", MaxFaults <- 2

\* A forwarded request, a denied one, and one counted as both.
Evidence == INSTANCE EvidenceStore WITH
    Grants <- {"g1", "g2"}, Leases <- {"l1"}, Signers <- {"s1"},
    Uses <- {<<1, 1, 0, 2>>, <<1, 0, 1, 0>>, <<1, 1, 1, 0>>},
    MaxU64 <- 100, MaxRecords <- 8, MaxClock <- 1

\* Two writers and a verifier; with a log that can always be read, and with
\* one whose read may fail while its metadata can be read.
Audit == INSTANCE AuditLog WITH
    synced <- auditSynced, faults <- auditFaults,
    Writers <- {"w1", "w2"}, MaxEvents <- 3, MaxFaults <- 2, LogReadFails <- FALSE, Reorders <- FALSE

AuditUnread == INSTANCE AuditLog WITH
    synced <- auditSynced, faults <- auditFaults,
    Writers <- {"w1", "w2"}, MaxEvents <- 3, MaxFaults <- 2, LogReadFails <- TRUE, Reorders <- FALSE

\* One run, two failures of the store and a caller that may drop the future.
Run == INSTANCE SupervisedRun WITH
    faults <- runFaults, MaxFaults <- 2, MayDrop <- TRUE

LedgerScenarios == {"uses", "leases", "keyed"}
JournalScenarios == {"intents", "results", "session"}
EvidenceScenarios == {"evidence"}
AuditScenarios == {"audit", "unread"}
RunScenarios == {"run"}

ASSUME Scenarios \subseteq LedgerScenarios \cup JournalScenarios \cup EvidenceScenarios
                           \cup AuditScenarios \cup RunScenarios

ASSUME /\ LedgerAssumption /\ LedgerLeases!LedgerAssumption /\ LedgerKeys!LedgerAssumption
       /\ JournalIntents!SessionAssumption /\ JournalResults!SessionAssumption /\ JournalWhole!SessionAssumption
       /\ Evidence!EvidenceAssumption
       /\ Audit!AuditAssumption /\ AuditUnread!AuditAssumption
       /\ Run!RunAssumption

-----------------------------------------------------------------------------
(* The specification.                                                        *)

\* The value of the variables of an instance that is not in the scenario.  The
\* ledger that this module extends rests in its initial state.
Absent == "absent"

LedgerInit ==
    CASE scenario = "leases" -> LedgerLeases!Init
      [] scenario = "keyed" -> LedgerKeys!Init
      [] OTHER ->
            /\ disk2 = Absent /\ synced2 = Absent /\ activation2 = Absent /\ epoch2 = Absent
            /\ instance2 = Absent /\ permits2 = Absent /\ witnesses2 = Absent
            /\ issued2 = Absent /\ answered2 = Absent /\ promised2 = Absent

JournalInit ==
    CASE scenario = "intents" -> JournalIntents!Init
      [] scenario = "results" -> JournalResults!Init
      [] scenario = "session" -> JournalWhole!Init
      [] OTHER -> state = Absent /\ known = Absent /\ news = Absent /\ journalFaults = Absent

EvidenceInit ==
    CASE scenario = "evidence" -> Evidence!Init
      [] OTHER -> records = Absent /\ torn = Absent /\ receipts = Absent /\ clock = Absent

AuditInit ==
    CASE scenario = "audit" -> Audit!Init
      [] scenario = "unread" -> AuditUnread!Init
      [] OTHER ->
            /\ log = Absent /\ auditSynced = Absent /\ dir = Absent /\ maybe = Absent
            /\ writer = Absent /\ lock = Absent /\ events = Absent /\ acked = Absent
            /\ settled = Absent /\ verifier = Absent /\ auditFaults = Absent

RunInit ==
    CASE scenario = "run" -> Run!Init
      [] OTHER ->
            /\ pc = Absent /\ branch = Absent /\ token = Absent /\ woken = Absent
            /\ timer = Absent /\ child = Absent /\ group = Absent /\ kind = Absent
            /\ use = Absent /\ revokedUse = Absent /\ result = Absent /\ runFaults = Absent

MCInit ==
    /\ scenario \in Scenarios
    /\ Init /\ LedgerInit /\ JournalInit /\ EvidenceInit /\ AuditInit /\ RunInit

Uses ==
    /\ scenario = "uses" /\ Next
    /\ UNCHANGED <<scenario, ledger, journal, evidence, audit, run>>

Ledgers ==
    /\ \/ scenario = "leases" /\ LedgerLeases!Next
       \/ scenario = "keyed" /\ LedgerKeys!Next
    /\ UNCHANGED <<scenario, vars, journal, evidence, audit, run>>

MCVars == <<scenario, vars, ledger, journal, evidence, audit, run>>

\* The bounds of the ledger let it come to rest.
LedgerRests == scenario \in LedgerScenarios /\ UNCHANGED MCVars

Journal ==
    /\ \/ scenario = "intents" /\ JournalIntents!Next
       \/ scenario = "results" /\ JournalResults!Next
       \/ scenario = "session" /\ JournalWhole!Next
    /\ UNCHANGED <<scenario, vars, ledger, evidence, audit, run>>

Evidences ==
    /\ scenario = "evidence" /\ Evidence!Next
    /\ UNCHANGED <<scenario, vars, ledger, journal, audit, run>>

Audits ==
    /\ \/ scenario = "audit" /\ Audit!Next
       \/ scenario = "unread" /\ AuditUnread!Next
    /\ UNCHANGED <<scenario, vars, ledger, journal, evidence, run>>

Runs ==
    /\ scenario = "run" /\ Run!Next
    /\ UNCHANGED <<scenario, vars, ledger, journal, evidence, audit>>

MCNext == Uses \/ Ledgers \/ LedgerRests \/ Journal \/ Evidences \/ Audits \/ Runs

MCSpec == MCInit /\ [][MCNext]_MCVars

\* Brokers are compared for equality only.
BrokerSymmetry == Permutations(Handles)

-----------------------------------------------------------------------------
(* Properties, beside LedgerSafe of ReplayLedger: each in its scenarios.     *)

\* SessionJournal: the completed transitions are one walk from Created, the
\* generation counts the records, no transition is New twice, and a session
\* that may go on to Complete never gets stuck.  ReplayLedger with several
\* leases, grants and keys: one permit for an operation ever, within the
\* capacity of its lease, and a grant is one lease.
RecordsSafe ==
    CASE scenario = "intents" -> JournalIntents!JournalSafe
      [] scenario = "results" -> JournalResults!JournalSafe
      [] scenario = "session" -> JournalWhole!JournalSafe /\ JournalWhole!NeverStuck
      [] scenario = "leases" -> LedgerLeases!LedgerSafe
      [] scenario = "keyed" -> LedgerKeys!LedgerSafe
      [] OTHER -> TRUE

\* EvidenceStore: what was accepted stays readable, a receipt is borne out by
\* the events of its log, and a whole log can be continued to an outcome.
EvidenceSafe == scenario = "evidence" => Evidence!EvidenceSafe

\* AuditLog: the chain of signed events is unbroken, what was acknowledged is
\* durable, the checkpoint is neither ahead nor behind, and damage is seen.
AuditSafe ==
    CASE scenario = "audit" -> Audit!AuditSafe
      [] scenario = "unread" -> AuditUnread!AuditSafe
      [] OTHER -> TRUE

\* AuditLog under the comment of its chain: a signed event names the signed
\* event before it.
ChainIsUnbroken ==
    CASE scenario = "audit" -> Audit!ChainIsUnbroken
      [] scenario = "unread" -> AuditUnread!ChainIsUnbroken
      [] OTHER -> TRUE

\* SupervisedRun: an outcome that is returned is durable, its processes are
\* gone and what it names has happened, and no end of a run leaves its use
\* active.
RunSafe == [][scenario = "run" => Run!RunSafe' /\ Run!OutcomeStep]_MCVars

\* No step takes back what was recorded: how a use of the ledger ended, a
\* completed transition of a session, the receipt of a signer.
RecordsAreFinal ==
    [][CASE scenario = "uses" -> KeepsOutcomes
         [] scenario = "leases" -> LedgerLeases!KeepsOutcomes
         [] scenario = "keyed" -> LedgerKeys!KeepsOutcomes
         [] scenario = "intents" -> JournalIntents!KeepsHistory
         [] scenario = "results" -> JournalResults!KeepsHistory
         [] scenario = "session" -> JournalWhole!KeepsHistory
         [] scenario = "evidence" -> Evidence!KeepsReceipts
         [] OTHER -> TRUE]_MCVars
=============================================================================
