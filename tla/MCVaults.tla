------------------------------ MODULE MCVaults ------------------------------
(***************************************************************************)
(* The vault for TLC: the init transaction that writes it together with the  *)
(* project's files, the keychain backend, the move from keyutils to Secret   *)
(* Service, the project transaction lock, the encrypted file vault, and the  *)
(* exact file effects that all of them use.                                  *)
(*                                                                           *)
(* As in MCRecords a behaviour has one scenario, in which one component      *)
(* acts.  The init transaction is the module this one extends, so            *)
(* NoValueLost is checked as it is proved; the other components are          *)
(* instances, and so is the transaction for two more choices of its          *)
(* constants.                                                                *)
(***************************************************************************)
EXTENDS InitTransaction, Sequences, TLC

CONSTANT Scenarios

VARIABLES
    scenario,
    files2, dir2, vault2, lock2, pc2, todo2, cur2, seen2, snap2, touched2, receipts2, ok2, edits2,
    disk, op, before, said, allowed, check, keychainFaults,
    ku, ss, config, data, opened, migration, latest, migrationFaults,
    mutex, poisoned, refs, file, slot, refused,
    store, entry, entries, holder, writer, made, fileEdits, failures,
    pair, pairs, stable, legacy, client, told, calls, vaultEdits, vaultFaults

transaction == <<files2, dir2, vault2, lock2, pc2, todo2, cur2, seen2, snap2, touched2,
                 receipts2, ok2, edits2>>
keychain == <<disk, op, before, said, allowed, check, keychainFaults>>
switch == <<ku, ss, config, data, opened, migration, latest, migrationFaults>>
locks == <<mutex, poisoned, refs, file, slot, refused>>
anchored == <<store, entry, entries, holder, writer, made, fileEdits, failures>>
fileVault == <<pair, pairs, stable, legacy, client, told, calls, vaultEdits, vaultFaults>>

-----------------------------------------------------------------------------
(* The scenarios.                                                            *)

\* Vaults.cfg gives two transactions on a config file and a dotenv, one new and
\* one deleted entry; writes fail and the process may die anywhere.
\* InitLosesValues.cfg gives the smallest rollback of a dotenv that fails.

\* One transaction whose rollback may fail too, and an editor beside it.
Rollback == INSTANCE InitTransaction WITH
    files <- files2, dir <- dir2, vault <- vault2, lock <- lock2, pc <- pc2, todo <- todo2,
    cur <- cur2, seen <- seen2, snap <- snap2, touched <- touched2, receipts <- receipts2,
    ok <- ok2, edits <- edits2,
    Txns <- {"t1"}, Early <- {"config"}, Last <- {"env"}, Nested <- {"config"},
    Secrets <- {"s1", "s2"}, Deletes <- {"s2"}, Copies <- {}, Source <- "source",
    Faults <- {"file", "rollback", "vault"}, Crashes <- FALSE, MaxEdits <- 1

\* Two transactions that copy an entry whose source changes.
Copying == INSTANCE InitTransaction WITH
    files <- files2, dir <- dir2, vault <- vault2, lock <- lock2, pc <- pc2, todo <- todo2,
    cur <- cur2, seen <- seen2, snap <- snap2, touched <- touched2, receipts <- receipts2,
    ok <- ok2, edits <- edits2,
    Txns <- {"t1", "t2"}, Early <- {}, Last <- {"env"}, Nested <- {},
    Secrets <- {"s1"}, Deletes <- {}, Copies <- {"s1"}, Source <- "source",
    Faults <- {"file", "vault"}, Crashes <- FALSE, MaxEdits <- 2

\* Every call on one name that may still be under its old entry, one failure.
Calls == INSTANCE KeychainVault WITH
    faults <- keychainFaults,
    Names <- {"n1"}, Values <- {"v1", "v2"}, LegacyNames <- {"n1"},
    Stores <- TRUE, Validates <- TRUE, MaxFaults <- 1

\* The move of two old entries, with failures wherever it writes.
Legacy == INSTANCE KeychainVault WITH
    faults <- keychainFaults,
    Names <- {"n1", "n2"}, Values <- {"v1", "v2"}, LegacyNames <- {"n1", "n2"},
    Stores <- FALSE, Validates <- TRUE, MaxFaults <- 5

\* Two clients beside a migration that dies, and reboots that clear keyutils.
Switch == INSTANCE LinuxMigration WITH
    faults <- migrationFaults,
    Names <- {"n1", "n2"}, Values <- {"v1", "v2"}, Clients <- {"c1", "c2"},
    Reboots <- TRUE, MaxFaults <- 2

\* A migration that is run again until it is through.
Resume == INSTANCE LinuxMigration WITH
    faults <- migrationFaults,
    Names <- {"n1", "n2"}, Values <- {"v1", "v2"}, Clients <- {"c1"},
    Reboots <- FALSE, MaxFaults <- 4

\* Projects 1 and 3 share a shard.
ShardOf == (1 :> 2) @@ (2 :> 1) @@ (3 :> 2)

\* Three threads, two of them in one process, that copy between projects.
Pairs == INSTANCE TransactionLock WITH
    Threads <- {"a", "b", "c"}, OldWriters <- {}, Projects <- {1, 2, 3}, Slots <- {1},
    ProcessOf <- ("a" :> "first") @@ ("b" :> "first") @@ ("c" :> "second"),
    Timeouts <- FALSE, Panics <- FALSE

\* Two processes and a writer of an older release; a thread may hold two
\* guards, time out and panic.
Guards == INSTANCE TransactionLock WITH
    Threads <- {"a", "c"}, OldWriters <- {"old"}, Projects <- {1, 2}, Slots <- {1, 2},
    ProcessOf <- ("a" :> "first") @@ ("c" :> "second"),
    Timeouts <- TRUE, Panics <- TRUE

\* One writer that replaces a file and one that removes it, an editor, failing
\* calls and power failures.
Effects == INSTANCE AnchoredFile WITH
    maybe <- entries, edits <- fileEdits,
    Writers <- {"w", "r"}, Removers <- {"r"}, Contents <- {"a", "b"},
    MaxInodes <- 3, MaxEdits <- 1, MaxFailures <- 1, PowerFails <- TRUE

\* One writer and an editor that acts twice.
Edited == INSTANCE AnchoredFile WITH
    maybe <- entries, edits <- fileEdits,
    Writers <- {"w"}, Removers <- {}, Contents <- {"a", "b"},
    MaxInodes <- 3, MaxEdits <- 2, MaxFailures <- 0, PowerFails <- FALSE

\* The encrypted vault, used by this and by an older release.
Encrypted == INSTANCE FileVault WITH
    cur <- pair, maybe <- pairs, edits <- vaultEdits, faults <- vaultFaults,
    Clients <- {"c", "o"}, OldClients <- {"o"}, Names <- {"n1", "n2"}, Values <- {"v1", "v2"},
    MaxCalls <- 4, MaxEdits <- 1, MaxFaults <- 1, Deaths <- TRUE, Reorders <- FALSE,
    Plaintext <- FALSE

\* The move of a plaintext vault that fails and dies anywhere.
Plain == INSTANCE FileVault WITH
    cur <- pair, maybe <- pairs, edits <- vaultEdits, faults <- vaultFaults,
    Clients <- {"c", "o"}, OldClients <- {"o"}, Names <- {"n1", "n2"}, Values <- {"v1"},
    MaxCalls <- 4, MaxEdits <- 1, MaxFaults <- 2, Deaths <- TRUE, Reorders <- FALSE,
    Plaintext <- TRUE

\* The same on a file system that reorders, where only the power fails.
Reordered == INSTANCE FileVault WITH
    cur <- pair, maybe <- pairs, edits <- vaultEdits, faults <- vaultFaults,
    Clients <- {"c", "o"}, OldClients <- {"o"}, Names <- {"n1", "n2"}, Values <- {"v1"},
    MaxCalls <- 3, MaxEdits <- 1, MaxFaults <- 2, Deaths <- FALSE, Reorders <- TRUE,
    Plaintext <- TRUE

TransactionScenarios == {"commit", "rollback", "copy"}
KeychainScenarios == {"calls", "legacy"}
SwitchScenarios == {"switch", "resume"}
LockScenarios == {"pairs", "guards"}
AnchoredScenarios == {"effects", "review"}
FileVaultScenarios == {"encrypted", "plaintext", "reordered"}

ASSUME Scenarios \subseteq
    TransactionScenarios \cup KeychainScenarios \cup SwitchScenarios \cup LockScenarios
        \cup AnchoredScenarios \cup FileVaultScenarios

ASSUME /\ InitAssumption /\ Rollback!InitAssumption /\ Copying!InitAssumption
       /\ Calls!KeychainAssumption /\ Legacy!KeychainAssumption
       /\ Switch!MigrationAssumption /\ Resume!MigrationAssumption
       /\ Pairs!LockAssumption /\ Guards!LockAssumption
       /\ Effects!AnchoredAssumption /\ Edited!AnchoredAssumption
       /\ Encrypted!FileVaultAssumption /\ Plain!FileVaultAssumption
       /\ Reordered!FileVaultAssumption

-----------------------------------------------------------------------------
(* The specification.                                                        *)

\* The value of the variables of an instance that is not in the scenario.  The
\* transaction that this module extends rests in its initial state.
Absent == "absent"

TransactionInit ==
    CASE scenario = "rollback" -> Rollback!Init
      [] scenario = "copy" -> Copying!Init
      [] OTHER ->
            /\ files2 = Absent /\ dir2 = Absent /\ vault2 = Absent /\ lock2 = Absent
            /\ pc2 = Absent /\ todo2 = Absent /\ cur2 = Absent /\ seen2 = Absent
            /\ snap2 = Absent /\ touched2 = Absent /\ receipts2 = Absent /\ ok2 = Absent
            /\ edits2 = Absent

KeychainInit ==
    CASE scenario = "calls" -> Calls!Init
      [] scenario = "legacy" -> Legacy!Init
      [] OTHER ->
            /\ disk = Absent /\ op = Absent /\ before = Absent /\ said = Absent
            /\ allowed = Absent /\ check = Absent /\ keychainFaults = Absent

SwitchInit ==
    CASE scenario = "switch" -> Switch!Init
      [] scenario = "resume" -> Resume!Init
      [] OTHER ->
            /\ ku = Absent /\ ss = Absent /\ config = Absent /\ data = Absent
            /\ opened = Absent /\ migration = Absent /\ latest = Absent
            /\ migrationFaults = Absent

LockInit ==
    CASE scenario = "pairs" -> Pairs!Init
      [] scenario = "guards" -> Guards!Init
      [] OTHER ->
            /\ mutex = Absent /\ poisoned = Absent /\ refs = Absent /\ file = Absent
            /\ slot = Absent /\ refused = Absent

AnchoredInit ==
    CASE scenario = "effects" -> Effects!Init
      [] scenario = "review" -> Edited!Init
      [] OTHER ->
            /\ store = Absent /\ entry = Absent /\ entries = Absent /\ holder = Absent
            /\ writer = Absent /\ made = Absent /\ fileEdits = Absent /\ failures = Absent

FileVaultInit ==
    CASE scenario = "encrypted" -> Encrypted!Init
      [] scenario = "plaintext" -> Plain!Init
      [] scenario = "reordered" -> Reordered!Init
      [] OTHER ->
            /\ pair = Absent /\ pairs = Absent /\ stable = Absent /\ legacy = Absent
            /\ client = Absent /\ told = Absent /\ calls = Absent /\ vaultEdits = Absent
            /\ vaultFaults = Absent

\* A transaction that does not act has one of its initial states.
AtRest == \A e \in Entries : vault[e].value = "prior" /\ ~vault[e].valid

MCInit ==
    /\ scenario \in Scenarios
    /\ Init /\ (scenario # "commit" => AtRest)
    /\ TransactionInit /\ KeychainInit /\ SwitchInit /\ LockInit /\ AnchoredInit /\ FileVaultInit

Commits ==
    /\ scenario = "commit" /\ Next
    /\ UNCHANGED <<scenario, transaction, keychain, switch, locks, anchored, fileVault>>

Transactions ==
    /\ \/ scenario = "rollback" /\ Rollback!Next
       \/ scenario = "copy" /\ Copying!Next
    /\ UNCHANGED <<scenario, vars, keychain, switch, locks, anchored, fileVault>>

MCVars == <<scenario, vars, transaction, keychain, switch, locks, anchored, fileVault>>

\* A transaction ends, the last move of an old entry is the end of them, and
\* the calls on files are bounded.
Rests ==
    /\ scenario \in TransactionScenarios \cup {"legacy"} \cup AnchoredScenarios \cup FileVaultScenarios
    /\ UNCHANGED MCVars

Keychain ==
    /\ \/ scenario = "calls" /\ Calls!Next
       \/ scenario = "legacy" /\ Legacy!Next
    /\ UNCHANGED <<scenario, vars, transaction, switch, locks, anchored, fileVault>>

Switches ==
    /\ \/ scenario = "switch" /\ Switch!Next
       \/ scenario = "resume" /\ Resume!Next
    /\ UNCHANGED <<scenario, vars, transaction, keychain, locks, anchored, fileVault>>

Locks ==
    /\ \/ scenario = "pairs" /\ Pairs!Next
       \/ scenario = "guards" /\ Guards!Next
    /\ UNCHANGED <<scenario, vars, transaction, keychain, switch, anchored, fileVault>>

Anchored ==
    /\ \/ scenario = "effects" /\ Effects!Next
       \/ scenario = "review" /\ Edited!Next
    /\ UNCHANGED <<scenario, vars, transaction, keychain, switch, locks, fileVault>>

FileVaults ==
    /\ \/ scenario = "encrypted" /\ Encrypted!Next
       \/ scenario = "plaintext" /\ Plain!Next
       \/ scenario = "reordered" /\ Reordered!Next
    /\ UNCHANGED <<scenario, vars, transaction, keychain, switch, locks, anchored>>

MCNext ==
    Commits \/ Transactions \/ Rests \/ Keychain \/ Switches \/ Locks \/ Anchored \/ FileVaults

MCSpec == MCInit /\ [][MCNext]_MCVars

-----------------------------------------------------------------------------
(* Properties, beside NoValueLost of InitTransaction: each in its scenarios. *)

\* InitTransaction and KeychainVault: when a caller is told that the state
\* before was restored, it was, metadata and verdicts included.  AnchoredFile:
\* an error means no effect, and what is called durable has no way back.
OutcomesAreTrue ==
    CASE scenario = "rollback" -> Rollback!RestoredMeansRestored
      [] scenario = "calls" -> Calls!RestoredMeansRestored
      [] scenario = "legacy" -> Legacy!RestoredMeansRestored
      [] scenario = "effects" -> Effects!OutcomeIsTrue
      [] scenario = "review" -> Edited!OutcomeIsTrue
      [] OTHER -> TRUE

\* AnchoredFile: a file is replaced or removed only as it was read, but for an
\* editor after the last look.  InitTransaction: a copy commits only while its
\* source is as it was read, and it is left with the protection of its source.
ActsOnWhatWasRead ==
    [][CASE scenario = "copy" -> Copying!CopyIsProtected' /\ Copying!CopyFollowsSource
         [] scenario = "effects" -> Effects!ReplacesWhatWasRead
         [] scenario = "review" -> Edited!ReplacesWhatWasRead
         [] OTHER -> TRUE]_MCVars

\* KeychainVault: a reader under the lock finds the value the calls account
\* for, an indexed name has its value, and an absent one leaves nothing behind.
\* FileVault: no value inherits metadata or a verdict recorded beside another
\* one, and the file holds what the calls account for, a power failure included.
\* AnchoredFile: what is published is whole.
BackendSafe ==
    CASE scenario = "calls" -> Calls!KeychainSafe /\ Calls!NothingToInherit
      [] scenario = "legacy" -> Legacy!KeychainSafe
      [] scenario = "encrypted" -> Encrypted!SidecarsFollowValues /\ Encrypted!NoValueLost
      [] scenario = "plaintext" -> Plain!NoValueLost
      [] scenario = "reordered" -> Reordered!NoValueLost
      [] scenario = "effects" -> Effects!PublishedIsWhole
      [] OTHER -> TRUE

\* LinuxMigration: the store that the records choose shows what the calls
\* left, the choice is never taken back, and without reboots a migration that
\* was cut short can be finished.
MigrationSafe ==
    [][CASE scenario = "switch" ->
              Switch!ChosenStoreIsComplete' /\ Switch!NeverBackToKeyutils
         [] scenario = "resume" -> /\ Resume!ChosenStoreIsComplete' /\ Resume!RerunFinishes'
                                   /\ Resume!NeverBackToKeyutils
         [] OTHER -> TRUE]_MCVars

\* TransactionLock: one holder per project, no lock without an owner, and no
\* thread that waits for itself through the others (unless it asks for a
\* second lock while it holds a first, which only the deadline undoes).
LockSafe ==
    CASE scenario = "pairs" -> Pairs!LockSafe /\ Pairs!NoCircularWait /\ Pairs!ShardIsExclusive
      [] scenario = "guards" -> Guards!LockSafe
      [] OTHER -> TRUE
=============================================================================
