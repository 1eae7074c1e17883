--------------------------- MODULE LinuxMigration ---------------------------
(***************************************************************************)
(* The move of a project's secrets on Linux from kernel keyutils, which a   *)
(* reboot empties, to Secret Service.  The migration copies every value and *)
(* the index, then publishes a marker in the config directory, a sentinel   *)
(* in each store and a marker in the data directory, one after the other    *)
(* under the project lock.  Which store a process uses is decided from      *)
(* these records, once when it opens the vault and again at every call.     *)
(*                                                                          *)
(* A write that fails ends the migration where it is, like a death.         *)
(***************************************************************************)
EXTENDS Naturals, FiniteSets

CONSTANTS
    Names,      \* secret names
    Values,     \* secret values
    Clients,    \* processes that use the vault
    Reboots,    \* whether the machine may reboot
    MaxFaults   \* bound: deaths of the migration and reboots

\* What the constants have to satisfy.
MigrationAssumption ==
    Reboots \in BOOLEAN /\ MaxFaults \in Nat

Nothing == "none"

VARIABLES
    ku,         \* keyutils: values, index, sentinel
    ss,         \* Secret Service, the same
    config,     \* whether the marker in the config directory exists
    data,       \* whether the marker in the data directory exists
    opened,     \* the store each client opened the vault with
    migration,  \* the migration and how far it is
    latest,     \* the value every acknowledged call so far has left
    faults

vars == <<ku, ss, config, data, opened, migration, latest, faults>>

EmptyStore == [value |-> [n \in Names |-> Nothing], index |-> {}, indexed |-> FALSE, sentinel |-> FALSE]

NoMigration == [at |-> "idle", expected |-> {}, left |-> {}]

Init ==
    /\ ku = EmptyStore /\ ss = EmptyStore
    /\ config = FALSE /\ data = FALSE
    /\ opened = [c \in Clients |-> "closed"]
    /\ migration = NoMigration
    /\ latest = [n \in Names |-> Nothing]
    /\ faults = 0

-----------------------------------------------------------------------------
(* Which store is authoritative.                                             *)

\* linux_migration_state and linux_backend_decision.
Decision ==
    CASE config /\ data -> IF ss.sentinel THEN "ss" ELSE "denied"
      [] config # data -> "denied"
      [] OTHER -> IF ku.sentinel THEN "denied" ELSE "ku"

LockFree == migration.at \in {"idle", "reviewed"}

\* KeychainVault::new_with_project_lock.
Open(c) ==
    /\ LockFree
    /\ opened[c] = "closed"
    /\ Decision # "denied"
    /\ opened' = [opened EXCEPT ![c] = Decision]
    /\ UNCHANGED <<ku, ss, config, data, migration, latest, faults>>

Close(c) ==
    /\ opened[c] # "closed"
    /\ opened' = [opened EXCEPT ![c] = "closed"]
    /\ UNCHANGED <<ku, ss, config, data, migration, latest, faults>>

\* A store or a delete of n, as one write of its store.
Put(S, n, v) ==
    [S EXCEPT !.value[n] = v, !.indexed = TRUE,
              !.index = IF v = Nothing THEN @ \ {n} ELSE @ \cup {n}]

\* Mutant: the store chosen at the opening is not checked again.
CallUnchecked(c, n, v) ==
    /\ LockFree
    /\ opened[c] # "closed"
    /\ IF opened[c] = "ku" THEN ku' = Put(ku, n, v) /\ UNCHANGED ss
       ELSE ss' = Put(ss, n, v) /\ UNCHANGED ku
    /\ latest' = [latest EXCEPT ![n] = v]
    /\ UNCHANGED <<config, data, opened, migration, faults>>

\* lock_sidecars, then the call: refused when the decision has changed.
Call(c, n, v) ==
    /\ LockFree
    /\ opened[c] # "closed"
    /\ Decision = opened[c]
    /\ v # latest[n]
    /\ IF opened[c] = "ku" THEN ku' = Put(ku, n, v) /\ UNCHANGED ss
       ELSE ss' = Put(ss, n, v) /\ UNCHANGED ku
    /\ latest' = [latest EXCEPT ![n] = v]
    /\ UNCHANGED <<config, data, opened, migration, faults>>

-----------------------------------------------------------------------------
(* The migration.                                                            *)

\* preview_linux_persistent_migration: the index the user reviews.
Preview ==
    /\ migration.at = "idle"
    /\ migration' = [NoMigration EXCEPT !.at = "reviewed",
          !.expected = IF Decision = "ss" \/ ss.sentinel THEN ss.index ELSE ku.index]
    /\ UNCHANGED <<ku, ss, config, data, opened, latest, faults>>

At(step) == migration' = [migration EXCEPT !.at = step]

Stop == migration' = NoMigration

\* The first checks of migrate_linux_to_secret_service: nothing to do, resume
\* what the durable sentinel prepared, or copy from keyutils; the index must
\* be the reviewed one.
Begin ==
    /\ migration.at = "reviewed"
    /\ \/ Decision = "ss" /\ Stop
       \/ /\ Decision # "ss" /\ ss.sentinel
          /\ IF ss.index = migration.expected /\ \A n \in ss.index : ss.value[n] # Nothing
             THEN At("resume config") ELSE Stop
       \/ /\ Decision # "ss" /\ ~ss.sentinel
          /\ IF ku.index = migration.expected
             THEN migration' = [migration EXCEPT !.at = "copy", !.left = ku.index]
             ELSE Stop
    /\ UNCHANGED <<ku, ss, config, data, opened, latest, faults>>

\* reconcile_destination: an equal value is left, a different one refused.
Copy(n) ==
    /\ migration.at = "copy"
    /\ n \in migration.left
    /\ IF ku.value[n] # Nothing /\ ss.value[n] \in {Nothing, ku.value[n]}
       THEN /\ ss' = [ss EXCEPT !.value[n] = ku.value[n]]
            /\ migration' = [migration EXCEPT !.left = @ \ {n}]
       ELSE /\ UNCHANGED ss
            /\ Stop
    /\ UNCHANGED <<ku, config, data, opened, latest, faults>>

CopyIndex ==
    /\ migration.at = "copy"
    /\ migration.left = {}
    /\ IF ss.indexed /\ ss.index # migration.expected
       THEN UNCHANGED ss /\ Stop
       ELSE /\ ss' = [ss EXCEPT !.indexed = TRUE, !.index = migration.expected]
            /\ At("config")
    /\ UNCHANGED <<ku, config, data, opened, latest, faults>>

PublishConfig ==
    /\ migration.at = "config"
    /\ config' = TRUE
    /\ At("durable sentinel")
    /\ UNCHANGED <<ku, ss, data, opened, latest, faults>>

DurableSentinel ==
    /\ migration.at = "durable sentinel"
    /\ ss' = [ss EXCEPT !.sentinel = TRUE]
    /\ At("sentinel")
    /\ UNCHANGED <<ku, config, data, opened, latest, faults>>

Sentinel ==
    /\ migration.at = "sentinel"
    /\ ku' = [ku EXCEPT !.sentinel = TRUE]
    /\ At("data")
    /\ UNCHANGED <<ss, config, data, opened, latest, faults>>

ResumeConfig ==
    /\ migration.at = "resume config"
    /\ config' = TRUE
    /\ At("data")
    /\ UNCHANGED <<ku, ss, data, opened, latest, faults>>

PublishData ==
    /\ migration.at = "data"
    /\ data' = TRUE
    /\ Stop
    /\ UNCHANGED <<ku, ss, config, opened, latest, faults>>

\* The migration dies, or one of its writes or reads fails.
Die ==
    /\ faults < MaxFaults
    /\ migration # NoMigration
    /\ Stop
    /\ faults' = faults + 1
    /\ UNCHANGED <<ku, ss, config, data, opened, latest>>

\* A reboot ends every process and empties keyutils.  What was only there is
\* gone, as the backend's name tells the user.
Reboot ==
    /\ Reboots
    /\ faults < MaxFaults
    /\ faults' = faults + 1
    /\ latest' = IF Decision = "ku" THEN [n \in Names |-> Nothing] ELSE latest
    /\ ku' = EmptyStore
    /\ opened' = [c \in Clients |-> "closed"]
    /\ Stop
    /\ UNCHANGED <<ss, config, data>>

Next ==
    \/ \E c \in Clients :
          \/ Open(c) \/ Close(c)
          \/ \E n \in Names, v \in Values \cup {Nothing} : Call(c, n, v)
    \/ Preview \/ Begin
    \/ \E n \in Names : Copy(n)
    \/ CopyIndex
    \/ PublishConfig \/ DurableSentinel \/ Sentinel \/ ResumeConfig \/ PublishData
    \/ Die \/ Reboot

Spec == Init /\ [][Next]_vars

-----------------------------------------------------------------------------
(* Properties.                                                               *)

IsStore(S) ==
    /\ S.value \in [Names -> Values \cup {Nothing}]
    /\ S.index \subseteq Names
    /\ S.indexed \in BOOLEAN /\ S.sentinel \in BOOLEAN

\* The type invariant of the stores, the records and the migration.
TypeOK ==
    /\ IsStore(ku) /\ IsStore(ss)
    /\ config \in BOOLEAN /\ data \in BOOLEAN
    /\ opened \in [Clients -> {"closed", "ku", "ss"}]
    /\ migration.at \in {"idle", "reviewed", "copy", "config", "durable sentinel", "sentinel",
                         "data", "resume config"}
    /\ migration.left \subseteq migration.expected
    /\ migration.expected \subseteq Names
    /\ latest \in [Names -> Values \cup {Nothing}]
    /\ faults \in 0..MaxFaults

Shows(S) ==
    /\ S.index = {n \in Names : latest[n] # Nothing}
    /\ \A n \in S.index : S.value[n] = latest[n]

\* Whichever store the records choose, it shows what the acknowledged calls
\* left: no value is lost or turned back by the change of store, at whatever
\* record the migration died and whatever was stored in between.
ChosenStoreIsComplete ==
    LockFree =>
        /\ Decision = "ku" => Shows(ku)
        /\ Decision = "ss" => Shows(ss)

\* migrate_linux_to_secret_service's comment: after the config record "even a
\* reboot that clears keyutils cannot make ambient access look unmigrated";
\* and once Secret Service is chosen it stays chosen.
NeverBackToKeyutils ==
    /\ config => Decision' # "ku"
    /\ Decision = "ss" => Decision' = "ss"

\* Whether a migration that nothing disturbs would reach the last marker.
WouldFinish ==
    \/ Decision = "ss"
    \/ ss.sentinel /\ \A n \in ss.index : ss.value[n] # Nothing
    \/ /\ ~ss.sentinel
       /\ \A n \in ku.index : ku.value[n] # Nothing /\ ss.value[n] \in {Nothing, ku.value[n]}
       /\ ss.indexed => ss.index = ku.index

\* The message of linux_backend_decision: "Normal vault access is denied; rerun
\* `phantom vault migrate-linux` from a trusted terminal to resume".  When
\* access is denied, running the migration again finishes it.
RerunFinishes == LockFree /\ Decision = "denied" => WouldFinish
=============================================================================
