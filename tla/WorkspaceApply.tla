--------------------------- MODULE WorkspaceApply ---------------------------
(***************************************************************************)
(* `phantom workspace apply --request <id>` on one claimed setup request.  *)
(*                                                                         *)
(* Composes the four pieces of state the command touches:                  *)
(*   - the authenticated request record (phantom-core workspace_request),  *)
(*   - the encrypted write-ahead journal and the workspace files           *)
(*     (phantom-workspace transaction),                                    *)
(*   - the vault, driven by VaultSetupParticipant (phantom-cli workspace), *)
(*   - the two advisory locks: the workspace lock of the engine and the    *)
(*     project transaction lock of the vault crate.                        *)
(*                                                                         *)
(* Each process in Procs is a terminal running the command, possibly again *)
(* after a crash.  A step of the model ends where the next durable effect, *)
(* lock or request-store call begins, so a crash, another process, a       *)
(* foreign edit or a failing write can fall between any two of them.       *)
(*                                                                         *)
(* File bytes are abstracted to "before" (the bytes the plan was sealed    *)
(* over), "after" (the bytes the plan writes) and two contents that        *)
(* somebody else saves; vault values to "old" (what the vault held,        *)
(* possibly nothing), "secret" (the plaintext of the dotenv file) and      *)
(* "other".                                                                *)
(***************************************************************************)
EXTENDS Integers

CONSTANTS
  Procs,            \* terminals running the command
  NoProc,           \* "no process": the value of a free lock
  NFiles,           \* number of planned file targets, in sorted order
  NSecrets,         \* number of vault entries the plan moves, in name order
  Dotenv,           \* Dotenv[s]: the target that holds the plaintext of s
  Nested,           \* targets whose parent directory does not exist yet
  MaxDisturbances   \* bound on crashes, I/O faults and foreign writes

Files   == 1..NFiles
Secrets == 1..NSecrets

ASSUME ConstantsAssumption ==
  /\ NFiles \in Nat
  /\ NSecrets \in Nat
  /\ Dotenv \in [Secrets -> Files]
  /\ Nested \subseteq Files
  /\ NoProc \notin Procs
  /\ MaxDisturbances \in Nat

VARIABLES
  request,    \* state of the authenticated request record
  lapsed,     \* whether REQUEST_TTL_SECS has passed since the request
  files,      \* content of every planned target
  dirs,       \* targets whose parent directory exists
  vault,      \* value of every planned vault entry
  jphase,     \* phase in the journal file, "none" when there is no file
  jimage,     \* vault before-images in the journal's participant payload
  jshot,      \* file before-images in the journal
  wsLock,     \* holder of the workspace lock
  projLock,   \* holder of the project transaction lock
  pc,         \* where each process is in run_apply
  mode,       \* status.state it read, or "post" once its apply has failed
  k,          \* index of its loop over files or vault entries
  image,      \* vault before-images it holds in memory
  shot,       \* file before-images it holds in memory
  parents,    \* targets whose parent directory handle its snapshot retains
  made,       \* targets whose parent directory it created
  failed,     \* processes whose current rollback has met an error
  why,        \* which failure it is rolling back
  env         \* disturbances so far

shared  == <<request, lapsed, files, dirs, vault, jphase, jimage, jshot>>
locks   == <<wsLock, projLock>>
snap    == <<shot, parents, made>>
memory  == <<mode, k, image, shot, parents, made, failed, why>>
vars    == <<request, lapsed, files, dirs, vault, jphase, jimage, jshot, wsLock,
             projLock, pc, mode, k, image, shot, parents, made, failed, why, env>>

Edits        == {"edited", "reedited"}
FileVal      == {"before", "after"} \cup Edits
VaultVal     == {"old", "secret", "other"}
RequestState == {"Pending", "Claimed", "Applied", "RolledBack", "Expired"}
Incomplete   == {"Prepared", "FilesApplied", "CommitStarted"}
JournalPhase == Incomplete \cup {"Applied", "RolledBack"}

OldImage == [s \in Secrets |-> "old"]
OldShot  == [f \in Files |-> "before"]

Init ==
  /\ request = "Pending" /\ lapsed = FALSE
  /\ files = [f \in Files |-> "before"]
  /\ dirs = Files \ Nested
  /\ vault = OldImage
  /\ jphase = "none" /\ jimage = OldImage /\ jshot = OldShot
  /\ wsLock = NoProc /\ projLock = NoProc
  /\ pc = [p \in Procs |-> "idle"]
  /\ mode = [p \in Procs |-> "Pending"]
  /\ k = [p \in Procs |-> 0]
  /\ image = [p \in Procs |-> OldImage]
  /\ shot = [p \in Procs |-> OldShot]
  /\ parents = [p \in Procs |-> {}]
  /\ made = [p \in Procs |-> {}]
  /\ failed = {}
  /\ why = [p \in Procs |-> "write"]
  /\ env = 0

-----------------------------------------------------------------------------
(* Building blocks                                                         *)

\* The sealed pre-state still matches: every planned target and dotenv file
\* has exactly the bytes the plan was sealed over.
SealMatches == \A f \in Files : files[f] = "before"

\* The request's TTL has run out before anyone claimed it.
PendingExpired == request = "Pending" /\ lapsed

Goto(p, label) == pc' = [pc EXCEPT ![p] = label]

Release(lock, p) == IF lock = p THEN NoProc ELSE lock

\* The process ends: its locks are dropped and nothing in memory survives.
Exit(p) ==
  /\ Goto(p, "idle")
  /\ wsLock' = Release(wsLock, p)
  /\ projLock' = Release(projLock, p)
  /\ mode' = [mode EXCEPT ![p] = "Pending"]
  /\ k' = [k EXCEPT ![p] = 0]
  /\ image' = [image EXCEPT ![p] = OldImage]
  /\ shot' = [shot EXCEPT ![p] = OldShot]
  /\ parents' = [parents EXCEPT ![p] = {}]
  /\ made' = [made EXCEPT ![p] = {}]
  /\ failed' = failed \ {p}
  /\ why' = [why EXCEPT ![p] = "write"]

\* apply_setup_plan_durable returns an error: the workspace lock is dropped
\* and run_apply goes straight to recover_setup_plan_journal.
ApplyFails(p) ==
  /\ Goto(p, "load")
  /\ mode' = [mode EXCEPT ![p] = "post"]
  /\ wsLock' = NoProc

\* One disturbance of the environment's budget.
Disturb == env < MaxDisturbances /\ env' = env + 1

\* Mutant: the write-ahead record is never written.
PersistSkipsPrepared(p, phase) ==
  IF phase = "Prepared"
    THEN UNCHANGED <<jphase, jimage, jshot>>
    ELSE jphase' = phase /\ jimage' = image[p] /\ jshot' = shot[p]

\* DurableJournal::persist replaces the journal file in one rename.
Persist(p, phase) == jphase' = phase /\ jimage' = image[p] /\ jshot' = shot[p]

\* persist reports an error: the rename did not happen, or it did and the
\* directory could not be synced.
PersistFaults(p, phase) ==
  /\ Disturb
  /\ \/ UNCHANGED <<jphase, jimage, jshot>>
     \/ Persist(p, phase)

-----------------------------------------------------------------------------
(* run_apply up to the first recovery                                      *)

\* get_status, then the early exits for a request that is not applicable.
ReadStatus(p) ==
  /\ pc[p] = "idle"
  /\ \/ /\ PendingExpired
        /\ request' = "Expired"
        /\ UNCHANGED <<pc, mode>>
     \/ /\ ~PendingExpired
        /\ request \in {"Pending", "Claimed"}
        /\ mode' = [mode EXCEPT ![p] = request]
        /\ Goto(p, IF request = "Pending" THEN "plan" ELSE "lockProject")
        /\ UNCHANGED request
  /\ UNCHANGED <<lapsed, files, dirs, vault, jphase, jimage, jshot, locks, k, image,
                 snap, failed, why, env>>

\* A Pending request is re-planned under the workspace lock before any effect.
RebuildPlan(p) ==
  /\ pc[p] = "plan"
  /\ wsLock = NoProc
  /\ IF SealMatches
       THEN Goto(p, "lockProject")
            /\ UNCHANGED <<locks, memory>>
       ELSE Exit(p)
  /\ UNCHANGED <<shared, env>>

\* VaultSetupParticipant::new takes the project transaction lock, or gives up
\* after LOCK_TIMEOUT when another process keeps it.
LockProject(p) ==
  /\ pc[p] = "lockProject"
  /\ IF projLock = NoProc
       THEN /\ projLock' = p
            /\ Goto(p, "load")
            /\ UNCHANGED <<wsLock, memory>>
       ELSE Exit(p)
  /\ UNCHANGED <<shared, env>>

-----------------------------------------------------------------------------
(* recover_setup_plan_journal: before the apply, and again when it failed  *)

\* The journal file is read before the workspace lock is taken.
LoadJournal(p) ==
  /\ pc[p] = "load"
  /\ \/ /\ jphase = "none"
        /\ Goto(p, IF mode[p] = "post" THEN "absent" ELSE "confirm")
        /\ UNCHANGED <<image, shot>>
     \/ /\ jphase = "Applied"
        /\ image' = [image EXCEPT ![p] = jimage]
        /\ shot' = [shot EXCEPT ![p] = jshot]
        /\ Goto(p, "complete")
     \/ /\ jphase = "RolledBack"
        /\ Goto(p, "rolledBack")
        /\ UNCHANGED <<image, shot>>
     \/ /\ jphase \in Incomplete
        /\ image' = [image EXCEPT ![p] = jimage]
        /\ shot' = [shot EXCEPT ![p] = jshot]
        /\ Goto(p, "recoverLock")
  /\ UNCHANGED <<shared, locks, mode, k, parents, made, failed, why, env>>

RecoverLock(p) ==
  /\ pc[p] = "recoverLock"
  /\ wsLock = NoProc
  /\ wsLock' = p
  /\ Goto(p, "recoverCheck")
  /\ UNCHANGED <<shared, projLock, memory, env>>

\* Mutant: only the after-image is recognised.
RecoverableOnlyAfter(p, f) == f \in dirs /\ files[f] = "after"

\* The parent directory of a journaled target can be opened and the target
\* holds its before- or its after-image.
Recoverable(p, f) == f \in dirs /\ files[f] \in {shot[p][f], "after"}

\* Every journaled file must be reachable and hold its before- or after-image;
\* otherwise RollbackDrift ends the command and the request stays claimed.
RecoverCheck(p) ==
  /\ pc[p] = "recoverCheck"
  /\ IF \A f \in Files : Recoverable(p, f)
       THEN Goto(p, "recoverPayload")
            /\ UNCHANGED <<locks, memory>>
       ELSE Exit(p)
  /\ UNCHANGED <<shared, env>>

\* Mutant: the project lock is awaited without a deadline.
RecoverPayloadWaits(p) ==
  /\ pc[p] = "recoverPayload"
  /\ projLock \in {NoProc, p}
  /\ projLock' = p
  /\ k' = [k EXCEPT ![p] = NSecrets]
  /\ failed' = failed \ {p}
  /\ Goto(p, "recoverVault")
  /\ UNCHANGED <<wsLock, mode, image, snap, why, shared, env>>

\* restore_recovery_payload: ensure_project_lock (or time out, under the
\* workspace lock), then adopt the journaled vault snapshots.
RecoverPayload(p) ==
  /\ pc[p] = "recoverPayload"
  /\ IF projLock \in {NoProc, p}
       THEN /\ projLock' = p
            /\ k' = [k EXCEPT ![p] = NSecrets]
            /\ failed' = failed \ {p}
            /\ Goto(p, "recoverVault")
            /\ UNCHANGED <<wsLock, mode, image, snap, why>>
       ELSE Exit(p)
  /\ UNCHANGED <<shared, env>>

\* Mutant: a compare_and_swap that errs is taken for a success.
RestoreEntryIgnoresError(p) ==
  LET s == k[p] IN
  /\ s > 0
  /\ k' = [k EXCEPT ![p] = s - 1]
  /\ \/ /\ vault' = [vault EXCEPT ![s] = IF @ = "secret" THEN image[p][s]
                                                        ELSE @]
        /\ UNCHANGED env
     \/ Disturb /\ UNCHANGED vault
  /\ UNCHANGED failed

\* One entry of VaultSetupParticipant::restore_snapshots, last to first: a
\* value that is neither image is left alone and fails the rollback; so does
\* a compare_and_swap that errs.
RestoreEntry(p) ==
  LET s == k[p] IN
  /\ s > 0
  /\ k' = [k EXCEPT ![p] = s - 1]
  /\ \/ /\ vault[s] = image[p][s]
        /\ UNCHANGED <<vault, failed, env>>
     \/ /\ vault[s] \notin {image[p][s], "secret"}
        /\ failed' = failed \cup {p}
        /\ UNCHANGED <<vault, env>>
     \/ /\ vault[s] = "secret" /\ image[p][s] # "secret"
        /\ vault' = [vault EXCEPT ![s] = image[p][s]]
        /\ UNCHANGED <<failed, env>>
     \/ /\ vault[s] # image[p][s]
        /\ Disturb
        /\ failed' = failed \cup {p}
        /\ UNCHANGED vault

\* participant.rollback() of a recovery; its end drops the project lock.
RecoverVault(p) ==
  /\ pc[p] = "recoverVault"
  /\ \/ RestoreEntry(p) /\ UNCHANGED <<pc, projLock>>
     \/ /\ k[p] = 0
        /\ projLock' = Release(projLock, p)
        /\ k' = [k EXCEPT ![p] = NFiles]
        /\ Goto(p, "recoverFiles")
        /\ UNCHANGED <<vault, failed, env>>
  /\ UNCHANGED <<request, lapsed, files, dirs, jphase, jimage, jshot, wsLock, mode,
                 image, snap, why>>

\* Mutant: whatever the target holds is replaced by the before-image.
RestoreFileUnchecked(p, f) ==
  /\ files' = [files EXCEPT ![f] = shot[p][f]]
  /\ UNCHANGED <<failed, env>>

\* Mutant: a write error while restoring is not reported.
RestoreFileIgnoresError(p, f) ==
  /\ \/ /\ files' = [files EXCEPT ![f] = IF @ = "after" THEN shot[p][f] ELSE @]
        /\ UNCHANGED env
     \/ Disturb /\ UNCHANGED files
  /\ UNCHANGED failed

\* Put back the before-image of target f if it holds the after-image.  A
\* failing write may or may not have replaced the file.
RestoreFile(p, f) ==
  \/ /\ files[f] = shot[p][f]
     /\ UNCHANGED <<files, failed, env>>
  \/ /\ files[f] \notin {shot[p][f], "after"}
     /\ failed' = failed \cup {p}
     /\ UNCHANGED <<files, env>>
  \/ /\ files[f] = "after"
     /\ files' = [files EXCEPT ![f] = shot[p][f]]
     /\ UNCHANGED <<failed, env>>
  \/ /\ files[f] = "after"
     /\ Disturb
     /\ \E v \in {"after", shot[p][f]} : files' = [files EXCEPT ![f] = v]
     /\ failed' = failed \cup {p}

\* restore_journal_file_checked, last target to first.  The command ends with
\* RollbackIncomplete if the vault or any file could not be put back.
RecoverFiles(p) ==
  /\ pc[p] = "recoverFiles"
  /\ \/ /\ k[p] > 0
        /\ k' = [k EXCEPT ![p] = k[p] - 1]
        /\ RestoreFile(p, k[p])
        /\ UNCHANGED <<pc, locks, mode, image, snap, why>>
     \/ /\ k[p] = 0 /\ p \notin failed
        /\ Goto(p, "recoverMark")
        /\ UNCHANGED <<locks, memory, files, env>>
     \/ /\ k[p] = 0 /\ p \in failed
        /\ Exit(p)
        /\ UNCHANGED <<files, env>>
  /\ UNCHANGED <<request, lapsed, dirs, vault, jphase, jimage, jshot>>

\* set_phase(RolledBack) writes the record this process loaded, whatever has
\* become of the journal file since.
RecoverMark(p) ==
  /\ pc[p] = "recoverMark"
  /\ \/ /\ Persist(p, "RolledBack")
        /\ wsLock' = NoProc
        /\ Goto(p, "rolledBack")
        /\ UNCHANGED <<projLock, memory, env>>
     \/ /\ PersistFaults(p, "RolledBack")
        /\ Exit(p)
  /\ UNCHANGED <<request, lapsed, files, dirs, vault>>

-----------------------------------------------------------------------------
(* The request store's answers to a finished recovery or apply             *)

\* JournalRecovery::RolledBack: a claimed request becomes RolledBack; a process
\* that had read Pending leaves the record alone.  StateConflict ends the
\* command before the journal is cleared.
RolledBack(p) ==
  /\ pc[p] = "rolledBack"
  /\ IF mode[p] = "Pending" \/ request = "Claimed"
       THEN /\ request' = IF mode[p] = "Pending" THEN request ELSE "RolledBack"
            /\ Goto(p, "clear")
            /\ UNCHANGED <<locks, memory>>
       ELSE Exit(p) /\ UNCHANGED request
  /\ UNCHANGED <<lapsed, files, dirs, vault, jphase, jimage, jshot, env>>

\* JournalRecovery::Absent after a failed apply: nothing was journaled.
Absent(p) ==
  /\ pc[p] = "absent"
  /\ request' = IF request = "Claimed" THEN "RolledBack" ELSE request
  /\ Exit(p)
  /\ UNCHANGED <<lapsed, files, dirs, vault, jphase, jimage, jshot, env>>

\* Mutant: the receipt is recorded whatever the request's state.
CompleteUnchecked(p) ==
  /\ pc[p] = "complete"
  /\ request' = "Applied"
  /\ Goto(p, "clear")
  /\ UNCHANGED <<lapsed, files, dirs, vault, jphase, jimage, jshot, env, locks, memory>>

\* persist_applied_request: only a claimed request becomes Applied.
Complete(p) ==
  /\ pc[p] = "complete"
  /\ IF request = "Claimed"
       THEN /\ request' = "Applied"
            /\ Goto(p, "clear")
            /\ UNCHANGED <<locks, memory>>
       ELSE Exit(p) /\ UNCHANGED request
  /\ UNCHANGED <<lapsed, files, dirs, vault, jphase, jimage, jshot, env>>

\* clear_setup_plan_journal removes whatever journal file is there.
ClearJournal(p) ==
  /\ pc[p] = "clear"
  /\ jphase' = "none" /\ jimage' = OldImage /\ jshot' = OldShot
  /\ Exit(p)
  /\ UNCHANGED <<request, lapsed, files, dirs, vault, env>>

-----------------------------------------------------------------------------
(* Confirmation and claim                                                  *)

\* The reader of a claimed request re-plans under the workspace lock, then the
\* person at the terminal types the confirmation or does not.
Confirm(p) ==
  /\ pc[p] = "confirm"
  /\ mode[p] = "Claimed" => wsLock = NoProc
  /\ \/ /\ mode[p] = "Claimed" => SealMatches
        /\ Goto(p, IF mode[p] = "Pending" THEN "claim" ELSE "applyLock")
        /\ UNCHANGED <<locks, memory>>
     \/ Exit(p)
  /\ UNCHANGED <<shared, env>>

\* claim_exact: the only transition out of Pending other than expiry.
Claim(p) ==
  /\ pc[p] = "claim"
  /\ IF request = "Pending" /\ ~PendingExpired
       THEN /\ request' = "Claimed"
            /\ Goto(p, "applyLock")
            /\ UNCHANGED <<locks, memory>>
       ELSE /\ request' = IF PendingExpired THEN "Expired" ELSE request
            /\ Exit(p)
  /\ UNCHANGED <<lapsed, files, dirs, vault, jphase, jimage, jshot, env>>

-----------------------------------------------------------------------------
(* apply_setup_plan_durable                                                *)

ApplyLock(p) ==
  /\ pc[p] = "applyLock"
  /\ wsLock = NoProc
  /\ wsLock' = p
  /\ Goto(p, "prepare")
  /\ UNCHANGED <<shared, projLock, memory, env>>

\* abort_participant: roll the (uncommitted) participant back, which only
\* drops the project lock, and return the error.
Abort(p) == projLock' = Release(projLock, p) /\ ApplyFails(p)

\* First validation of the seal, which on drift returns without aborting the
\* participant; then participant.prepare snapshots the vault values.
Prepare(p) ==
  /\ pc[p] = "prepare"
  /\ \/ /\ ~SealMatches
        /\ ApplyFails(p)
        /\ UNCHANGED <<projLock, image, env>>
     \/ /\ SealMatches
        /\ image' = [image EXCEPT ![p] = vault]
        /\ Goto(p, "validate")
        /\ UNCHANGED <<locks, mode, env>>
     \/ /\ SealMatches /\ Disturb
        /\ Abort(p)
        /\ UNCHANGED image
  /\ UNCHANGED <<shared, k, snap, failed, why>>

\* Second validation of the seal, so that nothing "can silently alter a planned
\* file during staging".  The look at the root after it aborts nothing.
Validate(p) ==
  /\ pc[p] = "validate"
  /\ \/ SealMatches /\ Goto(p, "capture") /\ UNCHANGED <<locks, mode, env>>
     \/ ~SealMatches /\ Abort(p) /\ UNCHANGED env
     \/ SealMatches /\ Disturb /\ Abort(p)
     \/ SealMatches /\ Disturb /\ ApplyFails(p) /\ UNCHANGED projLock
  /\ UNCHANGED <<shared, k, image, snap, failed, why>>

\* capture_snapshot reads every target again, and what it finds then is the
\* before-image; it retains the handle of every parent directory that exists.
Capture(p) ==
  /\ pc[p] = "capture"
  /\ \/ /\ shot' = [shot EXCEPT ![p] = files]
        /\ parents' = [parents EXCEPT ![p] = dirs]
        /\ made' = [made EXCEPT ![p] = {}]
        /\ Goto(p, "journal")
        /\ UNCHANGED <<locks, mode, env>>
     \/ Disturb /\ Abort(p) /\ UNCHANGED snap
  /\ UNCHANGED <<shared, k, image, failed, why>>

\* DurableJournal::create, the write-ahead record of every before-image.
CreateJournal(p) ==
  /\ pc[p] = "journal"
  /\ \/ /\ Persist(p, "Prepared")
        /\ k' = [k EXCEPT ![p] = 1]
        /\ Goto(p, "write")
        /\ UNCHANGED <<wsLock, mode, env>>
     \/ /\ PersistFaults(p, "Prepared")
        /\ ApplyFails(p)
        /\ UNCHANGED k
  /\ UNCHANGED <<request, lapsed, files, dirs, vault, projLock, image, snap,
                 failed, why>>

\* Start restore_snapshot_checked, from the last target down.
StartUndo(p, cause) ==
  /\ Goto(p, "undo")
  /\ k' = [k EXCEPT ![p] = NFiles]
  /\ failed' = failed \ {p}
  /\ why' = [why EXCEPT ![p] = cause]

\* One iteration of apply_mutations: create the parent directory if the
\* snapshot has none, compare with the before-image, replace, verify.
WriteFile(p) ==
  LET f == k[p]
      Parent == /\ dirs' = dirs \cup {f}
                /\ parents' = [parents EXCEPT ![p] = @ \cup {f}]
                /\ made' = [made EXCEPT ![p] =
                              IF f \in dirs THEN @ ELSE @ \cup {f}]
                /\ UNCHANGED shot
  IN
  /\ pc[p] = "write" /\ f <= NFiles
  /\ \/ /\ Parent
        /\ files[f] = shot[p][f]
        /\ files' = [files EXCEPT ![f] = "after"]
        /\ k' = [k EXCEPT ![p] = f + 1]
        /\ UNCHANGED <<pc, failed, why, env>>
     \/ /\ Parent
        /\ files[f] # shot[p][f]
        /\ StartUndo(p, "write")
        /\ UNCHANGED <<files, env>>
     \/ /\ Parent                      \* write_at fails before or after rename
        /\ files[f] = shot[p][f] /\ Disturb
        /\ \E v \in {files[f], "after"} : files' = [files EXCEPT ![f] = v]
        /\ StartUndo(p, "write")
     \/ /\ f \notin dirs /\ Disturb    \* the parent cannot be created
        /\ StartUndo(p, "write")
        /\ UNCHANGED <<files, dirs, snap>>
  /\ UNCHANGED <<request, lapsed, vault, jphase, jimage, jshot, locks, mode, image>>

\* finalize_snapshot: every target must still hold what was written.
Finalize(p) ==
  /\ pc[p] = "write" /\ k[p] > NFiles
  /\ IF \A f \in Files : files[f] = "after"
       THEN Goto(p, "filesApplied") /\ UNCHANGED <<k, failed, why>>
       ELSE StartUndo(p, "finalize")
  /\ UNCHANGED <<shared, locks, mode, image, snap, env>>

\* set_phase(FilesApplied), set_phase(ParticipantCommitStarted) and, once the
\* participant has committed, set_phase(Applied).  A failing one returns the
\* error at once, with nothing undone.
SetPhase(p, at, phase, next) ==
  /\ pc[p] = at
  /\ \/ /\ Persist(p, phase)
        /\ Goto(p, next)
        /\ wsLock' = IF phase = "Applied" THEN NoProc ELSE wsLock
        /\ k' = [k EXCEPT ![p] = 1]
        /\ UNCHANGED <<mode, env>>
     \/ /\ PersistFaults(p, phase)
        /\ ApplyFails(p)
        /\ UNCHANGED k
  /\ UNCHANGED <<request, lapsed, files, dirs, vault, projLock, image, snap,
                 failed, why>>

\* Mutant: the journal says Applied before the vault is written.
SetAppliedTooSoon(p) == SetPhase(p, "commitStarted", "Applied", "commit")

SetFilesApplied(p) ==
  SetPhase(p, "filesApplied", "FilesApplied", "commitStarted")

SetCommitStarted(p) ==
  SetPhase(p, "commitStarted", "CommitStarted", "commit")

SetApplied(p) ==
  SetPhase(p, "applied", "Applied", "complete")

\* Mutant: the snapshot is not compared with the vault before storing.
NoValueCheck(p, s) == TRUE

\* The vault still holds the value the snapshot of s recorded.
ValueMatches(p, s) == vault[s] = image[p][s]

\* VaultSetupParticipant::commit stores one secret per step; a value that is
\* no longer the snapshot's, or a vault error, starts the rollback.  At the
\* end it drops the project lock, before the journal says Applied.
Commit(p) ==
  LET s == k[p] IN
  /\ pc[p] = "commit"
  /\ \/ /\ s <= NSecrets
        /\ ValueMatches(p, s)
        /\ vault' = [vault EXCEPT ![s] = "secret"]
        /\ k' = [k EXCEPT ![p] = s + 1]
        /\ UNCHANGED <<pc, projLock, failed, why, env>>
     \/ /\ s <= NSecrets
        /\ ~ValueMatches(p, s)
        /\ StartUndo(p, "commit")
        /\ UNCHANGED <<vault, projLock, env>>
     \/ /\ s <= NSecrets
        /\ ValueMatches(p, s) /\ Disturb
        /\ \E v \in {vault[s], "secret"} : vault' = [vault EXCEPT ![s] = v]
        /\ StartUndo(p, "commit")
        /\ UNCHANGED projLock
     \/ /\ s > NSecrets
        /\ projLock' = Release(projLock, p)
        /\ Goto(p, "applied")
        /\ UNCHANGED <<vault, k, failed, why, env>>
  /\ UNCHANGED <<request, lapsed, files, dirs, jphase, jimage, jshot, wsLock, mode,
                 image, snap>>

-----------------------------------------------------------------------------
(* The apply's own rollback: restore_snapshot_checked, then the vault      *)

\* A target without a parent handle, or an unreadable one, ends the loop at
\* once.  After the loop the created directories that are empty are removed.
UndoFiles(p) ==
  LET f == k[p]
      ToVault == Goto(p, "undoVault") /\ k' = [k EXCEPT ![p] = NSecrets]
  IN
  /\ pc[p] = "undo"
  /\ \/ /\ f > 0 /\ f \in parents[p]
        /\ RestoreFile(p, f)
        /\ k' = [k EXCEPT ![p] = f - 1]
        /\ UNCHANGED <<pc, dirs>>
     \/ /\ f > 0
        /\ \/ f \notin parents[p] /\ UNCHANGED env
           \/ f \in parents[p] /\ Disturb
        /\ failed' = failed \cup {p}
        /\ ToVault
        /\ UNCHANGED <<files, dirs>>
     \/ /\ f = 0
        /\ dirs' = dirs \ {d \in made[p] : files[d] = "before"}
        /\ ToVault
        /\ UNCHANGED <<files, failed, env>>
  /\ UNCHANGED <<request, lapsed, vault, jphase, jimage, jshot, locks, mode, image,
                 snap, why>>

\* participant.rollback(): the vault loop only if commit had started.  A write
\* failure that was undone completely marks the journal, ignoring any error.
UndoVault(p) ==
  /\ pc[p] = "undoVault"
  /\ \/ /\ why[p] = "commit"
        /\ RestoreEntry(p)
        /\ UNCHANGED <<jphase, jimage, jshot, pc, locks, mode>>
     \/ /\ why[p] = "commit" => k[p] = 0
        /\ Abort(p)
        /\ IF why[p] = "write" /\ p \notin failed
             THEN \/ Persist(p, "RolledBack") /\ UNCHANGED env
                  \/ PersistFaults(p, "RolledBack")
             ELSE UNCHANGED <<jphase, jimage, jshot, env>>
        /\ UNCHANGED <<vault, k, failed>>
  /\ UNCHANGED <<request, lapsed, files, dirs, image, snap, why>>

-----------------------------------------------------------------------------
(* The environment                                                         *)

\* A process dies: its advisory locks are dropped, the disk is as it was.
Crash(p) ==
  /\ pc[p] # "idle"
  /\ Disturb
  /\ Exit(p)
  /\ UNCHANGED shared

\* REQUEST_TTL_SECS pass.
Tick ==
  /\ ~lapsed
  /\ lapsed' = TRUE
  /\ UNCHANGED <<request, files, dirs, vault, jphase, jimage, jshot, locks, pc, memory,
                 env>>

\* Someone edits a planned target, taking no lock.
EditFile(f) ==
  /\ Disturb
  /\ \E v \in Edits \ {files[f]} : files' = [files EXCEPT ![f] = v]
  /\ dirs' = dirs \cup {f}
  /\ UNCHANGED <<request, lapsed, vault, jphase, jimage, jshot, locks, pc, memory>>

\* Someone stores another value under a planned name.
VaultForeign(s) ==
  /\ vault[s] # "other"
  /\ Disturb
  /\ vault' = [vault EXCEPT ![s] = "other"]
  /\ UNCHANGED <<request, lapsed, files, dirs, jphase, jimage, jshot, locks, pc,
                 memory>>

-----------------------------------------------------------------------------
\* What a process does by itself, once started and while not at the prompt.
Work(p) ==
  \/ RebuildPlan(p) \/ LockProject(p) \/ LoadJournal(p) \/ RecoverLock(p)
  \/ RecoverCheck(p) \/ RecoverPayload(p) \/ RecoverVault(p) \/ RecoverFiles(p)
  \/ RecoverMark(p) \/ RolledBack(p) \/ Absent(p) \/ Complete(p)
  \/ ClearJournal(p) \/ Claim(p) \/ ApplyLock(p) \/ Prepare(p) \/ Validate(p)
  \/ Capture(p) \/ CreateJournal(p) \/ WriteFile(p) \/ Finalize(p) \/ SetFilesApplied(p)
  \/ SetCommitStarted(p) \/ Commit(p) \/ SetApplied(p) \/ UndoFiles(p)
  \/ UndoVault(p)

Foreign ==
  \/ \E f \in Files : EditFile(f)
  \/ \E s \in Secrets : VaultForeign(s)

Next ==
  \/ \E p \in Procs : ReadStatus(p) \/ Confirm(p) \/ Work(p) \/ Crash(p)
  \/ Tick
  \/ Foreign

Spec == Init /\ [][Next]_vars

\* Blocking lock acquisitions, which a waiter is eventually granted.
TakesWorkspaceLock(p) == RebuildPlan(p) \/ RecoverLock(p) \/ ApplyLock(p)

FairSpec ==
  Spec /\ \A p \in Procs : WF_vars(Work(p)) /\ SF_vars(TakesWorkspaceLock(p))

\* The person at each terminal answers the prompt and, as every error message
\* of run_apply asks, runs the command again.
RerunSpec ==
  FairSpec /\ \A p \in Procs : WF_vars(ReadStatus(p)) /\ WF_vars(Confirm(p))

-----------------------------------------------------------------------------
(* Properties                                                              *)

\* Where a process can be.
Labels ==
  {"idle", "plan", "lockProject", "load", "recoverLock", "recoverCheck",
   "recoverPayload", "recoverVault", "recoverFiles", "recoverMark",
   "rolledBack", "absent", "complete", "clear", "confirm", "claim",
   "applyLock", "prepare", "validate", "capture", "journal", "write", "filesApplied",
   "commitStarted", "commit", "applied", "undo", "undoVault"}

\* What is shared: the disk, the vault, the request store and the locks.
SharedType ==
  /\ request \in RequestState /\ lapsed \in BOOLEAN
  /\ files \in [Files -> FileVal] /\ dirs \in SUBSET Files
  /\ vault \in [Secrets -> VaultVal]
  /\ jphase \in JournalPhase \cup {"none"}
  /\ jimage \in [Secrets -> VaultVal] /\ jshot \in [Files -> FileVal]
  /\ wsLock \in Procs \cup {NoProc} /\ projLock \in Procs \cup {NoProc}
  /\ env \in 0..MaxDisturbances

\* What each process keeps in memory.
LocalType ==
  /\ pc \in [Procs -> Labels]
  /\ mode \in [Procs -> {"Pending", "Claimed", "post"}]
  /\ k \in [Procs -> Nat]
  /\ image \in [Procs -> [Secrets -> VaultVal]]
  /\ shot \in [Procs -> [Files -> FileVal]]
  /\ parents \in [Procs -> SUBSET Files]
  /\ made \in [Procs -> SUBSET Files]
  /\ failed \in SUBSET Procs
  /\ why \in [Procs -> {"write", "finalize", "commit"}]

\* A loop index stays in the range of the loop its process is in.
LoopBounds(p) ==
  /\ pc[p] = "write" => k[p] \in 1..(NFiles + 1)
  /\ pc[p] = "commit" => k[p] \in 1..(NSecrets + 1)
  /\ pc[p] \in {"undo", "recoverFiles"} => k[p] \in 0..NFiles
  /\ pc[p] \in {"undoVault", "recoverVault"} => k[p] \in 0..NSecrets

\* Every variable has its type, and no loop over the files or the vault entries
\* runs past either end.
TypeOK == SharedType /\ LocalType /\ \A p \in Procs : LoopBounds(p)

\* A secret is never lost: while its dotenv file holds only the placeholder,
\* the vault holds a value for it or an unfinished journal can bring the
\* plaintext back.
SecretNeverLost ==
  \A s \in Secrets :
    files[Dotenv[s]] = "after" => vault[s] # "old" \/ jphase \in Incomplete

\* A request the store calls Applied left no file and no vault entry unapplied.
AppliedIsApplied ==
  request = "Applied" =>
    /\ \A f \in Files : files[f] # "before"
    /\ \A s \in Secrets : vault[s] # "old"

\* A request the store calls RolledBack left no written file and no stored
\* secret behind.
RolledBackIsClean ==
  request = "RolledBack" =>
    /\ \A f \in Files : files[f] # "after"
    /\ \A s \in Secrets : vault[s] # "secret"

\* Every effect the program has made is accounted for by an unfinished or an
\* applied journal, or by a request already recorded as Applied.
EffectsAccountedFor ==
  (\/ \E f \in Files : files[f] = "after"
   \/ \E s \in Secrets : vault[s] = "secret")
    => jphase \in Incomplete \cup {"Applied"} \/ request = "Applied"

\* A target that somebody else has edited is written only while the unfinished
\* journal on disk holds that very edit as the before-image: no apply, no
\* rollback and no recovery of a single process replaces any other.
EditsPreserved ==
  [][\A f \in Files : files[f] \in Edits /\ files'[f] # files[f] =>
       EditFile(f) \/ (jphase \in Incomplete /\ jshot[f] = files[f])]_vars

\* With any number of processes an edit is replaced by nothing but an apply that
\* took this very edit for the before-image, never by a rollback or a recovery.
EditsReplacedBySnapshot ==
  [][\A f \in Files : files[f] \in Edits /\ files'[f] # files[f] =>
       \/ EditFile(f)
       \/ \E p \in Procs : WriteFile(p) /\ k[p] = f /\ shot[p][f] = files[f]]_vars

\* What the comment on the second validation says: no edit is written over.  Not
\* so for one that is saved between that validation and capture_snapshot.
EditsSurvive ==
  [][\A f \in Files : files[f] \in Edits /\ files'[f] # files[f] => EditFile(f)]_vars

\* A vault value somebody else stored is replaced only while the journal on
\* disk records that value as the before-image.
OverwriteJournaled ==
  [][\A s \in Secrets : vault[s] = "other" /\ vault'[s] # "other" =>
       jphase = "CommitStarted" /\ jimage[s] = "other"]_vars

Lifecycle == INSTANCE RequestLifecycle

\* However many processes run the command, the request is claimed once and its
\* recorded outcome is never replaced by another.
LifecycleKept == Lifecycle!Spec

\* A started command ends or asks for confirmation, whoever holds the locks.
ApplyTerminates ==
  \A p \in Procs :
    (pc[p] \notin {"idle", "confirm"}) ~> (pc[p] \in {"idle", "confirm"})

\* Rerunning the command resolves an unfinished journal unless a file or a
\* vault entry has been changed by someone else.
RecoverySettles ==
  jphase \in Incomplete ~>
    \/ jphase \notin Incomplete
    \/ \E f \in Files : files[f] \in Edits
    \/ \E s \in Secrets : vault[s] = "other"

=============================================================================
