---------------------------- MODULE InitTransaction ----------------------------
(***************************************************************************)
(* commit_init of phantom-vault (init_transaction.rs): vault entries and   *)
(* project files are changed together, the tokenized dotenv last, and an   *)
(* error takes everything back.                                            *)
(*                                                                         *)
(* A transaction reviews the project, takes the project lock, snapshots    *)
(* every file and entry, writes the files that are not last, swaps the     *)
(* entries, checks the sources of copies, and writes the last files.  A    *)
(* file is checked, replaced by rename and checked again; an entry is      *)
(* changed by the vault's compare-and-swap.  There is no journal: a crash  *)
(* leaves what was done.  Editors do not know the lock; Phantom's own      *)
(* vault commands do.                                                      *)
(*                                                                         *)
(* File identity is who wrote the file and for what.  The targets of one   *)
(* phase are taken in any order.                                           *)
(***************************************************************************)
EXTENDS Integers, FiniteSets

CONSTANTS
  Txns,       \* calls of commit_init with the same plan
  Early,      \* files written before the vault
  Last,       \* files marked commit_last: the dotenv that gets tokens
  Nested,     \* early files whose parent directory is missing
  Secrets,    \* entries the plan writes
  Deletes,    \* those of them it deletes
  Copies,     \* those of them that copy Source with its protection
  Source,     \* the entry a copy is taken from
  None,
  Faults,     \* which of "file", "rollback", "vault" can report an error
  Crashes,    \* whether a process can die
  MaxEdits    \* bound on the edits of others

Files   == Early \cup Last
Entries == Secrets \cup {Source}

\* What the constants have to satisfy.
InitAssumption ==
  /\ Early \cap Last = {} /\ Nested \subseteq Early
  /\ Files \cap Entries = {}
  /\ Deletes \cup Copies \subseteq Secrets /\ Deletes \cap Copies = {}
  /\ Source \notin Secrets
  /\ None \notin Txns \cup Files \cup Entries
  /\ Faults \subseteq {"file", "rollback", "vault"}
  /\ Crashes \in BOOLEAN /\ MaxEdits \in Nat

\* What read_regular returns.  "old" is the reviewed plaintext, "new" what the
\* plan writes; edit 0 is the file as it was, 1 a commit, 2 a restoration.
AnchoredRead ==
  [bytes : {"absent", "old", "new"}, by : Txns \cup {None}, edit : Nat]

\* Stands for the missing parent directory among the receipts.
Parent == "parent directory"

AbsentFile == [bytes |-> "absent", by |-> None, edit |-> 0]

\* An entry with its lifecycle metadata and its last validation verdict.
Entry ==
  [value : {"none", "prior", "new", "other"}, by : Txns \cup {None},
   meta : {"none", "fresh", "kept", "demoted"}, valid : BOOLEAN]

NoEntry == [value |-> "none", by |-> None, meta |-> "none", valid |-> FALSE]

VARIABLES
  files,     \* the project's files
  dir,       \* who made the parent directory of the nested files, or None
  vault,     \* the vault's entries
  lock,      \* holder of the project transaction lock, or None
  pc,        \* phase of each transaction
  todo,      \* targets left in the phase
  cur,       \* the file being committed
  seen,      \* files and entries as they were reviewed
  snap,      \* files and entries as they were snapshotted
  touched,   \* targets the transaction has to take back
  receipts,  \* files whose exact committed effect is known
  ok,        \* whether the rollback has succeeded so far
  edits      \* edits made by others

vars == <<files, dir, vault, lock, pc, todo, cur, seen, snap, touched,
          receipts, ok, edits>>

local == <<seen, snap, touched, receipts, ok>>
world == <<files, dir, vault>>

NoView == [files |-> [f \in Files |-> AbsentFile], vault |-> [s \in Entries |-> NoEntry]]
View   == [files |-> files, vault |-> vault]

\* Existing files and entries are anything a project may have; the plan deletes
\* and copies only what is there, and creates a copy.
Init ==
  /\ files \in [Files -> {AbsentFile, [bytes |-> "old", by |-> None, edit |-> 0]}]
  /\ \A f \in Last : files[f] # AbsentFile
  /\ \A f \in Nested : files[f] = AbsentFile
  /\ dir = None
  /\ vault \in [Entries -> {NoEntry} \cup
       {[value |-> "prior", by |-> None, meta |-> "kept", valid |-> b] : b \in BOOLEAN}]
  /\ \A s \in Deletes \cup {Source} : vault[s] # NoEntry
  /\ \A s \in Copies : vault[s] = NoEntry
  /\ lock = None
  /\ pc = [t \in Txns |-> "idle"]
  /\ todo = [t \in Txns |-> {}]
  /\ cur = [t \in Txns |-> None]
  /\ seen = [t \in Txns |-> NoView] /\ snap = [t \in Txns |-> NoView]
  /\ touched = [t \in Txns |-> {}] /\ receipts = [t \in Txns |-> {}]
  /\ ok = [t \in Txns |-> TRUE]
  /\ edits = 0

-----------------------------------------------------------------------------
(* Moving through the phases.                                              *)

Enter(t, phase, targets) ==
  /\ pc' = [pc EXCEPT ![t] = phase]
  /\ todo' = [todo EXCEPT ![t] = targets]

\* A target is done; the rest of the phase is left.
Done(t, x) == todo' = [todo EXCEPT ![t] = @ \ {x}] /\ UNCHANGED pc

\* Mutant: a report does not drop the lock.
ReturnLocked(t, result) ==
  /\ pc' = [pc EXCEPT ![t] = result]
  /\ todo' = [todo EXCEPT ![t] = {}]
  /\ UNCHANGED lock

\* A report ends the call and drops the lock.
Return(t, result) ==
  /\ pc' = [pc EXCEPT ![t] = result]
  /\ todo' = [todo EXCEPT ![t] = {}]
  /\ lock' = None

\* An error during the commit: the files are taken back first.
Fail(t) == Enter(t, "roll_files", touched'[t] \cap Files) /\ UNCHANGED lock

\* The caller looks at the project without the lock.
Review(t) ==
  /\ pc[t] = "idle"
  /\ seen' = [seen EXCEPT ![t] = View]
  /\ Enter(t, "reviewed", {})
  /\ UNCHANGED <<world, lock, cur, snap, touched, receipts, ok, edits>>

Begin(t) ==
  /\ pc[t] = "reviewed" /\ lock = None
  /\ lock' = t
  /\ Enter(t, "snapshot", Files \cup Secrets)
  /\ UNCHANGED <<world, cur, local, edits>>

\* verify_copy_source, for the value and the metadata read at review time.
SourceUnchanged(t) ==
  LET before == seen[t].vault[Source] IN
    vault[Source].value = before.value /\ vault[Source].meta = before.meta

\* snapshot_file and the preflight of an entry.  A drift from what was reviewed
\* refuses the plan before anything is written.
Snapshot(t) ==
  /\ pc[t] = "snapshot"
  /\ \E x \in todo[t] :
       /\ x \in Files => todo[t] \cap Files # {}
       /\ x \in Secrets => todo[t] \cap Files = {}
       /\ \/ /\ x \in Files /\ files[x].bytes = seen[t].files[x].bytes
             /\ snap' = [snap EXCEPT ![t].files[x] = files[x]]
             /\ Done(t, x) /\ UNCHANGED lock
          \/ /\ x \in Secrets /\ vault[x].value = seen[t].vault[x].value
             /\ x \in Copies => SourceUnchanged(t)
             /\ snap' = [snap EXCEPT ![t].vault[x] = vault[x]]
             /\ Done(t, x) /\ UNCHANGED lock
          \/ /\ \/ x \in Files /\ files[x].bytes # seen[t].files[x].bytes
                \/ x \in Secrets /\ vault[x].value # seen[t].vault[x].value
                \/ x \in Copies /\ ~SourceUnchanged(t)
             /\ Return(t, "refused") /\ UNCHANGED snap
  /\ UNCHANGED <<world, cur, seen, touched, receipts, ok, edits>>

\* Mutant: the dotenv is written before the entries its tokens stand for.
FollowingFilesFirst ==
  [snapshot |-> "early", early |-> "last", last |-> "secrets",
   secrets |-> "sources", sources |-> "finish", roll_files |-> "roll_dirs"]

\* The order of the phases: the dotenv comes after every entry.
Following ==
  [snapshot |-> "early", early |-> "secrets", secrets |-> "sources",
   sources |-> "last", last |-> "finish", roll_files |-> "roll_dirs"]

Targets ==
  [early |-> Early, secrets |-> Secrets, sources |-> Copies, last |-> Last,
   finish |-> {}, roll_dirs |-> {}]

\* A phase without targets left is over.
Advance(t) ==
  /\ todo[t] = {} /\ cur[t] = None
  /\ \/ /\ pc[t] \in DOMAIN Following
        /\ Enter(t, Following[pc[t]], Targets[Following[pc[t]]])
        /\ UNCHANGED lock
     \/ pc[t] = "finish" /\ Return(t, "committed")
     \/ pc[t] = "roll_secrets" /\ Return(t, IF ok[t] THEN "restored" ELSE "incomplete")
  /\ UNCHANGED <<world, cur, local, edits>>

-----------------------------------------------------------------------------
(* commit_file.                                                            *)

Committed(t) == [bytes |-> "new", by |-> t, edit |-> 1]

\* create_missing_parents: the receipt of a directory may be lost to an error.
MakeParent(t) ==
  /\ pc[t] = "early" /\ cur[t] = None /\ dir = None
  /\ todo[t] \cap Nested # {}
  /\ \/ /\ dir' = t /\ receipts' = [receipts EXCEPT ![t] = @ \cup {Parent}]
        /\ UNCHANGED ok
        /\ \/ UNCHANGED <<pc, todo, lock, touched>>
           \/ "file" \in Faults /\ UNCHANGED touched /\ Fail(t)
     \/ /\ "file" \in Faults /\ UNCHANGED <<touched, receipts>> /\ Fail(t)
        /\ \/ dir' = t /\ ok' = [ok EXCEPT ![t] = FALSE]
           \/ UNCHANGED <<dir, ok>>
  /\ UNCHANGED <<files, vault, cur, seen, snap, edits>>

\* The check of the before-image.
CheckFile(t) ==
  /\ pc[t] \in {"early", "last"} /\ cur[t] = None /\ UNCHANGED touched
  /\ \E f \in todo[t] :
       /\ f \in Nested => dir # None
       /\ \/ files[f] = snap[t].files[f] /\ cur' = [cur EXCEPT ![t] = f]
             /\ UNCHANGED <<pc, todo, lock>>
          \/ files[f] # snap[t].files[f] /\ UNCHANGED cur /\ Fail(t)
  /\ UNCHANGED <<world, seen, snap, receipts, ok, edits>>

\* The rename.  It can succeed with a receipt and an error of the directory
\* sync; an error before it leaves the file alone.
WriteFile(t) ==
  LET f == cur[t] IN
  /\ pc[t] \in {"early", "last"} /\ f \in todo[t]
  /\ \/ /\ files' = [files EXCEPT ![f] = Committed(t)]
        /\ touched' = [touched EXCEPT ![t] = @ \cup {f}]
        /\ receipts' = [receipts EXCEPT ![t] = @ \cup {f}]
        /\ \/ Done(t, f) /\ UNCHANGED <<lock, cur>>
           \/ "file" \in Faults /\ Fail(t) /\ cur' = [cur EXCEPT ![t] = None]
     \/ /\ "file" \in Faults
        /\ touched' = [touched EXCEPT ![t] =
             IF files[f] = snap[t].files[f] THEN @ ELSE @ \cup {f}]
        /\ Fail(t) /\ cur' = [cur EXCEPT ![t] = None]
        /\ UNCHANGED <<files, receipts>>
  /\ UNCHANGED <<dir, vault, seen, snap, ok, edits>>

\* The check of the committed effect.
VerifyFile(t) ==
  LET f == cur[t] IN
  /\ pc[t] \in {"early", "last"} /\ f # None /\ f \notin todo[t]
  /\ cur' = [cur EXCEPT ![t] = None]
  /\ UNCHANGED touched
  /\ IF files[f] = Committed(t) THEN UNCHANGED <<pc, todo, lock>> ELSE Fail(t)
  /\ UNCHANGED <<world, seen, snap, receipts, ok, edits>>

-----------------------------------------------------------------------------
(* Vault entries.                                                          *)

Changes(t, s) == snap[t].vault[s].value # "new"

\* compare_and_swap: a new entry gets fresh metadata, a replaced one keeps its
\* metadata and loses the verdict about the old value, a deleted one is gone.
Swapped(t, s) ==
  IF s \in Deletes THEN NoEntry
  ELSE [value |-> "new", by |-> t,
        meta |-> IF vault[s].value = "none" THEN "fresh" ELSE vault[s].meta,
        valid |-> vault[s].valid /\ ~Changes(t, s)]

\* The swap, the check of the value, and the inherited metadata in one batch
\* with the check of the source's.  Phantom's own writers wait for the lock.
SwapSecret(t) ==
  /\ pc[t] = "secrets" /\ cur[t] = None
  /\ \E s \in todo[t] :
       \/ /\ vault[s].value # snap[t].vault[s].value
          /\ UNCHANGED <<vault, touched, cur>> /\ Fail(t)
       \/ /\ vault[s].value = snap[t].vault[s].value
          /\ \/ /\ vault' = [vault EXCEPT ![s] = Swapped(t, s)]
                /\ touched' = [touched EXCEPT ![t] = @ \cup {s}]
                /\ \/ s \notin Copies /\ Done(t, s) /\ UNCHANGED <<lock, cur>>
                   \/ s \in Copies /\ cur' = [cur EXCEPT ![t] = s]
                      /\ UNCHANGED <<pc, todo, lock>>
                   \/ "vault" \in Faults /\ Fail(t) /\ UNCHANGED cur
             \/ /\ "vault" \in Faults /\ UNCHANGED <<vault, touched, cur>>
                /\ Fail(t)
  /\ UNCHANGED <<files, dir, seen, snap, receipts, ok, edits>>

\* Mutant: a copy keeps the metadata of a new entry.
ProtectSkipped(t) ==
  /\ pc[t] = "secrets" /\ cur[t] # None
  /\ cur' = [cur EXCEPT ![t] = None]
  /\ Done(t, cur[t])
  /\ UNCHANGED <<world, lock, local, edits>>

\* apply_inherited_protection.
Protect(t) ==
  LET s == cur[t] IN
  /\ pc[t] = "secrets" /\ s # None
  /\ cur' = [cur EXCEPT ![t] = None]
  /\ UNCHANGED touched
  /\ \/ /\ vault[Source].meta = seen[t].vault[Source].meta
        /\ vault' = [vault EXCEPT ![s].meta = seen[t].vault[Source].meta]
        /\ \/ Done(t, s) /\ UNCHANGED lock
           \/ "vault" \in Faults /\ Fail(t)
     \/ /\ vault[Source].meta # seen[t].vault[Source].meta \/ "vault" \in Faults
        /\ Fail(t) /\ UNCHANGED vault
  /\ UNCHANGED <<files, dir, seen, snap, receipts, ok, edits>>

\* Every source once more, before the last file makes the copy usable.
VerifySources(t) ==
  /\ pc[t] = "sources" /\ UNCHANGED touched
  /\ \E s \in todo[t] :
       \/ SourceUnchanged(t) /\ Done(t, s) /\ UNCHANGED lock
       \/ ~SourceUnchanged(t) /\ Fail(t)
  /\ UNCHANGED <<world, cur, seen, snap, receipts, ok, edits>>

-----------------------------------------------------------------------------
(* Rollback: files, then directories, then entries, each only from the     *)
(* exact effect of this transaction.  It goes on after a failure.          *)

Failed(t) == ok' = [ok EXCEPT ![t] = FALSE]

CheckRollback(t) ==
  /\ pc[t] = "roll_files" /\ cur[t] = None
  /\ \E f \in todo[t] :
       \/ /\ f \in receipts[t] /\ files[f] = Committed(t)
          /\ cur' = [cur EXCEPT ![t] = f] /\ UNCHANGED <<todo, pc, ok>>
       \/ /\ f \notin receipts[t] \/ files[f] # Committed(t)
          /\ Done(t, f) /\ Failed(t) /\ UNCHANGED cur
  /\ UNCHANGED <<world, lock, seen, snap, touched, receipts, edits>>

Restoration(t, f) ==
  IF snap[t].files[f].bytes = "absent" THEN AbsentFile
  ELSE [bytes |-> snap[t].files[f].bytes, by |-> t, edit |-> 2]

\* The rename or the unlink.
RestoreFile(t) ==
  LET f == cur[t] IN
  /\ pc[t] = "roll_files" /\ f # None
  /\ cur' = [cur EXCEPT ![t] = None] /\ Done(t, f)
  /\ \/ files' = [files EXCEPT ![f] = Restoration(t, f)] /\ UNCHANGED ok
     \/ /\ "rollback" \in Faults /\ Failed(t)
        /\ files' \in {files, [files EXCEPT ![f] = Restoration(t, f)]}
  /\ UNCHANGED <<dir, vault, lock, seen, snap, touched, receipts, edits>>

\* remove_if_empty_exact, for a directory with a receipt.
RemoveParent(t) ==
  /\ pc[t] = "roll_dirs"
  /\ Enter(t, "roll_secrets", touched[t] \cap Secrets)
  /\ \/ Parent \notin receipts[t] /\ UNCHANGED <<dir, ok>>
     \/ /\ Parent \in receipts[t] /\ \A f \in Nested : files[f] = AbsentFile
        /\ dir' = None /\ UNCHANGED ok
     \/ /\ Parent \in receipts[t] /\ UNCHANGED dir /\ Failed(t)
        /\ (\E f \in Nested : files[f] # AbsentFile) \/ "rollback" \in Faults
  /\ UNCHANGED <<files, vault, lock, cur, seen, snap, touched, receipts, edits>>

\* The swap back, restore_deleted_metadata and restore_validation.
RestoredEntry(t, s) == snap[t].vault[s]

After(s) == IF s \in Deletes THEN "none" ELSE "new"

\* An error can come between the value and its metadata.
RollbackSecret(t) ==
  /\ pc[t] = "roll_secrets"
  /\ \E s \in todo[t] :
       /\ Done(t, s)
       /\ \/ /\ vault[s].value = After(s) /\ UNCHANGED ok
             /\ vault' = [vault EXCEPT ![s] = RestoredEntry(t, s)]
          \/ /\ vault[s].value # After(s) /\ UNCHANGED vault /\ Failed(t)
          \/ /\ vault[s].value = After(s) /\ "rollback" \in Faults /\ Failed(t)
             /\ vault' \in {vault, [vault EXCEPT ![s] =
                  [RestoredEntry(t, s) EXCEPT !.valid = FALSE,
                     !.meta = IF @ = "none" \/ s \notin Deletes THEN @ ELSE "fresh"]]}
  /\ UNCHANGED <<files, dir, lock, cur, seen, snap, touched, receipts, edits>>

-----------------------------------------------------------------------------
(* The others.                                                             *)

Finals == {"committed", "restored", "incomplete", "refused", "dead"}

Crash(t) ==
  /\ Crashes /\ pc[t] \notin Finals \cup {"idle"}
  /\ Enter(t, "dead", {})
  /\ lock' = IF lock = t THEN None ELSE lock
  /\ cur' = [cur EXCEPT ![t] = None]
  /\ UNCHANGED <<world, local, edits>>

\* Somebody saves a file: what is in it, or the plaintext of an older buffer.
EditFile(f) ==
  /\ edits < MaxEdits /\ edits' = edits + 1
  /\ f \in Nested => dir # None
  /\ \E b \in {"old", files[f].bytes} \ {"absent"} :
       files' = [files EXCEPT ![f] = [bytes |-> b, by |-> None, edit |-> edits + 3]]
  /\ UNCHANGED <<dir, vault, lock, pc, todo, cur, local>>

\* Another program changes an entry behind Phantom's back.
EditEntry(s) ==
  /\ edits < MaxEdits /\ edits' = edits + 1
  /\ vault[s].value # "none"
  /\ vault' = [vault EXCEPT ![s].value = "other", ![s].by = None, ![s].valid = FALSE]
  /\ UNCHANGED <<files, dir, lock, pc, todo, cur, local>>

\* Phantom demotes or rotates the source of a copy, under the project lock.
ChangeSource ==
  /\ edits < MaxEdits /\ edits' = edits + 1
  /\ lock = None
  /\ \/ vault' = [vault EXCEPT ![Source].meta = "demoted"]
     \/ vault' = [vault EXCEPT ![Source].value = "other", ![Source].valid = FALSE]
  /\ UNCHANGED <<files, dir, lock, pc, todo, cur, local>>

\* A step of the call itself.
Step(t) ==
  \/ Review(t) \/ Begin(t) \/ Snapshot(t) \/ Advance(t)
  \/ MakeParent(t) \/ CheckFile(t) \/ WriteFile(t) \/ VerifyFile(t)
  \/ SwapSecret(t) \/ Protect(t) \/ VerifySources(t)
  \/ CheckRollback(t) \/ RestoreFile(t) \/ RemoveParent(t) \/ RollbackSecret(t)

Next ==
  \/ \E t \in Txns : Step(t) \/ Crash(t)
  \/ \E f \in Files : EditFile(f)
  \/ \E s \in Secrets : EditEntry(s)
  \/ ChangeSource

\* A call that runs goes on; nobody else has to do anything.
Fairness == \A t \in Txns : WF_vars(Step(t))

Spec == Init /\ [][Next]_vars /\ Fairness

-----------------------------------------------------------------------------
(* Properties.                                                             *)

\* Every variable holds what the code's types allow.
TypeOK ==
  /\ files \in [Files -> AnchoredRead]
  /\ dir \in Txns \cup {None}
  /\ vault \in [Entries -> Entry]
  /\ lock \in Txns \cup {None}
  /\ pc \in [Txns -> Finals \cup {"idle", "reviewed", "snapshot", "early", "secrets",
                   "sources", "last", "finish", "roll_files", "roll_dirs",
                   "roll_secrets"}]
  /\ todo \in [Txns -> SUBSET (Files \cup Secrets)]
  /\ cur \in [Txns -> Files \cup Secrets \cup {None}]
  /\ \A v \in {seen, snap} :
       v \in [Txns -> [files : [Files -> AnchoredRead], vault : [Entries -> Entry]]]
  /\ touched \in [Txns -> SUBSET (Files \cup Secrets)]
  /\ receipts \in [Txns -> SUBSET (Files \cup {Parent})]
  /\ ok \in [Txns -> BOOLEAN]
  /\ edits \in 0..MaxEdits

\* The plaintext of a value is in the dotenv, or the value is in the vault: the
\* dotenv never holds tokens whose entries the vault does not have, at any
\* moment of a commit or a rollback and wherever the process dies.
NoValueLost ==
  \A f \in Last : files[f].bytes = "new" =>
    \A s \in Secrets \ Deletes : vault[s].value \in {"new", "other"}

\* "all changes were restored" is true: no file, directory or entry of the
\* transaction is left, and an entry that is back has its metadata and its
\* verdict back.
RestoredMeansRestored ==
  \A t \in Txns : pc[t] = "restored" =>
    /\ \A f \in Files : files[f] # Committed(t)
    /\ dir # t
    /\ \A s \in Secrets :
         LET before == snap[t].vault[s] IN
           /\ vault[s].by # t
           /\ vault[s].by = before.by /\ vault[s].value = before.value =>
                vault[s] = before

\* A copy that is left in the vault when its transaction is over has the
\* protection of its source, not the fresh metadata of a new entry.
CopyIsProtected ==
  \A t \in Txns, s \in Copies :
    pc[t] \in Finals /\ vault[s].by = t =>
      vault[s].meta = seen[t].vault[Source].meta

\* A copy commits only while its source is as protected as the copy and still
\* has the value that was copied, whatever happened since it was read.
CopyFollowsSource ==
  \A t \in Txns, s \in Copies :
    pc[t] = "finish" /\ pc'[t] = "committed" =>
      /\ vault[s].meta = vault[Source].meta
      /\ vault[Source].value = seen[t].vault[Source].value

\* A transaction that has the project lock gives it back: by its commit, its
\* refusal, or a rollback that ends whatever fails in it.
LockIsReturned == \A t \in Txns : lock = t ~> lock # t
=============================================================================
