------------------------- MODULE InitTransactionProofs -------------------------
(***************************************************************************)
(* Proofs about InitTransaction, for any plan and any number of            *)
(* transactions, with crashes and failing writes anywhere.                 *)
(*                                                                         *)
(* That no value is lost holds under two hypotheses, and the run           *)
(* InitLosesValues shows why the first is needed: no write of a rollback   *)
(* fails, and no editor saves a file while a transaction runs.  Other      *)
(* programs may change entries, and Phantom may change the source of a     *)
(* copy.  The argument: the lock holder's snapshot of a tokenized dotenv   *)
(* has the entries that go with it (SnapInv); entries are swapped before   *)
(* the dotenv (VaultInv); and when the rollback comes to the entries the   *)
(* dotenv has the bytes of the snapshot again (FileInv).                   *)
(*                                                                         *)
(* That a copy commits only with the protection and the value of its       *)
(* source needs no hypothesis (CopyInv).                                   *)
(*                                                                         *)
(* The lock that InitTransaction takes in one step is TransactionLock, and *)
(* the second part proves what it promises: HolderInv ties every lock file *)
(* to one acquisition, CountInv and MutexInv do so for the shards, and     *)
(* SlotOK keeps what an acquisition still asks for above all it has.       *)
(*                                                                         *)
(* The third part is about the store that the entries live in on Linux:    *)
(* LinuxMigration, which moves them to another one under running clients.  *)
(***************************************************************************)
EXTENDS InitTransaction, Sequences, FiniteSetTheorems, WellFoundedInduction, TLAPS

Working == {"snapshot", "early", "secrets", "sources", "last", "finish",
            "roll_files", "roll_dirs", "roll_secrets"}

\* A transaction works on the project exactly while it has the lock.
LockInv == \A t \in Txns : pc[t] \in Working <=> lock = t

\* The targets of a phase and the one at hand.
PhaseInv ==
  \A t \in Txns :
    /\ pc[t] = "early" => todo[t] \subseteq Early /\ cur[t] \in Early \cup {None}
    /\ pc[t] = "secrets" => todo[t] \subseteq Secrets /\ cur[t] \in Secrets \cup {None}
    /\ pc[t] = "sources" => todo[t] \subseteq Secrets
    /\ pc[t] = "last" => todo[t] \subseteq Last /\ cur[t] \in Last \cup {None}
    /\ pc[t] = "roll_files" => todo[t] \subseteq Files /\ cur[t] \in Files \cup {None}
    /\ pc[t] = "roll_secrets" => todo[t] \subseteq Secrets
    /\ pc[t] \notin {"early", "secrets", "last", "roll_files"} => cur[t] = None

\* What holds of every behaviour.
BaseInv == TypeOK /\ LockInv /\ PhaseInv

-----------------------------------------------------------------------------
(* The argument for NoValueLost.                                           *)

Held == {"new", "other"}

\* Entries whose tokens a committed dotenv has.
Kept == Secrets \ Deletes

\* The dotenv, in each phase: as snapshotted until it is written, the
\* transaction's own until it is taken back, and then with the old bytes.
FileOf(t, f) ==
  /\ pc[t] \in {"idle", "reviewed", "snapshot", "early", "secrets", "sources"} =>
       f \notin touched[t]
  /\ pc[t] = "snapshot" => f \in todo[t] \/ files[f] = snap[t].files[f]
  /\ pc[t] \in {"early", "secrets", "sources", "last", "finish"} =>
       \/ f \in touched[t] /\ f \in receipts[t] /\ files[f] = Committed(t)
       \/ f \notin touched[t] /\ files[f] = snap[t].files[f]
  /\ pc[t] = "last" => f \notin todo[t] \/ f \notin touched[t]
  /\ pc[t] = "roll_files" =>
       \/ f \in todo[t] /\ f \in receipts[t] /\ files[f] = Committed(t)
       \/ f \notin todo[t] /\ files[f].bytes = snap[t].files[f].bytes
  /\ pc[t] \in {"roll_dirs", "roll_secrets"} => files[f].bytes = snap[t].files[f].bytes

FileInv == \A t \in Txns, f \in Last : FileOf(t, f)

\* Whether the snapshot of the dotenv and the entry is complete.
Taken(t, f, s) ==
  /\ pc[t] \in Working
  /\ pc[t] # "snapshot" \/ (f \notin todo[t] /\ s \notin todo[t])

\* A snapshot of tokens has the entries they stand for.  Files are
\* snapshotted before entries.
SnapOf(t) ==
  /\ pc[t] = "snapshot" /\ todo[t] \cap Files # {} => Secrets \subseteq todo[t]
  /\ \A f \in Last, s \in Kept :
       Taken(t, f, s) /\ snap[t].files[f].bytes = "new" => snap[t].vault[s].value \in Held

SnapInv == \A t \in Txns : SnapOf(t)

\* Entries are in place before the dotenv is written.
VaultOf(t, s) ==
  /\ pc[t] = "secrets" => s \in todo[t] \ {cur[t]} \/ vault[s].value \in Held
  /\ pc[t] \in {"sources", "last", "finish"} => vault[s].value \in Held

VaultInv == \A t \in Txns, s \in Kept : VaultOf(t, s)

Inv == BaseInv /\ FileInv /\ SnapInv /\ VaultInv /\ NoValueLost

\* The hypothesis on editors.
NoEditor == \A f \in Files : ~EditFile(f)

-----------------------------------------------------------------------------
(* What holds of every behaviour.                                          *)

Phases == Finals \cup {"idle", "reviewed", "snapshot", "early", "secrets", "sources", "last",
                       "finish", "roll_files", "roll_dirs", "roll_secrets"}

\* The type invariant without the view variables.
LEMMA TypeFacts ==
  ASSUME TypeOK
  PROVE  /\ files \in [Files -> AnchoredRead] /\ dir \in Txns \cup {None}
         /\ vault \in [Entries -> Entry] /\ lock \in Txns \cup {None}
         /\ pc \in [Txns -> Phases] /\ todo \in [Txns -> SUBSET (Files \cup Secrets)]
         /\ cur \in [Txns -> Files \cup Secrets \cup {None}]
         /\ touched \in [Txns -> SUBSET (Files \cup Secrets)]
         /\ receipts \in [Txns -> SUBSET (Files \cup {Parent})]
         /\ ok \in [Txns -> BOOLEAN] /\ edits \in 0..MaxEdits
BY DEF TypeOK, Phases

ViewType == [Txns -> [files : [Files -> AnchoredRead], vault : [Entries -> Entry]]]

LEMMA TypeStep ==
  ASSUME /\ files' \in [Files -> AnchoredRead] /\ dir' \in Txns \cup {None}
         /\ vault' \in [Entries -> Entry] /\ lock' \in Txns \cup {None}
         /\ pc' \in [Txns -> Phases] /\ todo' \in [Txns -> SUBSET (Files \cup Secrets)]
         /\ cur' \in [Txns -> Files \cup Secrets \cup {None}]
         /\ seen' \in ViewType /\ snap' \in ViewType
         /\ touched' \in [Txns -> SUBSET (Files \cup Secrets)]
         /\ receipts' \in [Txns -> SUBSET (Files \cup {Parent})]
         /\ ok' \in [Txns -> BOOLEAN] /\ edits' \in 0..MaxEdits
  PROVE  TypeOK'
BY DEF TypeOK, Phases, ViewType

LEMMA Views ==
  ASSUME TypeOK
  PROVE  seen \in ViewType /\ snap \in ViewType
BY DEF TypeOK, ViewType

\* One transaction enters a phase with its targets.
LEMMA EnterFacts ==
  ASSUME TypeOK, NEW t \in Txns, NEW phase \in Phases,
         NEW targets \in SUBSET (Files \cup Secrets), Enter(t, phase, targets)
  PROVE  /\ pc' \in [Txns -> Phases] /\ todo' \in [Txns -> SUBSET (Files \cup Secrets)]
         /\ pc'[t] = phase /\ todo'[t] = targets
         /\ \A u \in Txns : u # t => pc'[u] = pc[u] /\ todo'[u] = todo[u]
BY TypeFacts DEF Enter

LEMMA DoneFacts ==
  ASSUME TypeOK, NEW t \in Txns, NEW x, Done(t, x)
  PROVE  /\ pc' = pc /\ todo' \in [Txns -> SUBSET (Files \cup Secrets)]
         /\ todo'[t] = todo[t] \ {x}
         /\ \A u \in Txns : u # t => todo'[u] = todo[u]
BY TypeFacts DEF Done

LEMMA FailFacts ==
  ASSUME TypeOK, NEW t \in Txns, Fail(t)
  PROVE  /\ pc' \in [Txns -> Phases] /\ todo' \in [Txns -> SUBSET (Files \cup Secrets)]
         /\ pc'[t] = "roll_files" /\ todo'[t] = touched'[t] \cap Files
         /\ \A u \in Txns : u # t => pc'[u] = pc[u] /\ todo'[u] = todo[u]
         /\ lock' = lock
<1>1. "roll_files" \in Phases /\ touched'[t] \cap Files \in SUBSET (Files \cup Secrets)
  BY DEF Phases
<1>2. Enter(t, "roll_files", touched'[t] \cap Files) /\ lock' = lock
  BY DEF Fail
<1> QED
  BY <1>1, <1>2, EnterFacts

LEMMA ReturnFacts ==
  ASSUME TypeOK, NEW t \in Txns, NEW result \in Finals, Return(t, result)
  PROVE  /\ pc' \in [Txns -> Phases] /\ todo' \in [Txns -> SUBSET (Files \cup Secrets)]
         /\ pc'[t] = result /\ todo'[t] = {} /\ lock' = None
         /\ \A u \in Txns : u # t => pc'[u] = pc[u] /\ todo'[u] = todo[u]
BY TypeFacts DEF Return, Phases

\* The others' cur, when only t's changes.
LEMMA CurFacts ==
  ASSUME TypeOK, NEW t \in Txns, NEW x \in Files \cup Secrets \cup {None},
         cur' = [cur EXCEPT ![t] = x]
  PROVE  /\ cur' \in [Txns -> Files \cup Secrets \cup {None}]
         /\ cur'[t] = x /\ \A u \in Txns : u # t => cur'[u] = cur[u]
BY TypeFacts

\* A step of one transaction that moves it from a phase of the lock holder to
\* another.
LEMMA HolderMoves ==
  ASSUME InitAssumption, BaseInv, NEW t \in Txns, TypeOK',
         \A u \in Txns : u # t => pc'[u] = pc[u] /\ todo'[u] = todo[u] /\ cur'[u] = cur[u],
         \/ pc[t] \in Working /\ pc'[t] \in Working /\ lock' = lock
         \/ pc[t] \notin Working /\ pc'[t] \notin Working /\ lock' = lock
         \/ pc[t] \in Working /\ pc'[t] \notin Working /\ lock' = None
         \/ lock = None /\ lock' = t /\ pc'[t] \in Working,
         /\ pc'[t] = "early" => todo'[t] \subseteq Early /\ cur'[t] \in Early \cup {None}
         /\ pc'[t] = "secrets" => todo'[t] \subseteq Secrets /\ cur'[t] \in Secrets \cup {None}
         /\ pc'[t] = "sources" => todo'[t] \subseteq Secrets
         /\ pc'[t] = "last" => todo'[t] \subseteq Last /\ cur'[t] \in Last \cup {None}
         /\ pc'[t] = "roll_files" => todo'[t] \subseteq Files /\ cur'[t] \in Files \cup {None}
         /\ pc'[t] = "roll_secrets" => todo'[t] \subseteq Secrets
         /\ pc'[t] \notin {"early", "secrets", "last", "roll_files"} => cur'[t] = None
  PROVE  BaseInv'
<1>1. PhaseInv'
  <2>1. SUFFICES ASSUME NEW u \in Txns, u # t
        PROVE
          /\ pc'[u] = "early" => todo'[u] \subseteq Early /\ cur'[u] \in Early \cup {None}
          /\ pc'[u] = "secrets" => todo'[u] \subseteq Secrets /\ cur'[u] \in Secrets \cup {None}
          /\ pc'[u] = "sources" => todo'[u] \subseteq Secrets
          /\ pc'[u] = "last" => todo'[u] \subseteq Last /\ cur'[u] \in Last \cup {None}
          /\ pc'[u] = "roll_files" => todo'[u] \subseteq Files /\ cur'[u] \in Files \cup {None}
          /\ pc'[u] = "roll_secrets" => todo'[u] \subseteq Secrets
          /\ pc'[u] \notin {"early", "secrets", "last", "roll_files"} => cur'[u] = None
    BY DEF PhaseInv
  <2> QED
    BY <2>1 DEF BaseInv, PhaseInv
<1>2. LockInv'
  BY DEF BaseInv, LockInv, InitAssumption
<1> QED
  BY <1>1, <1>2 DEF BaseInv

\* A step that leaves every transaction where it is.
LEMMA WorldMoves ==
  ASSUME BaseInv, TypeOK', UNCHANGED <<pc, todo, cur, lock>>
  PROVE  BaseInv'
BY DEF BaseInv, LockInv, PhaseInv

-----------------------------------------------------------------------------
(* One lemma per action.                                                   *)

LEMMA ReviewBase ==
  ASSUME InitAssumption, BaseInv, NEW t \in Txns, Review(t)
  PROVE  BaseInv'
<1>1. TypeOK /\ View \in [files : [Files -> AnchoredRead], vault : [Entries -> Entry]]
  BY TypeFacts DEF BaseInv, View
<1>2. /\ pc' \in [Txns -> Phases] /\ todo' \in [Txns -> SUBSET (Files \cup Secrets)]
      /\ pc'[t] = "reviewed"
      /\ \A u \in Txns : u # t => pc'[u] = pc[u] /\ todo'[u] = todo[u]
  BY <1>1, EnterFacts DEF Review, Phases
<1>3. seen' \in ViewType
  BY <1>1, Views DEF Review, ViewType
<1>4. TypeOK'
  BY <1>1, <1>2, <1>3, TypeFacts, Views, TypeStep DEF Review, world
<1>5. cur' = cur /\ lock' = lock /\ pc[t] = "idle" /\ cur[t] = None
  BY DEF Review, BaseInv, PhaseInv
<1> QED
  BY <1>2, <1>4, <1>5, HolderMoves DEF Working

LEMMA BeginBase ==
  ASSUME InitAssumption, BaseInv, NEW t \in Txns, Begin(t)
  PROVE  BaseInv'
<1>1. TypeOK
  BY DEF BaseInv
<1>2. /\ pc' \in [Txns -> Phases] /\ todo' \in [Txns -> SUBSET (Files \cup Secrets)]
      /\ pc'[t] = "snapshot"
      /\ \A u \in Txns : u # t => pc'[u] = pc[u] /\ todo'[u] = todo[u]
  BY <1>1, EnterFacts DEF Begin, Phases
<1>3. cur' = cur /\ lock = None /\ lock' = t /\ cur[t] = None
  BY DEF Begin, BaseInv, PhaseInv
<1>4. TypeOK'
  BY <1>1, <1>2, <1>3, TypeFacts, Views, TypeStep DEF Begin, world, local
<1> QED
  BY <1>2, <1>3, <1>4, HolderMoves DEF Working

\* The views, when a snapshot takes one file or one entry.
LEMMA SnapFile ==
  ASSUME TypeOK, NEW t \in Txns, NEW f \in Files, snap' = [snap EXCEPT ![t].files[f] = files[f]]
  PROVE  /\ snap' \in ViewType
         /\ snap'[t].vault = snap[t].vault /\ snap'[t].files[f] = files[f]
         /\ \A g \in Files : g # f => snap'[t].files[g] = snap[t].files[g]
         /\ \A u \in Txns : u # t => snap'[u] = snap[u]
BY TypeFacts, Views DEF ViewType

LEMMA SnapEntry ==
  ASSUME TypeOK, NEW t \in Txns, NEW s \in Entries, snap' = [snap EXCEPT ![t].vault[s] = vault[s]]
  PROVE  /\ snap' \in ViewType
         /\ snap'[t].files = snap[t].files /\ snap'[t].vault[s] = vault[s]
         /\ \A r \in Entries : r # s => snap'[t].vault[r] = snap[t].vault[r]
         /\ \A u \in Txns : u # t => snap'[u] = snap[u]
BY TypeFacts, Views DEF ViewType

LEMMA SnapshotBase ==
  ASSUME InitAssumption, BaseInv, NEW t \in Txns, Snapshot(t)
  PROVE  BaseInv'
<1>1. TypeOK /\ pc[t] = "snapshot" /\ cur[t] = None /\ todo[t] \subseteq Files \cup Secrets
  BY TypeFacts DEF Snapshot, BaseInv, PhaseInv
<1>2. PICK x \in todo[t] :
         \/ /\ x \in Files /\ files[x].bytes = seen[t].files[x].bytes
            /\ snap' = [snap EXCEPT ![t].files[x] = files[x]]
            /\ Done(t, x) /\ UNCHANGED lock
         \/ /\ x \in Secrets
            /\ snap' = [snap EXCEPT ![t].vault[x] = vault[x]]
            /\ Done(t, x) /\ UNCHANGED lock
         \/ Return(t, "refused") /\ UNCHANGED snap
  BY DEF Snapshot
<1>3. UNCHANGED <<files, dir, vault, cur, seen, touched, receipts, ok, edits>>
  BY DEF Snapshot, world
<1>4. snap' \in ViewType
  BY <1>1, <1>2, SnapFile, SnapEntry, Views DEF Entries
<1>5. CASE Done(t, x) /\ UNCHANGED lock
  <2>1. /\ pc' = pc /\ todo' \in [Txns -> SUBSET (Files \cup Secrets)]
        /\ \A u \in Txns : u # t => todo'[u] = todo[u]
    BY <1>1, <1>5, DoneFacts
  <2>2. TypeOK'
    BY <1>1, <1>3, <1>4, <1>5, <2>1, TypeFacts, Views, TypeStep
  <2> QED
    BY <1>1, <1>3, <1>5, <2>1, <2>2, HolderMoves DEF Working
<1>6. CASE Return(t, "refused")
  <2>1. /\ pc' \in [Txns -> Phases] /\ todo' \in [Txns -> SUBSET (Files \cup Secrets)]
        /\ pc'[t] = "refused" /\ lock' = None
        /\ \A u \in Txns : u # t => pc'[u] = pc[u] /\ todo'[u] = todo[u]
    BY <1>1, <1>6, ReturnFacts DEF Finals
  <2>2. TypeOK'
    BY <1>1, <1>3, <1>4, <1>6, <2>1, TypeFacts, Views, TypeStep
  <2> QED
    BY <1>1, <1>3, <2>1, <2>2, HolderMoves DEF Working
<1> QED
  BY <1>2, <1>5, <1>6

LEMMA AdvanceBase ==
  ASSUME InitAssumption, BaseInv, NEW t \in Txns, Advance(t)
  PROVE  BaseInv'
<1>1. TypeOK /\ todo[t] = {} /\ cur[t] = None
  BY DEF Advance, BaseInv
<1>2. UNCHANGED <<files, dir, vault, cur, seen, snap, touched, receipts, ok, edits>>
  BY DEF Advance, world, local
<1>3. CASE pc[t] \in DOMAIN Following /\ UNCHANGED lock
           /\ Enter(t, Following[pc[t]], Targets[Following[pc[t]]])
  <2> DEFINE p == Following[pc[t]]
             x == Targets[p]
  <2>1. /\ p \in {"early", "secrets", "sources", "last", "finish", "roll_dirs"}
        /\ pc[t] \in Working
    BY <1>3 DEF Following, Working
  <2>2. /\ p = "early" => x = Early
        /\ p = "secrets" => x = Secrets
        /\ p = "sources" => x = Copies
        /\ p = "last" => x = Last
        /\ p \in {"finish", "roll_dirs"} => x = {}
    BY <2>1 DEF Targets
  <2>3. Enter(t, p, x)
    BY <1>3
  <2> HIDE DEF p, x
  <2>4. x \in SUBSET (Files \cup Secrets) /\ p \in Phases /\ p \in Working
    BY <2>1, <2>2 DEF Phases, Working, InitAssumption, Files
  <2>5. /\ pc' \in [Txns -> Phases] /\ todo' \in [Txns -> SUBSET (Files \cup Secrets)]
        /\ pc'[t] = p /\ todo'[t] = x
        /\ \A u \in Txns : u # t => pc'[u] = pc[u] /\ todo'[u] = todo[u]
    BY <1>1, <2>3, <2>4, EnterFacts
  <2>6. TypeOK'
    BY <1>1, <1>2, <1>3, <2>5, TypeFacts, Views, TypeStep
  <2> QED
    BY <1>1, <1>2, <1>3, <2>1, <2>2, <2>4, <2>5, <2>6, HolderMoves DEF InitAssumption
<1>4. CASE \E result \in Finals : pc[t] \in Working /\ Return(t, result)
  <2>1. PICK result \in Finals : pc[t] \in Working /\ Return(t, result)
    BY <1>4
  <2>2. /\ pc' \in [Txns -> Phases] /\ todo' \in [Txns -> SUBSET (Files \cup Secrets)]
        /\ pc'[t] = result /\ lock' = None
        /\ \A u \in Txns : u # t => pc'[u] = pc[u] /\ todo'[u] = todo[u]
    BY <1>1, <2>1, ReturnFacts
  <2>3. TypeOK'
    BY <1>1, <1>2, <2>2, TypeFacts, Views, TypeStep
  <2>4. result \notin Working /\ result \notin {"early", "secrets", "sources", "last", "roll_files", "roll_secrets"}
    BY DEF Finals, Working
  <2> QED
    BY <1>1, <1>2, <2>1, <2>2, <2>3, <2>4, HolderMoves
<1> QED
  BY <1>3, <1>4 DEF Advance, Finals, Working

\* The types of what a step of the commit or the rollback changes besides the
\* phases.
OtherTypes ==
  /\ files \in [Files -> AnchoredRead] /\ dir \in Txns \cup {None}
  /\ vault \in [Entries -> Entry] /\ seen \in ViewType /\ snap \in ViewType
  /\ touched \in [Txns -> SUBSET (Files \cup Secrets)]
  /\ receipts \in [Txns -> SUBSET (Files \cup {Parent})]
  /\ ok \in [Txns -> BOOLEAN] /\ edits \in 0..MaxEdits
  /\ cur \in [Txns -> Files \cup Secrets \cup {None}]

LEMMA Others ==
  ASSUME TypeOK
  PROVE  OtherTypes
BY TypeFacts, Views DEF OtherTypes

\* A step of the lock holder that fails, or stays in its phase.
LEMMA FailBase ==
  ASSUME InitAssumption, BaseInv, NEW t \in Txns, pc[t] \in Working, OtherTypes',
         \A u \in Txns : u # t => cur'[u] = cur[u],
         Fail(t), cur'[t] \in Files \cup {None}
  PROVE  BaseInv'
<1>1. TypeOK
  BY DEF BaseInv
<1>2. /\ pc' \in [Txns -> Phases] /\ todo' \in [Txns -> SUBSET (Files \cup Secrets)]
      /\ pc'[t] = "roll_files" /\ todo'[t] = touched'[t] \cap Files
      /\ \A u \in Txns : u # t => pc'[u] = pc[u] /\ todo'[u] = todo[u]
      /\ lock' = lock
  BY <1>1, FailFacts
<1>3. TypeOK'
  BY <1>1, <1>2, TypeFacts, TypeStep DEF OtherTypes
<1> QED
  BY <1>2, <1>3, HolderMoves DEF Working

LEMMA StayBase ==
  ASSUME InitAssumption, BaseInv, NEW t \in Txns, pc[t] \in Working, OtherTypes',
         \A u \in Txns : u # t => cur'[u] = cur[u],
         pc' = pc, lock' = lock, todo' \in [Txns -> SUBSET (Files \cup Secrets)],
         todo'[t] \subseteq todo[t], \A u \in Txns : u # t => todo'[u] = todo[u],
         \/ cur'[t] \in {None, cur[t]}
         \/ cur'[t] \in todo[t] /\ pc[t] \in {"early", "secrets", "last", "roll_files"}
  PROVE  BaseInv'
<1>1. TypeOK /\ PhaseInv
  BY DEF BaseInv
<1>2. TypeOK'
  BY <1>1, TypeFacts, TypeStep DEF OtherTypes
<1>3. /\ pc[t] = "early" => todo'[t] \subseteq Early /\ cur'[t] \in Early \cup {None}
      /\ pc[t] = "secrets" => todo'[t] \subseteq Secrets /\ cur'[t] \in Secrets \cup {None}
      /\ pc[t] = "sources" => todo'[t] \subseteq Secrets
      /\ pc[t] = "last" => todo'[t] \subseteq Last /\ cur'[t] \in Last \cup {None}
      /\ pc[t] = "roll_files" => todo'[t] \subseteq Files /\ cur'[t] \in Files \cup {None}
      /\ pc[t] = "roll_secrets" => todo'[t] \subseteq Secrets
      /\ pc[t] \notin {"early", "secrets", "last", "roll_files"} => cur'[t] = None
  BY <1>1 DEF PhaseInv
<1> QED
  BY <1>2, <1>3, HolderMoves

LEMMA MakeParentBase ==
  ASSUME InitAssumption, BaseInv, NEW t \in Txns, MakeParent(t)
  PROVE  BaseInv'
<1>1. TypeOK /\ OtherTypes
  BY Others DEF BaseInv
<1>2. /\ UNCHANGED <<files, vault, cur, seen, snap, edits, touched>>
      /\ dir' \in {dir, t} /\ cur[t] = None /\ pc[t] \in Working
      /\ receipts' = receipts \/ receipts' = [receipts EXCEPT ![t] = @ \cup {Parent}]
      /\ ok' = ok \/ ok' = [ok EXCEPT ![t] = FALSE]
      /\ UNCHANGED <<pc, todo, lock>> \/ Fail(t)
  BY DEF MakeParent, Working
<1>3. OtherTypes'
  BY <1>1, <1>2 DEF OtherTypes
<1>4. CASE Fail(t)
  BY <1>2, <1>3, <1>4, FailBase
<1>5. CASE UNCHANGED <<pc, todo, lock>>
  BY <1>1, <1>2, <1>3, <1>5, StayBase, TypeFacts
<1> QED
  BY <1>2, <1>4, <1>5

LEMMA CheckFileBase ==
  ASSUME InitAssumption, BaseInv, NEW t \in Txns, CheckFile(t)
  PROVE  BaseInv'
<1>1. TypeOK /\ OtherTypes /\ todo \in [Txns -> SUBSET (Files \cup Secrets)]
  BY Others, TypeFacts DEF BaseInv
<1>2. /\ UNCHANGED <<files, dir, vault, seen, snap, touched, receipts, ok, edits>>
      /\ cur[t] = None /\ pc[t] \in {"early", "last"}
  BY DEF CheckFile, world
<1>3. PICK f \in todo[t] :
        \/ cur' = [cur EXCEPT ![t] = f] /\ UNCHANGED <<pc, todo, lock>>
        \/ UNCHANGED cur /\ Fail(t)
  BY DEF CheckFile
<1>4. CASE cur' = [cur EXCEPT ![t] = f] /\ UNCHANGED <<pc, todo, lock>>
  <2>1. OtherTypes' /\ cur'[t] = f /\ \A u \in Txns : u # t => cur'[u] = cur[u]
    BY <1>1, <1>2, <1>4 DEF OtherTypes
  <2> QED
    BY <1>1, <1>2, <1>4, <2>1, StayBase DEF Working
<1>5. CASE UNCHANGED cur /\ Fail(t)
  <2>1. OtherTypes'
    BY <1>1, <1>2, <1>5 DEF OtherTypes
  <2> QED
    BY <1>2, <1>5, <2>1, FailBase DEF Working
<1> QED
  BY <1>3, <1>4, <1>5

\* The transaction's own file has the type of a read.
LEMMA CommittedType ==
  ASSUME NEW t \in Txns
  PROVE  Committed(t) \in AnchoredRead
BY DEF Committed, AnchoredRead

LEMMA WriteFileBase ==
  ASSUME InitAssumption, BaseInv, NEW t \in Txns, WriteFile(t)
  PROVE  BaseInv'
<1> DEFINE f == cur[t]
<1>1. TypeOK /\ OtherTypes /\ todo \in [Txns -> SUBSET (Files \cup Secrets)]
  BY Others, TypeFacts DEF BaseInv
<1>2. /\ UNCHANGED <<dir, vault, seen, snap, ok, edits>>
      /\ pc[t] \in {"early", "last"} /\ f \in todo[t] /\ f \in Files
  BY DEF WriteFile, BaseInv, PhaseInv, Files
<1>3. /\ files' = files \/ files' = [files EXCEPT ![f] = Committed(t)]
      /\ touched' = touched \/ touched' = [touched EXCEPT ![t] = @ \cup {f}]
      /\ receipts' = receipts \/ receipts' = [receipts EXCEPT ![t] = @ \cup {f}]
  <2>1. [touched EXCEPT ![t] = @] = touched
    BY <1>1 DEF OtherTypes
  <2> QED
    BY <2>1 DEF WriteFile
<1>4. \/ Done(t, f) /\ UNCHANGED <<lock, cur>>
      \/ Fail(t) /\ cur' = [cur EXCEPT ![t] = None]
  BY DEF WriteFile
<1> HIDE DEF f
<1>5. /\ files' \in [Files -> AnchoredRead]
      /\ touched' \in [Txns -> SUBSET (Files \cup Secrets)]
      /\ receipts' \in [Txns -> SUBSET (Files \cup {Parent})]
  BY <1>1, <1>2, <1>3, CommittedType DEF OtherTypes
<1>6. OtherTypes'
  BY <1>1, <1>2, <1>4, <1>5 DEF OtherTypes
<1>7. CASE Done(t, f) /\ UNCHANGED <<lock, cur>>
  BY <1>1, <1>2, <1>6, <1>7, DoneFacts, StayBase DEF Working
<1>8. CASE Fail(t) /\ cur' = [cur EXCEPT ![t] = None]
  BY <1>1, <1>2, <1>6, <1>8, CurFacts, FailBase DEF Working
<1> QED
  BY <1>4, <1>7, <1>8

LEMMA VerifyFileBase ==
  ASSUME InitAssumption, BaseInv, NEW t \in Txns, VerifyFile(t)
  PROVE  BaseInv'
<1>1. TypeOK /\ OtherTypes /\ todo \in [Txns -> SUBSET (Files \cup Secrets)]
  BY Others, TypeFacts DEF BaseInv
<1>2. /\ UNCHANGED <<files, dir, vault, seen, snap, touched, receipts, ok, edits>>
      /\ cur' = [cur EXCEPT ![t] = None] /\ pc[t] \in {"early", "last"}
      /\ UNCHANGED <<pc, todo, lock>> \/ Fail(t)
  BY DEF VerifyFile, world
<1>3. OtherTypes' /\ cur'[t] = None /\ \A u \in Txns : u # t => cur'[u] = cur[u]
  BY <1>1, <1>2, CurFacts DEF OtherTypes
<1>4. CASE Fail(t)
  BY <1>2, <1>3, <1>4, FailBase DEF Working
<1>5. CASE UNCHANGED <<pc, todo, lock>>
  BY <1>1, <1>2, <1>3, <1>5, StayBase DEF Working
<1> QED
  BY <1>2, <1>4, <1>5

\* The entries a transaction writes have the type of an entry.
LEMMA SwappedType ==
  ASSUME TypeOK, NEW t \in Txns, NEW s \in Entries
  PROVE  Swapped(t, s) \in Entry
<1>1. vault[s] \in Entry
  BY TypeFacts
<1> QED
  BY <1>1 DEF Swapped, Entry, NoEntry, Changes

LEMMA SwapSecretBase ==
  ASSUME InitAssumption, BaseInv, NEW t \in Txns, SwapSecret(t)
  PROVE  BaseInv'
<1>1. TypeOK /\ OtherTypes /\ todo \in [Txns -> SUBSET (Files \cup Secrets)]
  BY Others, TypeFacts DEF BaseInv
<1>2. /\ UNCHANGED <<files, dir, seen, snap, receipts, ok, edits>>
      /\ pc[t] = "secrets" /\ cur[t] = None /\ todo[t] \subseteq Secrets
  BY DEF SwapSecret, BaseInv, PhaseInv
<1>3. PICK s \in todo[t] :
        /\ \/ UNCHANGED <<vault, touched>>
           \/ /\ vault' = [vault EXCEPT ![s] = Swapped(t, s)]
              /\ touched' = [touched EXCEPT ![t] = @ \cup {s}]
        /\ \/ Done(t, s) /\ UNCHANGED <<lock, cur>>
           \/ cur' = [cur EXCEPT ![t] = s] /\ UNCHANGED <<pc, todo, lock>>
           \/ Fail(t) /\ UNCHANGED cur
  BY DEF SwapSecret
<1>4. /\ vault' \in [Entries -> Entry]
      /\ touched' \in [Txns -> SUBSET (Files \cup Secrets)]
  BY <1>1, <1>2, <1>3, SwappedType DEF OtherTypes, Entries
<1>5. /\ OtherTypes' /\ cur'[t] \in {None, s}
      /\ \A u \in Txns : u # t => cur'[u] = cur[u]
  BY <1>1, <1>2, <1>3, <1>4 DEF OtherTypes
<1>6. CASE Done(t, s) /\ UNCHANGED <<lock, cur>>
  BY <1>1, <1>2, <1>5, <1>6, DoneFacts, StayBase DEF Working
<1>7. CASE cur' = [cur EXCEPT ![t] = s] /\ UNCHANGED <<pc, todo, lock>>
  BY <1>1, <1>2, <1>5, <1>7, StayBase DEF Working
<1>8. CASE Fail(t) /\ UNCHANGED cur
  BY <1>1, <1>2, <1>5, <1>8, FailBase DEF Working
<1> QED
  BY <1>3, <1>6, <1>7, <1>8

LEMMA ProtectBase ==
  ASSUME InitAssumption, BaseInv, NEW t \in Txns, Protect(t)
  PROVE  BaseInv'
<1>1. TypeOK /\ OtherTypes /\ todo \in [Txns -> SUBSET (Files \cup Secrets)]
  BY Others, TypeFacts DEF BaseInv
<1>2. /\ UNCHANGED <<files, dir, seen, snap, touched, receipts, ok, edits>>
      /\ pc[t] = "secrets" /\ cur[t] \in Secrets
      /\ cur' = [cur EXCEPT ![t] = None]
      /\ vault' = vault \/ vault' = [vault EXCEPT ![cur[t]].meta = seen[t].vault[Source].meta]
      /\ (Done(t, cur[t]) /\ UNCHANGED lock) \/ Fail(t)
  BY DEF Protect, BaseInv, PhaseInv
<1>3. /\ cur'[t] = None /\ \A u \in Txns : u # t => cur'[u] = cur[u]
      /\ cur' \in [Txns -> Files \cup Secrets \cup {None}]
  BY <1>1, <1>2, CurFacts
<1>4. vault' \in [Entries -> Entry]
  <2>1. seen[t].vault[Source] \in Entry
    BY <1>1 DEF OtherTypes, ViewType, Entries
  <2>2. seen[t].vault[Source].meta \in {"none", "fresh", "kept", "demoted"}
    BY <2>1 DEF Entry
  <2>3. vault[cur[t]] \in Entry
    BY <1>1, <1>2 DEF OtherTypes, Entries
  <2>4. [vault[cur[t]] EXCEPT !.meta = seen[t].vault[Source].meta] \in Entry
    BY <2>2, <2>3 DEF Entry
  <2> QED
    BY <1>1, <1>2, <2>4 DEF OtherTypes
<1>5. OtherTypes'
  BY <1>1, <1>2, <1>3, <1>4 DEF OtherTypes
<1>6. CASE Done(t, cur[t]) /\ UNCHANGED lock
  BY <1>1, <1>2, <1>3, <1>5, <1>6, DoneFacts, StayBase DEF Working
<1>7. CASE Fail(t)
  BY <1>1, <1>2, <1>3, <1>5, <1>7, FailBase DEF Working
<1> QED
  BY <1>2, <1>6, <1>7

LEMMA VerifySourcesBase ==
  ASSUME InitAssumption, BaseInv, NEW t \in Txns, VerifySources(t)
  PROVE  BaseInv'
<1>1. TypeOK /\ OtherTypes /\ todo \in [Txns -> SUBSET (Files \cup Secrets)]
  BY Others, TypeFacts DEF BaseInv
<1>2. /\ UNCHANGED <<files, dir, vault, cur, seen, snap, touched, receipts, ok, edits>>
      /\ pc[t] = "sources" /\ cur[t] = None
  BY DEF VerifySources, world, BaseInv, PhaseInv
<1>3. PICK s \in todo[t] : (Done(t, s) /\ UNCHANGED lock) \/ Fail(t)
  BY DEF VerifySources
<1>4. OtherTypes'
  BY <1>1, <1>2 DEF OtherTypes
<1>5. CASE Done(t, s) /\ UNCHANGED lock
  BY <1>1, <1>2, <1>4, <1>5, DoneFacts, StayBase DEF Working
<1>6. CASE Fail(t)
  BY <1>1, <1>2, <1>4, <1>6, FailBase DEF Working
<1> QED
  BY <1>3, <1>5, <1>6

LEMMA CheckRollbackBase ==
  ASSUME InitAssumption, BaseInv, NEW t \in Txns, CheckRollback(t)
  PROVE  BaseInv'
<1>1. TypeOK /\ OtherTypes /\ todo \in [Txns -> SUBSET (Files \cup Secrets)]
  BY Others, TypeFacts DEF BaseInv
<1>2. /\ UNCHANGED <<files, dir, vault, lock, seen, snap, touched, receipts, edits>>
      /\ pc[t] = "roll_files" /\ cur[t] = None
  BY DEF CheckRollback, world
<1>3. PICK f \in todo[t] :
        \/ cur' = [cur EXCEPT ![t] = f] /\ UNCHANGED <<todo, pc, ok>>
        \/ Done(t, f) /\ Failed(t) /\ UNCHANGED cur
  BY DEF CheckRollback
<1>4. /\ OtherTypes' /\ cur'[t] \in {None, f}
      /\ \A u \in Txns : u # t => cur'[u] = cur[u]
  BY <1>1, <1>2, <1>3 DEF OtherTypes, Failed
<1>5. CASE cur' = [cur EXCEPT ![t] = f] /\ UNCHANGED <<todo, pc, ok>>
  BY <1>1, <1>2, <1>4, <1>5, StayBase DEF Working
<1>6. CASE Done(t, f) /\ UNCHANGED cur
  BY <1>1, <1>2, <1>4, <1>6, DoneFacts, StayBase DEF Working
<1> QED
  BY <1>3, <1>5, <1>6

LEMMA RestorationType ==
  ASSUME TypeOK, NEW t \in Txns, NEW f \in Files
  PROVE  /\ Restoration(t, f) \in AnchoredRead
         /\ Restoration(t, f).bytes = snap[t].files[f].bytes
<1>1. snap[t].files[f] \in AnchoredRead
  BY Views DEF ViewType
<1> QED
  BY <1>1 DEF Restoration, AnchoredRead, AbsentFile

LEMMA RestoreFileBase ==
  ASSUME InitAssumption, BaseInv, NEW t \in Txns, RestoreFile(t)
  PROVE  BaseInv'
<1>1. TypeOK /\ OtherTypes /\ todo \in [Txns -> SUBSET (Files \cup Secrets)]
  BY Others, TypeFacts DEF BaseInv
<1>2. /\ UNCHANGED <<dir, vault, lock, seen, snap, touched, receipts, edits>>
      /\ pc[t] = "roll_files" /\ cur[t] \in Files
      /\ cur' = [cur EXCEPT ![t] = None] /\ Done(t, cur[t])
      /\ files' = files \/ files' = [files EXCEPT ![cur[t]] = Restoration(t, cur[t])]
      /\ ok' = ok \/ ok' = [ok EXCEPT ![t] = FALSE]
  BY DEF RestoreFile, Failed, BaseInv, PhaseInv
<1>3. /\ cur'[t] = None /\ \A u \in Txns : u # t => cur'[u] = cur[u]
      /\ cur' \in [Txns -> Files \cup Secrets \cup {None}]
  BY <1>1, <1>2, CurFacts
<1>4. Restoration(t, cur[t]) \in AnchoredRead
  BY <1>1, <1>2, RestorationType
<1>5. files' \in [Files -> AnchoredRead]
  BY <1>1, <1>2, <1>4 DEF OtherTypes
<1>6. ok' \in [Txns -> BOOLEAN]
  BY <1>1, <1>2 DEF OtherTypes
<1>7. OtherTypes'
  BY <1>1, <1>2, <1>3, <1>5, <1>6 DEF OtherTypes
<1> QED
  BY <1>1, <1>2, <1>3, <1>7, DoneFacts, StayBase DEF Working

LEMMA RemoveParentBase ==
  ASSUME InitAssumption, BaseInv, NEW t \in Txns, RemoveParent(t)
  PROVE  BaseInv'
<1>1. TypeOK /\ OtherTypes
  BY Others DEF BaseInv
<1>2. /\ UNCHANGED <<files, vault, lock, cur, seen, snap, touched, receipts, edits>>
      /\ pc[t] = "roll_dirs" /\ cur[t] = None
      /\ Enter(t, "roll_secrets", touched[t] \cap Secrets)
      /\ dir' \in {dir, None}
      /\ ok' = ok \/ ok' = [ok EXCEPT ![t] = FALSE]
  BY DEF RemoveParent, Failed, BaseInv, PhaseInv
<1>3. "roll_secrets" \in Phases /\ touched[t] \cap Secrets \in SUBSET (Files \cup Secrets)
  BY DEF Phases
<1>4. /\ pc' \in [Txns -> Phases] /\ todo' \in [Txns -> SUBSET (Files \cup Secrets)]
      /\ pc'[t] = "roll_secrets" /\ todo'[t] = touched[t] \cap Secrets
      /\ \A u \in Txns : u # t => pc'[u] = pc[u] /\ todo'[u] = todo[u]
  BY <1>1, <1>2, <1>3, EnterFacts
<1>5. OtherTypes'
  BY <1>1, <1>2 DEF OtherTypes
<1>6. TypeOK'
  BY <1>1, <1>2, <1>4, <1>5, TypeFacts, TypeStep DEF OtherTypes
<1> QED
  BY <1>2, <1>4, <1>6, HolderMoves DEF Working

\* An entry taken back without its verdict, and without its own metadata if it
\* was deleted.
LEMMA HalfRestoredType ==
  ASSUME TypeOK, NEW t \in Txns, NEW s \in Entries
  PROVE  /\ RestoredEntry(t, s) \in Entry
         /\ [RestoredEntry(t, s) EXCEPT !.valid = FALSE,
               !.meta = IF @ = "none" \/ s \notin Deletes THEN @ ELSE "fresh"] \in Entry
<1>1. RestoredEntry(t, s) \in Entry
  BY Views DEF ViewType, RestoredEntry
<1> QED
  BY <1>1 DEF Entry

LEMMA RollbackSecretBase ==
  ASSUME InitAssumption, BaseInv, NEW t \in Txns, RollbackSecret(t)
  PROVE  BaseInv'
<1>1. TypeOK /\ OtherTypes /\ todo \in [Txns -> SUBSET (Files \cup Secrets)]
  BY Others, TypeFacts DEF BaseInv
<1>2. /\ UNCHANGED <<files, dir, lock, cur, seen, snap, touched, receipts, edits>>
      /\ pc[t] = "roll_secrets" /\ cur[t] = None /\ todo[t] \subseteq Secrets
  BY DEF RollbackSecret, BaseInv, PhaseInv
<1>3. PICK s \in todo[t] :
        /\ Done(t, s)
        /\ ok' = ok \/ ok' = [ok EXCEPT ![t] = FALSE]
        /\ \/ vault' = vault
           \/ vault' = [vault EXCEPT ![s] = RestoredEntry(t, s)]
           \/ vault' = [vault EXCEPT ![s] =
                [RestoredEntry(t, s) EXCEPT !.valid = FALSE,
                   !.meta = IF @ = "none" \/ s \notin Deletes THEN @ ELSE "fresh"]]
  BY DEF RollbackSecret, Failed
<1>4. s \in Entries
  BY <1>2 DEF Entries
<1> DEFINE half == [RestoredEntry(t, s) EXCEPT !.valid = FALSE,
                      !.meta = IF @ = "none" \/ s \notin Deletes THEN @ ELSE "fresh"]
<1>5. RestoredEntry(t, s) \in Entry /\ half \in Entry
  BY <1>1, <1>4, HalfRestoredType
<1>6. \E e \in Entry : vault' = vault \/ vault' = [vault EXCEPT ![s] = e]
  BY <1>3, <1>5
<1>7. OtherTypes'
  BY <1>1, <1>2, <1>3, <1>4, <1>6 DEF OtherTypes
<1> QED
  BY <1>1, <1>2, <1>3, <1>7, DoneFacts, StayBase DEF Working

LEMMA CrashBase ==
  ASSUME InitAssumption, BaseInv, NEW t \in Txns, Crash(t)
  PROVE  BaseInv'
<1>1. TypeOK /\ LockInv
  BY DEF BaseInv
<1>2. /\ pc' \in [Txns -> Phases] /\ todo' \in [Txns -> SUBSET (Files \cup Secrets)]
      /\ pc'[t] = "dead" /\ \A u \in Txns : u # t => pc'[u] = pc[u] /\ todo'[u] = todo[u]
  BY <1>1, EnterFacts DEF Crash, Phases, Finals
<1>3. /\ UNCHANGED <<files, dir, vault, seen, snap, touched, receipts, ok, edits>>
      /\ cur' = [cur EXCEPT ![t] = None]
      /\ lock' = IF lock = t THEN None ELSE lock
  BY DEF Crash, world, local
<1>4. /\ cur'[t] = None /\ \A u \in Txns : u # t => cur'[u] = cur[u]
      /\ cur' \in [Txns -> Files \cup Secrets \cup {None}]
  BY <1>1, <1>3, CurFacts
<1>5. TypeOK'
  BY <1>1, <1>2, <1>3, <1>4, TypeFacts, Views, TypeStep
<1>6. \/ pc[t] \in Working /\ lock' = None
      \/ pc[t] \notin Working /\ lock' = lock
  BY <1>1, <1>3 DEF LockInv
<1> QED
  BY <1>2, <1>4, <1>5, <1>6, HolderMoves DEF Working

LEMMA EditFileBase ==
  ASSUME InitAssumption, BaseInv, NEW f \in Files, EditFile(f)
  PROVE  BaseInv'
<1>1. TypeOK /\ files[f] \in AnchoredRead /\ edits \in 0..MaxEdits
  BY TypeFacts DEF BaseInv
<1>2. /\ UNCHANGED <<dir, vault, lock, pc, todo, cur, seen, snap, touched, receipts, ok>>
      /\ edits < MaxEdits /\ edits' = edits + 1
  BY DEF EditFile, local
<1>3. PICK b \in {"old", files[f].bytes} \ {"absent"} :
        files' = [files EXCEPT ![f] = [bytes |-> b, by |-> None, edit |-> edits + 3]]
  BY DEF EditFile
<1>4. [bytes |-> b, by |-> None, edit |-> edits + 3] \in AnchoredRead
  BY <1>1 DEF AnchoredRead, InitAssumption
<1>5. edits' \in 0..MaxEdits /\ files' \in [Files -> AnchoredRead]
  BY <1>1, <1>2, <1>3, <1>4, TypeFacts DEF InitAssumption
<1>6. TypeOK'
  BY <1>1, <1>2, <1>5, TypeFacts, Views, TypeStep
<1> QED
  BY <1>2, <1>6, WorldMoves

LEMMA EditEntryBase ==
  ASSUME InitAssumption, BaseInv, NEW s \in Secrets, EditEntry(s)
  PROVE  BaseInv' /\ vault'[s].value = "other"
         /\ \A r \in Entries : r # s => vault'[r] = vault[r]
<1>1. TypeOK /\ s \in Entries /\ vault[s] \in Entry /\ edits \in 0..MaxEdits
  BY TypeFacts DEF BaseInv, Entries
<1>2. /\ UNCHANGED <<files, dir, lock, pc, todo, cur, seen, snap, touched, receipts, ok>>
      /\ edits < MaxEdits /\ edits' = edits + 1
      /\ vault' = [vault EXCEPT ![s].value = "other", ![s].by = None, ![s].valid = FALSE]
  BY DEF EditEntry, local
<1> DEFINE v == [vault EXCEPT ![s].value = "other"]
           w == [v EXCEPT ![s].by = None]
<1>3. v \in [Entries -> Entry] /\ v[s].value = "other" /\ \A r \in Entries : r # s => v[r] = vault[r]
  BY <1>1, TypeFacts DEF Entry
<1> HIDE DEF v
<1>4. w \in [Entries -> Entry] /\ w[s].value = "other" /\ \A r \in Entries : r # s => w[r] = vault[r]
  BY <1>1, <1>3 DEF Entry
<1>5. vault' = [w EXCEPT ![s].valid = FALSE]
  BY <1>2 DEF v
<1> HIDE DEF w
<1>6. vault' \in [Entries -> Entry] /\ vault'[s].value = "other"
      /\ \A r \in Entries : r # s => vault'[r] = vault[r]
  BY <1>1, <1>4, <1>5 DEF Entry
<1>7. edits' \in 0..MaxEdits
  BY <1>1, <1>2 DEF InitAssumption
<1>8. TypeOK'
  BY <1>1, <1>2, <1>6, <1>7, TypeFacts, Views, TypeStep
<1> QED
  BY <1>2, <1>6, <1>8, WorldMoves

LEMMA ChangeSourceBase ==
  ASSUME InitAssumption, BaseInv, ChangeSource
  PROVE  BaseInv' /\ \A s \in Secrets : vault'[s] = vault[s]
<1>1. TypeOK /\ Source \in Entries /\ vault[Source] \in Entry /\ edits \in 0..MaxEdits
  BY TypeFacts DEF BaseInv, Entries
<1>2. /\ UNCHANGED <<files, dir, lock, pc, todo, cur, seen, snap, touched, receipts, ok>>
      /\ edits < MaxEdits /\ edits' = edits + 1
      /\ \/ vault' = [vault EXCEPT ![Source].meta = "demoted"]
         \/ vault' = [vault EXCEPT ![Source].value = "other", ![Source].valid = FALSE]
  BY DEF ChangeSource, local
<1>3. edits' \in 0..MaxEdits
  BY <1>1, <1>2 DEF InitAssumption
<1>4. vault' \in [Entries -> Entry] /\ \A s \in Secrets : vault'[s] = vault[s]
  <2>1. CASE vault' = [vault EXCEPT ![Source].meta = "demoted"]
    BY <1>1, <2>1, TypeFacts DEF Entry, Entries, InitAssumption
  <2>2. CASE vault' = [vault EXCEPT ![Source].value = "other", ![Source].valid = FALSE]
    <3> DEFINE v == [vault EXCEPT ![Source].value = "other"]
    <3>1. v \in [Entries -> Entry] /\ \A s \in Secrets : v[s] = vault[s]
      BY <1>1, TypeFacts DEF Entry, Entries, InitAssumption
    <3>2. vault' = [v EXCEPT ![Source].valid = FALSE]
      BY <2>2
    <3> HIDE DEF v
    <3>3. vault' \in [Entries -> Entry]
      BY <1>1, <3>1, <3>2 DEF Entry
    <3>4. \A s \in Secrets : vault'[s] = v[s]
      BY <1>1, <3>1, <3>2 DEF Entries, InitAssumption
    <3> QED
      BY <3>1, <3>3, <3>4
  <2> QED
    BY <1>2, <2>1, <2>2
<1>5. TypeOK'
  BY <1>1, <1>2, <1>3, <1>4, TypeFacts, Views, TypeStep
<1> QED
  BY <1>2, <1>4, <1>5, WorldMoves

-----------------------------------------------------------------------------
(* The invariant of every behaviour.                                       *)

LEMMA BaseInit ==
  ASSUME InitAssumption, Init
  PROVE  BaseInv
<1>1. /\ AbsentFile \in AnchoredRead
      /\ [bytes |-> "old", by |-> None, edit |-> 0] \in AnchoredRead
      /\ NoEntry \in Entry
      /\ \A b \in BOOLEAN : [value |-> "prior", by |-> None, meta |-> "kept", valid |-> b] \in Entry
  BY DEF AbsentFile, AnchoredRead, NoEntry, Entry
<1>2. files \in [Files -> AnchoredRead] /\ vault \in [Entries -> Entry]
  BY <1>1 DEF Init
<1>3. seen \in ViewType /\ snap \in ViewType
  BY <1>1 DEF Init, NoView, ViewType
<1>4. TypeOK
  BY <1>2, <1>3 DEF Init, TypeOK, ViewType, InitAssumption
<1>5. LockInv
  BY DEF Init, LockInv, Working, InitAssumption
<1>6. PhaseInv
  BY DEF Init, PhaseInv
<1> QED
  BY <1>4, <1>5, <1>6 DEF BaseInv

LEMMA BaseNext ==
  ASSUME InitAssumption, BaseInv, [Next]_vars
  PROVE  BaseInv'
<1>1. ASSUME NEW t \in Txns, Step(t)
      PROVE  BaseInv'
  BY <1>1, ReviewBase, BeginBase, SnapshotBase, AdvanceBase, MakeParentBase, CheckFileBase,
     WriteFileBase, VerifyFileBase, SwapSecretBase, ProtectBase, VerifySourcesBase,
     CheckRollbackBase, RestoreFileBase, RemoveParentBase, RollbackSecretBase DEF Step
<1>2. CASE UNCHANGED vars
  BY <1>2 DEF vars, BaseInv, TypeOK, LockInv, PhaseInv
<1> QED
  BY <1>1, <1>2, CrashBase, EditFileBase, EditEntryBase, ChangeSourceBase DEF Next

\* Type correctness; a transaction is in a phase that changes the project
\* exactly while it holds the project lock, whatever fails or dies; and each
\* phase works on its own targets.
THEOREM InitBase ==
  ASSUME InitAssumption
  PROVE  Spec => []BaseInv
<1>1. Init => BaseInv
  BY BaseInit
<1>2. BaseInv /\ [Next]_vars => BaseInv'
  BY BaseNext
<1> QED
  BY <1>1, <1>2, PTL DEF Spec

-----------------------------------------------------------------------------
(* The frame of a step.                                                    *)

\* A transaction without the lock, or one whose world stays as it is.
LEMMA BystanderKeeps ==
  ASSUME InitAssumption, Inv, NEW u \in Txns,
         /\ pc'[u] = pc[u] /\ todo'[u] = todo[u] /\ cur'[u] = cur[u]
         /\ touched'[u] = touched[u] /\ receipts'[u] = receipts[u] /\ snap'[u] = snap[u],
         pc[u] \notin Working \/ UNCHANGED <<files, vault>>
  PROVE  /\ \A f \in Last : FileOf(u, f)'
         /\ SnapOf(u)'
         /\ \A s \in Kept : VaultOf(u, s)'
<1>1. /\ \A f \in Last : FileOf(u, f)
      /\ SnapOf(u)
      /\ \A s \in Kept : VaultOf(u, s)
  BY DEF Inv, FileInv, SnapInv, VaultInv
<1>2. \A f \in Last : FileOf(u, f)'
  BY <1>1 DEF FileOf, Working
<1>3. SnapOf(u)'
  BY <1>1 DEF SnapOf, Taken, Working
<1>4. \A s \in Kept : VaultOf(u, s)'
  BY <1>1 DEF VaultOf, Working
<1> QED
  BY <1>2, <1>3, <1>4

\* A step of t: what it owes is what t's own part of the invariant says.
LEMMA OwnPart ==
  ASSUME InitAssumption, Inv, BaseInv', NEW t \in Txns,
         \A u \in Txns : u # t =>
           /\ pc'[u] = pc[u] /\ todo'[u] = todo[u] /\ cur'[u] = cur[u]
           /\ touched'[u] = touched[u] /\ receipts'[u] = receipts[u] /\ snap'[u] = snap[u],
         pc[t] \in Working \/ UNCHANGED <<files, vault>>,
         \A f \in Last : FileOf(t, f)', SnapOf(t)', \A s \in Kept : VaultOf(t, s)',
         NoValueLost'
  PROVE  Inv'
<1>1. ASSUME NEW u \in Txns, u # t
      PROVE  pc[u] \notin Working \/ UNCHANGED <<files, vault>>
  BY <1>1 DEF Inv, BaseInv, LockInv
<1>2. ASSUME NEW u \in Txns
      PROVE  /\ \A f \in Last : FileOf(u, f)'
             /\ SnapOf(u)'
             /\ \A s \in Kept : VaultOf(u, s)'
  BY <1>1, <1>2, BystanderKeeps
<1>3. FileInv' /\ SnapInv' /\ VaultInv'
  BY <1>2 DEF FileInv, SnapInv, VaultInv
<1> QED
  BY <1>3 DEF Inv

\* The dotenv stays and no entry disappears.
LEMMA LossKept ==
  ASSUME Inv, \A f \in Last : files'[f].bytes = "new" => files[f].bytes = "new",
         \A s \in Kept : vault[s].value \in Held => vault'[s].value \in Held
  PROVE  NoValueLost'
BY DEF Inv, NoValueLost, Held, Kept

\* What the invariant says of t.
LEMMA OwnFacts ==
  ASSUME Inv, NEW t \in Txns
  PROVE  /\ \A f \in Last : FileOf(t, f)
         /\ SnapOf(t)
         /\ \A s \in Kept : VaultOf(t, s)
         /\ BaseInv /\ TypeOK
BY DEF Inv, FileInv, SnapInv, VaultInv, BaseInv

\* An error during the commit finds every dotenv either the transaction's own
\* or as it was.
LEMMA FailKeeps ==
  ASSUME InitAssumption, Inv, NEW t \in Txns, Fail(t),
         pc[t] \in {"early", "secrets", "sources", "last"},
         snap' = snap, \A f \in Last :
           /\ f \in touched'[t] => f \in receipts'[t] /\ files'[f] = Committed(t)
           /\ f \notin touched'[t] => files'[f].bytes = snap[t].files[f].bytes
  PROVE  /\ \A f \in Last : FileOf(t, f)'
         /\ SnapOf(t)'
         /\ \A s \in Kept : VaultOf(t, s)'
<1>1. TypeOK /\ SnapOf(t)
  BY OwnFacts
<1>2. pc'[t] = "roll_files" /\ todo'[t] = touched'[t] \cap Files
  BY <1>1, FailFacts
<1>3. \A f \in Last : FileOf(t, f)'
  BY <1>2 DEF FileOf, Files
<1>4. SnapOf(t)'
  BY <1>1, <1>2 DEF SnapOf, Taken, Working
<1>5. \A s \in Kept : VaultOf(t, s)'
  BY <1>2 DEF VaultOf
<1> QED
  BY <1>3, <1>4, <1>5

-----------------------------------------------------------------------------
(* No value is lost: one lemma per action.                                 *)

LEMMA ReviewKeeps ==
  ASSUME InitAssumption, Inv, NEW t \in Txns, Review(t)
  PROVE  Inv'
<1>1. BaseInv' /\ TypeOK /\ \A f \in Last : FileOf(t, f)
  BY OwnFacts, ReviewBase
<1>2. /\ pc'[t] = "reviewed" /\ pc[t] = "idle"
      /\ \A u \in Txns : u # t => pc'[u] = pc[u] /\ todo'[u] = todo[u]
      /\ UNCHANGED <<files, vault, cur, snap, touched, receipts>>
  BY <1>1, EnterFacts DEF Review, world, Phases
<1>3. \A f \in Last : FileOf(t, f)'
  BY <1>1, <1>2 DEF FileOf
<1>4. SnapOf(t)' /\ \A s \in Kept : VaultOf(t, s)'
  BY <1>2 DEF SnapOf, Taken, VaultOf, Working
<1>5. NoValueLost'
  BY <1>2, LossKept
<1> QED
  BY <1>1, <1>2, <1>3, <1>4, <1>5, OwnPart

LEMMA BeginKeeps ==
  ASSUME InitAssumption, Inv, NEW t \in Txns, Begin(t)
  PROVE  Inv'
<1>1. BaseInv' /\ TypeOK /\ \A f \in Last : FileOf(t, f)
  BY OwnFacts, BeginBase
<1>2. /\ pc'[t] = "snapshot" /\ pc[t] = "reviewed" /\ todo'[t] = Files \cup Secrets
      /\ \A u \in Txns : u # t => pc'[u] = pc[u] /\ todo'[u] = todo[u]
      /\ UNCHANGED <<files, vault, cur, snap, touched, receipts>>
  BY <1>1, EnterFacts DEF Begin, world, local, Phases
<1>3. \A f \in Last : FileOf(t, f)'
  BY <1>1, <1>2 DEF FileOf, Files
<1>4. SnapOf(t)' /\ \A s \in Kept : VaultOf(t, s)'
  BY <1>2 DEF SnapOf, Taken, VaultOf, Files
<1>5. NoValueLost'
  BY <1>2, LossKept
<1> QED
  BY <1>1, <1>2, <1>3, <1>4, <1>5, OwnPart

LEMMA SnapshotKeeps ==
  ASSUME InitAssumption, Inv, NEW t \in Txns, Snapshot(t)
  PROVE  Inv'
<1>1. /\ BaseInv' /\ TypeOK /\ \A f \in Last : FileOf(t, f)
      /\ SnapOf(t) /\ todo[t] \subseteq Files \cup Secrets
  BY OwnFacts, SnapshotBase, TypeFacts
<1>2. /\ pc[t] = "snapshot" /\ UNCHANGED <<files, vault, cur, touched, receipts>>
  BY DEF Snapshot, world
<1>3. PICK x \in todo[t] :
         \/ /\ x \in Files
            /\ snap' = [snap EXCEPT ![t].files[x] = files[x]]
            /\ Done(t, x) /\ UNCHANGED lock
         \/ /\ x \in Secrets /\ todo[t] \cap Files = {}
            /\ snap' = [snap EXCEPT ![t].vault[x] = vault[x]]
            /\ Done(t, x) /\ UNCHANGED lock
         \/ Return(t, "refused") /\ UNCHANGED snap
  BY DEF Snapshot
<1>4. NoValueLost'
  BY <1>2, LossKept
<1>5. CASE x \in Files /\ snap' = [snap EXCEPT ![t].files[x] = files[x]] /\ Done(t, x)
  <2>1. /\ pc' = pc /\ todo'[t] = todo[t] \ {x} /\ \A u \in Txns : u # t => todo'[u] = todo[u]
        /\ snap'[t].vault = snap[t].vault /\ snap'[t].files[x] = files[x]
        /\ \A g \in Files : g # x => snap'[t].files[g] = snap[t].files[g]
        /\ \A u \in Txns : u # t => snap'[u] = snap[u]
    BY <1>1, <1>5, DoneFacts, SnapFile
  <2>2. \A f \in Last : FileOf(t, f)'
    BY <1>1, <1>2, <2>1 DEF FileOf, Files
  <2>3. Secrets \subseteq todo'[t]
    BY <1>1, <1>2, <1>5, <2>1 DEF SnapOf, InitAssumption, Entries
  <2>4. SnapOf(t)' /\ \A s \in Kept : VaultOf(t, s)'
    BY <1>2, <2>1, <2>3 DEF SnapOf, Taken, VaultOf, Kept
  <2> QED
    BY <1>1, <1>2, <1>4, <2>1, <2>2, <2>4, OwnPart DEF Working
<1>6. CASE x \in Secrets /\ todo[t] \cap Files = {}
           /\ snap' = [snap EXCEPT ![t].vault[x] = vault[x]] /\ Done(t, x)
  <2>0. x \in Entries
    BY <1>6 DEF Entries
  <2>1. /\ pc' = pc /\ todo'[t] = todo[t] \ {x} /\ \A u \in Txns : u # t => todo'[u] = todo[u]
        /\ snap'[t].files = snap[t].files /\ snap'[t].vault[x] = vault[x]
        /\ \A r \in Entries : r # x => snap'[t].vault[r] = snap[t].vault[r]
        /\ \A u \in Txns : u # t => snap'[u] = snap[u]
    BY <1>1, <1>6, <2>0, DoneFacts, SnapEntry
  <2>2. \A f \in Last : f \notin todo[t] /\ files[f] = snap[t].files[f] /\ f \notin touched[t]
    BY <1>1, <1>2, <1>6 DEF FileOf, Files
  <2>3. \A f \in Last : FileOf(t, f)'
    BY <1>2, <2>1, <2>2 DEF FileOf
  <2>4. ASSUME NEW f \in Last, NEW s \in Kept, s \notin todo'[t], snap'[t].files[f].bytes = "new"
        PROVE  snap'[t].vault[s].value \in Held
    <3>1. CASE s = x
      BY <2>1, <2>2, <2>4, <3>1 DEF Inv, NoValueLost, Kept, Held
    <3>2. CASE s # x
      <4>1. s \notin todo[t] /\ Taken(t, f, s)
        BY <1>2, <2>1, <2>2, <2>4, <3>2 DEF Taken, Working
      <4>2. snap[t].vault[s].value \in Held
        BY <1>1, <2>1, <2>4, <4>1 DEF SnapOf
      <4> QED
        BY <2>1, <3>2, <4>2 DEF Kept, Entries
    <3> QED
      BY <3>1, <3>2
  <2>5. todo'[t] \cap Files = {}
    BY <1>6, <2>1
  <2>6. SnapOf(t)'
    BY <1>2, <2>1, <2>4, <2>5 DEF SnapOf, Taken
  <2>7. \A s \in Kept : VaultOf(t, s)'
    BY <1>2, <2>1 DEF VaultOf
  <2> QED
    BY <1>1, <1>2, <1>4, <2>1, <2>3, <2>6, <2>7, OwnPart DEF Working
<1>7. CASE Return(t, "refused") /\ UNCHANGED snap
  <2>1. /\ pc'[t] = "refused"
        /\ \A u \in Txns : u # t => pc'[u] = pc[u] /\ todo'[u] = todo[u]
    BY <1>1, <1>7, ReturnFacts DEF Finals
  <2>2. \A f \in Last : FileOf(t, f)'
    BY <2>1 DEF FileOf
  <2>3. SnapOf(t)' /\ \A s \in Kept : VaultOf(t, s)'
    BY <2>1 DEF SnapOf, Taken, VaultOf, Working
  <2> QED
    BY <1>1, <1>2, <1>4, <1>7, <2>1, <2>2, <2>3, OwnPart DEF Working
<1> QED
  BY <1>3, <1>5, <1>6, <1>7

LEMMA AdvanceKeeps ==
  ASSUME InitAssumption, Inv, NEW t \in Txns, Advance(t)
  PROVE  Inv'
<1>1. /\ BaseInv' /\ TypeOK /\ \A f \in Last : FileOf(t, f)
      /\ SnapOf(t) /\ \A s \in Kept : VaultOf(t, s)
  BY OwnFacts, AdvanceBase
<1>2. /\ todo[t] = {} /\ cur[t] = None
      /\ UNCHANGED <<files, vault, cur, snap, touched, receipts>>
  BY DEF Advance, world, local
<1>3. NoValueLost'
  BY <1>2, LossKept
<1>4. CASE pc[t] \in DOMAIN Following /\ Enter(t, Following[pc[t]], Targets[Following[pc[t]]])
  <2> DEFINE p == Following[pc[t]]
             x == Targets[p]
  <2>1. /\ pc[t] \in Working
        /\ \/ pc[t] = "snapshot" /\ p = "early" /\ x = Early
           \/ pc[t] = "early" /\ p = "secrets" /\ x = Secrets
           \/ pc[t] = "secrets" /\ p = "sources" /\ x = Copies
           \/ pc[t] = "sources" /\ p = "last" /\ x = Last
           \/ pc[t] = "last" /\ p = "finish" /\ x = {}
           \/ pc[t] = "roll_files" /\ p = "roll_dirs" /\ x = {}
    BY <1>4 DEF Following, Targets, Working
  <2>2. Enter(t, p, x)
    BY <1>4
  <2> HIDE DEF p, x
  <2>3. p \in Phases /\ x \in SUBSET (Files \cup Secrets)
    BY <2>1 DEF Phases, InitAssumption, Files
  <2>4. /\ pc'[t] = p /\ todo'[t] = x
        /\ \A u \in Txns : u # t => pc'[u] = pc[u] /\ todo'[u] = todo[u]
    BY <1>1, <2>2, <2>3, EnterFacts
  <2>5. \A f \in Last : FileOf(t, f)'
    BY <1>1, <1>2, <2>1, <2>4 DEF FileOf
  <2>6. SnapOf(t)'
    BY <1>1, <1>2, <2>1, <2>4 DEF SnapOf, Taken, Working
  <2>7. \A s \in Kept : VaultOf(t, s)'
    BY <1>1, <1>2, <2>1, <2>4 DEF VaultOf, Kept, InitAssumption, Entries
  <2> QED
    BY <1>1, <1>2, <1>3, <2>1, <2>4, <2>5, <2>6, <2>7, OwnPart
<1>5. CASE \E result \in Finals : pc[t] \in Working /\ Return(t, result)
  <2>1. PICK result \in Finals : pc[t] \in Working /\ Return(t, result)
    BY <1>5
  <2>2. /\ pc'[t] = result
        /\ \A u \in Txns : u # t => pc'[u] = pc[u] /\ todo'[u] = todo[u]
    BY <1>1, <2>1, ReturnFacts
  <2>3. \A f \in Last : FileOf(t, f)'
    BY <2>2 DEF FileOf, Finals
  <2>4. SnapOf(t)' /\ \A s \in Kept : VaultOf(t, s)'
    BY <2>2 DEF SnapOf, Taken, VaultOf, Working, Finals
  <2> QED
    BY <1>1, <1>2, <1>3, <2>1, <2>2, <2>3, <2>4, OwnPart
<1> QED
  BY <1>4, <1>5 DEF Advance, Finals, Working

LEMMA MakeParentKeeps ==
  ASSUME InitAssumption, Inv, NEW t \in Txns, MakeParent(t)
  PROVE  Inv'
<1>1. /\ BaseInv' /\ TypeOK /\ \A f \in Last : FileOf(t, f)
      /\ SnapOf(t) /\ \A s \in Kept : VaultOf(t, s)
  BY OwnFacts, MakeParentBase
<1>2. /\ pc[t] = "early" /\ UNCHANGED <<files, vault, cur, snap, touched>>
      /\ receipts' = receipts \/ receipts' = [receipts EXCEPT ![t] = @ \cup {Parent}]
      /\ UNCHANGED <<pc, todo>> \/ Fail(t)
  BY DEF MakeParent
<1>3. /\ receipts[t] \subseteq receipts'[t]
      /\ \A u \in Txns : u # t => receipts'[u] = receipts[u]
  BY <1>1, <1>2, TypeFacts
<1>4. NoValueLost'
  BY <1>2, LossKept
<1>5. CASE UNCHANGED <<pc, todo>>
  <2>1. \A f \in Last : FileOf(t, f)'
    BY <1>1, <1>2, <1>3, <1>5 DEF FileOf
  <2>2. SnapOf(t)' /\ \A s \in Kept : VaultOf(t, s)'
    BY <1>1, <1>2, <1>5 DEF SnapOf, Taken, VaultOf
  <2> QED
    BY <1>1, <1>2, <1>3, <1>4, <1>5, <2>1, <2>2, OwnPart DEF Working
<1>6. CASE Fail(t)
  <2>1. \A f \in Last :
           /\ f \in touched'[t] => f \in receipts'[t] /\ files'[f] = Committed(t)
           /\ f \notin touched'[t] => files'[f].bytes = snap[t].files[f].bytes
    BY <1>1, <1>2, <1>3 DEF FileOf
  <2>2. /\ \A f \in Last : FileOf(t, f)'
        /\ SnapOf(t)' /\ \A s \in Kept : VaultOf(t, s)'
    BY <1>2, <1>6, <2>1, FailKeeps
  <2>3. \A u \in Txns : u # t => pc'[u] = pc[u] /\ todo'[u] = todo[u]
    BY <1>1, <1>6, FailFacts
  <2> QED
    BY <1>1, <1>2, <1>3, <1>4, <2>2, <2>3, OwnPart DEF Working
<1> QED
  BY <1>2, <1>5, <1>6

\* A step of the commit that writes nothing: it goes on with the same or fewer
\* targets, or fails.
LEMMA QuietKeeps ==
  ASSUME InitAssumption, Inv, BaseInv', NEW t \in Txns,
         pc[t] \in {"early", "sources", "last"},
         UNCHANGED <<files, vault, snap, touched, receipts>>,
         \A u \in Txns : u # t => cur'[u] = cur[u],
         \/ /\ pc' = pc /\ todo'[t] \subseteq todo[t]
            /\ \A u \in Txns : u # t => todo'[u] = todo[u]
         \/ Fail(t)
  PROVE  Inv'
<1>1. /\ TypeOK /\ \A f \in Last : FileOf(t, f)
      /\ SnapOf(t) /\ \A s \in Kept : VaultOf(t, s)
  BY OwnFacts
<1>2. NoValueLost'
  BY LossKept
<1>3. CASE /\ pc' = pc /\ todo'[t] \subseteq todo[t]
           /\ \A u \in Txns : u # t => todo'[u] = todo[u]
  <2>1. \A f \in Last : FileOf(t, f)'
    BY <1>1, <1>3 DEF FileOf
  <2>2. SnapOf(t)' /\ \A s \in Kept : VaultOf(t, s)'
    BY <1>1, <1>3 DEF SnapOf, Taken, VaultOf
  <2> QED
    BY <1>2, <1>3, <2>1, <2>2, OwnPart DEF Working
<1>4. CASE Fail(t)
  <2>1. \A f \in Last :
           /\ f \in touched'[t] => f \in receipts'[t] /\ files'[f] = Committed(t)
           /\ f \notin touched'[t] => files'[f].bytes = snap[t].files[f].bytes
    BY <1>1 DEF FileOf
  <2>2. /\ \A f \in Last : FileOf(t, f)'
        /\ SnapOf(t)' /\ \A s \in Kept : VaultOf(t, s)'
    BY <1>4, <2>1, FailKeeps
  <2>3. \A u \in Txns : u # t => pc'[u] = pc[u] /\ todo'[u] = todo[u]
    BY <1>1, <1>4, FailFacts
  <2> QED
    BY <1>2, <2>2, <2>3, OwnPart DEF Working
<1> QED
  BY <1>3, <1>4

LEMMA CheckFileKeeps ==
  ASSUME InitAssumption, Inv, NEW t \in Txns, CheckFile(t)
  PROVE  Inv'
<1>1. BaseInv' /\ TypeOK /\ todo[t] \subseteq Files \cup Secrets
  BY OwnFacts, CheckFileBase, TypeFacts
<1>2. /\ UNCHANGED <<files, vault, snap, touched, receipts>>
      /\ pc[t] \in {"early", "sources", "last"}
  BY DEF CheckFile, world
<1>3. PICK f \in todo[t] :
        \/ cur' = [cur EXCEPT ![t] = f] /\ UNCHANGED <<pc, todo>>
        \/ UNCHANGED cur /\ Fail(t)
  BY DEF CheckFile
<1>4. \A u \in Txns : u # t => cur'[u] = cur[u]
  BY <1>1, <1>3, CurFacts
<1> QED
  BY <1>1, <1>2, <1>3, <1>4, QuietKeeps

LEMMA VerifyFileKeeps ==
  ASSUME InitAssumption, Inv, NEW t \in Txns, VerifyFile(t)
  PROVE  Inv'
<1>1. BaseInv' /\ TypeOK
  BY OwnFacts, VerifyFileBase
<1>2. /\ UNCHANGED <<files, vault, snap, touched, receipts>>
      /\ pc[t] \in {"early", "sources", "last"} /\ cur' = [cur EXCEPT ![t] = None]
      /\ UNCHANGED <<pc, todo>> \/ Fail(t)
  BY DEF VerifyFile, world
<1>3. \A u \in Txns : u # t => cur'[u] = cur[u]
  BY <1>1, <1>2, CurFacts
<1> QED
  BY <1>1, <1>2, <1>3, QuietKeeps

LEMMA VerifySourcesKeeps ==
  ASSUME InitAssumption, Inv, NEW t \in Txns, VerifySources(t)
  PROVE  Inv'
<1>1. BaseInv' /\ TypeOK
  BY OwnFacts, VerifySourcesBase
<1>2. /\ UNCHANGED <<files, vault, snap, touched, receipts, cur>>
      /\ pc[t] \in {"early", "sources", "last"}
  BY DEF VerifySources, world
<1>3. PICK s \in todo[t] : Done(t, s) \/ Fail(t)
  BY DEF VerifySources
<1>4. CASE Done(t, s)
  BY <1>1, <1>2, <1>4, DoneFacts, QuietKeeps
<1>5. CASE Fail(t)
  BY <1>1, <1>2, <1>5, QuietKeeps
<1> QED
  BY <1>3, <1>4, <1>5

LEMMA WriteFileKeeps ==
  ASSUME InitAssumption, Inv, NEW t \in Txns, WriteFile(t)
  PROVE  Inv'
<1> DEFINE f == cur[t]
<1>1. /\ BaseInv' /\ TypeOK /\ \A g \in Last : FileOf(t, g)
      /\ SnapOf(t) /\ \A s \in Kept : VaultOf(t, s)
  BY OwnFacts, WriteFileBase
<1>2. /\ pc[t] \in {"early", "last"} /\ f \in todo[t] /\ f \in Files
      /\ pc[t] = "early" => f \notin Last
      /\ UNCHANGED <<vault, snap>>
  BY DEF WriteFile, Inv, BaseInv, PhaseInv, Files, InitAssumption
<1>3. \/ /\ files' = [files EXCEPT ![f] = Committed(t)]
         /\ touched' = [touched EXCEPT ![t] = @ \cup {f}]
         /\ receipts' = [receipts EXCEPT ![t] = @ \cup {f}]
         /\ \/ Done(t, f) /\ UNCHANGED <<lock, cur>>
            \/ Fail(t) /\ cur' = [cur EXCEPT ![t] = None]
      \/ /\ touched' = [touched EXCEPT ![t] =
              IF files[f] = snap[t].files[f] THEN @ ELSE @ \cup {f}]
         /\ Fail(t) /\ cur' = [cur EXCEPT ![t] = None]
         /\ UNCHANGED <<files, receipts>>
  BY DEF WriteFile
<1> HIDE DEF f
<1>4. \A u \in Txns : u # t =>
        /\ cur'[u] = cur[u] /\ touched'[u] = touched[u] /\ receipts'[u] = receipts[u]
        /\ pc'[u] = pc[u] /\ todo'[u] = todo[u]
  BY <1>1, <1>3, CurFacts, DoneFacts, FailFacts, TypeFacts
<1>5. pc[t] = "last" /\ f \in Last => f \notin touched[t] /\ files[f] = snap[t].files[f]
  BY <1>1, <1>2 DEF FileOf
<1>6. CASE /\ files' = [files EXCEPT ![f] = Committed(t)]
           /\ touched' = [touched EXCEPT ![t] = @ \cup {f}]
           /\ receipts' = [receipts EXCEPT ![t] = @ \cup {f}]
  <2>1. /\ files'[f] = Committed(t) /\ \A g \in Files : g # f => files'[g] = files[g]
        /\ touched'[t] = touched[t] \cup {f} /\ receipts'[t] = receipts[t] \cup {f}
    BY <1>1, <1>2, <1>6, TypeFacts
  <2>2. NoValueLost'
    <3>1. CASE pc[t] = "last"
      BY <1>1, <1>2, <3>1 DEF VaultOf, NoValueLost, Kept, Held
    <3>2. CASE pc[t] = "early"
      BY <1>2, <2>1, <3>2, LossKept DEF Files
    <3> QED
      BY <1>2, <3>1, <3>2
  <2>3. CASE Done(t, f)
    <3>1. pc' = pc /\ todo'[t] = todo[t] \ {f}
      BY <1>1, <2>3, DoneFacts
    <3>2. \A g \in Last : FileOf(t, g)'
      BY <1>1, <1>2, <1>5, <2>1, <3>1 DEF FileOf, Files
    <3>3. SnapOf(t)'
      BY <1>1, <1>2, <3>1 DEF SnapOf, Taken
    <3>4. \A s \in Kept : VaultOf(t, s)'
      BY <1>1, <1>2, <3>1 DEF VaultOf
    <3> QED
      BY <1>1, <1>2, <1>4, <2>2, <3>2, <3>3, <3>4, OwnPart DEF Working
  <2>4. CASE Fail(t)
    <3>1. \A g \in Last :
             /\ g \in touched'[t] => g \in receipts'[t] /\ files'[g] = Committed(t)
             /\ g \notin touched'[t] => files'[g].bytes = snap[t].files[g].bytes
      BY <1>1, <1>2, <2>1 DEF FileOf, Files
    <3>2. /\ \A g \in Last : FileOf(t, g)'
          /\ SnapOf(t)' /\ \A s \in Kept : VaultOf(t, s)'
      BY <1>2, <2>4, <3>1, FailKeeps
    <3> QED
      BY <1>1, <1>2, <1>4, <2>2, <3>2, OwnPart DEF Working
  <2> QED
    BY <1>3, <2>3, <2>4
<1>7. CASE /\ touched' = [touched EXCEPT ![t] =
                IF files[f] = snap[t].files[f] THEN @ ELSE @ \cup {f}]
           /\ Fail(t) /\ UNCHANGED <<files, receipts>>
  <2>1. \A g \in Last : g \in touched'[t] <=> g \in touched[t]
    BY <1>1, <1>2, <1>5, <1>7, TypeFacts
  <2>2. \A g \in Last :
           /\ g \in touched'[t] => g \in receipts'[t] /\ files'[g] = Committed(t)
           /\ g \notin touched'[t] => files'[g].bytes = snap[t].files[g].bytes
    BY <1>1, <1>2, <1>7, <2>1 DEF FileOf
  <2>3. /\ \A g \in Last : FileOf(t, g)'
        /\ SnapOf(t)' /\ \A s \in Kept : VaultOf(t, s)'
    BY <1>2, <1>7, <2>2, FailKeeps
  <2>4. NoValueLost'
    BY <1>2, <1>7, LossKept
  <2> QED
    BY <1>1, <1>2, <1>4, <2>3, <2>4, OwnPart DEF Working
<1> QED
  BY <1>3, <1>6, <1>7

LEMMA SwapSecretKeeps ==
  ASSUME InitAssumption, Inv, NEW t \in Txns, SwapSecret(t)
  PROVE  Inv'
<1>1. /\ BaseInv' /\ TypeOK /\ \A g \in Last : FileOf(t, g)
      /\ SnapOf(t) /\ \A s \in Kept : VaultOf(t, s)
  BY OwnFacts, SwapSecretBase
<1>2. /\ pc[t] = "secrets" /\ cur[t] = None /\ todo[t] \subseteq Secrets
      /\ UNCHANGED <<files, snap, receipts>>
  BY DEF SwapSecret, Inv, BaseInv, PhaseInv
<1>3. PICK s \in todo[t] :
        \/ UNCHANGED <<vault, touched, cur>> /\ Fail(t)
        \/ /\ vault' = [vault EXCEPT ![s] = Swapped(t, s)]
           /\ touched' = [touched EXCEPT ![t] = @ \cup {s}]
           /\ \/ Done(t, s) /\ UNCHANGED <<lock, cur>>
              \/ cur' = [cur EXCEPT ![t] = s] /\ UNCHANGED <<pc, todo, lock>>
              \/ Fail(t) /\ UNCHANGED cur
  BY DEF SwapSecret
<1>4. s \in Entries /\ s \notin Files /\ s \in Secrets /\ s # None /\ s \in Files \cup Secrets \cup {None}
  BY <1>2 DEF Entries, InitAssumption
<1>5. \A u \in Txns : u # t =>
        /\ cur'[u] = cur[u] /\ touched'[u] = touched[u]
        /\ pc'[u] = pc[u] /\ todo'[u] = todo[u]
  BY <1>1, <1>3, <1>4, CurFacts, DoneFacts, FailFacts, TypeFacts
<1>6. /\ \A g \in Last : g \in touched'[t] <=> g \in touched[t]
      /\ \A r \in Kept : vault'[r].value = vault[r].value \/ vault'[r].value = "new"
  <2>1. CASE UNCHANGED <<vault, touched>>
    BY <2>1
  <2>2. CASE /\ vault' = [vault EXCEPT ![s] = Swapped(t, s)]
             /\ touched' = [touched EXCEPT ![t] = @ \cup {s}]
    <3>1. /\ vault'[s] = Swapped(t, s) /\ \A r \in Entries : r # s => vault'[r] = vault[r]
          /\ touched'[t] = touched[t] \cup {s}
      BY <1>1, <1>4, <2>2, TypeFacts
    <3>2. s \in Kept => Swapped(t, s).value = "new"
      BY DEF Swapped, Kept
    <3> QED
      BY <1>4, <3>1, <3>2 DEF Kept, Entries, Files
  <2> QED
    BY <1>3, <2>1, <2>2
<1>7. NoValueLost'
  BY <1>2, <1>6, LossKept DEF Held
<1>8. CASE Fail(t)
  <2>1. \A g \in Last :
           /\ g \in touched'[t] => g \in receipts'[t] /\ files'[g] = Committed(t)
           /\ g \notin touched'[t] => files'[g].bytes = snap[t].files[g].bytes
    BY <1>1, <1>2, <1>6 DEF FileOf
  <2>2. /\ \A g \in Last : FileOf(t, g)'
        /\ SnapOf(t)' /\ \A r \in Kept : VaultOf(t, r)'
    BY <1>2, <1>8, <2>1, FailKeeps
  <2> QED
    BY <1>1, <1>2, <1>5, <1>7, <2>2, OwnPart DEF Working
<1>9. CASE /\ vault' = [vault EXCEPT ![s] = Swapped(t, s)]
           /\ \/ Done(t, s) /\ UNCHANGED <<lock, cur>>
              \/ cur' = [cur EXCEPT ![t] = s] /\ UNCHANGED <<pc, todo, lock>>
  <2>1. s \in Kept => vault'[s].value = "new"
    <3>1. vault'[s] = Swapped(t, s)
      BY <1>1, <1>4, <1>9, TypeFacts
    <3> QED
      BY <3>1 DEF Swapped, Kept
  <2>2. /\ pc' = pc /\ todo'[t] \in {todo[t], todo[t] \ {s}} /\ cur'[t] \in {None, s}
    BY <1>1, <1>2, <1>4, <1>9, DoneFacts, CurFacts
  <2>3. \A g \in Last : FileOf(t, g)'
    BY <1>1, <1>2, <1>6, <2>2 DEF FileOf
  <2>4. SnapOf(t)'
    BY <1>1, <1>2, <2>2 DEF SnapOf, Taken
  <2>5. \A r \in Kept : VaultOf(t, r)'
    <3>1. SUFFICES ASSUME NEW r \in Kept, r \notin todo'[t] \ {cur'[t]}
                   PROVE  vault'[r].value \in Held
      BY <1>2, <2>2 DEF VaultOf
    <3>2. CASE r = s
      BY <2>1, <3>2 DEF Held
    <3>3. CASE r # s
      <4>1. r # None
        BY DEF Kept, InitAssumption, Entries
      <4>2. vault[r].value \in Held
        BY <1>1, <1>2, <2>2, <3>1, <3>3, <4>1 DEF VaultOf
      <4> QED
        BY <1>6, <4>2 DEF Held
    <3> QED
      BY <3>2, <3>3
  <2> QED
    BY <1>1, <1>2, <1>5, <1>7, <2>3, <2>4, <2>5, OwnPart DEF Working
<1> QED
  BY <1>3, <1>8, <1>9

LEMMA ProtectKeeps ==
  ASSUME InitAssumption, Inv, NEW t \in Txns, Protect(t)
  PROVE  Inv'
<1>1. /\ BaseInv' /\ TypeOK /\ \A g \in Last : FileOf(t, g)
      /\ SnapOf(t) /\ \A s \in Kept : VaultOf(t, s)
  BY OwnFacts, ProtectBase
<1>2. /\ UNCHANGED <<files, snap, touched, receipts>>
      /\ pc[t] = "secrets" /\ cur[t] \in Secrets
      /\ cur' = [cur EXCEPT ![t] = None]
      /\ vault' = vault \/ vault' = [vault EXCEPT ![cur[t]].meta = seen[t].vault[Source].meta]
      /\ Done(t, cur[t]) \/ Fail(t)
  BY DEF Protect, Inv, BaseInv, PhaseInv
<1>3. /\ cur'[t] = None
      /\ \A u \in Txns : u # t => cur'[u] = cur[u] /\ pc'[u] = pc[u] /\ todo'[u] = todo[u]
  <2>1. cur'[t] = None /\ \A u \in Txns : u # t => cur'[u] = cur[u]
    BY <1>1, <1>2, CurFacts
  <2>2. \A u \in Txns : u # t => pc'[u] = pc[u] /\ todo'[u] = todo[u]
    BY <1>1, <1>2, DoneFacts, FailFacts
  <2> QED
    BY <2>1, <2>2
<1>4. \A r \in Kept : vault'[r].value = vault[r].value
  <2>1. CASE vault' = vault
    BY <2>1
  <2>2. CASE vault' = [vault EXCEPT ![cur[t]].meta = seen[t].vault[Source].meta]
    <3>1. vault \in [Entries -> Entry] /\ vault[cur[t]] \in Entry /\ cur[t] \in Entries
      BY <1>1, <1>2, TypeFacts DEF Entries
    <3>2. vault'[cur[t]] = [vault[cur[t]] EXCEPT !.meta = seen[t].vault[Source].meta]
      BY <2>2, <3>1
    <3>3. vault'[cur[t]].value = vault[cur[t]].value
      BY <3>1, <3>2 DEF Entry
    <3>4. \A r \in Entries : r # cur[t] => vault'[r] = vault[r]
      BY <2>2, <3>1
    <3> QED
      BY <3>3, <3>4 DEF Kept, Entries
  <2> QED
    BY <1>2, <2>1, <2>2
<1>5. NoValueLost'
  BY <1>2, <1>4, LossKept
<1>6. CASE Fail(t)
  <2>1. \A g \in Last :
           /\ g \in touched'[t] => g \in receipts'[t] /\ files'[g] = Committed(t)
           /\ g \notin touched'[t] => files'[g].bytes = snap[t].files[g].bytes
    BY <1>1, <1>2 DEF FileOf
  <2>2. /\ \A g \in Last : FileOf(t, g)'
        /\ SnapOf(t)' /\ \A r \in Kept : VaultOf(t, r)'
    BY <1>2, <1>6, <2>1, FailKeeps
  <2> QED
    BY <1>1, <1>2, <1>3, <1>5, <2>2, OwnPart DEF Working
<1>7. CASE Done(t, cur[t])
  <2>1. pc' = pc /\ todo'[t] = todo[t] \ {cur[t]}
    BY <1>1, <1>7, DoneFacts
  <2>2. \A g \in Last : FileOf(t, g)'
    BY <1>1, <1>2, <2>1 DEF FileOf
  <2>3. SnapOf(t)'
    BY <1>1, <1>2, <2>1 DEF SnapOf, Taken
  <2>4. None \notin Kept
    BY DEF Kept, InitAssumption, Entries
  <2>5. \A r \in Kept : VaultOf(t, r)'
    BY <1>1, <1>2, <1>3, <1>4, <2>1, <2>4 DEF VaultOf
  <2> QED
    BY <1>1, <1>2, <1>3, <1>5, <2>2, <2>3, <2>5, OwnPart DEF Working
<1> QED
  BY <1>2, <1>6, <1>7

LEMMA CheckRollbackKeeps ==
  ASSUME InitAssumption, Inv, NEW t \in Txns, CheckRollback(t)
  PROVE  Inv'
<1>1. /\ BaseInv' /\ TypeOK /\ \A g \in Last : FileOf(t, g)
      /\ SnapOf(t) /\ todo[t] \subseteq Files \cup Secrets
  BY OwnFacts, CheckRollbackBase, TypeFacts
<1>2. /\ UNCHANGED <<files, vault, snap, touched, receipts>>
      /\ pc[t] = "roll_files"
  BY DEF CheckRollback, world
<1>3. PICK f \in todo[t] :
        \/ cur' = [cur EXCEPT ![t] = f] /\ UNCHANGED <<todo, pc>>
        \/ /\ f \notin receipts[t] \/ files[f] # Committed(t)
           /\ Done(t, f) /\ UNCHANGED cur
  BY DEF CheckRollback
<1>4. /\ pc' = pc
      /\ todo'[t] = todo[t] \/ (f \notin Last /\ todo'[t] = todo[t] \ {f})
      /\ \A u \in Txns : u # t => cur'[u] = cur[u] /\ todo'[u] = todo[u]
  <2>1. CASE cur' = [cur EXCEPT ![t] = f] /\ UNCHANGED <<todo, pc>>
    BY <1>1, <2>1, CurFacts
  <2>2. CASE /\ f \notin receipts[t] \/ files[f] # Committed(t)
             /\ Done(t, f) /\ UNCHANGED cur
    <3>1. f \notin Last
      BY <1>1, <1>2, <2>2 DEF FileOf
    <3> QED
      BY <1>1, <2>2, <3>1, DoneFacts
  <2> QED
    BY <1>3, <2>1, <2>2
<1>5. \A g \in Last : FileOf(t, g)'
  BY <1>1, <1>2, <1>4 DEF FileOf
<1>6. SnapOf(t)' /\ \A s \in Kept : VaultOf(t, s)'
  BY <1>1, <1>2, <1>4 DEF SnapOf, Taken, VaultOf
<1>7. NoValueLost'
  BY <1>2, LossKept
<1> QED
  BY <1>1, <1>2, <1>4, <1>5, <1>6, <1>7, OwnPart DEF Working

LEMMA RestoreFileKeeps ==
  ASSUME InitAssumption, "rollback" \notin Faults, Inv, NEW t \in Txns, RestoreFile(t)
  PROVE  Inv'
<1>1. /\ BaseInv' /\ TypeOK /\ \A g \in Last : FileOf(t, g) /\ SnapOf(t)
  BY OwnFacts, RestoreFileBase
<1>2. /\ UNCHANGED <<vault, snap, touched, receipts>>
      /\ pc[t] = "roll_files" /\ cur[t] \in Files
      /\ cur' = [cur EXCEPT ![t] = None] /\ Done(t, cur[t])
      /\ files' = [files EXCEPT ![cur[t]] = Restoration(t, cur[t])]
  BY DEF RestoreFile, Inv, BaseInv, PhaseInv
<1>3. /\ pc' = pc /\ todo'[t] = todo[t] \ {cur[t]}
      /\ \A u \in Txns : u # t => cur'[u] = cur[u] /\ todo'[u] = todo[u]
  BY <1>1, <1>2, CurFacts, DoneFacts
<1>4. /\ files'[cur[t]].bytes = snap[t].files[cur[t]].bytes
      /\ \A g \in Files : g # cur[t] => files'[g] = files[g]
  <2>1. Restoration(t, cur[t]).bytes = snap[t].files[cur[t]].bytes
    BY <1>1, <1>2, RestorationType
  <2>2. /\ files'[cur[t]] = Restoration(t, cur[t])
        /\ \A g \in Files : g # cur[t] => files'[g] = files[g]
    BY <1>1, <1>2, TypeFacts
  <2> QED
    BY <2>1, <2>2
<1>5. \A g \in Last : FileOf(t, g)'
  BY <1>1, <1>2, <1>3, <1>4 DEF FileOf, Files
<1>6. SnapOf(t)' /\ \A s \in Kept : VaultOf(t, s)'
  BY <1>1, <1>2, <1>3 DEF SnapOf, Taken, VaultOf
<1>7. \A g \in Last : files'[g].bytes = "new" => files[g].bytes = "new"
  BY <1>1, <1>2, <1>4 DEF FileOf, Files, Committed
<1>8. NoValueLost'
  BY <1>2, <1>7, LossKept
<1> QED
  BY <1>1, <1>2, <1>3, <1>5, <1>6, <1>8, OwnPart DEF Working

LEMMA RemoveParentKeeps ==
  ASSUME InitAssumption, Inv, NEW t \in Txns, RemoveParent(t)
  PROVE  Inv'
<1>1. /\ BaseInv' /\ TypeOK /\ \A g \in Last : FileOf(t, g) /\ SnapOf(t)
  BY OwnFacts, RemoveParentBase
<1>2. /\ UNCHANGED <<files, vault, cur, snap, touched, receipts>>
      /\ pc[t] = "roll_dirs" /\ Enter(t, "roll_secrets", touched[t] \cap Secrets)
      /\ "roll_secrets" \in Phases /\ touched[t] \cap Secrets \in SUBSET (Files \cup Secrets)
  BY DEF RemoveParent, Phases
<1>3. pc'[t] = "roll_secrets" /\ \A u \in Txns : u # t => pc'[u] = pc[u] /\ todo'[u] = todo[u]
  BY <1>1, <1>2, EnterFacts
<1>4. \A g \in Last : FileOf(t, g)'
  BY <1>1, <1>2, <1>3 DEF FileOf
<1>5. SnapOf(t)' /\ \A s \in Kept : VaultOf(t, s)'
  BY <1>1, <1>2, <1>3 DEF SnapOf, Taken, VaultOf, Working
<1>6. NoValueLost'
  BY <1>2, LossKept
<1> QED
  BY <1>1, <1>2, <1>3, <1>4, <1>5, <1>6, OwnPart DEF Working

LEMMA RollbackSecretKeeps ==
  ASSUME InitAssumption, "rollback" \notin Faults, Inv, NEW t \in Txns, RollbackSecret(t)
  PROVE  Inv'
<1>1. /\ BaseInv' /\ TypeOK /\ \A g \in Last : FileOf(t, g) /\ SnapOf(t)
  BY OwnFacts, RollbackSecretBase
<1>2. /\ UNCHANGED <<files, cur, snap, touched, receipts>>
      /\ pc[t] = "roll_secrets" /\ todo[t] \subseteq Secrets
  BY DEF RollbackSecret, Inv, BaseInv, PhaseInv
<1>3. PICK s \in todo[t] :
        /\ Done(t, s)
        /\ vault' = vault \/ vault' = [vault EXCEPT ![s] = snap[t].vault[s]]
  BY DEF RollbackSecret, RestoredEntry
<1>4. /\ pc' = pc /\ todo'[t] \subseteq todo[t]
      /\ \A u \in Txns : u # t => todo'[u] = todo[u]
  BY <1>1, <1>3, DoneFacts
<1>5. \A r \in Entries : vault'[r] = vault[r] \/ vault'[r] = snap[t].vault[r]
  BY <1>1, <1>3, TypeFacts
<1>6. NoValueLost'
  <2>1. SUFFICES ASSUME NEW g \in Last, files[g].bytes = "new", NEW r \in Kept
                 PROVE  vault'[r].value \in Held
    BY <1>2 DEF NoValueLost, Held, Kept
  <2>2. vault[r].value \in Held
    BY <2>1 DEF Inv, NoValueLost, Held, Kept
  <2>3. snap[t].files[g].bytes = "new" /\ Taken(t, g, r)
    BY <1>1, <1>2, <2>1 DEF FileOf, Taken, Working
  <2>4. snap[t].vault[r].value \in Held
    BY <1>1, <2>3 DEF SnapOf
  <2> QED
    BY <1>5, <2>2, <2>4 DEF Kept, Entries
<1>7. \A g \in Last : FileOf(t, g)'
  BY <1>1, <1>2, <1>4 DEF FileOf
<1>8. SnapOf(t)' /\ \A r \in Kept : VaultOf(t, r)'
  BY <1>1, <1>2, <1>4 DEF SnapOf, Taken, VaultOf
<1> QED
  BY <1>1, <1>2, <1>4, <1>6, <1>7, <1>8, OwnPart DEF Working

LEMMA CrashKeeps ==
  ASSUME InitAssumption, Inv, NEW t \in Txns, Crash(t)
  PROVE  Inv'
<1>1. BaseInv' /\ TypeOK
  BY OwnFacts, CrashBase
<1>2. /\ UNCHANGED <<files, vault, snap, touched, receipts>>
      /\ cur' = [cur EXCEPT ![t] = None] /\ Enter(t, "dead", {})
  BY DEF Crash, world, local
<1>3. pc'[t] = "dead" /\ \A u \in Txns : u # t => pc'[u] = pc[u] /\ todo'[u] = todo[u]
  BY <1>1, <1>2, EnterFacts DEF Phases, Finals
<1>4. \A u \in Txns : u # t => cur'[u] = cur[u]
  BY <1>1, <1>2, CurFacts
<1>5. \A g \in Last : FileOf(t, g)'
  BY <1>3 DEF FileOf
<1>6. SnapOf(t)' /\ \A s \in Kept : VaultOf(t, s)'
  BY <1>3 DEF SnapOf, Taken, VaultOf, Working
<1>7. NoValueLost'
  BY <1>2, LossKept
<1> QED
  BY <1>1, <1>2, <1>3, <1>4, <1>5, <1>6, <1>7, OwnPart

\* Somebody changes entries and none of them disappears.
LEMMA EntriesMove ==
  ASSUME InitAssumption, Inv, BaseInv',
         UNCHANGED <<files, pc, todo, cur, snap, touched, receipts>>,
         \A s \in Kept : vault[s].value \in Held => vault'[s].value \in Held
  PROVE  Inv'
<1>1. FileInv'
  BY DEF Inv, FileInv, FileOf
<1>2. SnapInv'
  BY DEF Inv, SnapInv, SnapOf, Taken
<1>3. VaultInv'
  BY DEF Inv, VaultInv, VaultOf
<1>4. NoValueLost'
  BY LossKept
<1> QED
  BY <1>1, <1>2, <1>3, <1>4 DEF Inv

LEMMA EditEntryKeeps ==
  ASSUME InitAssumption, Inv, NEW s \in Secrets, EditEntry(s)
  PROVE  Inv'
<1>1. BaseInv
  BY DEF Inv
<1>2. /\ BaseInv' /\ vault'[s].value = "other"
      /\ \A r \in Entries : r # s => vault'[r] = vault[r]
  BY <1>1, EditEntryBase
<1>3. \A r \in Kept : vault[r].value \in Held => vault'[r].value \in Held
  BY <1>2 DEF Held, Kept, Entries
<1>4. UNCHANGED <<files, pc, todo, cur, snap, touched, receipts>>
  BY DEF EditEntry, local
<1> QED
  BY <1>2, <1>3, <1>4, EntriesMove

LEMMA ChangeSourceKeeps ==
  ASSUME InitAssumption, Inv, ChangeSource
  PROVE  Inv'
<1>1. BaseInv
  BY DEF Inv
<1>2. BaseInv' /\ \A r \in Kept : vault[r].value \in Held => vault'[r].value \in Held
  BY <1>1, ChangeSourceBase DEF Kept
<1>3. UNCHANGED <<files, pc, todo, cur, snap, touched, receipts>>
  BY DEF ChangeSource, local
<1> QED
  BY <1>2, <1>3, EntriesMove

LEMMA InvInit ==
  ASSUME InitAssumption, Init
  PROVE  Inv
<1>1. BaseInv
  BY BaseInit
<1>2. FileInv /\ SnapInv /\ VaultInv
  BY DEF Init, FileInv, FileOf, SnapInv, SnapOf, Taken, VaultInv, VaultOf, Working
<1>3. \A f \in Last : files[f].bytes # "new"
  BY DEF Init, AbsentFile, Files
<1>4. NoValueLost
  BY <1>3 DEF NoValueLost
<1> QED
  BY <1>1, <1>2, <1>4 DEF Inv

LEMMA InvNext ==
  ASSUME InitAssumption, "rollback" \notin Faults, Inv, [Next /\ NoEditor]_vars
  PROVE  Inv'
<1>1. ASSUME NEW t \in Txns, Step(t)
      PROVE  Inv'
  BY <1>1, ReviewKeeps, BeginKeeps, SnapshotKeeps, AdvanceKeeps, MakeParentKeeps,
     CheckFileKeeps, WriteFileKeeps, VerifyFileKeeps, SwapSecretKeeps, ProtectKeeps,
     VerifySourcesKeeps, CheckRollbackKeeps, RestoreFileKeeps, RemoveParentKeeps,
     RollbackSecretKeeps DEF Step
<1>2. CASE UNCHANGED vars
  <2>1. BaseInv'
    BY <1>2 DEF vars, Inv, BaseInv, TypeOK, LockInv, PhaseInv
  <2> QED
    BY <1>2, <2>1, EntriesMove DEF vars
<1> QED
  BY <1>1, <1>2, CrashKeeps, EditEntryKeeps, ChangeSourceKeeps DEF Next, NoEditor

\* The plaintext of a value is in the dotenv or the value is in the vault, at
\* every step of commit_init and of its rollback, however many transactions
\* run, whatever write of the commit fails and wherever a process dies, as long
\* as no write of a rollback fails and nobody saves a file meanwhile.
THEOREM InitLosesNoValue ==
  ASSUME InitAssumption, "rollback" \notin Faults
  PROVE  Spec /\ [][NoEditor]_vars => []NoValueLost
<1>1. Init => Inv
  BY InvInit
<1>2. Inv /\ [Next /\ NoEditor]_vars => Inv'
  BY InvNext
<1>3. [Next]_vars /\ [NoEditor]_vars => [Next /\ NoEditor]_vars
  OBVIOUS
<1>4. Inv => NoValueLost
  BY DEF Inv
<1> QED
  BY <1>1, <1>2, <1>3, <1>4, PTL DEF Spec

-----------------------------------------------------------------------------
(* The argument for CopyFollowsSource.  A copy that is done has the        *)
(* protection its source had at review time, and from the first check of   *)
(* the sources on the source is as it was at review time.  Phantom's own   *)
(* commands cannot change the source meanwhile: they wait for the lock.    *)

\* The phases in which entries are, or have been, swapped.
Copying == {"secrets", "sources", "last", "finish"}

CopyDone(t, s) == pc[t] \in Copying /\ (pc[t] = "secrets" => s \notin todo[t])

SourceChecked(t) ==
  /\ pc[t] \in {"sources", "last", "finish"} /\ Copies # {}
  /\ pc[t] = "sources" => todo[t] # Copies

CopyOf(t) ==
  /\ \A s \in Copies : CopyDone(t, s) => vault[s].meta = seen[t].vault[Source].meta
  /\ SourceChecked(t) => SourceUnchanged(t)

CopyInv == \A t \in Txns : CopyOf(t)

\* Only the lock holder changes entries under the lock.
LEMMA CopyFrame ==
  ASSUME BaseInv, CopyInv, NEW t \in Txns, CopyOf(t)',
         \A u \in Txns : u # t => pc'[u] = pc[u] /\ todo'[u] = todo[u] /\ seen'[u] = seen[u],
         vault' = vault \/ pc[t] \in Working
  PROVE  CopyInv'
<1>1. SUFFICES ASSUME NEW u \in Txns, u # t
               PROVE  CopyOf(u)'
  BY DEF CopyInv
<1>2. CASE pc[u] \in Working
  <2>1. vault' = vault
    BY <1>1, <1>2 DEF BaseInv, LockInv
  <2> QED
    BY <1>1, <2>1 DEF CopyInv, CopyOf, CopyDone, SourceChecked, SourceUnchanged
<1>3. CASE pc[u] \notin Working
  BY <1>1, <1>3 DEF CopyOf, CopyDone, SourceChecked, Copying, Working
<1> QED
  BY <1>2, <1>3

\* A step to a phase without copies, or one that stays among the last files.
LEMMA QuietCopy ==
  ASSUME BaseInv, CopyInv, NEW t \in Txns, UNCHANGED seen,
         \A u \in Txns : u # t => pc'[u] = pc[u] /\ todo'[u] = todo[u],
         \/ pc'[t] \notin Copying /\ (vault' = vault \/ pc[t] \in Working)
         \/ pc[t] = "last" /\ pc'[t] = "last" /\ vault' = vault
  PROVE  CopyInv'
<1>1. CopyOf(t)'
  BY DEF CopyInv, CopyOf, CopyDone, SourceChecked, SourceUnchanged, Copying
<1> QED
  BY <1>1, CopyFrame

\* The steps before the entries and of the files.
LEMMA OpeningCopy ==
  ASSUME InitAssumption, BaseInv, CopyInv, NEW t \in Txns,
         Review(t) \/ Begin(t) \/ Snapshot(t) \/ MakeParent(t)
  PROVE  CopyInv'
<1>1. TypeOK /\ todo[t] \in SUBSET (Files \cup Secrets)
  BY TypeFacts DEF BaseInv
<1>2. CASE Review(t)
  <2>1. /\ pc'[t] = "reviewed" /\ vault' = vault
        /\ \A u \in Txns : u # t => pc'[u] = pc[u] /\ todo'[u] = todo[u] /\ seen'[u] = seen[u]
    BY <1>1, <1>2, EnterFacts, Views DEF Review, Phases, world, ViewType
  <2>2. CopyOf(t)'
    BY <2>1 DEF CopyOf, CopyDone, SourceChecked, Copying
  <2> QED
    BY <2>1, <2>2, CopyFrame
<1>3. CASE Begin(t)
  <2>1. /\ pc'[t] = "snapshot" /\ vault' = vault /\ seen' = seen
        /\ \A u \in Txns : u # t => pc'[u] = pc[u] /\ todo'[u] = todo[u]
    BY <1>1, <1>3, EnterFacts DEF Begin, Phases, world, local
  <2> QED
    BY <2>1, QuietCopy DEF Copying
<1>4. CASE Snapshot(t)
  <2>1. /\ pc[t] = "snapshot" /\ vault' = vault /\ seen' = seen
        /\ (\E x \in todo[t] : Done(t, x)) \/ Return(t, "refused")
    BY <1>4 DEF Snapshot, world
  <2>2. /\ pc'[t] \in {"snapshot", "refused"}
        /\ \A u \in Txns : u # t => pc'[u] = pc[u] /\ todo'[u] = todo[u]
    BY <1>1, <2>1, DoneFacts, ReturnFacts DEF Finals
  <2> QED
    BY <2>1, <2>2, QuietCopy DEF Copying
<1>5. CASE MakeParent(t)
  <2>1. /\ pc[t] = "early" /\ vault' = vault /\ seen' = seen
        /\ UNCHANGED <<pc, todo>> \/ Fail(t)
    BY <1>5 DEF MakeParent
  <2>2. /\ pc'[t] \in {"early", "roll_files"}
        /\ \A u \in Txns : u # t => pc'[u] = pc[u] /\ todo'[u] = todo[u]
    BY <1>1, <2>1, FailFacts
  <2> QED
    BY <2>1, <2>2, QuietCopy DEF Copying
<1> QED
  BY <1>2, <1>3, <1>4, <1>5

LEMMA FilesCopy ==
  ASSUME InitAssumption, BaseInv, CopyInv, NEW t \in Txns,
         CheckFile(t) \/ WriteFile(t) \/ VerifyFile(t)
  PROVE  CopyInv'
<1>1. TypeOK
  BY DEF BaseInv
<1>2. /\ pc[t] \in {"early", "last"} /\ vault' = vault /\ seen' = seen
      /\ UNCHANGED <<pc, todo>> \/ Done(t, cur[t]) \/ Fail(t)
  BY DEF CheckFile, WriteFile, VerifyFile, world
<1>3. /\ pc'[t] \in {pc[t], "roll_files"}
      /\ \A u \in Txns : u # t => pc'[u] = pc[u] /\ todo'[u] = todo[u]
  BY <1>1, <1>2, DoneFacts, FailFacts
<1> QED
  BY <1>2, <1>3, QuietCopy DEF Copying

\* The rollback and a crash.
LEMMA ClosingCopy ==
  ASSUME InitAssumption, BaseInv, CopyInv, NEW t \in Txns,
         \/ CheckRollback(t) \/ RestoreFile(t) \/ RemoveParent(t) \/ RollbackSecret(t)
         \/ Crash(t)
  PROVE  CopyInv'
<1>1. TypeOK /\ {} \in SUBSET (Files \cup Secrets)
      /\ touched[t] \cap Secrets \in SUBSET (Files \cup Secrets)
      /\ "dead" \in Phases /\ "roll_secrets" \in Phases
  BY DEF BaseInv, Phases, Finals
<1>2. CASE CheckRollback(t) \/ RestoreFile(t) \/ RollbackSecret(t)
  <2>1. /\ pc[t] \in {"roll_files", "roll_secrets"} /\ seen' = seen
        /\ UNCHANGED <<pc, todo>> \/ \E x : Done(t, x)
    BY <1>2 DEF CheckRollback, RestoreFile, RollbackSecret
  <2>2. /\ pc'[t] = pc[t]
        /\ \A u \in Txns : u # t => pc'[u] = pc[u] /\ todo'[u] = todo[u]
    BY <1>1, <2>1, DoneFacts
  <2> QED
    BY <2>1, <2>2, QuietCopy DEF Copying, Working
<1>3. CASE RemoveParent(t)
  <2>1. Enter(t, "roll_secrets", touched[t] \cap Secrets) /\ vault' = vault /\ seen' = seen
    BY <1>3 DEF RemoveParent
  <2>2. /\ pc'[t] = "roll_secrets"
        /\ \A u \in Txns : u # t => pc'[u] = pc[u] /\ todo'[u] = todo[u]
    BY <1>1, <2>1, EnterFacts
  <2> QED
    BY <2>1, <2>2, QuietCopy DEF Copying
<1>4. CASE Crash(t)
  <2>1. Enter(t, "dead", {}) /\ vault' = vault /\ seen' = seen
    BY <1>4 DEF Crash, world, local
  <2>2. pc'[t] = "dead" /\ \A u \in Txns : u # t => pc'[u] = pc[u] /\ todo'[u] = todo[u]
    BY <1>1, <2>1, EnterFacts
  <2> QED
    BY <2>1, <2>2, QuietCopy DEF Copying
<1> QED
  BY <1>2, <1>3, <1>4

LEMMA AdvanceCopy ==
  ASSUME InitAssumption, BaseInv, CopyInv, NEW t \in Txns, Advance(t)
  PROVE  CopyInv'
<1>1. TypeOK /\ todo[t] = {} /\ vault' = vault /\ seen' = seen
  BY DEF Advance, BaseInv, world, local
<1>2. CASE pc[t] \in DOMAIN Following /\ Enter(t, Following[pc[t]], Targets[Following[pc[t]]])
  <2> DEFINE p == Following[pc[t]]
             x == Targets[p]
  <2>1. /\ p \in {"early", "secrets", "sources", "last", "finish", "roll_dirs"}
        /\ p = "sources" => pc[t] = "secrets"
        /\ p = "last" => pc[t] = "sources"
        /\ p = "finish" => pc[t] = "last"
    BY <1>2 DEF Following
  <2>2. /\ p = "secrets" => x = Secrets
        /\ p = "sources" => x = Copies
        /\ x \in SUBSET (Files \cup Secrets)
    BY <2>1 DEF Targets, InitAssumption, Files
  <2>3. Enter(t, p, x) /\ p \in Phases
    BY <1>2, <2>1 DEF Phases
  <2> HIDE DEF p, x
  <2>4. /\ pc'[t] = p /\ todo'[t] = x
        /\ \A u \in Txns : u # t => pc'[u] = pc[u] /\ todo'[u] = todo[u]
    BY <1>1, <2>2, <2>3, EnterFacts
  <2>5. CopyOf(t)
    BY DEF CopyInv
  <2>6. ASSUME NEW s \in Copies, CopyDone(t, s)'
        PROVE  vault'[s].meta = seen'[t].vault[Source].meta
    <3>1. s \in Secrets
      BY DEF InitAssumption
    <3>2. CopyDone(t, s)
      BY <1>1, <2>1, <2>2, <2>4, <2>6, <3>1 DEF CopyDone, Copying
    <3> QED
      BY <1>1, <2>5, <3>2 DEF CopyOf
  <2>7. ASSUME SourceChecked(t)'
        PROVE  SourceUnchanged(t)'
    <3>1. SourceChecked(t)
      BY <1>1, <2>1, <2>2, <2>4, <2>7 DEF SourceChecked
    <3> QED
      BY <1>1, <2>5, <3>1 DEF CopyOf, SourceUnchanged
  <2>8. CopyOf(t)'
    BY <2>6, <2>7 DEF CopyOf
  <2> QED
    BY <1>1, <2>4, <2>8, CopyFrame
<1>3. CASE \E r \in {"committed", "restored", "incomplete"} : Return(t, r)
  <2>1. /\ pc'[t] \in {"committed", "restored", "incomplete"}
        /\ \A u \in Txns : u # t => pc'[u] = pc[u] /\ todo'[u] = todo[u]
    BY <1>1, <1>3, ReturnFacts DEF Finals
  <2> QED
    BY <1>1, <2>1, QuietCopy DEF Copying
<1> QED
  BY <1>2, <1>3 DEF Advance

\* A swap leaves the source and the copies that are done alone: a swapped copy
\* is not done before it is protected.
LEMMA SwapSecretCopy ==
  ASSUME InitAssumption, BaseInv, CopyInv, NEW t \in Txns, SwapSecret(t)
  PROVE  CopyInv'
<1>1. TypeOK /\ pc[t] = "secrets" /\ seen' = seen /\ todo[t] \subseteq Secrets
  BY DEF SwapSecret, BaseInv, PhaseInv
<1>2. PICK s \in todo[t] :
        \/ Fail(t)
        \/ /\ vault' = [vault EXCEPT ![s] = Swapped(t, s)]
           /\ (s \notin Copies /\ Done(t, s)) \/ UNCHANGED <<pc, todo>>
  BY DEF SwapSecret
<1>3. CASE Fail(t)
  <2>1. /\ pc'[t] = "roll_files"
        /\ \A u \in Txns : u # t => pc'[u] = pc[u] /\ todo'[u] = todo[u]
    BY <1>1, <1>3, FailFacts
  <2> QED
    BY <1>1, <2>1, QuietCopy DEF Copying, Working
<1>4. CASE /\ vault' = [vault EXCEPT ![s] = Swapped(t, s)]
           /\ (s \notin Copies /\ Done(t, s)) \/ UNCHANGED <<pc, todo>>
  <2>1. /\ pc' = pc /\ \A r \in Copies : r \notin todo'[t] => r \notin todo[t] /\ r # s
        /\ \A u \in Txns : u # t => todo'[u] = todo[u]
    BY <1>1, <1>4, DoneFacts
  <2>2. \A r \in Entries : r # s => vault'[r] = vault[r]
    BY <1>1, <1>4, TypeFacts
  <2>3. CopyOf(t)'
    BY <1>1, <2>1, <2>2
       DEF CopyInv, CopyOf, CopyDone, SourceChecked, Copying, Entries, InitAssumption
  <2> QED
    BY <1>1, <2>1, <2>3, CopyFrame DEF Working
<1> QED
  BY <1>2, <1>3, <1>4

LEMMA ProtectCopy ==
  ASSUME InitAssumption, BaseInv, CopyInv, NEW t \in Txns, Protect(t)
  PROVE  CopyInv'
<1>1. /\ TypeOK /\ pc[t] = "secrets" /\ seen' = seen /\ cur[t] \in Secrets
      /\ \/ Fail(t)
         \/ /\ vault' = [vault EXCEPT ![cur[t]].meta = seen[t].vault[Source].meta]
            /\ Done(t, cur[t])
  BY DEF Protect, BaseInv, PhaseInv
<1>2. CASE Fail(t)
  <2>1. /\ pc'[t] = "roll_files"
        /\ \A u \in Txns : u # t => pc'[u] = pc[u] /\ todo'[u] = todo[u]
    BY <1>1, <1>2, FailFacts
  <2> QED
    BY <1>1, <2>1, QuietCopy DEF Copying, Working
<1>3. CASE /\ vault' = [vault EXCEPT ![cur[t]].meta = seen[t].vault[Source].meta]
           /\ Done(t, cur[t])
  <2>1. /\ pc' = pc /\ todo'[t] = todo[t] \ {cur[t]}
        /\ \A u \in Txns : u # t => todo'[u] = todo[u]
    BY <1>1, <1>3, DoneFacts
  <2>2. /\ vault \in [Entries -> Entry] /\ vault[cur[t]] \in Entry /\ cur[t] \in Entries
    BY <1>1, TypeFacts DEF Entries
  <2>3. vault'[cur[t]] = [vault[cur[t]] EXCEPT !.meta = seen[t].vault[Source].meta]
    BY <1>3, <2>2
  <2>4. vault'[cur[t]].meta = seen[t].vault[Source].meta
    BY <2>2, <2>3 DEF Entry
  <2>5. \A r \in Entries : r # cur[t] => vault'[r] = vault[r]
    BY <1>3, <2>2
  <2>6. CopyOf(t)'
    BY <1>1, <2>1, <2>4, <2>5
       DEF CopyInv, CopyOf, CopyDone, SourceChecked, Copying, Entries, InitAssumption
  <2> QED
    BY <1>1, <2>1, <2>6, CopyFrame DEF Working
<1> QED
  BY <1>1, <1>2, <1>3

LEMMA VerifySourcesCopy ==
  ASSUME InitAssumption, BaseInv, CopyInv, NEW t \in Txns, VerifySources(t)
  PROVE  CopyInv'
<1>1. /\ TypeOK /\ pc[t] = "sources" /\ seen' = seen /\ vault' = vault
      /\ Fail(t) \/ (SourceUnchanged(t) /\ \E s \in todo[t] : Done(t, s))
  BY DEF VerifySources, BaseInv, world
<1>2. CASE Fail(t)
  <2>1. /\ pc'[t] = "roll_files"
        /\ \A u \in Txns : u # t => pc'[u] = pc[u] /\ todo'[u] = todo[u]
    BY <1>1, <1>2, FailFacts
  <2> QED
    BY <1>1, <2>1, QuietCopy DEF Copying
<1>3. CASE SourceUnchanged(t) /\ \E s \in todo[t] : Done(t, s)
  <2>1. pc' = pc /\ \A u \in Txns : u # t => todo'[u] = todo[u]
    BY <1>1, <1>3, DoneFacts
  <2>2. SourceUnchanged(t)'
    BY <1>1, <1>3 DEF SourceUnchanged
  <2>3. CopyOf(t)'
    BY <1>1, <2>1, <2>2 DEF CopyInv, CopyOf, CopyDone, Copying
  <2> QED
    BY <1>1, <2>1, <2>3, CopyFrame
<1> QED
  BY <1>1, <1>2, <1>3

\* Another program changes a value and never the metadata.
LEMMA EditEntryCopy ==
  ASSUME InitAssumption, BaseInv, CopyInv, NEW s \in Secrets, EditEntry(s)
  PROVE  CopyInv'
<1>1. /\ s \in Entries /\ vault \in [Entries -> Entry] /\ vault[s] \in Entry
      /\ UNCHANGED <<pc, todo, seen>>
      /\ vault' = [vault EXCEPT ![s].value = "other", ![s].by = None, ![s].valid = FALSE]
  BY TypeFacts DEF BaseInv, Entries, EditEntry, local
<1> DEFINE v == [vault EXCEPT ![s].value = "other"]
           w == [v EXCEPT ![s].by = None]
<1>2. v \in [Entries -> Entry] /\ v[s].meta = vault[s].meta
  BY <1>1 DEF Entry
<1> HIDE DEF v
<1>3. w \in [Entries -> Entry] /\ w[s].meta = vault[s].meta
  BY <1>1, <1>2 DEF Entry
<1>4. vault' = [w EXCEPT ![s].valid = FALSE]
  BY <1>1 DEF v
<1> HIDE DEF w
<1>5. vault'[s].meta = vault[s].meta
  BY <1>1, <1>3, <1>4 DEF Entry
<1>6. \A r \in Entries : r # s => vault'[r] = vault[r]
  BY EditEntryBase
<1>7. vault'[Source] = vault[Source] /\ \A r \in Copies : vault'[r].meta = vault[r].meta
  BY <1>5, <1>6 DEF Entries, InitAssumption
<1> QED
  BY <1>1, <1>7 DEF CopyInv, CopyOf, CopyDone, SourceChecked, SourceUnchanged

LEMMA ChangeSourceCopy ==
  ASSUME InitAssumption, BaseInv, CopyInv, ChangeSource
  PROVE  CopyInv'
<1>1. UNCHANGED <<pc, todo, seen>> /\ \A t \in Txns : pc[t] \notin Working
  BY DEF ChangeSource, local, BaseInv, LockInv, InitAssumption
<1> QED
  BY <1>1 DEF CopyInv, CopyOf, CopyDone, SourceChecked, Copying, Working

LEMMA CopyInit ==
  ASSUME Init
  PROVE  CopyInv
BY DEF Init, CopyInv, CopyOf, CopyDone, SourceChecked, Copying

LEMMA CopyNext ==
  ASSUME InitAssumption, BaseInv, CopyInv, [Next]_vars
  PROVE  CopyInv'
<1>1. ASSUME NEW t \in Txns, Step(t) \/ Crash(t)
      PROVE  CopyInv'
  BY <1>1, OpeningCopy, AdvanceCopy, FilesCopy, SwapSecretCopy, ProtectCopy,
     VerifySourcesCopy, ClosingCopy DEF Step
<1>2. CASE UNCHANGED vars \/ \E f \in Files : EditFile(f)
  <2>1. UNCHANGED <<vault, pc, todo, seen>>
    BY <1>2 DEF vars, EditFile, local
  <2> QED
    BY <2>1 DEF CopyInv, CopyOf, CopyDone, SourceChecked, SourceUnchanged
<1> QED
  BY <1>1, <1>2, EditEntryCopy, ChangeSourceCopy DEF Next

\* A copy commits only while its source is as protected as the copy and still
\* has the value that was copied, whoever changed it since it was read and
\* whatever else runs: apply_inherited_protection and the last
\* verify_copy_source cover the whole of the commit.
THEOREM CopiesFollowTheirSource ==
  ASSUME InitAssumption
  PROVE  Spec => [][CopyFollowsSource]_vars
<1>1. Init => BaseInv /\ CopyInv
  BY BaseInit, CopyInit
<1>2. BaseInv /\ CopyInv /\ [Next]_vars => (BaseInv /\ CopyInv)'
  BY BaseNext, CopyNext
<1>3. BaseInv /\ CopyInv => CopyFollowsSource
  BY DEF CopyFollowsSource, CopyInv, CopyOf, CopyDone, SourceChecked, SourceUnchanged, Copying
<1>4. BaseInv /\ CopyInv /\ [Next]_vars => [CopyFollowsSource]_vars
  BY <1>3
<1> QED
  BY <1>1, <1>2, <1>4, PTL DEF Spec

-----------------------------------------------------------------------------
(* The project transaction lock (TransactionLock), for any threads, processes, *)
(* projects and shards.                                                        *)

CONSTANTS Threads, OldWriters, ProcessOf, Projects, ShardOf, Slots, Timeouts, Panics

VARIABLES mutex, poisoned, refs, file, slot, refused

Lock == INSTANCE TransactionLock

\* FiniteSets as TransactionLock sees it.
LEMMA SameFinite == \A S : Lock!IsFiniteSet(S) <=> IsFiniteSet(S)
BY DEF Lock!IsFiniteSet, IsFiniteSet

LEMMA SameSize == \A S : Lock!Cardinality(S) = Cardinality(S)
BY Zenon DEF Lock!Cardinality, Cardinality

\* The resources of an acquisition.
Kinds == {"shard", "stable", "legacy"}
Resources == [kind : Kinds, n : Nat]

\* The one order every acquisition follows: shards by number, then lock files by
\* project, the stable one before the legacy one.
Below(r, s) ==
    \/ r.kind = "shard" /\ s.kind = "shard" /\ r.n < s.n
    \/ r.kind = "shard" /\ s.kind \in Lock!Files
    \/ r.kind \in Lock!Files /\ s.kind \in Lock!Files /\ r.n < s.n
    \/ r.kind = "stable" /\ s.kind = "legacy" /\ r.n = s.n

Rising(q) == \A i, j \in 1..Len(q) : i < j => Below(q[i], q[j])

In(q) == {q[i] : i \in 1..Len(q)}

\* It is a strict order.
LEMMA BelowOrder ==
  ASSUME NEW r \in Resources, NEW s \in Resources
  PROVE  /\ ~Below(r, r)
         /\ \A u \in Resources : Below(r, s) /\ Below(s, u) => Below(r, u)
BY DEF Below, Resources, Kinds, Lock!Files

\* Two plans in order, one after the other.
LEMMA RisingConcat ==
  ASSUME NEW p \in Seq(Resources), NEW q \in Seq(Resources), Rising(p), Rising(q),
         \A r \in In(p), s \in In(q) : Below(r, s)
  PROVE  /\ p \o q \in Seq(Resources)
         /\ Rising(p \o q)
         /\ In(p \o q) = In(p) \cup In(q)
<1> DEFINE m == Len(p)
           n == Len(q)
           c == p \o q
<1>1. /\ m \in Nat /\ n \in Nat /\ c \in Seq(Resources) /\ Len(c) = m + n
      /\ \A i \in 1..(m + n) : c[i] = IF i <= m THEN p[i] ELSE q[i - m]
  OBVIOUS
<1>2. ASSUME NEW i \in 1..m PROVE c[i] \in In(p) /\ c[i] = p[i]
  BY <1>1 DEF In
<1>3. ASSUME NEW i \in (m + 1)..(m + n) PROVE c[i] \in In(q) /\ c[i] = q[i - m] /\ i - m \in 1..n
  BY <1>1 DEF In
<1> HIDE DEF c
<1>4. Rising(c)
  <2> SUFFICES ASSUME NEW i \in 1..(m + n), NEW j \in 1..(m + n), i < j
               PROVE  Below(c[i], c[j])
    BY <1>1 DEF Rising
  <2>1. CASE j <= m
    <3>1. i \in 1..m /\ j \in 1..m
      BY <2>1, <1>1
    <3> QED BY <3>1, <1>2 DEF Rising
  <2>2. CASE i <= m /\ j > m
    <3>1. i \in 1..m /\ j \in (m + 1)..(m + n)
      BY <2>2, <1>1
    <3> QED BY <3>1, <1>2, <1>3
  <2>3. CASE i > m
    <3>1. i \in (m + 1)..(m + n) /\ j \in (m + 1)..(m + n)
      BY <2>3, <1>1
    <3>2. i - m < j - m
      BY <1>1
    <3> QED BY <3>1, <3>2, <1>3 DEF Rising
  <2> QED BY <2>1, <2>2, <2>3, <1>1
<1>5. In(c) \subseteq In(p) \cup In(q)
  <2> SUFFICES ASSUME NEW i \in 1..(m + n) PROVE c[i] \in In(p) \cup In(q)
    BY <1>1 DEF In
  <2>1. i \in 1..m \/ i \in (m + 1)..(m + n)
    BY <1>1
  <2> QED BY <2>1, <1>2, <1>3
<1>6. In(p) \subseteq In(c)
  <2> SUFFICES ASSUME NEW i \in 1..m PROVE p[i] \in In(c)
    BY DEF In
  <2>1. i \in 1..Len(c)
    BY <1>1
  <2> QED BY <2>1, <1>2 DEF In
<1>7. In(q) \subseteq In(c)
  <2> SUFFICES ASSUME NEW i \in 1..n PROVE q[i] \in In(c)
    BY DEF In
  <2>1. i + m \in (m + 1)..(m + n) /\ i + m \in 1..Len(c) /\ (i + m) - m = i
    BY <1>1
  <2>2. c[i + m] = q[i]
    BY <2>1, <1>3
  <2> QED BY <2>1, <2>2 DEF In
<1> QED BY <1>1, <1>4, <1>5, <1>6, <1>7 DEF c

\* What is left of a plan after its first resource.
LEMMA RisingTail ==
  ASSUME NEW q \in Seq(Resources), q # <<>>, Rising(q)
  PROVE  /\ Head(q) \in Resources
         /\ Tail(q) \in Seq(Resources)
         /\ Rising(Tail(q))
         /\ Head(q) \in In(q)
         /\ In(Tail(q)) = In(q) \ {Head(q)}
         /\ \A r \in In(Tail(q)) : Below(Head(q), r)
         /\ Len(q) = 1 <=> Tail(q) = <<>>
<1> DEFINE d == Tail(q)
           n == Len(q)
<1>1. /\ n \in Nat /\ n >= 1 /\ d \in Seq(Resources) /\ Len(d) = n - 1
      /\ Head(q) = q[1] /\ q[1] \in Resources
      /\ \A i \in 1..(n - 1) : d[i] = q[i + 1]
  OBVIOUS
<1> HIDE DEF d, n
<1>2. n = 1 <=> d = <<>>
  <2>1. Len(<<>>) = 0
    OBVIOUS
  <2>2. d \in Seq(Resources) /\ Len(d) = 0 => d = <<>>
    OBVIOUS
  <2> QED BY <2>1, <2>2, <1>1
<1> USE DEF n
<1>3. Rising(d)
  <2> SUFFICES ASSUME NEW i \in 1..(n - 1), NEW j \in 1..(n - 1), i < j
               PROVE  Below(d[i], d[j])
    BY <1>1 DEF Rising
  <2>1. i + 1 \in 1..n /\ j + 1 \in 1..n /\ i + 1 < j + 1
    BY <1>1
  <2> QED BY <2>1, <1>1 DEF Rising
<1>4. Head(q) \in In(q)
  BY <1>1 DEF In
<1>5. \A r \in In(d) : r \in In(q) /\ Below(Head(q), r) /\ r \in Resources
  <2> SUFFICES ASSUME NEW i \in 1..(n - 1)
               PROVE  d[i] \in In(q) /\ Below(Head(q), d[i]) /\ d[i] \in Resources
    BY <1>1 DEF In
  <2>1. i + 1 \in 1..n /\ 1 \in 1..n /\ 1 < i + 1
    BY <1>1
  <2> QED BY <2>1, <1>1 DEF Rising, In
<1>6. \A r \in In(q) : r = Head(q) \/ r \in In(d)
  <2> SUFFICES ASSUME NEW i \in 1..n, i # 1 PROVE q[i] \in In(d)
    BY <1>1 DEF In
  <2>1. i - 1 \in 1..(n - 1) /\ (i - 1) + 1 = i
    BY <1>1
  <2>2. d[i - 1] = q[i]
    BY <2>1, <1>1
  <2>3. i - 1 \in 1..Len(d)
    BY <2>1, <1>1
  <2> QED BY <2>2, <2>3 DEF In
<1>7. In(d) = In(q) \ {Head(q)}
  <2>1. Head(q) \notin In(d)
    BY <1>1, <1>5, BelowOrder
  <2> QED BY <2>1, <1>5, <1>6
<1> QED BY <1>1, <1>2, <1>3, <1>4, <1>5, <1>7 DEF d

\* Projects and shards are numbers.
LEMMA ShardTypes ==
  ASSUME Lock!LockAssumption
  PROVE  /\ \A p \in Projects : p \in Nat /\ ShardOf[p] \in Nat /\ ShardOf[p] \in Lock!Shards
         /\ Lock!Shards \subseteq Nat
BY DEF Lock!LockAssumption, Lock!Shards

LEMMA PairRising ==
  ASSUME NEW r \in Resources, NEW s \in Resources, Below(r, s)
  PROVE  <<r, s>> \in Seq(Resources) /\ Rising(<<r, s>>) /\ In(<<r, s>>) = {r, s}
<1> DEFINE q == <<r, s>>
<1>1. q \in Seq(Resources) /\ Len(q) = 2 /\ q[1] = r /\ q[2] = s
  OBVIOUS
<1> HIDE DEF q
<1>2. 1..2 = {1, 2}
  OBVIOUS
<1>3. Rising(q)
  BY <1>1, <1>2 DEF Rising
<1>4. In(q) = {r, s}
  BY <1>1, <1>2 DEF In
<1> QED BY <1>1, <1>3, <1>4 DEF q

LEMMA OneRising ==
  ASSUME NEW r \in Resources
  PROVE  <<r>> \in Seq(Resources) /\ Rising(<<r>>) /\ In(<<r>>) = {r}
<1> DEFINE q == <<r>>
<1>1. q \in Seq(Resources) /\ Len(q) = 1 /\ q[1] = r
  OBVIOUS
<1> HIDE DEF q
<1>2. 1..1 = {1}
  OBVIOUS
<1>3. Rising(q)
  BY <1>1, <1>2 DEF Rising
<1>4. In(q) = {r}
  BY <1>1, <1>2 DEF In
<1> QED BY <1>1, <1>3, <1>4 DEF q

LEMMA FilesOfRising ==
  ASSUME Lock!LockAssumption, NEW p \in Projects
  PROVE  /\ Lock!FilesOf(p) \in Seq(Resources) /\ Rising(Lock!FilesOf(p))
         /\ In(Lock!FilesOf(p)) = {Lock!Resource(f, p) : f \in Lock!Files}
<1>1. /\ Lock!Resource("stable", p) \in Resources /\ Lock!Resource("legacy", p) \in Resources
      /\ Below(Lock!Resource("stable", p), Lock!Resource("legacy", p))
  BY ShardTypes DEF Lock!Resource, Resources, Kinds, Below
<1>2. {Lock!Resource(f, p) : f \in Lock!Files} =
        {Lock!Resource("stable", p), Lock!Resource("legacy", p)}
  BY DEF Lock!Files
<1> QED BY <1>1, <1>2, PairRising DEF Lock!FilesOf

LEMMA ShardsOfRising ==
  ASSUME Lock!LockAssumption, NEW a \in Projects, NEW b \in Projects
  PROVE  /\ Lock!ShardsOf(a, b) \in Seq(Resources) /\ Rising(Lock!ShardsOf(a, b))
         /\ In(Lock!ShardsOf(a, b)) =
              {Lock!Resource("shard", ShardOf[a]), Lock!Resource("shard", ShardOf[b])}
<1> DEFINE s == Lock!Resource("shard", ShardOf[a])
           r == Lock!Resource("shard", ShardOf[b])
<1>1. /\ s \in Resources /\ r \in Resources
      /\ s = r <=> ShardOf[a] = ShardOf[b]
      /\ ShardOf[a] < ShardOf[b] => Below(s, r)
      /\ ShardOf[b] < ShardOf[a] => Below(r, s)
      /\ ShardOf[a] \in Nat /\ ShardOf[b] \in Nat
  BY ShardTypes DEF Lock!Resource, Resources, Kinds, Below
<1>2. Lock!ShardsOf(a, b) =
        IF s = r THEN <<s>> ELSE IF ShardOf[a] < ShardOf[b] THEN <<s, r>> ELSE <<r, s>>
  BY DEF Lock!ShardsOf
<1> HIDE DEF s, r
<1>3. CASE s = r
  BY <1>1, <1>2, <1>3, OneRising DEF s, r
<1>4. CASE s # r /\ ShardOf[a] < ShardOf[b]
  BY <1>1, <1>2, <1>4, PairRising DEF s, r
<1>5. CASE s # r /\ ~(ShardOf[a] < ShardOf[b])
  <2>1. Below(r, s)
    BY <1>1, <1>5
  <2>2. In(<<r, s>>) = {s, r}
    BY <2>1, <1>1, PairRising
  <2> QED BY <1>1, <1>2, <1>5, <2>1, <2>2, PairRising DEF s, r
<1> QED BY <1>3, <1>4, <1>5

LEMMA TwoFilesRising ==
  ASSUME Lock!LockAssumption, NEW a \in Projects, NEW b \in Projects, a < b
  PROVE  /\ Lock!FilesOf(a) \o Lock!FilesOf(b) \in Seq(Resources)
         /\ Rising(Lock!FilesOf(a) \o Lock!FilesOf(b))
         /\ In(Lock!FilesOf(a) \o Lock!FilesOf(b)) =
              {Lock!Resource(f, p) : f \in Lock!Files, p \in {a, b}}
<1>1. \A r \in In(Lock!FilesOf(a)), s \in In(Lock!FilesOf(b)) : Below(r, s)
  BY FilesOfRising, ShardTypes DEF Below, Lock!Resource
<1>2. {Lock!Resource(f, p) : f \in Lock!Files, p \in {a, b}} =
        {Lock!Resource(f, a) : f \in Lock!Files} \cup {Lock!Resource(f, b) : f \in Lock!Files}
  OBVIOUS
<1> QED BY <1>1, <1>2, FilesOfRising, RisingConcat

\* acquire_project_transaction_locks_at asks for the shards and the lock files of
\* exactly the requested projects, each once and in the global order.
LEMMA PlanRising ==
  ASSUME Lock!LockAssumption, NEW order \in Lock!Requests
  PROVE  LET all == {order[i] : i \in 1..Len(order)} IN
         /\ all \subseteq Projects
         /\ Lock!Plan(order) \in Seq(Resources)
         /\ Rising(Lock!Plan(order)) /\ Lock!Plan(order) # <<>>
         /\ In(Lock!Plan(order)) = {Lock!Resource("shard", ShardOf[p]) : p \in all}
                              \cup {Lock!Resource(f, p) : f \in Lock!Files, p \in all}
<1> DEFINE all == {order[i] : i \in 1..Len(order)}
           a == order[1]
           b == order[Len(order)]
           both == IF a = b THEN Lock!FilesOf(a)
                   ELSE IF a < b THEN Lock!FilesOf(a) \o Lock!FilesOf(b)
                   ELSE Lock!FilesOf(b) \o Lock!FilesOf(a)
           shards == Lock!ShardsOf(a, b)
<1>1. a \in Projects /\ b \in Projects /\ all = {a, b}
  <2>1. CASE \E p \in Projects : order = <<p>>
    <3>1. PICK p \in Projects : order = <<p>>
      BY <2>1
    <3>2. Len(order) = 1 /\ order[1] = p /\ 1..1 = {1}
      BY <3>1
    <3> QED BY <3>2
  <2>2. CASE \E p \in Projects, q \in Projects : order = <<p, q>>
    <3>1. PICK p \in Projects, q \in Projects : order = <<p, q>>
      BY <2>2
    <3>2. Len(order) = 2 /\ order[1] = p /\ order[2] = q /\ 1..2 = {1, 2}
      BY <3>1
    <3> QED BY <3>2
  <2> QED BY <2>1, <2>2 DEF Lock!Requests
<1>2. Lock!Plan(order) = shards \o both
  BY DEF Lock!Plan
<1> HIDE DEF all, a, b
<1>3. /\ both \in Seq(Resources) /\ Rising(both)
      /\ In(both) = {Lock!Resource(f, p) : f \in Lock!Files, p \in all}
  <2>1. CASE a = b
    <3>1. {Lock!Resource(f, p) : f \in Lock!Files, p \in all} = {Lock!Resource(f, a) : f \in Lock!Files}
      BY <2>1, <1>1
    <3> QED BY <3>1, <2>1, <1>1, FilesOfRising
  <2>2. CASE a < b
    <3>1. a # b
      BY <2>2, <1>1, ShardTypes
    <3> QED BY <3>1, <2>2, <1>1, TwoFilesRising
  <2>3. CASE a # b /\ ~(a < b)
    <3>1. b < a /\ all = {b, a}
      BY <2>3, <1>1, ShardTypes
    <3> QED BY <3>1, <2>3, <1>1, TwoFilesRising
  <2> QED BY <2>1, <2>2, <2>3
<1>4. /\ shards \in Seq(Resources) /\ Rising(shards)
      /\ In(shards) = {Lock!Resource("shard", ShardOf[p]) : p \in all}
  BY <1>1, ShardsOfRising
<1>5. \A r \in In(shards), s \in In(both) : Below(r, s)
  BY <1>3, <1>4 DEF Below, Lock!Resource, Lock!Files
<1> HIDE DEF shards, both
<1>6. /\ shards \o both \in Seq(Resources) /\ Rising(shards \o both)
      /\ In(shards \o both) = In(shards) \cup In(both)
  BY <1>3, <1>4, <1>5, RisingConcat
<1>7. In(Lock!Plan(order)) # {}
  BY <1>1, <1>2, <1>4, <1>6
<1>8. Lock!Plan(order) # <<>>
  <2>1. In(<<>>) = {}
    BY DEF In
  <2> QED BY <2>1, <1>7
<1>9. /\ all \subseteq Projects
      /\ Lock!Plan(order) \in Seq(Resources) /\ Rising(Lock!Plan(order)) /\ Lock!Plan(order) # <<>>
  BY <1>1, <1>2, <1>6, <1>8
<1>10. In(Lock!Plan(order)) = {Lock!Resource("shard", ShardOf[p]) : p \in all}
                          \cup {Lock!Resource(f, p) : f \in Lock!Files, p \in all}
  BY <1>2, <1>3, <1>4, <1>6
<1> QED BY <1>9, <1>10 DEF all

Statuses == {"free", "acquiring", "held", "releasing"}

SlotTypes == [status : Statuses, projects : SUBSET Projects, todo : Seq(Resources),
              real : SUBSET Lock!Shards, counted : SUBSET Lock!Shards]

\* The lock files an acquisition has: HeldFiles of its record.
FilesIn(x) == {y \in Lock!Files \X x.projects : Lock!Resource(y[1], y[2]) \notin In(x.todo)}

\* A resource an acquisition of these projects may ask for.
Fits(r, projects) ==
    \/ r.kind = "shard" /\ r.n \in Lock!Shards
    \/ r.kind \in Lock!Files /\ r.n \in projects

\* An acquisition at any moment: it has something left to take exactly while it is
\* acquiring, what is left is in order, and comes after all it has.
SlotOK(x) ==
    /\ x \in SlotTypes
    /\ x.real \subseteq x.counted
    /\ x.status = "free" => x = Lock!Free
    /\ x.status = "releasing" => x.counted = {}
    /\ x.status = "acquiring" <=> x.todo # <<>>
    /\ Rising(x.todo)
    /\ \A r \in In(x.todo) : Fits(r, x.projects)
    /\ \A s \in x.counted, r \in In(x.todo) : Below(Lock!Resource("shard", s), r)
    /\ \A y \in FilesIn(x), r \in In(x.todo) : Below(Lock!Resource(y[1], y[2]), r)

LEMMA NothingMissing == In(<<>>) = {} /\ Rising(<<>>)
BY DEF In, Rising

\* Acquisitions that are not under way, just begun, one resource further, and
\* giving up their shards are all sound.
LEMMA FreeOK ==
  /\ SlotOK(Lock!Free) /\ FilesIn(Lock!Free) = {}
  /\ Lock!Free.counted = {} /\ Lock!Free.real = {}
<1>1. /\ Lock!Free.status = "free" /\ Lock!Free.projects = {} /\ Lock!Free.todo = <<>>
      /\ Lock!Free.real = {} /\ Lock!Free.counted = {}
      /\ Lock!Free \in SlotTypes
  BY DEF Lock!Free, SlotTypes, Statuses
<1>2. FilesIn(Lock!Free) = {}
  BY <1>1 DEF FilesIn
<1> QED BY <1>1, <1>2, NothingMissing DEF SlotOK

LEMMA BegunOK ==
  ASSUME Lock!LockAssumption, NEW order \in Lock!Requests
  PROVE  LET y == [Lock!Free EXCEPT !.status = "acquiring",
                               !.projects = {order[i] : i \in 1..Len(order)},
                               !.todo = Lock!Plan(order)]
         IN  SlotOK(y) /\ FilesIn(y) = {} /\ y.counted = {} /\ y.real = {}
<1> DEFINE all == {order[i] : i \in 1..Len(order)}
           y == [Lock!Free EXCEPT !.status = "acquiring", !.projects = all, !.todo = Lock!Plan(order)]
<1>1. /\ all \subseteq Projects
      /\ Lock!Plan(order) \in Seq(Resources) /\ Rising(Lock!Plan(order)) /\ Lock!Plan(order) # <<>>
      /\ In(Lock!Plan(order)) = {Lock!Resource("shard", ShardOf[p]) : p \in all}
                           \cup {Lock!Resource(f, p) : f \in Lock!Files, p \in all}
  BY PlanRising
<1> HIDE DEF all
<1>2. /\ y.status = "acquiring" /\ y.projects = all /\ y.todo = Lock!Plan(order)
      /\ y.real = {} /\ y.counted = {}
      /\ y \in SlotTypes
  BY <1>1 DEF Lock!Free, SlotTypes, Statuses
<1> HIDE DEF y
<1>3. FilesIn(y) = {}
  BY <1>1, <1>2 DEF FilesIn
<1>4. \A r \in In(y.todo) : Fits(r, y.projects)
  <2>1. \A p \in all : Fits(Lock!Resource("shard", ShardOf[p]), all)
    BY <1>1, ShardTypes DEF Lock!Resource, Fits
  <2>2. \A f \in Lock!Files, p \in all : Fits(Lock!Resource(f, p), all)
    BY DEF Lock!Resource, Fits
  <2> QED BY <1>1, <1>2, <2>1, <2>2
<1>5. SlotOK(y)
  BY <1>1, <1>2, <1>3, <1>4 DEF SlotOK
<1> QED BY <1>2, <1>3, <1>5 DEF y, all

\* Taking the resource at hand, whatever it is.
LEMMA TakenOK ==
  ASSUME NEW x, SlotOK(x), x.status = "acquiring",
         NEW y \in SlotTypes, y.todo = Tail(x.todo), y.projects = x.projects,
         y.status = IF Len(x.todo) = 1 THEN "held" ELSE x.status,
         y.real \subseteq y.counted,
         Head(x.todo).kind \in Lock!Files => y.counted = x.counted,
         Head(x.todo).kind = "shard" => y.counted = x.counted \cup {Head(x.todo).n}
  PROVE  LET r == Head(x.todo) IN
         /\ SlotOK(y)
         /\ r.kind \in Lock!Files => /\ r.n \in x.projects
                                /\ <<r.kind, r.n>> \notin FilesIn(x)
                                /\ FilesIn(y) = FilesIn(x) \cup {<<r.kind, r.n>>}
         /\ r.kind = "shard" => /\ r.n \in Lock!Shards
                                /\ r.n \notin x.counted
                                /\ FilesIn(y) = FilesIn(x)
<1> DEFINE r == Head(x.todo)
<1>1. x.todo \in Seq(Resources) /\ x.todo # <<>> /\ Rising(x.todo)
  BY DEF SlotOK, SlotTypes
<1>2. /\ r \in Resources /\ r \in In(x.todo) /\ Rising(y.todo)
      /\ In(y.todo) = In(x.todo) \ {r}
      /\ \A s \in In(y.todo) : Below(r, s)
      /\ Len(x.todo) = 1 <=> y.todo = <<>>
  BY <1>1, RisingTail
<1>3. /\ Fits(r, x.projects)
      /\ \A s \in x.counted : Below(Lock!Resource("shard", s), r)
      /\ \A z \in FilesIn(x) : Below(Lock!Resource(z[1], z[2]), r)
  BY <1>2 DEF SlotOK
<1>4. r = Lock!Resource(r.kind, r.n)
  BY <1>2 DEF Lock!Resource, Resources
<1> HIDE DEF r
<1>5. ASSUME r.kind \in Lock!Files
      PROVE  <<r.kind, r.n>> \notin FilesIn(x) /\ FilesIn(y) = FilesIn(x) \cup {<<r.kind, r.n>>}
  <2>1. <<r.kind, r.n>> \in Lock!Files \X x.projects
    BY <1>3, <1>5 DEF Lock!Files, Fits
  <2>2. <<r.kind, r.n>> \notin FilesIn(x)
    BY <1>2, <1>4 DEF FilesIn
  <2>3. \A z \in Lock!Files \X x.projects : Lock!Resource(z[1], z[2]) = r <=> z = <<r.kind, r.n>>
    BY <1>4 DEF Lock!Resource
  <2>4. FilesIn(y) = FilesIn(x) \cup {<<r.kind, r.n>>}
    BY <1>2, <2>1, <2>3 DEF FilesIn
  <2> QED BY <2>2, <2>4
<1>6. ASSUME r.kind = "shard"
      PROVE  r.n \in Lock!Shards /\ r.n \notin x.counted /\ FilesIn(y) = FilesIn(x)
  <2>1. \A z \in Lock!Files \X x.projects : Lock!Resource(z[1], z[2]) # r
    BY <1>6 DEF Lock!Resource, Lock!Files
  <2>2. FilesIn(y) = FilesIn(x)
    BY <1>2, <2>1 DEF FilesIn
  <2>3. r.n \in Lock!Shards
    BY <1>3, <1>6 DEF Lock!Files, Fits
  <2>4. r.n \notin x.counted
    <3>1. ~Below(r, r)
      BY <1>2, BelowOrder
    <3> QED BY <3>1, <1>3, <1>4, <1>6
  <2> QED BY <2>2, <2>3, <2>4
<1>7. SlotOK(y)
  <2>1. y.status # "free" /\ y.status # "releasing" /\ (y.status = "acquiring" <=> y.todo # <<>>)
    BY <1>2
  <2>2. \A s \in In(y.todo) : Fits(s, y.projects)
    BY <1>2 DEF SlotOK
  <2>3. \A s \in y.counted, q \in In(y.todo) : Below(Lock!Resource("shard", s), q)
    <3>1. \A s \in x.counted, q \in In(y.todo) : Below(Lock!Resource("shard", s), q)
      BY <1>2 DEF SlotOK
    <3>2. r.kind = "shard" \/ r.kind \in Lock!Files
      BY <1>3 DEF Fits
    <3> QED BY <3>1, <3>2, <1>2, <1>4 DEF r
  <2>4. \A z \in FilesIn(y), q \in In(y.todo) : Below(Lock!Resource(z[1], z[2]), q)
    <3>1. \A z \in FilesIn(x), q \in In(y.todo) : Below(Lock!Resource(z[1], z[2]), q)
      BY <1>2 DEF SlotOK
    <3>2. \A z \in FilesIn(y) : z \in FilesIn(x) \/ Lock!Resource(z[1], z[2]) = r
      BY <1>3, <1>4, <1>5, <1>6 DEF Fits
    <3> QED BY <3>1, <3>2, <1>2
  <2> QED BY <1>2, <2>1, <2>2, <2>3, <2>4 DEF SlotOK
<1> QED BY <1>3, <1>5, <1>6, <1>7 DEF r, Fits

LEMMA ReleasingOK ==
  ASSUME NEW x, SlotOK(x), x.status = "held",
         NEW y \in SlotTypes, y.status = "releasing", y.todo = x.todo, y.projects = x.projects,
         y.counted = {}, y.real = {}
  PROVE  SlotOK(y) /\ FilesIn(y) = FilesIn(x)
<1>1. x.todo = <<>>
  BY DEF SlotOK
<1>2. FilesIn(y) = FilesIn(x)
  BY DEF FilesIn
<1> QED BY <1>1, <1>2, NothingMissing DEF SlotOK

LockShape ==
    /\ mutex \in [Lock!Processes \X Lock!Shards -> Threads \cup {Lock!Nobody}]
    /\ poisoned \subseteq Lock!Processes \X Lock!Shards
    /\ refs \in [Threads \X Lock!Shards -> Nat]
    /\ file \in [Lock!Files \X Projects -> Threads \cup OldWriters \cup {Lock!Nobody}]
    /\ slot \in [Threads \X Slots -> SlotTypes]
    /\ refused \in [Threads -> {"nothing", "file", "busy", "idle shard"}]

SlotsInv == \A t \in Threads, k \in Slots : SlotOK(slot[<<t, k>>])

\* The lock files: their holder is the thread whose acquisition has them, and no
\* other acquisition has them too.
HolderInv ==
    /\ \A t \in Threads, k \in Slots : \A y \in FilesIn(slot[<<t, k>>]) : file[y] = t
    /\ \A t \in Threads, j \in Slots, k \in Slots :
          j # k => FilesIn(slot[<<t, j>>]) \cap FilesIn(slot[<<t, k>>]) = {}
    /\ \A y \in Lock!Files \X Projects : file[y] \in Threads =>
          \E k \in Slots : y \in FilesIn(slot[<<file[y], k>>])

\* SHARD_OWNERSHIP counts the thread's guards.
CountInv ==
    \A t \in Threads, s \in Lock!Shards :
        refs[<<t, s>>] = Cardinality({k \in Slots : s \in slot[<<t, k>>].counted})

\* A locked mutex belongs to the one acquisition of its thread that locked it.
MutexInv ==
    /\ \A t \in Threads, k \in Slots : \A s \in slot[<<t, k>>].real : mutex[<<ProcessOf[t], s>>] = t
    /\ \A t \in Threads, j \in Slots, k \in Slots :
          j # k => slot[<<t, j>>].real \cap slot[<<t, k>>].real = {}
    /\ \A c \in Lock!Processes, s \in Lock!Shards : mutex[<<c, s>>] \in Threads =>
          /\ ProcessOf[mutex[<<c, s>>]] = c
          /\ \E k \in Slots : s \in slot[<<mutex[<<c, s>>], k>>].real

SharedLockInv == LockShape /\ SlotsInv /\ HolderInv /\ CountInv /\ MutexInv

\* Only one acquisition changes, and to a sound one.
OneSlot(t, k, y) ==
    /\ slot' = [slot EXCEPT ![<<t, k>>] = y]
    /\ SlotOK(y)

LEMMA OneSlotMoves ==
  ASSUME LockShape, SlotsInv, NEW t \in Threads, NEW k \in Slots, NEW y, OneSlot(t, k, y)
  PROVE  /\ slot' \in [Threads \X Slots -> SlotTypes]
         /\ SlotsInv'
         /\ slot'[<<t, k>>] = y
         /\ \A u \in Threads, j \in Slots : ~(u = t /\ j = k) => slot'[<<u, j>>] = slot[<<u, j>>]
<1>1. y \in SlotTypes
  BY DEF OneSlot, SlotOK
<1>2. /\ slot' \in [Threads \X Slots -> SlotTypes]
      /\ slot'[<<t, k>>] = y
      /\ \A u \in Threads, j \in Slots : ~(u = t /\ j = k) => slot'[<<u, j>>] = slot[<<u, j>>]
  BY <1>1 DEF OneSlot, LockShape
<1>3. SlotsInv'
  BY <1>2 DEF OneSlot, SlotsInv
<1> QED BY <1>2, <1>3

\* Constants.
LEMMA ThreadNotNobody ==
  ASSUME Lock!LockAssumption
  PROVE  Lock!Nobody \notin Threads /\ \A t \in Threads : ProcessOf[t] \in Lock!Processes
BY DEF Lock!LockAssumption, Lock!Processes

\* How a step moves the lock files.
LEMMA FilesKept ==
  ASSUME LockShape, SlotsInv, HolderInv, NEW t \in Threads, NEW k \in Slots, NEW y,
         OneSlot(t, k, y),
         file' = file, FilesIn(y) = FilesIn(slot[<<t, k>>])
  PROVE  HolderInv'
<1>1. /\ slot'[<<t, k>>] = y
      /\ \A u \in Threads, j \in Slots : ~(u = t /\ j = k) => slot'[<<u, j>>] = slot[<<u, j>>]
  BY OneSlotMoves
<1>2. \A u \in Threads, j \in Slots : FilesIn(slot'[<<u, j>>]) = FilesIn(slot[<<u, j>>])
  BY <1>1
<1> QED BY <1>2 DEF HolderInv

LEMMA FileGained ==
  ASSUME Lock!LockAssumption,
         LockShape, SlotsInv, HolderInv, NEW t \in Threads, NEW k \in Slots, NEW y,
         OneSlot(t, k, y),
         NEW x \in Lock!Files \X Projects, file[x] = Lock!Nobody, file' = [file EXCEPT ![x] = t],
         FilesIn(y) = FilesIn(slot[<<t, k>>]) \cup {x}
  PROVE  HolderInv'
<1>1. /\ slot'[<<t, k>>] = y
      /\ \A u \in Threads, j \in Slots : ~(u = t /\ j = k) => slot'[<<u, j>>] = slot[<<u, j>>]
  BY OneSlotMoves
<1>2. \A z \in Lock!Files \X Projects : file'[z] = IF z = x THEN t ELSE file[z]
  BY DEF LockShape
<1>3. \A u \in Threads, j \in Slots : x \notin FilesIn(slot[<<u, j>>])
  BY ThreadNotNobody DEF HolderInv
<1>4. \A u \in Threads, j \in Slots :
        FilesIn(slot'[<<u, j>>]) = FilesIn(slot[<<u, j>>]) \cup (IF u = t /\ j = k THEN {x} ELSE {})
  BY <1>1
<1>5. \A u \in Threads, j \in Slots : FilesIn(slot[<<u, j>>]) \subseteq Lock!Files \X Projects
  BY DEF LockShape, SlotTypes, FilesIn
<1>6. \A u \in Threads, j \in Slots : \A z \in FilesIn(slot'[<<u, j>>]) : file'[z] = u
  BY <1>2, <1>3, <1>4, <1>5 DEF HolderInv
<1>7. \A u \in Threads, i \in Slots, j \in Slots :
        i # j => FilesIn(slot'[<<u, i>>]) \cap FilesIn(slot'[<<u, j>>]) = {}
  <2> SUFFICES ASSUME NEW u \in Threads, NEW i \in Slots, NEW j \in Slots, i # j,
                      NEW z \in FilesIn(slot'[<<u, i>>]), z \in FilesIn(slot'[<<u, j>>])
               PROVE  FALSE
    OBVIOUS
  <2>1. FilesIn(slot[<<u, i>>]) \cap FilesIn(slot[<<u, j>>]) = {}
    BY DEF HolderInv
  <2> QED BY <2>1, <1>3, <1>4
<1>8. \A z \in Lock!Files \X Projects : file'[z] \in Threads =>
        \E j \in Slots : z \in FilesIn(slot'[<<file'[z], j>>])
  <2> SUFFICES ASSUME NEW z \in Lock!Files \X Projects, file'[z] \in Threads
               PROVE  \E j \in Slots : z \in FilesIn(slot'[<<file'[z], j>>])
    OBVIOUS
  <2>1. CASE z = x
    BY <2>1, <1>2, <1>4
  <2>2. CASE z # x
    <3>1. file'[z] = file[z]
      BY <2>2, <1>2
    <3>2. PICK j \in Slots : z \in FilesIn(slot[<<file[z], j>>])
      BY <3>1 DEF HolderInv
    <3> QED BY <3>1, <3>2, <1>4
  <2> QED BY <2>1, <2>2
<1> QED BY <1>6, <1>7, <1>8 DEF HolderInv

LEMMA FilesDropped ==
  ASSUME Lock!LockAssumption,
         LockShape, SlotsInv, HolderInv, NEW t \in Threads, NEW k \in Slots,
         OneSlot(t, k, Lock!Free),
         Lock!DropFiles(t, k)
  PROVE  /\ HolderInv'
         /\ file' \in [Lock!Files \X Projects -> Threads \cup OldWriters \cup {Lock!Nobody}]
<1>1. /\ slot'[<<t, k>>] = Lock!Free
      /\ \A u \in Threads, j \in Slots : ~(u = t /\ j = k) => slot'[<<u, j>>] = slot[<<u, j>>]
  BY OneSlotMoves
<1>2. Lock!HeldFiles(t, k) = FilesIn(slot[<<t, k>>])
  BY DEF Lock!HeldFiles, Lock!Missing, FilesIn, In
<1>3. \A z \in Lock!Files \X Projects :
        file'[z] = IF z \in FilesIn(slot[<<t, k>>]) THEN Lock!Nobody ELSE file[z]
  BY <1>2 DEF Lock!DropFiles, LockShape
<1>4. \A u \in Threads, j \in Slots :
        FilesIn(slot'[<<u, j>>]) = IF u = t /\ j = k THEN {} ELSE FilesIn(slot[<<u, j>>])
  BY <1>1, FreeOK
<1>5. \A u \in Threads, j \in Slots : FilesIn(slot[<<u, j>>]) \subseteq Lock!Files \X Projects
  BY DEF LockShape, SlotTypes, FilesIn
<1>6. \A u \in Threads, j \in Slots : \A z \in FilesIn(slot'[<<u, j>>]) : file'[z] = u
  <2> SUFFICES ASSUME NEW u \in Threads, NEW j \in Slots, NEW z \in FilesIn(slot'[<<u, j>>])
               PROVE  file'[z] = u
    OBVIOUS
  <2>1. ~(u = t /\ j = k) /\ z \in FilesIn(slot[<<u, j>>])
    BY <1>4
  <2>2. file[z] = u
    BY <2>1 DEF HolderInv
  <2>3. z \notin FilesIn(slot[<<t, k>>])
    BY <2>1, <2>2 DEF HolderInv
  <2> QED BY <2>1, <2>2, <2>3, <1>3, <1>5
<1>7. \A u \in Threads, i \in Slots, j \in Slots :
        i # j => FilesIn(slot'[<<u, i>>]) \cap FilesIn(slot'[<<u, j>>]) = {}
  <2> SUFFICES ASSUME NEW u \in Threads, NEW i \in Slots, NEW j \in Slots, i # j,
                      NEW z \in FilesIn(slot'[<<u, i>>]), z \in FilesIn(slot'[<<u, j>>])
               PROVE  FALSE
    OBVIOUS
  <2>1. FilesIn(slot[<<u, i>>]) \cap FilesIn(slot[<<u, j>>]) = {}
    BY DEF HolderInv
  <2> QED BY <2>1, <1>4
<1>8. \A z \in Lock!Files \X Projects : file'[z] \in Threads =>
        \E j \in Slots : z \in FilesIn(slot'[<<file'[z], j>>])
  <2> SUFFICES ASSUME NEW z \in Lock!Files \X Projects, file'[z] \in Threads
               PROVE  \E j \in Slots : z \in FilesIn(slot'[<<file'[z], j>>])
    OBVIOUS
  <2>1. file'[z] = file[z] /\ z \notin FilesIn(slot[<<t, k>>])
    BY <1>3, ThreadNotNobody
  <2>2. PICK j \in Slots : z \in FilesIn(slot[<<file[z], j>>])
    BY <2>1 DEF HolderInv
  <2> QED BY <2>1, <2>2, <1>4
<1>9. file' \in [Lock!Files \X Projects -> Threads \cup OldWriters \cup {Lock!Nobody}]
  BY <1>2 DEF Lock!DropFiles, LockShape
<1> QED BY <1>6, <1>7, <1>8, <1>9 DEF HolderInv

\* The acquisitions of a thread that count a shard.
CountedIn(t, s) == {k \in Slots : s \in slot[<<t, k>>].counted}

LEMMA CountsFinite ==
  ASSUME Lock!LockAssumption, NEW t \in Threads, NEW s \in Lock!Shards
  PROVE  /\ IsFiniteSet(CountedIn(t, s)) /\ Cardinality(CountedIn(t, s)) \in 0..Cardinality(Slots)
         /\ Cardinality(CountedIn(t, s)) = 0 <=> CountedIn(t, s) = {}
<1>1. IsFiniteSet(Slots) /\ CountedIn(t, s) \subseteq Slots
  BY SameFinite DEF Lock!LockAssumption, CountedIn
<1>2. IsFiniteSet(CountedIn(t, s)) /\ Cardinality(CountedIn(t, s)) <= Cardinality(Slots)
  BY <1>1, FS_Subset
<1>3. Cardinality(CountedIn(t, s)) \in Nat /\ Cardinality(Slots) \in Nat
  BY <1>1, <1>2, FS_CardinalityType
<1>4. Cardinality(CountedIn(t, s)) = 0 <=> CountedIn(t, s) = {}
  BY <1>2, FS_EmptySet
<1> QED BY <1>2, <1>3, <1>4

LEMMA MutexKept ==
  ASSUME LockShape, SlotsInv, MutexInv, NEW t \in Threads, NEW k \in Slots, NEW y,
         OneSlot(t, k, y), mutex' = mutex, y.real = slot[<<t, k>>].real
  PROVE  MutexInv'
<1>1. /\ slot'[<<t, k>>] = y
      /\ \A u \in Threads, j \in Slots : ~(u = t /\ j = k) => slot'[<<u, j>>] = slot[<<u, j>>]
  BY OneSlotMoves
<1>2. \A u \in Threads, j \in Slots : slot'[<<u, j>>].real = slot[<<u, j>>].real
  BY <1>1
<1> QED BY <1>2 DEF MutexInv

LEMMA ShardsKept ==
  ASSUME LockShape, SlotsInv, CountInv, MutexInv, NEW t \in Threads, NEW k \in Slots, NEW y,
         OneSlot(t, k, y), refs' = refs, mutex' = mutex,
         y.counted = slot[<<t, k>>].counted, y.real = slot[<<t, k>>].real
  PROVE  CountInv' /\ MutexInv'
<1>1. /\ slot'[<<t, k>>] = y
      /\ \A u \in Threads, j \in Slots : ~(u = t /\ j = k) => slot'[<<u, j>>] = slot[<<u, j>>]
  BY OneSlotMoves
<1>2. \A u \in Threads, j \in Slots : /\ slot'[<<u, j>>].counted = slot[<<u, j>>].counted
                                      /\ slot'[<<u, j>>].real = slot[<<u, j>>].real
  BY <1>1
<1>3. CountInv'
  <2>1. \A u \in Threads, s \in Lock!Shards : CountedIn(u, s)' = CountedIn(u, s)
    BY <1>2 DEF CountedIn
  <2> QED BY <2>1 DEF CountInv, CountedIn
<1>4. MutexInv'
  BY MutexKept
<1> QED BY <1>3, <1>4

LEMMA OneMoreCount ==
  ASSUME Lock!LockAssumption,
         LockShape, SlotsInv, CountInv, NEW t \in Threads, NEW k \in Slots, NEW y,
         OneSlot(t, k, y), NEW s \in Lock!Shards, s \notin slot[<<t, k>>].counted,
         refs' = [refs EXCEPT ![<<t, s>>] = refs[<<t, s>>] + 1],
         y.counted = slot[<<t, k>>].counted \cup {s}
  PROVE  CountInv' /\ refs' \in [Threads \X Lock!Shards -> Nat]
<1>1. /\ slot'[<<t, k>>] = y
      /\ \A u \in Threads, j \in Slots : ~(u = t /\ j = k) => slot'[<<u, j>>] = slot[<<u, j>>]
  BY OneSlotMoves
<1>2. \A u \in Threads, r \in Lock!Shards :
        CountedIn(u, r)' = IF u = t /\ r = s THEN CountedIn(u, r) \cup {k} ELSE CountedIn(u, r)
  BY <1>1 DEF CountedIn
<1>3. k \notin CountedIn(t, s)
  BY DEF CountedIn
<1>4. Cardinality(CountedIn(t, s) \cup {k}) = Cardinality(CountedIn(t, s)) + 1
  BY <1>3, CountsFinite, FS_AddElement
<1>5. /\ refs' \in [Threads \X Lock!Shards -> Nat]
      /\ \A u \in Threads, r \in Lock!Shards :
            refs'[<<u, r>>] = IF u = t /\ r = s THEN refs[<<u, r>>] + 1 ELSE refs[<<u, r>>]
  <2> DEFINE n == refs[<<t, s>>] + 1
  <2>1. refs \in [Threads \X Lock!Shards -> Nat] /\ <<t, s>> \in Threads \X Lock!Shards
    BY DEF LockShape
  <2>2. refs[<<t, s>>] \in Nat
    BY <2>1
  <2>3. n \in Nat
    BY <2>2
  <2> HIDE DEF n
  <2>4. refs' = [refs EXCEPT ![<<t, s>>] = n]
    BY DEF n
  <2>5. refs' \in [Threads \X Lock!Shards -> Nat]
    BY <2>1, <2>3, <2>4
  <2>6. \A u \in Threads, r \in Lock!Shards :
          refs'[<<u, r>>] = IF u = t /\ r = s THEN n ELSE refs[<<u, r>>]
    BY <2>1, <2>4
  <2> QED BY <2>5, <2>6 DEF n
<1>6. \A u \in Threads, r \in Lock!Shards :
        refs[<<u, r>>] = Cardinality(CountedIn(u, r)) /\ refs[<<u, r>>] \in Nat
  BY DEF CountInv, CountedIn, LockShape
<1>7. ASSUME NEW u \in Threads, NEW r \in Lock!Shards
      PROVE  refs'[<<u, r>>] = Cardinality(CountedIn(u, r)')
  <2>1. CASE u = t /\ r = s
    <3>1. CountedIn(t, s)' = CountedIn(t, s) \cup {k}
      BY <1>2
    <3>2. refs'[<<t, s>>] = Cardinality(CountedIn(t, s)) + 1
      BY <1>5, <1>6
    <3> QED BY <3>1, <3>2, <2>1, <1>4
  <2>2. CASE ~(u = t /\ r = s)
    <3>1. CountedIn(u, r)' = CountedIn(u, r)
      BY <2>2, <1>2
    <3> QED BY <3>1, <2>2, <1>5, <1>6
  <2> QED BY <2>1, <2>2
<1> QED BY <1>5, <1>7 DEF CountInv, CountedIn

LEMMA MutexGained ==
  ASSUME Lock!LockAssumption,
         LockShape, SlotsInv, CountInv, MutexInv, NEW t \in Threads, NEW k \in Slots, NEW y,
         OneSlot(t, k, y), NEW s \in Lock!Shards, refs[<<t, s>>] = 0,
         mutex[<<ProcessOf[t], s>>] = Lock!Nobody,
         mutex' = [mutex EXCEPT ![<<ProcessOf[t], s>>] = t],
         y.real = slot[<<t, k>>].real \cup {s}
  PROVE  MutexInv' /\ mutex' \in [Lock!Processes \X Lock!Shards -> Threads \cup {Lock!Nobody}]
<1>1. /\ slot'[<<t, k>>] = y
      /\ \A u \in Threads, j \in Slots : ~(u = t /\ j = k) => slot'[<<u, j>>] = slot[<<u, j>>]
  BY OneSlotMoves
<1> DEFINE c == ProcessOf[t]
<1>2. c \in Lock!Processes
  BY ThreadNotNobody
<1>3. /\ mutex' \in [Lock!Processes \X Lock!Shards -> Threads \cup {Lock!Nobody}]
      /\ \A d \in Lock!Processes, r \in Lock!Shards :
            mutex'[<<d, r>>] = IF d = c /\ r = s THEN t ELSE mutex[<<d, r>>]
  BY <1>2 DEF LockShape
<1>4. \A u \in Threads, j \in Slots :
        slot'[<<u, j>>].real = slot[<<u, j>>].real \cup (IF u = t /\ j = k THEN {s} ELSE {})
  BY <1>1
<1>5. \A j \in Slots : s \notin slot[<<t, j>>].real
  <2>1. CountedIn(t, s) = {}
    BY CountsFinite DEF CountInv, CountedIn
  <2> QED BY <2>1 DEF CountedIn, SlotsInv, SlotOK
<1>6. \A u \in Threads, j \in Slots : ProcessOf[u] = c => s \notin slot[<<u, j>>].real
  <2> SUFFICES ASSUME NEW u \in Threads, NEW j \in Slots, ProcessOf[u] = c, s \in slot[<<u, j>>].real
               PROVE  FALSE
    OBVIOUS
  <2>1. mutex[<<ProcessOf[u], s>>] = u
    BY DEF MutexInv
  <2> QED BY <2>1, ThreadNotNobody
<1>7. \A u \in Threads, j \in Slots : slot[<<u, j>>].real \subseteq Lock!Shards
  BY DEF LockShape, SlotTypes
<1> HIDE DEF c
<1>8. \A u \in Threads, j \in Slots : \A r \in slot'[<<u, j>>].real : mutex'[<<ProcessOf[u], r>>] = u
  <2> SUFFICES ASSUME NEW u \in Threads, NEW j \in Slots, NEW r \in slot'[<<u, j>>].real
               PROVE  mutex'[<<ProcessOf[u], r>>] = u
    OBVIOUS
  <2>1. ProcessOf[u] \in Lock!Processes
    BY ThreadNotNobody
  <2>2. CASE u = t /\ j = k /\ r = s
    BY <2>1, <2>2, <1>3 DEF c
  <2>3. CASE ~(u = t /\ j = k /\ r = s)
    <3>1. r \in slot[<<u, j>>].real /\ r \in Lock!Shards
      BY <2>3, <1>4, <1>7
    <3>2. mutex[<<ProcessOf[u], r>>] = u
      BY <3>1 DEF MutexInv
    <3>3. ~(ProcessOf[u] = c /\ r = s)
      BY <3>1, <1>6
    <3> QED BY <2>1, <3>1, <3>2, <3>3, <1>3
  <2> QED BY <2>2, <2>3
<1>9. \A u \in Threads, i \in Slots, j \in Slots :
        i # j => slot'[<<u, i>>].real \cap slot'[<<u, j>>].real = {}
  <2> SUFFICES ASSUME NEW u \in Threads, NEW i \in Slots, NEW j \in Slots, i # j,
                      NEW r \in slot'[<<u, i>>].real, r \in slot'[<<u, j>>].real
               PROVE  FALSE
    OBVIOUS
  <2>1. slot[<<u, i>>].real \cap slot[<<u, j>>].real = {}
    BY DEF MutexInv
  <2> QED BY <2>1, <1>4, <1>5
<1>10. \A d \in Lock!Processes, r \in Lock!Shards : mutex'[<<d, r>>] \in Threads =>
          /\ ProcessOf[mutex'[<<d, r>>]] = d
          /\ \E j \in Slots : r \in slot'[<<mutex'[<<d, r>>], j>>].real
  <2> SUFFICES ASSUME NEW d \in Lock!Processes, NEW r \in Lock!Shards, mutex'[<<d, r>>] \in Threads
               PROVE  /\ ProcessOf[mutex'[<<d, r>>]] = d
                      /\ \E j \in Slots : r \in slot'[<<mutex'[<<d, r>>], j>>].real
    OBVIOUS
  <2>1. CASE d = c /\ r = s
    BY <2>1, <1>3, <1>4 DEF c
  <2>2. CASE ~(d = c /\ r = s)
    <3>1. mutex'[<<d, r>>] = mutex[<<d, r>>]
      BY <2>2, <1>3
    <3>2. /\ ProcessOf[mutex[<<d, r>>]] = d
          /\ \E j \in Slots : r \in slot[<<mutex[<<d, r>>], j>>].real
      BY <3>1 DEF MutexInv
    <3> QED BY <3>1, <3>2, <1>4
  <2> QED BY <2>1, <2>2
<1> QED BY <1>3, <1>8, <1>9, <1>10 DEF MutexInv

LEMMA ShardsDropped ==
  ASSUME Lock!LockAssumption,
         LockShape, SlotsInv, CountInv, MutexInv, NEW t \in Threads, NEW k \in Slots, NEW y,
         OneSlot(t, k, y), Lock!DropShards(t, k), y.counted = {}, y.real = {}
  PROVE  /\ CountInv' /\ refs' \in [Threads \X Lock!Shards -> Nat]
         /\ MutexInv' /\ mutex' \in [Lock!Processes \X Lock!Shards -> Threads \cup {Lock!Nobody}]
<1> DEFINE x == slot[<<t, k>>]
           c == ProcessOf[t]
<1>1. /\ slot'[<<t, k>>] = y
      /\ \A u \in Threads, j \in Slots : ~(u = t /\ j = k) => slot'[<<u, j>>] = slot[<<u, j>>]
  BY OneSlotMoves
<1>2. /\ DOMAIN refs = Threads \X Lock!Shards /\ DOMAIN mutex = Lock!Processes \X Lock!Shards
      /\ \A u \in Threads, r \in Lock!Shards :
        refs[<<u, r>>] = Cardinality(CountedIn(u, r)) /\ refs[<<u, r>>] \in Nat
  BY DEF LockShape, CountInv, CountedIn
<1>3. \A u \in Threads, r \in Lock!Shards :
        refs'[<<u, r>>] = IF u = t /\ r \in x.counted THEN refs[<<u, r>>] - 1 ELSE refs[<<u, r>>]
  BY <1>2 DEF Lock!DropShards
<1>4. \A u \in Threads, r \in Lock!Shards :
        CountedIn(u, r)' = CountedIn(u, r) \ (IF u = t /\ r \in x.counted THEN {k} ELSE {})
  BY <1>1 DEF CountedIn
<1>5. ASSUME NEW u \in Threads, NEW r \in Lock!Shards
      PROVE  refs'[<<u, r>>] = Cardinality(CountedIn(u, r)') /\ refs'[<<u, r>>] \in Nat
  <2>1. CASE u = t /\ r \in x.counted
    <3>1. k \in CountedIn(t, r) /\ IsFiniteSet(CountedIn(t, r))
      BY <2>1, CountsFinite DEF CountedIn
    <3>2. /\ Cardinality(CountedIn(t, r) \ {k}) = Cardinality(CountedIn(t, r)) - 1
          /\ Cardinality(CountedIn(t, r) \ {k}) \in Nat
      BY <3>1, FS_RemoveElement, FS_CardinalityType
    <3> QED BY <3>2, <2>1, <1>2, <1>3, <1>4
  <2>2. CASE ~(u = t /\ r \in x.counted)
    <3>1. CountedIn(u, r)' = CountedIn(u, r)
      BY <2>2, <1>4
    <3> QED BY <3>1, <2>2, <1>2, <1>3
  <2> QED BY <2>1, <2>2
<1>6. CountInv'
  BY <1>5 DEF CountInv, CountedIn
<1>7. refs' \in [Threads \X Lock!Shards -> Nat]
  <2>1. refs' = [z \in Threads \X Lock!Shards |->
                   IF z[1] = t /\ z[2] \in x.counted THEN refs[z] - 1 ELSE refs[z]]
    BY <1>2 DEF Lock!DropShards
  <2>2. \A z \in Threads \X Lock!Shards : refs'[z] \in Nat
    BY <1>5
  <2> HIDE DEF x
  <2> QED BY <2>1, <2>2
<1>8. mutex' \in [Lock!Processes \X Lock!Shards -> Threads \cup {Lock!Nobody}]
  BY <1>2 DEF Lock!DropShards, LockShape
<1>9. \A d \in Lock!Processes, r \in Lock!Shards :
        mutex'[<<d, r>>] = IF d = c /\ r \in x.real THEN Lock!Nobody ELSE mutex[<<d, r>>]
  BY <1>2 DEF Lock!DropShards
<1>10. \A u \in Threads, j \in Slots : slot[<<u, j>>].real \subseteq Lock!Shards
  BY DEF LockShape, SlotTypes
<1> HIDE DEF c, x
<1>11. \A u \in Threads, j \in Slots : \A r \in slot'[<<u, j>>].real : mutex'[<<ProcessOf[u], r>>] = u
  <2> SUFFICES ASSUME NEW u \in Threads, NEW j \in Slots, NEW r \in slot'[<<u, j>>].real
               PROVE  mutex'[<<ProcessOf[u], r>>] = u
    OBVIOUS
  <2>1. ProcessOf[u] \in Lock!Processes
    BY ThreadNotNobody
  <2>2. ~(u = t /\ j = k) /\ r \in slot[<<u, j>>].real /\ r \in Lock!Shards
    BY <1>1, <1>10
  <2>3. mutex[<<ProcessOf[u], r>>] = u
    BY <2>2 DEF MutexInv
  <2>4. ~(ProcessOf[u] = c /\ r \in x.real)
    <3> SUFFICES ASSUME ProcessOf[u] = c, r \in x.real PROVE FALSE
      OBVIOUS
    <3>1. mutex[<<c, r>>] = t
      BY DEF MutexInv, c, x
    <3>2. u = t /\ j # k
      BY <3>1, <2>2, <2>3
    <3>3. slot[<<t, j>>].real \cap slot[<<t, k>>].real = {}
      BY <3>2 DEF MutexInv
    <3> QED BY <3>2, <3>3, <2>2 DEF x
  <2> QED BY <2>1, <2>2, <2>3, <2>4, <1>9
<1>12. \A u \in Threads, i \in Slots, j \in Slots :
        i # j => slot'[<<u, i>>].real \cap slot'[<<u, j>>].real = {}
  <2> SUFFICES ASSUME NEW u \in Threads, NEW i \in Slots, NEW j \in Slots, i # j,
                      NEW r \in slot'[<<u, i>>].real, r \in slot'[<<u, j>>].real
               PROVE  FALSE
    OBVIOUS
  <2>1. slot[<<u, i>>].real \cap slot[<<u, j>>].real = {}
    BY DEF MutexInv
  <2> QED BY <2>1, <1>1
<1>13. \A d \in Lock!Processes, r \in Lock!Shards : mutex'[<<d, r>>] \in Threads =>
          /\ ProcessOf[mutex'[<<d, r>>]] = d
          /\ \E j \in Slots : r \in slot'[<<mutex'[<<d, r>>], j>>].real
  <2> SUFFICES ASSUME NEW d \in Lock!Processes, NEW r \in Lock!Shards, mutex'[<<d, r>>] \in Threads
               PROVE  /\ ProcessOf[mutex'[<<d, r>>]] = d
                      /\ \E j \in Slots : r \in slot'[<<mutex'[<<d, r>>], j>>].real
    OBVIOUS
  <2>1. mutex'[<<d, r>>] = mutex[<<d, r>>] /\ ~(d = c /\ r \in x.real)
    BY <1>9, ThreadNotNobody
  <2>2. PICK j \in Slots : /\ ProcessOf[mutex[<<d, r>>]] = d
                           /\ r \in slot[<<mutex[<<d, r>>], j>>].real
    BY <2>1 DEF MutexInv
  <2>3. ~(mutex[<<d, r>>] = t /\ j = k)
    BY <2>1, <2>2 DEF c, x
  <2> QED BY <2>1, <2>2, <2>3, <1>1
<1> QED BY <1>6, <1>7, <1>8, <1>11, <1>12, <1>13 DEF MutexInv

\* What Taken changes in an acquisition.
LEMMA TakenFields ==
  ASSUME LockShape, SlotsInv, NEW t \in Threads, NEW k \in Slots, Lock!Acquiring(t, k)
  PROVE  LET x == slot[<<t, k>>]
             y == Lock!Taken(t, k)
         IN  /\ SlotOK(x) /\ x.status = "acquiring" /\ Head(x.todo) \in Resources
             /\ y \in SlotTypes /\ y.todo = Tail(x.todo) /\ y.projects = x.projects
             /\ y.status = IF Len(x.todo) = 1 THEN "held" ELSE x.status
             /\ y.real = x.real /\ y.counted = x.counted
             /\ Fits(Head(x.todo), x.projects)
<1> DEFINE x == slot[<<t, k>>]
           y == Lock!Taken(t, k)
           st == IF Len(x.todo) = 1 THEN "held" ELSE x.status
<1>1. SlotOK(x) /\ x.status = "acquiring" /\ x \in SlotTypes
  BY DEF SlotsInv, SlotOK, Lock!Acquiring
<1>2. x.todo \in Seq(Resources) /\ x.todo # <<>> /\ Rising(x.todo)
      /\ \A r \in In(x.todo) : Fits(r, x.projects)
  BY <1>1 DEF SlotOK, SlotTypes
<1> HIDE DEF x
<1>3. Head(x.todo) \in Resources /\ Tail(x.todo) \in Seq(Resources) /\ Fits(Head(x.todo), x.projects)
  BY <1>2, RisingTail
<1>4. y = [x EXCEPT !.todo = Tail(x.todo), !.status = st]
  BY DEF Lock!Taken, x
<1>5. st \in Statuses
  BY <1>1 DEF Statuses
<1> HIDE DEF st, y
<1>6. /\ y \in SlotTypes /\ y.todo = Tail(x.todo) /\ y.projects = x.projects
      /\ y.status = st /\ y.real = x.real /\ y.counted = x.counted
  <2> DEFINE v == Tail(x.todo)
             z == [x EXCEPT !.todo = v]
  <2>1. v \in Seq(Resources)
    BY <1>3
  <2> HIDE DEF v
  <2>2. /\ z \in SlotTypes /\ z.todo = v /\ z.projects = x.projects
        /\ z.real = x.real /\ z.counted = x.counted
    BY <1>1, <2>1 DEF SlotTypes
  <2>3. y = [z EXCEPT !.status = st]
    BY <1>1, <1>4 DEF SlotTypes, v
  <2> HIDE DEF z
  <2>4. /\ y \in SlotTypes /\ y.todo = z.todo /\ y.projects = z.projects
        /\ y.status = st /\ y.real = z.real /\ y.counted = z.counted
    BY <2>2, <2>3, <1>5 DEF SlotTypes
  <2> QED BY <2>2, <2>4 DEF v
<1> QED BY <1>1, <1>3, <1>6 DEF x, y, st

\* One lemma per action.
LEMMA BeginStep ==
  ASSUME Lock!LockAssumption,
         SharedLockInv, NEW t \in Threads, NEW k \in Slots, NEW order \in Lock!Requests,
         Lock!Begin(t, k, order)
  PROVE  SharedLockInv'
<1> DEFINE y == [Lock!Free EXCEPT !.status = "acquiring",
                             !.projects = {order[i] : i \in 1..Len(order)},
                             !.todo = Lock!Plan(order)]
<1>1. slot[<<t, k>>] = Lock!Free /\ slot' = [slot EXCEPT ![<<t, k>>] = y]
      /\ UNCHANGED <<mutex, poisoned, refs, file, refused>>
  BY DEF Lock!Begin
<1>2. SlotOK(y) /\ FilesIn(y) = {} /\ y.counted = {} /\ y.real = {}
  BY BegunOK
<1> HIDE DEF y
<1>3. OneSlot(t, k, y)
  BY <1>1, <1>2 DEF OneSlot
<1>4. FilesIn(y) = FilesIn(slot[<<t, k>>])
      /\ y.counted = slot[<<t, k>>].counted /\ y.real = slot[<<t, k>>].real
  BY <1>1, <1>2, FreeOK
<1>5. LockShape'
  BY <1>1, <1>3, OneSlotMoves DEF SharedLockInv, LockShape
<1>6. HolderInv'
  BY <1>1, <1>3, <1>4, FilesKept DEF SharedLockInv
<1>7. CountInv' /\ MutexInv'
  BY <1>1, <1>3, <1>4, ShardsKept DEF SharedLockInv
<1> QED BY <1>3, <1>5, <1>6, <1>7, OneSlotMoves DEF SharedLockInv

LEMMA TakeShardAgainStep ==
  ASSUME Lock!LockAssumption,
         SharedLockInv, NEW t \in Threads, NEW k \in Slots, Lock!TakeShardAgain(t, k)
  PROVE  SharedLockInv'
<1> DEFINE x == slot[<<t, k>>]
           r == Head(x.todo)
           s == r.n
           w == Lock!Taken(t, k)
           y == [w EXCEPT !.counted = w.counted \cup {s}]
<1>1. /\ Lock!Acquiring(t, k) /\ r.kind = "shard"
      /\ refs' = [refs EXCEPT ![<<t, s>>] = refs[<<t, s>>] + 1]
      /\ slot' = [slot EXCEPT ![<<t, k>>] = y]
      /\ UNCHANGED <<mutex, poisoned, file, refused>>
  BY DEF Lock!TakeShardAgain, Lock!NextResource
<1>2. /\ SlotOK(x) /\ x.status = "acquiring"
      /\ w \in SlotTypes /\ w.todo = Tail(x.todo) /\ w.projects = x.projects
      /\ w.status = IF Len(x.todo) = 1 THEN "held" ELSE x.status
      /\ w.real = x.real /\ w.counted = x.counted
      /\ Fits(r, x.projects)
  BY <1>1, TakenFields DEF SharedLockInv
<1>3. s \in Lock!Shards
  BY <1>1, <1>2 DEF Fits, Lock!Files
<1> HIDE DEF w, s
<1>4. /\ y \in SlotTypes /\ y.todo = w.todo /\ y.projects = w.projects
      /\ y.status = w.status /\ y.real = w.real /\ y.counted = w.counted \cup {s}
  <2>1. w.counted \cup {s} \in SUBSET Lock!Shards
    BY <1>2, <1>3 DEF SlotTypes
  <2> QED BY <1>2, <2>1 DEF SlotTypes
<1> HIDE DEF y
<1>5. y.real \subseteq y.counted
  BY <1>2, <1>4 DEF SlotOK
<1>6. SlotOK(y) /\ FilesIn(y) = FilesIn(x) /\ s \notin x.counted
  <2>1. r.kind \notin Lock!Files
    BY <1>1 DEF Lock!Files
  <2> QED BY <1>1, <1>2, <1>4, <1>5, <2>1, TakenOK DEF s
<1>7. OneSlot(t, k, y)
  BY <1>1, <1>6 DEF OneSlot
<1> HIDE DEF r
<1>8. CountInv' /\ refs' \in [Threads \X Lock!Shards -> Nat]
  BY <1>1, <1>2, <1>3, <1>4, <1>6, <1>7, OneMoreCount DEF SharedLockInv
<1>9. MutexInv'
  BY <1>1, <1>2, <1>4, <1>7, MutexKept DEF SharedLockInv
<1>10. HolderInv'
  BY <1>1, <1>6, <1>7, FilesKept DEF SharedLockInv
<1>11. LockShape'
  BY <1>1, <1>7, <1>8, OneSlotMoves DEF SharedLockInv, LockShape
<1> QED BY <1>7, <1>8, <1>9, <1>10, <1>11, OneSlotMoves DEF SharedLockInv

LEMMA TakeShardStep ==
  ASSUME Lock!LockAssumption,
         SharedLockInv, NEW t \in Threads, NEW k \in Slots, Lock!TakeShard(t, k)
  PROVE  SharedLockInv'
<1> DEFINE x == slot[<<t, k>>]
           r == Head(x.todo)
           s == r.n
           w == Lock!Taken(t, k)
           z == [w EXCEPT !.counted = w.counted \cup {s}]
           y == [z EXCEPT !.real = z.real \cup {s}]
<1>1. /\ Lock!Acquiring(t, k) /\ r.kind = "shard"
      /\ refs[<<t, s>>] = 0 /\ mutex[<<ProcessOf[t], s>>] = Lock!Nobody
      /\ mutex' = [mutex EXCEPT ![<<ProcessOf[t], s>>] = t]
      /\ refs' = [refs EXCEPT ![<<t, s>>] = 1]
      /\ slot' = [slot EXCEPT ![<<t, k>>] =
            [w EXCEPT !.counted = w.counted \cup {s}, !.real = w.real \cup {s}]]
      /\ UNCHANGED <<poisoned, file, refused>>
  BY DEF Lock!TakeShard, Lock!NextResource
<1>2. /\ SlotOK(x) /\ x.status = "acquiring"
      /\ w \in SlotTypes /\ w.todo = Tail(x.todo) /\ w.projects = x.projects
      /\ w.status = IF Len(x.todo) = 1 THEN "held" ELSE x.status
      /\ w.real = x.real /\ w.counted = x.counted
      /\ Fits(r, x.projects)
  BY <1>1, TakenFields DEF SharedLockInv
<1>3. s \in Lock!Shards
  BY <1>1, <1>2 DEF Fits, Lock!Files
<1> HIDE DEF w, s, x
<1>4. y = [w EXCEPT !.counted = w.counted \cup {s}, !.real = w.real \cup {s}]
  BY <1>2 DEF SlotTypes
<1>5. /\ z \in SlotTypes /\ z.todo = w.todo /\ z.projects = w.projects
      /\ z.status = w.status /\ z.real = w.real /\ z.counted = w.counted \cup {s}
  <2>1. w.counted \cup {s} \in SUBSET Lock!Shards
    BY <1>2, <1>3 DEF SlotTypes
  <2> QED BY <1>2, <2>1 DEF SlotTypes
<1> HIDE DEF z
<1>6. /\ y \in SlotTypes /\ y.todo = z.todo /\ y.projects = z.projects
      /\ y.status = z.status /\ y.real = z.real \cup {s} /\ y.counted = z.counted
  <2>1. z.real \cup {s} \in SUBSET Lock!Shards
    BY <1>5, <1>3 DEF SlotTypes
  <2> QED BY <1>5, <2>1 DEF SlotTypes
<1> HIDE DEF y
<1>7. y.real \subseteq y.counted
  BY <1>2, <1>5, <1>6 DEF SlotOK
<1>8. SlotOK(y) /\ FilesIn(y) = FilesIn(x) /\ s \notin x.counted
  <2>1. r.kind \notin Lock!Files
    BY <1>1 DEF Lock!Files
  <2> QED BY <1>1, <1>2, <1>5, <1>6, <1>7, <2>1, TakenOK DEF s
<1>9. OneSlot(t, k, y)
  BY <1>1, <1>4, <1>8 DEF OneSlot
<1> HIDE DEF r
<1>10. CountInv' /\ refs' \in [Threads \X Lock!Shards -> Nat]
  <2>1. refs' = [refs EXCEPT ![<<t, s>>] = refs[<<t, s>>] + 1]
    BY <1>1
  <2>2. y.counted = slot[<<t, k>>].counted \cup {s} /\ s \notin slot[<<t, k>>].counted
    BY <1>2, <1>5, <1>6, <1>8 DEF x
  <2>3. LockShape /\ SlotsInv /\ CountInv
    BY DEF SharedLockInv
  <2> QED BY <2>1, <2>2, <2>3, <1>3, <1>9, OneMoreCount
<1>11. MutexInv' /\ mutex' \in [Lock!Processes \X Lock!Shards -> Threads \cup {Lock!Nobody}]
  <2>1. y.real = slot[<<t, k>>].real \cup {s}
    BY <1>2, <1>5, <1>6 DEF x
  <2>2. LockShape /\ SlotsInv /\ CountInv /\ MutexInv
    BY DEF SharedLockInv
  <2> QED BY <2>1, <2>2, <1>1, <1>3, <1>9, MutexGained
<1>12. HolderInv'
  BY <1>1, <1>8, <1>9, FilesKept DEF SharedLockInv, x
<1>13. LockShape'
  BY <1>1, <1>9, <1>10, <1>11, OneSlotMoves DEF SharedLockInv, LockShape
<1> QED BY <1>9, <1>10, <1>11, <1>12, <1>13, OneSlotMoves DEF SharedLockInv

LEMMA TakeFileStep ==
  ASSUME Lock!LockAssumption, SharedLockInv, NEW t \in Threads, NEW k \in Slots, Lock!TakeFile(t, k)
  PROVE  SharedLockInv'
<1> DEFINE x == slot[<<t, k>>]
           r == Head(x.todo)
           y == Lock!Taken(t, k)
           h == <<r.kind, r.n>>
<1>1. /\ Lock!Acquiring(t, k) /\ r.kind \in Lock!Files /\ file[h] = Lock!Nobody
      /\ file' = [file EXCEPT ![h] = t]
      /\ slot' = [slot EXCEPT ![<<t, k>>] = y]
      /\ UNCHANGED <<mutex, poisoned, refs, refused>>
  BY DEF Lock!TakeFile, Lock!NextResource
<1>2. /\ SlotOK(x) /\ x.status = "acquiring"
      /\ y \in SlotTypes /\ y.todo = Tail(x.todo) /\ y.projects = x.projects
      /\ y.status = IF Len(x.todo) = 1 THEN "held" ELSE x.status
      /\ y.real = x.real /\ y.counted = x.counted
      /\ Fits(r, x.projects)
  BY <1>1, TakenFields DEF SharedLockInv
<1> HIDE DEF y
<1>3. /\ SlotOK(y) /\ r.n \in x.projects /\ h \notin FilesIn(x)
      /\ FilesIn(y) = FilesIn(x) \cup {h}
  <2>1. r.kind # "shard"
    BY <1>1 DEF Lock!Files
  <2>2. y.real \subseteq y.counted
    BY <1>2 DEF SlotOK
  <2> QED BY <1>1, <1>2, <2>1, <2>2, TakenOK
<1>4. OneSlot(t, k, y)
  BY <1>1, <1>3 DEF OneSlot
<1>5. h \in Lock!Files \X Projects
  BY <1>1, <1>2, <1>3 DEF SlotOK, SlotTypes
<1> HIDE DEF h, r
<1>6. HolderInv'
  BY <1>1, <1>3, <1>4, <1>5, FileGained DEF SharedLockInv
<1>7. CountInv' /\ MutexInv'
  BY <1>1, <1>2, <1>4, ShardsKept DEF SharedLockInv
<1>8. LockShape'
  <2>1. file' \in [Lock!Files \X Projects -> Threads \cup OldWriters \cup {Lock!Nobody}]
    BY <1>1, <1>5 DEF SharedLockInv, LockShape
  <2> QED BY <2>1, <1>1, <1>4, OneSlotMoves DEF SharedLockInv, LockShape
<1> QED BY <1>4, <1>6, <1>7, <1>8, OneSlotMoves DEF SharedLockInv

LEMMA ReleaseShardsStep ==
  ASSUME Lock!LockAssumption,
         SharedLockInv, NEW t \in Threads, NEW k \in Slots, Lock!ReleaseShards(t, k)
  PROVE  SharedLockInv'
<1> DEFINE x == slot[<<t, k>>]
           z == [x EXCEPT !.status = "releasing"]
           w == [z EXCEPT !.counted = {}]
           y == [w EXCEPT !.real = {}]
<1>1. /\ x.status = "held" /\ Lock!DropShards(t, k)
      /\ slot' = [slot EXCEPT ![<<t, k>>] =
            [x EXCEPT !.status = "releasing", !.counted = {}, !.real = {}]]
      /\ UNCHANGED <<poisoned, file, refused>>
  BY DEF Lock!ReleaseShards
<1>2. SlotOK(x) /\ x \in SlotTypes
  BY DEF SharedLockInv, SlotsInv, SlotOK
<1> HIDE DEF x
<1>3. y = [x EXCEPT !.status = "releasing", !.counted = {}, !.real = {}]
  BY <1>2 DEF SlotTypes
<1>4. z \in SlotTypes /\ z.status = "releasing" /\ z.todo = x.todo /\ z.projects = x.projects
  BY <1>2 DEF SlotTypes, Statuses
<1> HIDE DEF z
<1>5. w \in SlotTypes /\ w.status = z.status /\ w.todo = z.todo /\ w.projects = z.projects
      /\ w.counted = {}
  BY <1>4 DEF SlotTypes
<1> HIDE DEF w
<1>6. /\ y \in SlotTypes /\ y.status = w.status /\ y.todo = w.todo /\ y.projects = w.projects
      /\ y.counted = {} /\ y.real = {}
  BY <1>5 DEF SlotTypes
<1> HIDE DEF y
<1>7. SlotOK(y) /\ FilesIn(y) = FilesIn(x)
  BY <1>1, <1>2, <1>4, <1>5, <1>6, ReleasingOK
<1>8. OneSlot(t, k, y)
  BY <1>1, <1>3, <1>7 DEF OneSlot
<1>9. LockShape /\ SlotsInv /\ CountInv /\ MutexInv /\ HolderInv
  BY DEF SharedLockInv
<1>10. /\ CountInv' /\ refs' \in [Threads \X Lock!Shards -> Nat]
       /\ MutexInv' /\ mutex' \in [Lock!Processes \X Lock!Shards -> Threads \cup {Lock!Nobody}]
  BY <1>1, <1>6, <1>8, <1>9, ShardsDropped
<1>11. HolderInv'
  BY <1>1, <1>7, <1>8, <1>9, FilesKept DEF x
<1>12. LockShape'
  BY <1>1, <1>8, <1>9, <1>10, OneSlotMoves DEF LockShape
<1> QED BY <1>8, <1>9, <1>10, <1>11, <1>12, OneSlotMoves DEF SharedLockInv

LEMMA ReleaseFilesStep ==
  ASSUME Lock!LockAssumption,
         SharedLockInv, NEW t \in Threads, NEW k \in Slots, Lock!ReleaseFiles(t, k)
  PROVE  SharedLockInv'
<1>1. /\ slot[<<t, k>>].status = "releasing" /\ Lock!DropFiles(t, k)
      /\ slot' = [slot EXCEPT ![<<t, k>>] = Lock!Free]
      /\ UNCHANGED <<mutex, poisoned, refs, refused>>
  BY DEF Lock!ReleaseFiles
<1>2. OneSlot(t, k, Lock!Free)
  BY <1>1, FreeOK DEF OneSlot
<1>3. Lock!Free.counted = slot[<<t, k>>].counted /\ Lock!Free.real = slot[<<t, k>>].real
  BY <1>1, FreeOK DEF SharedLockInv, SlotsInv, SlotOK
<1>4. LockShape /\ SlotsInv /\ CountInv /\ MutexInv /\ HolderInv
  BY DEF SharedLockInv
<1>5. CountInv' /\ MutexInv'
  BY <1>1, <1>2, <1>3, <1>4, ShardsKept
<1>6. HolderInv' /\ file' \in [Lock!Files \X Projects -> Threads \cup OldWriters \cup {Lock!Nobody}]
  BY <1>1, <1>2, <1>4, FilesDropped
<1>7. LockShape'
  BY <1>1, <1>2, <1>4, <1>6, OneSlotMoves DEF LockShape
<1> QED BY <1>2, <1>4, <1>5, <1>6, <1>7, OneSlotMoves DEF SharedLockInv

\* Everything an acquisition took is dropped at once.
LEMMA DropStep ==
  ASSUME Lock!LockAssumption,
         SharedLockInv, NEW t \in Threads, NEW k \in Slots, Lock!DropShards(t, k),
         Lock!DropFiles(t, k),
         slot' = [slot EXCEPT ![<<t, k>>] = Lock!Free],
         poisoned' \subseteq Lock!Processes \X Lock!Shards,
         refused' \in [Threads -> {"nothing", "file", "busy", "idle shard"}]
  PROVE  SharedLockInv'
<1>1. OneSlot(t, k, Lock!Free)
  BY FreeOK DEF OneSlot
<1>2. LockShape /\ SlotsInv /\ CountInv /\ MutexInv /\ HolderInv
  BY DEF SharedLockInv
<1>3. /\ CountInv' /\ refs' \in [Threads \X Lock!Shards -> Nat]
      /\ MutexInv' /\ mutex' \in [Lock!Processes \X Lock!Shards -> Threads \cup {Lock!Nobody}]
  BY <1>1, <1>2, FreeOK, ShardsDropped
<1>4. HolderInv' /\ file' \in [Lock!Files \X Projects -> Threads \cup OldWriters \cup {Lock!Nobody}]
  BY <1>1, <1>2, FilesDropped
<1>5. LockShape'
  BY <1>1, <1>2, <1>3, <1>4, OneSlotMoves DEF LockShape
<1> QED BY <1>1, <1>2, <1>3, <1>4, <1>5, OneSlotMoves DEF SharedLockInv

LEMMA TimeOutStep ==
  ASSUME Lock!LockAssumption, SharedLockInv, NEW t \in Threads, NEW k \in Slots, Lock!TimeOut(t, k)
  PROVE  SharedLockInv'
<1>1. /\ Lock!DropShards(t, k) /\ Lock!DropFiles(t, k)
      /\ slot' = [slot EXCEPT ![<<t, k>>] = Lock!Free]
      /\ poisoned' = poisoned
      /\ \E why \in {"file", "busy", "idle shard"} : refused' = [refused EXCEPT ![t] = why]
  BY DEF Lock!TimeOut
<1>2. /\ poisoned' \subseteq Lock!Processes \X Lock!Shards
      /\ refused' \in [Threads -> {"nothing", "file", "busy", "idle shard"}]
  BY <1>1 DEF SharedLockInv, LockShape
<1> QED BY <1>1, <1>2, DropStep

LEMMA CannotOpenStep ==
  ASSUME Lock!LockAssumption,
         SharedLockInv, NEW t \in Threads, NEW k \in Slots, Lock!CannotOpen(t, k)
  PROVE  SharedLockInv'
<1>1. /\ Lock!DropShards(t, k) /\ Lock!DropFiles(t, k)
      /\ slot' = [slot EXCEPT ![<<t, k>>] = Lock!Free]
      /\ poisoned' = poisoned /\ refused' = refused
  BY DEF Lock!CannotOpen
<1>2. /\ poisoned' \subseteq Lock!Processes \X Lock!Shards
      /\ refused' \in [Threads -> {"nothing", "file", "busy", "idle shard"}]
  BY <1>1 DEF SharedLockInv, LockShape
<1> QED BY <1>1, <1>2, DropStep

LEMMA PanicStep ==
  ASSUME Lock!LockAssumption, SharedLockInv, NEW t \in Threads, NEW k \in Slots, Lock!Panic(t, k)
  PROVE  SharedLockInv'
<1>1. /\ Lock!DropShards(t, k) /\ Lock!DropFiles(t, k)
      /\ slot' = [slot EXCEPT ![<<t, k>>] = Lock!Free]
      /\ poisoned' = poisoned \cup {<<ProcessOf[t], s>> : s \in slot[<<t, k>>].real}
      /\ refused' = refused
  BY DEF Lock!Panic
<1>2. slot[<<t, k>>].real \subseteq Lock!Shards
  BY DEF SharedLockInv, LockShape, SlotTypes
<1>3. /\ poisoned' \subseteq Lock!Processes \X Lock!Shards
      /\ refused' \in [Threads -> {"nothing", "file", "busy", "idle shard"}]
  <2>1. {<<ProcessOf[t], s>> : s \in slot[<<t, k>>].real} \subseteq Lock!Processes \X Lock!Shards
    BY <1>2, ThreadNotNobody
  <2> QED BY <2>1, <1>1 DEF SharedLockInv, LockShape
<1> QED BY <1>1, <1>3, DropStep

LEMMA ExitStep ==
  ASSUME Lock!LockAssumption, SharedLockInv, NEW t \in Threads, Lock!Exit(t)
  PROVE  SharedLockInv'
<1> DEFINE c == ProcessOf[t]
<1>1. /\ \A u \in Threads \ {t} : ProcessOf[u] # c
      /\ mutex' = [x \in DOMAIN mutex |-> IF x[1] = c THEN Lock!Nobody ELSE mutex[x]]
      /\ refs' = [x \in DOMAIN refs |-> IF x[1] = t THEN 0 ELSE refs[x]]
      /\ file' = [x \in DOMAIN file |-> IF file[x] = t THEN Lock!Nobody ELSE file[x]]
      /\ slot' = [x \in DOMAIN slot |-> IF x[1] = t THEN Lock!Free ELSE slot[x]]
      /\ poisoned' \subseteq poisoned
      /\ refused' = refused
  BY DEF Lock!Exit
<1>2. LockShape /\ SlotsInv /\ CountInv /\ MutexInv /\ HolderInv
  BY DEF SharedLockInv
<1>3. Lock!Free \in SlotTypes /\ SlotOK(Lock!Free)
  BY FreeOK DEF SlotOK
<1> HIDE DEF c
<1>4. LockShape'
  BY <1>1, <1>2, <1>3 DEF LockShape
<1>5. \A u \in Threads, j \in Slots :
        slot'[<<u, j>>] = IF u = t THEN Lock!Free ELSE slot[<<u, j>>]
  BY <1>1, <1>2 DEF LockShape
<1>6. SlotsInv'
  BY <1>2, <1>3, <1>5 DEF SlotsInv
<1>7. HolderInv'
  <2>1. \A z \in Lock!Files \X Projects : file'[z] = IF file[z] = t THEN Lock!Nobody ELSE file[z]
    BY <1>1, <1>2 DEF LockShape
  <2>2. \A u \in Threads, j \in Slots :
          FilesIn(slot'[<<u, j>>]) = IF u = t THEN {} ELSE FilesIn(slot[<<u, j>>])
    BY <1>5, FreeOK
  <2>3. \A u \in Threads, j \in Slots : FilesIn(slot[<<u, j>>]) \subseteq Lock!Files \X Projects
    BY <1>2 DEF LockShape, SlotTypes, FilesIn
  <2>4. \A u \in Threads, j \in Slots : \A z \in FilesIn(slot'[<<u, j>>]) : file'[z] = u
    BY <1>2, <2>1, <2>2, <2>3 DEF HolderInv
  <2>5. \A u \in Threads, i \in Slots, j \in Slots :
          i # j => FilesIn(slot'[<<u, i>>]) \cap FilesIn(slot'[<<u, j>>]) = {}
    <3> SUFFICES ASSUME NEW u \in Threads, NEW i \in Slots, NEW j \in Slots, i # j,
                        NEW z \in FilesIn(slot'[<<u, i>>]), z \in FilesIn(slot'[<<u, j>>])
                 PROVE  FALSE
      OBVIOUS
    <3>1. FilesIn(slot[<<u, i>>]) \cap FilesIn(slot[<<u, j>>]) = {}
      BY <1>2 DEF HolderInv
    <3> QED BY <3>1, <2>2
  <2>6. \A z \in Lock!Files \X Projects : file'[z] \in Threads =>
          \E j \in Slots : z \in FilesIn(slot'[<<file'[z], j>>])
    <3> SUFFICES ASSUME NEW z \in Lock!Files \X Projects, file'[z] \in Threads
                 PROVE  \E j \in Slots : z \in FilesIn(slot'[<<file'[z], j>>])
      OBVIOUS
    <3>1. file'[z] = file[z] /\ file[z] # t
      BY <2>1, ThreadNotNobody
    <3>2. PICK j \in Slots : z \in FilesIn(slot[<<file[z], j>>])
      BY <1>2, <3>1 DEF HolderInv
    <3> QED BY <3>1, <3>2, <2>2
  <2> QED BY <2>4, <2>5, <2>6 DEF HolderInv
<1>8. CountInv'
  <2> SUFFICES ASSUME NEW u \in Threads, NEW s \in Lock!Shards
               PROVE  refs'[<<u, s>>] = Cardinality(CountedIn(u, s)')
    BY DEF CountInv, CountedIn
  <2>1. refs'[<<u, s>>] = IF u = t THEN 0 ELSE refs[<<u, s>>]
    BY <1>1, <1>2 DEF LockShape
  <2>2. CASE u = t
    <3>1. CountedIn(u, s)' = {}
      BY <2>2, <1>5, FreeOK DEF CountedIn
    <3> QED BY <3>1, <2>1, <2>2, FS_EmptySet
  <2>3. CASE u # t
    <3>1. CountedIn(u, s)' = CountedIn(u, s)
      BY <2>3, <1>5 DEF CountedIn
    <3> QED BY <3>1, <2>1, <2>3, <1>2 DEF CountInv, CountedIn
  <2> QED BY <2>2, <2>3
<1>9. MutexInv'
  <2>1. \A d \in Lock!Processes, r \in Lock!Shards :
          mutex'[<<d, r>>] = IF d = c THEN Lock!Nobody ELSE mutex[<<d, r>>]
    BY <1>1, <1>2 DEF LockShape
  <2>2. \A u \in Threads, j \in Slots :
          /\ slot'[<<u, j>>].real = IF u = t THEN {} ELSE slot[<<u, j>>].real
          /\ slot[<<u, j>>].real \subseteq Lock!Shards
    BY <1>2, <1>5, FreeOK DEF LockShape, SlotTypes
  <2>3. \A u \in Threads : ProcessOf[u] \in Lock!Processes /\ (u # t => ProcessOf[u] # c)
    BY <1>1, ThreadNotNobody
  <2>4. \A u \in Threads, j \in Slots : \A r \in slot'[<<u, j>>].real : mutex'[<<ProcessOf[u], r>>] = u
    BY <1>2, <2>1, <2>2, <2>3 DEF MutexInv
  <2>5. \A u \in Threads, i \in Slots, j \in Slots :
          i # j => slot'[<<u, i>>].real \cap slot'[<<u, j>>].real = {}
    <3> SUFFICES ASSUME NEW u \in Threads, NEW i \in Slots, NEW j \in Slots, i # j,
                        NEW r \in slot'[<<u, i>>].real, r \in slot'[<<u, j>>].real
                 PROVE  FALSE
      OBVIOUS
    <3>1. slot[<<u, i>>].real \cap slot[<<u, j>>].real = {}
      BY <1>2 DEF MutexInv
    <3> QED BY <3>1, <2>2
  <2>6. \A d \in Lock!Processes, r \in Lock!Shards : mutex'[<<d, r>>] \in Threads =>
            /\ ProcessOf[mutex'[<<d, r>>]] = d
            /\ \E j \in Slots : r \in slot'[<<mutex'[<<d, r>>], j>>].real
    <3> SUFFICES ASSUME NEW d \in Lock!Processes, NEW r \in Lock!Shards, mutex'[<<d, r>>] \in Threads
                 PROVE  /\ ProcessOf[mutex'[<<d, r>>]] = d
                        /\ \E j \in Slots : r \in slot'[<<mutex'[<<d, r>>], j>>].real
      OBVIOUS
    <3>1. mutex'[<<d, r>>] = mutex[<<d, r>>] /\ d # c
      BY <2>1, ThreadNotNobody
    <3>2. PICK j \in Slots : /\ ProcessOf[mutex[<<d, r>>]] = d
                             /\ r \in slot[<<mutex[<<d, r>>], j>>].real
      BY <1>2, <3>1 DEF MutexInv
    <3>3. mutex[<<d, r>>] # t
      BY <3>1, <3>2 DEF c
    <3> QED BY <3>1, <3>2, <3>3, <2>2
  <2> QED BY <2>4, <2>5, <2>6 DEF MutexInv
<1> QED BY <1>4, <1>6, <1>7, <1>8, <1>9 DEF SharedLockInv

LEMMA NothingMoves ==
  ASSUME SlotsInv, CountInv, MutexInv, slot' = slot, refs' = refs, mutex' = mutex
  PROVE  SlotsInv' /\ CountInv' /\ MutexInv'
<1>1. \A t \in Threads, s \in Lock!Shards : CountedIn(t, s)' = CountedIn(t, s)
  BY DEF CountedIn
<1>2. CountInv'
  BY <1>1 DEF CountInv, CountedIn
<1>3. SlotsInv'
  BY DEF SlotsInv
<1>4. MutexInv'
  BY DEF MutexInv
<1> QED BY <1>2, <1>3, <1>4

LEMMA OldWriterStep ==
  ASSUME Lock!LockAssumption,
         SharedLockInv, NEW w \in OldWriters, NEW p \in Projects,
         Lock!OldTake(w, p) \/ Lock!OldDrop(w, p)
  PROVE  SharedLockInv'
<1> DEFINE x == <<"legacy", p>>
<1>1. w \notin Threads /\ x \in Lock!Files \X Projects
  BY DEF Lock!LockAssumption, Lock!Files
<1>2. /\ file[x] \notin Threads
      /\ \E v \in {w, Lock!Nobody} : file' = [file EXCEPT ![x] = v]
      /\ UNCHANGED <<mutex, poisoned, refs, slot, refused>>
  BY <1>1, ThreadNotNobody DEF Lock!OldTake, Lock!OldDrop
<1>3. LockShape /\ SlotsInv /\ CountInv /\ MutexInv /\ HolderInv
  BY DEF SharedLockInv
<1> HIDE DEF x
<1>4. file'[x] \notin Threads /\ \A z \in Lock!Files \X Projects : z # x => file'[z] = file[z]
  BY <1>1, <1>2, <1>3, ThreadNotNobody DEF LockShape
<1>5. LockShape' /\ SlotsInv' /\ CountInv' /\ MutexInv'
  <2>1. LockShape'
    <3>1. file' \in [Lock!Files \X Projects -> Threads \cup OldWriters \cup {Lock!Nobody}]
      <4>1. PICK v \in {w, Lock!Nobody} : file' = [file EXCEPT ![x] = v]
        BY <1>2
      <4>2. v \in Threads \cup OldWriters \cup {Lock!Nobody}
        OBVIOUS
      <4>3. file \in [Lock!Files \X Projects -> Threads \cup OldWriters \cup {Lock!Nobody}]
        BY <1>3 DEF LockShape
      <4> QED BY <4>1, <4>2, <4>3
    <3> QED BY <3>1, <1>2, <1>3 DEF LockShape
  <2>2. SlotsInv' /\ CountInv' /\ MutexInv'
    BY <1>2, <1>3, NothingMoves
  <2> QED BY <2>1, <2>2
<1>6. \A u \in Threads, j \in Slots : \A z \in FilesIn(slot[<<u, j>>]) : file'[z] = u
  <2> SUFFICES ASSUME NEW u \in Threads, NEW j \in Slots, NEW z \in FilesIn(slot[<<u, j>>])
               PROVE  file'[z] = u
    OBVIOUS
  <2>1. file[z] = u
    BY <1>3 DEF HolderInv
  <2>2. z \in Lock!Files \X Projects
    BY <1>3 DEF LockShape, SlotTypes, FilesIn
  <2> QED BY <2>1, <2>2, <1>2, <1>4
<1>7. HolderInv'
  <2>1. slot' = slot
    BY <1>2
  <2> QED BY <2>1, <1>3, <1>4, <1>6 DEF HolderInv
<1> QED BY <1>5, <1>7 DEF SharedLockInv

LEMMA LockInitially ==
  ASSUME Lock!LockAssumption
  PROVE  Lock!Init => SharedLockInv
<1> SUFFICES ASSUME Lock!Init PROVE SharedLockInv
  OBVIOUS
<1>1. LockShape
  <2>1. Lock!Free \in SlotTypes
    BY FreeOK DEF SlotOK
  <2> QED BY <2>1 DEF Lock!Init, LockShape
<1>2. \A t \in Threads, k \in Slots : slot[<<t, k>>] = Lock!Free
  BY DEF Lock!Init
<1>3. SlotsInv
  BY <1>2, FreeOK DEF SlotsInv
<1>4. HolderInv
  BY <1>2, FreeOK, ThreadNotNobody DEF HolderInv, Lock!Init
<1>5. MutexInv
  BY <1>2, FreeOK, ThreadNotNobody DEF MutexInv, Lock!Init
<1>6. CountInv
  <2> SUFFICES ASSUME NEW t \in Threads, NEW s \in Lock!Shards
               PROVE  refs[<<t, s>>] = Cardinality(CountedIn(t, s))
    BY DEF CountInv, CountedIn
  <2>1. CountedIn(t, s) = {}
    BY <1>2, FreeOK DEF CountedIn
  <2> QED BY <2>1, FS_EmptySet DEF Lock!Init
<1> QED BY <1>1, <1>3, <1>4, <1>5, <1>6 DEF SharedLockInv

LEMMA LockSteps ==
  ASSUME Lock!LockAssumption
  PROVE  SharedLockInv /\ [Lock!Next]_(Lock!vars) => SharedLockInv'
<1> SUFFICES ASSUME SharedLockInv, [Lock!Next]_(Lock!vars) PROVE SharedLockInv'
  OBVIOUS
<1>1. CASE UNCHANGED Lock!vars
  <2>1. LockShape' /\ HolderInv'
    BY <1>1 DEF Lock!vars, SharedLockInv, LockShape, HolderInv
  <2>2. SlotsInv' /\ CountInv' /\ MutexInv'
    BY <1>1, NothingMoves DEF Lock!vars, SharedLockInv
  <2> QED BY <2>1, <2>2 DEF SharedLockInv
<1>2. CASE \E t \in Threads, k \in Slots :
          \/ \E order \in Lock!Requests : Lock!Begin(t, k, order)
          \/ Lock!TakeShardAgain(t, k) \/ Lock!TakeShard(t, k) \/ Lock!TakeFile(t, k)
          \/ Lock!ReleaseShards(t, k) \/ Lock!ReleaseFiles(t, k)
          \/ Lock!TimeOut(t, k) \/ Lock!CannotOpen(t, k) \/ Lock!Panic(t, k)
  BY <1>2, BeginStep, TakeShardAgainStep, TakeShardStep, TakeFileStep, ReleaseShardsStep,
     ReleaseFilesStep, TimeOutStep, CannotOpenStep, PanicStep
<1>3. CASE \E t \in Threads : Lock!Exit(t)
  BY <1>3, ExitStep
<1>4. CASE \E w \in OldWriters, p \in Projects : Lock!OldTake(w, p) \/ Lock!OldDrop(w, p)
  BY <1>4, OldWriterStep
<1> QED BY <1>1, <1>2, <1>3, <1>4 DEF Lock!Next

\* Whoever holds the lock of a project has its legacy lock file, which has one
\* holder.
LEMMA LockSafeFollows ==
  ASSUME Lock!LockAssumption
  PROVE  SharedLockInv => Lock!LockSafe
<1> SUFFICES ASSUME SharedLockInv PROVE Lock!LockSafe
  OBVIOUS
<1>1. LockShape /\ SlotsInv /\ HolderInv /\ CountInv
  BY DEF SharedLockInv
<1>2. Lock!TypeOK
  <2>1. refs \in [Threads \X Lock!Shards -> 0..Cardinality(Slots)]
    <3>1. refs \in [Threads \X Lock!Shards -> Nat]
      BY <1>1 DEF LockShape
    <3>2. \A t \in Threads, s \in Lock!Shards : refs[<<t, s>>] = Cardinality(CountedIn(t, s))
      BY <1>1 DEF CountInv, CountedIn
    <3>3. \A z \in Threads \X Lock!Shards : refs[z] \in 0..Cardinality(Slots)
      BY <3>2, CountsFinite
    <3> QED BY <3>1, <3>3
  <2>2. \A t \in Threads, k \in Slots :
          /\ slot[<<t, k>>].status \in {"free", "acquiring", "held", "releasing"}
          /\ slot[<<t, k>>].projects \subseteq Projects
          /\ slot[<<t, k>>].real \subseteq slot[<<t, k>>].counted
    BY <1>1 DEF SlotsInv, SlotOK, SlotTypes, Statuses
  <2> QED BY <2>1, <2>2, <1>1, SameSize DEF Lock!TypeOK, LockShape
<1>3. Lock!OneHolderPerProject
  <2> SUFFICES ASSUME NEW p \in Projects
               PROVE  Cardinality({t \in Threads : Lock!Holds(t, p)}
                                  \cup {w \in OldWriters : file[<<"legacy", p>>] = w}) <= 1
    BY SameSize DEF Lock!OneHolderPerProject
  <2> DEFINE x == <<"legacy", p>>
             holders == {t \in Threads : Lock!Holds(t, p)} \cup {w \in OldWriters : file[x] = w}
  <2>1. ASSUME NEW t \in Threads, Lock!Holds(t, p) PROVE t = file[x]
    <3>1. PICK k \in Slots : slot[<<t, k>>].status = "held" /\ p \in slot[<<t, k>>].projects
      BY <2>1 DEF Lock!Holds
    <3>2. slot[<<t, k>>].todo = <<>>
      BY <1>1, <3>1 DEF SlotsInv, SlotOK
    <3>3. x \in FilesIn(slot[<<t, k>>])
      BY <3>1, <3>2, NothingMissing DEF FilesIn, Lock!Files
    <3> QED BY <3>3, <1>1 DEF HolderInv
  <2>2. holders \subseteq {file[x]}
    BY <2>1
  <2> HIDE DEF holders
  <2>3. IsFiniteSet({file[x]}) /\ Cardinality({file[x]}) = 1
    BY FS_Singleton
  <2>4. Cardinality(holders) <= 1
    BY <2>2, <2>3, FS_Subset
  <2> QED BY <2>4 DEF holders
<1>4. Lock!NoLockLeaks
  <2> SUFFICES ASSUME NEW f \in Lock!Files, NEW p \in Projects, file[<<f, p>>] \in Threads
               PROVE  \E k \in Slots : <<f, p>> \in Lock!HeldFiles(file[<<f, p>>], k)
    BY DEF Lock!NoLockLeaks
  <2>1. PICK k \in Slots : <<f, p>> \in FilesIn(slot[<<file[<<f, p>>], k>>])
    BY <1>1 DEF HolderInv
  <2> QED BY <2>1 DEF Lock!HeldFiles, Lock!Missing, FilesIn, In
<1> QED BY <1>2, <1>3, <1>4 DEF Lock!LockSafe

\* The lock of a project has one holder among the threads of all processes and the
\* writers of older releases, and no timeout, failed open, panic or exit leaves a
\* lock file locked by nobody: for any threads, projects and shards, and however
\* many locks a thread nests.
THEOREM LockIsSafe ==
  ASSUME Lock!LockAssumption
  PROVE  Lock!Spec => []Lock!LockSafe
<1>1. Lock!Init => SharedLockInv
  BY LockInitially
<1>2. SharedLockInv /\ [Lock!Next]_(Lock!vars) => SharedLockInv'
  BY LockSteps
<1>3. SharedLockInv => Lock!LockSafe
  BY LockSafeFollows
<1> QED BY <1>1, <1>2, <1>3, PTL DEF Lock!Spec

-----------------------------------------------------------------------------
\* Each thread has one lock at a time.
OneLockEach == \A j \in Slots, k \in Slots : j = k

\* Then a guard that counts a shard is the one that locked its mutex.
WholeInv == \A t \in Threads, k \in Slots : slot[<<t, k>>].real = slot[<<t, k>>].counted

\* An acquisition waits for nothing it already counts.
LEMMA HeadIsMissing ==
  ASSUME SharedLockInv, NEW t \in Threads, NEW k \in Slots, Lock!Acquiring(t, k)
  PROVE  /\ Lock!NextResource(t, k) \in Resources
         /\ Lock!NextResource(t, k) \in In(slot[<<t, k>>].todo)
         /\ Fits(Lock!NextResource(t, k), slot[<<t, k>>].projects)
         /\ Lock!NextResource(t, k).kind = "shard" =>
              Lock!NextResource(t, k).n \notin slot[<<t, k>>].counted
<1> DEFINE x == slot[<<t, k>>]
           r == Lock!NextResource(t, k)
<1>1. SlotOK(x) /\ x.status = "acquiring"
  BY DEF SharedLockInv, SlotsInv, Lock!Acquiring
<1>2. r = Head(x.todo) /\ x.todo \in Seq(Resources) /\ x.todo # <<>> /\ Rising(x.todo)
  BY <1>1 DEF SlotOK, SlotTypes, Lock!NextResource
<1> HIDE DEF x, r
<1>3. r \in Resources /\ r \in In(x.todo)
  BY <1>2, RisingTail
<1>4. Fits(r, x.projects) /\ \A s \in x.counted : Below(Lock!Resource("shard", s), r)
  BY <1>1, <1>3 DEF SlotOK
<1>5. r.kind = "shard" => r = Lock!Resource("shard", r.n)
  BY <1>3 DEF Lock!Resource, Resources
<1>6. ~Below(r, r)
  BY <1>3, BelowOrder
<1>7. r.kind = "shard" => r.n \notin x.counted
  BY <1>4, <1>5, <1>6
<1> QED BY <1>3, <1>4, <1>7 DEF x, r

LEMMA WholeSteps ==
  ASSUME Lock!LockAssumption, OneLockEach, SharedLockInv, WholeInv, [Lock!Next]_(Lock!vars)
  PROVE  WholeInv'
<1>1. slot \in [Threads \X Slots -> SlotTypes]
  BY DEF SharedLockInv, LockShape
<1>2. ASSUME NEW t \in Threads, NEW k \in Slots, NEW y, y.real = y.counted,
             slot' = [slot EXCEPT ![<<t, k>>] = y]
      PROVE  WholeInv'
  BY <1>1, <1>2 DEF WholeInv
<1>3. Lock!Free.real = Lock!Free.counted
  BY FreeOK
<1>4. ASSUME NEW t \in Threads, NEW k \in Slots PROVE Lock!TakeShardAgain(t, k) => FALSE
  <2> SUFFICES ASSUME Lock!TakeShardAgain(t, k) PROVE FALSE
    OBVIOUS
  <2> DEFINE s == Lock!NextResource(t, k).n
  <2>1. Lock!Acquiring(t, k) /\ Lock!NextResource(t, k).kind = "shard" /\ refs[<<t, s>>] > 0
    BY DEF Lock!TakeShardAgain
  <2>2. s \notin slot[<<t, k>>].counted /\ s \in Lock!Shards
    BY <2>1, HeadIsMissing DEF Fits, Lock!Files
  <2> HIDE DEF s
  <2>3. CountedIn(t, s) = {}
    BY <2>2 DEF CountedIn, OneLockEach
  <2>4. refs[<<t, s>>] = 0
    BY <2>2, <2>3, CountsFinite DEF SharedLockInv, CountInv, CountedIn
  <2> QED BY <2>1, <2>4
<1>5. ASSUME NEW t \in Threads, NEW k \in Slots, Lock!TakeShard(t, k) PROVE WholeInv'
  <2> DEFINE x == slot[<<t, k>>]
             w == Lock!Taken(t, k)
             s == Lock!NextResource(t, k).n
             y == [w EXCEPT !.counted = w.counted \cup {s}, !.real = w.real \cup {s}]
  <2>1. Lock!Acquiring(t, k) /\ slot' = [slot EXCEPT ![<<t, k>>] = y]
    BY <1>5 DEF Lock!TakeShard
  <2>2. w \in SlotTypes /\ w.real = x.real /\ w.counted = x.counted
    BY <2>1, TakenFields DEF SharedLockInv
  <2> HIDE DEF w, s
  <2>3. y.counted = w.counted \cup {s} /\ y.real = w.real \cup {s}
    BY <2>2 DEF SlotTypes
  <2>4. y.real = y.counted
    BY <2>2, <2>3 DEF WholeInv
  <2> HIDE DEF y
  <2> QED BY <2>1, <2>4, <1>2
<1>6. ASSUME NEW t \in Threads, NEW k \in Slots, Lock!TakeFile(t, k) PROVE WholeInv'
  <2>1. Lock!Acquiring(t, k) /\ slot' = [slot EXCEPT ![<<t, k>>] = Lock!Taken(t, k)]
    BY <1>6 DEF Lock!TakeFile
  <2>2. Lock!Taken(t, k).real = Lock!Taken(t, k).counted
    BY <2>1, TakenFields DEF SharedLockInv, WholeInv
  <2> QED BY <2>1, <2>2, <1>2
<1>7. ASSUME NEW t \in Threads, NEW k \in Slots, Lock!ReleaseShards(t, k) PROVE WholeInv'
  <2> DEFINE x == slot[<<t, k>>]
             y == [x EXCEPT !.status = "releasing", !.counted = {}, !.real = {}]
  <2>1. slot' = [slot EXCEPT ![<<t, k>>] = y]
    BY <1>7 DEF Lock!ReleaseShards
  <2>2. x \in SlotTypes
    BY <1>1
  <2> HIDE DEF x
  <2>3. y.real = {} /\ y.counted = {}
    BY <2>2 DEF SlotTypes
  <2> HIDE DEF y
  <2> QED BY <2>1, <2>3, <1>2
<1>8. ASSUME NEW t \in Threads, NEW k \in Slots, NEW order \in Lock!Requests, Lock!Begin(t, k, order)
      PROVE  WholeInv'
  <2> DEFINE y == [Lock!Free EXCEPT !.status = "acquiring",
                               !.projects = {order[i] : i \in 1..Len(order)},
                               !.todo = Lock!Plan(order)]
  <2>1. slot' = [slot EXCEPT ![<<t, k>>] = y]
    BY <1>8 DEF Lock!Begin
  <2>2. y.real = {} /\ y.counted = {}
    BY BegunOK
  <2> HIDE DEF y
  <2> QED BY <2>1, <2>2, <1>2
<1>9. ASSUME NEW t \in Threads, NEW k \in Slots,
             \/ Lock!ReleaseFiles(t, k) \/ Lock!TimeOut(t, k) \/ Lock!CannotOpen(t, k) \/ Lock!Panic(t, k)
      PROVE  WholeInv'
  <2>1. slot' = [slot EXCEPT ![<<t, k>>] = Lock!Free]
    BY <1>9 DEF Lock!ReleaseFiles, Lock!TimeOut, Lock!CannotOpen, Lock!Panic
  <2> QED BY <2>1, <1>2, <1>3
<1>10. ASSUME NEW t \in Threads, Lock!Exit(t) PROVE WholeInv'
  <2>1. slot' = [x \in Threads \X Slots |-> IF x[1] = t THEN Lock!Free ELSE slot[x]]
    BY <1>1, <1>10 DEF Lock!Exit
  <2> QED BY <2>1, <1>3 DEF WholeInv
<1>11. ASSUME slot' = slot PROVE WholeInv'
  BY <1>11 DEF WholeInv
<1>12. CASE \E w \in OldWriters, p \in Projects : Lock!OldTake(w, p) \/ Lock!OldDrop(w, p)
  BY <1>11, <1>12 DEF Lock!OldTake, Lock!OldDrop
<1>13. CASE UNCHANGED Lock!vars
  BY <1>11, <1>13 DEF Lock!vars
<1>14. CASE \E t \in Threads, k \in Slots :
          \/ \E order \in Lock!Requests : Lock!Begin(t, k, order)
          \/ Lock!TakeShardAgain(t, k) \/ Lock!TakeShard(t, k) \/ Lock!TakeFile(t, k)
          \/ Lock!ReleaseShards(t, k) \/ Lock!ReleaseFiles(t, k)
          \/ Lock!TimeOut(t, k) \/ Lock!CannotOpen(t, k) \/ Lock!Panic(t, k)
  BY <1>14, <1>4, <1>5, <1>6, <1>7, <1>8, <1>9
<1>15. CASE \E t \in Threads : Lock!Exit(t)
  BY <1>15, <1>10
<1> QED BY <1>12, <1>13, <1>14, <1>15 DEF Lock!Next

LEMMA ExclusiveFollows ==
  ASSUME Lock!LockAssumption, SharedLockInv, WholeInv
  PROVE  Lock!ShardIsExclusive
<1> SUFFICES ASSUME NEW t \in Threads, NEW u \in Threads, NEW s \in Lock!Shards, t # u,
                    ProcessOf[t] = ProcessOf[u], refs[<<t, s>>] > 0, refs[<<u, s>>] > 0
             PROVE  FALSE
  BY DEF Lock!ShardIsExclusive
<1>1. ASSUME NEW v \in Threads, refs[<<v, s>>] > 0 PROVE mutex[<<ProcessOf[v], s>>] = v
  <2>1. refs[<<v, s>>] = Cardinality(CountedIn(v, s))
    BY DEF SharedLockInv, CountInv, CountedIn
  <2>2. CountedIn(v, s) # {}
    BY <1>1, <2>1, CountsFinite
  <2>3. PICK k \in Slots : s \in slot[<<v, k>>].counted
    BY <2>2 DEF CountedIn
  <2> QED BY <2>3 DEF WholeInv, SharedLockInv, MutexInv
<1> QED BY <1>1

\* A waiting thread waits for a holder that, if it waits too, waits for a resource
\* further on.
LEMMA WaitRises ==
  ASSUME Lock!LockAssumption,
         OneLockEach, SharedLockInv, NEW t \in Threads, NEW u \in Threads, NEW k \in Slots,
         Lock!WaitsFor(t, u), Lock!Acquiring(u, k)
  PROVE  Lock!Acquiring(t, k) /\ Below(Lock!NextResource(t, k), Lock!NextResource(u, k))
<1> DEFINE r == Lock!NextResource(t, k)
           q == Lock!NextResource(u, k)
           x == slot[<<u, k>>]
<1>1. /\ Lock!Acquiring(t, k)
      /\ \/ r.kind \in Lock!Files /\ file[<<r.kind, r.n>>] = u
         \/ r.kind = "shard" /\ mutex[<<ProcessOf[t], r.n>>] = u
  BY DEF Lock!WaitsFor, OneLockEach
<1>2. r \in Resources /\ Fits(r, slot[<<t, k>>].projects) /\ q \in In(x.todo)
  BY <1>1, HeadIsMissing
<1>3. r = Lock!Resource(r.kind, r.n)
  BY <1>2 DEF Resources, Lock!Resource
<1>4. SlotOK(x) /\ slot[<<t, k>>].projects \subseteq Projects
  BY DEF SharedLockInv, SlotsInv, SlotOK, SlotTypes
<1> HIDE DEF r, q
<1>5. CASE r.kind \in Lock!Files /\ file[<<r.kind, r.n>>] = u
  <2>1. <<r.kind, r.n>> \in Lock!Files \X Projects
    BY <1>5, <1>2, <1>4 DEF Fits, Lock!Files
  <2>2. \E j \in Slots : <<r.kind, r.n>> \in FilesIn(slot[<<u, j>>])
    BY <2>1, <1>5 DEF SharedLockInv, HolderInv
  <2>3. <<r.kind, r.n>> \in FilesIn(x)
    BY <2>2 DEF OneLockEach
  <2> QED BY <2>3, <1>1, <1>2, <1>3, <1>4 DEF SlotOK, r, q
<1>6. CASE r.kind = "shard" /\ mutex[<<ProcessOf[t], r.n>>] = u
  <2>1. r.n \in Lock!Shards /\ ProcessOf[t] \in Lock!Processes
    BY <1>6, <1>2, ThreadNotNobody DEF Fits, Lock!Files
  <2>2. \E j \in Slots : r.n \in slot[<<u, j>>].real
    BY <2>1, <1>6 DEF SharedLockInv, MutexInv
  <2>3. r.n \in x.counted
    BY <2>2, <1>4 DEF OneLockEach, SlotOK
  <2>4. Below(Lock!Resource("shard", r.n), q)
    BY <2>3, <1>2, <1>4 DEF SlotOK
  <2> QED BY <2>4, <1>1, <1>3, <1>6 DEF r, q
<1> QED BY <1>1, <1>5, <1>6 DEF r

\* Among threads that all wait for each other, one whose resource has the fewest
\* after it would wait for one with fewer still.
LEMMA NoCircleFollows ==
  ASSUME Lock!LockAssumption, OneLockEach, SharedLockInv
  PROVE  Lock!NoCircularWait
<1> SUFFICES ASSUME NEW stuck \in SUBSET Threads, stuck # {},
                    \A t \in stuck : \E u \in stuck : Lock!WaitsFor(t, u)
             PROVE  FALSE
  BY DEF Lock!NoCircularWait
<1>1. PICK k \in Slots : \A t \in stuck : Lock!Acquiring(t, k)
  BY DEF Lock!WaitsFor, OneLockEach
<1> DEFINE Above(t) == {u \in stuck : Below(Lock!NextResource(t, k), Lock!NextResource(u, k))}
           sizes == {Cardinality(Above(t)) : t \in stuck}
<1>2. IsFiniteSet(stuck)
  BY SameFinite, FS_Subset DEF Lock!LockAssumption
<1>3. \A t \in stuck : /\ IsFiniteSet(Above(t)) /\ Cardinality(Above(t)) \in Nat
                       /\ Lock!NextResource(t, k) \in Resources
  <2> TAKE t \in stuck
  <2>1. Above(t) \in SUBSET stuck
    OBVIOUS
  <2>2. IsFiniteSet(Above(t))
    BY <1>2, <2>1, FS_Subset
  <2>3. Lock!NextResource(t, k) \in Resources
    BY <1>1, HeadIsMissing
  <2> QED BY <2>2, <2>3, FS_CardinalityType
<1>4. sizes \subseteq Nat /\ sizes # {}
  BY <1>3
<1>5. PICK m \in sizes : \A n \in sizes : ~(<<n, m>> \in OpToRel(<, Nat))
  <2> HIDE DEF sizes
  <2> QED BY <1>4, WFMin, NatLessThanWellFounded, Zenon
<1>6. \A n \in sizes : ~(n < m)
  <2> HIDE DEF sizes
  <2> QED BY <1>4, <1>5 DEF OpToRel
<1>7. PICK t \in stuck : m = Cardinality(Above(t))
  OBVIOUS
<1>8. PICK u \in stuck : Lock!WaitsFor(t, u)
  OBVIOUS
<1>9. Below(Lock!NextResource(t, k), Lock!NextResource(u, k))
  BY <1>1, <1>8, WaitRises
<1>10. u \in Above(t) /\ u \notin Above(u)
  BY <1>3, <1>9, BelowOrder
<1>11. Above(u) \in SUBSET Above(t)
  BY <1>3, <1>9, BelowOrder
<1>12. Cardinality(Above(u)) < Cardinality(Above(t))
  <2>1. Cardinality(Above(u)) <= Cardinality(Above(t))
        /\ (Cardinality(Above(t)) = Cardinality(Above(u)) => Above(t) = Above(u))
    <3> HIDE DEF Above
    <3> QED BY <1>3, <1>11, FS_Subset
  <2>2. Above(t) # Above(u)
    BY <1>10
  <2> HIDE DEF Above
  <2> QED BY <2>1, <2>2, <1>3
<1> QED BY <1>6, <1>7, <1>12

\* As long as no thread takes a second lock while it has one, one thread of a
\* process at a time counts itself the owner of a shard, and there is no circle of
\* threads that wait for each other, pairs in opposite directions included: the
\* guarantees that ShardGuard and the module comment promise.  With two locks for
\* each thread TLC finds both violated.
THEOREM OneLockIsEnough ==
  ASSUME Lock!LockAssumption, OneLockEach
  PROVE  Lock!Spec => [](Lock!ShardIsExclusive /\ Lock!NoCircularWait)
<1>1. Lock!Init => SharedLockInv /\ WholeInv
  <2>1. Lock!Init => WholeInv
    BY FreeOK DEF Lock!Init, WholeInv
  <2> QED BY <2>1, LockInitially
<1>2. SharedLockInv /\ WholeInv /\ [Lock!Next]_(Lock!vars) => SharedLockInv' /\ WholeInv'
  BY LockSteps, WholeSteps
<1>3. SharedLockInv /\ WholeInv => Lock!ShardIsExclusive /\ Lock!NoCircularWait
  BY ExclusiveFollows, NoCircleFollows
<1> QED BY <1>1, <1>2, <1>3, PTL DEF Lock!Spec

-----------------------------------------------------------------------------
(* The move from keyutils to Secret Service, for any names, values and       *)
(* clients and any number of faults.  The stores take turns: keyutils shows  *)
(* all that was stored until the config marker exists, Secret Service from   *)
(* then on (ContentInv), because the marker is published only after every    *)
(* value and the index were found equal (CopyingInv), and the records appear *)
(* in one order (RecordInv).                                                 *)

CONSTANTS Names, Values, Clients, Reboots, MaxFaults

VARIABLES ku, ss, config, data, opened, migration, latest, moveFaults

Move == INSTANCE LinuxMigration WITH faults <- moveFaults

StoreTypes == [value : [Names -> Values \cup {Move!Nothing}], index : SUBSET Names,
               indexed : BOOLEAN, sentinel : BOOLEAN]

MigrationPhases == {"idle", "reviewed", "copy", "config", "durable sentinel", "sentinel",
                   "data", "resume config"}

MigrationTypes == [at : MigrationPhases, expected : SUBSET Names, left : SUBSET Names]

StoreShape ==
    /\ ku \in StoreTypes /\ ss \in StoreTypes
    /\ config \in BOOLEAN /\ data \in BOOLEAN
    /\ opened \in [Clients -> {"closed", "ku", "ss"}]
    /\ migration \in MigrationTypes /\ migration.left \subseteq migration.expected
    /\ latest \in [Names -> Values \cup {Move!Nothing}]
    /\ moveFaults \in 0..MaxFaults

\* The order in which the records appear.
RecordInv ==
    /\ data = TRUE => ss.sentinel = TRUE
    /\ ss.sentinel = TRUE => config = TRUE
    /\ ku.sentinel = TRUE => config = TRUE
    /\ migration.at = "durable sentinel" => config = TRUE
    /\ migration.at \in {"sentinel", "data", "resume config"} => ss.sentinel = TRUE

\* Keyutils is complete until the config marker exists, Secret Service from then on.
ContentInv ==
    /\ config = FALSE => Move!Shows(ku)
    /\ config = TRUE => ss.indexed = TRUE /\ Move!Shows(ss)

\* How far the copy is.
CopyingInv ==
    /\ migration.at \in {"copy", "config"} => ku.index = migration.expected
    /\ migration.at = "copy" =>
          \A n \in migration.expected \ migration.left : ss.value[n] = ku.value[n]
    /\ migration.at = "config" =>
          /\ ss.indexed = TRUE /\ ss.index = migration.expected
          /\ \A n \in migration.expected : ss.value[n] = ku.value[n]

MigrationInv == StoreShape /\ RecordInv /\ ContentInv /\ CopyingInv

\* What the records decide, given the order in which they appear.
LEMMA DecisionIs ==
  ASSUME StoreShape, RecordInv
  PROVE  /\ Move!Decision = "ku" <=> config = FALSE
         /\ Move!Decision = "ss" <=> config = TRUE /\ data = TRUE
         /\ Move!Decision = "denied" <=> config = TRUE /\ data = FALSE
<1>1. /\ config = TRUE \/ config = FALSE
      /\ data = TRUE \/ data = FALSE
      /\ ss.sentinel = TRUE \/ ss.sentinel = FALSE
      /\ ku.sentinel = TRUE \/ ku.sentinel = FALSE
  BY DEF StoreShape, StoreTypes
<1> QED BY <1>1 DEF Move!Decision, RecordInv

\* A call leaves a store and its sentinel as they should be.
LEMMA PutTypes ==
  ASSUME NEW S \in StoreTypes, NEW n \in Names, NEW v \in Values \cup {Move!Nothing}
  PROVE  /\ Move!Put(S, n, v) \in StoreTypes
         /\ Move!Put(S, n, v).indexed = TRUE
         /\ Move!Put(S, n, v).sentinel = S.sentinel
BY DEF Move!Put, StoreTypes

\* Steps that leave the stores and the records as they are.
LEMMA RecordsKeptStep ==
  ASSUME MigrationInv, UNCHANGED <<ku, ss, config, data, latest>>, StoreShape',
         migration' = migration \/ migration'.at \in {"idle", "reviewed"}
  PROVE  MigrationInv'
<1>1. RecordInv' /\ ContentInv'
  BY DEF MigrationInv, RecordInv, ContentInv, Move!Shows
<1>2. CopyingInv'
  BY DEF MigrationInv, CopyingInv
<1> QED BY <1>1, <1>2 DEF MigrationInv

\* The migration that has stopped.
LEMMA NoMigrationTypes ==
  /\ Move!NoMigration \in MigrationTypes /\ Move!NoMigration.at = "idle"
  /\ Move!NoMigration.left = {} /\ Move!NoMigration.expected = {}
BY DEF Move!NoMigration, MigrationTypes, MigrationPhases

\* Going on to the next phase changes nothing else of the migration.
LEMMA PhaseTypes ==
  ASSUME MigrationInv, NEW step \in MigrationPhases, Move!At(step)
  PROVE  /\ migration' \in MigrationTypes /\ migration'.at = step
         /\ migration'.left = migration.left /\ migration'.expected = migration.expected
BY DEF Move!At, MigrationInv, StoreShape, MigrationTypes

\* Clients opening and closing the vault.
LEMMA OpenCloseStep ==
  ASSUME MigrationInv, NEW c \in Clients, Move!Open(c) \/ Move!Close(c)
  PROVE  MigrationInv'
<1>1. UNCHANGED <<ku, ss, config, data, migration, latest, moveFaults>>
  BY DEF Move!Open, Move!Close
<1>2. \E s \in {"closed", "ku", "ss"} : opened' = [opened EXCEPT ![c] = s]
  <2>1. Move!Decision \in {"ku", "ss", "denied"}
    BY DEF Move!Decision
  <2> QED BY <2>1 DEF Move!Open, Move!Close
<1>3. StoreShape'
  BY <1>1, <1>2 DEF MigrationInv, StoreShape
<1> QED BY <1>1, <1>3, RecordsKeptStep

\* A call goes to the store that is complete and leaves it so.
LEMMA VaultCallStep ==
  ASSUME MigrationInv, NEW c \in Clients, NEW n \in Names, NEW v \in Values \cup {Move!Nothing},
         Move!Call(c, n, v)
  PROVE  MigrationInv'
<1>1. /\ Move!LockFree /\ opened[c] # "closed" /\ Move!Decision = opened[c]
      /\ latest' = [latest EXCEPT ![n] = v]
      /\ UNCHANGED <<config, data, opened, migration, moveFaults>>
  BY DEF Move!Call
<1>2. /\ StoreShape /\ RecordInv /\ ContentInv /\ CopyingInv
      /\ ku \in StoreTypes /\ ss \in StoreTypes /\ latest \in [Names -> Values \cup {Move!Nothing}]
  BY DEF MigrationInv, StoreShape
<1>3. CASE opened[c] = "ku"
  <2>1. ku' = Move!Put(ku, n, v) /\ ss' = ss /\ config = FALSE
    BY <1>1, <1>2, <1>3, DecisionIs DEF Move!Call
  <2>2. ku' \in StoreTypes /\ ku'.sentinel = ku.sentinel
    BY <2>1, <1>2, PutTypes
  <2>3. /\ ku'.index = {m \in Names : latest'[m] # Move!Nothing}
        /\ \A m \in ku'.index : ku'.value[m] = latest'[m]
    <3>1. /\ ku'.value = [ku.value EXCEPT ![n] = v]
          /\ ku'.index = IF v = Move!Nothing THEN ku.index \ {n} ELSE ku.index \cup {n}
      BY <2>1, <1>2 DEF Move!Put, StoreTypes
    <3>2. ku.value \in [Names -> Values \cup {Move!Nothing}] /\ ku.index \subseteq Names
      BY <1>2 DEF StoreTypes
    <3>3. Move!Shows(ku)
      BY <1>2, <2>1 DEF ContentInv
    <3> QED BY <3>1, <3>2, <3>3, <1>1, <1>2 DEF Move!Shows
  <2>4. StoreShape'
    BY <1>1, <1>2, <2>1, <2>2 DEF StoreShape
  <2>5. RecordInv'
    BY <1>1, <1>2, <2>1, <2>2 DEF RecordInv
  <2>6. ContentInv'
    BY <1>1, <2>1, <2>3 DEF ContentInv, Move!Shows
  <2>7. CopyingInv'
    BY <1>1 DEF CopyingInv, Move!LockFree
  <2> QED BY <2>4, <2>5, <2>6, <2>7 DEF MigrationInv
<1>4. CASE opened[c] # "ku"
  <2>1. ss' = Move!Put(ss, n, v) /\ ku' = ku /\ config = TRUE
    <3>1. opened[c] = "ss"
      BY <1>1, <1>2, <1>4 DEF StoreShape
    <3> QED BY <3>1, <1>1, <1>2, DecisionIs DEF Move!Call
  <2>2. ss' \in StoreTypes /\ ss'.sentinel = ss.sentinel /\ ss'.indexed = TRUE
    BY <2>1, <1>2, PutTypes
  <2>3. /\ ss'.index = {m \in Names : latest'[m] # Move!Nothing}
        /\ \A m \in ss'.index : ss'.value[m] = latest'[m]
    <3>1. /\ ss'.value = [ss.value EXCEPT ![n] = v]
          /\ ss'.index = IF v = Move!Nothing THEN ss.index \ {n} ELSE ss.index \cup {n}
      BY <2>1, <1>2 DEF Move!Put, StoreTypes
    <3>2. ss.value \in [Names -> Values \cup {Move!Nothing}] /\ ss.index \subseteq Names
      BY <1>2 DEF StoreTypes
    <3>3. Move!Shows(ss)
      BY <1>2, <2>1 DEF ContentInv
    <3> QED BY <3>1, <3>2, <3>3, <1>1, <1>2 DEF Move!Shows
  <2>4. StoreShape'
    BY <1>1, <1>2, <2>1, <2>2 DEF StoreShape
  <2>5. RecordInv'
    BY <1>1, <1>2, <2>1, <2>2 DEF RecordInv
  <2>6. ContentInv'
    BY <1>1, <2>1, <2>2, <2>3 DEF ContentInv, Move!Shows
  <2>7. CopyingInv'
    BY <1>1 DEF CopyingInv, Move!LockFree
  <2> QED BY <2>4, <2>5, <2>6, <2>7 DEF MigrationInv
<1> QED BY <1>3, <1>4

\* The review only notes the index.
LEMMA PreviewMoveStep == ASSUME MigrationInv, Move!Preview PROVE MigrationInv'
<1> DEFINE e == IF Move!Decision = "ss" \/ ss.sentinel THEN ss.index ELSE ku.index
<1>1. /\ migration' = [Move!NoMigration EXCEPT !.at = "reviewed", !.expected = e]
      /\ UNCHANGED <<ku, ss, config, data, opened, latest, moveFaults>>
  BY DEF Move!Preview
<1>2. e \subseteq Names
  BY DEF MigrationInv, StoreShape, StoreTypes
<1> HIDE DEF e
<1>3. migration' \in MigrationTypes /\ migration'.at = "reviewed" /\ migration'.left = {}
  BY <1>1, <1>2 DEF Move!NoMigration, MigrationTypes, MigrationPhases
<1>4. StoreShape'
  BY <1>1, <1>3 DEF MigrationInv, StoreShape
<1> QED BY <1>1, <1>3, <1>4, RecordsKeptStep

\* The migration may stop anywhere.
LEMMA StopMoveStep ==
  ASSUME MigrationInv, Move!Stop, UNCHANGED <<ku, ss, config, data, opened, latest>>, moveFaults' \in 0..MaxFaults
  PROVE  MigrationInv'
<1>1. migration' \in MigrationTypes /\ migration'.at = "idle" /\ migration'.left = {}
  BY NoMigrationTypes DEF Move!Stop
<1>2. StoreShape'
  BY <1>1 DEF MigrationInv, StoreShape
<1> QED BY <1>1, <1>2, RecordsKeptStep

\* The first checks of the migration.
LEMMA MigrateBeginStep == ASSUME MigrationInv, Move!Begin PROVE MigrationInv'
<1>1. UNCHANGED <<ku, ss, config, data, opened, latest, moveFaults>>
  BY DEF Move!Begin
<1>2. StoreShape /\ RecordInv /\ ContentInv /\ CopyingInv
  BY DEF MigrationInv
<1>3. CASE Move!Stop
  BY <1>1, <1>2, <1>3, StopMoveStep DEF StoreShape
<1>4. CASE Move!At("resume config") /\ ss.sentinel
  <2>1. /\ migration' \in MigrationTypes /\ migration'.at = "resume config"
        /\ migration'.left = migration.left /\ migration'.expected = migration.expected
    BY <1>4, PhaseTypes DEF MigrationPhases
  <2>2. ss.sentinel = TRUE
    BY <1>2, <1>4 DEF StoreShape, StoreTypes
  <2>3. StoreShape'
    BY <1>1, <1>2, <2>1 DEF StoreShape
  <2>4. RecordInv' /\ CopyingInv'
    BY <1>1, <1>2, <2>1, <2>2 DEF RecordInv, CopyingInv
  <2>5. ContentInv'
    BY <1>1, <1>2 DEF ContentInv, Move!Shows
  <2> QED BY <2>3, <2>4, <2>5 DEF MigrationInv
<1>5. CASE ku.index = migration.expected
           /\ migration' = [migration EXCEPT !.at = "copy", !.left = ku.index]
  <2>1. migration \in MigrationTypes /\ ku.index \subseteq Names
    BY <1>2 DEF StoreShape, StoreTypes
  <2>2. /\ migration' \in MigrationTypes /\ migration'.at = "copy"
        /\ migration'.left = ku.index /\ migration'.expected = migration.expected
    BY <1>5, <2>1 DEF MigrationTypes, MigrationPhases
  <2>3. StoreShape'
    BY <1>1, <1>2, <1>5, <2>2 DEF StoreShape
  <2>4. RecordInv' /\ CopyingInv'
    BY <1>1, <1>2, <1>5, <2>2 DEF RecordInv, CopyingInv
  <2>5. ContentInv'
    BY <1>1, <1>2 DEF ContentInv, Move!Shows
  <2> QED BY <2>3, <2>4, <2>5 DEF MigrationInv
<1> QED BY <1>3, <1>4, <1>5 DEF Move!Begin

\* A value is copied over nothing or over the same value.
LEMMA CopyValueStep == ASSUME MigrationInv, NEW n \in Names, Move!Copy(n) PROVE MigrationInv'
<1>1. migration.at = "copy" /\ n \in migration.left /\ UNCHANGED <<ku, config, data, opened, latest, moveFaults>>
  BY DEF Move!Copy
<1>2. StoreShape /\ RecordInv /\ ContentInv /\ CopyingInv
  BY DEF MigrationInv
<1>3. CASE UNCHANGED ss /\ Move!Stop
  BY <1>1, <1>2, <1>3, StopMoveStep DEF StoreShape
<1>4. CASE /\ ku.value[n] # Move!Nothing /\ ss.value[n] \in {Move!Nothing, ku.value[n]}
           /\ ss' = [ss EXCEPT !.value[n] = ku.value[n]]
           /\ migration' = [migration EXCEPT !.left = migration.left \ {n}]
  <2>1. /\ ku \in StoreTypes /\ ss \in StoreTypes /\ migration \in MigrationTypes
        /\ ku.value[n] \in Values \cup {Move!Nothing}
    BY <1>2 DEF StoreShape, StoreTypes
  <2>2. /\ ss' \in StoreTypes /\ ss'.index = ss.index /\ ss'.indexed = ss.indexed
        /\ ss'.sentinel = ss.sentinel
        /\ \A m \in Names : ss'.value[m] = IF m = n THEN ku.value[n] ELSE ss.value[m]
    BY <1>4, <2>1 DEF StoreTypes
  <2>3. /\ migration' \in MigrationTypes /\ migration'.at = "copy"
        /\ migration'.left = migration.left \ {n} /\ migration'.expected = migration.expected
    BY <1>1, <1>4, <2>1 DEF MigrationTypes
  <2>4. StoreShape'
    BY <1>1, <1>2, <2>2, <2>3 DEF StoreShape
  <2>5. RecordInv'
    BY <1>1, <1>2, <2>2, <2>3 DEF RecordInv
  <2>6. ContentInv'
    <3>1. config = FALSE => Move!Shows(ku)'
      BY <1>1, <1>2 DEF ContentInv, Move!Shows
    <3>2. ASSUME config = TRUE PROVE ss'.indexed = TRUE /\ Move!Shows(ss)'
      <4>1. ss.indexed = TRUE /\ Move!Shows(ss) /\ ss.index \subseteq Names
        BY <1>2, <2>1, <3>2 DEF ContentInv, StoreTypes
      <4>2. \A m \in ss.index : ss'.value[m] = ss.value[m]
        BY <4>1, <2>2, <1>4 DEF Move!Shows
      <4> QED BY <4>1, <4>2, <2>2, <1>1 DEF Move!Shows
    <3> QED BY <3>1, <3>2, <1>1 DEF ContentInv
  <2>7. CopyingInv'
    <3>1. migration.expected \subseteq Names
      BY <2>1 DEF MigrationTypes
    <3> QED BY <3>1, <1>1, <1>2, <2>2, <2>3 DEF CopyingInv
  <2> QED BY <2>4, <2>5, <2>6, <2>7 DEF MigrationInv
<1> QED BY <1>3, <1>4 DEF Move!Copy

\* The index is copied over nothing or over the same index.
LEMMA CopyIndexStep == ASSUME MigrationInv, Move!CopyIndex PROVE MigrationInv'
<1>1. migration.at = "copy" /\ migration.left = {} /\ UNCHANGED <<ku, config, data, opened, latest, moveFaults>>
  BY DEF Move!CopyIndex
<1>2. StoreShape /\ RecordInv /\ ContentInv /\ CopyingInv
  BY DEF MigrationInv
<1>3. CASE UNCHANGED ss /\ Move!Stop
  BY <1>1, <1>2, <1>3, StopMoveStep DEF StoreShape
<1>4. CASE /\ ~(ss.indexed /\ ss.index # migration.expected)
           /\ ss' = [ss EXCEPT !.indexed = TRUE, !.index = migration.expected]
           /\ Move!At("config")
  <2>1. ss \in StoreTypes /\ migration \in MigrationTypes /\ migration.expected \in SUBSET Names
    BY <1>2 DEF StoreShape, MigrationTypes
  <2>2. /\ ss' \in StoreTypes /\ ss'.index = migration.expected /\ ss'.indexed = TRUE
        /\ ss'.sentinel = ss.sentinel /\ ss'.value = ss.value
    BY <1>4, <2>1 DEF StoreTypes
  <2>3. /\ migration' \in MigrationTypes /\ migration'.at = "config"
        /\ migration'.left = migration.left /\ migration'.expected = migration.expected
    BY <1>4, PhaseTypes DEF MigrationPhases
  <2>4. StoreShape'
    BY <1>1, <1>2, <2>2, <2>3 DEF StoreShape
  <2>5. RecordInv'
    BY <1>1, <1>2, <2>2, <2>3 DEF RecordInv
  <2>6. ContentInv'
    <3>1. config = FALSE => Move!Shows(ku)'
      BY <1>1, <1>2 DEF ContentInv, Move!Shows
    <3>2. ASSUME config = TRUE PROVE Move!Shows(ss)'
      <4>1. ss.indexed = TRUE /\ Move!Shows(ss)
        BY <1>2, <3>2 DEF ContentInv
      <4>2. ss'.index = ss.index
        BY <4>1, <2>2, <1>4
      <4> QED BY <4>1, <4>2, <2>2, <1>1 DEF Move!Shows
    <3> QED BY <3>1, <3>2, <1>1, <2>2 DEF ContentInv
  <2>7. CopyingInv'
    BY <1>1, <1>2, <2>2, <2>3 DEF CopyingInv
  <2> QED BY <2>4, <2>5, <2>6, <2>7 DEF MigrationInv
<1> QED BY <1>3, <1>4 DEF Move!CopyIndex

\* When the config marker is published both stores show the same.
LEMMA PublishConfigStep == ASSUME MigrationInv, Move!PublishConfig PROVE MigrationInv'
<1>1. /\ migration.at = "config" /\ config' = TRUE /\ Move!At("durable sentinel")
      /\ UNCHANGED <<ku, ss, data, opened, latest, moveFaults>>
  BY DEF Move!PublishConfig
<1>2. StoreShape /\ RecordInv /\ ContentInv /\ CopyingInv
  BY DEF MigrationInv
<1>3. /\ migration' \in MigrationTypes /\ migration'.at = "durable sentinel"
      /\ migration'.left = migration.left /\ migration'.expected = migration.expected
  BY <1>1, PhaseTypes DEF MigrationPhases
<1>4. StoreShape'
  BY <1>1, <1>2, <1>3 DEF StoreShape
<1>5. RecordInv'
  BY <1>1, <1>2, <1>3 DEF RecordInv
<1>6. ContentInv'
  <2>1. CASE config = TRUE
    BY <2>1, <1>1, <1>2 DEF ContentInv, Move!Shows
  <2>2. CASE config = FALSE
    <3>1. /\ Move!Shows(ku) /\ ss.indexed = TRUE /\ ss.index = ku.index
          /\ \A n \in ku.index : ss.value[n] = ku.value[n]
      BY <2>2, <1>1, <1>2 DEF ContentInv, CopyingInv
    <3>2. Move!Shows(ss)
      BY <3>1 DEF Move!Shows
    <3> QED BY <3>1, <3>2, <1>1 DEF ContentInv, Move!Shows
  <2> QED BY <2>1, <2>2, <1>2 DEF StoreShape
<1>7. CopyingInv'
  BY <1>3 DEF CopyingInv
<1> QED BY <1>4, <1>5, <1>6, <1>7 DEF MigrationInv

\* The sentinel of Secret Service comes after the config marker.
LEMMA DurableSentinelStep == ASSUME MigrationInv, Move!DurableSentinel PROVE MigrationInv'
<1>1. /\ migration.at = "durable sentinel" /\ ss' = [ss EXCEPT !.sentinel = TRUE] /\ Move!At("sentinel")
      /\ UNCHANGED <<ku, config, data, opened, latest, moveFaults>>
  BY DEF Move!DurableSentinel
<1>2. StoreShape /\ RecordInv /\ ContentInv /\ CopyingInv
  BY DEF MigrationInv
<1>3. /\ migration' \in MigrationTypes /\ migration'.at = "sentinel"
      /\ migration'.left = migration.left /\ migration'.expected = migration.expected
  BY <1>1, PhaseTypes DEF MigrationPhases
<1>4. /\ ss' \in StoreTypes /\ ss'.sentinel = TRUE /\ ss'.index = ss.index
      /\ ss'.indexed = ss.indexed /\ ss'.value = ss.value
  BY <1>1, <1>2 DEF StoreShape, StoreTypes
<1>5. StoreShape'
  BY <1>1, <1>2, <1>3, <1>4 DEF StoreShape
<1>6. RecordInv'
  BY <1>1, <1>2, <1>3, <1>4 DEF RecordInv
<1>7. ContentInv'
  BY <1>1, <1>2, <1>4 DEF ContentInv, Move!Shows
<1>8. CopyingInv'
  BY <1>3 DEF CopyingInv
<1> QED BY <1>5, <1>6, <1>7, <1>8 DEF MigrationInv

\* The sentinel of keyutils comes after that of Secret Service.
LEMMA SentinelWriteStep == ASSUME MigrationInv, Move!Sentinel PROVE MigrationInv'
<1>1. /\ migration.at = "sentinel" /\ ku' = [ku EXCEPT !.sentinel = TRUE] /\ Move!At("data")
      /\ UNCHANGED <<ss, config, data, opened, latest, moveFaults>>
  BY DEF Move!Sentinel
<1>2. StoreShape /\ RecordInv /\ ContentInv /\ CopyingInv
  BY DEF MigrationInv
<1>3. /\ migration' \in MigrationTypes /\ migration'.at = "data"
      /\ migration'.left = migration.left /\ migration'.expected = migration.expected
  BY <1>1, PhaseTypes DEF MigrationPhases
<1>4. /\ ku' \in StoreTypes /\ ku'.sentinel = TRUE /\ ku'.index = ku.index
      /\ ku'.indexed = ku.indexed /\ ku'.value = ku.value
  BY <1>1, <1>2 DEF StoreShape, StoreTypes
<1>5. StoreShape'
  BY <1>1, <1>2, <1>3, <1>4 DEF StoreShape
<1>6. RecordInv'
  BY <1>1, <1>2, <1>3, <1>4 DEF RecordInv
<1>7. ContentInv'
  BY <1>1, <1>2, <1>4 DEF ContentInv, Move!Shows
<1>8. CopyingInv'
  BY <1>3 DEF CopyingInv
<1> QED BY <1>5, <1>6, <1>7, <1>8 DEF MigrationInv

\* A resumed migration finds the config marker in place.
LEMMA ResumeConfigStep == ASSUME MigrationInv, Move!ResumeConfig PROVE MigrationInv'
<1>1. /\ migration.at = "resume config" /\ config' = TRUE /\ Move!At("data")
      /\ UNCHANGED <<ku, ss, data, opened, latest, moveFaults>>
  BY DEF Move!ResumeConfig
<1>2. StoreShape /\ RecordInv /\ ContentInv /\ CopyingInv
  BY DEF MigrationInv
<1>3. /\ migration' \in MigrationTypes /\ migration'.at = "data"
      /\ migration'.left = migration.left /\ migration'.expected = migration.expected
  BY <1>1, PhaseTypes DEF MigrationPhases
<1>4. StoreShape'
  BY <1>1, <1>2, <1>3 DEF StoreShape
<1>5. RecordInv' /\ config = TRUE
  BY <1>1, <1>2, <1>3 DEF RecordInv
<1>6. ContentInv'
  BY <1>1, <1>2, <1>5 DEF ContentInv, Move!Shows
<1>7. CopyingInv'
  BY <1>3 DEF CopyingInv
<1> QED BY <1>4, <1>5, <1>6, <1>7 DEF MigrationInv

\* The last marker hands the vault to Secret Service.
LEMMA PublishDataStep == ASSUME MigrationInv, Move!PublishData PROVE MigrationInv'
<1>1. /\ migration.at = "data" /\ data' = TRUE /\ Move!Stop
      /\ UNCHANGED <<ku, ss, config, opened, latest, moveFaults>>
  BY DEF Move!PublishData
<1>2. StoreShape /\ RecordInv /\ ContentInv /\ CopyingInv
  BY DEF MigrationInv
<1>3. migration' \in MigrationTypes /\ migration'.at = "idle" /\ migration'.left = {}
  BY <1>1, NoMigrationTypes DEF Move!Stop
<1>4. StoreShape'
  BY <1>1, <1>2, <1>3 DEF StoreShape
<1>5. RecordInv' /\ CopyingInv'
  BY <1>1, <1>2, <1>3 DEF RecordInv, CopyingInv
<1>6. ContentInv'
  BY <1>1, <1>2 DEF ContentInv, Move!Shows
<1> QED BY <1>4, <1>5, <1>6 DEF MigrationInv

\* The store before anything was stored in it.
LEMMA EmptyTypes ==
  /\ Move!EmptyStore \in StoreTypes /\ Move!EmptyStore.sentinel = FALSE /\ Move!EmptyStore.index = {}
BY DEF Move!EmptyStore, StoreTypes

\* The bound on faults.
LEMMA FaultTypes ==
  ASSUME Move!MigrationAssumption, moveFaults \in 0..MaxFaults, moveFaults < MaxFaults, moveFaults' = moveFaults + 1
  PROVE  moveFaults' \in 0..MaxFaults
BY DEF Move!MigrationAssumption

\* A death of the migration is a stop.
LEMMA DieMoveStep == ASSUME Move!MigrationAssumption, MigrationInv, Move!Die PROVE MigrationInv'
<1>1. moveFaults' \in 0..MaxFaults
  BY FaultTypes DEF Move!Die, MigrationInv, StoreShape
<1> QED BY <1>1, StopMoveStep DEF Move!Die

\* A reboot empties keyutils: with what was stored when it was chosen, without loss otherwise.
LEMMA RebootMoveStep == ASSUME Move!MigrationAssumption, MigrationInv, Move!Reboot PROVE MigrationInv'
<1>1. /\ ku' = Move!EmptyStore /\ opened' = [c \in Clients |-> "closed"] /\ Move!Stop
      /\ latest' = IF Move!Decision = "ku" THEN [n \in Names |-> Move!Nothing] ELSE latest
      /\ UNCHANGED <<ss, config, data>>
  BY DEF Move!Reboot
<1>2. StoreShape /\ RecordInv /\ ContentInv /\ CopyingInv
  BY DEF MigrationInv
<1>3. migration' \in MigrationTypes /\ migration'.at = "idle" /\ migration'.left = {}
  BY <1>1, NoMigrationTypes DEF Move!Stop
<1>4. ku' \in StoreTypes /\ ku'.sentinel = FALSE /\ ku'.index = {}
  BY <1>1, EmptyTypes
<1>5. moveFaults' \in 0..MaxFaults
  BY <1>2, FaultTypes DEF Move!Reboot, StoreShape
<1>6. /\ config = FALSE => latest' = [n \in Names |-> Move!Nothing]
      /\ config = TRUE => latest' = latest
  BY <1>1, <1>2, DecisionIs
<1>7. latest' \in [Names -> Values \cup {Move!Nothing}]
  BY <1>1, <1>2 DEF StoreShape
<1>8. StoreShape'
  BY <1>1, <1>2, <1>3, <1>4, <1>5, <1>7 DEF StoreShape
<1>9. RecordInv' /\ CopyingInv'
  BY <1>1, <1>2, <1>3, <1>4 DEF RecordInv, CopyingInv
<1>10. ContentInv'
  BY <1>1, <1>2, <1>4, <1>6 DEF ContentInv, Move!Shows
<1> QED BY <1>8, <1>9, <1>10 DEF MigrationInv

\* The invariant holds at first.
LEMMA MigrationStarts == ASSUME Move!MigrationAssumption, Move!Init PROVE MigrationInv
<1>1. ku = Move!EmptyStore /\ ss = Move!EmptyStore /\ config = FALSE /\ data = FALSE /\ migration = Move!NoMigration
  BY DEF Move!Init
<1>2. StoreShape
  <2>1. moveFaults \in 0..MaxFaults
    BY DEF Move!Init, Move!MigrationAssumption
  <2>0. config \in BOOLEAN /\ data \in BOOLEAN
    BY <1>1
  <2>2. /\ latest \in [Names -> Values \cup {Move!Nothing}]
        /\ opened \in [Clients -> {"closed", "ku", "ss"}]
    BY DEF Move!Init
  <2>3. migration \in MigrationTypes /\ migration.left \subseteq migration.expected
    BY <1>1, NoMigrationTypes
  <2> QED BY <1>1, <2>0, <2>1, <2>2, <2>3, EmptyTypes DEF StoreShape
<1>3. RecordInv /\ CopyingInv
  BY <1>1, EmptyTypes, NoMigrationTypes DEF RecordInv, CopyingInv
<1>4. ContentInv
  BY <1>1, EmptyTypes DEF ContentInv, Move!Shows, Move!Init
<1> QED BY <1>2, <1>3, <1>4 DEF MigrationInv

\* Every step keeps the invariant.
LEMMA MigrationKeeps == ASSUME Move!MigrationAssumption, MigrationInv, [Move!Next]_(Move!vars) PROVE MigrationInv'
<1>1. CASE UNCHANGED Move!vars
  <2>1. StoreShape'
    BY <1>1 DEF Move!vars, MigrationInv, StoreShape
  <2> QED BY <1>1, <2>1, RecordsKeptStep DEF Move!vars
<1>2. CASE Move!Next
  BY <1>2, OpenCloseStep, VaultCallStep, PreviewMoveStep, MigrateBeginStep, CopyValueStep, CopyIndexStep,
     PublishConfigStep, DurableSentinelStep, SentinelWriteStep, ResumeConfigStep, PublishDataStep,
     DieMoveStep, RebootMoveStep DEF Move!Next
<1> QED BY <1>1, <1>2

\* linux_backend_decision never chooses a store that lacks an acknowledged value
\* or shows an older one, wherever migrate_linux_to_secret_service died, however
\* often it was run again and whatever clients stored in between.
THEOREM MigrationIsSafe ==
  ASSUME Move!MigrationAssumption PROVE Move!Spec => [](Move!TypeOK /\ Move!ChosenStoreIsComplete)
<1>1. Move!Init => MigrationInv
  BY MigrationStarts
<1>2. MigrationInv /\ [Move!Next]_(Move!vars) => MigrationInv'
  BY MigrationKeeps
<1>3. MigrationInv => Move!TypeOK /\ Move!ChosenStoreIsComplete
  <2> SUFFICES ASSUME MigrationInv PROVE Move!TypeOK /\ Move!ChosenStoreIsComplete
    OBVIOUS
  <2>1. Move!TypeOK
    BY DEF MigrationInv, StoreShape, StoreTypes, MigrationTypes, MigrationPhases, Move!TypeOK, Move!IsStore
  <2>2. Move!ChosenStoreIsComplete
    BY DecisionIs DEF MigrationInv, ContentInv, Move!ChosenStoreIsComplete
  <2> QED BY <2>1, <2>2
<1> QED BY <1>1, <1>2, <1>3, PTL DEF Move!Spec

\* The decision as a table of the two markers.
MoveTable ==
    /\ config \in BOOLEAN
    /\ Move!Decision = "ku" <=> config = FALSE
    /\ Move!Decision = "ss" <=> config = TRUE /\ data = TRUE

\* From the config marker on no step, a reboot included, makes the decision fall
\* back to keyutils, and a decision for Secret Service is never taken back.
THEOREM TheMoveIsFinal ==
  ASSUME Move!MigrationAssumption PROVE Move!Spec => [][Move!NeverBackToKeyutils]_(Move!vars)
<1>1. Move!Init => MigrationInv
  BY MigrationStarts
<1>2. MigrationInv /\ [Move!Next]_(Move!vars) => MigrationInv'
  BY MigrationKeeps
<1>3. MigrationInv => MoveTable
  BY DecisionIs DEF MigrationInv, StoreShape, MoveTable
<1>4. MoveTable /\ MoveTable' /\ [Move!Next]_(Move!vars) => [Move!NeverBackToKeyutils]_(Move!vars)
  <2> SUFFICES ASSUME MoveTable, MoveTable', Move!Next PROVE Move!NeverBackToKeyutils
    OBVIOUS
  <2>1. config = TRUE => config' = TRUE
    BY DEF Move!Next, Move!Open, Move!Close, Move!Call, Move!Preview, Move!Begin, Move!Copy, Move!CopyIndex, Move!PublishConfig,
       Move!DurableSentinel, Move!Sentinel, Move!ResumeConfig, Move!PublishData, Move!Die, Move!Reboot
  <2>2. data = TRUE => data' = TRUE
    BY DEF Move!Next, Move!Open, Move!Close, Move!Call, Move!Preview, Move!Begin, Move!Copy, Move!CopyIndex, Move!PublishConfig,
       Move!DurableSentinel, Move!Sentinel, Move!ResumeConfig, Move!PublishData, Move!Die, Move!Reboot
  <2> QED BY <2>1, <2>2 DEF Move!NeverBackToKeyutils, MoveTable
<1> QED BY <1>1, <1>2, <1>3, <1>4, PTL DEF Move!Spec

\* Until the last marker exists nothing is stored elsewhere than in keyutils,
\* which keeps showing everything as long as no reboot empties it.
KeptInv == data = FALSE => Move!Shows(ku)

\* Every step but a reboot keeps keyutils complete until the last marker.
LEMMA KeptStep ==
  ASSUME MigrationInv, KeptInv, Reboots = FALSE, [Move!Next]_(Move!vars), MigrationInv' PROVE KeptInv'
<1>1. StoreShape /\ RecordInv /\ ContentInv /\ ku \in StoreTypes
  BY DEF MigrationInv, StoreShape
<1>2. CASE UNCHANGED <<ku, data, latest>>
  BY <1>2 DEF KeptInv, Move!Shows
<1>3. ASSUME NEW c \in Clients, NEW n \in Names, NEW v \in Values \cup {Move!Nothing}, Move!Call(c, n, v)
      PROVE  KeptInv'
  <2>1. data' = data /\ config' = config /\ Move!Decision = opened[c] /\ opened[c] # "closed"
    BY <1>3 DEF Move!Call
  <2>2. CASE opened[c] = "ku"
    BY <2>1, <2>2, <1>1, DecisionIs DEF KeptInv, MigrationInv, ContentInv
  <2>3. CASE opened[c] = "ss"
    BY <2>1, <2>3, <1>1, DecisionIs DEF KeptInv
  <2> QED BY <2>1, <2>2, <2>3, <1>1 DEF StoreShape
<1>4. CASE Move!Sentinel
  <2>1. ku'.index = ku.index /\ ku'.value = ku.value /\ UNCHANGED <<data, latest>>
    BY <1>1, <1>4 DEF Move!Sentinel, StoreTypes
  <2> QED BY <2>1 DEF KeptInv, Move!Shows
<1>5. CASE Move!PublishData
  BY <1>5 DEF Move!PublishData, KeptInv
<1>6. CASE \/ \E c \in Clients : Move!Open(c) \/ Move!Close(c)
           \/ Move!Preview \/ Move!Begin \/ Move!CopyIndex \/ Move!PublishConfig \/ Move!DurableSentinel \/ Move!ResumeConfig \/ Move!Die
           \/ \E n \in Names : Move!Copy(n)
  <2>1. UNCHANGED <<ku, data, latest>>
    BY <1>6 DEF Move!Open, Move!Close, Move!Preview, Move!Begin, Move!Copy, Move!CopyIndex, Move!PublishConfig, Move!DurableSentinel,
       Move!ResumeConfig, Move!Die
  <2> QED BY <2>1, <1>2
<1>7. ~Move!Reboot
  BY DEF Move!Reboot
<1>8. CASE UNCHANGED Move!vars
  BY <1>8, <1>2 DEF Move!vars
<1> QED BY <1>3, <1>4, <1>5, <1>6, <1>7, <1>8 DEF Move!Next

\* Unless the machine reboots, a denied vault is one whose migration can be run
\* again to the end, as the message of linux_backend_decision says.  With reboots
\* it is false, so the hypothesis is the exact limit of that promise.
THEOREM RerunFinishesWithoutReboots ==
  ASSUME Move!MigrationAssumption, Reboots = FALSE PROVE Move!Spec => []Move!RerunFinishes
<1> DEFINE I == MigrationInv /\ KeptInv
<1>1. Move!Init => I
  <2> SUFFICES ASSUME Move!Init PROVE I
    OBVIOUS
  <2>1. MigrationInv
    BY MigrationStarts
  <2>2. config = FALSE
    BY DEF Move!Init
  <2> QED BY <2>1, <2>2 DEF MigrationInv, ContentInv, KeptInv
<1>2. I /\ [Move!Next]_(Move!vars) => I'
  BY MigrationKeeps, KeptStep
<1>3. I => Move!RerunFinishes
  <2> SUFFICES ASSUME MigrationInv, KeptInv, Move!Decision = "denied" PROVE Move!WouldFinish
    BY DEF Move!RerunFinishes
  <2>1. config = TRUE /\ data = FALSE
    BY DecisionIs DEF MigrationInv
  <2>2. Move!Shows(ku) /\ Move!Shows(ss)
    BY <2>1 DEF MigrationInv, ContentInv, KeptInv
  <2>3. ss.index = ku.index /\ \A n \in ku.index : ku.value[n] # Move!Nothing /\ ss.value[n] = ku.value[n]
    BY <2>2 DEF Move!Shows
  <2> QED BY <2>3 DEF Move!WouldFinish
<1> HIDE DEF I
<1> QED BY <1>1, <1>2, <1>3, PTL DEF Move!Spec
===============================================================================
