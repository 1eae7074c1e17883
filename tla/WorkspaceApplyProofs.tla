------------------------ MODULE WorkspaceApplyProofs ------------------------
(***************************************************************************)
(* Proofs about WorkspaceApply, for every number of files and secrets.     *)
(*                                                                         *)
(* TypeCorrect and EditsReplacedFromSnapshot hold for any number of        *)
(* processes.  The rest of the safety is proved for one process at a time: *)
(* with two the code does not have it (run RecoveryRace; README, section   *)
(* 6).                                                                     *)
(***************************************************************************)
EXTENDS WorkspaceApply, TLAPS

-----------------------------------------------------------------------------
(* Types                                                                   *)

LEMMA TypeInit == Init => TypeOK
<1> SUFFICES ASSUME Init PROVE TypeOK
  OBVIOUS
<1>1. SharedType
  <2>1. env \in 0..MaxDisturbances
    BY ConstantsAssumption DEF Init
  <2>2. jphase \in JournalPhase \cup {"none"} /\ request \in RequestState
    BY DEF Init, RequestState
  <2>3. files \in [Files -> FileVal]
    BY DEF Init, FileVal
  <2>5. jshot \in [Files -> FileVal]
    BY DEF Init, OldShot, FileVal
  <2>4. vault \in [Secrets -> VaultVal] /\ jimage \in [Secrets -> VaultVal]
    BY DEF Init, OldImage, VaultVal
  <2> QED
    BY <2>1, <2>2, <2>3, <2>4, <2>5 DEF Init, SharedType
<1>2. LocalType
  <2>1. shot \in [Procs -> [Files -> FileVal]]
    BY DEF Init, OldShot, FileVal
  <2>2. image \in [Procs -> [Secrets -> VaultVal]]
    BY DEF Init, OldImage, VaultVal
  <2>3. pc \in [Procs -> Labels]
    BY DEF Init, Labels
  <2> QED
    BY <2>1, <2>2, <2>3 DEF Init, LocalType
<1>3. \A p \in Procs : LoopBounds(p)
  <2>1. \A p \in Procs : pc[p] = "idle"
    BY Zenon DEF Init
  <2> QED
    BY <2>1, Zenon DEF LoopBounds
<1> QED
  BY <1>1, <1>2, <1>3 DEF TypeOK

\* Labels of the loops over the files and over the vault entries.
Loops ==
  {"write", "commit", "undo", "undoVault", "recoverFiles", "recoverVault"}

LocalOK == LocalType /\ \A q \in Procs : LoopBounds(q)

\* A process that ends leaves a well-typed memory behind.
LEMMA ExitLocal ==
  ASSUME TypeOK, NEW p \in Procs, Exit(p)
  PROVE  /\ LocalOK'
         /\ wsLock' \in Procs \cup {NoProc} /\ projLock' \in Procs \cup {NoProc}
<1>1. LocalType'
  BY DEF TypeOK, LocalType, Labels, Exit, Goto, OldImage, OldShot, VaultVal, FileVal
<1>2. ASSUME NEW q \in Procs PROVE LoopBounds(q)'
  BY DEF TypeOK, LoopBounds, LocalType, Exit, Goto
<1> QED
  BY <1>1, <1>2 DEF LocalOK, TypeOK, SharedType, Exit, Release

\* So does a step that only moves a process to a place outside the loops.
LEMMA StayLocal ==
  ASSUME TypeOK, NEW p \in Procs, NEW l \in Labels \ Loops, Goto(p, l),
         UNCHANGED memory
  PROVE  LocalOK'
<1>1. LocalType'
  BY DEF TypeOK, LocalType, Goto, memory
<1>2. ASSUME NEW q \in Procs PROVE LoopBounds(q)'
  BY DEF TypeOK, LoopBounds, LocalType, Goto, memory, Loops
<1> QED
  BY <1>1, <1>2 DEF LocalOK

LEMMA RestoreFileType ==
  ASSUME TypeOK, NEW p \in Procs, NEW f \in Files, RestoreFile(p, f)
  PROVE  files' \in [Files -> FileVal] /\ env' \in 0..MaxDisturbances
<1>1. shot[p][f] \in FileVal /\ "after" \in FileVal
  BY DEF TypeOK, LocalType, FileVal
<1>2. files' \in [Files -> FileVal]
  BY <1>1 DEF TypeOK, SharedType, RestoreFile
<1>3. env' \in 0..MaxDisturbances
  BY ConstantsAssumption DEF TypeOK, SharedType, RestoreFile, Disturb
<1> QED
  BY <1>2, <1>3

LEMMA RestoreEntryType ==
  ASSUME TypeOK, NEW p \in Procs, k[p] \in 0..NSecrets, RestoreEntry(p)
  PROVE  vault' \in [Secrets -> VaultVal] /\ env' \in 0..MaxDisturbances
<1>1. k[p] \in Secrets
  BY DEF RestoreEntry, Secrets
<1>2. image[p][k[p]] \in VaultVal
  BY <1>1 DEF TypeOK, LocalType
<1>3. vault' \in [Secrets -> VaultVal]
  BY <1>1, <1>2 DEF TypeOK, SharedType, RestoreEntry
<1>4. env' \in 0..MaxDisturbances
  BY ConstantsAssumption DEF TypeOK, SharedType, RestoreEntry, Disturb
<1> QED
  BY <1>3, <1>4

LEMMA PersistFaultsType ==
  ASSUME TypeOK, NEW p \in Procs, NEW phase \in JournalPhase,
         PersistFaults(p, phase)
  PROVE  /\ jphase' \in JournalPhase \cup {"none"}
         /\ jimage' \in [Secrets -> VaultVal]
         /\ jshot' \in [Files -> FileVal]
         /\ env' \in 0..MaxDisturbances
BY ConstantsAssumption
   DEF TypeOK, SharedType, LocalType, PersistFaults, Persist, Disturb

LEMMA UndoVaultShared ==
  ASSUME TypeOK, NEW p \in Procs, UndoVault(p)
  PROVE  SharedType'
<1> USE DEF TypeOK
<1>0. k[p] \in 0..NSecrets
  BY DEF LoopBounds, UndoVault
<1>1. CASE RestoreEntry(p) /\ UNCHANGED <<jphase, jimage, jshot, pc, locks, mode>>
  BY <1>0, <1>1, RestoreEntryType DEF SharedType, UndoVault, locks
<1>2. CASE Abort(p) /\ UNCHANGED <<vault, k, failed>>
  <2>1. \/ UNCHANGED <<jphase, jimage, jshot, env>>
        \/ Persist(p, "RolledBack") /\ UNCHANGED env
        \/ PersistFaults(p, "RolledBack")
    BY <1>2 DEF UndoVault, RestoreEntry, Abort, ApplyFails, Goto, LocalType
  <2>2. /\ jphase' \in JournalPhase \cup {"none"}
        /\ jimage' \in [Secrets -> VaultVal]
        /\ jshot' \in [Files -> FileVal]
        /\ env' \in 0..MaxDisturbances
    BY <2>1, PersistFaultsType DEF SharedType, LocalType, Persist, JournalPhase
  <2> QED
    BY <1>2, <2>2 DEF SharedType, UndoVault, Abort, ApplyFails, Release
<1> QED
  BY <1>1, <1>2 DEF UndoVault

LEMMA UndoFilesShared ==
  ASSUME TypeOK, NEW p \in Procs, UndoFiles(p)
  PROVE  SharedType'
<1> USE ConstantsAssumption DEF TypeOK
<1>0. k[p] \in 0..NFiles
  BY DEF LoopBounds, UndoFiles
<1>1. files' \in [Files -> FileVal] /\ env' \in 0..MaxDisturbances
  BY <1>0, RestoreFileType DEF SharedType, UndoFiles, Disturb, Files
<1>2. dirs' \in SUBSET Files
  BY DEF SharedType, UndoFiles
<1> QED
  BY <1>1, <1>2 DEF SharedType, UndoFiles, locks

LEMMA CommitShared ==
  ASSUME TypeOK, NEW p \in Procs, Commit(p)
  PROVE  SharedType'
<1> USE ConstantsAssumption DEF TypeOK
<1>0. k[p] \in 1..(NSecrets + 1)
  BY DEF LoopBounds, Commit
<1>1. vault' \in [Secrets -> VaultVal]
  <2>1. k[p] <= NSecrets => k[p] \in Secrets /\ vault[k[p]] \in VaultVal
    BY <1>0 DEF Secrets, SharedType
  <2> QED
    BY <2>1 DEF SharedType, Commit, VaultVal
<1>2. env' \in 0..MaxDisturbances
  BY DEF SharedType, Commit, Disturb
<1> QED
  BY <1>1, <1>2 DEF SharedType, Commit, Release

LEMMA WriteFileShared ==
  ASSUME TypeOK, NEW p \in Procs, WriteFile(p)
  PROVE  SharedType'
<1> USE ConstantsAssumption DEF TypeOK
<1>0. k[p] \in Files
  BY DEF LoopBounds, WriteFile, Files
<1>1. files' \in [Files -> FileVal] /\ env' \in 0..MaxDisturbances
  BY <1>0 DEF SharedType, WriteFile, Disturb, FileVal
<1>2. dirs' \in SUBSET Files
  BY <1>0 DEF SharedType, WriteFile
<1> QED
  BY <1>1, <1>2 DEF SharedType, WriteFile, locks

LEMMA WriteFileSnapshot ==
  ASSUME TypeOK, NEW p \in Procs, WriteFile(p)
  PROVE  /\ shot' = shot
         /\ parents' \in [Procs -> SUBSET Files]
         /\ made' \in [Procs -> SUBSET Files]
<1> USE ConstantsAssumption DEF TypeOK
<1>0. k[p] \in Files
  BY DEF LoopBounds, WriteFile, Files
<1>1. parents' \in [Procs -> SUBSET Files]
  BY <1>0 DEF LocalType, WriteFile, snap
<1>2. made' \in [Procs -> SUBSET Files]
  BY <1>0 DEF LocalType, WriteFile, snap
<1>3. shot' = shot
  BY DEF WriteFile, snap
<1> QED
  BY <1>1, <1>2, <1>3

LEMMA RecoverFilesShared ==
  ASSUME TypeOK, NEW p \in Procs, RecoverFiles(p)
  PROVE  SharedType'
<1> USE DEF TypeOK
<1>0. k[p] \in 0..NFiles
  BY DEF LoopBounds, RecoverFiles
<1>1. files' \in [Files -> FileVal] /\ env' \in 0..MaxDisturbances
  BY <1>0, RestoreFileType DEF SharedType, RecoverFiles, Files
<1>2. wsLock' \in Procs \cup {NoProc} /\ projLock' \in Procs \cup {NoProc}
  BY DEF SharedType, RecoverFiles, locks, Exit, Release
<1> QED
  BY <1>1, <1>2 DEF SharedType, RecoverFiles

LEMMA RecoverVaultShared ==
  ASSUME TypeOK, NEW p \in Procs, RecoverVault(p)
  PROVE  SharedType'
<1> USE DEF TypeOK
<1>0. k[p] \in 0..NSecrets
  BY DEF LoopBounds, RecoverVault
<1>1. vault' \in [Secrets -> VaultVal] /\ env' \in 0..MaxDisturbances
  BY <1>0, RestoreEntryType DEF SharedType, RecoverVault
<1>2. projLock' \in Procs \cup {NoProc}
  BY DEF SharedType, RecoverVault, Release
<1> QED
  BY <1>1, <1>2 DEF SharedType, RecoverVault

LEMMA RecoverMarkShared ==
  ASSUME TypeOK, NEW p \in Procs, RecoverMark(p)
  PROVE  SharedType'
<1> USE DEF TypeOK
<1>1. /\ jphase' \in JournalPhase \cup {"none"}
      /\ jimage' \in [Secrets -> VaultVal]
      /\ jshot' \in [Files -> FileVal]
      /\ env' \in 0..MaxDisturbances
  BY PersistFaultsType
     DEF SharedType, LocalType, RecoverMark, Persist, JournalPhase
<1>2. wsLock' \in Procs \cup {NoProc} /\ projLock' \in Procs \cup {NoProc}
  BY DEF SharedType, RecoverMark, Exit, Release
<1> QED
  BY <1>1, <1>2 DEF SharedType, RecoverMark

\* Every step leaves the disk, the vault, the request and the locks well typed.
LEMMA SharedStep == TypeOK /\ [Next]_vars => SharedType'
<1> SUFFICES ASSUME TypeOK, [Next]_vars PROVE SharedType'
  OBVIOUS
<1> USE ConstantsAssumption DEF TypeOK
<1>1. ASSUME NEW p \in Procs, ReadStatus(p) PROVE SharedType'
  BY <1>1 DEF SharedType, ReadStatus, locks, RequestState
<1>2. ASSUME NEW p \in Procs, RebuildPlan(p) PROVE SharedType'
  BY <1>2, ExitLocal DEF SharedType, RebuildPlan, shared, locks
<1>3. ASSUME NEW p \in Procs, LockProject(p) PROVE SharedType'
  BY <1>3, ExitLocal DEF SharedType, LockProject, shared
<1>4. ASSUME NEW p \in Procs, LoadJournal(p) PROVE SharedType'
  BY <1>4 DEF SharedType, LoadJournal, shared, locks
<1>5. ASSUME NEW p \in Procs, RecoverLock(p) PROVE SharedType'
  BY <1>5 DEF SharedType, RecoverLock, shared
<1>6. ASSUME NEW p \in Procs, RecoverCheck(p) PROVE SharedType'
  BY <1>6, ExitLocal DEF SharedType, RecoverCheck, shared, locks
<1>7. ASSUME NEW p \in Procs, RecoverPayload(p) PROVE SharedType'
  BY <1>7, ExitLocal DEF SharedType, RecoverPayload, shared
<1>8. ASSUME NEW p \in Procs, RecoverVault(p) PROVE SharedType'
  BY <1>8, RecoverVaultShared
<1>9. ASSUME NEW p \in Procs, RecoverFiles(p) PROVE SharedType'
  BY <1>9, RecoverFilesShared
<1>10. ASSUME NEW p \in Procs, RecoverMark(p) PROVE SharedType'
  BY <1>10, RecoverMarkShared
<1>11. ASSUME NEW p \in Procs, RolledBack(p) PROVE SharedType'
  BY <1>11, ExitLocal DEF SharedType, RolledBack, locks, RequestState
<1>12. ASSUME NEW p \in Procs, Absent(p) PROVE SharedType'
  BY <1>12, ExitLocal DEF SharedType, Absent, RequestState
<1>13. ASSUME NEW p \in Procs, Complete(p) PROVE SharedType'
  BY <1>13, ExitLocal DEF SharedType, Complete, locks, RequestState
<1>14. ASSUME NEW p \in Procs, ClearJournal(p) PROVE SharedType'
  BY <1>14, ExitLocal DEF SharedType, ClearJournal, OldImage, OldShot, VaultVal, FileVal
<1>15. ASSUME NEW p \in Procs, Confirm(p) PROVE SharedType'
  BY <1>15, ExitLocal DEF SharedType, Confirm, shared, locks
<1>16. ASSUME NEW p \in Procs, Claim(p) PROVE SharedType'
  BY <1>16, ExitLocal DEF SharedType, Claim, locks, RequestState
<1>17. ASSUME NEW p \in Procs, ApplyLock(p) PROVE SharedType'
  BY <1>17 DEF SharedType, ApplyLock, shared
<1>18. ASSUME NEW p \in Procs, Prepare(p) PROVE SharedType'
  BY <1>18
     DEF SharedType, Prepare, shared, locks, ApplyFails, Abort, Release,
         Disturb
<1>19. ASSUME NEW p \in Procs, Capture(p) PROVE SharedType'
  BY <1>19
     DEF SharedType, Capture, shared, locks, ApplyFails, Abort, Release,
         Disturb
<1>34. ASSUME NEW p \in Procs, Validate(p) PROVE SharedType'
  BY <1>34
     DEF SharedType, Validate, shared, locks, ApplyFails, Abort, Release,
         Disturb
<1>20. ASSUME NEW p \in Procs, CreateJournal(p) PROVE SharedType'
  BY <1>20
     DEF SharedType, CreateJournal, LocalType, ApplyFails, Persist,
         PersistFaults, Disturb, JournalPhase, Incomplete
<1>21. ASSUME NEW p \in Procs, WriteFile(p) PROVE SharedType'
  BY <1>21, WriteFileShared
<1>22. ASSUME NEW p \in Procs, Finalize(p) PROVE SharedType'
  BY <1>22 DEF SharedType, Finalize, shared, locks
<1>23. ASSUME NEW p \in Procs, SetFilesApplied(p) PROVE SharedType'
  BY <1>23
     DEF SharedType, SetFilesApplied, LocalType, SetPhase, ApplyFails, Persist,
         PersistFaults, Disturb, JournalPhase, Incomplete
<1>24. ASSUME NEW p \in Procs, SetCommitStarted(p) PROVE SharedType'
  BY <1>24
     DEF SharedType, SetCommitStarted, LocalType, SetPhase, ApplyFails,
         Persist, PersistFaults, Disturb, JournalPhase, Incomplete
<1>25. ASSUME NEW p \in Procs, SetApplied(p) PROVE SharedType'
  BY <1>25
     DEF SharedType, SetApplied, LocalType, SetPhase, ApplyFails, Persist,
         PersistFaults, Disturb, JournalPhase, Incomplete
<1>26. ASSUME NEW p \in Procs, Commit(p) PROVE SharedType'
  BY <1>26, CommitShared
<1>27. ASSUME NEW p \in Procs, UndoFiles(p) PROVE SharedType'
  BY <1>27, UndoFilesShared
<1>28. ASSUME NEW p \in Procs, UndoVault(p) PROVE SharedType'
  BY <1>28, UndoVaultShared
<1>29. ASSUME NEW p \in Procs, Crash(p) PROVE SharedType'
  BY <1>29, ExitLocal DEF SharedType, Crash, shared, Disturb
<1>30. CASE Tick
  BY <1>30 DEF SharedType, Tick, locks
<1>31. ASSUME NEW f \in Files, EditFile(f) PROVE SharedType'
  BY <1>31 DEF SharedType, EditFile, Disturb, FileVal, Edits, locks
<1>32. ASSUME NEW s \in Secrets, VaultForeign(s) PROVE SharedType'
  BY <1>32 DEF SharedType, VaultForeign, Disturb, VaultVal, locks
<1>33. CASE UNCHANGED vars
  BY <1>33 DEF SharedType, vars
<1> HIDE DEF TypeOK
<1> QED
  BY <1>1, <1>2, <1>3, <1>4, <1>5, <1>6, <1>7, <1>8, <1>9, <1>10, <1>11, <1>12,
     <1>13, <1>14, <1>15, <1>16, <1>17, <1>18, <1>19, <1>20, <1>21, <1>22,
     <1>23, <1>24, <1>25, <1>26, <1>27, <1>28, <1>29, <1>30, <1>31, <1>32,
     <1>33, <1>34
     DEF Next, Work, Foreign

\* Every step leaves the memory of every process well typed.
LEMMA LocalStep == TypeOK /\ [Next]_vars => LocalOK'
<1> SUFFICES ASSUME TypeOK, [Next]_vars PROVE LocalOK'
  OBVIOUS
<1> USE ConstantsAssumption DEF TypeOK
<1>1. ASSUME NEW p \in Procs, ReadStatus(p) PROVE LocalOK'
  <2>0. k[p] \in Nat /\ LoopBounds(p)
    BY DEF LocalType
  <2>9. request \in {"Pending", "Claimed"} \/ UNCHANGED <<pc, mode>>
    BY <1>1 DEF ReadStatus
  <2>1. /\ pc' \in [Procs -> Labels]
        /\ mode' \in [Procs -> {"Pending", "Claimed", "post"}]
    BY <1>1, <2>9 DEF LocalType, Labels, ReadStatus, Goto
  <2>2. k' \in [Procs -> Nat]
    BY <1>1, <2>0 DEF LocalType, LoopBounds, memory, ReadStatus, Goto
  <2>3. /\ failed' \in SUBSET Procs
        /\ why' \in [Procs -> {"write", "finalize", "commit"}]
        /\ image' \in [Procs -> [Secrets -> VaultVal]]
        /\ shot' \in [Procs -> [Files -> FileVal]]
        /\ parents' \in [Procs -> SUBSET Files]
        /\ made' \in [Procs -> SUBSET Files]
    BY <1>1, <2>0 DEF LocalType, SharedType, memory, snap, ReadStatus, Goto
  <2>4. \A q \in Procs : LoopBounds(q)'
    BY <1>1, <2>0 DEF LoopBounds, LocalType, memory, ReadStatus, Goto
  <2> QED
    BY <2>1, <2>2, <2>3, <2>4 DEF LocalOK, LocalType
<1>2. ASSUME NEW p \in Procs, RebuildPlan(p) PROVE LocalOK'
  BY <1>2, StayLocal, ExitLocal DEF RebuildPlan, Labels, Loops
<1>3. ASSUME NEW p \in Procs, LockProject(p) PROVE LocalOK'
  BY <1>3, StayLocal, ExitLocal DEF LockProject, Labels, Loops
<1>4. ASSUME NEW p \in Procs, LoadJournal(p) PROVE LocalOK'
  <2>0. k[p] \in Nat /\ LoopBounds(p)
    BY DEF LocalType
  <2>1. /\ pc' \in [Procs -> Labels]
        /\ mode' \in [Procs -> {"Pending", "Claimed", "post"}]
    BY <1>4, <2>0 DEF LocalType, Labels, memory, LoadJournal, Goto
  <2>2. k' \in [Procs -> Nat]
    BY <1>4, <2>0 DEF LocalType, LoopBounds, memory, LoadJournal, Goto
  <2>3. /\ failed' \in SUBSET Procs
        /\ why' \in [Procs -> {"write", "finalize", "commit"}]
    BY <1>4, <2>0 DEF LocalType, memory, LoadJournal, Goto
  <2>4. /\ image' \in [Procs -> [Secrets -> VaultVal]]
        /\ shot' \in [Procs -> [Files -> FileVal]]
    <3>1. image' = image \/ image' = [image EXCEPT ![p] = jimage]
      BY <1>4 DEF LoadJournal
    <3>2. shot' = shot \/ shot' = [shot EXCEPT ![p] = jshot]
      BY <1>4 DEF LoadJournal
    <3>3. image' \in [Procs -> [Secrets -> VaultVal]]
      BY <3>1 DEF LocalType, SharedType
    <3>4. shot' \in [Procs -> [Files -> FileVal]]
      BY <3>2 DEF LocalType, SharedType
    <3> QED
      BY <3>3, <3>4
  <2>5. /\ parents' \in [Procs -> SUBSET Files]
        /\ made' \in [Procs -> SUBSET Files]
    BY <1>4, <2>0 DEF LocalType, SharedType, memory, snap, LoadJournal, Goto
  <2>6. \A q \in Procs : LoopBounds(q)'
    BY <1>4, <2>0 DEF LoopBounds, LocalType, memory, LoadJournal, Goto
  <2> QED
    BY <2>1, <2>2, <2>3, <2>4, <2>5, <2>6 DEF LocalOK, LocalType
<1>5. ASSUME NEW p \in Procs, RecoverLock(p) PROVE LocalOK'
  BY <1>5, StayLocal DEF RecoverLock, Labels, Loops
<1>6. ASSUME NEW p \in Procs, RecoverCheck(p) PROVE LocalOK'
  BY <1>6, StayLocal, ExitLocal DEF RecoverCheck, Labels, Loops
<1>7. ASSUME NEW p \in Procs, RecoverPayload(p) PROVE LocalOK'
  <2>1. CASE Exit(p)
    BY <2>1, ExitLocal
  <2>2. CASE ~Exit(p)
    <3>1. /\ Goto(p, "recoverVault") /\ k' = [k EXCEPT ![p] = NSecrets]
          /\ failed' = failed \ {p}
          /\ UNCHANGED <<mode, image, shot, parents, made, why>>
      BY <1>7, <2>2 DEF RecoverPayload, snap
    <3>2. pc' \in [Procs -> Labels]
      BY <3>1 DEF LocalType, Goto, Labels
    <3>3. k' \in [Procs -> Nat]
      BY <3>1 DEF LocalType
    <3>4. \A q \in Procs : LoopBounds(q)'
      BY <3>1 DEF LoopBounds, LocalType, Goto
    <3> QED
      BY <3>1, <3>2, <3>3, <3>4 DEF LocalOK, LocalType
  <2> QED
    BY <2>1, <2>2
<1>8. ASSUME NEW p \in Procs, RecoverVault(p) PROVE LocalOK'
  <2>0. k[p] \in 0..NSecrets
    BY <1>8 DEF LoopBounds, RecoverVault
  <2>1. /\ pc' \in [Procs -> Labels]
        /\ mode' \in [Procs -> {"Pending", "Claimed", "post"}]
    BY <1>8, <2>0
       DEF LocalType, Labels, memory, RecoverVault, RestoreEntry, Goto
  <2>2. k' \in [Procs -> Nat]
    BY <1>8, <2>0
       DEF LocalType, LoopBounds, memory, RecoverVault, RestoreEntry, Goto
  <2>3. /\ failed' \in SUBSET Procs
        /\ why' \in [Procs -> {"write", "finalize", "commit"}]
        /\ image' \in [Procs -> [Secrets -> VaultVal]]
        /\ shot' \in [Procs -> [Files -> FileVal]]
        /\ parents' \in [Procs -> SUBSET Files]
        /\ made' \in [Procs -> SUBSET Files]
    BY <1>8, <2>0
       DEF LocalType, SharedType, memory, snap, RecoverVault, RestoreEntry,
           Goto
  <2>4. \A q \in Procs \ {p} : pc'[q] = pc[q] /\ k'[q] = k[q]
    BY <1>8, <2>0 DEF LocalType, RecoverVault, RestoreEntry, Goto
  <2>5. LoopBounds(p)'
    BY <1>8, <2>0 DEF LoopBounds, LocalType, RecoverVault, RestoreEntry, Goto
  <2>6. \A q \in Procs : LoopBounds(q)'
    BY <2>4, <2>5 DEF LoopBounds
  <2> QED
    BY <2>1, <2>2, <2>3, <2>4, <2>5, <2>6 DEF LocalOK, LocalType
<1>9. ASSUME NEW p \in Procs, RecoverFiles(p) PROVE LocalOK'
  <2>0. k[p] \in Nat /\ LoopBounds(p)
    BY DEF LocalType
  <2>1. CASE Exit(p)
    BY <2>1, ExitLocal
  <2>2. CASE ~Exit(p)
    <3>1. /\ pc' \in [Procs -> Labels]
          /\ mode' \in [Procs -> {"Pending", "Claimed", "post"}]
      BY <1>9, <2>0, <2>2
         DEF LocalType, Labels, memory, RecoverFiles, Goto, RestoreFile
    <3>2. k' \in [Procs -> Nat]
      BY <1>9, <2>0, <2>2
         DEF LocalType, LoopBounds, memory, RecoverFiles, Goto, RestoreFile
    <3>3. /\ failed' \in SUBSET Procs
          /\ why' \in [Procs -> {"write", "finalize", "commit"}]
          /\ image' \in [Procs -> [Secrets -> VaultVal]]
          /\ shot' \in [Procs -> [Files -> FileVal]]
          /\ parents' \in [Procs -> SUBSET Files]
          /\ made' \in [Procs -> SUBSET Files]
      <4>1. UNCHANGED <<why, image, shot, parents, made>>
        BY <1>9, <2>2 DEF RecoverFiles, memory, snap
      <4>2. failed' = failed \/ failed' = failed \cup {p}
        BY <1>9, <2>2 DEF RecoverFiles, RestoreFile, memory
      <4>3. failed' \in SUBSET Procs
        BY <4>2 DEF LocalType
      <4> QED
        BY <4>1, <4>3 DEF LocalType
    <3>4. \A q \in Procs : LoopBounds(q)'
      <4>1. \/ k[p] > 0 /\ k' = [k EXCEPT ![p] = k[p] - 1] /\ UNCHANGED pc
            \/ pc' = [pc EXCEPT ![p] = "recoverMark"] /\ UNCHANGED k
        BY <1>9, <2>2 DEF RecoverFiles, Goto, memory
      <4>2. pc[p] = "recoverFiles"
        BY <1>9 DEF RecoverFiles
      <4> QED
        BY <4>1, <4>2 DEF LoopBounds, LocalType
    <3> QED
      BY <3>1, <3>2, <3>3, <3>4 DEF LocalOK, LocalType
  <2> QED
    BY <2>1, <2>2
<1>10. ASSUME NEW p \in Procs, RecoverMark(p) PROVE LocalOK'
  BY <1>10, StayLocal, ExitLocal DEF RecoverMark, Labels, Loops
<1>11. ASSUME NEW p \in Procs, RolledBack(p) PROVE LocalOK'
  BY <1>11, StayLocal, ExitLocal DEF RolledBack, Labels, Loops
<1>12. ASSUME NEW p \in Procs, Absent(p) PROVE LocalOK'
  BY <1>12, ExitLocal DEF Absent
<1>13. ASSUME NEW p \in Procs, Complete(p) PROVE LocalOK'
  BY <1>13, StayLocal, ExitLocal DEF Complete, Labels, Loops
<1>14. ASSUME NEW p \in Procs, ClearJournal(p) PROVE LocalOK'
  BY <1>14, ExitLocal DEF ClearJournal
<1>15. ASSUME NEW p \in Procs, Confirm(p) PROVE LocalOK'
  BY <1>15, StayLocal, ExitLocal DEF Confirm, Labels, Loops
<1>16. ASSUME NEW p \in Procs, Claim(p) PROVE LocalOK'
  BY <1>16, StayLocal, ExitLocal DEF Claim, Labels, Loops
<1>17. ASSUME NEW p \in Procs, ApplyLock(p) PROVE LocalOK'
  BY <1>17, StayLocal DEF ApplyLock, Labels, Loops
<1>18. ASSUME NEW p \in Procs, Prepare(p) PROVE LocalOK'
  <2>0. k[p] \in Nat /\ LoopBounds(p)
    BY DEF LocalType
  <2>1. /\ pc' \in [Procs -> Labels]
        /\ mode' \in [Procs -> {"Pending", "Claimed", "post"}]
    BY <1>18, <2>0
       DEF LocalType, Labels, memory, Prepare, Goto, Abort, ApplyFails
  <2>2. k' \in [Procs -> Nat]
    BY <1>18, <2>0
       DEF LocalType, LoopBounds, memory, Prepare, Goto, Abort, ApplyFails
  <2>3. /\ failed' \in SUBSET Procs
        /\ why' \in [Procs -> {"write", "finalize", "commit"}]
    BY <1>18, <2>0 DEF LocalType, memory, Prepare, Goto, Abort, ApplyFails
  <2>4. /\ image' \in [Procs -> [Secrets -> VaultVal]]
        /\ shot' \in [Procs -> [Files -> FileVal]]
    <3>1. image' = image \/ image' = [image EXCEPT ![p] = vault]
      BY <1>18 DEF Prepare
    <3>2. shot' = shot
      BY <1>18 DEF Prepare, snap
    <3>3. image' \in [Procs -> [Secrets -> VaultVal]]
      BY <3>1 DEF LocalType, SharedType
    <3>4. shot' \in [Procs -> [Files -> FileVal]]
      BY <3>2 DEF LocalType
    <3> QED
      BY <3>3, <3>4
  <2>5. /\ parents' \in [Procs -> SUBSET Files]
        /\ made' \in [Procs -> SUBSET Files]
    BY <1>18, <2>0
       DEF LocalType, SharedType, memory, snap, Prepare, Goto, Abort,
           ApplyFails
  <2>6. \A q \in Procs : LoopBounds(q)'
    BY <1>18, <2>0
       DEF LoopBounds, LocalType, memory, Prepare, Goto, Abort, ApplyFails
  <2> QED
    BY <2>1, <2>2, <2>3, <2>4, <2>5, <2>6 DEF LocalOK, LocalType
<1>19. ASSUME NEW p \in Procs, Capture(p) PROVE LocalOK'
  <2>0. k[p] \in Nat /\ LoopBounds(p)
    BY DEF LocalType
  <2>1. /\ pc' \in [Procs -> Labels]
        /\ mode' \in [Procs -> {"Pending", "Claimed", "post"}]
    BY <1>19, <2>0
       DEF LocalType, Labels, memory, Capture, Goto, Abort, ApplyFails
  <2>2. k' \in [Procs -> Nat]
    BY <1>19, <2>0
       DEF LocalType, LoopBounds, memory, Capture, Goto, Abort, ApplyFails
  <2>3. /\ failed' \in SUBSET Procs
        /\ why' \in [Procs -> {"write", "finalize", "commit"}]
        /\ image' \in [Procs -> [Secrets -> VaultVal]]
        /\ shot' \in [Procs -> [Files -> FileVal]]
        /\ parents' \in [Procs -> SUBSET Files]
        /\ made' \in [Procs -> SUBSET Files]
    <3>1. UNCHANGED <<failed, why, image>>
      BY <1>19 DEF Capture
    <3>2. shot' = shot \/ shot' = [shot EXCEPT ![p] = files]
      BY <1>19 DEF Capture, snap
    <3>3. parents' = parents \/ parents' = [parents EXCEPT ![p] = dirs]
      BY <1>19 DEF Capture, snap
    <3>4. made' = made \/ made' = [made EXCEPT ![p] = {}]
      BY <1>19 DEF Capture, snap
    <3>5. shot' \in [Procs -> [Files -> FileVal]]
      BY <3>2 DEF LocalType, SharedType
    <3>6. parents' \in [Procs -> SUBSET Files] /\ made' \in [Procs -> SUBSET Files]
      BY <3>3, <3>4 DEF LocalType, SharedType
    <3> QED
      BY <3>1, <3>5, <3>6 DEF LocalType
  <2>4. \A q \in Procs : LoopBounds(q)'
    BY <1>19, <2>0
       DEF LoopBounds, LocalType, memory, Capture, Goto, Abort, ApplyFails
  <2> QED
    BY <2>1, <2>2, <2>3, <2>4 DEF LocalOK, LocalType
<1>32. ASSUME NEW p \in Procs, Validate(p) PROVE LocalOK'
  <2>0. k[p] \in Nat /\ LoopBounds(p)
    BY DEF LocalType
  <2>1. /\ pc' \in [Procs -> Labels]
        /\ mode' \in [Procs -> {"Pending", "Claimed", "post"}]
    BY <1>32, <2>0
       DEF LocalType, Labels, memory, Validate, Goto, Abort, ApplyFails
  <2>2. k' \in [Procs -> Nat]
    BY <1>32, <2>0
       DEF LocalType, LoopBounds, memory, Validate, Goto, Abort, ApplyFails
  <2>3. UNCHANGED <<failed, why, image, shot, parents, made>>
    BY <1>32 DEF Validate, snap
  <2>4. \A q \in Procs : LoopBounds(q)'
    BY <1>32, <2>0
       DEF LoopBounds, LocalType, memory, Validate, Goto, Abort, ApplyFails
  <2> QED
    BY <2>1, <2>2, <2>3, <2>4 DEF LocalOK, LocalType
<1>20. ASSUME NEW p \in Procs, CreateJournal(p) PROVE LocalOK'
  <2>0. k[p] \in Nat /\ LoopBounds(p)
    BY DEF LocalType
  <2>1. /\ pc' \in [Procs -> Labels]
        /\ mode' \in [Procs -> {"Pending", "Claimed", "post"}]
    <3>1. pc' = [pc EXCEPT ![p] = "write"] \/ pc' = [pc EXCEPT ![p] = "load"]
      BY <1>20 DEF CreateJournal, Goto, ApplyFails
    <3>2. mode' = mode \/ mode' = [mode EXCEPT ![p] = "post"]
      BY <1>20 DEF CreateJournal, ApplyFails
    <3>3. pc' \in [Procs -> Labels]
      BY <3>1 DEF LocalType, Labels
    <3>4. mode' \in [Procs -> {"Pending", "Claimed", "post"}]
      <4>1. mode \in [Procs -> {"Pending", "Claimed", "post"}]
        BY DEF LocalType
      <4> HIDE DEF TypeOK
      <4> QED
        BY <3>2, <4>1
    <3> QED
      BY <3>3, <3>4
  <2>2. k' \in [Procs -> Nat]
    <3>1. k' = k \/ k' = [k EXCEPT ![p] = 1]
      BY <1>20 DEF CreateJournal
    <3> QED
      BY <3>1 DEF LocalType
  <2>3. /\ failed' \in SUBSET Procs
        /\ why' \in [Procs -> {"write", "finalize", "commit"}]
        /\ image' \in [Procs -> [Secrets -> VaultVal]]
        /\ shot' \in [Procs -> [Files -> FileVal]]
        /\ parents' \in [Procs -> SUBSET Files]
        /\ made' \in [Procs -> SUBSET Files]
    <3>1. UNCHANGED <<failed, why, image, shot, parents, made>>
      BY <1>20 DEF CreateJournal, snap
    <3> QED
      BY <3>1 DEF LocalType
  <2>4. \A q \in Procs : LoopBounds(q)'
    BY <1>20, <2>0
       DEF LoopBounds, LocalType, memory, CreateJournal, Goto, ApplyFails
  <2> QED
    BY <2>1, <2>2, <2>3, <2>4 DEF LocalOK, LocalType
<1>21. ASSUME NEW p \in Procs, WriteFile(p) PROVE LocalOK'
  <2>0. k[p] \in 1..NFiles
    BY <1>21 DEF LoopBounds, WriteFile
  <2>1. /\ pc' \in [Procs -> Labels]
        /\ mode' \in [Procs -> {"Pending", "Claimed", "post"}]
    BY <1>21, <2>0 DEF LocalType, Labels, memory, WriteFile, Goto, StartUndo
  <2>2. k' \in [Procs -> Nat]
    BY <1>21, <2>0
       DEF LocalType, LoopBounds, memory, WriteFile, Goto, StartUndo
  <2>3. /\ failed' \in SUBSET Procs
        /\ why' \in [Procs -> {"write", "finalize", "commit"}]
    BY <1>21, <2>0 DEF LocalType, memory, WriteFile, Goto, StartUndo
  <2>4. /\ image' \in [Procs -> [Secrets -> VaultVal]]
        /\ shot' \in [Procs -> [Files -> FileVal]]
    BY <1>21, <2>0, WriteFileSnapshot
       DEF LocalType, SharedType, memory, WriteFile, Goto, StartUndo
  <2>5. /\ parents' \in [Procs -> SUBSET Files]
        /\ made' \in [Procs -> SUBSET Files]
    BY <1>21, WriteFileSnapshot
  <2>6. \A q \in Procs \ {p} : pc'[q] = pc[q] /\ k'[q] = k[q]
    BY <1>21, <2>0 DEF LocalType, WriteFile, Goto, StartUndo
  <2>7. LoopBounds(p)'
    BY <1>21, <2>0 DEF LoopBounds, LocalType, WriteFile, Goto, StartUndo
  <2>8. \A q \in Procs : LoopBounds(q)'
    BY <2>6, <2>7 DEF LoopBounds
  <2> QED
    BY <2>1, <2>2, <2>3, <2>4, <2>5, <2>6, <2>7, <2>8 DEF LocalOK, LocalType
<1>22. ASSUME NEW p \in Procs, Finalize(p) PROVE LocalOK'
  <2>0. k[p] \in Nat /\ LoopBounds(p)
    BY DEF LocalType
  <2>1. /\ pc' \in [Procs -> Labels]
        /\ mode' \in [Procs -> {"Pending", "Claimed", "post"}]
    BY <1>22, <2>0 DEF LocalType, Labels, memory, Finalize, Goto, StartUndo
  <2>2. k' \in [Procs -> Nat]
    BY <1>22, <2>0 DEF LocalType, LoopBounds, memory, Finalize, Goto, StartUndo
  <2>3. /\ failed' \in SUBSET Procs
        /\ why' \in [Procs -> {"write", "finalize", "commit"}]
        /\ image' \in [Procs -> [Secrets -> VaultVal]]
        /\ shot' \in [Procs -> [Files -> FileVal]]
        /\ parents' \in [Procs -> SUBSET Files]
        /\ made' \in [Procs -> SUBSET Files]
    BY <1>22, <2>0
       DEF LocalType, SharedType, memory, snap, Finalize, Goto, StartUndo
  <2>4. \A q \in Procs : LoopBounds(q)'
    BY <1>22, <2>0 DEF LoopBounds, LocalType, memory, Finalize, Goto, StartUndo
  <2> QED
    BY <2>1, <2>2, <2>3, <2>4 DEF LocalOK, LocalType
<1>23. ASSUME NEW p \in Procs, SetFilesApplied(p) PROVE LocalOK'
  <2>0. k[p] \in Nat /\ LoopBounds(p)
    BY DEF LocalType
  <2>1. /\ pc' \in [Procs -> Labels]
        /\ mode' \in [Procs -> {"Pending", "Claimed", "post"}]
    <3>1. pc' = [pc EXCEPT ![p] = "commitStarted"] \/ pc' = [pc EXCEPT ![p] = "load"]
      BY <1>23 DEF SetFilesApplied, SetPhase, Goto, ApplyFails
    <3>2. mode' = mode \/ mode' = [mode EXCEPT ![p] = "post"]
      BY <1>23 DEF SetFilesApplied, SetPhase, ApplyFails
    <3>3. pc' \in [Procs -> Labels]
      BY <3>1 DEF LocalType, Labels
    <3>4. mode' \in [Procs -> {"Pending", "Claimed", "post"}]
      <4>1. mode \in [Procs -> {"Pending", "Claimed", "post"}]
        BY DEF LocalType
      <4> HIDE DEF TypeOK
      <4> QED
        BY <3>2, <4>1
    <3> QED
      BY <3>3, <3>4
  <2>2. k' \in [Procs -> Nat]
    <3>1. k' = k \/ k' = [k EXCEPT ![p] = 1]
      BY <1>23 DEF SetFilesApplied, SetPhase
    <3> QED
      BY <3>1 DEF LocalType
  <2>3. /\ failed' \in SUBSET Procs
        /\ why' \in [Procs -> {"write", "finalize", "commit"}]
        /\ image' \in [Procs -> [Secrets -> VaultVal]]
        /\ shot' \in [Procs -> [Files -> FileVal]]
        /\ parents' \in [Procs -> SUBSET Files]
        /\ made' \in [Procs -> SUBSET Files]
    <3>1. UNCHANGED <<failed, why, image, shot, parents, made>>
      BY <1>23 DEF SetFilesApplied, SetPhase, snap
    <3> QED
      BY <3>1 DEF LocalType
  <2>4. \A q \in Procs : LoopBounds(q)'
    BY <1>23, <2>0
       DEF LoopBounds, LocalType, memory, SetFilesApplied, SetPhase, Goto,
           ApplyFails
  <2> QED
    BY <2>1, <2>2, <2>3, <2>4 DEF LocalOK, LocalType
<1>24. ASSUME NEW p \in Procs, SetCommitStarted(p) PROVE LocalOK'
  <2>0. k[p] \in Nat /\ LoopBounds(p)
    BY DEF LocalType
  <2>1. /\ pc' \in [Procs -> Labels]
        /\ mode' \in [Procs -> {"Pending", "Claimed", "post"}]
    <3>1. pc' = [pc EXCEPT ![p] = "commit"] \/ pc' = [pc EXCEPT ![p] = "load"]
      BY <1>24 DEF SetCommitStarted, SetPhase, Goto, ApplyFails
    <3>2. mode' = mode \/ mode' = [mode EXCEPT ![p] = "post"]
      BY <1>24 DEF SetCommitStarted, SetPhase, ApplyFails
    <3>3. pc' \in [Procs -> Labels]
      BY <3>1 DEF LocalType, Labels
    <3>4. mode' \in [Procs -> {"Pending", "Claimed", "post"}]
      <4>1. mode \in [Procs -> {"Pending", "Claimed", "post"}]
        BY DEF LocalType
      <4> HIDE DEF TypeOK
      <4> QED
        BY <3>2, <4>1
    <3> QED
      BY <3>3, <3>4
  <2>2. k' \in [Procs -> Nat]
    <3>1. k' = k \/ k' = [k EXCEPT ![p] = 1]
      BY <1>24 DEF SetCommitStarted, SetPhase
    <3> QED
      BY <3>1 DEF LocalType
  <2>3. /\ failed' \in SUBSET Procs
        /\ why' \in [Procs -> {"write", "finalize", "commit"}]
        /\ image' \in [Procs -> [Secrets -> VaultVal]]
        /\ shot' \in [Procs -> [Files -> FileVal]]
        /\ parents' \in [Procs -> SUBSET Files]
        /\ made' \in [Procs -> SUBSET Files]
    <3>1. UNCHANGED <<failed, why, image, shot, parents, made>>
      BY <1>24 DEF SetCommitStarted, SetPhase, snap
    <3> QED
      BY <3>1 DEF LocalType
  <2>4. \A q \in Procs : LoopBounds(q)'
    BY <1>24, <2>0
       DEF LoopBounds, LocalType, memory, SetCommitStarted, SetPhase, Goto,
           ApplyFails
  <2> QED
    BY <2>1, <2>2, <2>3, <2>4 DEF LocalOK, LocalType
<1>25. ASSUME NEW p \in Procs, SetApplied(p) PROVE LocalOK'
  <2>0. k[p] \in Nat /\ LoopBounds(p)
    BY DEF LocalType
  <2>1. /\ pc' \in [Procs -> Labels]
        /\ mode' \in [Procs -> {"Pending", "Claimed", "post"}]
    <3>1. pc' = [pc EXCEPT ![p] = "complete"] \/ pc' = [pc EXCEPT ![p] = "load"]
      BY <1>25 DEF SetApplied, SetPhase, Goto, ApplyFails
    <3>2. mode' = mode \/ mode' = [mode EXCEPT ![p] = "post"]
      BY <1>25 DEF SetApplied, SetPhase, ApplyFails
    <3>3. pc' \in [Procs -> Labels]
      BY <3>1 DEF LocalType, Labels
    <3>4. mode' \in [Procs -> {"Pending", "Claimed", "post"}]
      <4>1. mode \in [Procs -> {"Pending", "Claimed", "post"}]
        BY DEF LocalType
      <4> HIDE DEF TypeOK
      <4> QED
        BY <3>2, <4>1
    <3> QED
      BY <3>3, <3>4
  <2>2. k' \in [Procs -> Nat]
    <3>1. k' = k \/ k' = [k EXCEPT ![p] = 1]
      BY <1>25 DEF SetApplied, SetPhase
    <3> QED
      BY <3>1 DEF LocalType
  <2>3. /\ failed' \in SUBSET Procs
        /\ why' \in [Procs -> {"write", "finalize", "commit"}]
        /\ image' \in [Procs -> [Secrets -> VaultVal]]
        /\ shot' \in [Procs -> [Files -> FileVal]]
        /\ parents' \in [Procs -> SUBSET Files]
        /\ made' \in [Procs -> SUBSET Files]
    <3>1. UNCHANGED <<failed, why, image, shot, parents, made>>
      BY <1>25 DEF SetApplied, SetPhase, snap
    <3> QED
      BY <3>1 DEF LocalType
  <2>4. \A q \in Procs : LoopBounds(q)'
    BY <1>25, <2>0
       DEF LoopBounds, LocalType, memory, SetApplied, SetPhase, Goto,
           ApplyFails
  <2> QED
    BY <2>1, <2>2, <2>3, <2>4 DEF LocalOK, LocalType
<1>26. ASSUME NEW p \in Procs, Commit(p) PROVE LocalOK'
  <2>0. k[p] \in Nat /\ LoopBounds(p)
    BY DEF LocalType
  <2>1. /\ pc' \in [Procs -> Labels]
        /\ mode' \in [Procs -> {"Pending", "Claimed", "post"}]
    BY <1>26, <2>0 DEF LocalType, Labels, memory, Commit, StartUndo, Goto
  <2>2. k' \in [Procs -> Nat]
    BY <1>26, <2>0 DEF LocalType, LoopBounds, memory, Commit, StartUndo, Goto
  <2>3. /\ failed' \in SUBSET Procs
        /\ why' \in [Procs -> {"write", "finalize", "commit"}]
        /\ image' \in [Procs -> [Secrets -> VaultVal]]
        /\ shot' \in [Procs -> [Files -> FileVal]]
        /\ parents' \in [Procs -> SUBSET Files]
        /\ made' \in [Procs -> SUBSET Files]
    BY <1>26, <2>0
       DEF LocalType, SharedType, memory, snap, Commit, StartUndo, Goto
  <2>4. \A q \in Procs : LoopBounds(q)'
    BY <1>26, <2>0 DEF LoopBounds, LocalType, memory, Commit, StartUndo, Goto
  <2> QED
    BY <2>1, <2>2, <2>3, <2>4 DEF LocalOK, LocalType
<1>27. ASSUME NEW p \in Procs, UndoFiles(p) PROVE LocalOK'
  <2>0. k[p] \in 0..NFiles
    BY <1>27 DEF LoopBounds, UndoFiles
  <2>1. /\ pc' \in [Procs -> Labels]
        /\ mode' \in [Procs -> {"Pending", "Claimed", "post"}]
    BY <1>27, <2>0 DEF LocalType, Labels, memory, UndoFiles, RestoreFile, Goto
  <2>2. k' \in [Procs -> Nat]
    <3>1. \/ k[p] > 0 /\ k' = [k EXCEPT ![p] = k[p] - 1]
          \/ k' = [k EXCEPT ![p] = NSecrets]
      BY <1>27 DEF UndoFiles
    <3>2. k[p] \in Nat /\ NSecrets \in Nat /\ k \in [Procs -> Nat]
      BY <2>0, ConstantsAssumption DEF LocalType
    <3> QED
      BY <3>1, <3>2
  <2>3. /\ failed' \in SUBSET Procs
        /\ why' \in [Procs -> {"write", "finalize", "commit"}]
        /\ image' \in [Procs -> [Secrets -> VaultVal]]
        /\ shot' \in [Procs -> [Files -> FileVal]]
        /\ parents' \in [Procs -> SUBSET Files]
        /\ made' \in [Procs -> SUBSET Files]
    BY <1>27, <2>0
       DEF LocalType, SharedType, memory, snap, UndoFiles, RestoreFile, Goto
  <2>4. \A q \in Procs \ {p} : pc'[q] = pc[q] /\ k'[q] = k[q]
    BY <1>27, <2>0 DEF LocalType, UndoFiles, RestoreFile, Goto
  <2>5. LoopBounds(p)'
    BY <1>27, <2>0 DEF LoopBounds, LocalType, UndoFiles, RestoreFile, Goto
  <2>6. \A q \in Procs : LoopBounds(q)'
    BY <2>4, <2>5 DEF LoopBounds
  <2> QED
    BY <2>1, <2>2, <2>3, <2>4, <2>5, <2>6 DEF LocalOK, LocalType
<1>28. ASSUME NEW p \in Procs, UndoVault(p) PROVE LocalOK'
  <2>0. k[p] \in 0..NSecrets
    BY <1>28 DEF LoopBounds, UndoVault
  <2>1. /\ pc' \in [Procs -> Labels]
        /\ mode' \in [Procs -> {"Pending", "Claimed", "post"}]
    BY <1>28, <2>0
       DEF LocalType, Labels, memory, UndoVault, RestoreEntry, Abort,
           ApplyFails, Goto
  <2>2. k' \in [Procs -> Nat]
    BY <1>28, <2>0
       DEF LocalType, LoopBounds, memory, UndoVault, RestoreEntry, Abort,
           ApplyFails, Goto
  <2>3. /\ failed' \in SUBSET Procs
        /\ why' \in [Procs -> {"write", "finalize", "commit"}]
        /\ image' \in [Procs -> [Secrets -> VaultVal]]
        /\ shot' \in [Procs -> [Files -> FileVal]]
        /\ parents' \in [Procs -> SUBSET Files]
        /\ made' \in [Procs -> SUBSET Files]
    BY <1>28, <2>0
       DEF LocalType, SharedType, memory, snap, UndoVault, RestoreEntry, Abort,
           ApplyFails, Goto
  <2>4. \A q \in Procs \ {p} : pc'[q] = pc[q] /\ k'[q] = k[q]
    BY <1>28, <2>0
       DEF LocalType, UndoVault, RestoreEntry, Abort, ApplyFails, Goto
  <2>5. LoopBounds(p)'
    BY <1>28, <2>0
       DEF LoopBounds, LocalType, UndoVault, RestoreEntry, Abort, ApplyFails,
           Goto
  <2>6. \A q \in Procs : LoopBounds(q)'
    BY <2>4, <2>5 DEF LoopBounds
  <2> QED
    BY <2>1, <2>2, <2>3, <2>4, <2>5, <2>6 DEF LocalOK, LocalType
<1>29. ASSUME NEW p \in Procs, Crash(p) PROVE LocalOK'
  BY <1>29, ExitLocal DEF Crash
<1>30. CASE Tick \/ Foreign
  BY <1>30
     DEF Tick, Foreign, EditFile, VaultForeign, LocalOK, LocalType, LoopBounds,
         memory
<1>31. CASE UNCHANGED vars
  BY <1>31 DEF vars, LocalOK, LocalType, LoopBounds
<1> HIDE DEF TypeOK
<1> QED
  BY <1>1, <1>2, <1>3, <1>4, <1>5, <1>6, <1>7, <1>8, <1>9, <1>10, <1>11, <1>12,
     <1>13, <1>14, <1>15, <1>16, <1>17, <1>18, <1>19, <1>20, <1>21, <1>22,
     <1>23, <1>24, <1>25, <1>26, <1>27, <1>28, <1>29, <1>30, <1>31, <1>32
     DEF Next, Work

\* In every reachable state every variable has its type and no loop over the
\* planned files or vault entries is out of bounds, for any number of
\* processes, files and secrets.
THEOREM TypeCorrect == Spec => []TypeOK
<1>1. TypeOK /\ [Next]_vars => TypeOK'
  BY SharedStep, LocalStep DEF TypeOK, LocalOK
<1> QED
  BY <1>1, TypeInit, PTL DEF Spec

-----------------------------------------------------------------------------
(* Foreign edits, for any number of processes                              *)

\* The only step of the program that replaces an edited file is the write of an
\* apply whose snapshot holds that edit.
LEMMA EditReplaced ==
  ASSUME TypeOK, Next, NEW f \in Files, files[f] \in Edits, files'[f] # files[f]
  PROVE  \/ EditFile(f)
         \/ \E p \in Procs : WriteFile(p) /\ k[p] = f /\ shot[p][f] = files[f]
<1>0. files \in [Files -> FileVal] /\ files[f] # "after"
  BY DEF TypeOK, SharedType, Edits
<1>1. ASSUME NEW p \in Procs, NEW g \in Files, RestoreFile(p, g) PROVE FALSE
  BY <1>0, <1>1 DEF RestoreFile
<1>2. ASSUME NEW p \in Procs, RecoverFiles(p) PROVE FALSE
  <2>1. k[p] \in 0..NFiles
    BY <1>2 DEF TypeOK, LoopBounds, RecoverFiles
  <2> QED
    BY <1>1, <1>2, <2>1 DEF RecoverFiles, Files
<1>3. ASSUME NEW p \in Procs, UndoFiles(p) PROVE FALSE
  <2>1. k[p] \in 0..NFiles
    BY <1>3 DEF TypeOK, LoopBounds, UndoFiles
  <2> QED
    BY <1>1, <1>3, <2>1 DEF UndoFiles, Files
<1>4. ASSUME NEW p \in Procs, WriteFile(p)
      PROVE  k[p] = f /\ shot[p][f] = files[f]
  BY <1>0, <1>4 DEF WriteFile
<1>5. ASSUME NEW g \in Files, EditFile(g) PROVE g = f
  BY <1>0, <1>5 DEF EditFile
<1>6. ASSUME NEW p \in Procs, ReadStatus(p) \/ Confirm(p) \/ Crash(p) PROVE FALSE
  BY <1>6 DEF ReadStatus, Confirm, Crash, shared
<1>7. ASSUME NEW p \in Procs, Work(p),
             ~RecoverFiles(p), ~UndoFiles(p), ~WriteFile(p)
      PROVE  FALSE
  BY <1>7
     DEF Work, RebuildPlan, LockProject, LoadJournal, RecoverLock, RecoverCheck,
         RecoverPayload, RecoverVault, RecoverMark, RolledBack, Absent, Complete,
         ClearJournal, Claim, ApplyLock, Prepare, Validate, Capture,
         CreateJournal, Finalize, SetFilesApplied, SetCommitStarted, SetApplied,
         SetPhase, Commit, UndoVault, shared
<1> QED
  BY <1>2, <1>3, <1>4, <1>5, <1>6, <1>7 DEF Next, Foreign, Tick, VaultForeign

\* However many processes run the command, no rollback and no recovery replaces
\* a file somebody else has edited; an apply does so only when capture_snapshot
\* took that very edit for the before-image.
THEOREM EditsReplacedFromSnapshot == Spec => EditsReplacedBySnapshot
<1> DEFINE Known == \A f \in Files : files[f] \in Edits /\ files'[f] # files[f] =>
              \/ EditFile(f)
              \/ \E p \in Procs : WriteFile(p) /\ k[p] = f /\ shot[p][f] = files[f]
<1>1. TypeOK /\ [Next]_vars => [Known]_vars
  BY EditReplaced
<1> QED
  BY <1>1, TypeCorrect, PTL DEF Spec, EditsReplacedBySnapshot

-----------------------------------------------------------------------------
(* The inductive invariant for one process at a time                       *)

\* One terminal runs the command, though it may crash and be run again.
OneProcess == \A p, q \in Procs : p = q

NoFileAfter  == \A f \in Files : files[f] # "after"
NoFileBefore == \A f \in Files : files[f] # "before"
NoSecret     == \A s \in Secrets : vault[s] # "secret"
NoneOld      == \A s \in Secrets : vault[s] # "old"

\* What the journal and the request say, taken together, about the workspace.
RequestInv ==
  /\ jphase \in Incomplete => request = "Claimed"
  /\ jphase = "Applied" =>
       request \in {"Claimed", "Applied"} /\ NoFileBefore /\ NoneOld
  /\ request = "Applied" =>
       jphase \in {"none", "Applied"} /\ NoFileBefore /\ NoneOld
  /\ jphase \in {"none", "RolledBack"} /\ request # "Applied" =>
       NoFileAfter /\ NoSecret

\* No before-image is the secret itself: it was taken with no effect pending.
ImageInv ==
  /\ \A s \in Secrets : jimage[s] # "secret"
  /\ \A p \in Procs : \A s \in Secrets : image[p][s] # "secret"

\* A running process works on a live request, a claimed one once it applies.
ClaimInv(p) ==
  /\ pc[p] \notin {"idle", "clear"} => request \in {"Pending", "Claimed"}
  /\ pc[p] \notin {"idle", "clear"} /\ mode[p] # "Pending" =>
       request = "Claimed"
  /\ pc[p] \in {"applyLock", "prepare", "validate", "capture", "journal"} =>
       request = "Claimed"

Planning ==
  {"confirm", "claim", "applyLock", "prepare", "validate", "capture", "journal"}

Recovering ==
  {"recoverLock", "recoverCheck", "recoverPayload", "recoverVault",
   "recoverFiles", "recoverMark", "undo", "undoVault"}

\* The phase on disk at each place of run_apply.
PhaseInv(p) ==
  /\ pc[p] \in Planning \cup {"absent"} => jphase = "none"
  /\ pc[p] \in {"write", "filesApplied"} => jphase = "Prepared"
  /\ pc[p] = "commitStarted" => jphase = "FilesApplied"
  /\ pc[p] \in {"commit", "applied"} => jphase = "CommitStarted"
  /\ pc[p] \in Recovering => jphase \in Incomplete
  /\ pc[p] = "rolledBack" => jphase = "RolledBack"
  /\ pc[p] = "complete" => jphase = "Applied"
  /\ pc[p] = "clear" => \/ jphase = "RolledBack"
                        \/ jphase = "Applied" /\ request = "Applied"

\* How far a forward run has come.
EffectInv(p) ==
  /\ pc[p] \in {"write", "filesApplied", "commitStarted"} => NoSecret
  /\ pc[p] \in {"filesApplied", "commitStarted", "commit", "applied"} =>
       NoFileBefore
  /\ pc[p] = "commit" => \A s \in Secrets : s < k[p] => vault[s] # "old"
  /\ pc[p] = "applied" => NoneOld

\* How far a rollback or a recovery that has met no error has come.
UndoInv(p) ==
  /\ pc[p] = "undo" /\ p \notin failed =>
       \A f \in Files : f > k[p] => files[f] # "after"
  /\ pc[p] = "undoVault" /\ p \notin failed => NoFileAfter
  /\ pc[p] \in {"undo", "undoVault"} /\ why[p] # "commit" => NoSecret
  /\ pc[p] = "recoverVault" /\ p \notin failed =>
       \A s \in Secrets : s > k[p] => vault[s] # "secret"
  /\ pc[p] \in {"recoverFiles", "recoverMark"} /\ p \notin failed => NoSecret
  /\ pc[p] = "recoverFiles" /\ p \notin failed =>
       \A f \in Files : f > k[p] => files[f] # "after"
  /\ pc[p] = "recoverMark" => p \notin failed /\ NoFileAfter

\* The inductive invariant behind the safety theorems below.
Inv ==
  /\ RequestInv /\ ImageInv
  /\ \A p \in Procs : ClaimInv(p) /\ PhaseInv(p) /\ EffectInv(p) /\ UndoInv(p)

\* No before-image of a file is the written one, and an apply that writes has
\* its before-images in the journal.
ShotInv ==
  /\ \A f \in Files : jshot[f] # "after"
  /\ \A p \in Procs : \A f \in Files : shot[p][f] # "after"
  /\ \A p \in Procs : pc[p] = "write" => jshot = shot[p]

LEMMA ShotInit == Init => ShotInv
BY DEF Init, ShotInv, OldShot

LEMMA InvInit == Init => Inv
BY DEF Init, Inv, RequestInv, ImageInv, ClaimInv, PhaseInv, EffectInv, UndoInv,
       NoFileAfter, NoSecret, OldImage, Incomplete, Planning, Recovering

LEMMA JustAbove == \A m, n \in Nat : m > n - 1 => m = n \/ m > n
OBVIOUS

LEMMA FilesNat == Files \subseteq Nat
BY DEF Files

LEMMA SecretsNat == Secrets \subseteq Nat
BY DEF Secrets

LEMMA UndoVaultClaimInv ==
  ASSUME OneProcess, TypeOK, Inv, NEW p \in Procs, UndoVault(p)
  PROVE  ClaimInv(p)'
<1> USE DEF TypeOK, LocalType, Inv, ClaimInv
<1>1. request = "Claimed"
  BY DEF UndoVault, PhaseInv, Recovering, RequestInv
<1>2. request' = request
  BY DEF UndoVault
<1> QED
  BY <1>1, <1>2

LEMMA UndoFilesUndoInv ==
  ASSUME OneProcess, TypeOK, Inv, ShotInv, NEW p \in Procs, UndoFiles(p)
  PROVE  UndoInv(p)'
<1> USE ConstantsAssumption DEF TypeOK, LocalType, Inv
<1>0. k[p] \in 0..NFiles /\ pc[p] = "undo" /\ UNCHANGED <<vault, why>>
  BY DEF LoopBounds, UndoFiles
<1>1. CASE /\ k[p] > 0 /\ RestoreFile(p, k[p])
           /\ k' = [k EXCEPT ![p] = k[p] - 1] /\ UNCHANGED pc
  <2>1. pc'[p] = "undo" /\ k'[p] = k[p] - 1 /\ k[p] \in Files
    BY <1>0, <1>1 DEF Files
  <2>2. p \notin failed' =>
          p \notin failed /\ files' = [files EXCEPT ![k[p]] = shot[p][k[p]]]
    BY <1>1, <2>1 DEF RestoreFile, SharedType
  <2>3. \A f \in Files : f > k'[p] => f = k[p] \/ f > k[p]
    BY <2>1, FilesNat, JustAbove
  <2>4. p \notin failed => \A f \in Files : f > k[p] => files[f] # "after"
    BY <1>0 DEF UndoInv
  <2>6. shot[p][k[p]] # "after"
    BY <2>1 DEF ShotInv
  <2>5. p \notin failed' => \A f \in Files : f > k'[p] => files'[f] # "after"
    BY <2>1, <2>2, <2>3, <2>4, <2>6 DEF SharedType
  <2> QED
    BY <1>0, <2>1, <2>5 DEF UndoInv, NoSecret
<1>2. CASE Goto(p, "undoVault") /\ p \in failed'
  BY <1>0, <1>2 DEF UndoInv, NoSecret, Goto
<1>3. CASE Goto(p, "undoVault") /\ k[p] = 0 /\ UNCHANGED <<files, failed>>
  BY <1>0, <1>3 DEF UndoInv, NoSecret, NoFileAfter, Goto, Files
<1> QED
  BY <1>1, <1>2, <1>3 DEF UndoFiles

LEMMA CommitEffectInv ==
  ASSUME OneProcess, TypeOK, Inv, NEW p \in Procs, Commit(p)
  PROVE  EffectInv(p)'
<1> USE ConstantsAssumption DEF TypeOK, LocalType, Inv
<1>0. k[p] \in 1..(NSecrets + 1) /\ pc[p] = "commit" /\ UNCHANGED files
  BY DEF LoopBounds, Commit
<1>1. CASE /\ k[p] <= NSecrets /\ vault' = [vault EXCEPT ![k[p]] = "secret"]
           /\ k' = [k EXCEPT ![p] = k[p] + 1] /\ UNCHANGED pc
  <2>1. pc'[p] = "commit" /\ k'[p] = k[p] + 1 /\ k[p] \in Secrets
    BY <1>0, <1>1 DEF Secrets
  <2>2. \A s \in Secrets : vault'[s] = IF s = k[p] THEN "secret" ELSE vault[s]
    BY <1>1, <2>1 DEF SharedType
  <2>3. \A s \in Secrets : s < k'[p] => s = k[p] \/ s < k[p]
    BY <1>0, <2>1 DEF Secrets
  <2>4. \A s \in Secrets : s < k[p] => vault[s] # "old"
    BY <1>0 DEF EffectInv
  <2>5. \A s \in Secrets : s < k'[p] => vault'[s] # "old"
    BY <2>2, <2>3, <2>4
  <2> QED
    BY <1>0, <2>1, <2>5 DEF EffectInv, NoFileBefore
<1>2. CASE StartUndo(p, "commit")
  BY <1>0, <1>2 DEF EffectInv, StartUndo, Goto
<1>3. CASE k[p] > NSecrets /\ Goto(p, "applied") /\ UNCHANGED vault
  BY <1>0, <1>3 DEF EffectInv, NoFileBefore, NoneOld, Goto, Secrets
<1> QED
  BY <1>1, <1>2, <1>3 DEF Commit

LEMMA RecoverVaultUndoInv ==
  ASSUME OneProcess, TypeOK, Inv, NEW p \in Procs, RecoverVault(p)
  PROVE  UndoInv(p)'
<1> USE ConstantsAssumption DEF TypeOK, LocalType, Inv
<1>0. k[p] \in 0..NSecrets /\ pc[p] = "recoverVault" /\ UNCHANGED <<files, why>>
  BY DEF LoopBounds, RecoverVault
<1>1. CASE RestoreEntry(p) /\ UNCHANGED pc
  <2>1. pc'[p] = "recoverVault" /\ k'[p] = k[p] - 1 /\ k[p] \in Secrets
    BY <1>0, <1>1 DEF Secrets, RestoreEntry
  <2>2. p \notin failed' =>
          /\ p \notin failed /\ vault'[k[p]] # "secret"
          /\ \A s \in Secrets \ {k[p]} : vault'[s] = vault[s]
    BY <1>1, <2>1 DEF RestoreEntry, SharedType, ImageInv
  <2>3. \A s \in Secrets : s > k'[p] => s = k[p] \/ s > k[p]
    BY <2>1, SecretsNat, JustAbove
  <2>4. p \notin failed => \A s \in Secrets : s > k[p] => vault[s] # "secret"
    BY <1>0 DEF UndoInv
  <2>5. p \notin failed' => \A s \in Secrets : s > k'[p] => vault'[s] # "secret"
    BY <2>2, <2>3, <2>4
  <2> QED
    BY <1>0, <2>1, <2>5 DEF UndoInv
<1>2. CASE /\ k[p] = 0 /\ Goto(p, "recoverFiles")
           /\ k' = [k EXCEPT ![p] = NFiles] /\ UNCHANGED <<vault, failed>>
  BY <1>0, <1>2 DEF UndoInv, NoSecret, Goto, Secrets, Files
<1> QED
  BY <1>1, <1>2 DEF RecoverVault

LEMMA RecoverFilesUndoInv ==
  ASSUME OneProcess, TypeOK, Inv, ShotInv, NEW p \in Procs, RecoverFiles(p)
  PROVE  UndoInv(p)'
<1> USE ConstantsAssumption DEF TypeOK, LocalType, Inv
<1>0. k[p] \in 0..NFiles /\ pc[p] = "recoverFiles" /\ UNCHANGED vault
  BY DEF LoopBounds, RecoverFiles
<1>1. CASE k[p] > 0
  <2>1. /\ RestoreFile(p, k[p]) /\ k' = [k EXCEPT ![p] = k[p] - 1]
        /\ UNCHANGED <<pc, why>>
    BY <1>1 DEF RecoverFiles
  <2>2. pc'[p] = "recoverFiles" /\ k'[p] = k[p] - 1 /\ k[p] \in Files
    BY <1>0, <1>1, <2>1 DEF Files
  <2>3. shot[p][k[p]] # "after"
    BY <2>2 DEF ShotInv
  <2>4. p \notin failed' =>
          p \notin failed /\ files' = [files EXCEPT ![k[p]] = shot[p][k[p]]]
    BY <2>1, <2>2 DEF RestoreFile, SharedType
  <2>5. \A f \in Files : f > k'[p] => f = k[p] \/ f > k[p]
    BY <2>2, FilesNat, JustAbove
  <2>6. p \notin failed => NoSecret /\ \A f \in Files : f > k[p] => files[f] # "after"
    BY <1>0 DEF UndoInv
  <2>7. p \notin failed' => \A f \in Files : f > k'[p] => files'[f] # "after"
    BY <2>2, <2>3, <2>4, <2>5, <2>6 DEF SharedType
  <2> QED
    BY <1>0, <2>2, <2>4, <2>6, <2>7 DEF UndoInv, NoSecret
<1>2. CASE k[p] = 0 /\ Goto(p, "recoverMark") /\ p \notin failed /\ UNCHANGED <<files, memory>>
  BY <1>0, <1>2 DEF UndoInv, NoSecret, NoFileAfter, Goto, Files, memory
<1>3. CASE k[p] = 0 /\ Exit(p)
  BY <1>3 DEF UndoInv, Exit, Goto
<1> QED
  BY <1>0, <1>1, <1>2, <1>3 DEF RecoverFiles

\* Every step of a single process, of the clock and of a foreign writer
\* preserves the invariant.
LEMMA InvStep ==
  ASSUME OneProcess, TypeOK, Inv, ShotInv, [Next]_vars
  PROVE  Inv'
<1> USE ConstantsAssumption
    DEF OneProcess, TypeOK, SharedType, LocalType, Inv, locks, shared, snap,
        memory, Incomplete
<1>1. ASSUME NEW p \in Procs, LoadJournal(p) PROVE Inv'
  <2>1. RequestInv' /\ ImageInv'
    BY <1>1
       DEF RequestInv, PhaseInv, ClaimInv, EffectInv, UndoInv, NoFileAfter,
           NoFileBefore, NoSecret, NoneOld, LoopBounds, Files, Secrets,
           Planning, Recovering, ImageInv, OldImage, LoadJournal, Goto
  <2>2. ClaimInv(p)' /\ PhaseInv(p)'
    BY <1>1
       DEF ClaimInv, PhaseInv, RequestInv, Labels, Planning, Recovering,
           LoadJournal, Goto
  <2>3. EffectInv(p)' /\ UndoInv(p)'
    BY <1>1
       DEF EffectInv, PhaseInv, RequestInv, ClaimInv, NoFileAfter,
           NoFileBefore, NoSecret, NoneOld, LoopBounds, Files, Secrets,
           Planning, UndoInv, ImageInv, LoadJournal, Goto
  <2> QED
    BY <2>1, <2>2, <2>3
<1>2. ASSUME NEW p \in Procs, RecoverCheck(p) PROVE Inv'
  <2>1. RequestInv' /\ ImageInv'
    BY <1>2
       DEF RequestInv, PhaseInv, ClaimInv, EffectInv, UndoInv, NoFileAfter,
           NoFileBefore, NoSecret, NoneOld, LoopBounds, Files, Secrets,
           Planning, Recovering, ImageInv, OldImage, RecoverCheck, Exit, Goto,
           Release
  <2>2. ClaimInv(p)' /\ PhaseInv(p)'
    BY <1>2
       DEF ClaimInv, PhaseInv, RequestInv, Labels, Planning, Recovering,
           RecoverCheck, Exit, Goto, Release
  <2>3. EffectInv(p)' /\ UndoInv(p)'
    BY <1>2
       DEF EffectInv, PhaseInv, RequestInv, ClaimInv, NoFileAfter,
           NoFileBefore, NoSecret, NoneOld, LoopBounds, Files, Secrets,
           Planning, UndoInv, ImageInv, RecoverCheck, Exit, Goto, Release
  <2> QED
    BY <2>1, <2>2, <2>3
<1>3. ASSUME NEW p \in Procs, RecoverVault(p) PROVE Inv'
  <2>1. RequestInv' /\ ImageInv'
    BY <1>3
       DEF RequestInv, PhaseInv, ClaimInv, EffectInv, UndoInv, NoFileAfter,
           NoFileBefore, NoSecret, NoneOld, LoopBounds, Files, Secrets,
           Planning, Recovering, ImageInv, OldImage, RecoverVault, Disturb,
           Goto, Release, RestoreEntry
  <2>2. ClaimInv(p)' /\ PhaseInv(p)'
    BY <1>3
       DEF ClaimInv, PhaseInv, RequestInv, Labels, Planning, Recovering,
           RecoverVault, Disturb, Goto, Release, RestoreEntry
  <2>3. EffectInv(p)'
    BY <1>3
       DEF EffectInv, PhaseInv, RequestInv, ClaimInv, NoFileAfter,
           NoFileBefore, NoSecret, NoneOld, LoopBounds, Files, Secrets,
           Planning, RecoverVault, Disturb, Goto, Release, RestoreEntry
  <2>4. UndoInv(p)'
    BY <1>3, RecoverVaultUndoInv
  <2> QED
    BY <2>1, <2>2, <2>3, <2>4
<1>4. ASSUME NEW p \in Procs, RecoverFiles(p) PROVE Inv'
  <2>1. RequestInv'
    BY <1>4
       DEF RequestInv, PhaseInv, ClaimInv, EffectInv, UndoInv, NoFileAfter,
           NoFileBefore, NoSecret, NoneOld, LoopBounds, Files, Secrets,
           Planning, Recovering, RecoverFiles, Disturb, Exit, Goto, Release,
           RestoreFile
  <2>2. ImageInv'
    BY <1>4
       DEF ImageInv, OldImage, RequestInv, PhaseInv, ClaimInv, NoSecret,
           Planning, RecoverFiles, Disturb, Exit, Goto, Release, RestoreFile
  <2>3. ClaimInv(p)'
    BY <1>4
       DEF ClaimInv, PhaseInv, RequestInv, Labels, Planning, Recovering,
           RecoverFiles, Disturb, Exit, Goto, Release, RestoreFile
  <2>4. PhaseInv(p)'
    BY <1>4
       DEF PhaseInv, ClaimInv, RequestInv, Planning, Recovering, RecoverFiles,
           Disturb, Exit, Goto, Release, RestoreFile
  <2>5. EffectInv(p)'
    BY <1>4
       DEF EffectInv, PhaseInv, RequestInv, ClaimInv, NoFileAfter,
           NoFileBefore, NoSecret, NoneOld, LoopBounds, Files, Secrets,
           Planning, RecoverFiles, Disturb, Exit, Goto, Release, RestoreFile
  <2>6. UndoInv(p)'
    BY <1>4, RecoverFilesUndoInv
  <2> QED
    BY <2>1, <2>2, <2>3, <2>4, <2>5, <2>6
<1>5. ASSUME NEW p \in Procs, RecoverMark(p) PROVE Inv'
  <2>1. RequestInv' /\ ImageInv'
    BY <1>5
       DEF RequestInv, PhaseInv, ClaimInv, EffectInv, UndoInv, NoFileAfter,
           NoFileBefore, NoSecret, NoneOld, LoopBounds, Files, Secrets,
           Planning, Recovering, ImageInv, OldImage, RecoverMark, Disturb,
           Exit, Goto, Persist, PersistFaults, Release
  <2>2. ClaimInv(p)' /\ PhaseInv(p)'
    BY <1>5
       DEF ClaimInv, PhaseInv, RequestInv, Labels, Planning, Recovering,
           RecoverMark, Disturb, Exit, Goto, Persist, PersistFaults, Release
  <2>3. EffectInv(p)' /\ UndoInv(p)'
    BY <1>5
       DEF EffectInv, PhaseInv, RequestInv, ClaimInv, NoFileAfter,
           NoFileBefore, NoSecret, NoneOld, LoopBounds, Files, Secrets,
           Planning, UndoInv, ImageInv, RecoverMark, Disturb, Exit, Goto,
           Persist, PersistFaults, Release
  <2> QED
    BY <2>1, <2>2, <2>3
<1>6. ASSUME NEW p \in Procs, Finalize(p) PROVE Inv'
  <2>1. RequestInv' /\ ImageInv'
    BY <1>6
       DEF RequestInv, PhaseInv, ClaimInv, EffectInv, UndoInv, NoFileAfter,
           NoFileBefore, NoSecret, NoneOld, LoopBounds, Files, Secrets,
           Planning, Recovering, ImageInv, OldImage, Finalize, Goto, StartUndo
  <2>2. ClaimInv(p)' /\ PhaseInv(p)'
    BY <1>6
       DEF ClaimInv, PhaseInv, RequestInv, Labels, Planning, Recovering,
           Finalize, Goto, StartUndo
  <2>3. EffectInv(p)' /\ UndoInv(p)'
    BY <1>6
       DEF EffectInv, PhaseInv, RequestInv, ClaimInv, NoFileAfter,
           NoFileBefore, NoSecret, NoneOld, LoopBounds, Files, Secrets,
           Planning, UndoInv, ImageInv, Finalize, Goto, StartUndo
  <2> QED
    BY <2>1, <2>2, <2>3
<1>7. ASSUME NEW p \in Procs, Commit(p) PROVE Inv'
  <2>1. RequestInv' /\ ImageInv'
    BY <1>7
       DEF RequestInv, PhaseInv, ClaimInv, EffectInv, UndoInv, NoFileAfter,
           NoFileBefore, NoSecret, NoneOld, LoopBounds, Files, Secrets,
           Planning, Recovering, ImageInv, OldImage, Commit, Disturb, Goto,
           Release, StartUndo, ValueMatches
  <2>2. ClaimInv(p)' /\ PhaseInv(p)'
    BY <1>7
       DEF ClaimInv, PhaseInv, RequestInv, Labels, Planning, Recovering,
           Commit, Disturb, Goto, Release, StartUndo, ValueMatches
  <2>3. EffectInv(p)'
    BY <1>7, CommitEffectInv
  <2>4. UndoInv(p)'
    BY <1>7
       DEF UndoInv, EffectInv, ImageInv, NoFileAfter, NoSecret, LoopBounds,
           Files, Secrets, Commit, Disturb, Goto, Release, StartUndo,
           ValueMatches
  <2> QED
    BY <2>1, <2>2, <2>3, <2>4
<1>8. ASSUME NEW p \in Procs, UndoFiles(p) PROVE Inv'
  <2>1. RequestInv' /\ ImageInv'
    BY <1>8
       DEF RequestInv, PhaseInv, ClaimInv, EffectInv, UndoInv, NoFileAfter,
           NoFileBefore, NoSecret, NoneOld, LoopBounds, Files, Secrets,
           Planning, Recovering, ImageInv, OldImage, UndoFiles, Disturb, Goto,
           RestoreFile
  <2>2. ClaimInv(p)' /\ PhaseInv(p)'
    BY <1>8
       DEF ClaimInv, PhaseInv, RequestInv, Labels, Planning, Recovering,
           UndoFiles, Disturb, Goto, RestoreFile
  <2>3. EffectInv(p)'
    BY <1>8
       DEF EffectInv, PhaseInv, RequestInv, ClaimInv, NoFileAfter,
           NoFileBefore, NoSecret, NoneOld, LoopBounds, Files, Secrets,
           Planning, UndoFiles, Disturb, Goto, RestoreFile
  <2>4. UndoInv(p)'
    BY <1>8, UndoFilesUndoInv
  <2> QED
    BY <2>1, <2>2, <2>3, <2>4
<1>9. ASSUME NEW p \in Procs, UndoVault(p) PROVE Inv'
  <2>1. RequestInv' /\ ImageInv'
    BY <1>9
       DEF RequestInv, PhaseInv, ClaimInv, EffectInv, UndoInv, NoFileAfter,
           NoFileBefore, NoSecret, NoneOld, LoopBounds, Files, Secrets,
           Planning, Recovering, ImageInv, OldImage, UndoVault, Abort,
           ApplyFails, Disturb, Goto, Persist, PersistFaults, Release,
           RestoreEntry
  <2>2. ClaimInv(p)'
    BY <1>9, UndoVaultClaimInv
  <2>3. PhaseInv(p)'
    BY <1>9
       DEF PhaseInv, ClaimInv, RequestInv, Planning, Recovering, UndoVault,
           Abort, ApplyFails, Disturb, Goto, Persist, PersistFaults, Release,
           RestoreEntry
  <2>4. EffectInv(p)' /\ UndoInv(p)'
    BY <1>9
       DEF EffectInv, PhaseInv, RequestInv, ClaimInv, NoFileAfter,
           NoFileBefore, NoSecret, NoneOld, LoopBounds, Files, Secrets,
           Planning, UndoInv, ImageInv, UndoVault, Abort, ApplyFails, Disturb,
           Goto, Persist, PersistFaults, Release, RestoreEntry
  <2> QED
    BY <2>1, <2>2, <2>3, <2>4
<1> USE DEF RequestInv, ImageInv, ClaimInv, PhaseInv, EffectInv, UndoInv,
            NoFileAfter, NoFileBefore, NoSecret, NoneOld, LoopBounds, Files,
            Secrets, Planning, Recovering, OldImage
<1>10. ASSUME NEW p \in Procs, ReadStatus(p) PROVE Inv'
  BY <1>10 DEF ReadStatus, Goto, PendingExpired
<1>11. ASSUME NEW p \in Procs, RebuildPlan(p) PROVE Inv'
  BY <1>11 DEF RebuildPlan, Exit, Goto, Release
<1>12. ASSUME NEW p \in Procs, LockProject(p) PROVE Inv'
  BY <1>12 DEF LockProject, Exit, Goto, Release
<1>13. ASSUME NEW p \in Procs, RecoverLock(p) PROVE Inv'
  BY <1>13 DEF RecoverLock, Goto
<1>14. ASSUME NEW p \in Procs, RecoverPayload(p) PROVE Inv'
  BY <1>14 DEF RecoverPayload, Exit, Goto, Release
<1>15. ASSUME NEW p \in Procs, RolledBack(p) PROVE Inv'
  BY <1>15 DEF RolledBack, Exit, Goto, Release
<1>16. ASSUME NEW p \in Procs, Absent(p) PROVE Inv'
  BY <1>16 DEF Absent, Exit, Goto, Release
<1>17. ASSUME NEW p \in Procs, Complete(p) PROVE Inv'
  BY <1>17 DEF Complete, Exit, Goto, Release
<1>18. ASSUME NEW p \in Procs, ClearJournal(p) PROVE Inv'
  BY <1>18 DEF ClearJournal, Exit, Goto, Release
<1>19. ASSUME NEW p \in Procs, Confirm(p) PROVE Inv'
  BY <1>19 DEF Confirm, Exit, Goto, Release
<1>20. ASSUME NEW p \in Procs, Claim(p) PROVE Inv'
  BY <1>20 DEF Claim, Exit, Goto, Release
<1>21. ASSUME NEW p \in Procs, ApplyLock(p) PROVE Inv'
  BY <1>21 DEF ApplyLock, Goto
<1>22. ASSUME NEW p \in Procs, Prepare(p) PROVE Inv'
  <2>1. UNCHANGED <<request, files, vault, jphase, jimage, k, failed, why>>
    BY <1>22 DEF Prepare
  <2>2. pc[p] = "prepare" /\ request = "Claimed" /\ jphase = "none" /\ NoSecret
    BY <1>22 DEF Prepare
  <2>3. image' = image \/ image' = [image EXCEPT ![p] = vault]
    BY <1>22 DEF Prepare
  <2>4. pc' = [pc EXCEPT ![p] = "validate"] \/ pc' = [pc EXCEPT ![p] = "load"]
    BY <1>22 DEF Prepare, Abort, ApplyFails, Goto
  <2>5. ImageInv'
    BY <2>1, <2>2, <2>3
  <2>6. RequestInv'
    BY <2>1
  <2>7. ClaimInv(p)' /\ PhaseInv(p)' /\ EffectInv(p)' /\ UndoInv(p)'
    BY <2>1, <2>2, <2>4
  <2> QED
    BY <2>5, <2>6, <2>7
<1>23. ASSUME NEW p \in Procs, Capture(p) PROVE Inv'
  BY <1>23 DEF Capture, Abort, ApplyFails, Disturb, Goto, Release
<1>34. ASSUME NEW p \in Procs, Validate(p) PROVE Inv'
  BY <1>34 DEF Validate, Abort, ApplyFails, Disturb, Goto, Release
<1>24. ASSUME NEW p \in Procs, CreateJournal(p) PROVE Inv'
  BY <1>24 DEF CreateJournal, ApplyFails, Disturb, Goto, Persist, PersistFaults
<1>25. ASSUME NEW p \in Procs, WriteFile(p) PROVE Inv'
  BY <1>25 DEF WriteFile, Disturb, Goto, StartUndo
<1>26. ASSUME NEW p \in Procs, SetFilesApplied(p) PROVE Inv'
  BY <1>26
     DEF SetFilesApplied, ApplyFails, Disturb, Goto, Persist, PersistFaults,
         SetPhase
<1>27. ASSUME NEW p \in Procs, SetCommitStarted(p) PROVE Inv'
  BY <1>27
     DEF SetCommitStarted, ApplyFails, Disturb, Goto, Persist, PersistFaults,
         SetPhase
<1>28. ASSUME NEW p \in Procs, SetApplied(p) PROVE Inv'
  BY <1>28
     DEF SetApplied, ApplyFails, Disturb, Goto, Persist, PersistFaults,
         SetPhase
<1>29. ASSUME NEW p \in Procs, Crash(p) PROVE Inv'
  BY <1>29 DEF Crash, Disturb, Exit, Goto, Release
<1>30. CASE Tick
  BY <1>30 DEF Tick
<1>31. ASSUME NEW f \in Files, EditFile(f) PROVE Inv'
  BY <1>31 DEF EditFile, Disturb, Edits
<1>32. ASSUME NEW s \in Secrets, VaultForeign(s) PROVE Inv'
  BY <1>32 DEF VaultForeign, Disturb
<1>33. CASE UNCHANGED vars
  BY <1>33 DEF vars
<1> HIDE DEF Inv, TypeOK
<1> QED
  BY <1>1, <1>2, <1>3, <1>4, <1>5, <1>6, <1>7, <1>8, <1>9, <1>10, <1>11, <1>12,
     <1>13, <1>14, <1>15, <1>16, <1>17, <1>18, <1>19, <1>20, <1>21, <1>22,
     <1>23, <1>24, <1>25, <1>26, <1>27, <1>28, <1>29, <1>30, <1>31, <1>32,
     <1>33, <1>34
     DEF Next, Work, Foreign

\* A step that takes no before-image, leaves the journal alone and starts no
\* writing.
LEMMA ShotStays ==
  ASSUME OneProcess, TypeOK, ShotInv, NEW p \in Procs, UNCHANGED <<jshot, shot>>,
         pc'[p] = "write" => pc[p] = "write"
  PROVE  ShotInv'
BY DEF OneProcess, ShotInv

\* A process that ends, or leaves its place for another one than "write".
LEMMA ShotLeaves ==
  ASSUME OneProcess, TypeOK, ShotInv, NEW p \in Procs, NEW l \in Labels \ {"write"},
         Goto(p, l), UNCHANGED jshot \/ jshot' = shot[p] \/ jshot' = OldShot,
         shot' = shot \/ shot' = [shot EXCEPT ![p] = OldShot]
  PROVE  ShotInv'
<1>1. pc'[p] = l /\ shot \in [Procs -> [Files -> FileVal]]
  BY DEF Goto, TypeOK, LocalType
<1>2. \A f \in Files : OldShot[f] # "after"
  BY DEF OldShot
<1>3. \A f \in Files : jshot'[f] # "after" /\ shot'[p][f] # "after"
  BY <1>1, <1>2 DEF ShotInv
<1> QED
  BY <1>1, <1>3 DEF OneProcess, ShotInv

\* Every step of a single process, of the clock and of a foreign writer
\* preserves what the before-images of the files are.
LEMMA ShotStep ==
  ASSUME OneProcess, TypeOK, Inv, ShotInv, [Next]_vars
  PROVE  ShotInv'
<1>0. pc \in [Procs -> Labels] /\ shot \in [Procs -> [Files -> FileVal]]
  BY DEF TypeOK, LocalType
<1> DEFINE Stays(p) == UNCHANGED <<jshot, shot>> /\ (pc'[p] = "write" => pc[p] = "write")
<1>1. ASSUME NEW p \in Procs, Exit(p), UNCHANGED jshot \/ jshot' = OldShot \/ jshot' = shot[p]
      PROVE  ShotInv'
  BY <1>1, ShotLeaves DEF Exit, Labels
<1>2. ASSUME NEW p \in Procs, LoadJournal(p) PROVE ShotInv'
  <2>1. UNCHANGED jshot /\ pc'[p] # "write"
    BY <1>0, <1>2 DEF LoadJournal, Goto, shared
  <2>2. shot' = shot \/ shot' = [shot EXCEPT ![p] = jshot]
    BY <1>2 DEF LoadJournal
  <2> QED
    BY <1>0, <2>1, <2>2 DEF ShotInv, OneProcess
<1>3. ASSUME NEW p \in Procs, Capture(p) PROVE ShotInv'
  <2>1. UNCHANGED <<jshot, files>> /\ pc'[p] # "write"
    BY <1>0, <1>3 DEF Capture, Abort, ApplyFails, Goto, shared
  <2>2. shot' = shot \/ shot' = [shot EXCEPT ![p] = files]
    BY <1>3 DEF Capture, snap
  <2>3. \A f \in Files : files[f] # "after"
    BY <1>3 DEF Capture, Inv, PhaseInv, ClaimInv, RequestInv, Planning, NoFileAfter
  <2> QED
    BY <1>0, <2>1, <2>2, <2>3 DEF ShotInv, OneProcess
<1>4. ASSUME NEW p \in Procs, CreateJournal(p) PROVE ShotInv'
  <2>1. shot' = shot /\ (jshot' = jshot \/ jshot' = shot[p])
    BY <1>4 DEF CreateJournal, PersistFaults, Persist, snap
  <2>2. pc'[p] = "write" => jshot' = shot[p]
    BY <1>0, <1>4 DEF CreateJournal, Persist, ApplyFails, Goto
  <2> QED
    BY <2>1, <2>2 DEF ShotInv, OneProcess
<1>5. ASSUME NEW p \in Procs, NEW at \in Labels, NEW phase \in JournalPhase,
             NEW next \in Labels \ {"write"}, SetPhase(p, at, phase, next)
      PROVE  ShotInv'
  <2>1. shot' = shot /\ (UNCHANGED jshot \/ jshot' = shot[p])
    BY <1>5 DEF SetPhase, PersistFaults, Persist, snap
  <2>2. Goto(p, next) \/ Goto(p, "load")
    BY <1>5 DEF SetPhase, ApplyFails
  <2> QED
    BY <2>1, <2>2, ShotLeaves DEF Labels
<1>6. ASSUME NEW p \in Procs, SetFilesApplied(p) \/ SetCommitStarted(p) \/ SetApplied(p)
      PROVE  ShotInv'
  BY <1>5, <1>6
     DEF SetFilesApplied, SetCommitStarted, SetApplied, Labels, JournalPhase, Incomplete
<1>7. ASSUME NEW p \in Procs, UndoVault(p) PROVE ShotInv'
  <2>1. shot' = shot /\ (UNCHANGED jshot \/ jshot' = shot[p])
    BY <1>7 DEF UndoVault, PersistFaults, Persist, snap
  <2>2. pc'[p] # "write"
    BY <1>0, <1>7 DEF UndoVault, Abort, ApplyFails, Goto
  <2> QED
    BY <2>1, <2>2 DEF ShotInv, OneProcess
<1>8. ASSUME NEW p \in Procs, RecoverMark(p) PROVE ShotInv'
  <2>1. UNCHANGED jshot \/ jshot' = shot[p]
    BY <1>8 DEF RecoverMark, PersistFaults, Persist
  <2>2. Exit(p) \/ (Goto(p, "rolledBack") /\ UNCHANGED shot)
    BY <1>8 DEF RecoverMark, memory
  <2> QED
    BY <1>1, <2>1, <2>2, ShotLeaves DEF Labels
<1>9. ASSUME NEW p \in Procs,
             \/ RebuildPlan(p) \/ LockProject(p) \/ RecoverCheck(p) \/ RecoverPayload(p)
             \/ RecoverFiles(p) \/ RolledBack(p) \/ Absent(p) \/ Complete(p)
             \/ ClearJournal(p) \/ Confirm(p) \/ Claim(p) \/ Crash(p)
      PROVE  ShotInv'
  <2>1. Exit(p) \/ Stays(p)
    BY <1>0, <1>9
       DEF RebuildPlan, LockProject, RecoverCheck, RecoverPayload, RecoverFiles,
           RolledBack, Absent, Complete, ClearJournal, Confirm, Claim, Crash,
           shared, memory, snap, Goto
  <2>2. UNCHANGED jshot \/ jshot' = OldShot
    BY <1>9
       DEF RebuildPlan, LockProject, RecoverCheck, RecoverPayload, RecoverFiles,
           RolledBack, Absent, Complete, ClearJournal, Confirm, Claim, Crash, shared
  <2> QED
    BY <1>1, <2>1, <2>2, ShotStays
<1>10. ASSUME NEW p \in Procs,
             \/ ReadStatus(p) \/ RecoverLock(p) \/ RecoverVault(p) \/ ApplyLock(p)
             \/ Prepare(p) \/ Validate(p) \/ WriteFile(p) \/ Finalize(p)
             \/ Commit(p) \/ UndoFiles(p)
      PROVE  ShotInv'
  <2>1. UNCHANGED jshot
    BY <1>10
       DEF ReadStatus, RecoverLock, RecoverVault, ApplyLock, Prepare, Validate,
           WriteFile, Finalize, Commit, UndoFiles, shared
  <2>2. UNCHANGED shot
    BY <1>10, WriteFileSnapshot
       DEF ReadStatus, RecoverLock, RecoverVault, ApplyLock, Prepare, Validate,
           Finalize, Commit, UndoFiles, memory, snap
  <2>3. pc'[p] = "write" => pc[p] = "write"
    BY <1>0, <1>10
       DEF ReadStatus, RecoverLock, RecoverVault, ApplyLock, Prepare, Validate,
           WriteFile, Finalize, Commit, UndoFiles, Abort, ApplyFails, StartUndo, Goto
  <2> QED
    BY <2>1, <2>2, <2>3, ShotStays
<1>11. CASE Tick \/ Foreign \/ UNCHANGED vars
  <2>1. UNCHANGED <<jshot, shot, pc>>
    BY <1>11 DEF Tick, Foreign, EditFile, VaultForeign, memory, vars
  <2> QED
    BY <2>1 DEF ShotInv
<1> QED
  BY <1>2, <1>3, <1>4, <1>6, <1>7, <1>8, <1>9, <1>10, <1>11 DEF Next, Work

LEMMA InvCorrect == ASSUME OneProcess PROVE Spec => [](Inv /\ ShotInv)
<1>1. TypeOK /\ Inv /\ ShotInv /\ [Next]_vars => Inv' /\ ShotInv'
  BY InvStep, ShotStep
<1> QED
  BY <1>1, InvInit, ShotInit, TypeCorrect, PTL DEF Spec

\* One process at a time: a file somebody else has edited is written over only
\* while the unfinished journal holds that very edit as the before-image, so
\* that a rollback or a recovery brings it back.
THEOREM EditsKept == ASSUME OneProcess PROVE Spec => EditsPreserved
<1> DEFINE Kept == \A f \in Files : files[f] \in Edits /\ files'[f] # files[f] =>
              EditFile(f) \/ (jphase \in Incomplete /\ jshot[f] = files[f])
<1>1. TypeOK /\ Inv /\ ShotInv /\ [Next]_vars => [Kept]_vars
  <2> SUFFICES ASSUME TypeOK, Inv, ShotInv, Next, NEW f \in Files,
                      files[f] \in Edits, files'[f] # files[f], ~EditFile(f)
               PROVE  jphase \in Incomplete /\ jshot[f] = files[f]
    BY DEF vars
  <2>1. PICK p \in Procs : WriteFile(p) /\ k[p] = f /\ shot[p][f] = files[f]
    BY EditReplaced
  <2>2. pc[p] = "write"
    BY <2>1 DEF WriteFile
  <2>3. jphase = "Prepared" /\ jshot = shot[p]
    BY <2>2 DEF Inv, PhaseInv, ShotInv
  <2> QED
    BY <2>1, <2>3 DEF Incomplete
<1> QED
  BY <1>1, InvCorrect, TypeCorrect, PTL DEF Spec, EditsPreserved

\* One process at a time: through crashes, I/O errors, foreign edits and
\* foreign vault writes at any point, a secret whose plaintext has left its
\* dotenv file is in the vault or in an unfinished journal.
THEOREM SecretsKept == ASSUME OneProcess PROVE Spec => []SecretNeverLost
<1>1. TypeOK /\ Inv => SecretNeverLost
  BY ConstantsAssumption
     DEF Inv, RequestInv, SecretNeverLost, NoFileAfter, NoneOld, TypeOK,
         SharedType, JournalPhase
<1> QED
  BY <1>1, InvCorrect, TypeCorrect, PTL

\* One process at a time: a request is recorded as Applied only when no file
\* and no vault entry of its plan is left to apply.
THEOREM OutcomesTrue == ASSUME OneProcess PROVE Spec => []AppliedIsApplied
<1>1. TypeOK /\ Inv => AppliedIsApplied
  BY DEF Inv, RequestInv, AppliedIsApplied, NoFileBefore, NoneOld, TypeOK,
         SharedType, JournalPhase
<1> QED
  BY <1>1, InvCorrect, TypeCorrect, PTL

\* One process at a time: a request is recorded as RolledBack only when no
\* written file and no stored secret is left behind, through any sequence of
\* crashes and recoveries before it.
THEOREM RollbacksTrue == ASSUME OneProcess PROVE Spec => []RolledBackIsClean
<1>1. TypeOK /\ Inv => RolledBackIsClean
  BY DEF Inv, RequestInv, RolledBackIsClean, NoFileAfter, NoSecret, TypeOK,
         SharedType, JournalPhase
<1> QED
  BY <1>1, InvCorrect, TypeCorrect, PTL

\* One process at a time: nothing the program wrote is left without a journal
\* or an Applied request that answers for it.
THEOREM EffectsKept == ASSUME OneProcess PROVE Spec => []EffectsAccountedFor
<1>1. TypeOK /\ Inv => EffectsAccountedFor
  BY DEF Inv, RequestInv, EffectsAccountedFor, NoFileAfter, NoSecret, TypeOK,
         SharedType, JournalPhase
<1> QED
  BY <1>1, InvCorrect, TypeCorrect, PTL

-----------------------------------------------------------------------------
(* The request's lifecycle, for any number of processes                    *)

\* The command implements RequestLifecycle: whatever the interleaving, crashes
\* and expiry, the request is claimed at most once and its outcome is final.
THEOREM RequestImplements == Spec => LifecycleKept
<1> USE DEF Lifecycle!Next, Lifecycle!Create, Lifecycle!Expire, Lifecycle!Prune,
            Lifecycle!Claim, Lifecycle!Settle, Lifecycle!Outcome
<1>1. Init => Lifecycle!Init
  BY DEF Init, Lifecycle!Init
<1>2. [Next]_vars => [Lifecycle!Next]_request
  <2> SUFFICES ASSUME Next PROVE [Lifecycle!Next]_request
    BY DEF vars
  <2>1. ASSUME NEW p \in Procs, ReadStatus(p) \/ Claim(p)
        PROVE  [Lifecycle!Next]_request
    BY <2>1 DEF ReadStatus, Claim, PendingExpired
  <2>2. ASSUME NEW p \in Procs, RolledBack(p) \/ Absent(p) \/ Complete(p)
        PROVE  [Lifecycle!Next]_request
    BY <2>2 DEF RolledBack, Absent, Complete
  <2>3. ASSUME NEW p \in Procs, Work(p),
               ~Claim(p), ~RolledBack(p), ~Absent(p), ~Complete(p)
        PROVE  UNCHANGED request
    BY <2>3
       DEF Work, RebuildPlan, LockProject, LoadJournal, RecoverLock,
           RecoverCheck, RecoverPayload, RecoverVault, RecoverFiles,
           RecoverMark, ClearJournal, ApplyLock, Prepare, Validate, Capture,
           CreateJournal, WriteFile, Finalize, SetFilesApplied,
           SetCommitStarted, SetApplied, SetPhase, Commit, UndoFiles,
           UndoVault, shared
  <2> QED
    BY <2>1, <2>2, <2>3
       DEF Next, Foreign, Confirm, Crash, Tick, EditFile, VaultForeign, shared
<1> QED
  BY <1>1, <1>2, PTL DEF Spec, LifecycleKept, Lifecycle!Spec

-----------------------------------------------------------------------------
(* The encrypted file vault that an apply stores into, for any clients of    *)
(* this and of older releases, names and values.  The client with the lock   *)
(* of older releases is the one that changes files (PlaceOf); everything a   *)
(* power failure may bring back is accounted for (PairsInv); and where the   *)
(* changes of the directory are reordered the plaintext vault goes only      *)
(* after its copy is settled (OrderInv).                                     *)

CONSTANTS Clients, OldClients, Names, Values, MaxCalls, MaxEdits, MaxFaults, Deaths, Reorders,
          Plaintext

VARIABLES cur, maybe, stable, legacy, client, told, calls, edits, faults

Encrypted == INSTANCE FileVault

\* The contents of a vault: a verdict was recorded beside the value that is there,
\* and a name without a value has no metadata.
Followed(d) ==
    \A n \in Names :
        /\ d.beside[n] \in {Encrypted!Nothing, d.secrets[n]}
        /\ d.verdicts[n] = Encrypted!Nothing <=> d.beside[n] = Encrypted!Nothing

SoundData(d) ==
    /\ Followed(d)
    /\ \A n \in Names : d.secrets[n] = Encrypted!Nothing => d.metadata[n] = Encrypted!Nothing

DataTypes == [secrets : [Names -> Values \cup {Encrypted!Nothing}],
              metadata : [Names -> {Encrypted!Nothing, "plain", "expiring"}],
              verdicts : [Names -> Values \cup {Encrypted!Nothing}],
              beside : [Names -> Values \cup {Encrypted!Nothing}]]

Data == {d \in DataTypes : SoundData(d)}

VaultFiles == [there : BOOLEAN, data : Data, private : BOOLEAN]

Pairs == [encrypted : VaultFiles, json : VaultFiles]

VaultPhases == {"idle", "stable", "load", "open", "change", "save", "sync", "publish", "published",
                "unlink", "duplicate", "unlinked", "rollback"}

ClientTypes == [pc : VaultPhases, opened : BOOLEAN, before : VaultFiles, after : Data,
                call : Encrypted!Calls \cup {Encrypted!NoCall}]

\* The parts of the contents.
LEMMA DataParts ==
  ASSUME NEW d \in DataTypes
  PROVE  /\ d.secrets \in [Names -> Values \cup {Encrypted!Nothing}]
         /\ d.metadata \in [Names -> {Encrypted!Nothing, "plain", "expiring"}]
         /\ d.verdicts \in [Names -> Values \cup {Encrypted!Nothing}]
         /\ d.beside \in [Names -> Values \cup {Encrypted!Nothing}]
BY DEF DataTypes

\* A value is replaced.
LEMMA ReplaceIs ==
  ASSUME NEW d \in DataTypes, NEW n \in Names, NEW v \in Values
  PROVE  /\ Encrypted!ReplaceValue(d, n, v) \in DataTypes
         /\ Encrypted!ReplaceValue(d, n, v).secrets = [d.secrets EXCEPT ![n] = v]
         /\ Encrypted!ReplaceValue(d, n, v).metadata = d.metadata
         /\ Followed(d) => Followed(Encrypted!ReplaceValue(d, n, v))
<1>1. CASE d.secrets[n] = v
  BY <1>1, DataParts DEF Encrypted!ReplaceValue
<1>2. CASE d.secrets[n] # v
  <2> DEFINE x == [d EXCEPT !.secrets[n] = v, !.verdicts[n] = Encrypted!Nothing,
                            !.beside[n] = Encrypted!Nothing]
  <2>1. /\ x \in DataTypes /\ x.secrets = [d.secrets EXCEPT ![n] = v] /\ x.metadata = d.metadata
        /\ x.verdicts = [d.verdicts EXCEPT ![n] = Encrypted!Nothing]
        /\ x.beside = [d.beside EXCEPT ![n] = Encrypted!Nothing]
    BY DataParts DEF DataTypes
  <2>2. Encrypted!ReplaceValue(d, n, v) = x
    BY <1>2 DEF Encrypted!ReplaceValue
  <2> HIDE DEF x
  <2>3. Followed(d) => Followed(x)
    BY <2>1, DataParts DEF Followed
  <2> QED BY <2>1, <2>2, <2>3
<1> QED BY <1>1, <1>2

\* The metadata of a new value.
LEMMA SeededIs ==
  ASSUME NEW d \in DataTypes, NEW n \in Names
  PROVE  /\ Encrypted!Seeded(d, n) \in DataTypes
         /\ Encrypted!Seeded(d, n).secrets = d.secrets
         /\ Followed(d) => Followed(Encrypted!Seeded(d, n))
         /\ \E m \in {Encrypted!Nothing, "plain", "expiring"} :
               Encrypted!Seeded(d, n).metadata = [d.metadata EXCEPT ![n] = m]
<1> DEFINE x == Encrypted!Seeded(d, n)
<1>1. /\ x \in DataTypes /\ x.secrets = d.secrets /\ x.verdicts = d.verdicts /\ x.beside = d.beside
      /\ \E m \in {Encrypted!Nothing, "plain", "expiring"} : x.metadata = [d.metadata EXCEPT ![n] = m]
  BY DataParts DEF DataTypes, Encrypted!Seeded
<1> HIDE DEF x
<1>2. Followed(d) => Followed(x)
  BY <1>1 DEF Followed
<1> QED BY <1>1, <1>2 DEF x

\* A verdict is recorded or removed.
LEMMA JudgedIs ==
  ASSUME NEW d \in DataTypes, NEW n \in Names, NEW of \in Values \cup {Encrypted!Nothing},
         SoundData(d), d.secrets[n] # Encrypted!Nothing
  PROVE  Encrypted!Judged(d, n, of) \in Data
<1> DEFINE y == IF of = Encrypted!Nothing THEN Encrypted!Nothing ELSE d.secrets[n]
           x == [d EXCEPT !.verdicts[n] = of, !.beside[n] = y]
<1>1. y \in Values \cup {Encrypted!Nothing} /\ y \in {Encrypted!Nothing, d.secrets[n]}
      /\ (of = Encrypted!Nothing <=> y = Encrypted!Nothing)
  BY DataParts
<1>2. Encrypted!Judged(d, n, of) = x
  BY DEF Encrypted!Judged
<1> HIDE DEF y
<1>3. /\ x \in DataTypes /\ x.secrets = d.secrets /\ x.metadata = d.metadata
      /\ x.verdicts = [d.verdicts EXCEPT ![n] = of] /\ x.beside = [d.beside EXCEPT ![n] = y]
  BY <1>1, DataParts DEF DataTypes
<1> HIDE DEF x
<1>4. Followed(x)
  BY <1>1, <1>3, DataParts DEF SoundData, Followed
<1>5. SoundData(x)
  BY <1>3, <1>4 DEF SoundData
<1> QED BY <1>2, <1>3, <1>5 DEF Data

\* Every call leaves contents.
LEMMA AppliedIsData ==
  ASSUME Encrypted!FileVaultAssumption, NEW d \in Data, NEW ask \in Encrypted!Calls, Encrypted!Accepted(d, ask)
  PROVE  Encrypted!Applied(d, ask) \in Data
<1>1. /\ d \in DataTypes /\ SoundData(d) /\ ask.name \in Names /\ Encrypted!Nothing \notin Values
  BY DEF Data, Encrypted!Calls, Encrypted!FileVaultAssumption, Encrypted!Nothing
<1>2. ASSUME NEW v \in Values PROVE Encrypted!ReplaceValue(Encrypted!Seeded(d, ask.name), ask.name, v) \in Data
  <2> DEFINE s == Encrypted!Seeded(d, ask.name)
             r == Encrypted!ReplaceValue(s, ask.name, v)
  <2>1. s \in DataTypes /\ s.secrets = d.secrets /\ Followed(s)
        /\ \E m \in {Encrypted!Nothing, "plain", "expiring"} : s.metadata = [d.metadata EXCEPT ![ask.name] = m]
    BY <1>1, SeededIs DEF SoundData
  <2> HIDE DEF s
  <2>2. /\ r \in DataTypes /\ r.secrets = [s.secrets EXCEPT ![ask.name] = v] /\ r.metadata = s.metadata
        /\ Followed(r)
    BY <1>1, <2>1, ReplaceIs
  <2> HIDE DEF r
  <2>3. \A n \in Names : r.secrets[n] = Encrypted!Nothing => r.metadata[n] = Encrypted!Nothing
    BY <1>1, <2>1, <2>2, DataParts DEF SoundData
  <2> QED BY <2>2, <2>3 DEF Data, SoundData, r, s
<1>3. Encrypted!Removed(d, ask.name) \in Data
  <2> DEFINE x == Encrypted!Removed(d, ask.name)
  <2>1. /\ x \in DataTypes /\ x.secrets = [d.secrets EXCEPT ![ask.name] = Encrypted!Nothing]
        /\ x.metadata = [d.metadata EXCEPT ![ask.name] = Encrypted!Nothing]
        /\ x.verdicts = [d.verdicts EXCEPT ![ask.name] = Encrypted!Nothing]
        /\ x.beside = [d.beside EXCEPT ![ask.name] = Encrypted!Nothing]
    BY <1>1, DataParts DEF DataTypes, Encrypted!Removed
  <2> HIDE DEF x
  <2>2. Followed(x)
    BY <1>1, <2>1, DataParts DEF SoundData, Followed
  <2>3. \A n \in Names : x.secrets[n] = Encrypted!Nothing => x.metadata[n] = Encrypted!Nothing
    BY <1>1, <2>1, DataParts DEF SoundData
  <2> QED BY <2>1, <2>2, <2>3 DEF Data, SoundData, x
<1>4. CASE ask.kind = "store"
  BY <1>2, <1>4 DEF Encrypted!Applied, Encrypted!Calls
<1>5. CASE ask.kind = "store_with_expiry"
  <2> DEFINE r == Encrypted!ReplaceValue(d, ask.name, ask.value)
  <2>1. ask.value \in Values
    BY <1>5 DEF Encrypted!Calls
  <2>2. /\ r \in DataTypes /\ r.secrets = [d.secrets EXCEPT ![ask.name] = ask.value] /\ r.metadata = d.metadata
        /\ Followed(r)
    BY <1>1, <2>1, ReplaceIs DEF SoundData
  <2> HIDE DEF r
  <2>3. [r EXCEPT !.metadata[ask.name] = "expiring"] \in Data
    <3> DEFINE x == [r EXCEPT !.metadata[ask.name] = "expiring"]
    <3>1. x \in DataTypes /\ x.secrets = r.secrets /\ x.verdicts = r.verdicts /\ x.beside = r.beside
          /\ x.metadata = [r.metadata EXCEPT ![ask.name] = "expiring"]
      BY <2>2, DataParts DEF DataTypes
    <3> HIDE DEF x
    <3>2. Followed(x)
      BY <2>2, <3>1 DEF Followed
    <3>3. \A n \in Names : x.secrets[n] = Encrypted!Nothing => x.metadata[n] = Encrypted!Nothing
      BY <1>1, <2>1, <2>2, <3>1, DataParts DEF SoundData
    <3> QED BY <3>1, <3>2, <3>3 DEF Data, SoundData, x
  <2>4. Encrypted!Applied(d, ask) = [r EXCEPT !.metadata[ask.name] = "expiring"]
    BY <1>5 DEF Encrypted!Applied, r
  <2> QED BY <2>3, <2>4
<1>6. CASE ask.kind = "delete"
  BY <1>3, <1>6 DEF Encrypted!Applied
<1>7. CASE ask.kind = "swap"
  <2>1. ask.to \in Values \cup {Encrypted!Nothing}
    BY <1>7 DEF Encrypted!Calls
  <2>2. CASE ask.to = Encrypted!Nothing
    BY <1>3, <1>7, <2>2 DEF Encrypted!Applied
  <2>3. CASE ask.to # Encrypted!Nothing
    BY <1>2, <1>7, <2>1, <2>3 DEF Encrypted!Applied
  <2> QED BY <2>2, <2>3
<1>8. CASE ask.kind = "set_metadata"
  <2> DEFINE x == [d EXCEPT !.metadata[ask.name] = "expiring"]
  <2>1. x \in DataTypes /\ x.secrets = d.secrets /\ x.verdicts = d.verdicts /\ x.beside = d.beside
        /\ x.metadata = [d.metadata EXCEPT ![ask.name] = "expiring"]
    BY <1>1, DataParts DEF DataTypes
  <2>2. d.secrets[ask.name] # Encrypted!Nothing /\ Encrypted!Applied(d, ask) = x
    BY <1>8 DEF Encrypted!Accepted, Encrypted!Applied
  <2> HIDE DEF x
  <2>3. Followed(x)
    BY <1>1, <2>1 DEF SoundData, Followed
  <2>4. \A n \in Names : x.secrets[n] = Encrypted!Nothing => x.metadata[n] = Encrypted!Nothing
    BY <1>1, <2>1, <2>2, DataParts DEF SoundData
  <2> QED BY <2>1, <2>2, <2>3, <2>4 DEF Data, SoundData
<1>9. CASE ask.kind \in {"set_verdict", "swap_verdict"}
  <2>1. ask.of \in Values \cup {Encrypted!Nothing}
    BY <1>9 DEF Encrypted!Calls
  <2>2. d.secrets[ask.name] # Encrypted!Nothing /\ Encrypted!Applied(d, ask) = Encrypted!Judged(d, ask.name, ask.of)
    BY <1>9 DEF Encrypted!Accepted, Encrypted!Applied
  <2> QED BY <1>1, <2>1, <2>2, JudgedIs
<1> QED BY <1>4, <1>5, <1>6, <1>7, <1>8, <1>9 DEF Encrypted!Calls

\* The contents that an old release writes, and no contents.
LEMMA FirstData ==
  ASSUME Encrypted!FileVaultAssumption
  PROVE  /\ Encrypted!EmptyData \in Data /\ Encrypted!Missing \in VaultFiles /\ Encrypted!Missing.there = FALSE
         /\ \A n \in Names, v \in Values : Encrypted!Stored(n, v) \in Data
         /\ \A d \in Data, b \in BOOLEAN :
               Encrypted!File(d, b) \in VaultFiles /\ Encrypted!File(d, b).there = TRUE /\ Encrypted!File(d,
                        b).data = d
<1>1. Encrypted!EmptyData \in DataTypes /\ SoundData(Encrypted!EmptyData) /\ Encrypted!Nothing \notin Values
  BY DEF Encrypted!EmptyData, DataTypes, SoundData, Followed, Encrypted!FileVaultAssumption, Encrypted!Nothing
<1>2. Encrypted!EmptyData \in Data
  BY <1>1 DEF Data
<1>3. ASSUME NEW n \in Names, NEW v \in Values PROVE Encrypted!Stored(n, v) \in Data
  <2> DEFINE x == Encrypted!Stored(n, v)
  <2>1. /\ x \in DataTypes /\ x.secrets = [Encrypted!EmptyData.secrets EXCEPT ![n] = v]
        /\ x.metadata = [Encrypted!EmptyData.metadata EXCEPT ![n] = "plain"]
        /\ x.verdicts = [Encrypted!EmptyData.verdicts EXCEPT ![n] = v]
        /\ x.beside = [Encrypted!EmptyData.beside EXCEPT ![n] = v]
    BY <1>1, DataParts DEF DataTypes, Encrypted!Stored
  <2> HIDE DEF x
  <2>2. SoundData(x)
    BY <1>1, <2>1, DataParts DEF SoundData, Followed
  <2> QED BY <2>1, <2>2 DEF Data, x
<1>4. Encrypted!Missing \in VaultFiles /\ Encrypted!Missing.there = FALSE
  BY <1>2 DEF Encrypted!Missing, VaultFiles
<1>5. \A d \in Data, b \in BOOLEAN : Encrypted!File(d, b) \in VaultFiles /\ Encrypted!File(d,
         b).there = TRUE /\ Encrypted!File(d, b).data = d
  BY DEF Encrypted!File, VaultFiles
<1> QED BY <1>2, <1>3, <1>4, <1>5

\* What is known of a client with a record r.
PlaceOf(c, r) ==
    /\ r.pc \notin {"idle", "stable"} => legacy = c
    /\ r.opened => ~cur.json.there
    /\ r.pc \in {"load", "change", "save", "sync"} => r.opened
    /\ r.pc = "save" => /\ r.call \in Encrypted!Calls /\ Encrypted!Accepted(r.before.data, r.call)
                        /\ r.after = Encrypted!Applied(r.before.data, r.call)
    /\ r.pc = "sync" => cur.encrypted.there /\ cur.encrypted.data = Encrypted!Applied(r.before.data, r.call)
    /\ r.pc \in {"publish", "published", "unlink", "duplicate", "rollback"} =>
            cur.json.there /\ cur.json.data \in told
    /\ r.pc \in {"publish", "published", "unlink", "duplicate"} => r.before.data \in told
    /\ r.pc = "unlinked" => ~cur.json.there
    /\ r.pc \in {"published", "unlink", "duplicate", "unlinked"} =>
            cur.encrypted.there /\ cur.encrypted.data = r.before.data

PlacesInv == \A c \in Clients : PlaceOf(c, client[c])

\* What a power failure may bring back.
PairsInv == \A p \in maybe : (p.encrypted.there \/ p.json.there) /\ Encrypted!Readable(p) \in told

At(place) == \E c \in Clients : client[c].pc = place

AllEncrypted == \A p \in maybe : p.encrypted.there

OneJson == \A p \in maybe : p.json = cur.json

\* Where directory changes are reordered, only one of the two names is unsettled.
OrderInv ==
    Reorders = TRUE => /\ OneJson \/ (AllEncrypted /\ At("unlinked"))
                       /\ cur.encrypted.there => AllEncrypted \/ At("published")

VaultTypes ==
    /\ cur \in Pairs /\ maybe \subseteq Pairs /\ cur \in maybe
    /\ client \in [Clients -> ClientTypes]

VaultInv == VaultTypes /\ PlacesInv /\ PairsInv /\ OrderInv

\* A pair of files is its two parts.
LEMMA PairParts ==
  /\ \A p, q \in Pairs : p.encrypted = q.encrypted /\ p.json = q.json => p = q
  /\ \A p \in Pairs : p.encrypted \in VaultFiles /\ p.json \in VaultFiles
  /\ \A p \in Pairs : p = [encrypted |-> p.encrypted, json |-> p.json]
  /\ \A e, j \in VaultFiles : [encrypted |-> e, json |-> j] \in Pairs
  /\ \A p \in Pairs, e \in VaultFiles :
        /\ [p EXCEPT !.encrypted = e] \in Pairs
        /\ [p EXCEPT !.encrypted = e].encrypted = e /\ [p EXCEPT !.encrypted = e].json = p.json
        /\ [p EXCEPT !.json = e] \in Pairs
        /\ [p EXCEPT !.json = e].json = e /\ [p EXCEPT !.json = e].encrypted = p.encrypted
BY DEF Pairs

\* What is left to a power failure after a change of the directory.
LEMMA AddedIs ==
  ASSUME VaultInv, NEW p \in Pairs
  PROVE  /\ p \in Encrypted!Added(p) /\ Encrypted!Added(p) \subseteq Pairs
         /\ \A r \in Encrypted!Added(p) : \E q \in maybe \cup {p} : r.encrypted = q.encrypted
         /\ Reorders # TRUE \/ (OneJson /\ p.json = cur.json) => Encrypted!Added(p) = maybe \cup {p}
<1>1. maybe \subseteq Pairs /\ p.encrypted \in VaultFiles /\ p.json \in VaultFiles
  BY PairParts DEF VaultInv, VaultTypes
<1>2. CASE Reorders = TRUE
  <2> DEFINE E == {q.encrypted : q \in maybe \cup {p}}
             J == {q.json : q \in maybe \cup {p}}
  <2>1. Encrypted!Added(p) = [encrypted : E, json : J]
    BY <1>2 DEF Encrypted!Added
  <2>2. E \subseteq VaultFiles /\ J \subseteq VaultFiles
    BY <1>1, PairParts
  <2>3. Encrypted!Added(p) \subseteq Pairs /\ \A r \in Encrypted!Added(p) : r.encrypted \in E /\ r.json \in J
    BY <2>1, <2>2 DEF Pairs
  <2>4. p \in Encrypted!Added(p)
    <3>1. p = [encrypted |-> p.encrypted, json |-> p.json]
      BY PairParts, <1>1
    <3>2. p.encrypted \in E /\ p.json \in J
      OBVIOUS
    <3> HIDE DEF E, J
    <3> QED BY <2>1, <3>1, <3>2
  <2>5. ASSUME OneJson, p.json = cur.json PROVE Encrypted!Added(p) = maybe \cup {p}
    <3>1. \A q \in maybe \cup {p} : q.json = cur.json
      BY <2>5 DEF OneJson
    <3>2. ASSUME NEW r \in Encrypted!Added(p) PROVE r \in maybe \cup {p}
      <4>1. PICK q \in maybe \cup {p} : r.encrypted = q.encrypted
        BY <2>3
      <4>2. r.json = cur.json /\ q.json = cur.json /\ r \in Pairs /\ q \in Pairs
        BY <1>1, <2>3, <3>1
      <4> QED BY <4>1, <4>2, PairParts
    <3>3. ASSUME NEW r \in maybe \cup {p} PROVE r \in Encrypted!Added(p)
      <4>1. r \in Pairs /\ r.encrypted \in E /\ r.json \in J
        BY <1>1
      <4>2. r = [encrypted |-> r.encrypted, json |-> r.json]
        BY <4>1, PairParts
      <4> HIDE DEF E, J
      <4> QED BY <2>1, <4>1, <4>2
    <3> QED BY <3>2, <3>3
  <2> QED BY <1>2, <2>3, <2>4, <2>5
<1>3. CASE Reorders # TRUE
  <2>1. Encrypted!Added(p) = maybe \cup {p}
    BY <1>3 DEF Encrypted!Added
  <2> QED BY <1>1, <1>3, <2>1
<1> QED BY <1>2, <1>3

\* A step of one client, which holds the lock or leaves the files alone.
LEMMA ClientStep ==
  ASSUME Encrypted!FileVaultAssumption, VaultInv, NEW c \in Clients, NEW a \in ClientTypes,
         client' = [client EXCEPT ![c] = a], PlaceOf(c, a)',
         \/ /\ client[c].pc \notin {"idle", "stable"} \/ legacy = Encrypted!Nobody
            /\ cur'.json.there => cur.json.there
         \/ UNCHANGED <<cur, told>> /\ (legacy # c => legacy' = legacy)
  PROVE  PlacesInv' /\ client' \in [Clients -> ClientTypes] /\ client'[c] = a
<1>1. client \in [Clients -> ClientTypes] /\ PlacesInv
  BY DEF VaultInv, VaultTypes
<1>2. client' \in [Clients -> ClientTypes] /\ client'[c] = a /\ \A d \in Clients \ {c} : client'[d] = client[d]
  BY <1>1
<1>3. ASSUME NEW d \in Clients PROVE PlaceOf(d, client[d])'
  <2>1. CASE d = c
    BY <1>2, <2>1 DEF PlaceOf
  <2>2. CASE d # c
    <3>1. PlaceOf(d, client[d]) /\ PlaceOf(c, client[c]) /\ client'[d] = client[d]
      BY <1>1, <1>2, <2>2 DEF PlacesInv
    <3>2. CASE UNCHANGED <<cur, told>> /\ (legacy # c => legacy' = legacy)
      BY <2>2, <3>1, <3>2 DEF PlaceOf
    <3>3. CASE (client[c].pc \notin {"idle", "stable"} \/ legacy = Encrypted!Nobody)
             /\ (cur'.json.there => cur.json.there)
      <4>1. client[d].pc \in {"idle", "stable"}
        BY <2>2, <3>1, <3>3 DEF PlaceOf, Encrypted!FileVaultAssumption, Encrypted!Nobody
      <4> QED BY <3>1, <3>3, <4>1 DEF PlaceOf
    <3> QED BY <3>2, <3>3
  <2> QED BY <2>1, <2>2
<1> QED BY <1>2, <1>3 DEF PlacesInv

\* A step of one client that leaves the files alone.
LEMMA QuietStep ==
  ASSUME Encrypted!FileVaultAssumption, VaultInv, NEW c \in Clients, NEW a \in ClientTypes,
         client' = [client EXCEPT ![c] = a], PlaceOf(c, a)',
         UNCHANGED <<cur, maybe, told>>, legacy # c => legacy' = legacy \/ legacy = Encrypted!Nobody,
         Reorders = TRUE => client[c].pc \notin {"published", "unlinked"}
  PROVE  VaultInv'
<1>1. PlacesInv' /\ client' \in [Clients -> ClientTypes] /\ client'[c] = a
  BY ClientStep
<1>2. VaultTypes'
  BY <1>1 DEF VaultInv, VaultTypes
<1>3. PairsInv'
  BY DEF VaultInv, PairsInv, Encrypted!Readable
<1>4. OrderInv'
  <2>1. \A d \in Clients \ {c} : client'[d] = client[d]
    BY DEF VaultInv, VaultTypes
  <2>2. Reorders = TRUE => \A place \in {"published", "unlinked"} : At(place) => At(place)'
    BY <2>1 DEF At
  <2> QED BY <2>2 DEF VaultInv, OrderInv, OneJson, AllEncrypted
<1> QED BY <1>1, <1>2, <1>3, <1>4 DEF VaultInv

\* What is left after a sync of the directory is what is there.
LEMMA SettledStep ==
  ASSUME VaultInv, maybe' = {cur'}, cur' \in Pairs, PlacesInv', client' \in [Clients -> ClientTypes],
         cur'.encrypted.there \/ cur'.json.there, Encrypted!Readable(cur)' \in told'
  PROVE  VaultInv'
<1>1. VaultTypes' /\ PairsInv'
  BY DEF VaultTypes, PairsInv, Encrypted!Readable
<1>2. OrderInv'
  BY DEF OrderInv, OneJson, AllEncrypted
<1> QED BY <1>1, <1>2 DEF VaultInv

\* The record of a client.
LEMMA ClientIs ==
  ASSUME VaultInv, NEW c \in Clients
  PROVE  /\ client[c] \in ClientTypes /\ client \in [Clients -> ClientTypes]
         /\ client[c].pc \in VaultPhases /\ client[c].opened \in BOOLEAN
         /\ client[c].before \in VaultFiles /\ client[c].after \in Data
         /\ PlaceOf(c, client[c])
         /\ cur \in Pairs /\ cur.encrypted \in VaultFiles /\ cur.json \in VaultFiles
         /\ maybe \subseteq Pairs /\ cur \in maybe
         /\ (cur.encrypted.there \/ cur.json.there) /\ Encrypted!Readable(cur) \in told
<1>1. VaultTypes /\ PlacesInv /\ PairsInv
  BY DEF VaultInv
<1>2. client[c] \in ClientTypes /\ client \in [Clients -> ClientTypes]
  BY <1>1 DEF VaultTypes
<1>3. cur \in Pairs /\ cur \in maybe /\ maybe \subseteq Pairs
  BY <1>1 DEF VaultTypes
<1> QED BY <1>1, <1>2, <1>3, PairParts DEF ClientTypes, PlacesInv, PairsInv

\* A client that is done, or has died.
LEMMA FreshIs ==
  ASSUME Encrypted!FileVaultAssumption, NEW c \in Clients, NEW b \in BOOLEAN
  PROVE  /\ [Encrypted!Fresh EXCEPT !.opened = b] \in ClientTypes
         /\ [Encrypted!Fresh EXCEPT !.opened = b].pc = "idle"
                  /\ [Encrypted!Fresh EXCEPT !.opened = b].opened = b
         /\ Encrypted!Fresh \in ClientTypes /\ Encrypted!Fresh.pc = "idle" /\ Encrypted!Fresh.opened = FALSE
         /\ (b => ~cur.json.there) => PlaceOf(c, [Encrypted!Fresh EXCEPT !.opened = b])
<1>1. Encrypted!Fresh \in ClientTypes /\ Encrypted!Fresh.pc = "idle" /\ Encrypted!Fresh.opened = FALSE
  BY FirstData DEF Encrypted!Fresh, ClientTypes, VaultPhases
<1> DEFINE a == [Encrypted!Fresh EXCEPT !.opened = b]
<1>2. a \in ClientTypes /\ a.pc = "idle" /\ a.opened = b
  BY <1>1 DEF ClientTypes
<1> HIDE DEF a
<1>3. (b => ~cur.json.there) => PlaceOf(c, a)
  BY <1>2 DEF PlaceOf
<1> QED BY <1>1, <1>2, <1>3 DEF a

\* A call ends and leaves the files alone.
LEMMA ReturnIs ==
  ASSUME Encrypted!FileVaultAssumption, VaultInv, NEW c \in Clients, NEW b \in BOOLEAN, Encrypted!Return(c, b),
         client[c].pc \notin {"idle", "stable"},
         UNCHANGED <<cur, maybe, told>>, b => ~cur.json.there,
         Reorders = TRUE => client[c].pc \notin {"published", "unlinked"}
  PROVE  VaultInv'
<1> DEFINE a == [Encrypted!Fresh EXCEPT !.opened = b]
<1>1. a \in ClientTypes /\ a.pc = "idle" /\ a.opened = b
  BY FreshIs
<1>2. client' = [client EXCEPT ![c] = a] /\ legacy' = Encrypted!Nobody /\ legacy = c
  BY ClientIs DEF Encrypted!Return, PlaceOf
<1> HIDE DEF a
<1>3. PlaceOf(c, a)'
  BY <1>1 DEF PlaceOf
<1> QED BY <1>1, <1>2, <1>3, QuietStep

\* The locks are taken.
LEMMA TakeSteps ==
  ASSUME Encrypted!FileVaultAssumption, VaultInv, NEW c \in Clients, Encrypted!TakeStable(c)
           \/ Encrypted!TakeLegacy(c) PROVE VaultInv'
<1>1. client[c] \in ClientTypes /\ client \in [Clients -> ClientTypes] /\ PlaceOf(c, client[c])
  BY ClientIs
<1>2. PICK place \in {"stable", "load", "open"} :
        /\ client' = [client EXCEPT ![c].pc = place]
        /\ place = "load" => client[c].opened
        /\ place # "stable" => legacy = Encrypted!Nobody /\ legacy' = c
        /\ place = "stable" => legacy' = legacy
        /\ client[c].pc \in {"idle", "stable"}
        /\ UNCHANGED <<cur, maybe, told>>
  BY <1>1 DEF Encrypted!TakeStable, Encrypted!TakeLegacy
<1>3. PICK a \in ClientTypes :
        /\ a.pc = place /\ a.opened = client[c].opened /\ client' = [client EXCEPT ![c] = a]
  <2> DEFINE r == [client[c] EXCEPT !.pc = place]
  <2>1. r \in ClientTypes /\ r.pc = place /\ r.opened = client[c].opened
    BY <1>1, <1>2 DEF ClientTypes, VaultPhases
  <2>2. client' = [client EXCEPT ![c] = r]
    BY <1>1, <1>2
  <2> HIDE DEF r
  <2> QED BY <2>1, <2>2
<1>4. PlaceOf(c, a)'
  BY <1>1, <1>2, <1>3 DEF PlaceOf
<1> QED BY <1>2, <1>3, <1>4, QuietStep

\* A call reads the encrypted file, and its permissions are repaired.
LEMMA LoadStep ==
  ASSUME Encrypted!FileVaultAssumption, VaultInv, NEW c \in Clients, Encrypted!Load(c) PROVE VaultInv'
<1>1. /\ client[c] \in ClientTypes /\ client \in [Clients -> ClientTypes] /\ PlaceOf(c, client[c])
      /\ cur \in Pairs /\ cur.encrypted \in VaultFiles /\ cur \in maybe /\ maybe \subseteq Pairs
  BY ClientIs
<1> DEFINE Repaired(p) == [p EXCEPT !.encrypted.private = TRUE]
<1>2. PICK a \in ClientTypes :
        /\ a.pc = "change" /\ a.opened = client[c].opened /\ client' = [client EXCEPT ![c] = a]
  <2> DEFINE r == [client[c] EXCEPT !.before = cur.encrypted, !.pc = "change"]
  <2>1. r \in ClientTypes /\ r.pc = "change" /\ r.opened = client[c].opened
    BY <1>1 DEF ClientTypes, VaultPhases
  <2>2. client' = [client EXCEPT ![c] = r]
    BY <1>1 DEF Encrypted!Load
  <2> HIDE DEF r
  <2> QED BY <2>1, <2>2
<1>3. \A p \in Pairs : /\ Repaired(p) \in Pairs /\ Repaired(p).json = p.json
                       /\ Repaired(p).encrypted.there = p.encrypted.there
                       /\ Repaired(p).encrypted.data = p.encrypted.data
  BY DEF Pairs, VaultFiles
<1>4. cur' = Repaired(cur) /\ maybe' = {Repaired(p) : p \in maybe} /\ UNCHANGED <<legacy, told>>
      /\ client[c].pc = "load"
  BY DEF Encrypted!Load
<1> HIDE DEF Repaired
<1>5. /\ cur' \in Pairs /\ cur'.json = cur.json /\ cur'.encrypted.there = cur.encrypted.there
      /\ cur'.encrypted.data = cur.encrypted.data /\ cur' \in maybe' /\ maybe' \subseteq Pairs
  BY <1>1, <1>3, <1>4
<1>6. PlaceOf(c, a)'
  BY <1>1, <1>2, <1>4, <1>5 DEF PlaceOf
<1>7. PlacesInv' /\ client' \in [Clients -> ClientTypes] /\ client'[c] = a
  BY <1>2, <1>4, <1>5, <1>6, ClientStep
<1>8. PairsInv'
  <2>1. \A p \in maybe : (p.encrypted.there \/ p.json.there) /\ Encrypted!Readable(p) \in told
    BY DEF VaultInv, PairsInv
  <2> QED BY <1>1, <1>3, <1>4, <2>1 DEF PairsInv, Encrypted!Readable
<1>9. OrderInv'
  <2>1. \A d \in Clients \ {c} : client'[d] = client[d]
    BY <1>1, <1>2
  <2>2. \A place \in {"published", "unlinked"} : At(place) => At(place)'
    BY <1>4, <2>1 DEF At
  <2>3. (OneJson => OneJson') /\ (AllEncrypted => AllEncrypted')
    BY <1>1, <1>3, <1>4, <1>5 DEF OneJson, AllEncrypted
  <2> QED BY <1>5, <2>2, <2>3 DEF VaultInv, OrderInv
<1> QED BY <1>5, <1>7, <1>8, <1>9 DEF VaultInv, VaultTypes

\* A call decides whether it has something to save.
LEMMA ChangeStep ==
  ASSUME Encrypted!FileVaultAssumption, VaultInv, NEW c \in Clients, Encrypted!Change(c) PROVE VaultInv'
<1>1. /\ client[c] \in ClientTypes /\ client \in [Clients -> ClientTypes] /\ PlaceOf(c, client[c])
      /\ client[c].before \in VaultFiles /\ client[c].before.data \in Data
  BY ClientIs DEF VaultFiles
<1>2. client[c].pc = "change" /\ UNCHANGED <<cur, maybe, told>>
  BY DEF Encrypted!Change
<1>3. PICK ask \in Encrypted!Calls :
          IF Encrypted!Accepted(client[c].before.data, ask)
          THEN /\ client' = [client EXCEPT ![c].pc = "save", ![c].call = ask,
                                           ![c].after = Encrypted!Applied(client[c].before.data, ask)]
               /\ UNCHANGED <<stable, legacy>>
          ELSE Encrypted!Return(c, TRUE)
  BY DEF Encrypted!Change
<1>4. CASE Encrypted!Accepted(client[c].before.data, ask)
  <2> DEFINE x == Encrypted!Applied(client[c].before.data, ask)
  <2>1. x \in Data
    BY <1>1, <1>4, AppliedIsData
  <2>2. legacy' = legacy
    BY <1>3, <1>4
  <2>3. PICK a \in ClientTypes :
          /\ a.pc = "save" /\ a.opened = client[c].opened /\ a.call = ask
          /\ a.after = Encrypted!Applied(a.before.data, ask) /\ Encrypted!Accepted(a.before.data, ask)
          /\ client' = [client EXCEPT ![c] = a]
    <3> DEFINE r == [client[c] EXCEPT !.pc = "save", !.call = ask, !.after = x]
    <3>1. client' = [client EXCEPT ![c] = r]
      BY <1>1, <1>3, <1>4
    <3> HIDE DEF x
    <3>2. /\ r \in ClientTypes /\ r.pc = "save" /\ r.opened = client[c].opened /\ r.call = ask
          /\ r.after = x /\ r.before = client[c].before
      BY <1>1, <2>1 DEF ClientTypes, VaultPhases
    <3> HIDE DEF r
    <3> QED BY <1>4, <3>1, <3>2 DEF x
  <2>4. PlaceOf(c, a)'
    BY <1>1, <1>2, <1>4, <2>2, <2>3 DEF PlaceOf
  <2> QED BY <1>2, <2>2, <2>3, <2>4, QuietStep
<1>5. CASE ~Encrypted!Accepted(client[c].before.data, ask)
  <2>1. Encrypted!Return(c, TRUE) /\ ~cur.json.there
    BY <1>1, <1>2, <1>3, <1>5 DEF PlaceOf
  <2> QED BY <1>2, <2>1, ReturnIs
<1> QED BY <1>4, <1>5

\* Only one client is at work.
LEMMA OneAtWork ==
  ASSUME VaultInv, NEW c \in Clients, client[c].pc \notin {"idle", "stable"}
  PROVE  \A place \in {"published", "unlinked"} : At(place) => client[c].pc = place
BY DEF VaultInv, PlacesInv, PlaceOf, At

\* The encrypted file changes under the lock.
LEMMA AddStep ==
  ASSUME Encrypted!FileVaultAssumption, VaultInv, NEW c \in Clients, NEW a \in ClientTypes, NEW p \in Pairs,
         client' = [client EXCEPT ![c] = a], PlaceOf(c, a)',
         client[c].pc \notin {"idle", "stable", "published", "unlinked"},
         cur' = p, p.json = cur.json, maybe' = Encrypted!Added(p), told \subseteq told',
         p.encrypted.there \/ p.json.there, Encrypted!Readable(p) \in told',
         p.encrypted.there => cur.encrypted.there \/ a.pc = "published"
  PROVE  VaultInv'
<1>1. PlacesInv' /\ client' \in [Clients -> ClientTypes] /\ client'[c] = a
  BY ClientStep
<1>2. ~At("unlinked") /\ ~At("published")
  BY OneAtWork
<1>3. Reorders = TRUE => OneJson /\ (cur.encrypted.there => AllEncrypted)
  BY <1>2 DEF VaultInv, OrderInv
<1>4. maybe' = maybe \cup {p} /\ p \in maybe' /\ maybe' \subseteq Pairs
  BY <1>3, AddedIs
<1>5. PairsInv'
  BY <1>4 DEF VaultInv, PairsInv, Encrypted!Readable
<1>6. OrderInv'
  <2>1. OneJson => OneJson'
    BY <1>4 DEF OneJson
  <2>2. a.pc = "published" => At("published")'
    BY <1>1 DEF At
  <2>3. AllEncrypted /\ p.encrypted.there => AllEncrypted'
    BY <1>4 DEF AllEncrypted
  <2> QED BY <1>3, <2>1, <2>2, <2>3 DEF OrderInv
<1> QED BY <1>1, <1>4, <1>5, <1>6 DEF VaultInv, VaultTypes

\* What a client's next record is that only goes to another place.
LEMMA GoesTo ==
  ASSUME VaultInv, NEW c \in Clients, NEW place \in VaultPhases, client' = [client EXCEPT ![c].pc = place]
  PROVE  \E a \in ClientTypes :
            /\ a.pc = place /\ a.opened = client[c].opened /\ a.before = client[c].before
            /\ a.call = client[c].call /\ a.after = client[c].after
            /\ client' = [client EXCEPT ![c] = a]
<1>1. client[c] \in ClientTypes /\ client \in [Clients -> ClientTypes]
  BY ClientIs
<1> DEFINE r == [client[c] EXCEPT !.pc = place]
<1>2. /\ r \in ClientTypes /\ r.pc = place /\ r.opened = client[c].opened /\ r.before = client[c].before
      /\ r.call = client[c].call /\ r.after = client[c].after
  BY <1>1 DEF ClientTypes
<1>3. client' = [client EXCEPT ![c] = r]
  BY <1>1
<1> HIDE DEF r
<1> QED BY <1>2, <1>3

\* One of the two files changes.
LEMMA FileChange ==
  ASSUME cur \in Pairs, NEW e \in VaultFiles
  PROVE  /\ cur' = [cur EXCEPT !.encrypted = e] =>
                cur' \in Pairs /\ cur'.encrypted = e /\ cur'.json = cur.json
         /\ cur' = [cur EXCEPT !.json = e] =>
                cur' \in Pairs /\ cur'.json = e /\ cur'.encrypted = cur.encrypted
BY PairParts

\* The changed contents replace the file that was read.
LEMMA SaveStep ==
  ASSUME Encrypted!FileVaultAssumption, VaultInv, NEW c \in Clients, Encrypted!Save(c) PROVE VaultInv'
<1>1. /\ PlaceOf(c, client[c]) /\ client[c].pc = "save" /\ ~cur.json.there
      /\ cur \in Pairs /\ cur.encrypted \in VaultFiles /\ cur.encrypted.there /\ cur.encrypted.data \in told
      /\ client[c].after \in Data
  BY ClientIs DEF Encrypted!Save, PlaceOf, Encrypted!Readable
<1>2. CASE cur.encrypted = client[c].before
  <2>1. /\ cur' = [cur EXCEPT !.encrypted = Encrypted!File(client[c].after, TRUE)]
           /\ maybe' = Encrypted!Added(cur')
        /\ told' = told \cup {Encrypted!Applied(d, client[c].call) : d \in {e \in told : Encrypted!Accepted(e,
                 client[c].call)}}
        /\ client' = [client EXCEPT ![c].pc = "sync"] /\ UNCHANGED legacy
    BY <1>2 DEF Encrypted!Save
  <2>2. PICK p \in Pairs : /\ cur' = p /\ p.json = cur.json /\ p.encrypted.there
                           /\ p.encrypted.data = client[c].after
    <3>1. /\ Encrypted!File(client[c].after, TRUE) \in VaultFiles /\ Encrypted!File(client[c].after, TRUE).there
          /\ Encrypted!File(client[c].after, TRUE).data = client[c].after
      BY <1>1, FirstData
    <3> DEFINE e == Encrypted!File(client[c].after, TRUE)
    <3>2. cur' = [cur EXCEPT !.encrypted = e]
      BY <2>1
    <3> HIDE DEF e
    <3>3. cur' \in Pairs /\ cur'.encrypted = e /\ cur'.json = cur.json
      BY <1>1, <3>1, <3>2, FileChange DEF e
    <3> QED BY <3>1, <3>3 DEF e
  <2>3. PICK a \in ClientTypes :
          /\ a.pc = "sync" /\ a.opened = client[c].opened /\ a.before = client[c].before
          /\ a.call = client[c].call /\ client' = [client EXCEPT ![c] = a]
    <3>1. "sync" \in VaultPhases
      BY DEF VaultPhases
    <3>2. client' = [client EXCEPT ![c].pc = "sync"]
      BY <2>1
    <3> QED BY <3>1, <3>2, GoesTo
  <2>4. client[c].after = Encrypted!Applied(client[c].before.data, client[c].call)
        /\ Encrypted!Accepted(client[c].before.data, client[c].call)
    BY <1>1 DEF PlaceOf
  <2>5. client[c].after \in told'
    BY <1>1, <1>2, <2>1, <2>4
  <2>6. PlaceOf(c, a)'
    BY <1>1, <2>1, <2>2, <2>3, <2>4 DEF PlaceOf
  <2>7. Encrypted!Readable(p) \in told' /\ told \subseteq told' /\ maybe' = Encrypted!Added(p)
    BY <2>1, <2>2, <2>5 DEF Encrypted!Readable
  <2> QED BY <1>1, <2>2, <2>3, <2>6, <2>7, AddStep
<1>3. CASE cur.encrypted # client[c].before
  <2>1. Encrypted!Return(c, TRUE) /\ UNCHANGED <<cur, maybe, told>>
    BY <1>3 DEF Encrypted!Save
  <2> QED BY <1>1, <2>1, ReturnIs
<1> QED BY <1>2, <1>3

\* A call ends with a sync of the directory.
LEMMA ReturnSettled ==
  ASSUME Encrypted!FileVaultAssumption, VaultInv, NEW c \in Clients, Encrypted!Return(c, TRUE),
           client[c].pc \notin {"idle", "stable"},
         cur' = cur, maybe' = {cur}, ~cur.json.there, Encrypted!Readable(cur) \in told'
  PROVE  VaultInv'
<1>1. PICK a \in ClientTypes : /\ a.pc = "idle" /\ a.opened = TRUE /\ client' = [client EXCEPT ![c] = a]
  BY FreshIs DEF Encrypted!Return
<1>2. PlaceOf(c, a)'
  BY <1>1 DEF PlaceOf
<1>3. PlacesInv' /\ client' \in [Clients -> ClientTypes]
  BY <1>1, <1>2, ClientStep
<1>4. cur \in Pairs /\ (cur.encrypted.there \/ cur.json.there)
         /\ Encrypted!Readable(cur)' = Encrypted!Readable(cur)
  BY ClientIs DEF Encrypted!Readable
<1> QED BY <1>3, <1>4, SettledStep

\* The syncs that end a call.
LEMMA SyncSteps ==
  ASSUME Encrypted!FileVaultAssumption, VaultInv, NEW c \in Clients, Encrypted!Sync(c)
           \/ Encrypted!SyncUnlinked(c) PROVE VaultInv'
<1>1. PlaceOf(c, client[c]) /\ Encrypted!Return(c, TRUE) /\ cur' = cur /\ maybe' = {cur}
  BY ClientIs DEF Encrypted!Sync, Encrypted!SyncUnlinked
<1>2. CASE Encrypted!Sync(c)
  <2>1. client[c].pc = "sync" /\ told' = {Encrypted!Applied(client[c].before.data, client[c].call)}
    BY <1>2 DEF Encrypted!Sync
  <2>2. Encrypted!Readable(cur) \in told'
    BY <1>1, <2>1 DEF PlaceOf, Encrypted!Readable
  <2> QED BY <1>1, <2>1, <2>2, ReturnSettled DEF PlaceOf
<1>3. CASE Encrypted!SyncUnlinked(c)
  <2>1. client[c].pc = "unlinked" /\ told' = {client[c].before.data}
    BY <1>3 DEF Encrypted!SyncUnlinked
  <2>2. Encrypted!Readable(cur) \in told' /\ ~cur.json.there
    BY <1>1, <2>1 DEF PlaceOf, Encrypted!Readable
  <2> QED BY <1>1, <2>1, <2>2, ReturnSettled
<1> QED BY <1>2, <1>3

\* The vault is opened: is there a plaintext vault, and is it another?
LEMMA OpenReadStep ==
  ASSUME Encrypted!FileVaultAssumption, VaultInv, NEW c \in Clients, Encrypted!OpenRead(c) PROVE VaultInv'
<1>1. /\ PlaceOf(c, client[c]) /\ client[c].pc = "open" /\ client[c] \in ClientTypes
      /\ client \in [Clients -> ClientTypes] /\ cur.json \in VaultFiles
      /\ UNCHANGED <<cur, maybe, told>> /\ Encrypted!Readable(cur) \in told
  BY ClientIs DEF Encrypted!OpenRead
<1>2. CASE Encrypted!Return(c, TRUE) /\ ~cur.json.there
  BY <1>1, <1>2, ReturnIs
<1>3. CASE Encrypted!Return(c, FALSE)
  BY <1>1, <1>3, ReturnIs
<1>4. CASE /\ cur.json.there /\ (cur.encrypted.there => cur.encrypted.data = cur.json.data)
           /\ client' = [client EXCEPT ![c].before = cur.json,
                                       ![c].pc = IF cur.encrypted.there THEN "duplicate" ELSE "publish"]
           /\ UNCHANGED <<stable, legacy>>
  <2>1. PICK a \in ClientTypes :
          /\ a.pc = (IF cur.encrypted.there THEN "duplicate" ELSE "publish")
          /\ a.opened = client[c].opened /\ a.before = cur.json /\ client' = [client EXCEPT ![c] = a]
    <3> DEFINE r == [client[c] EXCEPT !.before = cur.json,
                                      !.pc = IF cur.encrypted.there THEN "duplicate" ELSE "publish"]
    <3>1. /\ r \in ClientTypes /\ r.opened = client[c].opened /\ r.before = cur.json
          /\ r.pc = (IF cur.encrypted.there THEN "duplicate" ELSE "publish")
      BY <1>1 DEF ClientTypes, VaultPhases
    <3>2. client' = [client EXCEPT ![c] = r]
      BY <1>1, <1>4
    <3> HIDE DEF r
    <3> QED BY <3>1, <3>2
  <2>2. cur.json.data \in told
    BY <1>1, <1>4 DEF Encrypted!Readable
  <2>3. PlaceOf(c, a)'
    BY <1>1, <1>4, <2>1, <2>2 DEF PlaceOf
  <2> QED BY <1>1, <1>4, <2>1, <2>3, QuietStep
<1> QED BY <1>1, <1>2, <1>3, <1>4 DEF Encrypted!OpenRead

\* The plaintext vault gets an encrypted copy.
LEMMA PublishStep ==
  ASSUME Encrypted!FileVaultAssumption, VaultInv, NEW c \in Clients, Encrypted!Publish(c) PROVE VaultInv'
<1>1. /\ PlaceOf(c, client[c]) /\ client[c].pc = "publish" /\ cur \in Pairs
      /\ client[c].before \in VaultFiles /\ client[c].before.data \in Data
  BY ClientIs DEF Encrypted!Publish, VaultFiles
<1> DEFINE e == Encrypted!File(client[c].before.data, TRUE)
<1>2. e \in VaultFiles /\ e.there /\ e.data = client[c].before.data
  BY <1>1, FirstData
<1>3. /\ cur' = [cur EXCEPT !.encrypted = e] /\ maybe' = Encrypted!Added(cur') /\ UNCHANGED <<legacy, told>>
      /\ client' = [client EXCEPT ![c].pc = "published"]
  BY DEF Encrypted!Publish
<1> HIDE DEF e
<1>4. PICK p \in Pairs : cur' = p /\ p.encrypted = e /\ p.json = cur.json
  BY <1>1, <1>2, <1>3, FileChange DEF e
<1>5. PICK a \in ClientTypes :
        /\ a.pc = "published" /\ a.opened = client[c].opened /\ a.before = client[c].before
        /\ client' = [client EXCEPT ![c] = a]
  <2>1. "published" \in VaultPhases
    BY DEF VaultPhases
  <2> QED BY <1>3, <2>1, GoesTo
<1>6. PlaceOf(c, a)'
  BY <1>1, <1>2, <1>3, <1>4, <1>5 DEF PlaceOf
<1>7. Encrypted!Readable(p) \in told' /\ told \subseteq told' /\ maybe' = Encrypted!Added(p)
         /\ p.encrypted.there
  BY <1>1, <1>2, <1>3, <1>4 DEF Encrypted!Readable, PlaceOf
<1> QED BY <1>1, <1>4, <1>5, <1>6, <1>7, AddStep

\* The copy is durable.
LEMMA SyncPublishedStep ==
  ASSUME Encrypted!FileVaultAssumption, VaultInv, NEW c \in Clients, Encrypted!SyncPublished(c) PROVE VaultInv'
<1>1. /\ PlaceOf(c, client[c]) /\ client[c].pc = "published" /\ cur \in Pairs
      /\ (cur.encrypted.there \/ cur.json.there) /\ Encrypted!Readable(cur) \in told
      /\ client' = [client EXCEPT ![c].pc = "unlink"] /\ maybe' = {cur}
      /\ UNCHANGED <<cur, told, legacy>>
  BY ClientIs DEF Encrypted!SyncPublished
<1>2. PICK a \in ClientTypes :
        /\ a.pc = "unlink" /\ a.opened = client[c].opened /\ a.before = client[c].before
        /\ client' = [client EXCEPT ![c] = a]
  <2>1. "unlink" \in VaultPhases
    BY DEF VaultPhases
  <2> QED BY <1>1, <2>1, GoesTo
<1>3. PlaceOf(c, a)'
  BY <1>1, <1>2 DEF PlaceOf
<1>4. PlacesInv' /\ client' \in [Clients -> ClientTypes]
  BY <1>1, <1>2, <1>3, ClientStep
<1>5. Encrypted!Readable(cur)' \in told'
  BY <1>1 DEF Encrypted!Readable
<1> QED BY <1>1, <1>4, <1>5, SettledStep

\* The plaintext vault is removed, or has changed.
LEMMA UnlinkStep ==
  ASSUME Encrypted!FileVaultAssumption, VaultInv, NEW c \in Clients, Encrypted!Unlink(c) PROVE VaultInv'
<1>1. /\ PlaceOf(c, client[c]) /\ client[c].pc \in {"unlink", "duplicate"} /\ cur \in Pairs /\ cur \in maybe
      /\ maybe \subseteq Pairs
      /\ told' = told
  BY ClientIs DEF Encrypted!Unlink
<1>2. CASE cur.json = client[c].before
  <2>1. /\ cur' = [cur EXCEPT !.json = Encrypted!Missing] /\ maybe' = Encrypted!Added(cur')
        /\ client' = [client EXCEPT ![c].pc = "unlinked"] /\ UNCHANGED legacy
    BY <1>2 DEF Encrypted!Unlink
  <2>2. PICK p \in Pairs : cur' = p /\ p.encrypted = cur.encrypted /\ ~p.json.there
    BY <1>1, <2>1, FirstData, FileChange
  <2>3. PICK a \in ClientTypes :
          /\ a.pc = "unlinked" /\ a.opened = client[c].opened /\ a.before = client[c].before
          /\ client' = [client EXCEPT ![c] = a]
    <3>1. "unlinked" \in VaultPhases
      BY DEF VaultPhases
    <3> QED BY <2>1, <3>1, GoesTo
  <2>4. PlaceOf(c, a)'
    BY <1>1, <2>1, <2>2, <2>3 DEF PlaceOf
  <2>5. PlacesInv' /\ client' \in [Clients -> ClientTypes] /\ client'[c] = a
    BY <1>1, <2>2, <2>3, <2>4, ClientStep
  <2>6. Reorders = TRUE => AllEncrypted
    BY <1>1, OneAtWork DEF VaultInv, OrderInv, PlaceOf
  <2>7. /\ maybe' = Encrypted!Added(p) /\ p \in maybe' /\ maybe' \subseteq Pairs
        /\ \A r \in maybe' : \E q \in maybe : r.encrypted = q.encrypted
        /\ Reorders # TRUE => maybe' = maybe \cup {p}
    <3>1. maybe' = Encrypted!Added(p)
      BY <2>1, <2>2
    <3>2. /\ p \in Encrypted!Added(p) /\ Encrypted!Added(p) \subseteq Pairs
          /\ \A r \in Encrypted!Added(p) : \E q \in maybe \cup {p} : r.encrypted = q.encrypted
          /\ Reorders # TRUE => Encrypted!Added(p) = maybe \cup {p}
      BY AddedIs
    <3> QED BY <1>1, <2>2, <3>1, <3>2
  <2>8. PairsInv'
    <3>1. \A q \in maybe : (q.encrypted.there \/ q.json.there) /\ Encrypted!Readable(q) \in told
      BY DEF VaultInv, PairsInv
    <3>2. ASSUME NEW r \in maybe' PROVE (r.encrypted.there \/ r.json.there) /\ Encrypted!Readable(r) \in told
      <4>1. CASE Reorders = TRUE
        BY <2>6, <2>7, <3>1, <3>2, <4>1 DEF AllEncrypted, Encrypted!Readable
      <4>2. CASE Reorders # TRUE
        <5>1. CASE r = p
          BY <1>1, <2>2, <3>1, <5>1 DEF Encrypted!Readable, PlaceOf
        <5> QED BY <2>7, <3>1, <3>2, <4>2, <5>1
      <4> QED BY <4>1, <4>2
    <3> QED BY <1>1, <3>2 DEF PairsInv, Encrypted!Readable
  <2>9. OrderInv'
    <3>1. Reorders = TRUE => AllEncrypted'
      BY <2>6, <2>7 DEF AllEncrypted
    <3>2. At("unlinked")'
      BY <2>3, <2>5 DEF At
    <3> QED BY <3>1, <3>2 DEF OrderInv
  <2> QED BY <2>2, <2>5, <2>7, <2>8, <2>9 DEF VaultInv, VaultTypes
<1>3. CASE cur.json # client[c].before /\ client[c].pc = "unlink"
  <2>1. client' = [client EXCEPT ![c].pc = "rollback"] /\ UNCHANGED <<cur, maybe, legacy>>
    BY <1>3 DEF Encrypted!Unlink
  <2>2. PICK a \in ClientTypes :
          a.pc = "rollback" /\ a.opened = client[c].opened /\ client' = [client EXCEPT ![c] = a]
    <3>1. "rollback" \in VaultPhases
      BY DEF VaultPhases
    <3> QED BY <2>1, <3>1, GoesTo
  <2>3. PlaceOf(c, a)'
    BY <1>1, <1>3, <2>1, <2>2 DEF PlaceOf
  <2> QED BY <1>1, <1>3, <2>1, <2>2, <2>3, QuietStep
<1>4. CASE cur.json # client[c].before /\ client[c].pc # "unlink"
  <2>1. Encrypted!Return(c, FALSE) /\ UNCHANGED <<cur, maybe>>
    BY <1>4 DEF Encrypted!Unlink
  <2> QED BY <1>1, <2>1, ReturnIs
<1> QED BY <1>2, <1>3, <1>4

\* The encrypted copy is taken back.
LEMMA RollbackStep ==
  ASSUME Encrypted!FileVaultAssumption, VaultInv, NEW c \in Clients, Encrypted!Rollback(c) PROVE VaultInv'
<1>1. PlaceOf(c, client[c]) /\ client[c].pc = "rollback" /\ cur \in Pairs
  BY ClientIs DEF Encrypted!Rollback
<1>2. /\ cur' = [cur EXCEPT !.encrypted = Encrypted!Missing] /\ maybe' = Encrypted!Added(cur') /\ told' = told
      /\ client' = [client EXCEPT ![c] = [Encrypted!Fresh EXCEPT !.opened = FALSE]]
  BY DEF Encrypted!Rollback, Encrypted!Return
<1>3. PICK a \in ClientTypes : a.pc = "idle" /\ a.opened = FALSE /\ client' = [client EXCEPT ![c] = a]
  BY <1>2, FreshIs
<1>4. PICK p \in Pairs : cur' = p /\ ~p.encrypted.there /\ p.json = cur.json
  BY <1>1, <1>2, FirstData, FileChange
<1>5. PlaceOf(c, a)'
  BY <1>3 DEF PlaceOf
<1>6. p.json.there /\ Encrypted!Readable(p) \in told' /\ told \subseteq told' /\ maybe' = Encrypted!Added(p)
  BY <1>1, <1>2, <1>4 DEF PlaceOf, Encrypted!Readable
<1> QED BY <1>1, <1>3, <1>4, <1>5, <1>6, AddStep

\* An effect fails.
LEMMA FailStep ==
  ASSUME Encrypted!FileVaultAssumption, Reorders = FALSE \/ Deaths = FALSE, VaultInv, NEW c \in Clients,
           Encrypted!Fail(c)
  PROVE  VaultInv'
<1>1. /\ PlaceOf(c, client[c]) /\ client[c].pc \notin {"idle", "stable"} /\ client[c].opened \in BOOLEAN
      /\ UNCHANGED <<cur, maybe, told>> /\ Reorders # TRUE
  BY ClientIs DEF Encrypted!Fail, Encrypted!FileVaultAssumption
<1>2. CASE client[c].pc = "unlink"
  <2>1. client' = [client EXCEPT ![c].pc = "rollback"] /\ UNCHANGED legacy
    BY <1>2 DEF Encrypted!Fail
  <2>2. PICK a \in ClientTypes :
          a.pc = "rollback" /\ a.opened = client[c].opened /\ client' = [client EXCEPT ![c] = a]
    <3>1. "rollback" \in VaultPhases
      BY DEF VaultPhases
    <3> QED BY <2>1, <3>1, GoesTo
  <2>3. PlaceOf(c, a)'
    BY <1>1, <1>2, <2>1, <2>2 DEF PlaceOf
  <2> QED BY <1>1, <2>1, <2>2, <2>3, QuietStep
<1>3. CASE client[c].pc # "unlink"
  <2>1. PICK b \in BOOLEAN : b = client[c].opened /\ Encrypted!Return(c, b)
    BY <1>1, <1>3 DEF Encrypted!Fail
  <2>2. b => ~cur.json.there
    BY <1>1, <2>1 DEF PlaceOf
  <2> QED BY <1>1, <2>1, <2>2, ReturnIs
<1> QED BY <1>2, <1>3

\* A client dies.
LEMMA DieStep ==
  ASSUME Encrypted!FileVaultAssumption, Reorders = FALSE \/ Deaths = FALSE, VaultInv, NEW c \in Clients,
           Encrypted!Die(c)
  PROVE  VaultInv'
<1>1. /\ UNCHANGED <<cur, maybe, told>> /\ Reorders # TRUE /\ client' = [client EXCEPT ![c] = Encrypted!Fresh]
      /\ legacy' = IF legacy = c THEN Encrypted!Nobody ELSE legacy
  BY DEF Encrypted!Die, Encrypted!FileVaultAssumption
<1>2. PICK a \in ClientTypes : a.pc = "idle" /\ a.opened = FALSE /\ client' = [client EXCEPT ![c] = a]
  BY <1>1, FreshIs
<1>3. PlaceOf(c, a)'
  BY <1>2 DEF PlaceOf
<1> QED BY <1>1, <1>2, <1>3, QuietStep

\* The power fails.
LEMMA PowerStep ==
  ASSUME Encrypted!FileVaultAssumption, VaultInv, Encrypted!PowerFailure PROVE VaultInv'
<1>1. /\ cur' \in maybe /\ maybe' = {cur'} /\ client' = [c \in Clients |-> Encrypted!Fresh] /\ told' = told
  BY DEF Encrypted!PowerFailure
<1>2. cur' \in Pairs /\ (cur'.encrypted.there \/ cur'.json.there) /\ Encrypted!Readable(cur') \in told
  BY <1>1 DEF VaultInv, VaultTypes, PairsInv
<1>3. Encrypted!Fresh \in ClientTypes /\ Encrypted!Fresh.pc = "idle" /\ Encrypted!Fresh.opened = FALSE
  BY FreshIs, FirstData DEF Encrypted!Fresh, ClientTypes, VaultPhases
<1>4. client' \in [Clients -> ClientTypes] /\ \A c \in Clients : client'[c] = Encrypted!Fresh
  BY <1>1, <1>3
<1>5. PlacesInv'
  BY <1>3, <1>4 DEF PlacesInv, PlaceOf
<1>6. Encrypted!Readable(cur)' \in told'
  BY <1>1, <1>2 DEF Encrypted!Readable
<1> QED BY <1>1, <1>2, <1>4, <1>5, <1>6, SettledStep

\* The plaintext vault is rewritten.
LEMMA RewriteStep ==
  ASSUME Encrypted!FileVaultAssumption, VaultInv, Encrypted!RewriteJson PROVE VaultInv'
<1>1. PICK n \in Names, v \in Values : cur' = [cur EXCEPT !.json = Encrypted!File(Encrypted!Stored(n, v),
         FALSE)]
  BY DEF Encrypted!RewriteJson
<1> DEFINE j == Encrypted!File(Encrypted!Stored(n, v), FALSE)
           Rewritten(p) == [p EXCEPT !.json = j]
<1>2. j \in VaultFiles /\ j.there
  BY FirstData
<1> HIDE DEF j
<1>3. \A p \in Pairs : Rewritten(p) \in Pairs /\ Rewritten(p).json = j /\ Rewritten(p).encrypted = p.encrypted
  BY <1>2, PairParts
<1> HIDE DEF Rewritten
<1>4. cur \in Pairs /\ cur \in maybe /\ maybe \subseteq Pairs /\ client \in [Clients -> ClientTypes]
      /\ PlacesInv /\ PairsInv /\ OrderInv
  BY DEF VaultInv, VaultTypes
<1>5. cur' = Rewritten(cur)
  BY <1>1 DEF Rewritten, j
<1>6. cur' \in Pairs /\ cur'.json = j /\ cur'.encrypted = cur.encrypted
  BY <1>3, <1>4, <1>5
<1>7. /\ maybe' = {Rewritten(p) : p \in maybe} /\ told' = told \cup {j.data}
      /\ cur.json.there /\ UNCHANGED <<legacy, client>>
  BY <1>6 DEF Encrypted!RewriteJson, Rewritten
<1>8. PlacesInv'
  BY <1>2, <1>4, <1>6, <1>7 DEF PlacesInv, PlaceOf
<1>9. cur' \in maybe' /\ maybe' \subseteq Pairs
  BY <1>3, <1>4, <1>5, <1>7
<1>10. PairsInv'
  BY <1>2, <1>3, <1>4, <1>7 DEF PairsInv, Encrypted!Readable
<1>11. OrderInv'
  <2>1. OneJson' /\ (AllEncrypted => AllEncrypted')
    BY <1>3, <1>4, <1>6, <1>7 DEF OneJson, AllEncrypted
  <2>2. At("published") => At("published")'
    BY <1>7 DEF At
  <2> QED BY <1>4, <1>6, <2>1, <2>2 DEF OrderInv
<1> QED BY <1>4, <1>6, <1>7, <1>8, <1>9, <1>10, <1>11 DEF VaultInv, VaultTypes

\* The permissions of the encrypted file change.
LEMMA WidenStep ==
  ASSUME Encrypted!FileVaultAssumption, VaultInv, Encrypted!WidenPermissions PROVE VaultInv'
<1>1. cur \in Pairs /\ cur \in maybe /\ maybe \subseteq Pairs /\ client \in [Clients -> ClientTypes]
      /\ PlacesInv /\ PairsInv /\ OrderInv
  BY DEF VaultInv, VaultTypes
<1>2. PICK p \in Pairs : /\ cur' = p /\ p.json = cur.json /\ p.encrypted.there = cur.encrypted.there
                         /\ p.encrypted.data = cur.encrypted.data
  <2> DEFINE q == [cur EXCEPT !.encrypted.private = FALSE]
  <2>1. /\ q \in Pairs /\ q.json = cur.json /\ q.encrypted.there = cur.encrypted.there
        /\ q.encrypted.data = cur.encrypted.data
    BY <1>1 DEF Pairs, VaultFiles
  <2>2. cur' = q
    BY DEF Encrypted!WidenPermissions
  <2> HIDE DEF q
  <2> QED BY <2>1, <2>2
<1>3. maybe' = Encrypted!Added(p) /\ UNCHANGED <<legacy, client, told>> /\ cur.encrypted.there
  BY <1>2 DEF Encrypted!WidenPermissions
<1>4. /\ p \in maybe' /\ maybe' \subseteq Pairs
      /\ \A r \in maybe' : \E q \in maybe \cup {p} : r.encrypted = q.encrypted
      /\ Reorders # TRUE \/ OneJson => maybe' = maybe \cup {p}
  BY <1>2, <1>3, AddedIs
<1>5. \A r \in maybe' : \E q \in maybe : r.encrypted.there = q.encrypted.there
                                         /\ r.encrypted.data = q.encrypted.data
  BY <1>1, <1>2, <1>4
<1>6. PlacesInv'
  BY <1>1, <1>2, <1>3 DEF PlacesInv, PlaceOf
<1>7. PairsInv'
  <2>1. \A q \in maybe : (q.encrypted.there \/ q.json.there) /\ Encrypted!Readable(q) \in told
    BY <1>1 DEF PairsInv
  <2>2. ASSUME NEW r \in maybe' PROVE (r.encrypted.there \/ r.json.there) /\ Encrypted!Readable(r) \in told
    <3>1. CASE Reorders # TRUE \/ OneJson
      <4>1. CASE r = p
        BY <1>1, <1>2, <2>1, <4>1 DEF Encrypted!Readable
      <4>2. maybe' = maybe \cup {p}
        BY <1>4, <3>1
      <4>3. CASE r \in maybe
        BY <2>1, <4>3
      <4> QED BY <2>2, <4>1, <4>2, <4>3
    <3>2. CASE AllEncrypted
      BY <1>5, <2>1, <2>2, <3>2 DEF AllEncrypted, Encrypted!Readable
    <3> QED BY <1>1, <3>1, <3>2 DEF OrderInv
  <2> QED BY <1>3, <2>2 DEF PairsInv, Encrypted!Readable
<1>8. OrderInv'
  <2>1. AllEncrypted => AllEncrypted'
    BY <1>5 DEF AllEncrypted
  <2>2. OneJson => OneJson'
    <3> SUFFICES ASSUME OneJson PROVE OneJson'
      OBVIOUS
    <3>1. maybe' = maybe \cup {p} /\ cur'.json = cur.json
      BY <1>2, <1>4
    <3> QED BY <1>2, <3>1 DEF OneJson
  <2>3. \A place \in {"published", "unlinked"} : At(place) => At(place)'
    BY <1>3 DEF At
  <2> QED BY <1>1, <1>2, <1>3, <2>1, <2>2, <2>3 DEF OrderInv
<1> QED BY <1>1, <1>2, <1>3, <1>4, <1>6, <1>7, <1>8 DEF VaultInv, VaultTypes

\* A vault as one of the releases left it.
LEMMA VaultBegins == ASSUME Encrypted!FileVaultAssumption, Encrypted!Init PROVE VaultInv
<1>1. PICK n \in Names, v \in Values :
        cur = IF Plaintext THEN [encrypted |-> Encrypted!Missing, json |-> Encrypted!File(Encrypted!Stored(n,
                 v), FALSE)]
              ELSE [encrypted |-> Encrypted!File(Encrypted!Stored(n, v), TRUE), json |-> Encrypted!Missing]
  BY DEF Encrypted!Init
<1>2. /\ maybe = {cur} /\ client = [c \in Clients |-> Encrypted!Fresh] /\ Plaintext \in BOOLEAN
      /\ told = {IF Plaintext THEN cur.json.data ELSE cur.encrypted.data}
  BY DEF Encrypted!Init, Encrypted!FileVaultAssumption
<1> DEFINE e == Encrypted!File(Encrypted!Stored(n, v), TRUE)
           j == Encrypted!File(Encrypted!Stored(n, v), FALSE)
<1>3. e \in VaultFiles /\ e.there /\ j \in VaultFiles /\ j.there /\ Encrypted!Missing \in VaultFiles
         /\ ~Encrypted!Missing.there
  BY FirstData
<1> HIDE DEF e, j
<1>4. cur \in Pairs /\ (cur.encrypted.there \/ cur.json.there) /\ Encrypted!Readable(cur) \in told
  <2>1. CASE Plaintext = TRUE
    <3>1. cur = [encrypted |-> Encrypted!Missing, json |-> j]
      BY <1>1, <2>1 DEF j
    <3> QED BY <1>2, <1>3, <2>1, <3>1 DEF Pairs, Encrypted!Readable
  <2>2. CASE Plaintext = FALSE
    <3>1. cur = [encrypted |-> e, json |-> Encrypted!Missing]
      BY <1>1, <2>2 DEF e
    <3> QED BY <1>2, <1>3, <2>2, <3>1 DEF Pairs, Encrypted!Readable
  <2> QED BY <1>2, <2>1, <2>2
<1>5. Encrypted!Fresh \in ClientTypes /\ Encrypted!Fresh.pc = "idle" /\ Encrypted!Fresh.opened = FALSE
  BY FirstData DEF Encrypted!Fresh, ClientTypes, VaultPhases
<1>6. client \in [Clients -> ClientTypes] /\ \A c \in Clients : client[c] = Encrypted!Fresh
  BY <1>2, <1>5
<1>7. PlacesInv
  BY <1>5, <1>6 DEF PlacesInv, PlaceOf
<1> QED BY <1>2, <1>4, <1>6, <1>7
   DEF VaultInv, VaultTypes, PairsInv, OrderInv, OneJson, AllEncrypted

\* Every step keeps what is shown of the vault.
LEMMA VaultKept ==
  ASSUME Encrypted!FileVaultAssumption, Reorders = FALSE \/ Deaths = FALSE, VaultInv,
         [Encrypted!Next]_(Encrypted!vars)
  PROVE  VaultInv'
<1>1. CASE \E c \in Clients :
              \/ Encrypted!TakeStable(c) \/ Encrypted!TakeLegacy(c) \/ Encrypted!Load(c)
              \/ Encrypted!Change(c) \/ Encrypted!Save(c)
              \/ Encrypted!Sync(c) \/ Encrypted!SyncUnlinked(c)
  BY <1>1, TakeSteps, LoadStep, ChangeStep, SaveStep, SyncSteps
<1>2. CASE \E c \in Clients :
              \/ Encrypted!OpenRead(c) \/ Encrypted!Publish(c)
              \/ Encrypted!SyncPublished(c) \/ Encrypted!Unlink(c) \/ Encrypted!Rollback(c)
  BY <1>2, OpenReadStep, PublishStep, SyncPublishedStep, UnlinkStep, RollbackStep
<1>3. CASE \E c \in Clients : Encrypted!Fail(c) \/ Encrypted!Die(c)
  BY <1>3, FailStep, DieStep
<1>4. CASE Encrypted!PowerFailure \/ Encrypted!RewriteJson \/ Encrypted!WidenPermissions
  BY <1>4, PowerStep, RewriteStep, WidenStep
<1>5. CASE UNCHANGED Encrypted!vars
  BY <1>5 DEF Encrypted!vars, VaultInv, VaultTypes, PlacesInv, PlaceOf, PairsInv, Encrypted!Readable,
              OrderInv, OneJson, AllEncrypted, At
<1> QED BY <1>1, <1>2, <1>3, <1>4, <1>5 DEF Encrypted!Next

\* NoValueLost and SidecarsFollowValues of the file vault: store, delete, swap and
\* the verdicts lose no update that was reported, whatever the power failure leaves,
\* a stored value never inherits a verdict recorded beside another (replace_value),
\* and migrate_from_json removes the plaintext vault only when its encrypted copy is
\* safe.  After a death between publish and sync a second opener removes the
\* plaintext vault without a sync of its own: hence Reorders or Deaths is FALSE.
THEOREM VaultValuesAreKept ==
  ASSUME Encrypted!FileVaultAssumption, Reorders = FALSE \/ Deaths = FALSE
  PROVE  Encrypted!Spec => [](Encrypted!NoValueLost /\ Encrypted!SidecarsFollowValues)
<1>1. Encrypted!Init => VaultInv
  BY VaultBegins
<1>2. VaultInv /\ [Encrypted!Next]_(Encrypted!vars) => VaultInv'
  BY VaultKept
<1>3. VaultInv => Encrypted!NoValueLost /\ Encrypted!SidecarsFollowValues
  <2>1. VaultInv => Encrypted!NoValueLost
    BY DEF VaultInv, PairsInv, Encrypted!NoValueLost
  <2>2. ASSUME VaultInv PROVE Encrypted!SidecarsFollowValues
    <3>1. Encrypted!Readable(cur) \in Data
      BY <2>2, PairParts DEF VaultInv, VaultTypes, Encrypted!Readable, VaultFiles
    <3> QED BY <3>1 DEF Data, SoundData, Followed, Encrypted!SidecarsFollowValues
  <2> QED BY <2>1, <2>2
<1> QED BY <1>1, <1>2, <1>3, PTL DEF Encrypted!Spec
===============================================================================
