----------------------- MODULE WorkspaceRequestProofs -----------------------
(***************************************************************************)
(* Proofs about WorkspaceRequest, for any number of identifiers, bases,    *)
(* workspaces, clients and for any limit and time-to-live.                 *)
(*                                                                         *)
(* Two further parts are about what lies below the commands: phantom-core's*)
(* exact file effects, by which the vaults and the commands replace files  *)
(* that other programs edit (AnchoredFile), and the calls of the keychain  *)
(* vault (KeychainVault).                                                  *)
(***************************************************************************)
EXTENDS WorkspaceRequest, Sequences, FiniteSetTheorems, TLAPS

-----------------------------------------------------------------------------
(* Types                                                                   *)

LEMMA TypeInit == Init => TypeOK
BY StoreAssumption DEF Init, TypeOK, States, None

LEMMA ExpireType ==
  ASSUME TypeOK, NEW i \in Ids, expire_if_needed(i),
         UNCHANGED <<basis, expires, deadline, asked, now>>
  PROVE  TypeOK'
<1>1. state' \in [Ids -> States] /\ recovery' \in SUBSET Ids
  BY DEF TypeOK, States, expire_if_needed
<1>2. \A j \in Ids : (state'[j] = "Claimed") <=> (state[j] = "Claimed")
  BY DEF TypeOK, expire_if_needed, ExpiredAt
<1>3. \A j \in recovery' : state[j] = "Claimed"
  BY DEF TypeOK, expire_if_needed, Overdue
<1> QED
  BY <1>1, <1>2, <1>3 DEF TypeOK

LEMMA TransitionType ==
  ASSUME TypeOK, NEW i \in Ids, NEW b \in Bases, NEW from \in {"Pending", "Claimed"},
         NEW to \in {"Claimed"} \cup Outcomes, Transition(i, b, from, to)
  PROVE  TypeOK'
<1>1. CASE expire_if_needed(i) /\ UNCHANGED deadline
  BY <1>1, ExpireType DEF Transition
<1>2. CASE /\ state' = [state EXCEPT ![i] = to]
           /\ deadline' = [deadline EXCEPT ![i] =
                             IF to = "Claimed" THEN now + ClaimTtl ELSE None]
           /\ recovery' = recovery \ {i}
  <2>1. now + ClaimTtl \in Nat /\ now + ClaimTtl # None
    BY StoreAssumption DEF TypeOK, None
  <2>2. /\ state' \in [Ids -> States] /\ recovery' \in SUBSET Ids
        /\ deadline' \in [Ids -> Nat \cup {None}]
    BY <1>2, <2>1 DEF TypeOK, States
  <2>3. \A j \in Ids : (deadline'[j] # None) <=> (state'[j] = "Claimed")
    BY <1>2, <2>1 DEF TypeOK, Outcomes
  <2>4. \A j \in recovery' : state'[j] = "Claimed"
    BY <1>2 DEF TypeOK
  <2> QED
    BY <2>2, <2>3, <2>4 DEF TypeOK, Transition
<1> QED
  BY <1>1, <1>2 DEF Transition

\* Deleting expired files touches pending records only.
LEMMA PruneType ==
  ASSUME TypeOK, NEW t, NEW S \in SUBSET ExpiredBy(t)
  PROVE  /\ Pruned(S) \in [Ids -> States]
         /\ \A i \in Ids : (Pruned(S)[i] = "Claimed") <=> (state[i] = "Claimed")
         /\ \A i \in Ids : Pruned(S)[i] = "Pending" => state[i] = "Pending"
BY DEF TypeOK, Pruned, ExpiredBy, ExpiredAt, States

LEMMA TypeStep == TypeOK /\ [Next]_vars => TypeOK'
<1> SUFFICES ASSUME TypeOK, [Next]_vars PROVE TypeOK'
  OBVIOUS
<1>1. ASSUME NEW c \in Clients, Ask(c) PROVE TypeOK'
  BY <1>1 DEF Ask, TypeOK, record
<1>2. ASSUME NEW c \in Clients, CreateFails(c) PROVE TypeOK'
  <2>1. PICK S \in SUBSET ExpiredBy(asked[c]) : state' = Pruned(S)
    BY <1>2 DEF CreateFails
  <2>2. asked' \in [Clients -> Nat \cup {None}]
    BY <1>2 DEF CreateFails, TypeOK
  <2> QED
    BY <1>2, <2>1, <2>2, PruneType DEF CreateFails, TypeOK
<1>3. ASSUME NEW c \in Clients, NEW b \in Bases, Create(c, b) PROVE TypeOK'
  <2> DEFINE t == asked[c]
  <2>1. asked' \in [Clients -> Nat \cup {None}] /\ t + Ttl \in Nat
    BY <1>3, StoreAssumption DEF Create, TypeOK, None
  <2>2. CASE state' = Pruned(ExpiredBy(t)) /\ UNCHANGED <<basis, expires>>
    BY <1>3, <2>1, <2>2, PruneType DEF Create, TypeOK
  <2>3. ASSUME NEW i \in Ids, state[i] = "unused",
               state' = [Pruned(ExpiredBy(t)) EXCEPT ![i] = "Pending"],
               basis' = [basis EXCEPT ![i] = b],
               expires' = [expires EXCEPT ![i] = t + Ttl]
        PROVE  TypeOK'
    <3>1. state' \in [Ids -> States]
      BY <2>3, PruneType DEF States
    <3>2. /\ basis' \in [Ids -> Bases \cup {NoBasis}]
          /\ expires' \in [Ids -> Nat]
      BY <2>1, <2>3 DEF TypeOK
    <3>3. \A j \in Ids : (state'[j] = "Claimed") <=> (state[j] = "Claimed")
      BY <2>3, PruneType
    <3> QED
      BY <1>3, <2>1, <3>1, <3>2, <3>3 DEF Create, TypeOK
  <2> QED
    BY <1>3, <2>2, <2>3 DEF Create
<1>4. ASSUME NEW i \in Ids, get_status(i) PROVE TypeOK'
  BY <1>4, ExpireType DEF get_status
<1>5. ASSUME NEW i \in Ids, NEW b \in Bases,
             \/ claim_exact(i, b) \/ complete_request(i, b)
             \/ fail_request(i, b) \/ rollback_request(i, b)
      PROVE  TypeOK'
  BY <1>5, TransitionType
     DEF claim_exact, complete_request, fail_request, rollback_request, Outcomes
<1>6. CASE SetClock
  BY <1>6, StoreAssumption DEF SetClock, TypeOK, record
<1>7. CASE UNCHANGED vars
  BY <1>7 DEF vars, TypeOK
<1> QED
  BY <1>1, <1>2, <1>3, <1>4, <1>5, <1>6, <1>7 DEF Next

\* In every reachable state every variable has its type, a deadline is set
\* exactly while a request is claimed and only claims are marked for recovery.
THEOREM RequestTypeCorrect == Spec => []TypeOK
BY TypeInit, TypeStep, PTL DEF Spec

-----------------------------------------------------------------------------
(* Who is pending                                                          *)

\* No record becomes pending, or pending for something else.
NoNewPending ==
  \A i \in Ids : state'[i] = "Pending" =>
    state[i] = "Pending" /\ basis'[i] = basis[i]

\* Record i becomes pending for basis b after a cleanup at time t that found no
\* equal request and the workspace below its limit.
Fresh(i, b, t) ==
  /\ Same(b, t) = {} /\ BelowLimit(b, t)
  /\ basis'[i] = b /\ state[i] = "unused"
  /\ \A j \in Ids \ {i} :
       /\ basis'[j] = basis[j]
       /\ state'[j] = "Pending" => j \in LiveAt(t)

\* Only create_request makes a record pending, one at a time, and every other
\* record still pending afterwards was counted.
LEMMA PendingStep ==
  ASSUME TypeOK, Next
  PROVE  \/ NoNewPending
         \/ \E i \in Ids, b \in Bases, c \in Clients : Fresh(i, b, asked[c])
<1>1. ASSUME NEW c \in Clients, Ask(c) \/ CreateFails(c) PROVE NoNewPending
  <2>1. CASE Ask(c)
    BY <2>1 DEF Ask, record, NoNewPending
  <2>2. CASE CreateFails(c)
    BY <2>2, PruneType DEF CreateFails, NoNewPending
  <2> QED
    BY <1>1, <2>1, <2>2
<1>2. ASSUME NEW c \in Clients, NEW b \in Bases, Create(c, b)
      PROVE  NoNewPending \/ \E i \in Ids : Fresh(i, b, asked[c])
  <2> DEFINE t == asked[c]
  <2>1. CASE state' = Pruned(ExpiredBy(t)) /\ UNCHANGED <<basis, expires>>
    BY <2>1, PruneType DEF NoNewPending
  <2>2. ASSUME NEW i \in Ids, state[i] = "unused",
               Same(b, t) = {}, BelowLimit(b, t),
               state' = [Pruned(ExpiredBy(t)) EXCEPT ![i] = "Pending"],
               basis' = [basis EXCEPT ![i] = b]
        PROVE  Fresh(i, b, t)
    <3>1. \A j \in Ids \ {i} : state'[j] = "Pending" => j \in LiveAt(t)
      BY <2>2 DEF Pruned, ExpiredBy, LiveAt, ExpiredAt
    <3> QED
      BY <2>2, <3>1 DEF Fresh, TypeOK
  <2> QED
    BY <1>2, <2>1, <2>2 DEF Create
<1>3. ASSUME NEW i \in Ids, expire_if_needed(i), UNCHANGED basis
      PROVE  NoNewPending
  BY <1>3 DEF expire_if_needed, NoNewPending, TypeOK
<1>4. ASSUME NEW i \in Ids, NEW b \in Bases, NEW from, NEW to, to # "Pending",
             Transition(i, b, from, to)
      PROVE  NoNewPending
  BY <1>3, <1>4 DEF Transition, NoNewPending, TypeOK
<1>5. CASE SetClock
  BY <1>5 DEF SetClock, record, NoNewPending
<1> QED
  BY <1>1, <1>2, <1>3, <1>4, <1>5
     DEF Next, get_status, claim_exact, complete_request, fail_request,
         rollback_request

\* However stale the time a creator read before it got the lock, and wherever
\* the wall clock is set, no workspace ever has more than
\* MAX_PENDING_PER_WORKSPACE pending records.
THEOREM PendingIsCapped == Spec => []PendingCapped
<1>1. Init => PendingCapped
  <2> SUFFICES ASSUME Init, NEW b \in Bases
               PROVE  Cardinality(PendingIn(ScopeOf[b])) <= MaxPending
    BY DEF PendingCapped
  <2>1. PendingIn(ScopeOf[b]) = {}
    BY DEF Init, PendingIn
  <2> QED
    BY <2>1, FS_EmptySet, StoreAssumption
<1>2. TypeOK /\ PendingCapped /\ [Next]_vars => PendingCapped'
  <2> SUFFICES ASSUME TypeOK, PendingCapped, [Next]_vars, NEW b \in Bases
               PROVE  Cardinality(PendingIn(ScopeOf[b])') <= MaxPending
    BY DEF PendingCapped
  <2> DEFINE P == PendingIn(ScopeOf[b])
  <2>0. IsFiniteSet(P) /\ Cardinality(P) \in Nat /\ Cardinality(P) <= MaxPending
    BY FS_Subset, FS_CardinalityType, StoreAssumption DEF PendingIn, PendingCapped
  <2>1. ASSUME P' \subseteq P PROVE Cardinality(P') <= MaxPending
    BY <2>0, <2>1, FS_Subset, FS_CardinalityType, StoreAssumption
  <2>2. CASE NoNewPending
    BY <2>1, <2>2 DEF NoNewPending, PendingIn
  <2>3. ASSUME NEW i \in Ids, NEW d \in Bases, NEW c \in Clients,
               Fresh(i, d, asked[c])
        PROVE  Cardinality(P') <= MaxPending
    <3> DEFINE Live == {j \in LiveAt(asked[c]) : ScopeOf[basis[j]] = ScopeOf[b]}
    <3>1. CASE ScopeOf[d] # ScopeOf[b]
      BY <2>1, <2>3, <3>1 DEF Fresh, PendingIn, LiveAt
    <3>2. CASE ScopeOf[d] = ScopeOf[b]
      <4>1. P' \subseteq Live \cup {i}
        BY <2>3 DEF Fresh, PendingIn
      <4>2. IsFiniteSet(Live) /\ Cardinality(Live) \in Nat
        BY FS_Subset, FS_CardinalityType, StoreAssumption DEF LiveAt
      <4>3. Cardinality(Live) < MaxPending
        BY <2>3, <3>2 DEF Fresh, BelowLimit
      <4> HIDE DEF Live
      <4>4. /\ IsFiniteSet(Live \cup {i})
            /\ Cardinality(Live \cup {i}) \in Nat
            /\ Cardinality(Live \cup {i}) <= MaxPending
        <5>1. /\ IsFiniteSet(Live \cup {i})
              /\ Cardinality(Live \cup {i}) =
                   IF i \in Live THEN Cardinality(Live)
                                 ELSE Cardinality(Live) + 1
          BY <4>2, FS_AddElement
        <5> QED
          BY <4>2, <4>3, <5>1, StoreAssumption
      <4>5. /\ Cardinality(P') \in Nat
            /\ Cardinality(P') <= Cardinality(Live \cup {i})
        BY <4>1, <4>4, FS_Subset, FS_CardinalityType
      <4> QED
        BY <4>4, <4>5, StoreAssumption
    <3> QED
      BY <3>1, <3>2
  <2>4. CASE UNCHANGED vars
    BY <2>1, <2>4 DEF vars, PendingIn
  <2> QED
    BY <2>2, <2>3, <2>4, PendingStep
<1> QED
  BY <1>1, <1>2, RequestTypeCorrect, PTL DEF Spec

\* Concurrent requests for the same plan, workspace and pre-state end up with
\* one pending record between them.
THEOREM PendingIsUnique == Spec => []PendingUnique
<1>1. Init => PendingUnique
  BY DEF Init, PendingUnique
<1>2. TypeOK /\ PendingUnique /\ [Next]_vars => PendingUnique'
  <2> SUFFICES ASSUME TypeOK, PendingUnique, [Next]_vars PROVE PendingUnique'
    OBVIOUS
  <2>1. CASE NoNewPending
    BY <2>1 DEF NoNewPending, PendingUnique
  <2>2. ASSUME NEW i \in Ids, NEW d \in Bases, NEW c \in Clients,
               Fresh(i, d, asked[c])
        PROVE  PendingUnique'
    <3>1. \A j \in Ids \ {i} : state'[j] = "Pending" =>
            state[j] = "Pending" /\ basis'[j] = basis[j] /\ basis[j] # d
      BY <2>2 DEF Fresh, Same, LiveAt
    <3> QED
      BY <2>2, <3>1 DEF Fresh, PendingUnique
  <2>3. CASE UNCHANGED vars
    BY <2>3 DEF vars, PendingUnique
  <2> QED
    BY <2>1, <2>2, <2>3, PendingStep
<1> QED
  BY <1>1, <1>2, RequestTypeCorrect, PTL DEF Spec

-----------------------------------------------------------------------------
(* The lifecycle of a record                                               *)

\* The store implements RequestLifecycle for every record: claimed at most
\* once, never expired or removed once claimed, its outcome final.
THEOREM LifecycleKept == Spec => EachLifecycle
<1> DEFINE Step == \A i \in Ids : [Life(i)!Next]_(state[i])
<1>1. Init => \A i \in Ids : Life(i)!Init
  BY DEF Init, Life!Init
<1>2. TypeOK /\ [Next]_vars => [Step]_state
  <2> SUFFICES ASSUME TypeOK, Next, NEW i \in Ids
               PROVE  [Life(i)!Next]_(state[i])
    BY DEF vars
  <2> USE DEF Life!Next, Life!Create, Life!Expire, Life!Prune, Life!Claim,
              Life!Settle, Life!Outcome
  <2>1. ASSUME NEW t, NEW S \in SUBSET ExpiredBy(t), state'[i] = Pruned(S)[i]
        PROVE  [Life(i)!Next]_(state[i])
    BY <2>1 DEF Pruned, ExpiredBy, ExpiredAt
  <2>2. ASSUME NEW c \in Clients, CreateFails(c)
        PROVE  [Life(i)!Next]_(state[i])
    BY <2>1, <2>2 DEF CreateFails
  <2>3. ASSUME NEW c \in Clients, NEW b \in Bases, Create(c, b)
        PROVE  [Life(i)!Next]_(state[i])
    <3>1. \/ state'[i] = Pruned(ExpiredBy(asked[c]))[i]
          \/ state[i] = "unused" /\ state'[i] = "Pending"
      BY <2>3, PruneType DEF Create, Pruned
    <3> QED
      BY <2>1, <3>1
  <2>4. ASSUME NEW j \in Ids, expire_if_needed(j)
        PROVE  [Life(i)!Next]_(state[i])
    BY <2>4 DEF expire_if_needed, ExpiredAt, TypeOK
  <2>5. ASSUME NEW j \in Ids, NEW b \in Bases, NEW from, NEW to,
               Transition(j, b, from, to),
               \/ from = "Pending" /\ to = "Claimed"
               \/ from = "Claimed" /\ to \in Outcomes
        PROVE  [Life(i)!Next]_(state[i])
    BY <2>4, <2>5 DEF Transition, TypeOK, Outcomes
  <2>6. ASSUME UNCHANGED state PROVE [Life(i)!Next]_(state[i])
    BY <2>6
  <2> QED
    BY <2>2, <2>3, <2>4, <2>5, <2>6
       DEF Next, Ask, SetClock, record, get_status, claim_exact,
           complete_request, fail_request, rollback_request, Outcomes
<1> QED
  BY <1>1, <1>2, RequestTypeCorrect, PTL DEF Spec, EachLifecycle

\* A claim marked RecoveryRequired keeps that mark through any clock change and
\* any failing call until its outcome is recorded.
THEOREM RecoveryStaysMarked == Spec => RecoverySticky
<1> DEFINE Keep == \A i \in recovery : i \in recovery' \/ state'[i] \in Outcomes
<1>1. TypeOK /\ [Next]_vars => [Keep]_vars
  <2> SUFFICES ASSUME TypeOK, Next PROVE Keep
    BY DEF vars
  <2>1. CASE UNCHANGED recovery
    BY <2>1
  <2>2. ASSUME NEW j \in Ids, expire_if_needed(j) PROVE Keep
    BY <2>2 DEF expire_if_needed
  <2>3. ASSUME NEW j \in Ids, NEW b \in Bases, NEW from, NEW to,
               Transition(j, b, from, to),
               from = "Pending" \/ to \in Outcomes
        PROVE  Keep
    BY <2>2, <2>3 DEF Transition, TypeOK, Outcomes
  <2> QED
    BY <2>1, <2>2, <2>3
       DEF Next, Ask, Create, CreateFails, SetClock, record, get_status,
           claim_exact, complete_request, fail_request, rollback_request,
           Outcomes
<1> QED
  BY <1>1, RequestTypeCorrect, PTL DEF Spec, RecoverySticky

-----------------------------------------------------------------------------
(* The files that stores and commands replace or remove (AnchoredFile), for  *)
(* any writers and contents and any number of files, edits and failures.     *)
(* A file that a writer has read keeps its inode, so the file under that     *)
(* inode is the one that was read (ReadOf); from its last look to its rename *)
(* only the editor changes what is under the name (LookOf), because a writer *)
(* has the lock (GuardOf); a staging file is complete before it has a name   *)
(* (StagedOf); and a file that was replaced is away for good once the        *)
(* directory is synced (AwayOf).                                             *)

CONSTANTS Writers, Removers, Contents, MaxInodes, MaxEdits, MaxFailures, PowerFails

VARIABLES store, entry, maybe, holder, writer, made, edits, failures

File == INSTANCE AnchoredFile

Guarded == {"check", "stage", "recheck", "temp", "rename", "sync", "verify"}

Places == Guarded \cup {"review", "lock", "done", "dead"}

Makers == (Writers \cup {"first", "editor"}) \X Nat

Images == [inode : File!Inodes, bytes : Contents \cup {File!Torn}, private : BOOLEAN]

FileTypes == [bytes : Contents \cup {File!Torn}, private : BOOLEAN, synced : BOOLEAN, by : Makers]

WriterTypes ==
    [pc : Places, seen : Images \cup {File!Unread}, expected : Images \cup {File!Gone}, want : Contents,
     temp : File!Inodes \cup {File!Nowhere}, staged : BOOLEAN, did : BOOLEAN, late : BOOLEAN,
     out : {"none", "err", "durable", "uncertain"}, read : Makers]

FileShape ==
    /\ store \in [File!Inodes -> FileTypes]
    /\ maybe \subseteq File!Inodes \cup {File!Nowhere} /\ entry \in maybe
    /\ made \in [File!Inodes -> Contents \cup {File!Torn}]
    /\ writer \in [Writers -> WriterTypes]
    /\ edits \in Nat

\* What was published is on the disk until it is edited.
MadeInv == \A i \in File!Inodes : made[i] # File!Torn => store[i].bytes = made[i] /\ store[i].synced = TRUE

\* The lock is with the writer that is between taking it and returning.
GuardOf(w) == holder = w <=> writer[w].pc \in Guarded

\* How a writer's place goes with what it did and what it was told.
ToldOf(w) ==
    /\ writer[w].did = TRUE => writer[w].pc \in {"sync", "verify", "done", "dead"}
    /\ writer[w].pc \in {"sync", "verify"} => writer[w].did = TRUE
    /\ writer[w].out # "none" => writer[w].pc = "done"
    /\ writer[w].out = "err" => writer[w].did = FALSE
    /\ writer[w].out \in {"durable", "uncertain"} => writer[w].did = TRUE

\* A staging file is complete, and nobody has seen it under the name.
StagedOf(w) ==
    writer[w].staged = TRUE =>
        /\ writer[w].pc \in {"recheck", "temp", "rename"}
        /\ writer[w].temp \in File!Inodes /\ writer[w].temp \notin maybe
        /\ store[writer[w].temp].bytes = writer[w].want /\ store[writer[w].temp].synced = TRUE
        /\ \A v \in Writers : writer[v].expected.inode # writer[w].temp

\* The file that was read is not replaced behind its inode.
ReadOf(w) ==
    /\ writer[w].expected.inode # File!Nowhere => store[writer[w].expected.inode].by = writer[w].read
    /\ writer[w].expected.inode = File!Nowhere => writer[w].read = <<"first", 0>>

\* After the last look only the editor changes what is under the name.
LookOf(w) == writer[w].pc \in {"temp", "rename"} /\ writer[w].late = FALSE => File!Look = writer[w].expected

\* After the rename, and for good after the sync, the file that was read is gone.
AwayOf(w) ==
    /\ writer[w].pc = "sync" => entry = File!Nowhere \/ entry # writer[w].expected.inode
    /\ writer[w].pc = "verify" \/ writer[w].out = "durable" =>
           writer[w].expected.inode = File!Nowhere \/ writer[w].expected.inode \notin maybe

WriterOK(w) == GuardOf(w) /\ ToldOf(w) /\ StagedOf(w) /\ ReadOf(w) /\ LookOf(w) /\ AwayOf(w)

FileInv == FileShape /\ MadeInv /\ \A w \in Writers : WriterOK(w)

\* What a step of w does to the writers and to the lock.
WriterStep(w) ==
    /\ writer' \in [Writers -> WriterTypes]
    /\ \A v \in Writers \ {w} : writer'[v] = writer[v]

\* The lock is taken from nobody, and given back by its holder.
LockStep(w) == \/ holder' = holder
               \/ holder = File!Nobody /\ holder' = w
               \/ holder = w /\ holder' = File!Nobody

\* The images without a file.
LEMMA NoImages ==
  /\ File!Gone = [inode |-> 0, bytes |-> "torn", private |-> TRUE]
  /\ File!Gone.inode = 0 /\ File!Unread.inode = 0 /\ File!Nowhere = 0 /\ File!Nowhere \notin File!Inodes
<1>1. File!Gone = [inode |-> 0, bytes |-> "torn", private |-> TRUE]
  BY DEF File!Gone, File!Nowhere, File!Torn
<1>2. File!Unread.inode = 0
  <2>1. \A g \in [inode : {0}, bytes : {"torn"}, private : {TRUE}] :
           [g EXCEPT !.bytes = "unread"].inode = 0
    OBVIOUS
  <2>2. File!Gone \in [inode : {0}, bytes : {"torn"}, private : {TRUE}]
    BY <1>1
  <2> QED BY <2>1, <2>2 DEF File!Unread
<1>3. File!Nowhere = 0 /\ File!Nowhere \notin File!Inodes
  BY DEF File!Nowhere, File!Inodes
<1> QED BY <1>1, <1>2, <1>3

\* What a look finds.
LEMMA LookIs ==
  ASSUME FileShape
  PROVE  /\ File!Look \in Images \cup {File!Gone} /\ File!Look.inode = entry
         /\ File!Look = File!Gone <=> entry = File!Nowhere
         /\ entry # File!Nowhere => entry \in File!Inodes
BY NoImages DEF FileShape, File!Look, Images, FileTypes

\* A step of w that leaves the files alone.
LEMMA QuietStep ==
  ASSUME File!AnchoredAssumption, FileInv, NEW w \in Writers, UNCHANGED <<store, entry, maybe, made, edits>>,
         WriterStep(w), LockStep(w), WriterOK(w)',
         writer'[w].expected = writer[w].expected \/ writer'[w].expected.inode = entry
  PROVE  FileInv'
<1>1. FileShape' /\ MadeInv'
  BY DEF FileInv, FileShape, WriterStep, MadeInv
<1>2. ASSUME NEW v \in Writers \ {w} PROVE WriterOK(v)'
  <2>1. writer'[v] = writer[v] /\ WriterOK(v) /\ "nobody" \notin Writers
    BY <1>2 DEF WriterStep, FileInv, File!AnchoredAssumption
  <2>2. GuardOf(v)'
    BY <2>1 DEF WriterOK, GuardOf, LockStep, File!Nobody
  <2>3. ToldOf(v)' /\ ReadOf(v)' /\ LookOf(v)' /\ AwayOf(v)'
    BY <2>1 DEF WriterOK, ToldOf, ReadOf, LookOf, AwayOf, File!Look
  <2>4. StagedOf(v)'
    <3>1. StagedOf(v) /\ entry \in maybe
      BY <2>1 DEF WriterOK, FileInv, FileShape
    <3>2. ASSUME NEW u \in Writers, writer[v].staged = TRUE PROVE writer'[u].expected.inode # writer[v].temp
      BY <3>1, <3>2 DEF StagedOf, WriterStep
    <3> QED BY <2>1, <3>1, <3>2 DEF StagedOf
  <2> QED BY <2>2, <2>3, <2>4 DEF WriterOK
<1> QED BY <1>1, <1>2 DEF FileInv

\* The fields that a call which returns leaves.
LEMMA ReturnFields ==
  ASSUME FileShape, NEW w \in Writers, NEW out \in {"err", "durable", "uncertain"}, File!Return(w, out)
  PROVE  /\ WriterStep(w)
         /\ writer'[w].pc = "done" /\ writer'[w].out = out /\ writer'[w].staged = FALSE
         /\ writer'[w].expected = writer[w].expected /\ writer'[w].did = writer[w].did
         /\ writer'[w].read = writer[w].read
<1>1. writer \in [Writers -> WriterTypes] /\ writer[w] \in WriterTypes
  BY DEF FileShape
<1> DEFINE a == [writer[w] EXCEPT !.pc = "done", !.out = out, !.seen = File!Unread, !.staged = FALSE]
<1>2. /\ a \in WriterTypes /\ a.pc = "done" /\ a.out = out /\ a.staged = FALSE
      /\ a.expected = writer[w].expected /\ a.did = writer[w].did /\ a.read = writer[w].read
  BY <1>1 DEF WriterTypes, Places
<1>3. writer' = [writer EXCEPT ![w] = a]
  BY <1>1 DEF File!Return
<1> HIDE DEF a
<1> QED BY <1>1, <1>2, <1>3 DEF WriterStep

\* A call may always return, with what became of its effect.
LEMMA ReturnStep ==
  ASSUME File!AnchoredAssumption, FileInv, NEW w \in Writers, NEW out \in {"err", "durable", "uncertain"},
         File!Return(w, out), UNCHANGED <<store, entry, maybe, made, edits>>,
         writer[w].did = (out # "err"), out = "durable" => writer[w].pc = "verify"
  PROVE  FileInv'
<1>1. FileShape /\ WriterOK(w) /\ "nobody" \notin Writers /\ File!Nobody = "nobody"
  BY DEF FileInv, File!AnchoredAssumption, File!Nobody
<1>2. /\ WriterStep(w)
      /\ writer'[w].pc = "done" /\ writer'[w].out = out /\ writer'[w].staged = FALSE
      /\ writer'[w].expected = writer[w].expected /\ writer'[w].did = writer[w].did
      /\ writer'[w].read = writer[w].read
  BY <1>1, ReturnFields
<1>3. LockStep(w) /\ GuardOf(w)'
  BY <1>1, <1>2 DEF File!Return, LockStep, GuardOf, Guarded
<1>4. ToldOf(w)' /\ StagedOf(w)' /\ LookOf(w)'
  BY <1>2 DEF ToldOf, StagedOf, LookOf
<1>5. ReadOf(w)' /\ AwayOf(w)'
  BY <1>1, <1>2 DEF WriterOK, ReadOf, AwayOf
<1>6. WriterOK(w)'
  BY <1>3, <1>4, <1>5 DEF WriterOK
<1> QED BY <1>2, <1>3, <1>6, QuietStep

\* The writer goes on to another place and forgets what it saw.
LEMMA GoOn ==
  ASSUME FileShape, NEW w \in Writers, NEW to \in Places, NEW seen \in Images \cup {File!Unread},
         \/ writer' = [writer EXCEPT ![w].pc = to, ![w].seen = seen]
         \/ writer' = [writer EXCEPT ![w].seen = seen] /\ to = writer[w].pc
         \/ writer' = [writer EXCEPT ![w].pc = to]
  PROVE  /\ WriterStep(w) /\ writer'[w].pc = to
         /\ writer'[w].expected = writer[w].expected /\ writer'[w].want = writer[w].want
         /\ writer'[w].temp = writer[w].temp /\ writer'[w].staged = writer[w].staged
         /\ writer'[w].did = writer[w].did /\ writer'[w].late = writer[w].late
         /\ writer'[w].out = writer[w].out /\ writer'[w].read = writer[w].read
<1>1. writer \in [Writers -> WriterTypes] /\ writer[w] \in WriterTypes
  BY DEF FileShape
<1>2. PICK s \in Images \cup {File!Unread} : writer' = [writer EXCEPT ![w].pc = to, ![w].seen = s]
  <2>1. CASE writer' = [writer EXCEPT ![w].pc = to, ![w].seen = seen]
    BY <2>1
  <2>2. CASE writer' = [writer EXCEPT ![w].seen = seen] /\ to = writer[w].pc
    BY <1>1, <2>2 DEF WriterTypes
  <2>3. CASE writer' = [writer EXCEPT ![w].pc = to]
    <3>1. writer[w].seen \in Images \cup {File!Unread}
      BY <1>1 DEF WriterTypes
    <3>2. writer' = [writer EXCEPT ![w].pc = to, ![w].seen = writer[w].seen]
      BY <1>1, <2>3 DEF WriterTypes
    <3> QED BY <3>1, <3>2
  <2> QED BY <2>1, <2>2, <2>3
<1> DEFINE a == [writer[w] EXCEPT !.pc = to, !.seen = s]
<1>3. /\ a \in WriterTypes /\ a.pc = to
      /\ a.expected = writer[w].expected /\ a.want = writer[w].want
      /\ a.temp = writer[w].temp /\ a.staged = writer[w].staged
      /\ a.did = writer[w].did /\ a.late = writer[w].late
      /\ a.out = writer[w].out /\ a.read = writer[w].read
  BY <1>1 DEF WriterTypes
<1>4. writer' = [writer EXCEPT ![w] = a]
  BY <1>1, <1>2
<1> HIDE DEF a
<1> QED BY <1>1, <1>3, <1>4 DEF WriterStep

\* A writer that goes on without an effect.
LEMMA GoOnStep ==
  ASSUME File!AnchoredAssumption, FileInv, NEW w \in Writers, NEW to \in Places \ {"sync", "verify", "dead",
           "done"},
         NEW seen \in Images \cup {File!Unread},
         \/ writer' = [writer EXCEPT ![w].pc = to, ![w].seen = seen]
         \/ writer' = [writer EXCEPT ![w].pc = to],
         LockStep(w), UNCHANGED <<store, entry, maybe, made, edits>>,
         holder' = w <=> to \in Guarded, writer[w].did = FALSE, writer[w].pc # "done",
         writer[w].staged = TRUE => to \in {"recheck", "temp", "rename"},
         to \in {"temp", "rename"} /\ writer[w].late = FALSE => File!Look = writer[w].expected
  PROVE  FileInv'
<1>1. FileShape /\ WriterOK(w)
  BY DEF FileInv
<1>2. /\ WriterStep(w) /\ writer'[w].pc = to
      /\ writer'[w].expected = writer[w].expected /\ writer'[w].want = writer[w].want
      /\ writer'[w].temp = writer[w].temp /\ writer'[w].staged = writer[w].staged
      /\ writer'[w].did = writer[w].did /\ writer'[w].late = writer[w].late
      /\ writer'[w].out = writer[w].out /\ writer'[w].read = writer[w].read
  BY <1>1, GoOn
<1>3. GuardOf(w)' /\ ReadOf(w)' /\ LookOf(w)'
  BY <1>1, <1>2 DEF WriterOK, GuardOf, ReadOf, LookOf, File!Look
<1>4. writer[w].out = "none"
  <2>1. writer[w] \in WriterTypes
    BY <1>1 DEF FileShape
  <2> QED BY <1>1, <2>1 DEF WriterOK, ToldOf, WriterTypes
<1>5. ToldOf(w)' /\ AwayOf(w)'
  BY <1>2, <1>4 DEF ToldOf, AwayOf
<1>6. StagedOf(w)'
  <2>1. \A v \in Writers : writer'[v].expected = writer[v].expected
    BY <1>2 DEF WriterStep
  <2> QED BY <1>1, <1>2, <2>1 DEF WriterOK, StagedOf
<1>7. WriterOK(w)'
  BY <1>3, <1>5, <1>6 DEF WriterOK
<1> QED BY <1>2, <1>7, QuietStep

\* The review: what is there is what the writer expects.
LEMMA ReviewStep ==
  ASSUME File!AnchoredAssumption, FileInv, NEW w \in Writers, writer[w].pc = "review", File!Judge(w, File!Look),
         UNCHANGED <<store, entry, maybe, made, edits>>
  PROVE  FileInv'
<1>1. /\ FileShape /\ WriterOK(w) /\ writer[w] \in WriterTypes /\ writer \in [Writers -> WriterTypes]
      /\ File!Look \in Images \cup {File!Gone} /\ File!Look.inode = entry
               /\ (entry # File!Nowhere => entry \in File!Inodes)
      /\ "nobody" \notin Writers
  BY LookIs DEF FileInv, FileShape, File!AnchoredAssumption
<1>2. writer[w].did = FALSE /\ writer[w].staged = FALSE /\ writer[w].out = "none" /\ holder # w
  BY <1>1 DEF WriterOK, ToldOf, StagedOf, GuardOf, Guarded, WriterTypes
<1>3. /\ holder' = holder
      /\ \/ writer' = [writer EXCEPT ![w].pc = "done", ![w].out = "err", ![w].seen = File!Unread]
         \/ writer' = [writer EXCEPT ![w].expected = File!Look, ![w].seen = File!Unread, ![w].pc = "lock",
                                     ![w].read = File!Maker]
  BY DEF File!Judge
<1>4. CASE writer' = [writer EXCEPT ![w].pc = "done", ![w].out = "err", ![w].seen = File!Unread]
  <2> DEFINE a == [writer[w] EXCEPT !.pc = "done", !.out = "err", !.seen = File!Unread]
  <2>1. /\ a \in WriterTypes /\ a.pc = "done" /\ a.out = "err" /\ a.expected = writer[w].expected
        /\ a.staged = FALSE /\ a.did = FALSE /\ a.read = writer[w].read
    BY <1>1, <1>2 DEF WriterTypes, Places
  <2>2. writer' = [writer EXCEPT ![w] = a]
    BY <1>1, <1>4
  <2> HIDE DEF a
  <2>3. WriterStep(w) /\ writer'[w] = a
    BY <1>1, <2>1, <2>2 DEF WriterStep
  <2>4. WriterOK(w)'
    BY <1>1, <1>2, <1>3, <2>1, <2>3
       DEF WriterOK, GuardOf, ToldOf, StagedOf, ReadOf, LookOf, AwayOf, Guarded
  <2> QED BY <1>3, <2>1, <2>3, <2>4, QuietStep DEF LockStep
<1>5. CASE writer' = [writer EXCEPT ![w].expected = File!Look, ![w].seen = File!Unread, ![w].pc = "lock",
                                    ![w].read = File!Maker]
  <2> DEFINE a == [writer[w] EXCEPT !.expected = File!Look, !.seen = File!Unread, !.pc = "lock",
           !.read = File!Maker]
  <2>1. File!Maker \in Makers /\ (entry = File!Nowhere => File!Maker = <<"first", 0>>)
           /\ (entry # File!Nowhere => File!Maker = store[entry].by)
    BY <1>1 DEF File!Maker, FileShape, FileTypes, Makers
  <2>2. /\ a \in WriterTypes /\ a.pc = "lock" /\ a.out = "none" /\ a.expected = File!Look
        /\ a.staged = FALSE /\ a.did = FALSE /\ a.read = File!Maker
    BY <1>1, <1>2, <2>1 DEF WriterTypes, Places
  <2>3. writer' = [writer EXCEPT ![w] = a]
    BY <1>1, <1>5
  <2> HIDE DEF a
  <2>4. WriterStep(w) /\ writer'[w] = a
    BY <1>1, <2>2, <2>3 DEF WriterStep
  <2>5. WriterOK(w)'
    BY <1>1, <1>2, <1>3, <2>1, <2>2, <2>4
       DEF WriterOK, GuardOf, ToldOf, StagedOf, ReadOf, LookOf, AwayOf, Guarded
  <2> QED BY <1>1, <1>3, <2>2, <2>4, <2>5, QuietStep DEF LockStep
<1> QED BY <1>3, <1>4, <1>5

\* The first open of a read, which changes no place.
LEMMA FirstLook ==
  ASSUME File!AnchoredAssumption, FileInv, NEW w \in Writers, NEW seen \in Images,
         writer' = [writer EXCEPT ![w].seen = seen], holder' = holder,
         UNCHANGED <<store, entry, maybe, made, edits>>
  PROVE  FileInv'
<1>1. FileShape /\ WriterOK(w) /\ writer[w].pc \in Places
  BY DEF FileInv, FileShape, WriterTypes
<1>2. /\ WriterStep(w) /\ writer'[w].pc = writer[w].pc
      /\ writer'[w].expected = writer[w].expected /\ writer'[w].want = writer[w].want
      /\ writer'[w].temp = writer[w].temp /\ writer'[w].staged = writer[w].staged
      /\ writer'[w].did = writer[w].did /\ writer'[w].late = writer[w].late
      /\ writer'[w].out = writer[w].out /\ writer'[w].read = writer[w].read
  BY <1>1, GoOn
<1>3. \A v \in Writers : writer'[v].expected = writer[v].expected
  BY <1>2 DEF WriterStep
<1>4. GuardOf(w)' /\ ReadOf(w)' /\ LookOf(w)'
  BY <1>1, <1>2 DEF WriterOK, GuardOf, ReadOf, LookOf, File!Look
<1>5. ToldOf(w)' /\ AwayOf(w)'
  BY <1>1, <1>2 DEF WriterOK, ToldOf, AwayOf
<1>6. StagedOf(w)'
  BY <1>1, <1>2, <1>3 DEF WriterOK, StagedOf
<1>7. WriterOK(w)'
  BY <1>4, <1>5, <1>6 DEF WriterOK
<1> QED BY <1>2, <1>7, QuietStep DEF LockStep

\* What is said of a writer at its place.
LEMMA PlaceFacts ==
  ASSUME File!AnchoredAssumption, FileInv, NEW w \in Writers
  PROVE  /\ FileShape /\ WriterOK(w) /\ writer[w] \in WriterTypes /\ File!Nobody # w
         /\ holder = w <=> writer[w].pc \in Guarded
         /\ writer[w].did = TRUE \/ writer[w].did = FALSE
         /\ writer[w].staged = TRUE \/ writer[w].staged = FALSE
         /\ writer[w].pc \in {"review", "lock", "check", "stage", "recheck", "temp", "rename"} =>
                writer[w].did = FALSE
         /\ writer[w].pc \in {"sync", "verify"} => writer[w].did = TRUE
         /\ writer[w].pc \notin {"recheck", "temp", "rename"} => writer[w].staged = FALSE
<1>1. FileShape /\ WriterOK(w) /\ writer[w] \in WriterTypes /\ File!Nobody # w
  BY DEF FileInv, FileShape, File!AnchoredAssumption, File!Nobody
<1>2. /\ writer[w].did = TRUE \/ writer[w].did = FALSE
      /\ writer[w].staged = TRUE \/ writer[w].staged = FALSE
  BY <1>1 DEF WriterTypes
<1> QED BY <1>1, <1>2 DEF WriterOK, GuardOf, ToldOf, StagedOf

\* Whatever a read ends with.
LEMMA JudgeStep ==
  ASSUME File!AnchoredAssumption, FileInv, NEW w \in Writers, writer[w].pc \in File!Reads, File!Judge(w,
           File!Look),
         UNCHANGED <<store, entry, maybe, made, edits>>
  PROVE  FileInv'
<1>1. /\ FileShape /\ WriterOK(w) /\ writer[w] \in WriterTypes /\ File!Nobody # w
      /\ holder = w <=> writer[w].pc \in Guarded
      /\ writer[w].pc \in {"review", "lock", "check", "stage", "recheck", "temp", "rename"} =>
             writer[w].did = FALSE
      /\ writer[w].pc \in {"sync", "verify"} => writer[w].did = TRUE
      /\ writer[w].pc \notin {"recheck", "temp", "rename"} => writer[w].staged = FALSE
  BY PlaceFacts
<1>2. CASE writer[w].pc = "review"
  BY <1>2, ReviewStep
<1>3. CASE writer[w].pc = "check"
  <2>1. CASE File!Look = writer[w].expected
    <3>1. /\ writer' = [writer EXCEPT ![w].pc = File!AfterCheck(w), ![w].seen = File!Unread]
          /\ holder' = holder
      BY <1>3, <2>1 DEF File!Judge
    <3>2. File!AfterCheck(w) \in {"recheck", "stage"}
      BY DEF File!AfterCheck, File!AfterStaging
    <3> QED BY <1>1, <1>3, <3>1, <3>2, GoOnStep DEF LockStep, Guarded, Places
  <2>2. CASE File!Look # writer[w].expected
    <3>1. File!Return(w, "err")
      BY <1>3, <2>2 DEF File!Judge, File!Refuse
    <3> QED BY <1>1, <1>3, <3>1, ReturnStep
  <2> QED BY <2>1, <2>2
<1>4. CASE writer[w].pc = "recheck"
  <2>1. CASE File!Look = writer[w].expected
    <3>1. PICK to \in {"rename", "temp"} :
              writer' = [writer EXCEPT ![w].pc = to, ![w].seen = File!Unread] /\ holder' = holder
      BY <1>4, <2>1 DEF File!Judge
    <3> QED BY <1>1, <1>4, <2>1, <3>1, GoOnStep DEF LockStep, Guarded, Places
  <2>2. CASE File!Look # writer[w].expected
    <3>1. File!Return(w, "err")
      BY <1>4, <2>2 DEF File!Judge, File!Refuse
    <3> QED BY <1>1, <1>4, <3>1, ReturnStep
  <2> QED BY <2>1, <2>2
<1>5. CASE writer[w].pc = "verify"
  <2>1. PICK out \in {"durable", "uncertain"} : File!Return(w, out)
    BY <1>5 DEF File!Judge
  <2> QED BY <1>1, <1>5, <2>1, ReturnStep
<1> QED BY <1>2, <1>3, <1>4, <1>5 DEF File!Reads

\* The two opens of a read.
LEMMA ReadSteps ==
  ASSUME File!AnchoredAssumption, FileInv, NEW w \in Writers, File!ReadFirst(w) \/ File!ReadSecond(w)
           PROVE FileInv'
<1>1. /\ FileShape /\ File!Nobody # w /\ writer[w].pc \in File!Reads
      /\ holder = w <=> writer[w].pc \in Guarded
      /\ writer[w].pc \in {"review", "lock", "check", "stage", "recheck", "temp", "rename"} =>
             writer[w].did = FALSE
      /\ writer[w].pc \in {"sync", "verify"} => writer[w].did = TRUE
      /\ writer[w].pc \notin {"recheck", "temp", "rename"} => writer[w].staged = FALSE
      /\ UNCHANGED <<store, entry, maybe, made, edits>>
  BY PlaceFacts DEF File!ReadFirst, File!ReadSecond
<1>2. File!Look \in Images \cup {File!Gone}
  BY <1>1, LookIs
<1>3. CASE File!Judge(w, File!Look)
  BY <1>1, <1>3, JudgeStep
<1>4. CASE File!Return(w, "err") /\ writer[w].pc # "verify"
  BY <1>1, <1>4, ReturnStep DEF File!Reads
<1>5. CASE File!Return(w, "uncertain") /\ writer[w].pc = "verify"
  BY <1>1, <1>5, ReturnStep
<1>6. CASE writer' = [writer EXCEPT ![w].seen = File!Look] /\ holder' = holder /\ File!Look # File!Gone
  BY <1>1, <1>2, <1>6, FirstLook
<1> QED BY <1>3, <1>4, <1>5, <1>6 DEF File!ReadFirst, File!ReadSecond, File!Refuse

\* Taking the lock, the look at the staging file, and calls that fail.
LEMMA LockSteps ==
  ASSUME File!AnchoredAssumption, FileInv, NEW w \in Writers,
         File!Acquire(w) \/ File!CompareTemp(w) \/ File!PublishTooLate(w) \/ File!Fail(w)
  PROVE  FileInv'
<1>1. /\ FileShape /\ WriterOK(w) /\ File!Nobody # w
      /\ holder = w <=> writer[w].pc \in Guarded
      /\ writer[w].did = TRUE \/ writer[w].did = FALSE
      /\ writer[w].pc \in {"review", "lock", "check", "stage", "recheck", "temp", "rename"} =>
             writer[w].did = FALSE
      /\ writer[w].pc \in {"sync", "verify"} => writer[w].did = TRUE
      /\ writer[w].pc \notin {"recheck", "temp", "rename"} => writer[w].staged = FALSE
      /\ UNCHANGED <<store, entry, maybe, made, edits>>
  BY PlaceFacts DEF File!Acquire, File!CompareTemp, File!PublishTooLate, File!Fail
<1>2. File!Unread \in Images \cup {File!Unread}
  OBVIOUS
<1>3. CASE File!Acquire(w)
  <2>1. /\ writer[w].pc = "lock" /\ holder = File!Nobody /\ holder' = w
        /\ writer' = [writer EXCEPT ![w].pc = "check"]
    BY <1>3 DEF File!Acquire
  <2> QED BY <1>1, <1>2, <2>1, GoOnStep DEF LockStep, Guarded, Places
<1>4. CASE File!CompareTemp(w)
  <2>1. writer[w].pc = "temp"
    BY <1>4 DEF File!CompareTemp
  <2>2. CASE writer' = [writer EXCEPT ![w].pc = "rename"] /\ holder' = holder
    <3>1. LookOf(w)
      BY <1>1 DEF WriterOK
    <3>2. writer[w].late = FALSE => File!Look = writer[w].expected
      BY <2>1, <3>1 DEF LookOf
    <3> QED BY <1>1, <1>2, <2>1, <2>2, <3>2, GoOnStep DEF LockStep, Guarded, Places
  <2>3. CASE File!Return(w, "err")
    BY <1>1, <2>1, <2>3, ReturnStep
  <2> QED BY <1>4, <2>2, <2>3 DEF File!CompareTemp, File!Refuse
<1>5. CASE File!PublishTooLate(w)
  BY <1>1, <1>5, ReturnStep DEF File!PublishTooLate, File!Refuse
<1>6. CASE File!Fail(w)
  <2>1. writer[w].did = TRUE => File!Return(w, "uncertain")
    BY <1>6 DEF File!Fail
  <2>2. writer[w].did = FALSE => File!Return(w, "err")
    BY <1>6 DEF File!Fail
  <2> QED BY <1>1, <2>1, <2>2, ReturnStep
<1> QED BY <1>3, <1>4, <1>5, <1>6

\* What a new file may not be.
LEMMA UnusedIs ==
  ASSUME FileShape, NEW i \in File!Unused
  PROVE  /\ i \in File!Inodes /\ i # entry /\ i \notin maybe
         /\ \A v \in Writers : i # writer[v].expected.inode /\ i # writer[v].temp
<1>1. i \in File!Inodes /\ i # entry /\ i \notin maybe
  BY DEF File!Unused
<1>2. ASSUME NEW v \in Writers PROVE i \notin File!Retained(v) \cup {writer[v].temp}
  BY DEF File!Unused
<1>3. ASSUME NEW v \in Writers PROVE i # writer[v].expected.inode /\ i # writer[v].temp
  BY <1>2 DEF File!Retained
<1> QED BY <1>1, <1>3

\* The staging file.
LEMMA StageStep == ASSUME File!AnchoredAssumption, FileInv, NEW w \in Writers, File!Stage(w) PROVE FileInv'
<1>1. /\ FileShape /\ WriterOK(w) /\ File!Nobody # w /\ MadeInv
      /\ holder = w <=> writer[w].pc \in Guarded
      /\ writer[w].pc = "stage" /\ UNCHANGED <<entry, maybe, holder, edits>>
      /\ writer[w] \in WriterTypes /\ writer[w].did = FALSE /\ writer \in [Writers -> WriterTypes]
  BY PlaceFacts DEF File!Stage, FileInv, FileShape
<1>2. PICK i \in File!Unused :
        /\ store' = [store EXCEPT ![i] = [bytes |-> writer[w].want, private |-> TRUE,
                                          synced |-> TRUE, by |-> <<w, 0>>]]
        /\ made' = [made EXCEPT ![i] = File!Torn]
        /\ writer' = [writer EXCEPT ![w].temp = i, ![w].staged = TRUE, ![w].pc = File!AfterStaging]
  BY DEF File!Stage
<1>3. /\ i \in File!Inodes /\ i # entry /\ i \notin maybe
      /\ \A v \in Writers : i # writer[v].expected.inode /\ i # writer[v].temp
  BY <1>1, UnusedIs
<1> DEFINE f == [bytes |-> writer[w].want, private |-> TRUE, synced |-> TRUE, by |-> <<w, 0>>]
           a == [writer[w] EXCEPT !.temp = i, !.staged = TRUE, !.pc = File!AfterStaging]
<1>4. f \in FileTypes /\ f.bytes = writer[w].want /\ f.synced = TRUE
  BY <1>1 DEF FileTypes, WriterTypes, Makers
<1>5. /\ a \in WriterTypes /\ a.pc = "recheck" /\ a.temp = i /\ a.staged = TRUE /\ a.did = FALSE
      /\ a.out = writer[w].out /\ a.want = writer[w].want /\ a.expected = writer[w].expected
      /\ a.read = writer[w].read
  BY <1>1, <1>3 DEF WriterTypes, File!AfterStaging, Places, Guarded
<1>6. store' = [store EXCEPT ![i] = f] /\ writer' = [writer EXCEPT ![w] = a]
  BY <1>1, <1>2
<1> HIDE DEF f, a
<1>7. WriterStep(w) /\ writer'[w] = a /\ \A v \in Writers : writer'[v].expected = writer[v].expected
  BY <1>1, <1>5, <1>6 DEF WriterStep
<1>8. /\ store' \in [File!Inodes -> FileTypes] /\ store'[i] = f
      /\ \A j \in File!Inodes : j # i => store'[j] = store[j] /\ made'[j] = made[j]
      /\ made' \in [File!Inodes -> Contents \cup {File!Torn}] /\ made'[i] = File!Torn
  <2>1. store \in [File!Inodes -> FileTypes] /\ made \in [File!Inodes -> Contents \cup {File!Torn}]
    BY <1>1 DEF FileShape
  <2>2. /\ store' \in [File!Inodes -> FileTypes] /\ store'[i] = f
        /\ \A j \in File!Inodes : j # i => store'[j] = store[j]
    BY <1>3, <1>4, <1>6, <2>1
  <2>3. /\ made' \in [File!Inodes -> Contents \cup {File!Torn}] /\ made'[i] = File!Torn
        /\ \A j \in File!Inodes : j # i => made'[j] = made[j]
    BY <1>2, <1>3, <2>1
  <2> QED BY <2>2, <2>3
<1>9. FileShape' /\ MadeInv'
  BY <1>1, <1>7, <1>8 DEF FileShape, WriterStep, MadeInv
<1>10. File!Look' = File!Look
  BY <1>1, <1>3, <1>8, NoImages DEF File!Look, FileShape
<1>11. ASSUME NEW v \in Writers PROVE ReadOf(v)'
  <2>1. ReadOf(v) /\ writer'[v].expected = writer[v].expected /\ writer'[v].read = writer[v].read
    BY <1>5, <1>7 DEF FileInv, WriterOK, WriterStep
  <2>2. writer[v].expected.inode # File!Nowhere => writer[v].expected.inode \in File!Inodes
    BY <1>1, NoImages DEF FileShape, WriterTypes, Images
  <2> QED BY <1>3, <1>8, <2>1, <2>2 DEF ReadOf
<1>12. WriterOK(w)'
  <2>1. writer[w].out = "none"
    BY <1>1 DEF WriterOK, ToldOf
  <2>2. ToldOf(w)' /\ LookOf(w)' /\ AwayOf(w)' /\ GuardOf(w)'
    BY <1>1, <1>5, <1>7, <2>1 DEF ToldOf, LookOf, AwayOf, GuardOf, Guarded
  <2>3. StagedOf(w)'
    BY <1>1, <1>3, <1>4, <1>5, <1>7, <1>8 DEF StagedOf
  <2> QED BY <1>11, <2>2, <2>3 DEF WriterOK
<1>13. ASSUME NEW v \in Writers \ {w} PROVE WriterOK(v)'
  <2>1. writer'[v] = writer[v] /\ WriterOK(v) /\ holder # v
    BY <1>1, <1>7 DEF WriterStep, FileInv, Guarded
  <2>2. writer[v].pc \notin Guarded /\ writer[v].staged # TRUE
    BY <2>1 DEF WriterOK, GuardOf, StagedOf, Guarded
  <2>3. GuardOf(v)' /\ ToldOf(v)' /\ AwayOf(v)'
    BY <1>1, <2>1 DEF WriterOK, GuardOf, ToldOf, AwayOf
  <2>4. StagedOf(v)' /\ LookOf(v)'
    BY <2>1, <2>2 DEF StagedOf, LookOf, Guarded
  <2> QED BY <1>11, <2>3, <2>4 DEF WriterOK
<1> QED BY <1>9, <1>12, <1>13 DEF FileInv

\* The writers that do not have the lock while w has it.
LEMMA OthersWait ==
  ASSUME FileInv, NEW w \in Writers, writer[w].pc \in Guarded, NEW v \in Writers, v # w
  PROVE  writer[v].pc \notin Guarded /\ writer[v].staged # TRUE
<1>1. GuardOf(w) /\ GuardOf(v) /\ StagedOf(v)
  BY DEF FileInv, WriterOK
<1> QED BY <1>1 DEF GuardOf, StagedOf, Guarded

\* The rename and the unlink.
LEMMA PublishStep == ASSUME File!AnchoredAssumption, FileInv, NEW w \in Writers, File!Publish(w) PROVE FileInv'
<1>1. /\ FileShape /\ WriterOK(w) /\ MadeInv /\ writer[w].pc = "rename"
      /\ UNCHANGED <<store, holder, edits>> /\ maybe' = maybe \cup {entry'}
      /\ writer[w] \in WriterTypes /\ writer \in [Writers -> WriterTypes] /\ writer[w].out = "none"
      /\ made \in [File!Inodes -> Contents \cup {File!Torn}]
  BY PlaceFacts DEF File!Publish, FileInv, FileShape, WriterOK, ToldOf
<1>2. /\ entry' \in File!Inodes \cup {File!Nowhere} /\ made' \in [File!Inodes -> Contents \cup {File!Torn}]
      /\ \A v \in Writers : writer[v].expected.inode = File!Nowhere \/ entry' # writer[v].expected.inode
      /\ MadeInv'
  <2>1. CASE entry' = File!Nowhere /\ made' = made
    BY <1>1, <2>1 DEF MadeInv
  <2>2. CASE /\ writer[w].staged = TRUE /\ entry' = writer[w].temp
             /\ made' = [made EXCEPT ![writer[w].temp] = writer[w].want]
    <3>1. /\ writer[w].temp \in File!Inodes /\ writer[w].want \in Contents
          /\ store[writer[w].temp].bytes = writer[w].want /\ store[writer[w].temp].synced = TRUE
          /\ \A v \in Writers : writer[v].expected.inode # writer[w].temp
      BY <1>1, <2>2 DEF WriterOK, StagedOf, WriterTypes
    <3> QED BY <1>1, <2>2, <3>1 DEF MadeInv
  <2> QED BY <1>1, <2>1, <2>2 DEF File!Publish, WriterTypes
<1> DEFINE a == [writer[w] EXCEPT !.pc = "sync", !.did = TRUE, !.staged = FALSE]
<1>3. /\ a \in WriterTypes /\ a.pc = "sync" /\ a.did = TRUE /\ a.staged = FALSE /\ a.out = "none"
      /\ a.expected = writer[w].expected /\ a.read = writer[w].read
  BY <1>1 DEF WriterTypes, Places, Guarded
<1>4. writer' = [writer EXCEPT ![w] = a]
  BY <1>1 DEF File!Publish
<1> HIDE DEF a
<1>5. WriterStep(w) /\ writer'[w] = a
  BY <1>1, <1>3, <1>4 DEF WriterStep
<1>6. FileShape'
  BY <1>1, <1>2, <1>5 DEF FileShape, WriterStep
<1>7. WriterOK(w)'
  BY <1>1, <1>2, <1>3, <1>5 DEF WriterOK, GuardOf, ToldOf, StagedOf, ReadOf, LookOf, AwayOf, Guarded
<1>8. ASSUME NEW v \in Writers \ {w} PROVE WriterOK(v)'
  <2>1. /\ writer'[v] = writer[v] /\ WriterOK(v)
        /\ writer[v].pc \notin Guarded /\ writer[v].staged # TRUE
    BY <1>1, <1>5, OthersWait DEF WriterStep, FileInv, Guarded
  <2>2. GuardOf(v)' /\ ToldOf(v)' /\ ReadOf(v)'
    BY <1>1, <2>1 DEF WriterOK, GuardOf, ToldOf, ReadOf
  <2>3. StagedOf(v)' /\ LookOf(v)' /\ AwayOf(v)'
    BY <1>1, <1>2, <2>1 DEF WriterOK, StagedOf, LookOf, AwayOf, Guarded
  <2> QED BY <2>2, <2>3 DEF WriterOK
<1> QED BY <1>2, <1>6, <1>7, <1>8 DEF FileInv

\* The sync of the directory.
LEMMA SyncStep == ASSUME File!AnchoredAssumption, FileInv, NEW w \in Writers, File!SyncDirectory(w)
         PROVE FileInv'
<1>1. /\ FileShape /\ WriterOK(w) /\ MadeInv /\ writer[w].pc = "sync"
      /\ UNCHANGED <<store, entry, holder, made, edits>> /\ maybe' = {entry}
      /\ writer' = [writer EXCEPT ![w].pc = "verify"]
  BY PlaceFacts DEF File!SyncDirectory, FileInv
<1>2. "verify" \in Places /\ File!Unread \in Images \cup {File!Unread}
  BY DEF Places, Guarded
<1>3. /\ WriterStep(w) /\ writer'[w].pc = "verify"
      /\ writer'[w].expected = writer[w].expected /\ writer'[w].staged = writer[w].staged
      /\ writer'[w].did = writer[w].did /\ writer'[w].out = writer[w].out
      /\ writer'[w].read = writer[w].read
  BY <1>1, <1>2, GoOn
<1>4. FileShape' /\ MadeInv'
  BY <1>1, <1>3 DEF FileShape, WriterStep, MadeInv
<1>5. WriterOK(w)'
  BY <1>1, <1>3 DEF WriterOK, GuardOf, ToldOf, StagedOf, ReadOf, LookOf, AwayOf, Guarded
<1>6. ASSUME NEW v \in Writers \ {w} PROVE WriterOK(v)'
  <2>1. /\ writer'[v] = writer[v] /\ WriterOK(v) /\ entry \in maybe
        /\ writer[v].pc \notin Guarded /\ writer[v].staged # TRUE
    BY <1>1, <1>3, OthersWait DEF WriterStep, FileInv, Guarded, FileShape
  <2>2. GuardOf(v)' /\ ToldOf(v)' /\ ReadOf(v)'
    BY <1>1, <2>1 DEF WriterOK, GuardOf, ToldOf, ReadOf
  <2>3. StagedOf(v)' /\ LookOf(v)' /\ AwayOf(v)'
    BY <1>1, <2>1 DEF WriterOK, StagedOf, LookOf, AwayOf, Guarded
  <2> QED BY <2>2, <2>3 DEF WriterOK
<1> QED BY <1>4, <1>5, <1>6 DEF FileInv

\* What the editor does to the writers: it makes some late, and knows of no lock.
LEMMA EditIs ==
  ASSUME FileShape, File!Edit
  PROVE  /\ writer' \in [Writers -> WriterTypes] /\ edits' \in Nat /\ holder' = holder
         /\ \A w \in Writers :
                /\ writer'[w].pc = writer[w].pc /\ writer'[w].expected = writer[w].expected
                /\ writer'[w].want = writer[w].want /\ writer'[w].temp = writer[w].temp
                /\ writer'[w].staged = writer[w].staged /\ writer'[w].did = writer[w].did
                /\ writer'[w].out = writer[w].out /\ writer'[w].read = writer[w].read
                /\ writer[w].pc \in {"temp", "rename"} => writer'[w].late = TRUE
<1>1. writer \in [Writers -> WriterTypes] /\ edits \in Nat
  BY DEF FileShape
<1>2. ASSUME NEW w \in Writers
      PROVE  /\ writer'[w] \in WriterTypes
             /\ writer'[w].pc = writer[w].pc /\ writer'[w].expected = writer[w].expected
             /\ writer'[w].want = writer[w].want /\ writer'[w].temp = writer[w].temp
             /\ writer'[w].staged = writer[w].staged /\ writer'[w].did = writer[w].did
             /\ writer'[w].out = writer[w].out /\ writer'[w].read = writer[w].read
             /\ writer[w].pc \in {"temp", "rename"} => writer'[w].late = TRUE
  <2>1. /\ writer[w] \in WriterTypes
        /\ writer'[w] = [writer[w] EXCEPT !.late = @ \/ writer[w].pc \in {"temp", "rename"}]
    BY <1>1 DEF File!Edit
  <2>2. PICK b \in BOOLEAN : /\ writer'[w] = [writer[w] EXCEPT !.late = b]
                             /\ writer[w].pc \in {"temp", "rename"} => b = TRUE
    BY <2>1
  <2> QED BY <2>1, <2>2 DEF WriterTypes
<1>3. writer' = [w \in Writers |-> writer'[w]]
  BY DEF File!Edit
<1>4. writer' \in [Writers -> WriterTypes]
  BY <1>2, <1>3
<1>5. edits' \in Nat /\ holder' = holder
  BY <1>1 DEF File!Edit
<1> QED BY <1>2, <1>4, <1>5

\* An edit keeps the invariant when it leaves alone the staging files and the
\* makers of the files that were read, and brings no file that was read back.
LEMMA EditStep ==
  ASSUME FileInv, File!Edit, store' \in [File!Inodes -> FileTypes],
           made' \in [File!Inodes -> Contents \cup {File!Torn}],
         entry' \in File!Inodes \cup {File!Nowhere}, maybe' \subseteq maybe \cup {entry'}, entry' \in maybe',
                  MadeInv',
         \A w \in Writers :
            /\ writer[w].expected.inode # File!Nowhere =>
                  store'[writer[w].expected.inode].by = store[writer[w].expected.inode].by
            /\ writer[w].staged = TRUE => /\ store'[writer[w].temp].bytes = store[writer[w].temp].bytes
                                          /\ store'[writer[w].temp].synced = store[writer[w].temp].synced
                                          /\ writer[w].temp # entry'
            /\ entry' = entry \/ entry' = File!Nowhere \/ entry' # writer[w].expected.inode
  PROVE  FileInv'
<1>1. /\ FileShape /\ writer' \in [Writers -> WriterTypes] /\ edits' \in Nat /\ holder' = holder
      /\ \A w \in Writers :
                /\ writer'[w].pc = writer[w].pc /\ writer'[w].expected = writer[w].expected
                /\ writer'[w].want = writer[w].want /\ writer'[w].temp = writer[w].temp
                /\ writer'[w].staged = writer[w].staged /\ writer'[w].did = writer[w].did
                /\ writer'[w].out = writer[w].out /\ writer'[w].read = writer[w].read
                /\ writer[w].pc \in {"temp", "rename"} => writer'[w].late = TRUE
  BY EditIs DEF FileInv
<1>2. FileShape'
  BY <1>1 DEF FileShape
<1>3. ASSUME NEW w \in Writers PROVE WriterOK(w)'
  <2>1. WriterOK(w) /\ entry \in maybe
    BY <1>1 DEF FileInv, FileShape
  <2>2. GuardOf(w)' /\ ToldOf(w)' /\ ReadOf(w)'
    BY <1>1, <2>1 DEF WriterOK, GuardOf, ToldOf, ReadOf
  <2>3. LookOf(w)'
    BY <1>1 DEF LookOf
  <2>4. StagedOf(w)'
    BY <1>1, <2>1 DEF WriterOK, StagedOf
  <2>5. AwayOf(w)'
    BY <1>1, <2>1 DEF WriterOK, AwayOf
  <2> QED BY <2>2, <2>3, <2>4, <2>5 DEF WriterOK
<1> QED BY <1>2, <1>3 DEF FileInv

\* The file under the name is no staging file.
LEMMA NameIsNotStaged ==
  ASSUME FileInv, NEW w \in Writers
  PROVE  /\ writer[w].staged = TRUE => writer[w].temp # entry /\ writer[w].temp \in File!Inodes
           /\ writer[w].temp # File!Nowhere
         /\ writer[w].expected.inode # File!Nowhere => writer[w].expected.inode \in File!Inodes
<1>1. StagedOf(w) /\ FileShape /\ entry \in maybe /\ writer[w] \in WriterTypes
  BY DEF FileInv, WriterOK, FileShape
<1>2. writer[w].expected \in Images \cup {File!Gone}
  BY <1>1 DEF WriterTypes
<1> QED BY <1>1, <1>2, NoImages DEF StagedOf, Images

\* A file that is saved in place, and one whose permissions change.
LEMMA InPlaceSteps == ASSUME FileInv, File!EditInPlace \/ File!EditPermissions PROVE FileInv'
<1>1. /\ FileShape /\ File!Edit /\ entry # File!Nowhere /\ entry \in File!Inodes /\ entry' = entry
         /\ maybe' = maybe
      /\ store \in [File!Inodes -> FileTypes] /\ made \in [File!Inodes -> Contents \cup {File!Torn}]
      /\ entry \in maybe /\ MadeInv
  BY DEF FileInv, FileShape, File!EditInPlace, File!EditPermissions
<1>2. /\ store' \in [File!Inodes -> FileTypes] /\ made' \in [File!Inodes -> Contents \cup {File!Torn}]
      /\ \A i \in File!Inodes : store'[i].by = store[i].by
      /\ \A i \in File!Inodes \ {entry} : store'[i] = store[i] /\ made'[i] = made[i]
      /\ made'[entry] # File!Torn =>
            /\ made'[entry] = made[entry] /\ store'[entry].bytes = store[entry].bytes
            /\ store'[entry].synced = store[entry].synced
  <2>1. CASE File!EditInPlace
    <3>1. PICK b \in Contents : store' = [store EXCEPT ![entry].bytes = b, ![entry].synced = FALSE]
      BY <2>1 DEF File!EditInPlace
    <3> DEFINE f == [store[entry] EXCEPT !.bytes = b, !.synced = FALSE]
    <3>2. f \in FileTypes /\ f.by = store[entry].by
      BY <1>1 DEF FileTypes
    <3>3. store' = [store EXCEPT ![entry] = f] /\ made' = [made EXCEPT ![entry] = File!Torn]
      BY <1>1, <2>1, <3>1 DEF File!EditInPlace
    <3> HIDE DEF f
    <3> QED BY <1>1, <3>2, <3>3
  <2>2. CASE File!EditPermissions
    <3> DEFINE f == [store[entry] EXCEPT !.private = ~@]
    <3>1. store[entry] \in FileTypes /\ store[entry].private \in BOOLEAN
      BY <1>1 DEF FileTypes
    <3>2. /\ f \in FileTypes /\ f.by = store[entry].by /\ f.bytes = store[entry].bytes
          /\ f.synced = store[entry].synced
      BY <3>1 DEF FileTypes
    <3>3. store' = [store EXCEPT ![entry] = f] /\ made' = made
      BY <1>1, <2>2 DEF File!EditPermissions
    <3> HIDE DEF f
    <3> QED BY <1>1, <3>2, <3>3
  <2> QED BY <2>1, <2>2
<1>3. MadeInv'
  BY <1>1, <1>2 DEF MadeInv
<1>4. ASSUME NEW w \in Writers
      PROVE  /\ writer[w].expected.inode # File!Nowhere =>
                  store'[writer[w].expected.inode].by = store[writer[w].expected.inode].by
             /\ writer[w].staged = TRUE => /\ store'[writer[w].temp].bytes = store[writer[w].temp].bytes
                                           /\ store'[writer[w].temp].synced = store[writer[w].temp].synced
                                           /\ writer[w].temp # entry'
  BY <1>1, <1>2, NameIsNotStaged
<1> QED BY <1>1, <1>2, <1>3, <1>4, EditStep

\* A file that is saved through a new one.
LEMMA NewFileStep == ASSUME FileInv, File!EditThroughNewFile PROVE FileInv'
<1>1. /\ FileShape /\ File!Edit /\ maybe' = maybe \cup {entry'} /\ MadeInv /\ edits' \in Nat
      /\ store \in [File!Inodes -> FileTypes] /\ made \in [File!Inodes -> Contents \cup {File!Torn}]
  BY EditIs DEF FileInv, FileShape, File!EditThroughNewFile
<1>2. PICK i \in File!Unused, b \in Contents :
          /\ store' = [store EXCEPT ![i] = [bytes |-> b, private |-> TRUE, synced |-> TRUE,
                                            by |-> <<"editor", edits'>>]]
          /\ made' = [made EXCEPT ![i] = File!Torn]
          /\ entry' = i
  BY DEF File!EditThroughNewFile
<1>3. /\ i \in File!Inodes /\ i # entry /\ i \notin maybe
      /\ \A v \in Writers : i # writer[v].expected.inode /\ i # writer[v].temp
  BY <1>1, UnusedIs
<1> DEFINE f == [bytes |-> b, private |-> TRUE, synced |-> TRUE, by |-> <<"editor", edits'>>]
<1>4. f \in FileTypes
  BY <1>1 DEF FileTypes, Makers
<1>5. store' = [store EXCEPT ![i] = f]
  BY <1>2
<1> HIDE DEF f
<1>6. /\ store' \in [File!Inodes -> FileTypes] /\ made' \in [File!Inodes -> Contents \cup {File!Torn}]
         /\ made'[i] = File!Torn
      /\ \A j \in File!Inodes \ {i} : store'[j] = store[j] /\ made'[j] = made[j]
  <2>1. store' \in [File!Inodes -> FileTypes] /\ \A j \in File!Inodes \ {i} : store'[j] = store[j]
    BY <1>1, <1>3, <1>4, <1>5
  <2>2. /\ made' \in [File!Inodes -> Contents \cup {File!Torn}] /\ made'[i] = File!Torn
        /\ \A j \in File!Inodes \ {i} : made'[j] = made[j]
    BY <1>1, <1>2, <1>3
  <2> QED BY <2>1, <2>2
<1>7. MadeInv'
  BY <1>1, <1>6 DEF MadeInv
<1>8. ASSUME NEW w \in Writers
      PROVE  /\ writer[w].expected.inode # File!Nowhere =>
                  store'[writer[w].expected.inode].by = store[writer[w].expected.inode].by
             /\ writer[w].staged = TRUE => /\ store'[writer[w].temp].bytes = store[writer[w].temp].bytes
                                           /\ store'[writer[w].temp].synced = store[writer[w].temp].synced
                                           /\ writer[w].temp # entry'
             /\ entry' # writer[w].expected.inode
  BY <1>2, <1>3, <1>6, NameIsNotStaged
<1> QED BY <1>1, <1>2, <1>3, <1>6, <1>7, <1>8, EditStep

\* A file that is removed.
LEMMA RemovedStep == ASSUME FileInv, File!EditRemoves PROVE FileInv'
<1>1. /\ FileShape /\ File!Edit /\ entry' = File!Nowhere /\ maybe' = maybe \cup {File!Nowhere} /\ MadeInv
      /\ store' = store /\ made' = made
      /\ store \in [File!Inodes -> FileTypes] /\ made \in [File!Inodes -> Contents \cup {File!Torn}]
  BY DEF FileInv, FileShape, File!EditRemoves
<1>2. MadeInv'
  BY <1>1 DEF MadeInv
<1>3. \A w \in Writers : writer[w].staged = TRUE => writer[w].temp # File!Nowhere
  BY NameIsNotStaged
<1> QED BY <1>1, <1>2, <1>3, EditStep

\* Staging files that are cleared.
LEMMA ClearedStep == ASSUME FileInv, File!ClearStaging PROVE FileInv'
<1>1. /\ FileShape /\ MadeInv /\ UNCHANGED <<store, entry, maybe, holder, made>>
      /\ writer \in [Writers -> WriterTypes] /\ edits' \in Nat
      /\ writer' = [w \in Writers |-> [writer[w] EXCEPT !.staged = FALSE]]
  BY DEF FileInv, FileShape, File!ClearStaging
<1>2. ASSUME NEW w \in Writers
      PROVE  /\ writer'[w] \in WriterTypes /\ writer'[w].staged = FALSE
             /\ writer'[w].pc = writer[w].pc /\ writer'[w].expected = writer[w].expected
             /\ writer'[w].did = writer[w].did /\ writer'[w].late = writer[w].late
             /\ writer'[w].out = writer[w].out /\ writer'[w].read = writer[w].read
  <2>1. writer[w] \in WriterTypes /\ writer'[w] = [writer[w] EXCEPT !.staged = FALSE]
    BY <1>1
  <2> QED BY <2>1 DEF WriterTypes
<1>3. writer' \in [Writers -> WriterTypes]
  BY <1>1, <1>2
<1>4. FileShape' /\ MadeInv'
  BY <1>1, <1>3 DEF FileShape, MadeInv
<1>5. ASSUME NEW w \in Writers PROVE WriterOK(w)'
  <2>1. WriterOK(w)
    BY DEF FileInv
  <2>2. File!Look' = File!Look
    BY <1>1 DEF File!Look
  <2>3. GuardOf(w)' /\ ToldOf(w)' /\ StagedOf(w)'
    BY <1>1, <1>2, <2>1 DEF WriterOK, GuardOf, ToldOf, StagedOf
  <2>4. ReadOf(w)' /\ LookOf(w)'
    BY <1>1, <1>2, <2>1, <2>2 DEF WriterOK, ReadOf, LookOf
  <2>5. AwayOf(w)'
    <3>1. AwayOf(w) /\ writer'[w].pc = writer[w].pc /\ writer'[w].out = writer[w].out
      BY <1>2, <2>1 DEF WriterOK
    <3>2. entry' = entry /\ maybe' = maybe /\ writer'[w].expected = writer[w].expected
      BY <1>1, <1>2
    <3> QED BY <3>1, <3>2 DEF AwayOf
  <2> QED BY <2>3, <2>4, <2>5 DEF WriterOK
<1> QED BY <1>4, <1>5 DEF FileInv

\* The power fails: whoever was at work is dead, and what was synced is there.
LEMMA PowerStep == ASSUME File!AnchoredAssumption, FileInv, File!PowerFailure PROVE FileInv'
<1>1. /\ FileShape /\ MadeInv /\ entry' \in maybe /\ maybe' = {entry'} /\ holder' = File!Nobody
      /\ made' = made /\ edits' = edits
      /\ store \in [File!Inodes -> FileTypes] /\ writer \in [Writers -> WriterTypes]
      /\ writer' = [w \in Writers |->
                IF File!Live(w) THEN [writer[w] EXCEPT !.pc = "dead", !.staged = FALSE] ELSE writer[w]]
  BY DEF FileInv, FileShape, File!PowerFailure
<1>2. PICK torn \in SUBSET {i \in File!Inodes : ~store[i].synced} :
          store' = [i \in File!Inodes |-> [store[i] EXCEPT !.synced = TRUE,
                                                      !.bytes = IF i \in torn THEN File!Torn ELSE @]]
  BY DEF File!PowerFailure
<1>3. ASSUME NEW i \in File!Inodes
      PROVE  /\ store'[i] \in FileTypes /\ store'[i].by = store[i].by
             /\ store[i].synced = TRUE => store'[i].bytes = store[i].bytes /\ store'[i].synced = TRUE
  <2>1. store[i] \in FileTypes
    BY <1>1
  <2>2. PICK b \in Contents \cup {File!Torn} :
           /\ store'[i] = [store[i] EXCEPT !.synced = TRUE, !.bytes = b]
           /\ store[i].synced = TRUE => b = store[i].bytes
    BY <1>2, <2>1 DEF FileTypes
  <2> QED BY <2>1, <2>2 DEF FileTypes
<1>4. store' \in [File!Inodes -> FileTypes]
  BY <1>2, <1>3
<1>5. ASSUME NEW w \in Writers
      PROVE  /\ writer'[w] \in WriterTypes /\ writer'[w].pc \in {"done", "dead"}
             /\ writer'[w].pc = "done" <=> writer[w].pc = "done"
             /\ writer'[w].expected = writer[w].expected /\ writer'[w].did = writer[w].did
             /\ writer'[w].staged = FALSE
             /\ writer'[w].out = writer[w].out /\ writer'[w].read = writer[w].read
  <2>1. writer[w] \in WriterTypes /\ StagedOf(w)
    BY <1>1 DEF FileInv, WriterOK
  <2>2. CASE File!Live(w)
    <3>1. writer'[w] = [writer[w] EXCEPT !.pc = "dead", !.staged = FALSE]
      BY <1>1, <2>2
    <3> QED BY <2>1, <2>2, <3>1 DEF WriterTypes, File!Live, Places
  <2>3. CASE ~File!Live(w)
    <3>1. writer'[w] = writer[w]
      BY <1>1, <2>3
    <3> QED BY <2>1, <2>3, <3>1 DEF WriterTypes, File!Live, StagedOf
  <2> QED BY <2>2, <2>3
<1>6. writer' \in [Writers -> WriterTypes]
  BY <1>1, <1>5
<1>7. FileShape' /\ MadeInv'
  BY <1>1, <1>3, <1>4, <1>6 DEF FileShape, MadeInv
<1>8. ASSUME NEW w \in Writers PROVE WriterOK(w)'
  <2>1. WriterOK(w) /\ File!Nobody # w
    BY DEF FileInv, File!AnchoredAssumption, File!Nobody
  <2>2. GuardOf(w)' /\ StagedOf(w)' /\ LookOf(w)'
    BY <1>1, <1>5, <2>1 DEF GuardOf, StagedOf, LookOf, Guarded
  <2>3. ToldOf(w)'
    BY <1>5, <2>1 DEF WriterOK, ToldOf
  <2>4. AwayOf(w)'
    <3>1. /\ writer'[w].pc \notin {"sync", "verify"} /\ maybe' \subseteq maybe
          /\ writer'[w].out = writer[w].out /\ writer'[w].expected = writer[w].expected
      BY <1>1, <1>5
    <3> QED BY <2>1, <3>1 DEF WriterOK, AwayOf
  <2>5. ReadOf(w)'
    BY <1>3, <1>5, <2>1, NameIsNotStaged DEF WriterOK, ReadOf
  <2> QED BY <2>2, <2>3, <2>4, <2>5 DEF WriterOK
<1> QED BY <1>7, <1>8 DEF FileInv

\* The invariant holds at first.
LEMMA FilesStart == ASSUME File!AnchoredAssumption, File!Init PROVE FileInv
<1>1. /\ entry \in {File!Nowhere, 1} /\ maybe = {entry} /\ holder = File!Nobody /\ edits = 0
      /\ made = [i \in File!Inodes |-> File!Torn] /\ 1 \in File!Inodes /\ "nobody" \notin Writers
  BY DEF File!Init, File!AnchoredAssumption, File!Inodes
<1>2. PICK b \in Contents, mode \in BOOLEAN :
          store = [i \in File!Inodes |->
                      [bytes |-> b, private |-> mode, synced |-> TRUE, by |-> <<"first", 0>>]]
  BY DEF File!Init
<1>3. store \in [File!Inodes -> FileTypes] /\ \A i \in File!Inodes : store[i].by = <<"first", 0>>
  BY <1>2 DEF FileTypes, Makers
<1>4. PICK c \in Contents : writer = [w \in Writers |-> [File!Fresh EXCEPT !.want = c]]
  BY DEF File!Init
<1>5. ASSUME NEW w \in Writers
      PROVE  /\ writer[w] \in WriterTypes /\ writer[w].pc = "review" /\ writer[w].did = FALSE
             /\ writer[w].out = "none" /\ writer[w].staged = FALSE /\ writer[w].expected = File!Gone
             /\ writer[w].read = <<"first", 0>>
  <2> DEFINE F == [pc : {"review"}, seen : {File!Unread}, expected : {File!Gone}, want : {File!Torn},
           temp : {File!Nowhere},
                   staged : {FALSE}, did : {FALSE}, late : {FALSE}, out : {"none"}, read : {<<"first", 0>>}]
  <2>1. File!Fresh \in F
    BY DEF File!Fresh
  <2>2. ASSUME NEW g \in F
        PROVE  /\ [g EXCEPT !.want = c] \in WriterTypes
               /\ LET a == [g EXCEPT !.want = c] IN
                     /\ a.pc = "review" /\ a.did = FALSE /\ a.out = "none" /\ a.staged = FALSE
                     /\ a.expected = File!Gone /\ a.read = <<"first", 0>>
    <3>1. <<"first", 0>> \in Makers
      BY DEF Makers
    <3>2. "review" \in Places
      BY DEF Places
    <3> QED BY <2>2, <3>1, <3>2 DEF WriterTypes
  <2>3. writer[w] = [File!Fresh EXCEPT !.want = c]
    BY <1>4
  <2> QED BY <2>1, <2>2, <2>3
<1>6. writer \in [Writers -> WriterTypes]
  BY <1>4, <1>5
<1>7. FileShape /\ MadeInv
  BY <1>1, <1>3, <1>6 DEF FileShape, MadeInv
<1>8. ASSUME NEW w \in Writers PROVE WriterOK(w)
  BY <1>1, <1>5, NoImages
     DEF WriterOK, GuardOf, ToldOf, StagedOf, ReadOf, LookOf, AwayOf, Guarded, File!Nobody
<1> QED BY <1>7, <1>8 DEF FileInv

\* Every step keeps the invariant.
LEMMA FilesKept == ASSUME File!AnchoredAssumption, FileInv, [File!Next]_(File!vars) PROVE FileInv'
<1>1. CASE File!Next
  BY <1>1, ReadSteps, LockSteps, StageStep, PublishStep, SyncStep, InPlaceSteps, NewFileStep,
     RemovedStep, ClearedStep, PowerStep DEF File!Next
<1>2. CASE UNCHANGED File!vars
  BY <1>2 DEF File!vars, FileInv, FileShape, MadeInv, WriterOK, GuardOf, ToldOf, StagedOf, ReadOf, LookOf,
           AwayOf, File!Look
<1> QED BY <1>1, <1>2

\* replace_if_exact and unlink_if_exact: a file that was published is whole after a
\* loss of power, an error means that nothing was replaced, and what is called
\* durable cannot come undone.
THEOREM WrittenFilesAreSafe == ASSUME File!AnchoredAssumption
         PROVE File!Spec => [](File!PublishedIsWhole /\ File!OutcomeIsTrue)
<1>1. File!Init => FileInv
  BY FilesStart
<1>2. FileInv /\ [File!Next]_(File!vars) => FileInv'
  BY FilesKept
<1>3. FileInv => File!PublishedIsWhole /\ File!OutcomeIsTrue
  <2> SUFFICES ASSUME FileInv PROVE File!PublishedIsWhole /\ File!OutcomeIsTrue
    OBVIOUS
  <2>1. FileShape /\ MadeInv
    BY DEF FileInv
  <2>2. File!PublishedIsWhole
    BY <2>1 DEF File!PublishedIsWhole, MadeInv, FileShape
  <2>3. ASSUME NEW w \in Writers
        PROVE  /\ writer[w].out = "err" => ~writer[w].did
               /\ writer[w].out \in {"durable", "uncertain"} => writer[w].did
               /\ writer[w].out = "durable"
                        /\ writer[w].expected # File!Gone => writer[w].expected.inode \notin maybe
    <3>1. WriterOK(w) /\ writer[w].expected \in Images \cup {File!Gone}
      BY <2>1 DEF FileInv, FileShape, WriterTypes
    <3>2. writer[w].expected # File!Gone => writer[w].expected.inode # File!Nowhere
      BY <3>1, NoImages DEF Images
    <3> QED BY <3>1, <3>2 DEF WriterOK, ToldOf, AwayOf
  <2> QED BY <2>2, <2>3 DEF File!OutcomeIsTrue
<1> QED BY <1>1, <1>2, <1>3, PTL DEF File!Spec

\* Only the rename of a writer has its effect.
LEMMA EffectIsPublish ==
  ASSUME File!AnchoredAssumption, FileInv, File!Next, NEW w \in Writers, writer[w].did = FALSE,
           writer'[w].did = TRUE
  PROVE  File!Publish(w)
<1>1. FileShape /\ writer \in [Writers -> WriterTypes] /\ writer[w] \in WriterTypes
  BY DEF FileInv, FileShape
<1>2. ASSUME NEW v \in Writers, NEW out \in {"err", "durable", "uncertain"}, File!Return(v, out) PROVE FALSE
  <2>1. WriterStep(v) /\ writer'[v].did = writer[v].did
    BY <1>1, <1>2, ReturnFields
  <2> QED BY <2>1 DEF WriterStep
<1>3. ASSUME NEW v \in Writers, NEW r, File!Judge(v, r), writer[v].pc \in File!Reads PROVE FALSE
  <2>1. CASE \E out \in {"err", "durable", "uncertain"} : File!Return(v, out)
    BY <1>2, <2>1
  <2>2. CASE writer[v].pc \in {"check", "recheck"} /\ r = writer[v].expected
    <3>1. PICK to : writer' = [writer EXCEPT ![v].pc = to, ![v].seen = File!Unread]
      BY <1>3, <2>2 DEF File!Judge
    <3> QED BY <1>1, <3>1 DEF WriterTypes
  <2>3. CASE writer[v].pc = "review"
    <3>1. \/ writer' = [writer EXCEPT ![v].pc = "done", ![v].out = "err", ![v].seen = File!Unread]
          \/ writer' = [writer EXCEPT ![v].expected = r, ![v].seen = File!Unread, ![v].pc = "lock",
                                      ![v].read = File!Maker]
      BY <1>3, <2>3 DEF File!Judge
    <3>2. CASE writer' = [writer EXCEPT ![v].pc = "done", ![v].out = "err", ![v].seen = File!Unread]
      BY <1>1, <3>2 DEF WriterTypes
    <3>3. CASE writer' = [writer EXCEPT ![v].expected = r, ![v].seen = File!Unread, ![v].pc = "lock",
                                        ![v].read = File!Maker]
      BY <1>1, <3>3 DEF WriterTypes
    <3> QED BY <3>1, <3>2, <3>3
  <2>4. (writer[v].pc \in {"check", "recheck"} /\ r # writer[v].expected) \/ writer[v].pc = "verify" =>
           \E out \in {"err", "durable", "uncertain"} : File!Return(v, out)
    BY <1>3 DEF File!Judge, File!Refuse
  <2> QED BY <1>3, <2>1, <2>2, <2>3, <2>4 DEF File!Reads
<1>4. ASSUME NEW v \in Writers, File!ReadFirst(v) \/ File!ReadSecond(v) PROVE FALSE
  <2>1. CASE writer' = [writer EXCEPT ![v].seen = File!Look]
    BY <1>1, <2>1 DEF WriterTypes
  <2> QED BY <1>2, <1>3, <1>4, <2>1 DEF File!ReadFirst, File!ReadSecond, File!Refuse
<1>5. ASSUME NEW v \in Writers, File!Acquire(v) \/ File!CompareTemp(v) \/ File!SyncDirectory(v) PROVE FALSE
  <2>1. ASSUME NEW to, writer' = [writer EXCEPT ![v].pc = to] PROVE FALSE
    BY <1>1, <2>1 DEF WriterTypes
  <2> QED BY <1>2, <1>5, <2>1 DEF File!Acquire, File!CompareTemp, File!SyncDirectory, File!Refuse
<1>6. ASSUME NEW v \in Writers, File!PublishTooLate(v) \/ File!Fail(v) PROVE FALSE
  BY <1>2, <1>6 DEF File!PublishTooLate, File!Fail, File!Refuse
<1>7. ASSUME NEW v \in Writers, File!Stage(v) PROVE FALSE
  <2>1. PICK i : writer' = [writer EXCEPT ![v].temp = i, ![v].staged = TRUE, ![v].pc = File!AfterStaging]
    BY <1>7 DEF File!Stage
  <2> QED BY <1>1, <2>1 DEF WriterTypes
<1>8. ASSUME NEW v \in Writers, v # w, File!Publish(v) PROVE FALSE
  BY <1>1, <1>8 DEF File!Publish
<1>9. ASSUME File!Edit PROVE FALSE
  BY <1>1, <1>9, EditIs
<1>10. ASSUME File!ClearStaging PROVE FALSE
  BY <1>1, <1>10 DEF File!ClearStaging, WriterTypes
<1>11. ASSUME File!PowerFailure PROVE FALSE
  BY <1>1, <1>11 DEF File!PowerFailure, WriterTypes
<1> QED BY <1>4, <1>5, <1>6, <1>7, <1>8, <1>9, <1>10, <1>11
        DEF File!Next, File!EditInPlace, File!EditThroughNewFile, File!EditRemoves, File!EditPermissions

\* The comparisons of replace_if_exact and unlink_if_exact: a writer replaces or
\* removes the very file it read, never one of another writer or a copy with the
\* same bytes, unless the editor comes after the last look.
THEOREM WritersReplaceWhatTheyRead == ASSUME File!AnchoredAssumption
         PROVE File!Spec => [][File!ReplacesWhatWasRead]_(File!vars)
<1>1. File!Init => FileInv
  BY FilesStart
<1>2. FileInv /\ [File!Next]_(File!vars) => FileInv'
  BY FilesKept
<1>3. FileInv /\ [File!Next]_(File!vars) => [File!ReplacesWhatWasRead]_(File!vars)
  <2> SUFFICES ASSUME FileInv, File!Next, FileInv', NEW w \in Writers, ~writer[w].did, writer'[w].did
               PROVE  (File!Look = writer[w].expected /\ File!Maker = writer[w].read) \/ writer[w].late
    BY <1>2 DEF File!ReplacesWhatWasRead
  <2>1. /\ writer[w] \in WriterTypes /\ writer'[w] \in WriterTypes /\ WriterOK(w) /\ FileShape
    BY DEF FileInv, FileShape
  <2>2. writer[w].did = FALSE /\ writer'[w].did = TRUE /\ (writer[w].late = TRUE \/ writer[w].late = FALSE)
    BY <2>1 DEF WriterTypes
  <2>3. writer[w].pc = "rename"
    BY <2>2, EffectIsPublish DEF File!Publish
  <2>4. writer[w].late = FALSE => File!Look = writer[w].expected
    BY <2>1, <2>3 DEF WriterOK, LookOf
  <2>5. File!Look = writer[w].expected => File!Maker = writer[w].read
    BY <2>1, LookIs DEF WriterOK, ReadOf, File!Maker
  <2> QED BY <2>2, <2>4, <2>5
<1> QED BY <1>1, <1>2, <1>3, PTL DEF File!Spec

-----------------------------------------------------------------------------
(* The keychain vault, for any names and values and any failures.  Each call *)
(* has its order: a store and a migration write the new entry first and      *)
(* remove the old one last (Storing), a deletion takes the name off the      *)
(* index before its credentials (Deleting), and a migration is put back in   *)
(* the order that keeps the value in one of its places (Unmigrating).  What  *)
(* a call has made of its name so far (Left) is therefore always the old     *)
(* value or the new one, and what is not yet put back is still to be put     *)
(* back (BackAgain).                                                         *)

CONSTANTS Names, Values, LegacyNames, Stores, Validates, MaxFaults

VARIABLES disk, op, before, said, allowed, check, callFaults

Vault == INSTANCE KeychainVault WITH faults <- callFaults

Entries == Values \cup {Vault!Nothing}

KeychainPlaces == {"hashed", "legacy", "index", "meta", "verdict"}

Disks == [hashed : [Names -> Entries], legacy : [Names -> Entries], index : SUBSET Names,
          meta : [Names -> Vault!Metadata \cup {Vault!Nothing}], verdict : [Names -> Entries]]

EntryWrites == [field : {"hashed", "legacy", "verdict"}, to : [Names -> Entries]]

IndexWrites == [field : {"index"}, to : SUBSET Names]

MetaWrites == [field : {"meta"}, to : [Names -> Vault!Metadata \cup {Vault!Nothing}]]

PlaceWrites == EntryWrites \cup IndexWrites \cup MetaWrites

VaultCalls == [kind : {"idle", "store", "delete", "migrate", "sidecar"},
               name : Names \cup {Vault!Nothing}, stage : {"commit", "undo"},
               todo : Seq(PlaceWrites), clean : BOOLEAN]

Checks == [at : {"idle", "noted", "read"}, name : Names \cup {Vault!Nothing},
           noted : Entries, value : Entries]

\* The places d after the write w.
Put(d, w) == [d EXCEPT ![w.field] = w.to]

\* Whether a write of t is one of the place f.
Has(t, f) == \E i \in 1..Len(t) : t[i].field = f

\* The two entries of a name do not disagree.
Agree(d, n) ==
    d.hashed[n] = Vault!Nothing \/ d.legacy[n] = Vault!Nothing \/ d.hashed[n] = d.legacy[n]

\* The places d of the other names are those of b.
OthersKept(d, b, n) ==
    \A m \in Names \ {n} :
        d.hashed[m] = b.hashed[m] /\ d.legacy[m] = b.legacy[m] /\ (m \in d.index <=> m \in b.index)

\* The writes t leave the other names alone.
WriteOnly(t, b, n) ==
    \A i \in 1..Len(t) : \A m \in Names \ {n} :
        /\ t[i].field = "hashed" => t[i].to[m] = b.hashed[m]
        /\ t[i].field = "legacy" => t[i].to[m] = b.legacy[m]
        /\ t[i].field = "index" => (m \in t[i].to <=> m \in b.index)

\* What a call that found b, and may leave the values a, has made of n so far.
Left(k, d, b, a, n) ==
    CASE k = "store" ->
            /\ d.hashed[n] = b.hashed[n] \/ d.hashed[n] \in a \ {Vault!Nothing}
            /\ \/ d.legacy[n] = b.legacy[n]
               \/ d.legacy[n] = Vault!Nothing /\ d.hashed[n] \in a \ {Vault!Nothing}
      [] k = "delete" ->
            /\ Vault!Nothing \in a
            /\ d.hashed[n] \in {b.hashed[n], Vault!Nothing}
            /\ d.legacy[n] \in {b.legacy[n], Vault!Nothing}
      [] k = "migrate" ->
            /\ b.hashed[n] = Vault!Nothing /\ b.legacy[n] # Vault!Nothing /\ a = {b.legacy[n]}
            /\ d.hashed[n] \in {b.legacy[n], Vault!Nothing}
            /\ d.legacy[n] \in {b.legacy[n], Vault!Nothing}
            /\ d.hashed[n] = Vault!Nothing => d.legacy[n] # Vault!Nothing
            /\ d.meta = b.meta /\ d.verdict = b.verdict
      [] k = "sidecar" -> d.hashed = b.hashed /\ d.legacy = b.legacy /\ d.index = b.index

\* A store or a migration with the writes t to go: the new entry comes first and
\* the old one goes last.
Storing(t, d, b, a, n) ==
    /\ t[Len(t)].field = "legacy"
    /\ \A i \in 1..Len(t) :
          /\ t[i].field = "legacy" => i = Len(t) /\ t[i].to[n] = Vault!Nothing
          /\ t[i].field = "hashed" => i = 1 /\ t[i].to[n] \in a \ {Vault!Nothing}
    /\ t[1].field = "hashed" => d = b
    /\ t[1].field # "hashed" => d.hashed[n] \in a \ {Vault!Nothing}
    /\ d.legacy = b.legacy

\* A deletion: the index first and the credentials last.
Deleting(t, d, b, n) ==
    /\ t[Len(t)].field = "legacy"
    /\ Len(t) > 1 => t[Len(t) - 1].field = "hashed"
    /\ \A i \in 1..Len(t) :
          /\ t[i].field = "legacy" => i = Len(t) /\ t[i].to[n] = Vault!Nothing
          /\ t[i].field = "hashed" => i = Len(t) - 1 /\ t[i].to[n] = Vault!Nothing
          /\ t[i].field = "index" => n \notin t[i].to
    /\ Has(t, "index") => d.hashed = b.hashed /\ d.legacy = b.legacy
    /\ ~Has(t, "index") => n \notin d.index
    /\ n \in d.index => n \in b.index

\* What is put back is what was found.
PutsBack(t, b) == \A i \in 1..Len(t) : t[i].to = b[t[i].field]

\* What is not to be put back is as it was found.
BackAgain(t, d, b) == \A f \in KeychainPlaces : ~Has(t, f) => d[f] = b[f]

\* A migration is put back in the order that keeps the value in one of its places.
Unmigrating(t, d, b, n) ==
    /\ \A i \in 1..Len(t) : t[i].field = "hashed" <=> i = Len(t)
    /\ \A i \in 1..Len(t) : t[i].field \notin {"meta", "verdict"}
    /\ \A i \in 1..Len(t) : t[i].field = "legacy" => i = 1
    /\ t[1].field # "legacy" => d.legacy[n] = b.legacy[n]

\* The writes a call has to go, at places d.
ToGo(k, stage, t, d, b, a, n) ==
    CASE k = "store" /\ stage = "commit" -> Storing(t, d, b, a, n)
      [] k = "store" /\ stage = "undo" ->
            PutsBack(t, b) /\ ~Has(t, "legacy") /\ d.legacy = b.legacy
      [] k = "delete" /\ stage = "commit" -> Deleting(t, d, b, n)
      [] k = "delete" /\ stage = "undo" -> PutsBack(t, b)
      [] k = "migrate" /\ stage = "commit" ->
            Storing(t, d, b, a, n) /\ \A i \in 1..Len(t) : t[i].field \notin {"meta", "verdict"}
      [] k = "migrate" /\ stage = "undo" -> PutsBack(t, b) /\ Unmigrating(t, d, b, n)
      [] k = "sidecar" -> stage = "commit" /\ Len(t) = 1 /\ t[1].field \in {"meta", "verdict"}

CallShape ==
    /\ disk \in Disks /\ before \in Disks
    /\ op \in VaultCalls
    /\ op = Vault!Idle <=> op.todo = <<>>
    /\ op = Vault!Idle <=> op.kind = "idle"
    /\ op # Vault!Idle => op.name \in Names
    /\ said \in {"nothing", "ok", "failed", "restored", "incomplete"}
    /\ allowed \in [Names -> SUBSET Entries]
    /\ check \in Checks /\ (check.at # "idle" => check.name \in Names)
    /\ callFaults \in 0..MaxFaults

\* The call under way.
CallInv ==
    op # Vault!Idle =>
        /\ ToGo(op.kind, op.stage, op.todo, disk, before, allowed[op.name], op.name)
        /\ Left(op.kind, disk, before, allowed[op.name], op.name)
        /\ OthersKept(disk, before, op.name)
        /\ WriteOnly(op.todo, before, op.name)
        /\ op.stage = "undo" /\ op.clean = TRUE => BackAgain(op.todo, disk, before)
        /\ op.stage = "undo" => callFaults >= 1
        /\ op.clean = FALSE => callFaults >= 2
        /\ Stores = FALSE => op.kind \notin {"store", "delete"}

\* What a call is told it restored is restored.
RestoredInv ==
    /\ op # Vault!Idle => said = "nothing"
    /\ said = "restored" => disk = before

\* The places as the call under way found them.
Found == IF op = Vault!Idle THEN disk ELSE before

\* Entries disagree only after a failure, and where there are old ones and stores.
AgreeInv ==
    /\ LegacyNames = {} => \A n \in Names : Found.legacy[n] = Vault!Nothing
    /\ callFaults = 0 \/ Stores = FALSE => \A n \in Names : Agree(Found, n)

AccountInv == \A n \in Names : Vault!Value(Found, n) \in allowed[n]

IndexInv == \A n \in Found.index : Vault!Value(Found, n) # Vault!Nothing

KeychainInv == CallShape /\ CallInv /\ RestoredInv /\ AgreeInv

\* What there is to know of a write.
LEMMA WriteFacts ==
    ASSUME NEW w \in PlaceWrites
    PROVE  /\ w.field \in KeychainPlaces
           /\ w.field \in {"hashed", "legacy", "verdict"} => w.to \in [Names -> Entries]
           /\ w.field = "index" => w.to \in SUBSET Names
           /\ w.field = "meta" => w.to \in [Names -> Vault!Metadata \cup {Vault!Nothing}]
BY DEF PlaceWrites, EntryWrites, IndexWrites, MetaWrites, KeychainPlaces

\* A write of a place changes that place.
LEMMA PutFacts ==
    ASSUME NEW d \in Disks, NEW w \in PlaceWrites
    PROVE  /\ Put(d, w) \in Disks
           /\ Put(d, w).hashed = IF w.field = "hashed" THEN w.to ELSE d.hashed
           /\ Put(d, w).legacy = IF w.field = "legacy" THEN w.to ELSE d.legacy
           /\ Put(d, w).index = IF w.field = "index" THEN w.to ELSE d.index
           /\ Put(d, w).meta = IF w.field = "meta" THEN w.to ELSE d.meta
           /\ Put(d, w).verdict = IF w.field = "verdict" THEN w.to ELSE d.verdict
<1>1. CASE w.field = "hashed"
  BY <1>1, WriteFacts DEF Put, Disks
<1>2. CASE w.field = "legacy"
  BY <1>2, WriteFacts DEF Put, Disks
<1>3. CASE w.field = "index"
  BY <1>3, WriteFacts DEF Put, Disks
<1>4. CASE w.field = "meta"
  BY <1>4, WriteFacts DEF Put, Disks
<1>5. CASE w.field = "verdict"
  BY <1>5, WriteFacts DEF Put, Disks
<1> QED
  BY <1>1, <1>2, <1>3, <1>4, <1>5, WriteFacts DEF KeychainPlaces

\* The writes that remain after the first.
LEMMA TailFacts ==
    ASSUME NEW t \in Seq(PlaceWrites), t # <<>>
    PROVE  /\ Tail(t) \in Seq(PlaceWrites) /\ Head(t) = t[1] /\ t[1] \in PlaceWrites
           /\ Len(t) \in Nat /\ Len(t) >= 1 /\ Len(Tail(t)) = Len(t) - 1
           /\ (Tail(t) = <<>>) <=> (Len(t) = 1)
           /\ Len(t) = 1 \/ (Len(t) > 1 /\ Tail(t) # <<>>)
           /\ \A i \in 1..Len(Tail(t)) : Tail(t)[i] = t[i + 1] /\ i + 1 \in 1..Len(t)
<1>1. Len(t) \in Nat /\ Len(t) >= 1 /\ Head(t) = t[1] /\ t[1] \in PlaceWrites
  OBVIOUS
<1>2. Tail(t) \in Seq(PlaceWrites) /\ Len(Tail(t)) = Len(t) - 1
  OBVIOUS
<1>3. (Tail(t) = <<>>) <=> (Len(t) = 1)
  <2>1. \A s \in Seq(PlaceWrites) : (s = <<>>) <=> (Len(s) = 0)
    OBVIOUS
  <2>2. (Tail(t) = <<>>) <=> (Len(Tail(t)) = 0)
    BY <1>2, <2>1
  <2> QED
    BY <1>1, <1>2, <2>2
<1>4. \A i \in 1..Len(Tail(t)) : Tail(t)[i] = t[i + 1] /\ i + 1 \in 1..Len(t)
  BY <1>1, <1>2
<1>5. Len(t) = 1 \/ (Len(t) > 1 /\ Tail(t) # <<>>)
  BY <1>1, <1>3
<1> QED
  BY <1>1, <1>2, <1>3, <1>4, <1>5

LEMMA HasTail ==
    ASSUME NEW t \in Seq(PlaceWrites), t # <<>>, NEW f
    PROVE  Has(t, f) <=> t[1].field = f \/ Has(Tail(t), f)
<1>1. ASSUME Has(t, f), t[1].field # f
      PROVE  Has(Tail(t), f)
  <2>1. PICK i \in 1..Len(t) : t[i].field = f
    BY <1>1 DEF Has
  <2>2. i # 1 /\ i - 1 \in 1..Len(Tail(t)) /\ Tail(t)[i - 1] = t[i]
    BY <1>1, <2>1, TailFacts
  <2> QED
    BY <2>1, <2>2 DEF Has
<1>2. Has(Tail(t), f) => Has(t, f)
  BY TailFacts DEF Has
<1>3. t[1].field = f => Has(t, f)
  BY TailFacts DEF Has
<1> QED
  BY <1>1, <1>2, <1>3

\* What a call has made of its name stays so with its next write.
LEMMA LeftKept ==
    ASSUME NEW t \in Seq(PlaceWrites), t # <<>>, NEW d \in Disks, NEW b \in Disks, NEW n \in Names,
           NEW a \in SUBSET Entries,
           NEW k \in {"store", "delete", "migrate", "sidecar"}, NEW stage \in {"commit", "undo"},
           ToGo(k, stage, t, d, b, a, n), Left(k, d, b, a, n)
    PROVE  Left(k, Put(d, t[1]), b, a, n)
<1> DEFINE e == Put(d, t[1])
<1>1. /\ t[1] \in PlaceWrites /\ Len(t) \in Nat /\ Len(t) >= 1 /\ 1 \in 1..Len(t)
      /\ t[1].field \in KeychainPlaces
  BY TailFacts, WriteFacts
<1>2. /\ e \in Disks
      /\ e.hashed = IF t[1].field = "hashed" THEN t[1].to ELSE d.hashed
      /\ e.legacy = IF t[1].field = "legacy" THEN t[1].to ELSE d.legacy
      /\ e.index = IF t[1].field = "index" THEN t[1].to ELSE d.index
      /\ e.meta = IF t[1].field = "meta" THEN t[1].to ELSE d.meta
      /\ e.verdict = IF t[1].field = "verdict" THEN t[1].to ELSE d.verdict
  BY <1>1, PutFacts
<1> SUFFICES Left(k, e, b, a, n)
  OBVIOUS
<1> HIDE DEF e
<1>3. b["hashed"] = b.hashed /\ b["legacy"] = b.legacy /\ b["index"] = b.index
  OBVIOUS
<1>4. CASE k = "store" /\ stage = "commit"
  <2>1. Storing(t, d, b, a, n)
    BY <1>4 DEF ToGo
  <2> QED
    BY <1>1, <1>2, <1>4, <2>1 DEF Storing, Left
<1>5. CASE k = "store" /\ stage = "undo"
  <2>1. PutsBack(t, b) /\ ~Has(t, "legacy") /\ d.legacy = b.legacy
    BY <1>5 DEF ToGo
  <2>2. t[1].field # "legacy" /\ t[1].to = b[t[1].field]
    BY <1>1, <2>1 DEF PutsBack, Has
  <2>3. t[1].field = "hashed" => t[1].to = b.hashed
    BY <2>2, <1>3
  <2> QED
    BY <1>1, <1>2, <1>5, <2>1, <2>2, <2>3 DEF Left
<1>6. CASE k = "delete" /\ stage = "commit"
  <2>1. Deleting(t, d, b, n)
    BY <1>6 DEF ToGo
  <2> QED
    BY <1>1, <1>2, <1>6, <2>1 DEF Deleting, Left
<1>7. CASE k = "delete" /\ stage = "undo"
  <2>1. t[1].to = b[t[1].field]
    BY <1>1, <1>7 DEF ToGo, PutsBack
  <2>2. (t[1].field = "hashed" => t[1].to = b.hashed)
          /\ (t[1].field = "legacy" => t[1].to = b.legacy)
    BY <2>1, <1>3
  <2> QED
    BY <1>1, <1>2, <1>7, <2>2 DEF Left
<1>8. CASE k = "migrate" /\ stage = "commit"
  <2>1. Storing(t, d, b, a, n) /\ t[1].field \notin {"meta", "verdict"}
    BY <1>1, <1>8 DEF ToGo
  <2> QED
    BY <1>1, <1>2, <1>8, <2>1 DEF Storing, Left
<1>9. CASE k = "migrate" /\ stage = "undo"
  <2>1. t[1].to = b[t[1].field] /\ Unmigrating(t, d, b, n) /\ t[1].field \notin {"meta", "verdict"}
    BY <1>1, <1>9 DEF ToGo, PutsBack, Unmigrating
  <2>2. (t[1].field = "hashed" => t[1].to = b.hashed)
          /\ (t[1].field = "legacy" => t[1].to = b.legacy)
    BY <2>1, <1>3
  <2> QED
    BY <1>1, <1>2, <1>9, <2>1, <2>2 DEF Unmigrating, Left
<1>10. CASE k = "sidecar"
  <2>1. t[1].field \in {"meta", "verdict"}
    BY <1>10 DEF ToGo
  <2> QED
    BY <1>1, <1>2, <1>10, <2>1 DEF Left
<1> QED
  BY <1>4, <1>5, <1>6, <1>7, <1>8, <1>9, <1>10

\* A call's next write leaves the rest of its writes to go.
LEMMA ToGoKept ==
    ASSUME NEW t \in Seq(PlaceWrites), Len(t) > 1, NEW d \in Disks, NEW b \in Disks,
           NEW n \in Names,
           NEW a \in SUBSET Entries,
           NEW k \in {"store", "delete", "migrate", "sidecar"}, NEW stage \in {"commit", "undo"},
           ToGo(k, stage, t, d, b, a, n)
    PROVE  ToGo(k, stage, Tail(t), Put(d, t[1]), b, a, n)
<1> DEFINE e == Put(d, t[1])
           u == Tail(t)
<1>1. /\ t # <<>> /\ u \in Seq(PlaceWrites) /\ Len(t) \in Nat /\ Len(u) = Len(t) - 1
      /\ Len(u) >= 1 /\ 1 \in 1..Len(t) /\ 2 \in 1..Len(t)
      /\ t[1] \in PlaceWrites /\ t[1].field \in KeychainPlaces
      /\ \A i \in 1..Len(u) : u[i] = t[i + 1] /\ i + 1 \in 1..Len(t)
  BY TailFacts, WriteFacts
<1>2. /\ e \in Disks
      /\ e.hashed = IF t[1].field = "hashed" THEN t[1].to ELSE d.hashed
      /\ e.legacy = IF t[1].field = "legacy" THEN t[1].to ELSE d.legacy
      /\ e.index = IF t[1].field = "index" THEN t[1].to ELSE d.index
  BY <1>1, PutFacts
<1>3. \A f : Has(t, f) <=> t[1].field = f \/ Has(u, f)
  BY <1>1, HasTail
<1>4. u[Len(u)] = t[Len(t)] /\ u[1] = t[2] /\ (Len(u) > 1 => u[Len(u) - 1] = t[Len(t) - 1])
  BY <1>1
<1> SUFFICES ToGo(k, stage, u, e, b, a, n)
  OBVIOUS
<1> HIDE DEF e, u
<1>5. PutsBack(t, b) => PutsBack(u, b)
  BY <1>1 DEF PutsBack
<1>6. b["hashed"] = b.hashed /\ b["legacy"] = b.legacy /\ b["index"] = b.index
  OBVIOUS
<1>7. ASSUME Storing(t, d, b, a, n)
      PROVE  Storing(u, e, b, a, n)
  <2>1. t[1].field # "legacy" /\ u[1].field # "hashed"
    BY <1>1, <1>4, <1>7 DEF Storing
  <2>2. e.legacy = b.legacy
    BY <1>2, <1>7, <2>1 DEF Storing
  <2>3. e.hashed[n] \in a \ {Vault!Nothing}
    BY <1>1, <1>2, <1>7 DEF Storing
  <2>4. ASSUME NEW i \in 1..Len(u)
        PROVE  /\ u[i].field = "legacy" => i = Len(u) /\ u[i].to[n] = Vault!Nothing
               /\ u[i].field = "hashed" => i = 1 /\ u[i].to[n] \in a \ {Vault!Nothing}
    <3>1. u[i] = t[i + 1] /\ i + 1 \in 1..Len(t)
      BY <1>1
    <3>2. u[i].field = "legacy" => i + 1 = Len(t) /\ u[i].to[n] = Vault!Nothing
      BY <3>1, <1>7 DEF Storing
    <3>3. u[i].field # "hashed"
      BY <3>1, <1>7, <1>1 DEF Storing
    <3> QED
      BY <1>1, <3>2, <3>3
  <2> QED
    BY <1>4, <1>7, <2>1, <2>2, <2>3, <2>4 DEF Storing
<1>8. CASE k = "store" /\ stage = "commit"
  BY <1>7, <1>8 DEF ToGo
<1>9. CASE k = "store" /\ stage = "undo"
  <2>1. PutsBack(t, b) /\ ~Has(t, "legacy") /\ d.legacy = b.legacy
    BY <1>9 DEF ToGo
  <2>2. ~Has(u, "legacy") /\ t[1].field # "legacy"
    BY <1>3, <2>1
  <2> QED
    BY <1>2, <1>5, <1>9, <2>1, <2>2 DEF ToGo
<1>10. CASE k = "delete" /\ stage = "commit"
  <2>1. Deleting(t, d, b, n)
    BY <1>10 DEF ToGo
  <2>2. t[1].field # "legacy" /\ (t[1].field = "hashed" => Len(t) = 2)
    BY <1>1, <2>1 DEF Deleting
  <2>3. Len(t) = 2 => ~Has(t, "index")
    <3>1. Len(t) = 2 => t[1].field = "hashed" /\ t[2].field = "legacy"
      BY <2>1 DEF Deleting
    <3> QED
      BY <1>1, <3>1 DEF Has
  <2>4. ASSUME NEW i \in 1..Len(u)
        PROVE  /\ u[i].field = "legacy" => i = Len(u) /\ u[i].to[n] = Vault!Nothing
               /\ u[i].field = "hashed" => i = Len(u) - 1 /\ u[i].to[n] = Vault!Nothing
               /\ u[i].field = "index" => n \notin u[i].to
    <3>1. u[i] = t[i + 1] /\ i + 1 \in 1..Len(t)
      BY <1>1
    <3>2. /\ u[i].field = "legacy" => i + 1 = Len(t) /\ u[i].to[n] = Vault!Nothing
          /\ u[i].field = "hashed" => i + 1 = Len(t) - 1 /\ u[i].to[n] = Vault!Nothing
          /\ u[i].field = "index" => n \notin u[i].to
      BY <3>1, <2>1 DEF Deleting
    <3> QED
      BY <1>1, <3>2
  <2>5. Has(u, "index") => e.hashed = b.hashed /\ e.legacy = b.legacy
    BY <1>2, <1>3, <2>1, <2>2, <2>3 DEF Deleting
  <2>6. ~Has(u, "index") => n \notin e.index
    BY <1>1, <1>2, <1>3, <2>1 DEF Deleting
  <2>7. n \in e.index => n \in b.index
    BY <1>1, <1>2, <2>1 DEF Deleting
  <2>8. Deleting(u, e, b, n)
    BY <1>4, <2>1, <2>4, <2>5, <2>6, <2>7, <1>1 DEF Deleting
  <2> QED
    BY <1>10, <2>8 DEF ToGo
<1>11. CASE k = "delete" /\ stage = "undo"
  BY <1>5, <1>11 DEF ToGo
<1>12. CASE k = "migrate" /\ stage = "commit"
  BY <1>1, <1>7, <1>12 DEF ToGo
<1>13. CASE k = "migrate" /\ stage = "undo"
  <2>1. PutsBack(t, b) /\ Unmigrating(t, d, b, n)
    BY <1>13 DEF ToGo
  <2>2. \A i \in 1..Len(u) : /\ u[i].field = "hashed" <=> i = Len(u)
                             /\ u[i].field \notin {"meta", "verdict"}
                             /\ u[i].field # "legacy"
    <3> SUFFICES ASSUME NEW i \in 1..Len(u)
                 PROVE  /\ u[i].field = "hashed" <=> i = Len(u)
                        /\ u[i].field \notin {"meta", "verdict"}
                        /\ u[i].field # "legacy"
      OBVIOUS
    <3>1. u[i] = t[i + 1] /\ i + 1 \in 1..Len(t) /\ i \in Nat /\ i >= 1
      BY <1>1
    <3>2. /\ u[i].field = "hashed" <=> i + 1 = Len(t)
          /\ u[i].field \notin {"meta", "verdict"}
          /\ u[i].field = "legacy" => i + 1 = 1
      BY <2>1, <3>1 DEF Unmigrating
    <3> QED
      BY <1>1, <3>1, <3>2
  <2>3. e.legacy[n] = b.legacy[n]
    <3>1. t[1].to = b[t[1].field]
      BY <1>1, <2>1 DEF PutsBack
    <3>2. t[1].field = "legacy" => t[1].to = b.legacy
      BY <3>1, <1>6
    <3> QED
      BY <1>2, <2>1, <3>2 DEF Unmigrating
  <2>4. Unmigrating(u, e, b, n)
    BY <1>1, <2>2, <2>3 DEF Unmigrating
  <2> QED
    BY <1>5, <1>13, <2>1, <2>4 DEF ToGo
<1>14. CASE k = "sidecar"
  BY <1>14 DEF ToGo
<1> QED
  BY <1>8, <1>9, <1>10, <1>11, <1>12, <1>13, <1>14

\* A write of what is put back may be skipped, but not by a migration.
LEMMA ToGoSkipped ==
    ASSUME NEW t \in Seq(PlaceWrites), Len(t) > 1, NEW d, NEW b, NEW n, NEW a,
           NEW k \in {"store", "delete"}, ToGo(k, "undo", t, d, b, a, n)
    PROVE  ToGo(k, "undo", Tail(t), d, b, a, n)
<1> DEFINE u == Tail(t)
<1>1. t # <<>> /\ \A i \in 1..Len(u) : u[i] = t[i + 1] /\ i + 1 \in 1..Len(t)
  BY TailFacts
<1>2. Has(u, "legacy") => Has(t, "legacy")
  BY <1>1, HasTail
<1> SUFFICES ToGo(k, "undo", u, d, b, a, n)
  OBVIOUS
<1> HIDE DEF u
<1>3. PutsBack(t, b) => PutsBack(u, b)
  BY <1>1 DEF PutsBack
<1> QED
  BY <1>2, <1>3 DEF ToGo

\* A write leaves the other names, and what is put back stays put back.
LEMMA WriteKeeps ==
    ASSUME NEW t \in Seq(PlaceWrites), t # <<>>, NEW d \in Disks, NEW b \in Disks, NEW n \in Names,
           OthersKept(d, b, n), WriteOnly(t, b, n)
    PROVE  /\ OthersKept(Put(d, t[1]), b, n)
           /\ WriteOnly(Tail(t), b, n)
           /\ PutsBack(t, b) /\ BackAgain(t, d, b) =>
                  /\ BackAgain(Tail(t), Put(d, t[1]), b)
                  /\ Len(t) = 1 => Put(d, t[1]) = b
<1> DEFINE e == Put(d, t[1])
           u == Tail(t)
<1>1. /\ u \in Seq(PlaceWrites) /\ Len(t) \in Nat /\ Len(u) = Len(t) - 1 /\ 1 \in 1..Len(t)
      /\ t[1] \in PlaceWrites /\ t[1].field \in KeychainPlaces
      /\ \A i \in 1..Len(u) : u[i] = t[i + 1] /\ i + 1 \in 1..Len(t)
  BY TailFacts, WriteFacts
<1>2. /\ e \in Disks
      /\ e.hashed = IF t[1].field = "hashed" THEN t[1].to ELSE d.hashed
      /\ e.legacy = IF t[1].field = "legacy" THEN t[1].to ELSE d.legacy
      /\ e.index = IF t[1].field = "index" THEN t[1].to ELSE d.index
      /\ e.meta = IF t[1].field = "meta" THEN t[1].to ELSE d.meta
      /\ e.verdict = IF t[1].field = "verdict" THEN t[1].to ELSE d.verdict
  BY <1>1, PutFacts
<1>3. \A f : Has(t, f) <=> t[1].field = f \/ Has(u, f)
  BY HasTail
<1> SUFFICES /\ OthersKept(e, b, n)
             /\ WriteOnly(u, b, n)
             /\ PutsBack(t, b) /\ BackAgain(t, d, b) =>
                    BackAgain(u, e, b) /\ (Len(t) = 1 => e = b)
  OBVIOUS
<1> HIDE DEF e, u
<1>4. OthersKept(e, b, n)
  <2> SUFFICES ASSUME NEW m \in Names \ {n}
               PROVE  /\ e.hashed[m] = b.hashed[m] /\ e.legacy[m] = b.legacy[m]
                      /\ m \in e.index <=> m \in b.index
    BY DEF OthersKept
  <2>1. /\ t[1].field = "hashed" => t[1].to[m] = b.hashed[m]
        /\ t[1].field = "legacy" => t[1].to[m] = b.legacy[m]
        /\ t[1].field = "index" => (m \in t[1].to <=> m \in b.index)
    BY <1>1 DEF WriteOnly
  <2>2. /\ d.hashed[m] = b.hashed[m] /\ d.legacy[m] = b.legacy[m]
        /\ m \in d.index <=> m \in b.index
    BY DEF OthersKept
  <2>3. e.hashed[m] = b.hashed[m]
    BY <1>2, <2>1, <2>2
  <2>4. e.legacy[m] = b.legacy[m]
    BY <1>2, <2>1, <2>2
  <2>5. m \in e.index <=> m \in b.index
    <3>1. CASE t[1].field = "index"
      BY <1>2, <2>1, <3>1
    <3>2. CASE t[1].field # "index"
      BY <1>2, <2>2, <3>2
    <3> QED
      BY <3>1, <3>2
  <2> QED
    BY <2>3, <2>4, <2>5
<1>5. WriteOnly(u, b, n)
  BY <1>1 DEF WriteOnly
<1>6. ASSUME PutsBack(t, b), BackAgain(t, d, b)
      PROVE  BackAgain(u, e, b)
  <2>1. t[1].to = b[t[1].field]
    BY <1>1, <1>6 DEF PutsBack
  <2> SUFFICES ASSUME NEW f \in KeychainPlaces, ~Has(u, f)
               PROVE  e[f] = b[f]
    BY DEF BackAgain
  <2>2. CASE t[1].field = f
    <3>1. e[f] = t[1].to
      BY <1>2, <2>2 DEF KeychainPlaces
    <3> QED
      BY <2>1, <2>2, <3>1
  <2>3. CASE t[1].field # f
    <3>1. e[f] = d[f]
      BY <1>2, <2>3 DEF KeychainPlaces
    <3>2. d[f] = b[f]
      BY <1>3, <1>6, <2>3 DEF BackAgain
    <3> QED
      BY <3>1, <3>2
  <2> QED
    BY <2>2, <2>3
<1>7. ASSUME BackAgain(u, e, b), Len(t) = 1
      PROVE  e = b
  <2>1. \A f : ~Has(u, f)
    BY <1>1, <1>7 DEF Has
  <2>2. \A f \in KeychainPlaces : e[f] = b[f]
    BY <1>7, <2>1 DEF BackAgain
  <2>3. /\ e.hashed = b.hashed /\ e.legacy = b.legacy /\ e.index = b.index
        /\ e.meta = b.meta /\ e.verdict = b.verdict
    BY <2>2 DEF KeychainPlaces
  <2> QED
    BY <1>2, <2>3 DEF Disks
<1> QED
  BY <1>4, <1>5, <1>6, <1>7

\* Two sequences of writes in a row.
LEMMA CatFacts ==
    ASSUME NEW s \in Seq(PlaceWrites), NEW c \in Seq(PlaceWrites)
    PROVE  /\ s \o c \in Seq(PlaceWrites) /\ Len(s \o c) = Len(s) + Len(c)
           /\ \A i \in 1..Len(s) : (s \o c)[i] = s[i]
           /\ \A i \in 1..Len(s \o c) : i \notin 1..Len(s) =>
                 i - Len(s) \in 1..Len(c) /\ (s \o c)[i] = c[i - Len(s)]
<1>1. s \o c \in Seq(PlaceWrites) /\ Len(s \o c) = Len(s) + Len(c) /\ Len(s) \in Nat
        /\ Len(c) \in Nat
  OBVIOUS
<1>2. \A i \in 1..Len(s) : (s \o c)[i] = s[i]
  OBVIOUS
<1>3. \A i \in 1..Len(s \o c) : i \notin 1..Len(s) =>
         i - Len(s) \in 1..Len(c) /\ (s \o c)[i] = c[i - Len(s)]
  <2> SUFFICES ASSUME NEW i \in 1..Len(s \o c), i \notin 1..Len(s)
               PROVE  i - Len(s) \in 1..Len(c) /\ (s \o c)[i] = c[i - Len(s)]
    OBVIOUS
  <2>1. i \in Nat /\ i > Len(s) /\ i <= Len(s) + Len(c) /\ i - Len(s) \in 1..Len(c)
    BY <1>1
  <2> QED
    BY <1>1, <2>1
<1> QED
  BY <1>1, <1>2, <1>3

LEMMA CatAll ==
    ASSUME NEW s \in Seq(PlaceWrites), NEW c \in Seq(PlaceWrites), NEW Good,
           \A i \in 1..Len(s) : s[i] \in Good, \A i \in 1..Len(c) : c[i] \in Good
    PROVE  \A i \in 1..Len(s \o c) : (s \o c)[i] \in Good
BY CatFacts

\* The writes that leave the other names alone.
KeepingWrites(b, n) == {w \in PlaceWrites : WriteOnly(<<w>>, b, n)}

LEMMA KeepingFacts ==
    ASSUME NEW b, NEW n
    PROVE  /\ \A w \in PlaceWrites : w \in KeepingWrites(b, n) <=>
                  \A m \in Names \ {n} :
                      /\ w.field = "hashed" => w.to[m] = b.hashed[m]
                      /\ w.field = "legacy" => w.to[m] = b.legacy[m]
                      /\ w.field = "index" => (m \in w.to <=> m \in b.index)
           /\ \A t \in Seq(PlaceWrites) :
                  WriteOnly(t, b, n) <=> \A i \in 1..Len(t) : t[i] \in KeepingWrites(b, n)
<1>1. ASSUME NEW w \in PlaceWrites
      PROVE  w \in KeepingWrites(b, n) <=>
                  \A m \in Names \ {n} :
                      /\ w.field = "hashed" => w.to[m] = b.hashed[m]
                      /\ w.field = "legacy" => w.to[m] = b.legacy[m]
                      /\ w.field = "index" => (m \in w.to <=> m \in b.index)
  <2>1. Len(<<w>>) = 1 /\ <<w>>[1] = w
    OBVIOUS
  <2>2. WriteOnly(<<w>>, b, n) <=>
           \A m \in Names \ {n} :
              /\ w.field = "hashed" => w.to[m] = b.hashed[m]
              /\ w.field = "legacy" => w.to[m] = b.legacy[m]
              /\ w.field = "index" => (m \in w.to <=> m \in b.index)
    BY <2>1 DEF WriteOnly
  <2> QED
    BY <2>2 DEF KeepingWrites
<1>2. ASSUME NEW t \in Seq(PlaceWrites)
      PROVE  WriteOnly(t, b, n) <=> \A i \in 1..Len(t) : t[i] \in KeepingWrites(b, n)
  <2>1. \A i \in 1..Len(t) : t[i] \in PlaceWrites
    OBVIOUS
  <2> QED
    BY <1>1, <2>1 DEF WriteOnly
<1> QED
  BY <1>1, <1>2

\* A sidecar is written only when it changes.
LEMMA ChangedFacts ==
    ASSUME NEW f \in KeychainPlaces, NEW to, Vault!Write(f, to) \in PlaceWrites
    PROVE  /\ Vault!Changed(f, to) \in Seq(PlaceWrites)
           /\ \A i \in 1..Len(Vault!Changed(f, to)) : Vault!Changed(f, to)[i] = Vault!Write(f, to)
           /\ disk[f] # to => Vault!Changed(f, to) = <<Vault!Write(f, to)>>
<1>1. CASE disk[f] = to
  BY <1>1 DEF Vault!Changed
<1>2. CASE disk[f] # to
  BY <1>2 DEF Vault!Changed
<1> QED
  BY <1>1, <1>2

\* A store or a migration: the new entry, sidecars, the old entry.
LEMMA StoringShape ==
    ASSUME NEW s \in Seq(PlaceWrites), NEW z \in PlaceWrites, NEW b, NEW a, NEW n,
           Len(s) >= 1, s[1].field = "hashed", s[1].to[n] \in a \ {Vault!Nothing},
           \A i \in 2..Len(s) : s[i].field \notin {"hashed", "legacy"},
           z.field = "legacy", z.to[n] = Vault!Nothing
    PROVE  Storing(s \o <<z>>, b, b, a, n)
<1> DEFINE t == s \o <<z>>
<1>1. <<z>> \in Seq(PlaceWrites) /\ Len(<<z>>) = 1 /\ <<z>>[1] = z /\ Len(s) \in Nat
  OBVIOUS
<1>2. /\ t \in Seq(PlaceWrites) /\ Len(t) = Len(s) + 1
      /\ \A i \in 1..Len(s) : t[i] = s[i]
      /\ t[Len(t)] = z
  BY <1>1, CatFacts
<1> SUFFICES Storing(t, b, b, a, n)
  OBVIOUS
<1> HIDE DEF t
<1>3. ASSUME NEW i \in 1..Len(t)
      PROVE  /\ t[i].field = "legacy" => i = Len(t) /\ t[i].to[n] = Vault!Nothing
             /\ t[i].field = "hashed" => i = 1 /\ t[i].to[n] \in a \ {Vault!Nothing}
  <2>1. CASE i = Len(t)
    BY <1>2, <2>1
  <2>2. CASE i = 1
    BY <1>1, <1>2, <2>2
  <2>3. CASE i \in 2..Len(s)
    BY <1>1, <1>2, <2>3
  <2> QED
    BY <1>1, <1>2, <2>1, <2>2, <2>3
<1>4. t[1] = s[1]
  BY <1>1, <1>2
<1> QED
  BY <1>2, <1>3, <1>4 DEF Storing

\* A deletion: sidecars and the index, then the credentials.
LEMMA DeletingShape ==
    ASSUME NEW s \in Seq(PlaceWrites), NEW h \in PlaceWrites, NEW z \in PlaceWrites, NEW b, NEW n,
           \A i \in 1..Len(s) : /\ s[i].field \notin {"hashed", "legacy"}
                                /\ s[i].field = "index" => n \notin s[i].to,
           n \in b.index => Has(s, "index"),
           h.field = "hashed", h.to[n] = Vault!Nothing, z.field = "legacy", z.to[n] = Vault!Nothing
    PROVE  Deleting(s \o <<h, z>>, b, b, n)
<1> DEFINE t == s \o <<h, z>>
<1>1. /\ <<h, z>> \in Seq(PlaceWrites) /\ Len(<<h, z>>) = 2 /\ <<h, z>>[1] = h /\ <<h, z>>[2] = z
      /\ Len(s) \in Nat
  OBVIOUS
<1>2. /\ t \in Seq(PlaceWrites) /\ Len(t) = Len(s) + 2
      /\ \A i \in 1..Len(s) : t[i] = s[i]
      /\ t[Len(t)] = z /\ t[Len(t) - 1] = h
  <2>1. /\ t \in Seq(PlaceWrites) /\ Len(t) = Len(s) + 2
        /\ \A i \in 1..Len(s) : t[i] = s[i]
    BY <1>1, CatFacts
  <2>2. \A i \in 1..Len(t) : i \notin 1..Len(s) => t[i] = <<h, z>>[i - Len(s)]
    BY <1>1, CatFacts
  <2>3. Len(s) + 1 \in 1..Len(t) /\ Len(s) + 1 \notin 1..Len(s) /\ Len(s) + 1 - Len(s) = 1
    BY <1>1, <2>1
  <2>4. Len(s) + 2 \in 1..Len(t) /\ Len(s) + 2 \notin 1..Len(s) /\ Len(s) + 2 - Len(s) = 2
    BY <1>1, <2>1
  <2>5. t[Len(s) + 1] = h
    BY <1>1, <2>2, <2>3
  <2>6. t[Len(s) + 2] = z
    BY <1>1, <2>2, <2>4
  <2> QED
    BY <1>1, <2>1, <2>5, <2>6
<1> SUFFICES Deleting(t, b, b, n)
  OBVIOUS
<1> HIDE DEF t
<1>3. ASSUME NEW i \in 1..Len(t)
      PROVE  /\ t[i].field = "legacy" => i = Len(t) /\ t[i].to[n] = Vault!Nothing
             /\ t[i].field = "hashed" => i = Len(t) - 1 /\ t[i].to[n] = Vault!Nothing
             /\ t[i].field = "index" => n \notin t[i].to
  <2>1. CASE i = Len(t)
    BY <1>2, <2>1
  <2>2. CASE i = Len(t) - 1
    BY <1>2, <2>2
  <2>3. CASE i \in 1..Len(s)
    BY <1>2, <2>3
  <2> QED
    BY <1>1, <1>2, <2>1, <2>2, <2>3
<1>4. Has(s, "index") => Has(t, "index")
  BY <1>1, <1>2 DEF Has
<1> QED
  BY <1>1, <1>2, <1>3, <1>4 DEF Deleting

\* The writes that a call of name n brings.
LEMMA WriteTyped ==
    ASSUME disk \in Disks, NEW n \in Names
    PROVE  /\ \A v \in Entries :
                  Vault!Write("hashed", Vault!Set("hashed", n, v)) \in KeepingWrites(disk, n)
           /\ \A v \in Entries :
                  Vault!Write("legacy", Vault!Set("legacy", n, v)) \in KeepingWrites(disk, n)
           /\ \A v \in Entries :
                  Vault!Write("verdict", Vault!Set("verdict", n, v)) \in KeepingWrites(disk, n)
           /\ Vault!Write("verdict", disk.verdict) \in KeepingWrites(disk, n)
           /\ \A m \in Vault!Metadata \cup {Vault!Nothing} :
                  Vault!Write("meta", Vault!Set("meta", n, m)) \in KeepingWrites(disk, n)
           /\ Vault!Write("index", disk.index \cup {n}) \in KeepingWrites(disk, n)
           /\ Vault!Write("index", disk.index \ {n}) \in KeepingWrites(disk, n)
           /\ \A v : Vault!Set("hashed", n, v)[n] = v /\ Vault!Set("legacy", n, v)[n] = v
<1>0. /\ disk["hashed"] = disk.hashed /\ disk["legacy"] = disk.legacy
      /\ disk["meta"] = disk.meta /\ disk["verdict"] = disk.verdict
  OBVIOUS
<1>1. ASSUME NEW v \in Entries
      PROVE  /\ Vault!Write("hashed", Vault!Set("hashed", n, v)) \in KeepingWrites(disk, n)
             /\ Vault!Write("legacy", Vault!Set("legacy", n, v)) \in KeepingWrites(disk, n)
             /\ Vault!Write("verdict", Vault!Set("verdict", n, v)) \in KeepingWrites(disk, n)
  <2> DEFINE h == Vault!Set("hashed", n, v)
             l == Vault!Set("legacy", n, v)
             c == Vault!Set("verdict", n, v)
  <2>1. /\ h \in [Names -> Entries] /\ l \in [Names -> Entries] /\ c \in [Names -> Entries]
        /\ \A m \in Names \ {n} : h[m] = disk.hashed[m] /\ l[m] = disk.legacy[m]
    BY <1>0 DEF Vault!Set, Disks
  <2> HIDE DEF h, l, c
  <2>2. Vault!Write("hashed", h) \in PlaceWrites /\ Vault!Write("legacy", l) \in PlaceWrites
        /\ Vault!Write("verdict", c) \in PlaceWrites
    BY <2>1 DEF Vault!Write, PlaceWrites, EntryWrites
  <2>3. /\ Vault!Write("hashed", h) \in KeepingWrites(disk, n)
        /\ Vault!Write("legacy", l) \in KeepingWrites(disk, n)
        /\ Vault!Write("verdict", c) \in KeepingWrites(disk, n)
    BY <2>1, <2>2, KeepingFacts DEF Vault!Write
  <2> QED
    BY <2>3 DEF h, l, c
<1>2. Vault!Write("verdict", disk.verdict) \in KeepingWrites(disk, n)
  <2>1. Vault!Write("verdict", disk.verdict) \in PlaceWrites
    BY DEF Vault!Write, PlaceWrites, EntryWrites, Disks
  <2> QED
    BY <2>1, KeepingFacts DEF Vault!Write
<1>3. ASSUME NEW m \in Vault!Metadata \cup {Vault!Nothing}
      PROVE  Vault!Write("meta", Vault!Set("meta", n, m)) \in KeepingWrites(disk, n)
  <2>1. Vault!Set("meta", n, m) \in [Names -> Vault!Metadata \cup {Vault!Nothing}]
    BY <1>0 DEF Vault!Set, Disks
  <2>2. Vault!Write("meta", Vault!Set("meta", n, m)) \in PlaceWrites
    BY <2>1 DEF Vault!Write, PlaceWrites, MetaWrites
  <2> QED
    BY <2>2, KeepingFacts DEF Vault!Write
<1>4. /\ Vault!Write("index", disk.index \cup {n}) \in KeepingWrites(disk, n)
      /\ Vault!Write("index", disk.index \ {n}) \in KeepingWrites(disk, n)
  <2>1. /\ Vault!Write("index", disk.index \cup {n}) \in PlaceWrites
        /\ Vault!Write("index", disk.index \ {n}) \in PlaceWrites
    BY DEF Vault!Write, PlaceWrites, IndexWrites, Disks
  <2> QED
    BY <2>1, KeepingFacts DEF Vault!Write
<1>5. \A v : Vault!Set("hashed", n, v)[n] = v /\ Vault!Set("legacy", n, v)[n] = v
  BY <1>0 DEF Vault!Set, Disks
<1> QED
  BY <1>1, <1>2, <1>3, <1>4, <1>5

\* What the writes of a call are when it begins.
Begun(k, t, a, n) ==
    /\ t \in Seq(PlaceWrites) /\ t # <<>>
    /\ ToGo(k, "commit", t, disk, disk, a, n)
    /\ WriteOnly(t, disk, n)

\* The writes between the first and the last of a store.
Sidecars(b, n) == {w \in KeepingWrites(b, n) : w.field \notin {"hashed", "legacy"}}

LEMMA CatSidecars ==
    ASSUME NEW s \in Seq(PlaceWrites), NEW c \in Seq(PlaceWrites), NEW b, NEW n,
           Len(s) >= 1, \A i \in 2..Len(s) : s[i] \in Sidecars(b, n),
           \A i \in 1..Len(c) : c[i] \in Sidecars(b, n)
    PROVE  /\ s \o c \in Seq(PlaceWrites) /\ Len(s \o c) >= 1 /\ (s \o c)[1] = s[1]
           /\ \A i \in 2..Len(s \o c) : (s \o c)[i] \in Sidecars(b, n)
<1>1. Len(s) \in Nat /\ Len(c) \in Nat
  OBVIOUS
<1>2. s \o c \in Seq(PlaceWrites) /\ Len(s \o c) >= 1 /\ (s \o c)[1] = s[1]
  BY <1>1, CatFacts
<1>3. ASSUME NEW i \in 2..Len(s \o c)
      PROVE  (s \o c)[i] \in Sidecars(b, n)
  <2>1. i \in 1..Len(s \o c)
    OBVIOUS
  <2>2. CASE i \in 1..Len(s)
    BY <2>2, CatFacts
  <2>3. CASE i \notin 1..Len(s)
    BY <2>1, <2>3, CatFacts
  <2> QED
    BY <2>2, <2>3
<1> QED
  BY <1>2, <1>3

\* A store's writes with the last.
LEMMA CatLast ==
    ASSUME NEW s \in Seq(PlaceWrites), NEW n, NEW z \in KeepingWrites(disk, n),
           Len(s) >= 1, s[1] \in KeepingWrites(disk, n),
           \A i \in 2..Len(s) : s[i] \in Sidecars(disk, n)
    PROVE  /\ s \o <<z>> \in Seq(PlaceWrites) /\ s \o <<z>> # <<>>
           /\ WriteOnly(s \o <<z>>, disk, n)
<1>1. z \in PlaceWrites /\ <<z>> \in Seq(PlaceWrites) /\ Len(<<z>>) = 1 /\ <<z>>[1] = z
      /\ Len(s) \in Nat
  BY DEF KeepingWrites
<1>2. \A i \in 1..Len(s) : s[i] \in KeepingWrites(disk, n)
  BY <1>1 DEF Sidecars
<1>3. \A i \in 1..Len(<<z>>) : <<z>>[i] \in KeepingWrites(disk, n)
  BY <1>1
<1>4. s \o <<z>> \in Seq(PlaceWrites) /\ Len(s \o <<z>>) = Len(s) + 1
  BY <1>1, CatFacts
<1>5. \A i \in 1..Len(s \o <<z>>) : (s \o <<z>>)[i] \in KeepingWrites(disk, n)
  BY <1>1, <1>2, <1>3, CatAll
<1>6. WriteOnly(s \o <<z>>, disk, n)
  BY <1>4, <1>5, KeepingFacts
<1>7. s \o <<z>> # <<>>
  <2>1. Len(<<>>) = 0
    OBVIOUS
  <2> QED
    BY <1>1, <1>4, <2>1
<1> QED
  BY <1>4, <1>6, <1>7

LEMMA StoreBegun ==
    ASSUME disk \in Disks, NEW n \in Names, NEW v \in Values, v # Vault!Nothing,
           NEW m \in Vault!Metadata \cup {Vault!Nothing}, NEW a \in SUBSET Entries, v \in a
    PROVE  Begun("store", Vault!StoreWrites(n, v, m), a, n)
<1> DEFINE h == Vault!Write("hashed", Vault!Set("hashed", n, v))
           z == Vault!Write("legacy", Vault!Set("legacy", n, Vault!Nothing))
           verdicts == IF disk.hashed[n] = v THEN disk.verdict
                       ELSE Vault!Set("verdict", n, Vault!Nothing)
           c1 == Vault!Changed("index", disk.index \cup {n})
           c2 == Vault!Changed("meta", Vault!Set("meta", n, Vault!StoredMetadata(n, m)))
           c3 == Vault!Changed("verdict", verdicts)
<1>1. /\ h \in KeepingWrites(disk, n) /\ z \in KeepingWrites(disk, n)
      /\ h \in PlaceWrites /\ z \in PlaceWrites
      /\ h.field = "hashed" /\ h.to[n] = v /\ z.field = "legacy" /\ z.to[n] = Vault!Nothing
  <2>1. v \in Entries /\ Vault!Nothing \in Entries
    BY DEF Entries
  <2>2. h \in KeepingWrites(disk, n) /\ z \in KeepingWrites(disk, n)
    BY <2>1, WriteTyped
  <2>3. h.to[n] = v /\ z.to[n] = Vault!Nothing
    BY WriteTyped DEF Vault!Write
  <2> QED
    BY <2>2, <2>3 DEF Vault!Write, KeepingWrites
<1>2. c1 \in Seq(PlaceWrites) /\ \A i \in 1..Len(c1) : c1[i] \in Sidecars(disk, n)
  <2>1. Vault!Write("index", disk.index \cup {n}) \in Sidecars(disk, n)
    BY WriteTyped DEF Sidecars, Vault!Write
  <2> QED
    BY <2>1, ChangedFacts DEF Sidecars, KeepingWrites, KeychainPlaces
<1>3. c2 \in Seq(PlaceWrites) /\ \A i \in 1..Len(c2) : c2[i] \in Sidecars(disk, n)
  <2>1. Vault!StoredMetadata(n, m) \in Vault!Metadata \cup {Vault!Nothing}
    BY DEF Vault!StoredMetadata, Disks, Vault!Metadata
  <2>2. Vault!Write("meta", Vault!Set("meta", n, Vault!StoredMetadata(n, m))) \in Sidecars(disk, n)
    BY <2>1, WriteTyped DEF Sidecars, Vault!Write
  <2> QED
    BY <2>2, ChangedFacts DEF Sidecars, KeepingWrites, KeychainPlaces
<1>4. c3 \in Seq(PlaceWrites) /\ \A i \in 1..Len(c3) : c3[i] \in Sidecars(disk, n)
  <2>1. Vault!Nothing \in Entries
    BY DEF Entries
  <2>2. Vault!Write("verdict", verdicts) \in KeepingWrites(disk, n)
    BY <2>1, WriteTyped
  <2>3. Vault!Write("verdict", verdicts) \in Sidecars(disk, n)
    BY <2>2 DEF Sidecars, Vault!Write
  <2> QED
    BY <2>3, ChangedFacts DEF Sidecars, KeepingWrites, KeychainPlaces
<1>5. Vault!StoreWrites(n, v, m) = <<h>> \o c1 \o c2 \o c3 \o <<z>>
  BY DEF Vault!StoreWrites
<1> HIDE DEF h, z, verdicts, c1, c2, c3
<1> DEFINE s0 == <<h>>
           s1 == s0 \o c1
           s2 == s1 \o c2
           s3 == s2 \o c3
<1>6. /\ s0 \in Seq(PlaceWrites) /\ Len(s0) >= 1 /\ s0[1] = h
      /\ \A i \in 2..Len(s0) : s0[i] \in Sidecars(disk, n)
  BY <1>1
<1>7. /\ s1 \in Seq(PlaceWrites) /\ Len(s1) >= 1 /\ s1[1] = h
      /\ \A i \in 2..Len(s1) : s1[i] \in Sidecars(disk, n)
  <2> HIDE DEF s0
  <2> QED
    BY <1>2, <1>6, CatSidecars
<1>8. /\ s2 \in Seq(PlaceWrites) /\ Len(s2) >= 1 /\ s2[1] = h
      /\ \A i \in 2..Len(s2) : s2[i] \in Sidecars(disk, n)
  <2> HIDE DEF s1
  <2> QED
    BY <1>3, <1>7, CatSidecars
<1>9. /\ s3 \in Seq(PlaceWrites) /\ Len(s3) >= 1 /\ s3[1] = h
      /\ \A i \in 2..Len(s3) : s3[i] \in Sidecars(disk, n)
  <2> HIDE DEF s2
  <2> QED
    BY <1>4, <1>8, CatSidecars
<1>10. Vault!StoreWrites(n, v, m) = s3 \o <<z>>
  BY <1>5
<1> HIDE DEF s0, s1, s2, s3
<1>11. Storing(s3 \o <<z>>, disk, disk, a, n)
  BY <1>1, <1>9, StoringShape DEF Sidecars
<1>12. /\ s3 \o <<z>> \in Seq(PlaceWrites) /\ s3 \o <<z>> # <<>>
       /\ WriteOnly(s3 \o <<z>>, disk, n)
  BY <1>1, <1>9, CatLast
<1> QED
  BY <1>10, <1>11, <1>12 DEF Begun, ToGo

LEMMA DeleteBegun ==
    ASSUME disk \in Disks, NEW n \in Names, NEW a
    PROVE  Begun("delete", Vault!DeleteWrites(n), a, n)
<1> DEFINE h == Vault!Write("hashed", Vault!Set("hashed", n, Vault!Nothing))
           z == Vault!Write("legacy", Vault!Set("legacy", n, Vault!Nothing))
           c1 == Vault!Changed("meta", Vault!Set("meta", n, Vault!Nothing))
           c2 == Vault!Changed("verdict", Vault!Set("verdict", n, Vault!Nothing))
           c3 == Vault!Changed("index", disk.index \ {n})
           Mine == {w \in Sidecars(disk, n) : w.field = "index" => n \notin w.to}
<1>1. /\ h \in KeepingWrites(disk, n) /\ z \in KeepingWrites(disk, n)
      /\ h \in PlaceWrites /\ z \in PlaceWrites
      /\ h.field = "hashed" /\ h.to[n] = Vault!Nothing /\ z.field = "legacy"
           /\ z.to[n] = Vault!Nothing
  <2>1. Vault!Nothing \in Entries
    BY DEF Entries
  <2>2. h \in KeepingWrites(disk, n) /\ z \in KeepingWrites(disk, n)
    BY <2>1, WriteTyped
  <2>3. h.to[n] = Vault!Nothing /\ z.to[n] = Vault!Nothing
    BY WriteTyped DEF Vault!Write
  <2> QED
    BY <2>2, <2>3 DEF Vault!Write, KeepingWrites
<1>2. c1 \in Seq(PlaceWrites) /\ \A i \in 1..Len(c1) : c1[i] \in Mine
  <2>1. Vault!Write("meta", Vault!Set("meta", n, Vault!Nothing)) \in Mine
    BY WriteTyped DEF Sidecars, Vault!Write
  <2> QED
    BY <2>1, ChangedFacts DEF Sidecars, KeepingWrites, KeychainPlaces
<1>3. c2 \in Seq(PlaceWrites) /\ \A i \in 1..Len(c2) : c2[i] \in Mine
  <2>1. Vault!Nothing \in Entries
    BY DEF Entries
  <2>2. Vault!Write("verdict", Vault!Set("verdict", n, Vault!Nothing)) \in Mine
    BY <2>1, WriteTyped DEF Sidecars, Vault!Write
  <2> QED
    BY <2>2, ChangedFacts DEF Sidecars, KeepingWrites, KeychainPlaces
<1>4. /\ c3 \in Seq(PlaceWrites) /\ \A i \in 1..Len(c3) : c3[i] \in Mine
      /\ n \in disk.index => Len(c3) = 1 /\ c3[1].field = "index"
  <2>1. Vault!Write("index", disk.index \ {n}) \in Mine
    BY WriteTyped DEF Sidecars, Vault!Write
  <2>2. Vault!Write("index", disk.index \ {n}) \in PlaceWrites /\ "index" \in KeychainPlaces
    BY <2>1 DEF Sidecars, KeepingWrites, KeychainPlaces
  <2>3. disk["index"] = disk.index
    OBVIOUS
  <2>4. n \in disk.index => c3 = <<Vault!Write("index", disk.index \ {n})>>
    BY <2>2, <2>3, ChangedFacts
  <2>5. n \in disk.index => Len(c3) = 1 /\ c3[1].field = "index"
    BY <2>4 DEF Vault!Write
  <2> QED
    BY <2>1, <2>2, <2>5, ChangedFacts
<1>5. Vault!DeleteWrites(n) = c1 \o c2 \o c3 \o <<h, z>>
  BY DEF Vault!DeleteWrites
<1>6. Mine \subseteq KeepingWrites(disk, n) /\ KeepingWrites(disk, n) \subseteq PlaceWrites
  BY DEF Sidecars, KeepingWrites
<1>7. \A w \in Mine : w.field \notin {"hashed", "legacy"} /\ (w.field = "index" => n \notin w.to)
  BY DEF Sidecars
<1> HIDE DEF h, z, c1, c2, c3, Mine
<1> DEFINE s1 == c1 \o c2
           s2 == s1 \o c3
<1>8. s1 \in Seq(PlaceWrites) /\ \A i \in 1..Len(s1) : s1[i] \in Mine
  BY <1>2, <1>3, CatFacts, CatAll
<1> HIDE DEF s1
<1>9. /\ s2 \in Seq(PlaceWrites) /\ Len(s2) \in Nat
      /\ \A i \in 1..Len(s2) : s2[i] \in Mine
  BY <1>4, <1>8, CatFacts, CatAll
<1>10. n \in disk.index => Has(s2, "index")
  <2> SUFFICES ASSUME n \in disk.index
               PROVE  Has(s2, "index")
    OBVIOUS
  <2>1. Len(c3) = 1 /\ c3[1].field = "index" /\ Len(s1) \in Nat
    BY <1>4, <1>8
  <2>2. Len(s2) = Len(s1) + 1
    <3>1. Len(s1 \o c3) = Len(s1) + Len(c3)
      BY <1>4, <1>8, CatFacts
    <3> QED
      BY <2>1, <3>1
  <2>3. Len(s1) + 1 \in 1..Len(s2) /\ Len(s1) + 1 \notin 1..Len(s1)
    BY <2>1, <2>2
  <2>4. Len(s1) + 1 - Len(s1) = 1
    BY <2>1
  <2>5. s2[Len(s1) + 1] = c3[Len(s1) + 1 - Len(s1)]
    BY <1>4, <1>8, <2>3, CatFacts
  <2>6. s2[Len(s1) + 1] = c3[1]
    BY <2>4, <2>5
  <2> QED
    BY <2>1, <2>3, <2>6 DEF Has
<1> HIDE DEF s2
<1>11. Deleting(s2 \o <<h, z>>, disk, disk, n)
  BY <1>1, <1>7, <1>9, <1>10, DeletingShape
<1>12. /\ s2 \o <<h, z>> \in Seq(PlaceWrites) /\ s2 \o <<h, z>> # <<>>
       /\ WriteOnly(s2 \o <<h, z>>, disk, n)
  <2>1. /\ <<h, z>> \in Seq(PlaceWrites) /\ Len(<<h, z>>) = 2
        /\ \A i \in 1..Len(<<h, z>>) : <<h, z>>[i] \in KeepingWrites(disk, n)
    BY <1>1
  <2>2. \A i \in 1..Len(s2) : s2[i] \in KeepingWrites(disk, n)
    BY <1>6, <1>9
  <2>3. s2 \o <<h, z>> \in Seq(PlaceWrites) /\ Len(s2 \o <<h, z>>) = Len(s2) + 2
    BY <1>9, <2>1, CatFacts
  <2>4. \A i \in 1..Len(s2 \o <<h, z>>) : (s2 \o <<h, z>>)[i] \in KeepingWrites(disk, n)
    BY <1>9, <2>1, <2>2, CatAll
  <2>5. WriteOnly(s2 \o <<h, z>>, disk, n)
    BY <2>3, <2>4, KeepingFacts
  <2>6. s2 \o <<h, z>> # <<>>
    <3>1. Len(<<>>) = 0
      OBVIOUS
    <3> QED
      BY <1>9, <2>3, <3>1
  <2> QED
    BY <2>3, <2>5, <2>6
<1>13. Vault!DeleteWrites(n) = s2 \o <<h, z>>
  BY <1>5 DEF s1, s2
<1> QED
  BY <1>11, <1>12, <1>13 DEF Begun, ToGo

LEMMA MigrateBegun ==
    ASSUME disk \in Disks, NEW n \in Names, NEW a \in SUBSET Entries,
           disk.legacy[n] \in a \ {Vault!Nothing}
    PROVE  Begun("migrate", Vault!MigrateWrites(n), a, n)
<1> DEFINE h == Vault!Write("hashed", Vault!Set("hashed", n, disk.legacy[n]))
           z == Vault!Write("legacy", Vault!Set("legacy", n, Vault!Nothing))
           c1 == Vault!Changed("index", disk.index \cup {n})
           Mine == {w \in Sidecars(disk, n) : w.field \notin {"meta", "verdict"}}
<1>1. /\ h \in KeepingWrites(disk, n) /\ z \in KeepingWrites(disk, n)
      /\ h \in PlaceWrites /\ z \in PlaceWrites
      /\ h.field = "hashed" /\ h.to[n] = disk.legacy[n] /\ z.field = "legacy"
           /\ z.to[n] = Vault!Nothing
  <2>1. disk.legacy[n] \in Entries /\ Vault!Nothing \in Entries
    BY DEF Entries
  <2>2. h \in KeepingWrites(disk, n) /\ z \in KeepingWrites(disk, n)
    BY <2>1, WriteTyped
  <2>3. h.to[n] = disk.legacy[n] /\ z.to[n] = Vault!Nothing
    BY WriteTyped DEF Vault!Write
  <2> QED
    BY <2>2, <2>3 DEF Vault!Write, KeepingWrites
<1>2. c1 \in Seq(PlaceWrites) /\ \A i \in 1..Len(c1) : c1[i] \in Mine
  <2>1. Vault!Write("index", disk.index \cup {n}) \in Mine
    BY WriteTyped DEF Sidecars, Vault!Write
  <2> QED
    BY <2>1, ChangedFacts DEF Sidecars, KeepingWrites, KeychainPlaces
<1>3. Vault!MigrateWrites(n) = <<h>> \o c1 \o <<z>>
  BY DEF Vault!MigrateWrites
<1>4. Mine \subseteq Sidecars(disk, n) /\ \A w \in Mine : w.field \notin {"meta", "verdict"}
  OBVIOUS
<1> HIDE DEF h, z, c1, Mine
<1> DEFINE s0 == <<h>>
           s1 == s0 \o c1
           t == s1 \o <<z>>
<1>5. /\ s0 \in Seq(PlaceWrites) /\ Len(s0) >= 1 /\ Len(s0) = 1 /\ s0[1] = h
      /\ \A i \in 2..Len(s0) : s0[i] \in Sidecars(disk, n)
  BY <1>1
<1> HIDE DEF s0
<1>6. /\ s1 \in Seq(PlaceWrites) /\ Len(s1) >= 1 /\ s1[1] = h
      /\ \A i \in 2..Len(s1) : s1[i] \in Sidecars(disk, n)
  BY <1>2, <1>4, <1>5, CatSidecars
<1>7. \A i \in 1..Len(s1) : s1[i].field \notin {"meta", "verdict"}
  <2> DEFINE Either == Mine \cup {h}
  <2>1. \A i \in 1..Len(s0) : s0[i] \in Either
    BY <1>5
  <2>2. \A i \in 1..Len(c1) : c1[i] \in Either
    BY <1>2
  <2>3. \A w \in Either : w.field \notin {"meta", "verdict"}
    BY <1>1, <1>4
  <2> HIDE DEF Either
  <2>4. \A i \in 1..Len(s1) : s1[i] \in Either
    BY <1>2, <1>5, <2>1, <2>2, CatAll
  <2> QED
    BY <2>3, <2>4
<1> HIDE DEF s1
<1>8. Storing(t, disk, disk, a, n)
  BY <1>1, <1>6, StoringShape DEF Sidecars
<1>9. t \in Seq(PlaceWrites) /\ t # <<>> /\ WriteOnly(t, disk, n)
  BY <1>1, <1>6, CatLast
<1>10. \A i \in 1..Len(t) : t[i].field \notin {"meta", "verdict"}
  <2>1. Len(s1) \in Nat /\ <<z>> \in Seq(PlaceWrites) /\ Len(<<z>>) = 1 /\ <<z>>[1] = z
    BY <1>1, <1>6
  <2>2. Len(t) = Len(s1) + 1 /\ (\A i \in 1..Len(s1) : t[i] = s1[i])
    BY <1>6, <2>1, CatFacts
  <2>3. t[Len(t)].field = "legacy"
    BY <1>8 DEF Storing
  <2> HIDE DEF t
  <2> QED
    BY <1>7, <2>1, <2>2, <2>3
<1>11. Vault!MigrateWrites(n) = t
  BY <1>3 DEF s0, s1
<1> QED
  BY <1>8, <1>9, <1>10, <1>11 DEF Begun, ToGo

LEMMA SidecarBegun ==
    ASSUME disk \in Disks, NEW n \in Names, NEW a, NEW w \in KeepingWrites(disk, n),
           w.field \in {"meta", "verdict"}
    PROVE  Begun("sidecar", <<w>>, a, n)
<1>1. w \in PlaceWrites /\ WriteOnly(<<w>>, disk, n)
  BY DEF KeepingWrites
<1>2. <<w>> \in Seq(PlaceWrites) /\ Len(<<w>>) = 1 /\ <<w>>[1] = w /\ <<w>> # <<>>
  BY <1>1
<1> QED
  BY <1>1, <1>2 DEF Begun, ToGo

\* Some of the places, and the writes that put them back.
LEMMA BackFacts ==
    ASSUME before \in Disks, NEW fs \in Seq(KeychainPlaces), NEW n
    PROVE  /\ Vault!Back(fs) \in Seq(PlaceWrites) /\ Len(Vault!Back(fs)) = Len(fs)
           /\ \A i \in 1..Len(fs) : Vault!Back(fs)[i].field = fs[i]
           /\ PutsBack(Vault!Back(fs), before)
           /\ WriteOnly(Vault!Back(fs), before, n)
           /\ \A f : Has(Vault!Back(fs), f) <=> \E i \in 1..Len(fs) : fs[i] = f
           /\ Vault!Back(fs) = <<>> <=> Len(fs) = 0
<1> DEFINE t == Vault!Back(fs)
<1>1. Len(fs) \in Nat /\ \A i \in 1..Len(fs) : fs[i] \in KeychainPlaces
  OBVIOUS
<1>2. \A f \in KeychainPlaces : Vault!Write(f, before[f]) \in PlaceWrites
  BY DEF Vault!Write, PlaceWrites, EntryWrites, IndexWrites, MetaWrites, KeychainPlaces, Disks
<1>3. t = [i \in 1..Len(fs) |-> Vault!Write(fs[i], before[fs[i]])]
  BY DEF Vault!Back
<1> HIDE DEF t
<1>4. \A i \in 1..Len(fs) : t[i] \in PlaceWrites /\ t[i].field = fs[i] /\ t[i].to = before[fs[i]]
  BY <1>1, <1>2, <1>3 DEF Vault!Write
<1>5. t \in Seq(PlaceWrites) /\ Len(t) = Len(fs)
  BY <1>1, <1>3, <1>4
<1>6. PutsBack(t, before)
  BY <1>4, <1>5 DEF PutsBack
<1>7. WriteOnly(t, before, n)
  <2>1. before["hashed"] = before.hashed /\ before["legacy"] = before.legacy
        /\ before["index"] = before.index
    OBVIOUS
  <2> SUFFICES ASSUME NEW i \in 1..Len(t), NEW m \in Names \ {n}
               PROVE  /\ t[i].field = "hashed" => t[i].to[m] = before.hashed[m]
                      /\ t[i].field = "legacy" => t[i].to[m] = before.legacy[m]
                      /\ t[i].field = "index" => (m \in t[i].to <=> m \in before.index)
    BY DEF WriteOnly
  <2>2. t[i].to = before[t[i].field]
    BY <1>4, <1>5
  <2>3. /\ t[i].field = "hashed" => t[i].to = before.hashed
        /\ t[i].field = "legacy" => t[i].to = before.legacy
        /\ t[i].field = "index" => t[i].to = before.index
    BY <2>1, <2>2
  <2> QED
    BY <2>3
<1>8. \A f : Has(t, f) <=> \E i \in 1..Len(fs) : fs[i] = f
  BY <1>4, <1>5 DEF Has
<1>9. t = <<>> <=> Len(fs) = 0
  <2>1. \A s \in Seq(PlaceWrites) : (s = <<>>) <=> (Len(s) = 0)
    OBVIOUS
  <2>2. (t = <<>>) <=> (Len(t) = 0)
    BY <1>5, <2>1
  <2> QED
    BY <1>5, <2>2
<1> QED
  BY <1>4, <1>5, <1>6, <1>7, <1>8, <1>9 DEF t

LEMMA BackShape ==
    ASSUME before \in Disks, NEW fs \in Seq(KeychainPlaces), NEW n, Len(fs) >= 1
    PROVE  /\ Vault!Back(fs) \in Seq(PlaceWrites) /\ Vault!Back(fs) # <<>>
           /\ PutsBack(Vault!Back(fs), before) /\ WriteOnly(Vault!Back(fs), before, n)
<1>1. Len(fs) # 0
  OBVIOUS
<1>2. /\ Vault!Back(fs) \in Seq(PlaceWrites)
      /\ PutsBack(Vault!Back(fs), before) /\ WriteOnly(Vault!Back(fs), before, n)
  BY BackFacts
<1>3. Vault!Back(fs) = <<>> <=> Len(fs) = 0
  BY BackFacts
<1> QED
  BY <1>1, <1>2, <1>3

LEMMA BackPlaces ==
    ASSUME before \in Disks, NEW fs \in Seq(KeychainPlaces)
    PROVE  /\ Len(Vault!Back(fs)) = Len(fs)
           /\ \A i \in 1..Len(fs) : Vault!Back(fs)[i].field = fs[i]
           /\ \A f : Has(Vault!Back(fs), f) <=> \E i \in 1..Len(fs) : fs[i] = f
BY BackFacts

\* Undoing a call: what it may have changed is put back.
Undoing(t, e, n) ==
    /\ op.kind \in {"store", "delete", "migrate"}
    /\ t \in Seq(PlaceWrites) /\ t # <<>>
    /\ ToGo(op.kind, "undo", t, e, before, allowed[n], n)
    /\ WriteOnly(t, before, n)
    /\ BackAgain(t, e, before)

LEMMA UndoFacts ==
    ASSUME CallShape, CallInv, op # Vault!Idle, op.stage = "commit",
           NEW w, w = op.todo[1], ~(op.kind = "store" /\ w.field = "legacy"),
           NEW e, e = disk \/ e = Put(disk, w), NEW n, n = op.name
    PROVE  \/ Vault!Undo(w) = <<>> /\ op.kind # "delete"
           \/ Undoing(Vault!Undo(w), e, n)
<1> DEFINE t == op.todo
<1>1. /\ disk \in Disks /\ before \in Disks /\ t \in Seq(PlaceWrites) /\ t # <<>>
      /\ n \in Names /\ op.kind \in {"store", "delete", "migrate", "sidecar"}
  BY DEF CallShape, VaultCalls
<1>2. /\ w \in PlaceWrites /\ w.field \in KeychainPlaces /\ 1 \in 1..Len(t) /\ Len(t) \in Nat
  BY <1>1, TailFacts, WriteFacts
<1>3. /\ e \in Disks
      /\ w.field # "hashed" => e.hashed = disk.hashed
      /\ w.field # "legacy" => e.legacy = disk.legacy
      /\ w.field # "index" => e.index = disk.index
      /\ w.field # "meta" => e.meta = disk.meta
      /\ w.field # "verdict" => e.verdict = disk.verdict
  <2>1. CASE e = disk
    BY <1>1, <2>1
  <2>2. CASE e = Put(disk, w)
    BY <1>1, <1>2, <2>2, PutFacts
  <2> QED
    BY <2>1, <2>2
<1>4. /\ ToGo(op.kind, "commit", t, disk, before, allowed[n], n)
      /\ Left(op.kind, disk, before, allowed[n], n)
  BY DEF CallInv
<1> HIDE DEF t
<1>5. CASE op.kind = "store"
  <2>1. Storing(t, disk, before, allowed[n], n)
    BY <1>4, <1>5 DEF ToGo
  <2>2. CASE w.field = "hashed"
    BY <1>5, <2>2 DEF Vault!Undo
  <2>3. CASE w.field # "hashed"
    <3> DEFINE fs == <<"hashed", "index", "meta", "verdict">>
               u == Vault!Back(fs)
    <3>1. fs \in Seq(KeychainPlaces) /\ Len(fs) = 4 /\ fs[1] = "hashed" /\ fs[2] = "index"
          /\ fs[3] = "meta" /\ fs[4] = "verdict"
      BY DEF KeychainPlaces
    <3>2. Vault!Undo(w) = u
      BY <1>5, <2>3 DEF Vault!Undo
    <3> HIDE DEF fs
    <3>3. /\ u \in Seq(PlaceWrites) /\ u # <<>> /\ PutsBack(u, before) /\ WriteOnly(u, before, n)
          /\ \A f : Has(u, f) <=> \E i \in 1..4 : fs[i] = f
      <4>0. before \in Disks /\ fs \in Seq(KeychainPlaces) /\ Len(fs) >= 1
        BY <1>1, <3>1
      <4>1. /\ u \in Seq(PlaceWrites) /\ u # <<>>
            /\ PutsBack(u, before) /\ WriteOnly(u, before, n)
        BY <4>0, BackShape
      <4>2. /\ Len(u) = Len(fs)
            /\ \A i \in 1..Len(fs) : u[i].field = fs[i]
            /\ \A f : Has(u, f) <=> \E i \in 1..Len(fs) : fs[i] = f
        BY <1>1, <3>1, BackPlaces
      <4> QED
        BY <3>1, <4>1, <4>2
    <3> HIDE DEF u
    <3>4. /\ Has(u, "hashed") /\ Has(u, "index") /\ Has(u, "meta") /\ Has(u, "verdict")
          /\ ~Has(u, "legacy")
      <4>1. 1 \in 1..4 /\ 2 \in 1..4 /\ 3 \in 1..4 /\ 4 \in 1..4
            /\ \A i \in 1..4 : i = 1 \/ i = 2 \/ i = 3 \/ i = 4
        OBVIOUS
      <4> QED
        BY <3>1, <3>3, <4>1
    <3>5. e.legacy = before.legacy
      BY <1>3, <1>5, <2>1 DEF Storing
    <3>6. BackAgain(u, e, before)
      BY <3>4, <3>5 DEF BackAgain, KeychainPlaces
    <3>7. ToGo("store", "undo", u, e, before, allowed[n], n)
      BY <3>3, <3>4, <3>5 DEF ToGo
    <3> QED
      BY <1>5, <3>2, <3>3, <3>6, <3>7 DEF Undoing
  <2> QED
    BY <2>2, <2>3
<1>6. CASE op.kind = "delete"
  <2> DEFINE fs == <<"hashed", "index", "meta", "verdict", "legacy">>
             u == Vault!Back(fs)
  <2>1. fs \in Seq(KeychainPlaces) /\ Len(fs) = 5 /\ fs[1] = "hashed" /\ fs[2] = "index"
        /\ fs[3] = "meta" /\ fs[4] = "verdict" /\ fs[5] = "legacy"
    BY DEF KeychainPlaces
  <2>2. Vault!Undo(w) = u
    BY <1>6 DEF Vault!Undo
  <2> HIDE DEF fs
  <2>3. /\ u \in Seq(PlaceWrites) /\ u # <<>> /\ PutsBack(u, before) /\ WriteOnly(u, before, n)
        /\ \A f : Has(u, f) <=> \E i \in 1..5 : fs[i] = f
    <3>0. before \in Disks /\ fs \in Seq(KeychainPlaces) /\ Len(fs) >= 1
      BY <1>1, <2>1
    <3>1. /\ u \in Seq(PlaceWrites) /\ u # <<>>
          /\ PutsBack(u, before) /\ WriteOnly(u, before, n)
      BY <3>0, BackShape
    <3>2. /\ Len(u) = Len(fs)
          /\ \A i \in 1..Len(fs) : u[i].field = fs[i]
          /\ \A f : Has(u, f) <=> \E i \in 1..Len(fs) : fs[i] = f
      BY <1>1, <2>1, BackPlaces
    <3> QED
      BY <2>1, <3>1, <3>2
  <2> HIDE DEF u
  <2>4. /\ Has(u, "hashed") /\ Has(u, "index") /\ Has(u, "meta") /\ Has(u, "verdict")
        /\ Has(u, "legacy")
    <3>1. 1 \in 1..5 /\ 2 \in 1..5 /\ 3 \in 1..5 /\ 4 \in 1..5 /\ 5 \in 1..5
      OBVIOUS
    <3> QED
      BY <2>1, <2>3, <3>1
  <2>5. BackAgain(u, e, before)
    BY <2>4 DEF BackAgain, KeychainPlaces
  <2>6. ToGo("delete", "undo", u, e, before, allowed[n], n)
    BY <2>3 DEF ToGo
  <2> QED
    BY <1>6, <2>2, <2>3, <2>5, <2>6 DEF Undoing
<1>7. CASE op.kind = "migrate"
  <2>1. /\ Storing(t, disk, before, allowed[n], n) /\ w.field \notin {"meta", "verdict"}
        /\ disk.meta = before.meta /\ disk.verdict = before.verdict
    BY <1>2, <1>4, <1>7 DEF ToGo, Left, t
  <2>2. disk.legacy = before.legacy /\ (w.field = "hashed" => disk = before)
    BY <2>1 DEF Storing, t
  <2>3. CASE w.field = "hashed"
    <3> DEFINE fs == <<"hashed">>
               u == Vault!Back(fs)
    <3>1. fs \in Seq(KeychainPlaces) /\ Len(fs) = 1 /\ fs[1] = "hashed"
      BY DEF KeychainPlaces
    <3>2. Vault!Undo(w) = u
      BY <1>7, <2>3 DEF Vault!Undo
    <3> HIDE DEF fs
    <3>3. /\ u \in Seq(PlaceWrites) /\ u # <<>> /\ PutsBack(u, before) /\ WriteOnly(u, before, n)
          /\ Len(u) = 1 /\ \A i \in 1..1 : u[i].field = fs[i]
      <4>0. before \in Disks /\ fs \in Seq(KeychainPlaces) /\ Len(fs) >= 1
        BY <1>1, <3>1
      <4>1. /\ u \in Seq(PlaceWrites) /\ u # <<>>
            /\ PutsBack(u, before) /\ WriteOnly(u, before, n)
        BY <4>0, BackShape
      <4>2. /\ Len(u) = Len(fs)
            /\ \A i \in 1..Len(fs) : u[i].field = fs[i]
            /\ \A f : Has(u, f) <=> \E i \in 1..Len(fs) : fs[i] = f
        BY <1>1, <3>1, BackPlaces
      <4> QED
        BY <3>1, <4>1, <4>2
    <3> HIDE DEF u
    <3>4. u[1].field = "hashed"
      BY <3>1, <3>3
    <3>5. Has(u, "hashed")
      BY <3>3, <3>4 DEF Has
    <3>6. BackAgain(u, e, before)
      BY <1>3, <2>2, <2>3, <3>5 DEF BackAgain, KeychainPlaces
    <3>7. e.legacy = before.legacy
      BY <1>3, <2>2, <2>3
    <3>8. Unmigrating(u, e, before, n)
      BY <3>3, <3>4, <3>7 DEF Unmigrating
    <3>9. ToGo("migrate", "undo", u, e, before, allowed[n], n)
      BY <3>3, <3>8 DEF ToGo
    <3> QED
      BY <1>7, <3>2, <3>3, <3>6, <3>9 DEF Undoing
  <2>4. CASE w.field = "index"
    <3> DEFINE fs == <<"index", "hashed">>
               u == Vault!Back(fs)
    <3>1. fs \in Seq(KeychainPlaces) /\ Len(fs) = 2 /\ fs[1] = "index" /\ fs[2] = "hashed"
      BY DEF KeychainPlaces
    <3>2. Vault!Undo(w) = u
      BY <1>7, <2>4 DEF Vault!Undo
    <3> HIDE DEF fs
    <3>3. /\ u \in Seq(PlaceWrites) /\ u # <<>> /\ PutsBack(u, before) /\ WriteOnly(u, before, n)
          /\ Len(u) = 2 /\ \A i \in 1..2 : u[i].field = fs[i]
      <4>0. before \in Disks /\ fs \in Seq(KeychainPlaces) /\ Len(fs) >= 1
        BY <1>1, <3>1
      <4>1. /\ u \in Seq(PlaceWrites) /\ u # <<>>
            /\ PutsBack(u, before) /\ WriteOnly(u, before, n)
        BY <4>0, BackShape
      <4>2. /\ Len(u) = Len(fs)
            /\ \A i \in 1..Len(fs) : u[i].field = fs[i]
            /\ \A f : Has(u, f) <=> \E i \in 1..Len(fs) : fs[i] = f
        BY <1>1, <3>1, BackPlaces
      <4> QED
        BY <3>1, <4>1, <4>2
    <3> HIDE DEF u
    <3>4. u[1].field = "index" /\ u[2].field = "hashed"
      BY <3>1, <3>3
    <3>5. Has(u, "hashed") /\ Has(u, "index")
      BY <3>3, <3>4 DEF Has
    <3>6. BackAgain(u, e, before)
      BY <1>3, <2>1, <2>2, <2>4, <3>5 DEF BackAgain, KeychainPlaces
    <3>7. e.legacy = before.legacy
      BY <1>3, <2>2, <2>4
    <3>8. Unmigrating(u, e, before, n)
      BY <3>3, <3>4, <3>7 DEF Unmigrating
    <3>9. ToGo("migrate", "undo", u, e, before, allowed[n], n)
      BY <3>3, <3>8 DEF ToGo
    <3> QED
      BY <1>7, <3>2, <3>3, <3>6, <3>9 DEF Undoing
  <2>5. CASE w.field = "legacy" /\ before.index = disk.index
    <3> DEFINE fs == <<"legacy", "hashed">>
               u == Vault!Back(fs)
    <3>1. fs \in Seq(KeychainPlaces) /\ Len(fs) = 2 /\ fs[1] = "legacy" /\ fs[2] = "hashed"
      BY DEF KeychainPlaces
    <3>2. Vault!Undo(w) = u
      BY <1>7, <2>5 DEF Vault!Undo
    <3> HIDE DEF fs
    <3>3. /\ u \in Seq(PlaceWrites) /\ u # <<>> /\ PutsBack(u, before) /\ WriteOnly(u, before, n)
          /\ Len(u) = 2 /\ \A i \in 1..2 : u[i].field = fs[i]
      <4>0. before \in Disks /\ fs \in Seq(KeychainPlaces) /\ Len(fs) >= 1
        BY <1>1, <3>1
      <4>1. /\ u \in Seq(PlaceWrites) /\ u # <<>>
            /\ PutsBack(u, before) /\ WriteOnly(u, before, n)
        BY <4>0, BackShape
      <4>2. /\ Len(u) = Len(fs)
            /\ \A i \in 1..Len(fs) : u[i].field = fs[i]
            /\ \A f : Has(u, f) <=> \E i \in 1..Len(fs) : fs[i] = f
        BY <1>1, <3>1, BackPlaces
      <4> QED
        BY <3>1, <4>1, <4>2
    <3> HIDE DEF u
    <3>4. u[1].field = "legacy" /\ u[2].field = "hashed"
      BY <3>1, <3>3
    <3>5. Has(u, "hashed") /\ Has(u, "legacy")
      BY <3>3, <3>4 DEF Has
    <3>6. BackAgain(u, e, before)
      BY <1>3, <2>1, <2>5, <3>5 DEF BackAgain, KeychainPlaces
    <3>7. Unmigrating(u, e, before, n)
      BY <3>3, <3>4 DEF Unmigrating
    <3>8. ToGo("migrate", "undo", u, e, before, allowed[n], n)
      BY <3>3, <3>7 DEF ToGo
    <3> QED
      BY <1>7, <3>2, <3>3, <3>6, <3>8 DEF Undoing
  <2>6. CASE w.field = "legacy" /\ before.index # disk.index
    <3> DEFINE fs == <<"legacy", "index", "hashed">>
               u == Vault!Back(fs)
    <3>1. fs \in Seq(KeychainPlaces) /\ Len(fs) = 3 /\ fs[1] = "legacy" /\ fs[2] = "index"
            /\ fs[3] = "hashed"
      BY DEF KeychainPlaces
    <3>2. Vault!Undo(w) = u
      BY <1>7, <2>6 DEF Vault!Undo
    <3> HIDE DEF fs
    <3>3. /\ u \in Seq(PlaceWrites) /\ u # <<>> /\ PutsBack(u, before) /\ WriteOnly(u, before, n)
          /\ Len(u) = 3 /\ \A i \in 1..3 : u[i].field = fs[i]
      <4>0. before \in Disks /\ fs \in Seq(KeychainPlaces) /\ Len(fs) >= 1
        BY <1>1, <3>1
      <4>1. /\ u \in Seq(PlaceWrites) /\ u # <<>>
            /\ PutsBack(u, before) /\ WriteOnly(u, before, n)
        BY <4>0, BackShape
      <4>2. /\ Len(u) = Len(fs)
            /\ \A i \in 1..Len(fs) : u[i].field = fs[i]
            /\ \A f : Has(u, f) <=> \E i \in 1..Len(fs) : fs[i] = f
        BY <1>1, <3>1, BackPlaces
      <4> QED
        BY <3>1, <4>1, <4>2
    <3> HIDE DEF u
    <3>4. u[1].field = "legacy" /\ u[2].field = "index" /\ u[3].field = "hashed"
      BY <3>1, <3>3
    <3>5. Has(u, "hashed") /\ Has(u, "legacy") /\ Has(u, "index")
      BY <3>3, <3>4 DEF Has
    <3>6. BackAgain(u, e, before)
      BY <1>3, <2>1, <2>6, <3>5 DEF BackAgain, KeychainPlaces
    <3>7. Unmigrating(u, e, before, n)
      BY <3>3, <3>4 DEF Unmigrating
    <3>8. ToGo("migrate", "undo", u, e, before, allowed[n], n)
      BY <3>3, <3>7 DEF ToGo
    <3> QED
      BY <1>7, <3>2, <3>3, <3>6, <3>8 DEF Undoing
  <2> QED
    BY <1>2, <2>1, <2>3, <2>4, <2>5, <2>6 DEF KeychainPlaces
<1>8. CASE op.kind = "sidecar"
  BY <1>8 DEF Vault!Undo
<1> QED
  BY <1>1, <1>5, <1>6, <1>7, <1>8

\* A name that is in the index d has a value, unless it had none in b.
IndexKept(d, b, n) ==
    n \in d.index /\ Vault!Value(d, n) = Vault!Nothing =>
        n \in b.index /\ Vault!Value(b, n) = Vault!Nothing

\* Wherever a call ends that puts nothing back, its name is not left dangling.
LEMMA CommitIndex ==
    ASSUME NEW t \in Seq(PlaceWrites), t # <<>>, NEW d \in Disks, NEW b \in Disks, NEW n \in Names,
           NEW a \in SUBSET Entries,
           NEW k \in {"store", "delete", "migrate", "sidecar"},
           ToGo(k, "commit", t, d, b, a, n), Left(k, d, b, a, n),
           NEW e \in Disks, e = d \/ e = Put(d, t[1])
    PROVE  IndexKept(e, b, n)
<1>1. /\ t[1] \in PlaceWrites /\ Len(t) \in Nat /\ Len(t) >= 1 /\ 1 \in 1..Len(t)
      /\ t[1].field \in KeychainPlaces
  BY TailFacts, WriteFacts
<1>2. /\ e.hashed = d.hashed \/ (t[1].field = "hashed" /\ e.hashed = t[1].to)
      /\ e.legacy = d.legacy \/ (t[1].field = "legacy" /\ e.legacy = t[1].to)
      /\ e.index = d.index \/ (t[1].field = "index" /\ e.index = t[1].to)
      /\ t[1].field # "hashed" => e.hashed = d.hashed
  BY <1>1, PutFacts
<1>3. CASE k = "store"
  <2>1. Storing(t, d, b, a, n)
    BY <1>3 DEF ToGo
  <2>2. CASE t[1].field = "hashed"
    <3>1. d = b /\ t[1].to[n] # Vault!Nothing
      BY <1>1, <2>1, <2>2 DEF Storing
    <3> QED
      BY <1>2, <2>2, <3>1 DEF IndexKept, Vault!Value
  <2>3. CASE t[1].field # "hashed"
    BY <1>2, <2>1, <2>3 DEF Storing, IndexKept, Vault!Value
  <2> QED
    BY <2>2, <2>3
<1>4. CASE k = "delete"
  <2>1. Deleting(t, d, b, n)
    BY <1>4 DEF ToGo
  <2>2. CASE Has(t, "index")
    <3>1. t[1].field # "legacy" /\ t[1].field # "hashed"
      <4>1. PICK i \in 1..Len(t) : t[i].field = "index"
        BY <2>2 DEF Has
      <4>2. Len(t) > 1
        BY <1>1, <2>1, <4>1 DEF Deleting
      <4>3. t[1].field # "legacy"
        BY <1>1, <2>1, <4>2 DEF Deleting
      <4>4. t[1].field = "hashed" => Len(t) = 2
        <5>1. t[1].field = "hashed" => 1 = Len(t) - 1
          BY <1>1, <2>1 DEF Deleting
        <5> QED
          BY <1>1, <5>1
      <4>5. Len(t) = 2 => t[1].field = "hashed" /\ t[2].field = "legacy" /\ (i = 1 \/ i = 2)
        BY <2>1, <4>1 DEF Deleting
      <4> QED
        BY <4>1, <4>3, <4>4, <4>5
    <3>2. e.hashed = b.hashed /\ e.legacy = b.legacy
      BY <1>2, <2>1, <2>2, <3>1 DEF Deleting
    <3>3. n \in e.index => n \in b.index
      BY <1>1, <1>2, <2>1 DEF Deleting
    <3> QED
      BY <3>2, <3>3 DEF IndexKept, Vault!Value
  <2>3. CASE ~Has(t, "index")
    <3>1. n \notin e.index
      BY <1>1, <1>2, <2>1, <2>3 DEF Deleting
    <3> QED
      BY <3>1 DEF IndexKept
  <2> QED
    BY <2>2, <2>3
<1>5. CASE k = "migrate"
  <2>1. Left(k, e, b, a, n)
    BY LeftKept
  <2> QED
    BY <1>5, <2>1 DEF Left, IndexKept, Vault!Value
<1>6. CASE k = "sidecar"
  <2>1. Left(k, e, b, a, n)
    BY LeftKept
  <2> QED
    BY <1>6, <2>1 DEF Left, IndexKept, Vault!Value
<1> QED
  BY <1>3, <1>4, <1>5, <1>6

\* Whatever a call has made of its name, its value is accounted for.
LEMMA LeftAccounted ==
    ASSUME NEW d, NEW b, NEW n, NEW a,
           NEW k \in {"store", "delete", "migrate", "sidecar"}, Left(k, d, b, a, n),
           k = "delete" => Agree(b, n), Vault!Value(b, n) \in a
    PROVE  Vault!Value(d, n) \in a
<1>1. CASE k = "store"
  BY <1>1 DEF Left, Vault!Value
<1>2. CASE k = "delete"
  BY <1>2 DEF Left, Vault!Value, Agree
<1>3. CASE k = "migrate"
  BY <1>3 DEF Left, Vault!Value
<1>4. CASE k = "sidecar"
  BY <1>4 DEF Left, Vault!Value
<1> QED
  BY <1>1, <1>2, <1>3, <1>4

LEMMA LeftOld ==
    ASSUME NEW d, NEW b, NEW n, NEW a,
           NEW k \in {"store", "delete", "migrate", "sidecar"}, Left(k, d, b, a, n)
    PROVE  /\ d.legacy[n] \in {b.legacy[n], Vault!Nothing}
           /\ k \in {"migrate", "sidecar"} /\ Agree(b, n) => Agree(d, n)
<1>1. CASE k = "store"
  BY <1>1 DEF Left
<1>2. CASE k = "delete"
  BY <1>2 DEF Left
<1>3. CASE k = "migrate"
  BY <1>3 DEF Left, Agree
<1>4. CASE k = "sidecar"
  BY <1>4 DEF Left, Agree
<1> QED
  BY <1>1, <1>2, <1>3, <1>4

\* When a call has made its last write no entry disagrees that did not.
LEMMA LastWrite ==
    ASSUME NEW t \in Seq(PlaceWrites),
           t # <<>>, Len(t) = 1, NEW d \in Disks, NEW b \in Disks, NEW n \in Names,
           NEW a, NEW k \in {"store", "delete", "migrate", "sidecar"},
           ToGo(k, "commit", t, d, b, a, n), Left(k, d, b, a, n), Agree(b, n)
    PROVE  Agree(Put(d, t[1]), n)
<1> DEFINE e == Put(d, t[1])
<1>1. t # <<>> /\ t[1] \in PlaceWrites /\ 1 \in 1..Len(t)
  BY TailFacts
<1>2. /\ t[1].field = "legacy" => e.legacy = t[1].to
      /\ t[1].field \in {"meta", "verdict"} => e.hashed = d.hashed /\ e.legacy = d.legacy
  BY <1>1, PutFacts
<1> SUFFICES Agree(e, n)
  OBVIOUS
<1> HIDE DEF e
<1>3. CASE k \in {"store", "migrate"}
  <2>1. Storing(t, d, b, a, n)
    BY <1>3 DEF ToGo
  <2>2. t[1].field = "legacy" /\ t[1].to[n] = Vault!Nothing
    BY <1>1, <2>1 DEF Storing
  <2> QED
    BY <1>2, <2>2 DEF Agree
<1>4. CASE k = "delete"
  <2>1. Deleting(t, d, b, n)
    BY <1>4 DEF ToGo
  <2>2. t[1].field = "legacy" /\ t[1].to[n] = Vault!Nothing
    BY <1>1, <2>1 DEF Deleting
  <2> QED
    BY <1>2, <2>2 DEF Agree
<1>5. CASE k = "sidecar"
  <2>1. t[1].field \in {"meta", "verdict"}
    BY <1>5 DEF ToGo
  <2> QED
    BY <1>2, <1>5, <2>1 DEF Left, Agree
<1> QED
  BY <1>3, <1>4, <1>5

\* A step of the call under way, however it ends.
Stays ==
    LET n == op.name IN
    /\ disk' \in Disks /\ before' = before /\ check' = check
    /\ callFaults' \in 0..MaxFaults /\ callFaults <= callFaults'
    /\ Left(op.kind, disk', before, allowed[n], n)
    /\ OthersKept(disk', before, n)

\* The call goes on with the writes t.
GoesOn(stage, t, clean) ==
    LET n == op.name IN
    /\ op' = [op EXCEPT !.stage = stage, !.todo = t, !.clean = clean]
    /\ stage \in {"commit", "undo"} /\ clean \in BOOLEAN
    /\ t \in Seq(PlaceWrites) /\ t # <<>>
    /\ said' = said /\ allowed' = allowed
    /\ ToGo(op.kind, stage, t, disk', before, allowed[n], n)
    /\ WriteOnly(t, before, n)
    /\ stage = "undo" /\ clean = TRUE => BackAgain(t, disk', before)
    /\ stage = "undo" => callFaults' >= 1
    /\ clean = FALSE => callFaults' >= 2

\* The call is over: it was heard of, or it failed or died.
Ends ==
    LET n == op.name IN
    /\ op' = Vault!Idle
    /\ said' \in {"nothing", "ok", "failed", "restored", "incomplete"}
    /\ said' = "restored" => disk' = before
    /\ \/ allowed' = [allowed EXCEPT ![n] = {Vault!Value(disk', n)}]
       \/ allowed' = allowed /\ (op.kind = "delete" /\ MaxFaults <= 1 => callFaults = 0)
    /\ callFaults' = 0 /\ Agree(before, n) => Agree(disk', n)
    /\ Stores = FALSE \/ MaxFaults <= 1 => IndexKept(disk', before, n)

Steps == Stays /\ (Ends \/ \E stage, t, clean : GoesOn(stage, t, clean))

\* The call under way, as the step lemmas need it.
LEMMA CallFacts ==
    ASSUME KeychainInv, op # Vault!Idle
    PROVE  /\ disk \in Disks /\ before \in Disks /\ op.name \in Names
           /\ op.kind \in {"store", "delete", "migrate", "sidecar"}
                /\ op.stage \in {"commit", "undo"}
           /\ op.clean \in BOOLEAN
           /\ op.todo \in Seq(PlaceWrites) /\ op.todo # <<>> /\ Head(op.todo) = op.todo[1]
           /\ op.todo[1] \in PlaceWrites /\ op.todo[1].field \in KeychainPlaces
           /\ Len(op.todo) \in Nat /\ Len(op.todo) >= 1
           /\ allowed[op.name] \in SUBSET Entries
           /\ callFaults \in 0..MaxFaults
           /\ ToGo(op.kind, op.stage, op.todo, disk, before, allowed[op.name], op.name)
           /\ Left(op.kind, disk, before, allowed[op.name], op.name)
           /\ OthersKept(disk, before, op.name)
           /\ WriteOnly(op.todo, before, op.name)
           /\ op.stage = "undo" /\ op.clean = TRUE => BackAgain(op.todo, disk, before)
           /\ op.stage = "undo" => callFaults >= 1
           /\ op.clean = FALSE => callFaults >= 2
           /\ Stores = FALSE => op.kind \notin {"store", "delete"}
           /\ said = "nothing"
<1>1. CallShape /\ CallInv /\ said = "nothing"
  BY DEF KeychainInv, RestoredInv
<1>2. /\ disk \in Disks /\ before \in Disks /\ op.name \in Names
      /\ op.kind \in {"store", "delete", "migrate", "sidecar"} /\ op.stage \in {"commit", "undo"}
      /\ op.clean \in BOOLEAN
      /\ op.todo \in Seq(PlaceWrites) /\ op.todo # <<>>
      /\ allowed[op.name] \in SUBSET Entries
      /\ callFaults \in 0..MaxFaults
  BY <1>1 DEF CallShape, VaultCalls
<1>3. /\ Head(op.todo) = op.todo[1] /\ op.todo[1] \in PlaceWrites
      /\ Len(op.todo) \in Nat /\ Len(op.todo) >= 1
  BY <1>2, TailFacts
<1>4. op.todo[1].field \in KeychainPlaces
  BY <1>3, WriteFacts
<1> QED
  BY <1>1, <1>2, <1>3, <1>4 DEF CallInv

\* What a write that takes effect makes of the disk.
LEMMA NextWrite ==
    ASSUME KeychainInv, op # Vault!Idle
    PROVE  /\ Vault!WriteNext = Put(disk, op.todo[1]) /\ Vault!WriteNext \in Disks
           /\ Left(op.kind, Vault!WriteNext, before, allowed[op.name], op.name)
           /\ OthersKept(Vault!WriteNext, before, op.name)
<1>1. Vault!WriteNext = Put(disk, op.todo[1])
  BY CallFacts DEF Vault!WriteNext, Put
<1>2. Put(disk, op.todo[1]) \in Disks
  BY CallFacts, PutFacts
<1>3. Left(op.kind, Put(disk, op.todo[1]), before, allowed[op.name], op.name)
  BY CallFacts, LeftKept
<1>4. OthersKept(Put(disk, op.todo[1]), before, op.name)
  BY CallFacts, WriteKeeps
<1> QED
  BY <1>1, <1>2, <1>3, <1>4

LEMMA UndoIsBack ==
    ASSUME KeychainInv, op # Vault!Idle, op.stage = "undo"
    PROVE  PutsBack(op.todo, before) /\ op.kind \in {"store", "delete", "migrate"}
BY CallFacts DEF ToGo

LEMMA SucceedStep ==
    ASSUME Vault!KeychainAssumption, KeychainInv, Vault!Succeed
    PROVE  Steps
<1> DEFINE t == op.todo
           n == op.name
           a == allowed[op.name]
<1>1. /\ op # Vault!Idle /\ disk' = Vault!WriteNext /\ Vault!Advance(op.clean)
      /\ before' = before /\ check' = check /\ callFaults' = callFaults
  BY DEF Vault!Succeed
<1>2. /\ disk' = Put(disk, t[1]) /\ disk' \in Disks
      /\ Left(op.kind, disk', before, a, n) /\ OthersKept(disk', before, n)
  BY <1>1, NextWrite
<1>3. Stays
  BY <1>1, <1>2, CallFacts DEF Stays
<1>4. CASE Len(t) > 1
  <2>1. op' = [op EXCEPT !.todo = Tail(t), !.clean = op.clean] /\ said' = said /\ allowed' = allowed
    BY <1>1, <1>4 DEF Vault!Advance
  <2>2. op' = [op EXCEPT !.stage = op.stage, !.todo = Tail(t), !.clean = op.clean]
    <3>1. op \in VaultCalls
      BY DEF KeychainInv, CallShape
    <3> QED
      BY <2>1, <3>1 DEF VaultCalls
  <2>3. Tail(t) \in Seq(PlaceWrites) /\ Tail(t) # <<>>
    <3>1. t \in Seq(PlaceWrites) /\ t # <<>>
      BY <1>1, CallFacts
    <3>2. Tail(t) \in Seq(PlaceWrites) /\ (Len(t) = 1 \/ Tail(t) # <<>>)
      BY <3>1, TailFacts
    <3>3. Len(t) # 1
      <4>1. \A m \in Nat : m > 1 => m # 1
        OBVIOUS
      <4>2. Len(t) \in Nat
        BY <1>1, CallFacts
      <4> QED
        BY <1>4, <4>1, <4>2
    <3> QED
      BY <3>2, <3>3
  <2>4. ToGo(op.kind, op.stage, Tail(t), disk', before, a, n)
    BY <1>1, <1>2, <1>4, CallFacts, ToGoKept
  <2>5. WriteOnly(Tail(t), before, n)
    BY <1>1, CallFacts, WriteKeeps
  <2>6. op.stage = "undo" /\ op.clean = TRUE => BackAgain(Tail(t), disk', before)
    BY <1>1, <1>2, CallFacts, UndoIsBack, WriteKeeps
  <2>7. GoesOn(op.stage, Tail(t), op.clean)
    BY <1>1, <2>1, <2>2, <2>3, <2>4, <2>5, <2>6, CallFacts DEF GoesOn
  <2> QED
    BY <1>3, <2>7 DEF Steps
<1>5. CASE Len(t) = 1
  <2> DEFINE word == IF op.stage = "commit" THEN "ok"
                    ELSE IF op.clean THEN "restored" ELSE "incomplete"
  <2>1. Vault!Finish(word)
    BY <1>1, <1>5 DEF Vault!Advance
  <2>2. /\ op' = Vault!Idle /\ said' = word
        /\ word \in {"ok", "restored"} => allowed' = [allowed EXCEPT ![n] = {Vault!Value(disk', n)}]
        /\ word = "incomplete" => allowed' = allowed
    BY <2>1 DEF Vault!Finish
  <2>3. op.stage = "undo" /\ op.clean = TRUE => disk' = before
    BY <1>1, <1>2, <1>5, CallFacts, UndoIsBack, WriteKeeps
  <2>4. word = "restored" => disk' = before
    BY <1>1, <2>3, CallFacts
  <2>5. word = "incomplete" => callFaults >= 2
    BY <1>1, CallFacts
  <2>6. word \in {"ok", "restored", "incomplete"}
    OBVIOUS
  <2>7. callFaults' = 0 /\ Agree(before, n) => Agree(disk', n)
    <3> SUFFICES ASSUME callFaults = 0, Agree(before, n)
                 PROVE  Agree(disk', n)
      BY <1>1
    <3>1. op.stage = "commit"
      BY <1>1, CallFacts
    <3> QED
      BY <1>1, <1>2, <1>5, <3>1, CallFacts, LastWrite
  <2>8. Stores = FALSE \/ MaxFaults <= 1 => IndexKept(disk', before, n)
    <3>1. CASE op.stage = "commit"
      BY <1>1, <1>2, <3>1, CallFacts, CommitIndex
    <3>2. CASE op.stage = "undo" /\ op.kind = "migrate"
      BY <1>2, <3>2 DEF Left, IndexKept, Vault!Value
    <3>3. CASE op.stage = "undo" /\ op.clean = TRUE
      BY <2>3, <3>3 DEF IndexKept
    <3>4. CASE op.stage = "undo" /\ op.clean = FALSE /\ op.kind # "migrate"
      <4>1. callFaults >= 2 /\ callFaults \in 0..MaxFaults
        BY <1>1, <3>4, CallFacts
      <4>2. ~(MaxFaults <= 1)
        BY <4>1 DEF Vault!KeychainAssumption
      <4>3. Stores # FALSE
        BY <1>1, <3>4, CallFacts, UndoIsBack
      <4> QED
        BY <4>2, <4>3
    <3> QED
      BY <1>1, <3>1, <3>2, <3>3, <3>4, CallFacts
  <2> HIDE DEF word
  <2>9. op.kind = "delete" /\ MaxFaults <= 1 /\ word = "incomplete" => callFaults = 0
    BY <1>1, <2>5, CallFacts DEF Vault!KeychainAssumption
  <2>10. Ends
    BY <2>2, <2>4, <2>6, <2>7, <2>8, <2>9 DEF Ends
  <2> QED
    BY <1>3, <2>10 DEF Steps
<1>6. t \in Seq(PlaceWrites) /\ t # <<>>
  BY <1>1, CallFacts
<1>7. Len(t) > 1 \/ Len(t) = 1
  BY <1>6, TailFacts
<1> QED
  BY <1>4, <1>5, <1>7

\* What a failing write may have left.
LEMMA FailingFacts ==
    ASSUME Vault!KeychainAssumption, KeychainInv, NEW effect, Vault!Failing(effect)
    PROVE  /\ op # Vault!Idle /\ Stays /\ callFaults < MaxFaults /\ callFaults' = callFaults + 1
           /\ callFaults' >= 1 /\ callFaults \in Nat
           /\ disk' = disk \/ disk' = Put(disk, op.todo[1])
<1>1. /\ op # Vault!Idle /\ callFaults < MaxFaults /\ callFaults' = callFaults + 1
      /\ disk' = disk \/ disk' = Vault!WriteNext
      /\ before' = before /\ check' = check
  BY DEF Vault!Failing
<1>2. /\ disk' \in Disks
      /\ Left(op.kind, disk', before, allowed[op.name], op.name)
      /\ OthersKept(disk', before, op.name)
      /\ disk' = disk \/ disk' = Put(disk, op.todo[1])
  BY <1>1, CallFacts, NextWrite
<1>3. callFaults \in 0..MaxFaults /\ MaxFaults \in Nat
  BY <1>1, CallFacts DEF Vault!KeychainAssumption
<1>4. callFaults' \in 0..MaxFaults /\ callFaults <= callFaults' /\ callFaults' >= 1
        /\ callFaults \in Nat
  BY <1>1, <1>3
<1> QED
  BY <1>1, <1>2, <1>4 DEF Stays

LEMMA FailUnseenStep ==
    ASSUME Vault!KeychainAssumption, KeychainInv, NEW effect, Vault!FailUnseen(effect)
    PROVE  Steps
<1> DEFINE t == op.todo
           n == op.name
<1>1. /\ op.stage = "commit" /\ op.kind = "store" /\ t[1].field = "legacy"
      /\ Vault!Advance(op.clean) /\ Vault!Failing(effect) /\ op # Vault!Idle
  <2>1. Vault!Failing(effect) /\ Head(t).field = "legacy"
    BY DEF Vault!FailUnseen
  <2> QED
    BY <2>1, FailingFacts, CallFacts DEF Vault!FailUnseen
<1>2. Storing(t, disk, before, allowed[n], n)
  BY <1>1, CallFacts DEF ToGo
<1>3. t \in Seq(PlaceWrites) /\ t # <<>>
  BY <1>1, CallFacts
<1>4. 1 \in 1..Len(t)
  <2> HIDE DEF t
  <2> QED
    BY <1>3, TailFacts
<1>5. 1 = Len(t)
  BY <1>1, <1>2, <1>4 DEF Storing
<1>6. Vault!Finish("ok")
  <2>1. ~(Len(t) > 1)
    <3>1. ~(1 > 1)
      OBVIOUS
    <3> QED
      BY <1>5, <3>1
  <2> QED
    BY <1>1, <2>1 DEF Vault!Advance
<1>7. op' = Vault!Idle /\ said' = "ok" /\ allowed' = [allowed EXCEPT ![n] = {Vault!Value(disk', n)}]
  BY <1>6 DEF Vault!Finish
<1>8. IndexKept(disk', before, n)
  <2>1. disk' \in Disks /\ (disk' = disk \/ disk' = Put(disk, t[1]))
    BY <1>1, FailingFacts DEF Stays
  <2> QED
    BY <1>1, <2>1, CallFacts, CommitIndex
<1>9. Stays /\ callFaults' # 0
  BY <1>1, FailingFacts
<1>10. Ends
  BY <1>7, <1>8, <1>9 DEF Ends
<1> QED
  BY <1>9, <1>10 DEF Steps

LEMMA FailStep ==
    ASSUME Vault!KeychainAssumption, KeychainInv, NEW effect, Vault!Fail(effect)
    PROVE  Steps
<1> DEFINE t == op.todo
           n == op.name
<1>0. op # Vault!Idle
  BY DEF Vault!Fail
<1> DEFINE w == t[1]
<1>1. /\ op.stage = "commit" /\ ~(op.kind = "store" /\ w.field = "legacy") /\ Vault!Failing(effect)
      /\ Vault!Undo(w) = <<>> => Vault!Finish("failed")
      /\ Vault!Undo(w) # <<>> =>
            /\ op' = [op EXCEPT !.stage = "undo", !.todo = Vault!Undo(w)]
            /\ said' = said /\ allowed' = allowed
  BY <1>0, CallFacts DEF Vault!Fail
<1>2. /\ Stays /\ callFaults < MaxFaults /\ callFaults' >= 1 /\ callFaults' = callFaults + 1
           /\ callFaults \in Nat
      /\ disk' \in Disks /\ (disk' = disk \/ disk' = Put(disk, w))
  BY <1>1, FailingFacts DEF Stays
<1>3. PICK e \in Disks : e = disk' /\ (e = disk \/ e = Put(disk, w))
  BY <1>2
<1>4. PICK v : v = w
  OBVIOUS
<1>5. PICK m : m = n
  OBVIOUS
<1>6. \/ Vault!Undo(w) = <<>> /\ op.kind # "delete"
      \/ Undoing(Vault!Undo(w), e, n)
  <2>1. CallShape /\ CallInv
    BY DEF KeychainInv
  <2>2. e = disk \/ e = Put(disk, v)
    BY <1>3, <1>4
  <2>3. ~(op.kind = "store" /\ v.field = "legacy")
    BY <1>1, <1>4
  <2>4. \/ Vault!Undo(v) = <<>> /\ op.kind # "delete"
        \/ Undoing(Vault!Undo(v), e, m)
    BY <1>0, <1>1, <1>4, <1>5, <2>1, <2>2, <2>3, UndoFacts
  <2> QED
    BY <2>4, <1>4, <1>5
<1>7. CASE Vault!Undo(w) = <<>> /\ op.kind # "delete"
  <2>1. op' = Vault!Idle /\ said' = "failed" /\ allowed' = allowed
    BY <1>1, <1>7 DEF Vault!Finish
  <2>2. IndexKept(disk', before, n)
    BY <1>0, <1>1, <1>2, CallFacts, CommitIndex
  <2>3. Ends
    BY <1>2, <1>7, <2>1, <2>2 DEF Ends
  <2> QED
    BY <1>2, <2>3 DEF Steps
<1>8. CASE Undoing(Vault!Undo(w), e, n)
  <2>1. /\ Vault!Undo(w) \in Seq(PlaceWrites) /\ Vault!Undo(w) # <<>>
        /\ ToGo(op.kind, "undo", Vault!Undo(w), disk', before, allowed[n], n)
        /\ WriteOnly(Vault!Undo(w), before, n)
        /\ BackAgain(Vault!Undo(w), disk', before)
    BY <1>3, <1>8 DEF Undoing
  <2>2. op' = [op EXCEPT !.stage = "undo", !.todo = Vault!Undo(w)] /\ said' = said
          /\ allowed' = allowed
    BY <1>1, <2>1
  <2>3. op' = [op EXCEPT !.stage = "undo", !.todo = Vault!Undo(w), !.clean = op.clean]
    <3>1. op \in VaultCalls
      BY DEF KeychainInv, CallShape
    <3> HIDE DEF w
    <3> QED
      BY <2>2, <3>1 DEF VaultCalls
  <2>4. op.clean = FALSE => callFaults' >= 2
    <3>1. op.clean = FALSE => callFaults >= 2
      BY <1>0, CallFacts
    <3> QED
      BY <1>2, <3>1
  <2>5. GoesOn("undo", Vault!Undo(w), op.clean)
    BY <1>0, <1>2, <2>1, <2>2, <2>3, <2>4, CallFacts DEF GoesOn
  <2> QED
    BY <1>2, <2>5 DEF Steps
<1> QED
  BY <1>6, <1>7, <1>8

LEMMA FailUndoStep ==
    ASSUME Vault!KeychainAssumption, KeychainInv, NEW effect, Vault!FailUndo(effect)
    PROVE  Steps
<1> DEFINE t == op.todo
           n == op.name
           a == allowed[op.name]
<1>1. /\ op # Vault!Idle /\ op.stage = "undo" /\ Vault!Failing(effect)
      /\ op.kind = "migrate" => Vault!Finish("incomplete")
      /\ op.kind # "migrate" => Vault!Advance(FALSE)
  BY DEF Vault!FailUndo
<1>2. /\ Stays /\ callFaults < MaxFaults /\ callFaults' = callFaults + 1 /\ callFaults \in Nat
      /\ disk' \in Disks /\ (disk' = disk \/ disk' = Put(disk, t[1]))
      /\ Left(op.kind, disk', before, a, n)
  BY <1>1, FailingFacts DEF Stays
<1>3. callFaults >= 1 /\ callFaults' >= 2 /\ callFaults' # 0 /\ ~(MaxFaults <= 1)
  <2>1. callFaults >= 1 /\ MaxFaults \in Nat
    BY <1>1, CallFacts DEF Vault!KeychainAssumption
  <2> QED
    BY <1>2, <2>1
<1>4. CASE op.kind = "migrate"
  <2>1. op' = Vault!Idle /\ said' = "incomplete" /\ allowed' = allowed
    BY <1>1, <1>4 DEF Vault!Finish
  <2>2. IndexKept(disk', before, n)
    BY <1>2, <1>4 DEF Left, IndexKept, Vault!Value
  <2>3. Ends
    BY <1>3, <1>4, <2>1, <2>2 DEF Ends
  <2> QED
    BY <1>2, <2>3 DEF Steps
<1>5. CASE op.kind # "migrate" /\ Len(t) > 1
  <2>1. op' = [op EXCEPT !.todo = Tail(t), !.clean = FALSE] /\ said' = said /\ allowed' = allowed
    BY <1>1, <1>5 DEF Vault!Advance
  <2>2. op' = [op EXCEPT !.stage = "undo", !.todo = Tail(t), !.clean = FALSE]
    <3>1. op \in VaultCalls
      BY DEF KeychainInv, CallShape
    <3> QED
      BY <1>1, <2>1, <3>1 DEF VaultCalls
  <2>3. Tail(t) \in Seq(PlaceWrites) /\ Tail(t) # <<>>
    <3>1. t \in Seq(PlaceWrites) /\ t # <<>>
      BY <1>1, CallFacts
    <3>2. Tail(t) \in Seq(PlaceWrites) /\ (Len(t) = 1 \/ Tail(t) # <<>>)
      BY <3>1, TailFacts
    <3>3. Len(t) # 1
      <4>1. \A i \in Nat : i > 1 => i # 1
        OBVIOUS
      <4>2. Len(t) \in Nat
        BY <1>1, CallFacts
      <4> QED
        BY <1>5, <4>1, <4>2
    <3> QED
      BY <3>2, <3>3
  <2>4. ToGo(op.kind, "undo", Tail(t), disk', before, a, n)
    <3>1. CASE disk' = Put(disk, t[1])
      BY <1>1, <1>5, <3>1, CallFacts, ToGoKept
    <3>2. CASE disk' = disk
      BY <1>1, <1>5, <3>2, CallFacts, UndoIsBack, ToGoSkipped
    <3> QED
      BY <1>2, <3>1, <3>2
  <2>5. WriteOnly(Tail(t), before, n)
    BY <1>1, CallFacts, WriteKeeps
  <2>6. GoesOn("undo", Tail(t), FALSE)
    <3>1. callFaults' >= 1 /\ TRUE # FALSE
      BY <1>2, <1>3
    <3> QED
      BY <1>3, <2>1, <2>2, <2>3, <2>4, <2>5, <3>1 DEF GoesOn
  <2> QED
    BY <1>2, <2>6 DEF Steps
<1>6. CASE op.kind # "migrate" /\ Len(t) = 1
  <2>1. Vault!Finish("incomplete")
    BY <1>1, <1>6 DEF Vault!Advance
  <2>2. op' = Vault!Idle /\ said' = "incomplete" /\ allowed' = allowed
    BY <2>1 DEF Vault!Finish
  <2>3. Stores # FALSE
    BY <1>1, <1>6, CallFacts, UndoIsBack
  <2>4. Ends
    BY <1>3, <2>2, <2>3 DEF Ends
  <2> QED
    BY <1>2, <2>4 DEF Steps
<1>7. t \in Seq(PlaceWrites) /\ t # <<>>
  BY <1>1, CallFacts
<1>8. Len(t) > 1 \/ Len(t) = 1
  BY <1>7, TailFacts
<1> QED
  BY <1>4, <1>5, <1>6, <1>8

LEMMA DieStep ==
    ASSUME Vault!KeychainAssumption, KeychainInv, Vault!Die
    PROVE  Steps
<1> DEFINE n == op.name
<1>1. /\ op # Vault!Idle /\ callFaults < MaxFaults /\ callFaults' = callFaults + 1
           /\ op' = Vault!Idle
      /\ disk' = disk /\ before' = before /\ said' = said /\ allowed' = allowed /\ check' = check
  BY DEF Vault!Die
<1>2. callFaults \in 0..MaxFaults /\ MaxFaults \in Nat
  BY <1>1, CallFacts DEF Vault!KeychainAssumption
<1>3. /\ callFaults' \in 0..MaxFaults /\ callFaults <= callFaults' /\ callFaults' # 0
      /\ MaxFaults <= 1 => callFaults = 0
  BY <1>1, <1>2
<1>4. Stays
  BY <1>1, <1>3, CallFacts DEF Stays
<1>5. Stores = FALSE \/ MaxFaults <= 1 => IndexKept(disk', before, n)
  <2>1. CASE op.stage = "commit"
    BY <1>1, <2>1, CallFacts, CommitIndex
  <2>2. CASE op.stage = "undo" /\ op.kind = "migrate"
    <3>1. Left("migrate", disk', before, allowed[n], n)
      BY <1>1, <2>2, CallFacts
    <3> QED
      BY <3>1 DEF Left, IndexKept, Vault!Value
  <2>3. CASE op.stage = "undo" /\ op.kind # "migrate"
    <3>1. callFaults >= 1 /\ Stores # FALSE
      BY <1>1, <2>3, CallFacts, UndoIsBack
    <3>2. callFaults # 0
      BY <1>2, <3>1
    <3> QED
      BY <1>3, <3>1, <3>2
  <2> QED
    BY <1>1, <2>1, <2>2, <2>3, CallFacts
<1>6. Ends
  BY <1>1, <1>3, <1>5, CallFacts DEF Ends
<1> QED
  BY <1>4, <1>6 DEF Steps

LEMMA GoesOnCall ==
    ASSUME KeychainInv, op # Vault!Idle, NEW stage, NEW t, NEW clean, GoesOn(stage, t, clean)
    PROVE  /\ op' \in VaultCalls /\ op' # Vault!Idle /\ op'.todo = t /\ op'.todo # <<>>
           /\ op'.kind = op.kind /\ op'.name = op.name /\ op'.stage = stage /\ op'.clean = clean
           /\ Found = before /\ Found' = before'
<1>1. op \in VaultCalls
  BY DEF KeychainInv, CallShape
<1>2. /\ op' = [op EXCEPT !.stage = stage, !.todo = t, !.clean = clean]
      /\ stage \in {"commit", "undo"} /\ clean \in BOOLEAN
      /\ t \in Seq(PlaceWrites) /\ t # <<>>
  BY DEF GoesOn
<1>3. /\ op' \in VaultCalls /\ op'.todo = t
      /\ op'.kind = op.kind /\ op'.name = op.name /\ op'.stage = stage /\ op'.clean = clean
  BY <1>1, <1>2 DEF VaultCalls
<1>4. Vault!Idle.todo = <<>>
  BY DEF Vault!Idle
<1>5. op' # Vault!Idle
  BY <1>2, <1>3, <1>4
<1> QED
  BY <1>2, <1>3, <1>5 DEF Found

\* A step of the call keeps the invariant.
LEMMA StepsKeep ==
    ASSUME KeychainInv, op # Vault!Idle, Steps
    PROVE  KeychainInv'
<1> DEFINE n == op.name
<1>1. /\ disk' \in Disks /\ before' = before /\ check' = check /\ before \in Disks
      /\ callFaults' \in 0..MaxFaults /\ callFaults <= callFaults' /\ callFaults \in 0..MaxFaults
      /\ Left(op.kind, disk', before, allowed[n], n)
      /\ OthersKept(disk', before, n)
      /\ n \in Names /\ op.kind \in {"store", "delete", "migrate", "sidecar"}
      /\ Found = before
  BY CallFacts DEF Steps, Stays, Found
<1>2. /\ check \in Checks /\ (check.at # "idle" => check.name \in Names)
      /\ allowed \in [Names -> SUBSET Entries]
      /\ said = "nothing" /\ (Stores = FALSE => op.kind \notin {"store", "delete"})
  BY CallFacts DEF KeychainInv, CallShape
<1>3. /\ LegacyNames = {} => \A m \in Names : before.legacy[m] = Vault!Nothing
      /\ callFaults = 0 \/ Stores = FALSE => \A m \in Names : Agree(before, m)
  BY <1>1 DEF KeychainInv, AgreeInv
<1>4. callFaults' = 0 => callFaults = 0
  BY <1>1
<1>5. ASSUME NEW stage, NEW t, NEW clean, GoesOn(stage, t, clean)
      PROVE  KeychainInv'
  <2>1. /\ op' \in VaultCalls /\ op' # Vault!Idle /\ op'.todo = t /\ op'.todo # <<>>
        /\ op'.kind = op.kind /\ op'.name = n /\ op'.stage = stage /\ op'.clean = clean
        /\ Found' = before
    BY <1>1, <1>5, GoesOnCall
  <2>2. /\ said' = said /\ allowed' = allowed
        /\ ToGo(op.kind, stage, t, disk', before, allowed[n], n)
        /\ WriteOnly(t, before, n)
        /\ stage = "undo" /\ clean = TRUE => BackAgain(t, disk', before)
        /\ stage = "undo" => callFaults' >= 1
        /\ clean = FALSE => callFaults' >= 2
    BY <1>5 DEF GoesOn
  <2>3. CallShape'
    BY <1>1, <1>2, <2>1, <2>2 DEF CallShape
  <2>4. CallInv'
    BY <1>1, <1>2, <2>1, <2>2 DEF CallInv
  <2>5. RestoredInv'
    BY <1>2, <2>2 DEF RestoredInv
  <2>6. AgreeInv'
    BY <1>3, <1>4, <2>1 DEF AgreeInv
  <2> QED
    BY <2>3, <2>4, <2>5, <2>6 DEF KeychainInv
<1>6. ASSUME Ends
      PROVE  KeychainInv'
  <2>1. /\ op' = Vault!Idle
        /\ said' \in {"nothing", "ok", "failed", "restored", "incomplete"}
        /\ said' = "restored" => disk' = before
        /\ \/ allowed' = [allowed EXCEPT ![n] = {Vault!Value(disk', n)}]
           \/ allowed' = allowed
        /\ callFaults' = 0 /\ Agree(before, n) => Agree(disk', n)
    BY <1>6 DEF Ends
  <2>2. Found' = disk'
    BY <2>1 DEF Found
  <2>3. Vault!Value(disk', n) \in Entries
    BY <1>1 DEF Vault!Value, Disks
  <2>4. CallShape'
    <3>1. Vault!Idle \in VaultCalls /\ Vault!Idle.todo = <<>> /\ Vault!Idle.kind = "idle"
      BY DEF Vault!Idle, VaultCalls
    <3>2. allowed' \in [Names -> SUBSET Entries]
      BY <1>1, <1>2, <2>1, <2>3
    <3> QED
      BY <1>1, <1>2, <2>1, <3>1, <3>2 DEF CallShape
  <2>5. CallInv'
    BY <2>1 DEF CallInv
  <2>6. RestoredInv'
    BY <1>1, <2>1 DEF RestoredInv
  <2>7. \A m \in Names : disk'.legacy[m] \in {before.legacy[m], Vault!Nothing}
    BY <1>1, LeftOld DEF OthersKept
  <2>8. ASSUME callFaults' = 0 \/ Stores = FALSE, NEW m \in Names
        PROVE  Agree(disk', m)
    <3>1. Agree(before, m)
      BY <1>3, <1>4, <2>8
    <3>2. CASE m # n
      BY <1>1, <3>1, <3>2 DEF OthersKept, Agree
    <3>3. CASE m = n /\ callFaults' = 0
      BY <2>1, <3>1, <3>3
    <3>4. CASE m = n /\ Stores = FALSE
      BY <1>1, <1>2, <3>1, <3>4, LeftOld
    <3> QED
      BY <2>8, <3>2, <3>3, <3>4
  <2>9. AgreeInv'
    BY <1>3, <2>2, <2>7, <2>8 DEF AgreeInv
  <2> QED
    BY <2>4, <2>5, <2>6, <2>9 DEF KeychainInv
<1> QED
  BY <1>5, <1>6 DEF Steps

\* Where the keychain keeps the values of its names accounted for, and where it
\* leaves no name dangling.
Accountable == LegacyNames = {} \/ Stores = FALSE \/ MaxFaults <= 1

Anchored == Stores = FALSE \/ MaxFaults <= 1

LEMMA StepsAccount ==
    ASSUME KeychainInv, op # Vault!Idle, Steps, AccountInv, Accountable
    PROVE  AccountInv'
<1> DEFINE n == op.name
<1>1. /\ before' = before /\ n \in Names /\ op.kind \in {"store", "delete", "migrate", "sidecar"}
      /\ Left(op.kind, disk', before, allowed[n], n)
      /\ OthersKept(disk', before, n)
      /\ Found = before
  BY CallFacts DEF Steps, Stays, Found
<1>2. \A m \in Names : Vault!Value(before, m) \in allowed[m]
  BY <1>1 DEF AccountInv
<1>3. ASSUME NEW stage, NEW t, NEW clean, GoesOn(stage, t, clean)
      PROVE  AccountInv'
  <2>1. Found' = before /\ allowed' = allowed
    BY <1>1, <1>3, GoesOnCall DEF GoesOn
  <2> QED
    BY <1>2, <2>1 DEF AccountInv
<1>4. ASSUME Ends
      PROVE  AccountInv'
  <2>1. /\ op' = Vault!Idle
        /\ \/ allowed' = [allowed EXCEPT ![n] = {Vault!Value(disk', n)}]
           \/ allowed' = allowed /\ (op.kind = "delete" /\ MaxFaults <= 1 => callFaults = 0)
    BY <1>4 DEF Ends
  <2>2. Found' = disk'
    BY <2>1 DEF Found
  <2>3. \A m \in Names \ {n} : Vault!Value(disk', m) = Vault!Value(before, m)
    BY <1>1 DEF OthersKept, Vault!Value
  <2>4. allowed \in [Names -> SUBSET Entries]
    BY DEF KeychainInv, CallShape
  <2>5. CASE allowed' = [allowed EXCEPT ![n] = {Vault!Value(disk', n)}]
    <3>1. \A m \in Names : Vault!Value(disk', m) \in allowed'[m]
      BY <1>1, <1>2, <2>3, <2>4, <2>5
    <3> QED
      BY <2>2, <3>1 DEF AccountInv
  <2>6. CASE allowed' = allowed /\ (op.kind = "delete" /\ MaxFaults <= 1 => callFaults = 0)
    <3>1. op.kind = "delete" => Agree(before, n)
      <4>1. CASE LegacyNames = {}
        BY <1>1, <4>1 DEF KeychainInv, AgreeInv, Agree
      <4>2. CASE Stores = FALSE
        BY <4>2, CallFacts
      <4>3. CASE MaxFaults <= 1
        BY <1>1, <2>6, <4>3 DEF KeychainInv, AgreeInv
      <4> QED
        BY <4>1, <4>2, <4>3 DEF Accountable
    <3>2. Vault!Value(disk', n) \in allowed[n]
      BY <1>1, <1>2, <3>1, LeftAccounted
    <3> QED
      BY <1>2, <2>2, <2>3, <2>6, <3>2 DEF AccountInv
  <2> QED
    BY <2>1, <2>5, <2>6
<1> QED
  BY <1>3, <1>4 DEF Steps

LEMMA StepsIndex ==
    ASSUME KeychainInv, op # Vault!Idle, Steps, IndexInv, Anchored
    PROVE  IndexInv'
<1> DEFINE n == op.name
<1>1. /\ before' = before /\ disk' \in Disks /\ OthersKept(disk', before, n) /\ Found = before
  BY CallFacts DEF Steps, Stays, Found
<1>2. \A m \in before.index : Vault!Value(before, m) # Vault!Nothing
  BY <1>1 DEF IndexInv
<1>3. ASSUME NEW stage, NEW t, NEW clean, GoesOn(stage, t, clean)
      PROVE  IndexInv'
  <2>1. Found' = before
    BY <1>1, <1>3, GoesOnCall
  <2> QED
    BY <1>2, <2>1 DEF IndexInv
<1>4. ASSUME Ends
      PROVE  IndexInv'
  <2>1. op' = Vault!Idle /\ IndexKept(disk', before, n)
    BY <1>4 DEF Ends, Anchored
  <2>2. Found' = disk'
    BY <2>1 DEF Found
  <2>3. ASSUME NEW m \in disk'.index
        PROVE  Vault!Value(disk', m) # Vault!Nothing
    <3>1. m \in Names
      BY <1>1 DEF Disks
    <3>2. CASE m = n
      BY <1>2, <2>1, <3>2 DEF IndexKept
    <3>3. CASE m # n
      BY <1>1, <1>2, <3>1, <3>3 DEF OthersKept, Vault!Value
    <3> QED
      BY <3>2, <3>3
  <2> QED
    BY <2>2, <2>3 DEF IndexInv
<1> QED
  BY <1>3, <1>4 DEF Steps

\* A call that begins keeps everything: it has not written yet.
LEMMA StartKeeps ==
    ASSUME KeychainInv, NEW k \in {"store", "delete", "migrate", "sidecar"}, NEW n \in Names, NEW t,
           NEW v \in Entries, Vault!Start(k, n, t, v), Begun(k, t, {Vault!Value(disk, n), v}, n),
           Left(k, disk, disk, {Vault!Value(disk, n), v}, n),
           Stores = FALSE => k \notin {"store", "delete"},
           check' \in Checks, check'.at # "idle" => check'.name \in Names
    PROVE  KeychainInv' /\ (AccountInv => AccountInv') /\ (IndexInv => IndexInv')
<1> DEFINE a == {Vault!Value(disk, n), v}
<1>1. /\ op = Vault!Idle /\ op' = [Vault!Idle EXCEPT !.kind = k, !.name = n, !.todo = t]
      /\ before' = disk /\ said' = "nothing" /\ allowed' = [allowed EXCEPT ![n] = a]
      /\ disk' = disk /\ callFaults' = callFaults
  BY DEF Vault!Start
<1>2. /\ disk \in Disks /\ allowed \in [Names -> SUBSET Entries] /\ callFaults \in 0..MaxFaults
      /\ Vault!Value(disk, n) \in Entries
  BY DEF KeychainInv, CallShape, Vault!Value, Disks
<1>3. t \in Seq(PlaceWrites)
        /\ t # <<>> /\ ToGo(k, "commit", t, disk, disk, a, n) /\ WriteOnly(t, disk, n)
  BY DEF Begun
<1>4. op' = [kind |-> k, name |-> n, stage |-> "commit", todo |-> t, clean |-> TRUE]
  BY <1>1 DEF Vault!Idle
<1>5. /\ op' \in VaultCalls /\ op'.kind = k /\ op'.name = n /\ op'.stage = "commit"
      /\ op'.todo = t /\ op'.clean = TRUE
  BY <1>3, <1>4 DEF VaultCalls
<1>6. op' # Vault!Idle
  BY <1>5 DEF Vault!Idle
<1>7. Found = disk /\ Found' = disk
  BY <1>1, <1>6 DEF Found
<1>8. allowed' \in [Names -> SUBSET Entries] /\ allowed'[n] = a
  BY <1>1, <1>2
<1> HIDE DEF a
<1>9. CallShape'
  BY <1>1, <1>2, <1>3, <1>5, <1>6, <1>8 DEF CallShape
<1>10. OthersKept(disk, disk, n)
  BY DEF OthersKept
<1>11. CallInv'
  <2>1. Left(k, disk, disk, a, n)
    BY DEF a
  <2> QED
    BY <1>1, <1>3, <1>5, <1>8, <1>10, <2>1 DEF CallInv
<1>12. RestoredInv'
  BY <1>1 DEF RestoredInv
<1>13. AgreeInv'
  BY <1>1, <1>7 DEF KeychainInv, AgreeInv
<1>14. AccountInv => AccountInv'
  <2> SUFFICES ASSUME AccountInv, NEW m \in Names
               PROVE  Vault!Value(disk, m) \in allowed'[m]
    BY <1>7 DEF AccountInv
  <2>1. CASE m = n
    BY <1>8, <2>1 DEF a
  <2>2. CASE m # n
    BY <1>1, <1>2, <1>7, <2>2 DEF AccountInv
  <2> QED
    BY <2>1, <2>2
<1>15. IndexInv => IndexInv'
  BY <1>7 DEF IndexInv
<1> QED
  BY <1>9, <1>11, <1>12, <1>13, <1>14, <1>15 DEF KeychainInv

\* A step of the validation alone.
LEMMA CheckKeeps ==
    ASSUME KeychainInv, UNCHANGED <<disk, op, before, said, allowed, callFaults>>,
           check' \in Checks, check'.at # "idle" => check'.name \in Names
    PROVE  KeychainInv' /\ (AccountInv => AccountInv') /\ (IndexInv => IndexInv')
<1>1. Found' = Found
  BY DEF Found
<1>2. CallShape'
  BY DEF KeychainInv, CallShape
<1>3. CallInv'
  BY DEF KeychainInv, CallInv
<1>4. RestoredInv' /\ AgreeInv'
  BY <1>1 DEF KeychainInv, RestoredInv, AgreeInv
<1> QED
  BY <1>1, <1>2, <1>3, <1>4 DEF KeychainInv, AccountInv, IndexInv

\* What every step keeps.
Kept ==
    /\ KeychainInv'
    /\ Accountable /\ AccountInv => AccountInv'
    /\ Anchored /\ IndexInv => IndexInv'

LEMMA StoreKeeps ==
    ASSUME Vault!KeychainAssumption, KeychainInv, NEW n \in Names, NEW v \in Values,
           NEW m \in Vault!Metadata \cup {Vault!Nothing}, Stores = TRUE, check' = check,
           Vault!Start("store", n, Vault!StoreWrites(n, v, m), v)
    PROVE  Kept
<1>1. v # Vault!Nothing /\ v \in Entries /\ disk \in Disks /\ Vault!Value(disk, n) \in Entries
  BY DEF Vault!KeychainAssumption, Vault!Nothing, Entries, KeychainInv, CallShape, Vault!Value,
     Disks
<1> DEFINE a == {Vault!Value(disk, n), v}
<1>2. a \in SUBSET Entries /\ v \in a
  BY <1>1
<1>3. Begun("store", Vault!StoreWrites(n, v, m), a, n)
  BY <1>1, <1>2, StoreBegun
<1>4. Left("store", disk, disk, a, n)
  BY DEF Left
<1>5. check' \in Checks /\ (check'.at # "idle" => check'.name \in Names)
  BY DEF KeychainInv, CallShape
<1> QED
  BY <1>1, <1>3, <1>4, <1>5, StartKeeps DEF Kept

LEMMA DeleteKeeps ==
    ASSUME KeychainInv, NEW n \in Names, Stores = TRUE, check' = check,
           Vault!Start("delete", n, Vault!DeleteWrites(n), Vault!Nothing)
    PROVE  Kept
<1>1. Vault!Nothing \in Entries /\ disk \in Disks
  BY DEF Entries, KeychainInv, CallShape
<1> DEFINE a == {Vault!Value(disk, n), Vault!Nothing}
<1>2. Begun("delete", Vault!DeleteWrites(n), a, n)
  BY <1>1, DeleteBegun
<1>3. Left("delete", disk, disk, a, n)
  BY DEF Left
<1>4. check' \in Checks /\ (check'.at # "idle" => check'.name \in Names)
  BY DEF KeychainInv, CallShape
<1> QED
  BY <1>1, <1>2, <1>3, <1>4, StartKeeps DEF Kept

LEMMA RetrieveKeeps ==
    ASSUME KeychainInv, NEW n \in Names, Vault!Retrieve(n)
    PROVE  Kept
<1>1. /\ disk.hashed[n] = Vault!Nothing /\ disk.legacy[n] # Vault!Nothing /\ check' = check
      /\ Vault!Start("migrate", n, Vault!MigrateWrites(n), disk.legacy[n])
  BY DEF Vault!Retrieve
<1>2. disk \in Disks /\ disk.legacy[n] \in Entries /\ Vault!Value(disk, n) = disk.legacy[n]
  BY <1>1 DEF KeychainInv, CallShape, Disks, Vault!Value
<1> DEFINE a == {Vault!Value(disk, n), disk.legacy[n]}
<1>3. a \in SUBSET Entries /\ disk.legacy[n] \in a \ {Vault!Nothing} /\ a = {disk.legacy[n]}
  BY <1>1, <1>2
<1>4. Begun("migrate", Vault!MigrateWrites(n), a, n)
  BY <1>2, <1>3, MigrateBegun
<1>5. Left("migrate", disk, disk, a, n)
  BY <1>1, <1>3 DEF Left
<1>6. check' \in Checks /\ (check'.at # "idle" => check'.name \in Names)
  BY <1>1 DEF KeychainInv, CallShape
<1> HIDE DEF a
<1>7. Begun("migrate", Vault!MigrateWrites(n), {Vault!Value(disk, n), disk.legacy[n]}, n)
      /\ Left("migrate", disk, disk, {Vault!Value(disk, n), disk.legacy[n]}, n)
  BY <1>4, <1>5 DEF a
<1> QED
  BY <1>1, <1>2, <1>6, <1>7, StartKeeps DEF Kept

LEMMA SidecarKeeps ==
    ASSUME KeychainInv, NEW n \in Names, NEW w \in KeepingWrites(disk, n),
           w.field \in {"meta", "verdict"}, Vault!Start("sidecar", n, <<w>>, Vault!Value(disk, n)),
           check' \in Checks, check'.at # "idle" => check'.name \in Names
    PROVE  Kept
<1>1. disk \in Disks /\ Vault!Value(disk, n) \in Entries
  BY DEF KeychainInv, CallShape, Vault!Value, Disks
<1>2. Begun("sidecar", <<w>>, {Vault!Value(disk, n), Vault!Value(disk, n)}, n)
  BY <1>1, SidecarBegun
<1>3. Left("sidecar", disk, disk, {Vault!Value(disk, n), Vault!Value(disk, n)}, n)
  BY DEF Left
<1> QED
  BY <1>1, <1>2, <1>3, StartKeeps DEF Kept

LEMMA KeychainStep ==
    ASSUME Vault!KeychainAssumption, KeychainInv, [Vault!Next]_(Vault!vars)
    PROVE  Kept
<1>0. disk \in Disks /\ check \in Checks /\ (check.at # "idle" => check.name \in Names)
  BY DEF KeychainInv, CallShape
<1>1. CASE UNCHANGED Vault!vars
  BY <1>0, <1>1, CheckKeeps DEF Vault!vars, Kept
<1>2. ASSUME NEW n \in Names, NEW v \in Values, NEW m \in {Vault!Nothing, "expiring"},
             Vault!Store(n, v, m)
      PROVE  Kept
  <2>1. m \in Vault!Metadata \cup {Vault!Nothing}
    BY DEF Vault!Metadata
  <2>2. Stores = TRUE
    BY <1>2 DEF Vault!Store, Vault!KeychainAssumption
  <2>3. check' = check /\ Vault!Start("store", n, Vault!StoreWrites(n, v, m), v)
    BY <1>2 DEF Vault!Store
  <2> QED
    BY <2>1, <2>2, <2>3, StoreKeeps
<1>3. ASSUME NEW n \in Names, Vault!Delete(n)
      PROVE  Kept
  BY <1>3, DeleteKeeps DEF Vault!Delete, Vault!KeychainAssumption
<1>4. ASSUME NEW n \in Names, Vault!Retrieve(n)
      PROVE  Kept
  BY <1>4, RetrieveKeeps
<1>5. ASSUME NEW n \in Names, Vault!NoteVerdict(n)
      PROVE  Kept
  <2>1. check' = [Vault!NoCheck EXCEPT !.at = "noted", !.name = n, !.noted = disk.verdict[n]]
    BY <1>5 DEF Vault!NoteVerdict
  <2>2. check' = [at |-> "noted", name |-> n, noted |-> disk.verdict[n], value |-> Vault!Nothing]
    BY <2>1 DEF Vault!NoCheck
  <2>3. check' \in Checks /\ check'.name \in Names
    BY <1>0, <2>2 DEF Checks, Disks, Entries
  <2> QED
    BY <1>5, <2>3, CheckKeeps DEF Vault!NoteVerdict, Kept
<1>6. ASSUME NEW n \in Names, NEW e \in Values \cup {Vault!Nothing},
             NEW v \in Values \cup {Vault!Nothing},
             Vault!CompareAndSwap(n, e, v)
      PROVE  Kept
  <2>1. Stores = TRUE /\ check' = check
    BY <1>6 DEF Vault!CompareAndSwap, Vault!KeychainAssumption
  <2>2. CASE v # Vault!Nothing /\ Vault!Start("store", n, Vault!StoreWrites(n, v, Vault!Nothing), v)
    <3>1. v \in Values /\ Vault!Nothing \in Vault!Metadata \cup {Vault!Nothing}
      BY <2>2
    <3> QED
      BY <2>1, <2>2, <3>1, StoreKeeps
  <2>3. CASE v = Vault!Nothing /\ Vault!Start("delete", n, Vault!DeleteWrites(n), Vault!Nothing)
    BY <2>1, <2>3, DeleteKeeps
  <2> QED
    BY <1>6, <2>2, <2>3 DEF Vault!CompareAndSwap
<1>7. ASSUME NEW n \in Names, NEW m \in Vault!Metadata \cup {Vault!Nothing}, Vault!SetMetadata(n, m)
      PROVE  Kept
  <2> DEFINE w == Vault!Write("meta", Vault!Set("meta", n, m))
  <2>1. w \in KeepingWrites(disk, n)
    BY <1>0, WriteTyped
  <2>2. w.field = "meta"
    BY DEF Vault!Write
  <2>3. check' = check /\ Vault!Start("sidecar", n, <<w>>, Vault!Value(disk, n))
    BY <1>7 DEF Vault!SetMetadata
  <2> HIDE DEF w
  <2> QED
    BY <1>0, <2>1, <2>2, <2>3, SidecarKeeps
<1>8. CASE Vault!ReadValue
  <2>1. check' = IF Vault!Value(disk, check.name) = Vault!Nothing THEN Vault!NoCheck
                 ELSE [check EXCEPT !.at = "read", !.value = Vault!Value(disk, check.name)]
    BY <1>8 DEF Vault!ReadValue
  <2>2. check.at = "noted" /\ check.name \in Names
    BY <1>0, <1>8 DEF Vault!ReadValue
  <2>3. Vault!Value(disk, check.name) \in Entries
    BY <1>0, <2>2 DEF Vault!Value, Disks
  <2>4. Vault!NoCheck \in Checks /\ Vault!NoCheck.at = "idle"
    BY DEF Vault!NoCheck, Checks, Entries
  <2>5. check' \in Checks /\ (check'.at # "idle" => check'.name \in Names)
    <3>1. CASE check' = Vault!NoCheck
      BY <2>4, <3>1
    <3>2. CASE check' = [check EXCEPT !.at = "read", !.value = Vault!Value(disk, check.name)]
      BY <1>0, <2>2, <2>3, <3>2 DEF Checks
    <3> QED
      BY <2>1, <3>1, <3>2
  <2> QED
    BY <1>8, <2>5, CheckKeeps DEF Vault!ReadValue, Kept
<1>9. CASE Vault!RecordVerdict
  <2> DEFINE n == check.name
             w == Vault!Write("verdict", Vault!Set("verdict", n, check.value))
  <2>1. check.at = "read" /\ n \in Names /\ check.value \in Entries
    BY <1>0, <1>9 DEF Vault!RecordVerdict, Checks
  <2>2. w \in KeepingWrites(disk, n)
    BY <1>0, <2>1, WriteTyped
  <2>3. w.field = "verdict"
    BY DEF Vault!Write
  <2>4. Vault!Start("sidecar", n, <<w>>, Vault!Value(disk, n)) /\ check' = Vault!NoCheck
    BY <1>9 DEF Vault!RecordVerdict
  <2>5. check' \in Checks /\ check'.at = "idle"
    BY <2>4 DEF Vault!NoCheck, Checks, Entries
  <2>6. PICK m \in Names : m = n
    BY <2>1
  <2>7. PICK x \in KeepingWrites(disk, n) : x = w
    BY <2>2
  <2> HIDE DEF w, n
  <2>8. x \in KeepingWrites(disk, m) /\ x.field = "verdict"
          /\ Vault!Start("sidecar", m, <<x>>, Vault!Value(disk, m))
    BY <2>3, <2>4, <2>6, <2>7
  <2> QED
    BY <2>5, <2>8, SidecarKeeps
<1>10. CASE Vault!DropVerdict
  <2>1. check' \in Checks /\ check'.at = "idle"
    BY <1>10 DEF Vault!DropVerdict, Vault!NoCheck, Checks, Entries
  <2> QED
    BY <1>10, <2>1, CheckKeeps DEF Vault!DropVerdict, Kept
<1>11. ASSUME Steps, op # Vault!Idle
       PROVE  Kept
  BY <1>11, StepsKeep, StepsAccount, StepsIndex DEF Kept
<1>12. CASE Vault!Succeed
  BY <1>11, <1>12, SucceedStep DEF Vault!Succeed
<1>13. ASSUME NEW effect \in BOOLEAN, Vault!FailUnseen(effect)
       PROVE  Kept
  BY <1>11, <1>13, FailUnseenStep DEF Vault!FailUnseen, Vault!Failing
<1>14. ASSUME NEW effect \in BOOLEAN, Vault!Fail(effect)
       PROVE  Kept
  BY <1>11, <1>14, FailStep DEF Vault!Fail
<1>15. ASSUME NEW effect \in BOOLEAN, Vault!FailUndo(effect)
       PROVE  Kept
  BY <1>11, <1>15, FailUndoStep DEF Vault!FailUndo
<1>16. CASE Vault!Die
  BY <1>11, <1>16, DieStep DEF Vault!Die
<1> QED
  BY <1>1, <1>2, <1>3, <1>4, <1>5, <1>6, <1>7, <1>8, <1>9, <1>10, <1>12, <1>13, <1>14, <1>15, <1>16
  DEF Vault!Next

LEMMA KeychainInit ==
    ASSUME Vault!KeychainAssumption, Vault!Init
    PROVE  KeychainInv /\ AccountInv /\ IndexInv
<1>1. /\ op = Vault!Idle /\ before = disk /\ said = "nothing" /\ check = Vault!NoCheck
           /\ callFaults = 0
      /\ allowed = [n \in Names |-> {Vault!Value(disk, n)}]
  BY DEF Vault!Init
<1>2. disk \in [hashed : {[n \in Names |-> Vault!Nothing]},
                legacy : {l \in [Names -> Values \cup {Vault!Nothing}] :
                              \A n \in Names : (l[n] # Vault!Nothing) = (n \in LegacyNames)},
                index : SUBSET LegacyNames,
                meta : {[n \in Names |-> Vault!Nothing]},
                verdict : {[n \in Names |-> Vault!Nothing]}]
  BY DEF Vault!Init
<1>3. /\ disk.hashed = [n \in Names |-> Vault!Nothing]
      /\ disk.legacy \in [Names -> Entries]
      /\ \A n \in Names : disk.legacy[n] # Vault!Nothing <=> n \in LegacyNames
      /\ disk.index \subseteq LegacyNames
      /\ disk.meta = [n \in Names |-> Vault!Nothing]
           /\ disk.verdict = [n \in Names |-> Vault!Nothing]
  BY <1>2 DEF Entries
<1>4. disk \in Disks
  <2>1. /\ disk.hashed \in [Names -> Entries] /\ disk.index \in SUBSET Names
        /\ disk.meta \in [Names -> Vault!Metadata \cup {Vault!Nothing}]
             /\ disk.verdict \in [Names -> Entries]
    BY <1>3 DEF Entries, Vault!KeychainAssumption
  <2>2. disk = [hashed |-> disk.hashed, legacy |-> disk.legacy, index |-> disk.index,
                meta |-> disk.meta, verdict |-> disk.verdict]
    BY <1>2
  <2> QED
    BY <1>3, <2>1, <2>2 DEF Disks
<1>5. \A n \in Names : Vault!Value(disk, n) = disk.legacy[n] /\ Vault!Value(disk, n) \in Entries
        /\ Agree(disk, n)
  BY <1>3 DEF Vault!Value, Agree
<1>6. CallShape
  <2>1. Vault!Idle \in VaultCalls /\ Vault!Idle.todo = <<>> /\ Vault!Idle.kind = "idle"
    BY DEF Vault!Idle, VaultCalls
  <2>2. Vault!NoCheck \in Checks /\ Vault!NoCheck.at = "idle"
    BY DEF Vault!NoCheck, Checks, Entries
  <2>3. allowed \in [Names -> SUBSET Entries]
    BY <1>1, <1>5
  <2>4. callFaults \in 0..MaxFaults
    BY <1>1 DEF Vault!KeychainAssumption
  <2> QED
    BY <1>1, <1>4, <2>1, <2>2, <2>3, <2>4 DEF CallShape
<1>7. CallInv /\ RestoredInv
  BY <1>1 DEF CallInv, RestoredInv
<1>8. Found = disk
  BY <1>1 DEF Found
<1>9. AgreeInv
  BY <1>3, <1>5, <1>8 DEF AgreeInv
<1>10. AccountInv
  BY <1>1, <1>8 DEF AccountInv
<1>11. IndexInv
  BY <1>3, <1>5, <1>8 DEF IndexInv, Vault!KeychainAssumption
<1> QED
  BY <1>6, <1>7, <1>9, <1>10, <1>11 DEF KeychainInv

LEMMA KeychainTyped ==
    ASSUME KeychainInv
    PROVE  Vault!TypeOK /\ Vault!RestoredMeansRestored
<1>1. Vault!TypeOK
  BY DEF KeychainInv, CallShape, Vault!TypeOK, Disks, VaultCalls, Entries, Checks
<1>2. Vault!RestoredMeansRestored
  BY DEF KeychainInv, RestoredInv, Vault!RestoredMeansRestored
<1> QED
  BY <1>1, <1>2

\* A call of the keychain vault that says it failed and the prior state was
\* restored has left every place as it found it, whatever failed in the call or
\* before it (compensated_error).
THEOREM RestoredIsRestored ==
    ASSUME Vault!KeychainAssumption
    PROVE  Vault!Spec => [](Vault!TypeOK /\ Vault!RestoredMeansRestored)
<1>1. Vault!Init => KeychainInv
  BY KeychainInit
<1>2. KeychainInv /\ [Vault!Next]_(Vault!vars) => KeychainInv'
  BY KeychainStep DEF Kept
<1>3. KeychainInv => Vault!TypeOK /\ Vault!RestoredMeansRestored
  BY KeychainTyped
<1> QED
  BY <1>1, <1>2, <1>3, PTL DEF Vault!Spec

\* The keychain vault loses no value: what a caller reads is what the last
\* successful call left, or what a call that failed or died was replacing or
\* writing.  Where calls store, old entries exist and two things fail it need
\* not hold (store_locked, delete_locked, migrate_legacy_transaction).
THEOREM ValuesAreAccounted ==
    ASSUME Vault!KeychainAssumption, Accountable
    PROVE  Vault!Spec => []Vault!ValueIsAccounted
<1>1. Vault!Init => KeychainInv /\ AccountInv
  BY KeychainInit
<1>2. KeychainInv /\ AccountInv /\ [Vault!Next]_(Vault!vars) => KeychainInv' /\ AccountInv'
  BY KeychainStep DEF Kept
<1>3. KeychainInv /\ AccountInv => Vault!ValueIsAccounted
  BY DEF AccountInv, Found, Vault!ValueIsAccounted
<1> QED
  BY <1>1, <1>2, <1>3, PTL DEF Vault!Spec

\* No name of the index dangles: it has a credential whenever no call is under
\* way, unless two things fail where calls store (keychain.rs's "a dangling
\* index record").
THEOREM IndexNeverDangles ==
    ASSUME Vault!KeychainAssumption, Anchored
    PROVE  Vault!Spec => []Vault!IndexedHasValue
<1>1. Vault!Init => KeychainInv /\ IndexInv
  BY KeychainInit
<1>2. KeychainInv /\ IndexInv /\ [Vault!Next]_(Vault!vars) => KeychainInv' /\ IndexInv'
  BY KeychainStep DEF Kept
<1>3. KeychainInv /\ IndexInv => Vault!IndexedHasValue
  BY DEF IndexInv, Found, Vault!IndexedHasValue
<1> QED
  BY <1>1, <1>2, <1>3, PTL DEF Vault!Spec
===============================================================================
