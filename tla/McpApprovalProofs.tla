-------------------------- MODULE McpApprovalProofs --------------------------
(***************************************************************************)
(* Proofs about McpApproval, for any number of servers, terminals and      *)
(* nonces and any record found in the store at the start.                  *)
(*                                                                         *)
(* The properties speak of effects that ran.  The invariant follows a      *)
(* nonce from the record to the effect: what a process has staged still    *)
(* agrees with the file (it has the lock), an approved record carries a    *)
(* call that was reviewed and the window of its approval, and once a call  *)
(* has consumed it nothing can bring the record back.                      *)
(***************************************************************************)
EXTENDS McpApproval, TLAPS

\* A process is inside the store exactly while it has the lock.
LockInv == \A p \in Procs : pc[p] \in {"held", "write"} <=> lock = p

\* The operation of a process fits where it is.
OpInv ==
  \A p \in Procs :
    /\ pc[p] = "idle" => job[p] = NoJob
    /\ pc[p] = "confirm" => job[p].op = "inspect"
    /\ pc[p] = "run" => job[p].op = "consume"
    /\ pc[p] = "print" => job[p].op = "approve" /\ job[p].mac \in Macs
    /\ job[p].op \notin {"none", "prune"} => job[p].nonce \in Nonces
    /\ pc[p] \in {"lock", "held", "write"} => job[p].op # "none"
    /\ pc[p] = "write" => job[p].op # "inspect"

\* Nonces: those being requested are new and distinct, all others in use were
\* announced.
NonceInv ==
  /\ \A p \in Procs :
       /\ job[p].op = "generate" =>
            /\ job[p].nonce \notin announced
            /\ records[job[p].nonce].state = "absent"
       /\ job[p].op \in {"consume", "inspect", "approve"} =>
            job[p].nonce \in announced
  /\ \A p, q \in Procs :
       /\ job[p].op = "generate" /\ job[q].op = "generate"
       /\ job[p].nonce = job[q].nonce
       => p = q

\* A process about to write still knows what is in the file: it drops what it
\* consumes or found expired and keeps the rest.
StagedOK(p) ==
  /\ \A n \in Nonces :
       \/ staged[p][n] = records[n]
       \/ /\ staged[p][n] = Absent
          /\ \/ job[p].op = "consume" /\ job[p].nonce = n
             \/ records[n].expires <= job[p].at
  /\ job[p].op = "approve" =>
       /\ staged[p] = records
       /\ records[job[p].nonce].state = "pending"
       /\ records[job[p].nonce].informed
  /\ job[p].op = "consume" =>
       /\ records[job[p].nonce].state = "approved"
       /\ records[job[p].nonce].informed
       /\ records[job[p].nonce].call = job[p].call
       /\ job[p].at < records[job[p].nonce].expires
       /\ staged[p][job[p].nonce] = Absent

StageInv == \A p \in Procs : pc[p] = "write" => StagedOK(p)

\* A nonce is spent once a call has consumed its record.
Spent(n) ==
  \/ effects[n] # <<>>
  \/ \E p \in Procs : pc[p] = "run" /\ job[p].nonce = n

\* A spent nonce has no record and can never get one.
SpentInv ==
  /\ \A n \in Nonces : Spent(n) => records[n].state = "absent" /\ n \in announced
  /\ \A p \in Procs : pc[p] = "run" => effects[job[p].nonce] = <<>>
  /\ \A p, q \in Procs :
       pc[p] = "run" /\ pc[q] = "run" /\ job[p].nonce = job[q].nonce => p = q

\* Approved records, and what was let in on them, were reviewed.  A record
\* does not change its call while a terminal shows it or approves it.
ReviewInv ==
  /\ \A n \in Nonces :
       records[n].state = "approved" /\ records[n].informed =>
         <<n, records[n].call>> \in reviewed
  /\ \A p \in Procs :
       /\ pc[p] = "confirm" \/ job[p].op = "approve" =>
            \/ records[job[p].nonce].state = "absent"
            \/ records[job[p].nonce].call = job[p].call
       /\ job[p].op = "approve" => <<job[p].nonce, job[p].call>> \in reviewed
       /\ pc[p] = "run" => <<job[p].nonce, job[p].call>> \in reviewed

\* An approved record ends with the use window of its approval.
WindowInv ==
  /\ \A n \in Nonces :
       records[n].state = "approved" /\ records[n].informed =>
         records[n].expires = grantedAt[n] + UseTtl
  /\ \A p \in Procs :
       pc[p] = "run" => job[p].at < grantedAt[job[p].nonce] + UseTtl

Inv ==
  /\ TypeOK /\ LockInv /\ OpInv /\ NonceInv /\ StageInv
  /\ SpentInv /\ SingleUse
  /\ ReviewInv /\ RunsWhatWasReviewed
  /\ WindowInv /\ UsedInWindow

-----------------------------------------------------------------------------
(* Preliminaries                                                           *)

JobType ==
  [op : {"none", "generate", "consume", "inspect", "approve", "prune"},
   nonce : Nonces \cup {None}, mac : Macs \cup {Forged}, call : Calls, at : Nat]

\* The record of a nonce that is not in the file is a record like any other.
LEMMA AbsentRecord ==
  /\ AnyCall \in Calls
  /\ Absent \in StoredApprovalRecord
  /\ Absent.state = "absent"
  /\ Absent.expires = 0
<1>1. AnyCall \in Calls
  BY ApprovalAssumption DEF AnyCall
<1> QED
  BY <1>1 DEF Absent, StoredApprovalRecord

\* A call is determined by its tool, its project and its parameters.
LEMMA SameCall ==
  ASSUME NEW a \in Calls, NEW b \in Calls,
         a.tool = b.tool, a.project = b.project, a.params = b.params
  PROVE  a = b
BY DEF Calls

LEMMA NoJobType == NoJob \in JobType
BY AbsentRecord DEF NoJob, JobType

\* The file after a write: what was staged, but for the stamped record.
LEMMA WrittenType ==
  ASSUME TypeOK, OpInv, NEW p \in Procs, pc[p] = "write"
  PROVE  /\ Written(p) \in [Nonces -> StoredApprovalRecord]
         /\ \A n \in Nonces :
              n # job[p].nonce \/ job[p].op \in {"consume", "prune"} =>
                Written(p)[n] = staged[p][n]
         /\ job[p].op = "generate" =>
              Written(p)[job[p].nonce] =
                [state |-> "pending", call |-> job[p].call,
                 expires |-> now + ApprovalTtl, informed |-> TRUE]
         /\ job[p].op = "approve" =>
              Written(p)[job[p].nonce] =
                [staged[p][job[p].nonce] EXCEPT !.state = "approved",
                                                !.expires = now + UseTtl]
<1>0. /\ job[p] \in JobType /\ now \in Nat
      /\ staged[p] \in [Nonces -> StoredApprovalRecord]
  BY ApprovalAssumption DEF TypeOK, JobType
<1>1. CASE job[p].op = "generate"
  <2>1. job[p].nonce \in Nonces /\ now + ApprovalTtl \in Nat
    BY <1>0, <1>1, ApprovalAssumption DEF OpInv
  <2>2. [state |-> "pending", call |-> job[p].call,
         expires |-> now + ApprovalTtl, informed |-> TRUE] \in StoredApprovalRecord
    BY <1>0, <2>1 DEF StoredApprovalRecord, JobType
  <2> QED
    BY <1>0, <1>1, <2>1, <2>2 DEF Written
<1>2. CASE job[p].op = "approve"
  <2>1. job[p].nonce \in Nonces /\ now + UseTtl \in Nat
    BY <1>0, <1>2, ApprovalAssumption DEF OpInv
  <2>2. [staged[p][job[p].nonce] EXCEPT !.state = "approved",
           !.expires = now + UseTtl] \in StoredApprovalRecord
    BY <1>0, <2>1 DEF StoredApprovalRecord
  <2>3. Written(p) = [staged[p] EXCEPT ![job[p].nonce] =
           [staged[p][job[p].nonce] EXCEPT !.state = "approved",
              !.expires = now + UseTtl]]
    BY <1>0, <1>2, <2>1 DEF Written, StoredApprovalRecord
  <2> QED
    BY <1>0, <1>2, <2>1, <2>2, <2>3
<1>3. CASE job[p].op \notin {"generate", "approve"}
  BY <1>0, <1>3 DEF Written
<1> QED
  BY <1>1, <1>2, <1>3

LEMMA InitInv == Init => Inv
<1> SUFFICES ASSUME Init PROVE Inv
  OBVIOUS
<1>1. /\ records \in [Nonces -> StoredApprovalRecord] /\ printed \subseteq Macs
      /\ \A n \in Nonces :
           records[n].state # "absent" => ~records[n].informed
  <2>1. PICK old \in [Legacy ->
             [state : {"pending", "approved"}, call : Calls,
              expires : {0, UseTtl}, informed : {FALSE}]] :
       /\ records = [n \in Nonces |-> IF n \in Legacy THEN old[n] ELSE Absent]
       /\ printed = {<<n, old[n].call.params>> :
                       n \in {m \in Legacy : old[m].state = "approved"}}
    BY DEF Init
  <2>2. \A n \in Legacy : old[n] \in StoredApprovalRecord
    <3> SUFFICES ASSUME NEW n \in Legacy PROVE old[n] \in StoredApprovalRecord
      OBVIOUS
    <3>1. old[n] \in [state : {"pending", "approved"}, call : Calls,
                      expires : {0, UseTtl}, informed : {FALSE}]
      OBVIOUS
    <3>2. \A r \in [state : {"pending", "approved"}, call : Calls,
                    expires : {0, UseTtl}, informed : {FALSE}] :
            r \in StoredApprovalRecord
      <4>1. {0, UseTtl} \subseteq Nat /\ {FALSE} \subseteq BOOLEAN
        BY ApprovalAssumption
      <4> QED
        BY <4>1, Zenon DEF StoredApprovalRecord
    <3> QED
      BY <3>1, <3>2
  <2>3. \A n \in Legacy : old[n].call.params \in Params
    BY DEF Calls
  <2>4. printed \subseteq Macs
    BY <2>1, <2>3, ApprovalAssumption DEF Macs
  <2>5. records \in [Nonces -> StoredApprovalRecord]
    BY <2>1, <2>2, AbsentRecord
  <2>6. \A n \in Nonces : records[n].state # "absent" => ~records[n].informed
    BY <2>1, AbsentRecord
  <2> QED
    BY <2>4, <2>5, <2>6
<1>2. TypeOK
  BY <1>1, NoJobType, AbsentRecord, ApprovalAssumption
  DEF Init, TypeOK, JobType, Empty
<1>3. LockInv /\ OpInv /\ StageInv
  BY ApprovalAssumption DEF Init, LockInv, OpInv, StageInv, NoJob
<1>4. NonceInv /\ SpentInv
  BY DEF Init, NonceInv, SpentInv, Spent, NoJob
<1>5. SingleUse /\ RunsWhatWasReviewed /\ UsedInWindow
  BY DEF Init, SingleUse, RunsWhatWasReviewed, UsedInWindow
<1>6. ReviewInv /\ WindowInv
  BY <1>1 DEF Init, ReviewInv, WindowInv, NoJob
<1> QED
  BY <1>2, <1>3, <1>4, <1>5, <1>6 DEF Inv

-----------------------------------------------------------------------------
(* Steps that leave the records alone                                      *)

\* A new operation: a request has a fresh nonce, the others name a nonce that
\* was announced, or none.
LEMMA StartKeeps ==
  ASSUME Inv, NEW p \in Procs, NEW j \in JobType, Start(p, j),
         j.op \in {"generate", "consume", "inspect", "prune"},
         j.op = "generate" => j.nonce \in Nonces /\ Fresh(j.nonce),
         j.op \in {"consume", "inspect"} => j.nonce \in announced
  PROVE  Inv'
<1>1. TypeOK'
  BY DEF Inv, TypeOK, Start, JobType, trail
<1>2. LockInv'
  BY DEF Inv, TypeOK, LockInv, Start
<1>3. OpInv'
  BY DEF Inv, TypeOK, OpInv, Start, trail
<1>4. NonceInv'
  <2>1. j.op = "generate" =>
          /\ records[j.nonce].state = "absent" /\ j.nonce \notin announced
          /\ \A q \in Procs : job[q].nonce # j.nonce
    BY AbsentRecord DEF Fresh
  <2> QED
    BY <2>1 DEF Inv, TypeOK, NonceInv, Start, trail
<1>5. StageInv'
  BY DEF Inv, TypeOK, StageInv, StagedOK, Start
<1>6. SpentInv' /\ SingleUse'
  BY DEF Inv, TypeOK, OpInv, SpentInv, Spent, SingleUse, Start, trail
<1>7. ReviewInv' /\ RunsWhatWasReviewed'
  BY DEF Inv, TypeOK, ReviewInv, RunsWhatWasReviewed, Start, trail
<1>8. WindowInv' /\ UsedInWindow'
  BY DEF Inv, TypeOK, WindowInv, UsedInWindow, Start, trail
<1> QED
  BY <1>1, <1>2, <1>3, <1>4, <1>5, <1>6, <1>7, <1>8 DEF Inv

\* An operation that is refused, fails or dies.
LEMMA ReturnKeeps ==
  ASSUME Inv, NEW p \in Procs, Return(p), UNCHANGED <<now, records, trail>>
  PROVE  Inv'
<1>0. NoJob \in JobType /\ NoJob.op = "none"
  BY NoJobType DEF NoJob
<1>1. TypeOK'
  BY <1>0, AbsentRecord DEF Inv, TypeOK, Return, JobType, trail, Empty
<1>2. LockInv'
  BY ApprovalAssumption DEF Inv, TypeOK, LockInv, Return
<1>3. OpInv'
  BY <1>0 DEF Inv, TypeOK, OpInv, Return, trail
<1>4. NonceInv'
  BY <1>0 DEF Inv, TypeOK, NonceInv, Return, trail
<1>5. StageInv'
  BY DEF Inv, TypeOK, StageInv, StagedOK, Return
<1>6. SpentInv' /\ SingleUse'
  BY DEF Inv, TypeOK, SpentInv, Spent, SingleUse, Return, trail
<1>7. ReviewInv' /\ RunsWhatWasReviewed'
  BY <1>0 DEF Inv, TypeOK, ReviewInv, RunsWhatWasReviewed, Return, trail
<1>8. WindowInv' /\ UsedInWindow'
  BY DEF Inv, TypeOK, WindowInv, UsedInWindow, Return, trail
<1> QED
  BY <1>1, <1>2, <1>3, <1>4, <1>5, <1>6, <1>7, <1>8 DEF Inv

LEMMA AcquireKeeps ==
  ASSUME Inv, NEW p \in Procs, Acquire(p)
  PROVE  Inv'
<1>1. TypeOK'
  BY DEF Inv, TypeOK, Acquire, trail
<1>2. LockInv'
  BY ApprovalAssumption DEF Inv, TypeOK, LockInv, Acquire
<1>3. OpInv'
  BY DEF Inv, TypeOK, OpInv, Acquire, trail
<1>4. NonceInv'
  BY DEF Inv, TypeOK, NonceInv, Acquire, trail
<1>5. StageInv'
  BY DEF Inv, TypeOK, StageInv, StagedOK, Acquire
<1>6. SpentInv' /\ SingleUse'
  BY DEF Inv, TypeOK, SpentInv, Spent, SingleUse, Acquire, trail
<1>7. ReviewInv' /\ RunsWhatWasReviewed'
  BY DEF Inv, TypeOK, ReviewInv, RunsWhatWasReviewed, Acquire, trail
<1>8. WindowInv' /\ UsedInWindow'
  BY DEF Inv, TypeOK, WindowInv, UsedInWindow, Acquire, trail
<1> QED
  BY <1>1, <1>2, <1>3, <1>4, <1>5, <1>6, <1>7, <1>8 DEF Inv

LEMMA ClockKeeps == ASSUME Inv, Clock PROVE Inv'
<1>1. TypeOK'
  BY DEF Inv, TypeOK, Clock, trail
<1>2. LockInv' /\ OpInv' /\ NonceInv'
  BY DEF Inv, LockInv, OpInv, NonceInv, Clock, trail
<1>3. StageInv'
  BY DEF Inv, StageInv, StagedOK, Clock
<1>4. SpentInv' /\ SingleUse'
  BY DEF Inv, SpentInv, Spent, SingleUse, Clock, trail
<1>5. ReviewInv' /\ RunsWhatWasReviewed' /\ WindowInv' /\ UsedInWindow'
  BY DEF Inv, ReviewInv, RunsWhatWasReviewed, WindowInv, UsedInWindow, Clock, trail
<1> QED
  BY <1>1, <1>2, <1>3, <1>4, <1>5 DEF Inv

\* A check that passed: rs agrees with the file but for the records it drops,
\* and the record concerned is as the operation needs it.
LEMMA StageKeeps ==
  ASSUME Inv, NEW p \in Procs, pc[p] = "held", job[p].op # "inspect",
         NEW rs \in [Nonces -> StoredApprovalRecord], Stage(p, rs),
         \A n \in Nonces :
           \/ rs[n] = records[n]
           \/ /\ rs[n] = Absent
              /\ \/ job[p].op = "consume" /\ job[p].nonce = n
                 \/ records[n].expires <= now,
         job[p].op = "approve" =>
           rs = records /\ Approvable(records[job[p].nonce]),
         job[p].op = "consume" =>
           /\ rs[job[p].nonce] = Absent
           /\ Admissible(records[job[p].nonce], job[p])
  PROVE  Inv'
<1>0. job' = [job EXCEPT ![p].at = now]
  BY DEF Stage
<1>a. \A q \in Procs : /\ job'[q].op = job[q].op /\ job'[q].nonce = job[q].nonce
                       /\ job'[q].call = job[q].call /\ job'[q].mac = job[q].mac
                       /\ q # p => job'[q] = job[q]
  BY <1>0 DEF Inv, TypeOK
<1>b. job'[p].at = now /\ now \in Nat
  BY <1>0, ApprovalAssumption DEF Inv, TypeOK
<1>1. TypeOK'
  <2>1. job' \in [Procs -> JobType]
    <3>1. job \in [Procs -> JobType]
      BY DEF Inv, TypeOK, JobType
    <3>2. [job[p] EXCEPT !.at = now] \in JobType
      BY <3>1, <1>b DEF JobType
    <3> QED
      BY <1>0, <3>1, <3>2
  <2> QED
    BY <2>1 DEF Inv, TypeOK, JobType, Stage, trail
<1>2. LockInv'
  BY DEF Inv, TypeOK, LockInv, Stage
<1>3. OpInv'
  BY <1>a DEF Inv, TypeOK, OpInv, Stage, trail
<1>4. NonceInv'
  BY <1>a DEF Inv, TypeOK, NonceInv, Stage, trail
<1>5. StageInv'
  <2> SUFFICES ASSUME NEW q \in Procs, pc'[q] = "write" PROVE StagedOK(q)'
    BY DEF StageInv
  <2>1. CASE q # p
    BY <1>a, <2>1 DEF Inv, TypeOK, StageInv, StagedOK, Stage
  <2>2. CASE q = p
    <3>1. job[p].op = "consume" =>
            /\ records[job[p].nonce].state = "approved"
            /\ records[job[p].nonce].informed
            /\ records[job[p].nonce].call = job[p].call
            /\ now < records[job[p].nonce].expires
      <4> SUFFICES ASSUME job[p].op = "consume" PROVE  /\ records[job[p].nonce].state = "approved"
                  /\ records[job[p].nonce].informed
                  /\ records[job[p].nonce].call = job[p].call
                  /\ now < records[job[p].nonce].expires
        OBVIOUS
      <4>1. job[p].nonce \in Nonces
        BY DEF Inv, OpInv
      <4>2. records[job[p].nonce].call = job[p].call
        BY <4>1, SameCall DEF Inv, TypeOK, Admissible, StoredApprovalRecord
      <4> QED
        BY <1>b, <4>1, <4>2 DEF Inv, TypeOK, Admissible, Expired, StoredApprovalRecord
    <3> QED
      BY <1>a, <1>b, <2>2, <3>1 DEF Inv, TypeOK, StagedOK, Stage, Approvable
  <2> QED
    BY <2>1, <2>2
<1>6. SpentInv' /\ SingleUse'
  BY <1>a DEF Inv, TypeOK, SpentInv, Spent, SingleUse, Stage, trail
<1>7. ReviewInv' /\ RunsWhatWasReviewed'
  BY <1>a DEF Inv, TypeOK, ReviewInv, RunsWhatWasReviewed, Stage, trail
<1>8. WindowInv' /\ UsedInWindow'
  BY <1>a DEF Inv, TypeOK, WindowInv, UsedInWindow, Stage, trail
<1> QED
  BY <1>1, <1>2, <1>3, <1>4, <1>5, <1>6, <1>7, <1>8 DEF Inv

\* The record is shown and the lock given up.
LEMMA InspectKeeps ==
  ASSUME Inv, NEW p \in Procs, pc[p] = "held", job[p].op = "inspect",
         Approvable(records[job[p].nonce]), Inspect(p)
  PROVE  Inv'
<1> DEFINE r == records[job[p].nonce]
<1>0. /\ job' = [job EXCEPT ![p].call = r.call]
      /\ pc' = [pc EXCEPT ![p] = "confirm"]
      /\ lock' = None
      /\ UNCHANGED <<now, records, staged, trail>>
  BY DEF Inspect
<1>n. job[p].nonce \in Nonces /\ r \in StoredApprovalRecord /\ r.call \in Calls
  BY DEF Inv, TypeOK, OpInv, StoredApprovalRecord
<1>a. \A q \in Procs : /\ job'[q].op = job[q].op /\ job'[q].nonce = job[q].nonce
                       /\ job'[q].mac = job[q].mac /\ job'[q].at = job[q].at
                       /\ q # p => job'[q] = job[q]
  BY <1>0 DEF Inv, TypeOK
<1>b. job'[p].call = r.call
  BY <1>0 DEF Inv, TypeOK
<1> HIDE DEF r
<1>1. TypeOK'
  <2>1. job' \in [Procs -> JobType]
    <3>1. job \in [Procs -> JobType]
      BY DEF Inv, TypeOK, JobType
    <3>2. [job[p] EXCEPT !.call = r.call] \in JobType
      BY <3>1, <1>n DEF JobType
    <3> QED
      BY <1>0, <3>1, <3>2
  <2> QED
    BY <1>0, <2>1 DEF Inv, TypeOK, JobType, trail
<1>2. LockInv'
  BY <1>0, ApprovalAssumption DEF Inv, TypeOK, LockInv
<1>3. OpInv'
  BY <1>0, <1>a DEF Inv, TypeOK, OpInv, trail
<1>4. NonceInv'
  BY <1>0, <1>a DEF Inv, TypeOK, NonceInv, trail
<1>5. StageInv'
  BY <1>0, <1>a DEF Inv, TypeOK, StageInv, StagedOK
<1>6. SpentInv' /\ SingleUse'
  BY <1>0, <1>a DEF Inv, TypeOK, SpentInv, Spent, SingleUse, trail
<1>7. ReviewInv' /\ RunsWhatWasReviewed'
  BY <1>0, <1>a, <1>b DEF Inv, TypeOK, ReviewInv, RunsWhatWasReviewed, trail, r
<1>8. WindowInv' /\ UsedInWindow'
  BY <1>0, <1>a DEF Inv, TypeOK, WindowInv, UsedInWindow, trail
<1> QED
  BY <1>1, <1>2, <1>3, <1>4, <1>5, <1>6, <1>7, <1>8 DEF Inv

\* The operator confirms what was shown.
LEMMA ConfirmKeeps ==
  ASSUME Inv, NEW p \in Procs, Confirm(p)
  PROVE  Inv'
<1>0. job' = [job EXCEPT ![p].op = "approve"] /\ job[p].op = "inspect"
  BY DEF Inv, OpInv, Confirm
<1>a. \A q \in Procs : /\ job'[q].call = job[q].call /\ job'[q].nonce = job[q].nonce
                       /\ job'[q].mac = job[q].mac /\ job'[q].at = job[q].at
                       /\ q # p => job'[q] = job[q]
  BY <1>0 DEF Inv, TypeOK
<1>b. job'[p].op = "approve"
  BY <1>0 DEF Inv, TypeOK
<1>n. job[p].nonce \in Nonces /\ job[p].call \in Calls
  BY <1>0 DEF Inv, TypeOK, OpInv
<1>1. TypeOK'
  <2>1. job' \in [Procs -> JobType]
    <3>1. job \in [Procs -> JobType]
      BY DEF Inv, TypeOK, JobType
    <3>2. [job[p] EXCEPT !.op = "approve"] \in JobType
      BY <3>1 DEF JobType
    <3> QED
      BY <1>0, <3>1, <3>2
  <2>2. reviewed' \subseteq Nonces \X Calls
    BY <1>n DEF Inv, TypeOK, Confirm
  <2> QED
    BY <2>1, <2>2 DEF Inv, TypeOK, JobType, Confirm
<1>2. LockInv'
  BY DEF Inv, TypeOK, LockInv, Confirm
<1>3. OpInv'
  BY <1>0, <1>a, <1>b DEF Inv, TypeOK, OpInv, Confirm
<1>4. NonceInv'
  BY <1>0, <1>a, <1>b DEF Inv, TypeOK, NonceInv, Confirm
<1>5. StageInv'
  BY <1>a DEF Inv, TypeOK, StageInv, StagedOK, Confirm
<1>6. SpentInv' /\ SingleUse'
  BY <1>a DEF Inv, TypeOK, SpentInv, Spent, SingleUse, Confirm
<1>7. ReviewInv' /\ RunsWhatWasReviewed'
  BY <1>a, <1>b DEF Inv, TypeOK, ReviewInv, RunsWhatWasReviewed, Confirm
<1>8. WindowInv' /\ UsedInWindow'
  BY <1>a DEF Inv, TypeOK, WindowInv, UsedInWindow, Confirm
<1> QED
  BY <1>1, <1>2, <1>3, <1>4, <1>5, <1>6, <1>7, <1>8 DEF Inv

\* The token is printed.
LEMMA PrintKeeps ==
  ASSUME Inv, NEW p \in Procs, PrintToken(p)
  PROVE  Inv'
<1>0. NoJob \in JobType /\ NoJob.op = "none"
  BY NoJobType DEF NoJob
<1>1. TypeOK'
  BY <1>0, AbsentRecord DEF Inv, TypeOK, OpInv, PrintToken, Return, JobType, Empty
<1>2. LockInv'
  BY ApprovalAssumption DEF Inv, TypeOK, LockInv, PrintToken, Return
<1>3. OpInv'
  BY <1>0 DEF Inv, TypeOK, OpInv, PrintToken, Return
<1>4. NonceInv'
  BY <1>0 DEF Inv, TypeOK, NonceInv, PrintToken, Return
<1>5. StageInv'
  BY DEF Inv, TypeOK, StageInv, StagedOK, PrintToken, Return
<1>6. SpentInv' /\ SingleUse'
  BY DEF Inv, TypeOK, SpentInv, Spent, SingleUse, PrintToken, Return
<1>7. ReviewInv' /\ RunsWhatWasReviewed'
  BY <1>0 DEF Inv, TypeOK, ReviewInv, RunsWhatWasReviewed, PrintToken, Return
<1>8. WindowInv' /\ UsedInWindow'
  BY DEF Inv, TypeOK, WindowInv, UsedInWindow, PrintToken, Return
<1> QED
  BY <1>1, <1>2, <1>3, <1>4, <1>5, <1>6, <1>7, <1>8 DEF Inv

\* The effect runs: the nonce had none so far, and no other process is about
\* to run one.
LEMMA RunKeeps ==
  ASSUME Inv, NEW p \in Procs, Run(p)
  PROVE  Inv'
<1> DEFINE m == job[p].nonce
           e == [call |-> job[p].call, at |-> job[p].at]
<1>0. NoJob \in JobType /\ NoJob.op = "none"
  BY NoJobType DEF NoJob
<1>n. m \in Nonces /\ e \in [call : Calls, at : Nat] /\ effects[m] = <<>>
  BY DEF Inv, TypeOK, OpInv, SpentInv, Run
<1>e. effects' = [effects EXCEPT ![m] = <<e>>]
  <2>1. effects' = [effects EXCEPT ![m] = Append(effects[m], e)]
    BY DEF Run
  <2>2. Append(<<>>, e) = <<e>>
    OBVIOUS
  <2> QED
    BY <1>n, <2>1, <2>2
<1>f. /\ e.call = job[p].call /\ e.at = job[p].at
      /\ Len(<<e>>) = 1 /\ <<e>>[1] = e /\ <<e>> # <<>>
      /\ <<e>> \in Seq([call : Calls, at : Nat])
  BY <1>n
<1>g. /\ effects'[m] = <<e>>
      /\ \A n \in Nonces \ {m} : effects'[n] = effects[n]
  BY <1>e, <1>n DEF Inv, TypeOK
<1> HIDE DEF e
<1>1. TypeOK'
  <2>1. effects' \in [Nonces -> Seq([call : Calls, at : Nat])]
    BY <1>e, <1>f, <1>n DEF Inv, TypeOK
  <2> QED
    BY <1>0, <2>1, AbsentRecord DEF Inv, TypeOK, Run, Return, JobType, Empty
<1>2. LockInv'
  BY ApprovalAssumption DEF Inv, TypeOK, LockInv, Run, Return
<1>3. OpInv'
  BY <1>0 DEF Inv, TypeOK, OpInv, Run, Return
<1>4. NonceInv'
  BY <1>0 DEF Inv, TypeOK, NonceInv, Run, Return
<1>5. StageInv'
  BY DEF Inv, TypeOK, StageInv, StagedOK, Run, Return
<1>6. SpentInv'
  <2>1. Spent(m)
    BY DEF Run, Spent
  <2>2. \A n \in Nonces : Spent(n)' => Spent(n)
    BY <1>g, <2>1 DEF Inv, TypeOK, Spent, Run, Return
  <2>3. \A q \in Procs : pc'[q] = "run" =>
          q # p /\ pc[q] = "run" /\ job'[q] = job[q] /\ job[q].nonce # m
    BY DEF Inv, TypeOK, SpentInv, Run, Return
  <2>4. \A q \in Procs : pc[q] = "run" => job[q].nonce \in Nonces
    BY DEF Inv, OpInv
  <2> QED
    BY <1>g, <2>2, <2>3, <2>4 DEF Inv, SpentInv, Run
<1>7. SingleUse'
  <2>1. Len(effects'[m]) <= 1
    BY <1>f, <1>g
  <2>2. \A n \in Nonces \ {m} : Len(effects'[n]) <= 1
    BY <1>g DEF Inv, SingleUse
  <2> QED
    BY <2>1, <2>2 DEF SingleUse
<1>8. ReviewInv'
  BY <1>0 DEF Inv, TypeOK, ReviewInv, Run, Return
<1>9. RunsWhatWasReviewed'
  <2>1. <<m, job[p].call>> \in reviewed /\ reviewed' = reviewed
    BY DEF Inv, ReviewInv, Run
  <2> QED
    BY <1>f, <1>g, <2>1 DEF Inv, RunsWhatWasReviewed
<1>10. WindowInv'
  BY DEF Inv, TypeOK, WindowInv, Run, Return
<1>11. UsedInWindow'
  <2>1. job[p].at < grantedAt[m] + UseTtl /\ grantedAt' = grantedAt
    BY DEF Inv, WindowInv, Run
  <2> QED
    BY <1>f, <1>g, <2>1 DEF Inv, UsedInWindow
<1> QED
  BY <1>1, <1>2, <1>3, <1>4, <1>5, <1>6, <1>7, <1>8, <1>9, <1>10, <1>11 DEF Inv

-----------------------------------------------------------------------------
(* Replacing the file                                                      *)

\* How a write changes the file and the grants.
LEMMA ReplaceEffect ==
  ASSUME Inv, NEW p \in Procs, Replace(p)
  PROVE  LET m == job[p].nonce IN
         /\ records' \in [Nonces -> StoredApprovalRecord]
         /\ \A n \in Nonces :
              n # m \/ job[p].op \in {"consume", "prune"} =>
                /\ records'[n] = records[n] \/ records'[n] = Absent
                /\ grantedAt'[n] = grantedAt[n]
         /\ job[p].op = "generate" =>
              /\ records'[m].state = "pending" /\ grantedAt'[m] = grantedAt[m]
         /\ job[p].op = "approve" =>
              /\ records'[m].state = "approved"
              /\ records'[m].call = records[m].call
              /\ records'[m].expires = grantedAt'[m] + UseTtl
         /\ job[p].op = "consume" => records'[m] = Absent
         /\ grantedAt' \in [Nonces -> Nat]
<1> DEFINE m == job[p].nonce
<1>0. /\ pc[p] = "write" /\ records' = Written(p) /\ now \in Nat
      /\ StagedOK(p) /\ TypeOK /\ OpInv
  <2>1. pc[p] = "write" /\ records' = Written(p)
    BY DEF Replace
  <2>2. TypeOK /\ OpInv /\ StageInv
    BY DEF Inv
  <2>3. now \in Nat
    BY <2>2, ApprovalAssumption DEF TypeOK
  <2> QED
    BY <2>1, <2>2, <2>3 DEF StageInv
<1>1. /\ job[p].op \in {"generate", "consume", "approve", "prune"}
      /\ job[p].op # "prune" => m \in Nonces
  BY <1>0 DEF TypeOK, OpInv
<1>2. /\ \A n \in Nonces : staged[p][n] = records[n] \/ staged[p][n] = Absent
      /\ job[p].op = "approve" => staged[p] = records
      /\ job[p].op = "consume" => staged[p][m] = Absent
  BY <1>0 DEF StagedOK
<1>3. /\ grantedAt' \in [Nonces -> Nat]
      /\ job[p].op = "approve" => grantedAt'[m] = now
      /\ job[p].op # "approve" => grantedAt' = grantedAt
      /\ \A n \in Nonces : n # m => grantedAt'[n] = grantedAt[n]
  BY <1>0, <1>1 DEF TypeOK, Replace
<1>4. job[p].op = "approve" =>
        /\ records'[m].state = "approved"
        /\ records'[m].call = records[m].call
        /\ records'[m].expires = now + UseTtl
  <2> SUFFICES ASSUME job[p].op = "approve"
               PROVE  /\ records'[m].state = "approved"
                      /\ records'[m].call = records[m].call
                      /\ records'[m].expires = now + UseTtl
    OBVIOUS
  <2>1. records'[m] = [records[m] EXCEPT !.state = "approved",
                                         !.expires = now + UseTtl]
    BY <1>0, <1>2, WrittenType
  <2>2. records[m] \in StoredApprovalRecord
    BY <1>0, <1>1 DEF TypeOK
  <2> QED
    BY <2>1, <2>2 DEF StoredApprovalRecord
<1>5. job[p].op = "generate" => records'[m].state = "pending"
  <2>1. job[p].op = "generate" =>
          records'[m] = [state |-> "pending", call |-> job[p].call,
                         expires |-> now + ApprovalTtl, informed |-> TRUE]
    BY <1>0, WrittenType
  <2> QED
    BY <2>1
<1>6. /\ records' \in [Nonces -> StoredApprovalRecord]
      /\ \A n \in Nonces :
           n # m \/ job[p].op \in {"consume", "prune"} => records'[n] = staged[p][n]
  BY <1>0, WrittenType
<1> QED
  BY <1>1, <1>2, <1>3, <1>4, <1>5, <1>6

\* Process p has written and given up the lock: it returned, or it goes on to
\* the effect or to the token with the arguments it had.
AfterWrite(p) ==
  /\ pc' = [pc EXCEPT ![p] = pc'[p]]
  /\ job' = [job EXCEPT ![p] = job'[p]]
  /\ job'[p] \in JobType
  /\ staged' = [staged EXCEPT ![p] = Empty]
  /\ lock' = None
  /\ \/ announced' = announced
     \/ job[p].op = "generate" /\ announced' = announced \cup {job[p].nonce}
  /\ UNCHANGED <<now, printed, reviewed, effects>>
  /\ \/ pc'[p] = "idle" /\ job'[p] = NoJob
     \/ /\ \/ pc'[p] = "run" /\ job[p].op = "consume"
           \/ pc'[p] = "print" /\ job[p].op = "approve" /\ job'[p].mac \in Macs
        /\ job'[p].op = job[p].op /\ job'[p].nonce = job[p].nonce
        /\ job'[p].call = job[p].call /\ job'[p].at = job[p].at

LEMMA ReplaceKeeps ==
  ASSUME Inv, NEW p \in Procs, Replace(p), AfterWrite(p)
  PROVE  Inv'
<1> DEFINE l == pc'[p]
           j == job'[p]
<1>h. /\ pc' = [pc EXCEPT ![p] = l] /\ l \in {"idle", "run", "print"}
      /\ job' = [job EXCEPT ![p] = j] /\ j \in JobType
      /\ staged' = [staged EXCEPT ![p] = Empty]
      /\ lock' = None
      /\ \/ announced' = announced
         \/ job[p].op = "generate" /\ announced' = announced \cup {job[p].nonce}
      /\ UNCHANGED <<now, printed, reviewed, effects>>
      /\ l = "idle" => j = NoJob
      /\ l # "idle" => /\ j.op = job[p].op /\ j.nonce = job[p].nonce
                       /\ j.call = job[p].call /\ j.at = job[p].at
      /\ l = "run" => job[p].op = "consume"
      /\ l = "print" => job[p].op = "approve" /\ j.mac \in Macs
  BY DEF AfterWrite
<1> HIDE DEF l, j
<1> USE <1>h
<1> DEFINE m == job[p].nonce
<1>0. /\ pc[p] = "write" /\ StagedOK(p)
      /\ job[p].op \in {"generate", "consume", "approve", "prune"}
      /\ job[p].op # "prune" => m \in Nonces
  BY DEF Inv, TypeOK, OpInv, StageInv, Replace
<1>r. /\ records' \in [Nonces -> StoredApprovalRecord]
      /\ \A n \in Nonces :
           n # m \/ job[p].op \in {"consume", "prune"} =>
             /\ records'[n] = records[n] \/ records'[n] = Absent
             /\ grantedAt'[n] = grantedAt[n]
      /\ job[p].op = "generate" =>
           /\ records'[m].state = "pending" /\ grantedAt'[m] = grantedAt[m]
      /\ job[p].op = "approve" =>
           /\ records'[m].state = "approved"
           /\ records'[m].call = records[m].call
           /\ records'[m].expires = grantedAt'[m] + UseTtl
      /\ job[p].op = "consume" => records'[m] = Absent
      /\ grantedAt' \in [Nonces -> Nat]
  BY ReplaceEffect
<1>j. /\ NoJob.op = "none" /\ job'[p] = j /\ pc'[p] = l
      /\ \A q \in Procs \ {p} : job'[q] = job[q] /\ pc'[q] = pc[q]
  BY NoJobType DEF Inv, TypeOK, NoJob
<1>a. Absent.state = "absent"
  BY AbsentRecord
<1>w. \A q \in Procs \ {p} : pc[q] \notin {"held", "write"}
  BY <1>0 DEF Inv, LockInv
<1>s. \A n \in Nonces : Spent(n) =>
        /\ n \in announced /\ records[n].state = "absent"
        /\ n = m => job[p].op \in {"consume", "prune"}
  BY <1>0 DEF Inv, SpentInv, NonceInv, StagedOK
<1>1. TypeOK'
  <2>1. announced' \subseteq Nonces
    BY <1>0 DEF Inv, TypeOK
  <2>2. staged' \in [Procs -> [Nonces -> StoredApprovalRecord]]
    BY AbsentRecord DEF Inv, TypeOK, Empty
  <2> QED
    BY <1>r, <2>1, <2>2 DEF Inv, TypeOK, JobType
<1>2. LockInv'
  BY <1>j, <1>w, ApprovalAssumption DEF LockInv
<1>3. OpInv'
  BY <1>0, <1>j DEF Inv, OpInv
<1>4. NonceInv'
  <2>1. \A q \in Procs : job'[q].op = "generate" =>
          /\ q # p /\ job[q].op = "generate" /\ job'[q] = job[q]
          /\ job[q].nonce \in Nonces
          /\ job[q].nonce \notin announced /\ records[job[q].nonce].state = "absent"
          /\ job[q].nonce = m => job[p].op = "prune"
    BY <1>0, <1>j DEF Inv, NonceInv, OpInv
  <2>2. \A q \in Procs : job'[q].op = "generate" =>
          /\ job'[q].nonce \notin announced'
          /\ records'[job'[q].nonce].state = "absent"
    BY <1>r, <1>a, <2>1
  <2>3. \A q \in Procs : job'[q].op \in {"consume", "inspect", "approve"} =>
          job'[q].nonce \in announced'
    BY <1>j DEF Inv, NonceInv
  <2>4. \A q, s \in Procs :
          job'[q].op = "generate" /\ job'[s].op = "generate"
            /\ job'[q].nonce = job'[s].nonce => q = s
    BY <2>1 DEF Inv, NonceInv
  <2> QED
    BY <2>2, <2>3, <2>4 DEF NonceInv
<1>5. StageInv'
  BY <1>j, <1>w DEF StageInv
<1>6. SpentInv' /\ SingleUse'
  <2>1. l = "run" =>
          /\ records[m].state = "approved" /\ m \in Nonces /\ ~Spent(m)
          /\ m \in announced
    BY <1>0, <1>s DEF Inv, NonceInv, StagedOK
  <2>2. \A n \in Nonces : Spent(n)' => Spent(n) \/ (n = m /\ l = "run")
    BY <1>j DEF Spent
  <2>3. \A n \in Nonces : Spent(n)' => records'[n].state = "absent" /\ n \in announced'
    BY <1>r, <1>a, <1>s, <2>1, <2>2
  <2>4. \A q \in Procs : pc'[q] = "run" => effects'[job'[q].nonce] = <<>>
    BY <1>j, <2>1 DEF Inv, SpentInv, Spent
  <2>5. \A q, s \in Procs :
          pc'[q] = "run" /\ pc'[s] = "run" /\ job'[q].nonce = job'[s].nonce => q = s
    BY <1>j, <2>1 DEF Inv, SpentInv, Spent
  <2> QED
    BY <2>3, <2>4, <2>5 DEF Inv, SpentInv, SingleUse
<1>7. ReviewInv' /\ RunsWhatWasReviewed'
  <2>1. \A n \in Nonces :
          records'[n].state = "approved" /\ records'[n].informed =>
            <<n, records'[n].call>> \in reviewed'
    <3>1. job[p].op = "approve" =>
            /\ records[m].call = job[p].call
            /\ <<m, job[p].call>> \in reviewed
      BY <1>0 DEF Inv, ReviewInv, StagedOK
    <3> QED
      BY <1>0, <1>r, <1>a, <3>1 DEF Inv, ReviewInv
  <2>2. \A q \in Procs : pc'[q] = "confirm" \/ job'[q].op = "approve" =>
          \/ records'[job'[q].nonce].state = "absent"
          \/ records'[job'[q].nonce].call = job'[q].call
    <3> SUFFICES ASSUME NEW q \in Procs,
                        pc'[q] = "confirm" \/ job'[q].op = "approve"
                 PROVE  \/ records'[job'[q].nonce].state = "absent"
                        \/ records'[job'[q].nonce].call = job'[q].call
      OBVIOUS
    <3>1. /\ pc[q] = "confirm" \/ job[q].op = "approve"
          /\ job'[q].nonce = job[q].nonce /\ job'[q].call = job[q].call
      BY <1>j
    <3>2. /\ job[q].nonce \in Nonces /\ job[q].nonce \in announced
          /\ \/ records[job[q].nonce].state = "absent"
             \/ records[job[q].nonce].call = job[q].call
      BY <3>1 DEF Inv, OpInv, NonceInv, ReviewInv
    <3>3. job[p].op = "generate" => job[q].nonce # m
      BY <3>2 DEF Inv, NonceInv
    <3>4. job[p].op = "approve" => records[m].state = "pending"
      BY <1>0 DEF StagedOK
    <3> QED
      BY <1>0, <1>r, <1>a, <3>1, <3>2, <3>3, <3>4
  <2>3. \A q \in Procs :
          /\ job'[q].op = "approve" => <<job'[q].nonce, job'[q].call>> \in reviewed'
          /\ pc'[q] = "run" => <<job'[q].nonce, job'[q].call>> \in reviewed'
    <3>1. job[p].op = "consume" => <<m, job[p].call>> \in reviewed
      BY <1>0 DEF Inv, ReviewInv, StagedOK
    <3> QED
      BY <1>j, <3>1 DEF Inv, ReviewInv
  <2> QED
    BY <2>1, <2>2, <2>3 DEF Inv, ReviewInv, RunsWhatWasReviewed
<1>8. WindowInv' /\ UsedInWindow'
  <2>1. \A n \in Nonces :
          records'[n].state = "approved" /\ records'[n].informed =>
            records'[n].expires = grantedAt'[n] + UseTtl
    BY <1>0, <1>r, <1>a DEF Inv, WindowInv
  <2>2. \A n \in Nonces : Spent(n) => grantedAt'[n] = grantedAt[n]
    BY <1>r, <1>s
  <2>3. \A q \in Procs :
          pc'[q] = "run" => job'[q].at < grantedAt'[job'[q].nonce] + UseTtl
    <3>1. job[p].op = "consume" =>
            /\ job[p].at < grantedAt[m] + UseTtl
            /\ grantedAt'[m] = grantedAt[m]
      BY <1>0, <1>r DEF Inv, WindowInv, StagedOK
    <3>2. \A q \in Procs : pc[q] = "run" =>
            /\ job[q].at < grantedAt[job[q].nonce] + UseTtl
            /\ grantedAt'[job[q].nonce] = grantedAt[job[q].nonce]
      BY <2>2 DEF Inv, OpInv, WindowInv, Spent
    <3> QED
      BY <1>j, <3>1, <3>2
  <2>4. UsedInWindow'
    <3> SUFFICES ASSUME NEW n \in Nonces, NEW i \in 1..Len(effects[n])
                 PROVE  effects[n][i].at < grantedAt'[n] + UseTtl
      BY DEF UsedInWindow
    <3>1. effects[n] # <<>>
      BY DEF Inv, TypeOK
    <3> QED
      BY <2>2, <3>1 DEF Inv, UsedInWindow, Spent
  <2> QED
    BY <2>1, <2>3, <2>4 DEF WindowInv
<1> QED
  BY <1>1, <1>2, <1>3, <1>4, <1>5, <1>6, <1>7, <1>8 DEF Inv

LEMMA WriteKeeps ==
  ASSUME Inv, NEW p \in Procs, Write(p) \/ WriteUnsynced(p)
  PROVE  Inv'
<1>0. /\ Replace(p) /\ lock = p /\ pc[p] = "write"
      /\ job[p] \in JobType
      /\ job[p].op \in {"generate", "consume", "approve", "prune"}
  BY DEF Inv, TypeOK, OpInv, LockInv, Write, WriteUnsynced, Replace, JobType
<1>1. ASSUME Return(p), UNCHANGED <<now, printed, reviewed, effects>>,
             \/ announced' = announced
             \/ job[p].op = "generate" /\ announced' = announced \cup {job[p].nonce}
      PROVE  Inv'
  <2>1. AfterWrite(p)
    BY <1>0, <1>1, NoJobType DEF Inv, TypeOK, Return, AfterWrite
  <2> QED
    BY <1>0, <2>1, ReplaceKeeps
<1>2. CASE Write(p) /\ job[p].op \in {"consume", "approve"}
  <2> DEFINE t == <<job[p].nonce, staged[p][job[p].nonce].call.params>>
             j == [job[p] EXCEPT !.mac = t]
             l == IF job[p].op = "consume" THEN "run" ELSE "print"
  <2>1. /\ job' = [job EXCEPT ![p].mac = t]
        /\ pc' = [pc EXCEPT ![p] = l]
        /\ lock' = None /\ staged' = [staged EXCEPT ![p] = Empty]
        /\ announced' = announced /\ UNCHANGED <<now, printed, reviewed, effects>>
    BY <1>2 DEF Write
  <2>2. t \in Macs
    <3>1. job[p].nonce \in Nonces
      BY <1>2 DEF Inv, OpInv
    <3>2. staged[p][job[p].nonce].call \in Calls
      BY <3>1 DEF Inv, TypeOK, StoredApprovalRecord
    <3> QED
      BY <3>1, <3>2 DEF Calls, Macs
  <2>3. /\ j \in JobType /\ j.mac \in Macs
        /\ j.op = job[p].op /\ j.nonce = job[p].nonce
        /\ j.call = job[p].call /\ j.at = job[p].at
    BY <1>0, <2>2 DEF JobType
  <2>4. job' = [job EXCEPT ![p] = j] /\ job'[p] = j /\ pc'[p] = l
    BY <2>1 DEF Inv, TypeOK
  <2>5. \/ l = "run" /\ job[p].op = "consume"
        \/ l = "print" /\ job[p].op = "approve"
    BY <1>2
  <2> HIDE DEF j, l
  <2>6. AfterWrite(p)
    BY <2>1, <2>3, <2>4, <2>5 DEF AfterWrite
  <2> QED
    BY <1>0, <2>6, ReplaceKeeps
<1> QED
  BY <1>0, <1>1, <1>2 DEF Write, WriteUnsynced

-----------------------------------------------------------------------------
(* The invariant                                                           *)

LEMMA CheckKeeps ==
  ASSUME Inv, NEW p \in Procs, Check(p)
  PROVE  Inv'
<1>0. pc[p] = "held" /\ records \in [Nonces -> StoredApprovalRecord]
  BY DEF Inv, TypeOK, Check
<1>1. CASE Refuse(p)
  BY <1>1, ReturnKeeps DEF Refuse
<1>2. /\ Live \in [Nonces -> StoredApprovalRecord]
      /\ \A n \in Nonces :
           Live[n] = records[n] \/ (Live[n] = Absent /\ records[n].expires <= now)
  <2>1. \A n \in Nonces : records[n].expires \in Nat /\ now \in Nat
    BY <1>0, ApprovalAssumption DEF Inv, TypeOK, StoredApprovalRecord
  <2> QED
    BY <1>0, <2>1, AbsentRecord DEF Live, Expired
<1>3. CASE Generate(p)
  BY <1>0, <1>2, <1>3, StageKeeps DEF Generate
<1>4. CASE Prune(p) /\ ~Refuse(p)
  BY <1>0, <1>2, <1>4, StageKeeps DEF Prune
<1>5. CASE Consume(p) /\ ~Refuse(p)
  <2> DEFINE rs == [records EXCEPT ![job[p].nonce] = Absent]
  <2>1. /\ Stage(p, rs) /\ job[p].op = "consume" /\ job[p].nonce \in Nonces
        /\ Admissible(records[job[p].nonce], job[p])
    BY <1>5 DEF Consume, Inv, OpInv
  <2>2. /\ rs \in [Nonces -> StoredApprovalRecord] /\ rs[job[p].nonce] = Absent
        /\ \A n \in Nonces : rs[n] = records[n] \/ (rs[n] = Absent /\ job[p].nonce = n)
    BY <1>0, <2>1, AbsentRecord
  <2> HIDE DEF rs
  <2> QED
    BY <1>0, <2>1, <2>2, StageKeeps
<1>6. CASE Approve(p) /\ ~Refuse(p)
  BY <1>0, <1>6, StageKeeps DEF Approve
<1>7. CASE Inspect(p) /\ ~Refuse(p)
  BY <1>0, <1>7, InspectKeeps DEF Inspect
<1> QED
  BY <1>1, <1>3, <1>4, <1>5, <1>6, <1>7 DEF Check

LEMMA NextKeeps == Inv /\ [Next]_vars => Inv'
<1> SUFFICES ASSUME Inv, [Next]_vars PROVE Inv'
  OBVIOUS
<1>t. announced \subseteq Nonces /\ printed \subseteq Macs
  BY DEF Inv, TypeOK
<1>n. /\ NoJob \in JobType /\ NoJob.mac = Forged
      /\ Servers \subseteq Procs /\ Terminals \subseteq Procs
  BY NoJobType DEF NoJob, Procs
<1>1. ASSUME NEW s \in Servers, NEW c \in Calls, NEW n \in Nonces, Request(s, c, n)
      PROVE  Inv'
  <2> DEFINE j == [NoJob EXCEPT !.op = "generate", !.nonce = n, !.call = c]
  <2>1. j \in JobType /\ j.op = "generate" /\ j.nonce = n
    BY <1>n DEF JobType
  <2>2. Start(s, j) /\ Fresh(n)
    BY <1>1 DEF Request
  <2> HIDE DEF j
  <2> QED
    BY <1>n, <2>1, <2>2, StartKeeps
<1>2. ASSUME NEW s \in Servers, NEW c \in Calls, NEW n \in announced,
             NEW m \in printed \cup {Forged}, Retry(s, c, n, m)
      PROVE  Inv'
  <2> DEFINE j == [NoJob EXCEPT !.op = "consume", !.nonce = n, !.mac = m, !.call = c]
  <2>1. j \in JobType /\ j.op = "consume" /\ j.nonce = n
    BY <1>n, <1>t DEF JobType
  <2>2. Start(s, j)
    BY <1>2 DEF Retry
  <2> HIDE DEF j
  <2> QED
    BY <1>n, <2>1, <2>2, StartKeeps
<1>3. ASSUME NEW t \in Terminals, NEW n \in announced, Review(t, n)
      PROVE  Inv'
  <2> DEFINE j == [NoJob EXCEPT !.op = "inspect", !.nonce = n]
  <2>1. j \in JobType /\ j.op = "inspect" /\ j.nonce = n
    BY <1>n, <1>t DEF JobType
  <2>2. Start(t, j)
    BY <1>3 DEF Review
  <2> HIDE DEF j
  <2> QED
    BY <1>n, <2>1, <2>2, StartKeeps
<1>4. ASSUME NEW t \in Terminals, PruneStale(t) PROVE Inv'
  <2> DEFINE j == [NoJob EXCEPT !.op = "prune"]
  <2>1. j \in JobType /\ j.op = "prune"
    BY <1>n DEF JobType
  <2>2. Start(t, j)
    BY <1>4 DEF PruneStale
  <2> HIDE DEF j
  <2> QED
    BY <1>n, <2>1, <2>2, StartKeeps
<1>5. ASSUME NEW t \in Terminals, PrintToken(t) \/ Confirm(t) \/ Cancel(t)
      PROVE  Inv'
  BY <1>5, <1>n, PrintKeeps, ConfirmKeeps, ReturnKeeps DEF Cancel
<1>6. ASSUME NEW s \in Servers, Run(s) PROVE Inv'
  BY <1>6, <1>n, RunKeeps
<1>7. ASSUME NEW p \in Procs,
             \/ Acquire(p) \/ Check(p) \/ Write(p) \/ WriteUnsynced(p) \/ Abort(p)
      PROVE  Inv'
  BY <1>7, AcquireKeeps, CheckKeeps, WriteKeeps, ReturnKeeps DEF Abort
<1>8. CASE Clock
  BY <1>8, ClockKeeps
<1>9. CASE UNCHANGED vars
  <2>0. TypeOK'
    BY <1>9 DEF Inv, TypeOK, vars
  <2>1. LockInv' /\ OpInv' /\ NonceInv' /\ StageInv'
    BY <1>9 DEF Inv, LockInv, OpInv, NonceInv, StageInv, StagedOK, vars
  <2>2. SpentInv' /\ SingleUse'
    BY <1>9 DEF Inv, SpentInv, Spent, SingleUse, vars
  <2>3. ReviewInv' /\ RunsWhatWasReviewed' /\ WindowInv' /\ UsedInWindow'
    BY <1>9 DEF Inv, ReviewInv, RunsWhatWasReviewed, WindowInv, UsedInWindow, vars
  <2> QED
    BY <2>0, <2>1, <2>2, <2>3 DEF Inv
<1> QED
  BY <1>1, <1>2, <1>3, <1>4, <1>5, <1>6, <1>7, <1>8, <1>9 DEF Next

LEMMA Invariance == Spec => []Inv
BY InitInv, NextKeeps, PTL DEF Spec

-----------------------------------------------------------------------------
(* Theorems                                                                *)

\* Type correctness of the approval store, the gate and the ceremony.
THEOREM ApprovalTypeCorrect == Spec => []TypeOK
BY Invariance, PTL DEF Inv

\* A token printed by mcp-approve lets at most one effect run, for any number
\* of concurrent calls, failed writes and crashes
\* (validate_and_consume_approval).
THEOREM ApprovalIsSingleUse == Spec => []SingleUse
BY Invariance, PTL DEF Inv

\* What runs on a nonce is the call the operator confirmed for it
\* (review_and_confirm, approve_nonce, validate_and_consume_approval).
THEOREM EffectsWereReviewed == Spec => []RunsWhatWasReviewed
BY Invariance, PTL DEF Inv

\* No call is let in after the use window of its approval (is_expired, and
\* the expiry approve_nonce sets).
THEOREM EffectsInWindow == Spec => []UsedInWindow
BY Invariance, PTL DEF Inv

\* Only a write changes the file.
LEMMA OnlyWritesChange ==
  ASSUME [Next]_vars, records' # records
  PROVE  \E p \in Procs : Replace(p)
<1>1. CASE UNCHANGED vars
  BY <1>1 DEF vars
<1>2. \A p, j : Start(p, j) => records' = records
  BY DEF Start
<1>3. ASSUME NEW p \in Procs, Check(p) PROVE records' = records
  BY <1>3 DEF Check, Generate, Consume, Inspect, Approve, Prune, Stage, Refuse
<1>4. ASSUME NEW p \in Procs, Write(p) \/ WriteUnsynced(p) PROVE Replace(p)
  BY <1>4 DEF Write, WriteUnsynced
<1>5. ASSUME NEW p, Acquire(p) \/ Abort(p) \/ Run(p) \/ PrintToken(p) \/ Confirm(p)
                    \/ Cancel(p)
      PROVE  records' = records
  BY <1>5 DEF Acquire, Abort, Run, PrintToken, Confirm, Cancel
<1>6. CASE Clock
  BY <1>6 DEF Clock
<1> QED
  BY <1>1, <1>2, <1>3, <1>4, <1>5, <1>6
  DEF Next, Request, Retry, Review, PruneStale

\* An approval disappears only when a call consumes it or when the operation
\* that drops it found it expired (write_records replaces the whole file).
THEOREM ApprovalsAreKept == Spec => ApprovalsKept
<1>1. ASSUME Inv, [Next]_vars, NEW n \in Nonces,
             records[n].state = "approved", records'[n] # records[n]
      PROVE  \E p \in Procs :
               /\ pc[p] = "write"
               /\ \/ job[p].op = "consume" /\ job[p].nonce = n
                  \/ records[n].expires <= job[p].at
  <2>1. PICK p \in Procs : Replace(p)
    BY <1>1, OnlyWritesChange
  <2>2. pc[p] = "write" /\ StagedOK(p) /\ TypeOK /\ OpInv /\ NonceInv
    BY <1>1, <2>1 DEF Inv, StageInv, Replace
  <2>3. job[p].op \in {"generate", "approve"} => job[p].nonce # n
    BY <1>1, <2>2 DEF StagedOK, NonceInv
  <2>4. records'[n] = staged[p][n]
    <3>1. job[p].op \in {"generate", "approve", "consume", "prune"}
      BY <2>2 DEF TypeOK, OpInv
    <3>2. records' = Written(p)
      BY <2>1 DEF Replace
    <3> QED
      BY <2>2, <2>3, <3>1, <3>2, WrittenType
  <2> QED
    BY <1>1, <2>2, <2>4 DEF StagedOK
<1>2. Inv /\ [Next]_vars =>
        [\A n \in Nonces :
           records[n].state = "approved" /\ records'[n] # records[n] =>
             \E p \in Procs :
               /\ pc[p] = "write"
               /\ \/ job[p].op = "consume" /\ job[p].nonce = n
                  \/ records[n].expires <= job[p].at]_vars
  BY <1>1
<1> QED
  BY <1>2, Invariance, PTL DEF Spec, ApprovalsKept

-----------------------------------------------------------------------------
(* The npm wrapper's cache of the binary, for any invocations and versions   *)
(* and wherever they are killed.  The lock is with the one invocation that   *)
(* installs (OwnerInv); what is in the cache goes with the calls that it has *)
(* still to make (ProgressOf), and before and after each of them a recovery  *)
(* would end with the same version (CacheInv).  Both hold until the lock of  *)
(* a live invocation is taken over.                                          *)

CONSTANTS Invocations, Versions, Version, Missing, MaxDeaths, MaxSuspends

VARIABLES installLock, cache, place, todo, result, deaths, suspends, last, displaced

Wrapper == INSTANCE InstallCache WITH
    Procs <- Invocations, None <- Missing, lock <- installLock, pc <- place

\* The renames and removals that are left in a phase.
Clean4 == <<Wrapper!Remove("binary"), Wrapper!Remove("manifest"), Wrapper!Remove("backupBinary"),
         Wrapper!Remove("backupManifest")>>
Clean3 == <<Wrapper!Remove("manifest"), Wrapper!Remove("backupBinary"), Wrapper!Remove("backupManifest")>>
Clean2 == <<Wrapper!Remove("backupBinary"), Wrapper!Remove("backupManifest")>>
Clean1 == <<Wrapper!Remove("backupManifest")>>

Restore4 == <<Wrapper!Remove("binary"), Wrapper!Remove("manifest"),
              Wrapper!Rename("backupBinary", "binary"), Wrapper!Rename("backupManifest", "manifest")>>
Restore3 == <<Wrapper!Remove("manifest"), Wrapper!Rename("backupBinary", "binary"),
         Wrapper!Rename("backupManifest", "manifest")>>
Restore2 == <<Wrapper!Rename("backupBinary", "binary"), Wrapper!Rename("backupManifest", "manifest")>>
Restore1 == <<Wrapper!Rename("backupManifest", "manifest")>>

Aside2 == <<Wrapper!Rename("manifest", "backupManifest"), Wrapper!Rename("binary", "backupBinary")>>
Aside1 == <<Wrapper!Rename("binary", "backupBinary")>>

Drop2 == <<Wrapper!Remove("binary"), Wrapper!Remove("manifest")>>
Drop1 == <<Wrapper!Remove("manifest")>>

Swap2 == <<Wrapper!Place("binary"), Wrapper!Place("manifest")>>
Swap1 == <<Wrapper!Place("manifest")>>

Lists == {<<>>, Clean4, Clean3, Clean2, Clean1, Restore4, Restore3, Restore2, Restore1, Aside2, Aside1,
          Drop2, Drop1, Swap2, Swap1}

\* What the calls of the file system are.
LEMMA CallsAre ==
  /\ \A f : Wrapper!Remove(f)[1] = "remove" /\ Wrapper!Remove(f)[2] = f
  /\ \A f, g : Wrapper!Rename(f, g)[1] = "rename" /\ Wrapper!Rename(f, g)[2] = f /\ Wrapper!Rename(f, g)[3] = g
  /\ \A f : Wrapper!Place(f)[1] = "place" /\ Wrapper!Place(f)[2] = f
BY DEF Wrapper!Remove, Wrapper!Rename, Wrapper!Place

\* The first call of a list of one, two, three or four, and what is left after it.
LEMMA ListOfOne == \A a : <<a>> # <<>> /\ Head(<<a>>) = a /\ Tail(<<a>>) = <<>> /\ Len(<<a>>) = 1
OBVIOUS

\* The same of two.
LEMMA ListOfTwo ==
  \A a, b : /\ <<a, b>> # <<>> /\ Head(<<a, b>>) = a
            /\ Tail(<<a, b>>) = <<b>> /\ Len(<<a, b>>) = 2
OBVIOUS

\* The same of three.
LEMMA ListOfThree ==
  \A a, b, c : /\ <<a, b, c>> # <<>> /\ Head(<<a, b, c>>) = a
               /\ Tail(<<a, b, c>>) = <<b, c>> /\ Len(<<a, b, c>>) = 3
OBVIOUS

\* The same of four.
LEMMA ListOfFour ==
  \A a, b, c, d : /\ <<a, b, c, d>> # <<>> /\ Head(<<a, b, c, d>>) = a
                  /\ Tail(<<a, b, c, d>>) = <<b, c, d>> /\ Len(<<a, b, c, d>>) = 4
OBVIOUS

\* The same of the lists that a phase goes through.
LEMMA Firsts ==
  /\ Clean4 # <<>> /\ Head(Clean4) = Wrapper!Remove("binary") /\ Tail(Clean4) = Clean3
  /\ Clean3 # <<>> /\ Head(Clean3) = Wrapper!Remove("manifest") /\ Tail(Clean3) = Clean2
  /\ Clean2 # <<>> /\ Head(Clean2) = Wrapper!Remove("backupBinary") /\ Tail(Clean2) = Clean1
  /\ Clean1 # <<>> /\ Head(Clean1) = Wrapper!Remove("backupManifest") /\ Tail(Clean1) = <<>>
  /\ Restore4 # <<>> /\ Head(Restore4) = Wrapper!Remove("binary") /\ Tail(Restore4) = Restore3
  /\ Restore3 # <<>> /\ Head(Restore3) = Wrapper!Remove("manifest") /\ Tail(Restore3) = Restore2
  /\ Restore2 # <<>> /\ Head(Restore2) = Wrapper!Rename("backupBinary", "binary") /\ Tail(Restore2) = Restore1
  /\ Restore1 # <<>> /\ Head(Restore1) = Wrapper!Rename("backupManifest", "manifest") /\ Tail(Restore1) = <<>>
  /\ Aside2 # <<>> /\ Head(Aside2) = Wrapper!Rename("manifest", "backupManifest") /\ Tail(Aside2) = Aside1
  /\ Aside1 # <<>> /\ Head(Aside1) = Wrapper!Rename("binary", "backupBinary") /\ Tail(Aside1) = <<>>
  /\ Drop2 # <<>> /\ Head(Drop2) = Wrapper!Remove("binary") /\ Tail(Drop2) = Drop1
  /\ Drop1 # <<>> /\ Head(Drop1) = Wrapper!Remove("manifest") /\ Tail(Drop1) = <<>>
  /\ Swap2 # <<>> /\ Head(Swap2) = Wrapper!Place("binary") /\ Tail(Swap2) = Swap1
  /\ Swap1 # <<>> /\ Head(Swap1) = Wrapper!Place("manifest") /\ Tail(Swap1) = <<>>
BY ListOfOne, ListOfTwo, ListOfThree, ListOfFour
   DEF Clean4, Clean3, Clean2, Clean1, Restore4, Restore3, Restore2, Restore1, Aside2, Aside1,
       Drop2, Drop1, Swap2, Swap1

Labels == Wrapper!Waiting \cup {"own"} \cup Wrapper!Installing \cup Wrapper!Releasing \cup {"ended", "killed"}

Moving == {"recovering", "undoing", "recheck", "unchecked", "aside", "swap", "tidy"}

Locks == [owner : Invocations \cup {Missing}, stale : BOOLEAN]

InstallShape ==
    /\ installLock \in {Missing} \cup Locks
    /\ cache \in [Wrapper!Files -> Versions \cup {Missing, Wrapper!Direct}]
    /\ place \in [Invocations -> Labels]
    /\ todo \in [Invocations -> Lists]
    /\ result \in [Invocations -> {"none", "binary", "error"}]
    /\ deaths \in 0..MaxDeaths /\ suspends \in 0..MaxSuspends
    /\ last \in Versions \cup {Missing}
    /\ displaced \in BOOLEAN

\* Renames and removals are left only where they are made.
TodoInv == \A p \in Invocations : todo[p] # <<>> => place[p] \in Moving

Active(p) == place[p] \in Wrapper!Installing \cup Wrapper!Releasing

\* The lock is with the one invocation that installs, or is being made by one.
OwnerInv ==
    /\ \A p \in Invocations : Active(p) => installLock # Missing /\ installLock.owner = p
    /\ \A p \in Invocations : place[p] = "own" => installLock # Missing /\ installLock.owner = Missing
    /\ \A p, q \in Invocations : place[p] = "own" /\ place[q] = "own" => p = q

Current == Wrapper!Verified("binary", "manifest")

Backup == Wrapper!Verified("backupBinary", "backupManifest")

Nowhere(fs) == \A f \in fs : cache[f] = Missing

\* How far the backup has come back.
ComesBack(list) ==
    \/ list = Restore4 /\ ~Current /\ Backup
    \/ list = Restore3 /\ cache.binary = Missing /\ Backup
    \/ list = Restore2 /\ cache.binary = Missing /\ cache.manifest = Missing /\ Backup
    \/ list = Restore1 /\ cache.binary # Missing /\ cache.manifest = Missing
                       /\ cache.backupManifest = cache.binary

\* What a recovery leaves: a pair that verifies, or nothing.
Recovered == Current \/ Nowhere(Wrapper!Files)

\* How far the rest has been cleared away.
IsCleared(list) ==
    \/ list = Clean4 /\ ~Current /\ ~Backup /\ ~Wrapper!OnlyManifestAway
    \/ list = Clean3 /\ cache.binary = Missing /\ ~Backup
    \/ list = Clean2 /\ (Current \/ (cache.binary = Missing /\ cache.manifest = Missing /\ ~Backup))
    \/ list = Clean1 /\ (Current \/ Nowhere({"binary", "manifest", "backupBinary"}))
    \/ list = <<>> /\ Recovered

\* The pair that was completed last is the backup.
InBackup == cache.backupBinary = last /\ cache.backupManifest = last

\* How far the previous pair is set aside.
IsAside(list) ==
    \/ list = Aside2 /\ Current
    \/ list = Aside1 /\ cache.binary # Missing /\ cache.manifest = Missing
             /\ cache.backupManifest = cache.binary
    \/ list \in {Drop2, Drop1} /\ Nowhere(Wrapper!Files)
    \/ list = <<>> /\ cache.binary = Missing /\ cache.manifest = Missing /\ InBackup

\* How far the new pair is in place.
IsSwapped(p, list) ==
    \/ list = Swap2 /\ cache.binary = Missing /\ cache.manifest = Missing /\ InBackup
    \/ list = Swap1 /\ cache.binary = Version[p] /\ cache.manifest = Missing /\ InBackup
    \/ list = <<>> /\ Wrapper!OfVersion(p)

\* What the cache holds while an invocation is at a place with calls to make.
ProgressOf(p, at, list, res) ==
    /\ at = "recover" => list = <<>>
    /\ at = "recheck" => \/ list = Restore1 /\ Wrapper!OnlyManifestAway
                         \/ list = <<>> /\ cache.manifest # Missing /\ cache.backupManifest = Missing
    /\ at = "recovering" => ComesBack(list) \/ IsCleared(list)
    /\ at \in {"fetch", "replace"} => list = <<>> /\ Recovered
    /\ at = "aside" => IsAside(list)
    /\ at = "swap" => IsSwapped(p, list)
    /\ at = "tidy" => list \in {Clean2, Clean1, <<>>} /\ Wrapper!OfVersion(p)
    /\ at \notin {"undo", "undoing", "unchecked"}
    /\ at \in Wrapper!Releasing => list = <<>> /\ (res = "binary" => Wrapper!OfVersion(p))

CacheInv ==
    /\ Wrapper!Restored = last
    /\ \A p \in Invocations : Active(p) => ProgressOf(p, place[p], todo[p], result[p])

InstallInv == InstallShape /\ TodoInv /\ (displaced = FALSE => OwnerInv /\ CacheInv)

\* A step of p that leaves the lock and the cache alone.
LEMMA OwnStep ==
  ASSUME InstallInv, NEW p \in Invocations, NEW to \in Labels, NEW list \in Lists,
         NEW res \in {"none", "binary", "error"},
         place' = [place EXCEPT ![p] = to],
         todo' = [todo EXCEPT ![p] = list], result' = [result EXCEPT ![p] = res],
         UNCHANGED <<installLock, cache, last, displaced>>,
         deaths' \in 0..MaxDeaths, suspends' \in 0..MaxSuspends,
         to # "own", to \in Wrapper!Installing \cup Wrapper!Releasing => Active(p),
         list # <<>> => to \in Moving,
         displaced = FALSE /\ to \in Wrapper!Installing \cup Wrapper!Releasing /\ OwnerInv /\ CacheInv =>
             ProgressOf(p, to, list, res)
  PROVE  InstallInv'
<1>1. InstallShape /\ TodoInv
  BY DEF InstallInv
<1>2. /\ place \in [Invocations -> Labels] /\ todo \in [Invocations -> Lists]
      /\ result \in [Invocations -> {"none", "binary", "error"}]
  BY <1>1 DEF InstallShape
<1>3. /\ place'[p] = to /\ todo'[p] = list /\ result'[p] = res
      /\ \A q \in Invocations \ {p} : place'[q] = place[q] /\ todo'[q] = todo[q] /\ result'[q] = result[q]
      /\ place' \in [Invocations -> Labels] /\ todo' \in [Invocations -> Lists]
      /\ result' \in [Invocations -> {"none", "binary", "error"}]
  BY <1>2
<1>4. InstallShape' /\ TodoInv'
  BY <1>1, <1>3 DEF InstallShape, TodoInv
<1>5. ASSUME displaced' = FALSE PROVE OwnerInv' /\ CacheInv'
  <2>1. displaced = FALSE /\ OwnerInv /\ CacheInv
    BY <1>5 DEF InstallInv
  <2>2. \A q \in Invocations : (Active(q)' => Active(q)) /\ (place'[q] = "own" => place[q] = "own")
    BY <1>3 DEF Active
  <2>3. OwnerInv'
    BY <2>1, <2>2 DEF OwnerInv
  <2>4. Wrapper!Restored' = last'
    BY <2>1 DEF CacheInv, Wrapper!Restored, Wrapper!Verified, Wrapper!OnlyManifestAway
  <2>5. ASSUME NEW q \in Invocations, Active(q)' PROVE ProgressOf(q, place[q], todo[q], result[q])'
    <3>1. CASE q = p
      <4>1. ProgressOf(p, to, list, res)
        BY <1>3, <2>1, <2>5, <3>1 DEF Active
      <4> QED BY <1>3, <3>1, <4>1
         DEF ProgressOf, ComesBack, IsCleared, IsAside, IsSwapped, Recovered, Current, Backup, Nowhere,
             InBackup, Wrapper!OfVersion, Wrapper!Verified, Wrapper!OnlyManifestAway
    <3>2. CASE q # p
      <4>1. ProgressOf(q, place[q], todo[q], result[q])
        BY <2>1, <2>2, <2>5 DEF CacheInv
      <4> QED BY <1>3, <3>2, <4>1
         DEF ProgressOf, ComesBack, IsCleared, IsAside, IsSwapped, Recovered, Current, Backup, Nowhere,
             InBackup, Wrapper!OfVersion, Wrapper!Verified, Wrapper!OnlyManifestAway
    <3> QED BY <3>1, <3>2
  <2> QED BY <2>3, <2>4, <2>5 DEF CacheInv
<1> QED BY <1>4, <1>5 DEF InstallInv

\* What is known of the state.
LEMMA InstallTypes ==
  ASSUME InstallInv, NEW p \in Invocations
  PROVE  /\ place \in [Invocations -> Labels] /\ todo \in [Invocations -> Lists] /\ todo[p] \in Lists
           /\ <<>> \in Lists
         /\ result \in [Invocations -> {"none", "binary", "error"}] /\ result[p] \in {"none", "binary", "error"}
         /\ todo = [todo EXCEPT ![p] = todo[p]] /\ result = [result EXCEPT ![p] = result[p]]
         /\ deaths \in 0..MaxDeaths /\ suspends \in 0..MaxSuspends
         /\ place[p] \notin Moving => todo[p] = <<>>
         /\ displaced = FALSE => OwnerInv /\ CacheInv
         /\ displaced \in BOOLEAN
<1>1. InstallShape /\ TodoInv
  BY DEF InstallInv
<1>2. <<>> \in Lists
  BY DEF Lists
<1> QED BY <1>1, <1>2 DEF InstallInv, InstallShape, TodoInv

\* The places an invocation goes to.
LEMMA PlacesAre ==
  /\ Wrapper!Installing \subseteq Labels /\ Wrapper!Releasing \subseteq Labels
  /\ {"ended", "killed", "read", "acquire", "takeover", "own"} \subseteq Labels
  /\ "own" \notin Wrapper!Installing \cup Wrapper!Releasing /\ Moving \subseteq Wrapper!Installing
  /\ {"recover", "recovering", "recheck", "fetch", "replace", "aside", "swap", "tidy",
      "undo", "undoing", "unchecked"} = Wrapper!Installing
  /\ {"release", "unlock"} = Wrapper!Releasing
BY DEF Labels, Wrapper!Waiting, Wrapper!Installing, Wrapper!Releasing, Moving

\* Waiting for the lock, and the end of an invocation.
LEMMA IdleSteps ==
  ASSUME Wrapper!CacheAssumption, InstallInv, NEW p \in Invocations, Wrapper!ReadLock(p)
           \/ Wrapper!Killed(p) \/ (Wrapper!MakeLock(p) /\ installLock # Missing)
                                      \/ (Wrapper!WriteOwner(p) /\ installLock = Missing)
  PROVE  InstallInv'
<1>1. /\ place \in [Invocations -> Labels] /\ todo[p] \in Lists /\ <<>> \in Lists
      /\ result[p] \in {"none", "binary", "error"}
      /\ todo = [todo EXCEPT ![p] = todo[p]] /\ result = [result EXCEPT ![p] = result[p]]
      /\ deaths \in 0..MaxDeaths /\ suspends \in 0..MaxSuspends
      /\ place[p] \notin Moving => todo[p] = <<>>
  BY InstallTypes
<1>2. CASE Wrapper!Killed(p)
  <2>1. deaths' \in 0..MaxDeaths
    BY <1>1, <1>2 DEF Wrapper!Killed, Wrapper!CacheAssumption
  <2> QED BY <1>1, <1>2, <2>1, OwnStep, PlacesAre DEF Wrapper!Killed, Wrapper!Goto
<1>3. CASE Wrapper!ReadLock(p)
  <2>1. place[p] \notin Moving /\ todo' = todo
    BY <1>3 DEF Wrapper!ReadLock, Moving
  <2>2. PICK to \in {"takeover", "acquire", "ended"}, res \in {"none", "binary", "error"} :
            place' = [place EXCEPT ![p] = to] /\ result' = [result EXCEPT ![p] = res]
    BY <1>1, <1>3 DEF Wrapper!ReadLock, Wrapper!Goto
  <2>3. to \in Labels /\ to \notin Wrapper!Installing \cup Wrapper!Releasing /\ to # "own"
    BY <2>2, PlacesAre
  <2>4. UNCHANGED <<installLock, cache, last, displaced, deaths, suspends>>
    BY <1>3 DEF Wrapper!ReadLock
  <2>5. todo' = [todo EXCEPT ![p] = <<>>] /\ todo[p] = <<>>
    BY <1>1, <2>1
  <2> QED BY <1>1, <2>2, <2>3, <2>4, <2>5, OwnStep
<1>4. CASE Wrapper!MakeLock(p) /\ installLock # Missing
  <2>1. place[p] \notin Moving /\ todo' = todo /\ installLock' = installLock
           /\ place' = [place EXCEPT ![p] = "read"]
    BY <1>4 DEF Wrapper!MakeLock, Moving, Wrapper!Goto
  <2> QED BY <1>1, <1>4, <2>1, OwnStep, PlacesAre DEF Wrapper!MakeLock
<1>5. CASE Wrapper!WriteOwner(p) /\ installLock = Missing
  <2>1. /\ place[p] \notin Moving /\ todo' = todo /\ installLock' = installLock
           /\ place' = [place EXCEPT ![p] = "ended"]
        /\ result' = [result EXCEPT ![p] = "error"]
    BY <1>5 DEF Wrapper!WriteOwner, Moving, Wrapper!Goto
  <2> QED BY <1>1, <1>5, <2>1, OwnStep, PlacesAre DEF Wrapper!WriteOwner
<1> QED BY <1>2, <1>3, <1>4, <1>5

\* A recovery decides what to do.
LEMMA RecoverStep == ASSUME InstallInv, NEW p \in Invocations, Wrapper!Recover(p) PROVE InstallInv'
<1>1. /\ place \in [Invocations -> Labels] /\ Active(p) /\ result[p] \in {"none", "binary", "error"}
      /\ result = [result EXCEPT ![p] = result[p]]
      /\ deaths \in 0..MaxDeaths /\ suspends \in 0..MaxSuspends
  BY InstallTypes, PlacesAre DEF Wrapper!Recover, Active
<1>2. PICK list \in {Restore1, Clean2, Restore4, Clean4}, to \in {"recheck", "unchecked", "recovering",
         "undoing"} :
        /\ todo' = [todo EXCEPT ![p] = list] /\ place' = [place EXCEPT ![p] = to]
        /\ place[p] = "recover" => to \in {"recheck", "recovering"}
        /\ to \in {"recheck", "unchecked"} => list = Restore1 /\ Wrapper!OnlyManifestAway
        /\ to \in {"recovering", "undoing"} =>
              \/ list = Clean2 /\ Current
              \/ list = Restore4 /\ ~Current /\ Backup
              \/ list = Clean4 /\ ~Current /\ ~Backup /\ ~Wrapper!OnlyManifestAway
  <2>1. CASE Wrapper!OnlyManifestAway
    BY <2>1 DEF Wrapper!Recover, Wrapper!Goto, Restore1
  <2>2. CASE ~Wrapper!OnlyManifestAway
    BY <2>2 DEF Wrapper!Recover, Wrapper!Goto, Wrapper!RecoverySteps, Wrapper!CleanAll, Clean2, Restore4,
             Clean4, Current, Backup
  <2> QED BY <2>1, <2>2
<1>3. list \in Lists /\ to \in Moving
  BY DEF Lists, Moving
<1>4. displaced = FALSE /\ CacheInv => ProgressOf(p, to, list, result[p])
  <2> SUFFICES ASSUME CacheInv PROVE ProgressOf(p, to, list, result[p])
    OBVIOUS
  <2>1. ProgressOf(p, place[p], todo[p], result[p])
    BY <1>1 DEF CacheInv
  <2>2. place[p] = "recover"
    BY <2>1 DEF Wrapper!Recover, ProgressOf
  <2>3. CASE to = "recheck"
    BY <1>2, <2>3 DEF ProgressOf, Wrapper!Releasing
  <2>4. CASE to = "recovering"
    BY <1>2, <2>4 DEF ProgressOf, Wrapper!Releasing, ComesBack, IsCleared
  <2> QED BY <1>2, <2>2, <2>3, <2>4
<1> QED BY <1>1, <1>2, <1>3, <1>4, OwnStep, PlacesAre DEF Wrapper!Recover

\* The manifest that came back is that of the binary, or all goes.
LEMMA RecheckStep == ASSUME InstallInv, NEW p \in Invocations, Wrapper!Recheck(p) PROVE InstallInv'
<1>1. /\ place \in [Invocations -> Labels] /\ Active(p) /\ result[p] \in {"none", "binary", "error"}
      /\ result = [result EXCEPT ![p] = result[p]]
      /\ deaths \in 0..MaxDeaths /\ suspends \in 0..MaxSuspends
  BY InstallTypes, PlacesAre DEF Wrapper!Recheck, Active
<1>2. PICK list \in {<<>>, Clean4}, to \in {"recovering", "undoing"} :
        /\ todo' = [todo EXCEPT ![p] = list] /\ place' = [place EXCEPT ![p] = to]
        /\ place[p] = "recheck" => to = "recovering"
        /\ (list = <<>> /\ Current) \/ (list = Clean4 /\ ~Current)
  <2>1. CASE Current
    BY <2>1 DEF Wrapper!Recheck, Wrapper!Goto, Current
  <2>2. CASE ~Current
    BY <2>2 DEF Wrapper!Recheck, Wrapper!Goto, Wrapper!CleanAll, Clean4, Current
  <2> QED BY <2>1, <2>2
<1>3. list \in Lists /\ to \in Moving
  BY DEF Lists, Moving
<1>4. displaced = FALSE /\ CacheInv => ProgressOf(p, to, list, result[p])
  <2> SUFFICES ASSUME CacheInv PROVE ProgressOf(p, to, list, result[p])
    OBVIOUS
  <2>1. ProgressOf(p, place[p], todo[p], result[p]) /\ todo[p] = <<>>
    BY <1>1 DEF CacheInv, Wrapper!Recheck
  <2>2. place[p] = "recheck" /\ cache.manifest # Missing /\ cache.backupManifest = Missing
    BY <2>1, Firsts DEF Wrapper!Recheck, ProgressOf
  <2>3. ~Backup /\ ~Wrapper!OnlyManifestAway
    BY <2>2 DEF Backup, Wrapper!Verified, Wrapper!OnlyManifestAway
  <2>4. to = "recovering"
    BY <1>2, <2>2
  <2> QED BY <1>2, <2>3, <2>4 DEF ProgressOf, Wrapper!Releasing, IsCleared, Recovered
<1> QED BY <1>1, <1>2, <1>3, <1>4, OwnStep, PlacesAre DEF Wrapper!Recheck

\* A cached binary is taken, or a new one is fetched.
LEMMA ValidateStep == ASSUME InstallInv, NEW p \in Invocations, Wrapper!Validate(p) PROVE InstallInv'
<1>1. /\ place \in [Invocations -> Labels] /\ Active(p) /\ result[p] \in {"none", "binary", "error"}
      /\ todo = [todo EXCEPT ![p] = todo[p]] /\ result = [result EXCEPT ![p] = result[p]]
      /\ <<>> \in Lists /\ deaths \in 0..MaxDeaths /\ suspends \in 0..MaxSuspends
  BY InstallTypes, PlacesAre DEF Wrapper!Validate, Active
<1>2. PICK to \in {"release", "fetch"}, res \in {"none", "binary", "error"} :
        /\ place' = [place EXCEPT ![p] = to] /\ result' = [result EXCEPT ![p] = res]
        /\ to = "release" => Wrapper!OfVersion(p)
  BY <1>1 DEF Wrapper!Validate, Wrapper!Goto
<1>3. displaced = FALSE /\ CacheInv => ProgressOf(p, to, <<>>, res)
  <2> SUFFICES ASSUME CacheInv PROVE ProgressOf(p, to, <<>>, res)
    OBVIOUS
  <2>1. ComesBack(<<>>) \/ IsCleared(<<>>)
    BY <1>1 DEF CacheInv, Wrapper!Validate, ProgressOf
  <2>2. Recovered
    BY <2>1, Firsts DEF ComesBack, IsCleared
  <2> QED BY <1>2, <2>2 DEF ProgressOf, Wrapper!Releasing
<1>4. todo[p] = <<>> /\ todo' = [todo EXCEPT ![p] = <<>>]
  BY <1>1 DEF Wrapper!Validate
<1>5. to \in Labels /\ to # "own"
  BY <1>2, PlacesAre
<1> QED BY <1>1, <1>2, <1>3, <1>4, <1>5, OwnStep DEF Wrapper!Validate

\* A binary is fetched, or that fails.
LEMMA FetchStep == ASSUME InstallInv, NEW p \in Invocations, Wrapper!Fetch(p) PROVE InstallInv'
<1>1. /\ place \in [Invocations -> Labels] /\ Active(p) /\ result[p] \in {"none", "binary", "error"}
      /\ todo = [todo EXCEPT ![p] = todo[p]] /\ result = [result EXCEPT ![p] = result[p]]
      /\ <<>> \in Lists /\ deaths \in 0..MaxDeaths /\ suspends \in 0..MaxSuspends
      /\ place[p] \notin Moving => todo[p] = <<>>
  BY InstallTypes, PlacesAre DEF Wrapper!Fetch, Active
<1>2. PICK to \in {"release", "replace"}, res \in {"none", "binary", "error"} :
        /\ place' = [place EXCEPT ![p] = to] /\ result' = [result EXCEPT ![p] = res]
        /\ to = "release" => res = "error"
  BY <1>1 DEF Wrapper!Fetch, Wrapper!Goto
<1>3. displaced = FALSE /\ CacheInv => ProgressOf(p, to, <<>>, res)
  BY <1>1, <1>2 DEF CacheInv, Wrapper!Fetch, ProgressOf, Wrapper!Releasing
<1>4. todo[p] = <<>> /\ todo' = [todo EXCEPT ![p] = <<>>]
  BY <1>1 DEF Wrapper!Fetch, Moving
<1>5. to \in Labels /\ to # "own"
  BY <1>2, PlacesAre
<1> QED BY <1>1, <1>2, <1>3, <1>4, <1>5, OwnStep DEF Wrapper!Fetch

\* The previous pair is to be set aside.
LEMMA ReplaceStep == ASSUME InstallInv, NEW p \in Invocations, Wrapper!Replace(p) PROVE InstallInv'
<1>1. /\ place \in [Invocations -> Labels] /\ Active(p) /\ result[p] \in {"none", "binary", "error"}
      /\ result = [result EXCEPT ![p] = result[p]]
      /\ deaths \in 0..MaxDeaths /\ suspends \in 0..MaxSuspends
  BY InstallTypes, PlacesAre DEF Wrapper!Replace, Active
<1>2. PICK list \in {Aside2, Drop2} :
        /\ todo' = [todo EXCEPT ![p] = list] /\ place' = [place EXCEPT ![p] = "aside"]
        /\ list = Aside2 => Current
        /\ list = Drop2 => ~Current \/ Drop2 = Aside2
  <2>1. CASE Current
    BY <2>1 DEF Wrapper!Replace, Wrapper!Goto, Wrapper!SetAside, Aside2, Current
  <2>2. CASE ~Current
    <3>1. todo' = [todo EXCEPT ![p] = Drop2] /\ place' = [place EXCEPT ![p] = "aside"]
      BY <2>2 DEF Wrapper!Replace, Wrapper!Goto, Wrapper!SetAside, Drop2, Current
    <3>2. Drop2 # Aside2
      <4>1. Head(Drop2)[1] = "remove"
        BY Firsts, CallsAre
      <4>2. Head(Aside2)[1] = "rename"
        BY Firsts, CallsAre
      <4> QED BY <4>1, <4>2
    <3> QED BY <2>2, <3>1, <3>2
  <2> QED BY <2>1, <2>2
<1>3. displaced = FALSE /\ CacheInv => ProgressOf(p, "aside", list, result[p])
  <2> SUFFICES ASSUME CacheInv PROVE ProgressOf(p, "aside", list, result[p])
    OBVIOUS
  <2>1. Recovered
    BY <1>1 DEF CacheInv, Wrapper!Replace, ProgressOf
  <2> QED BY <1>2, <2>1 DEF ProgressOf, Wrapper!Releasing, IsAside, Recovered
<1>4. list \in Lists /\ "aside" \in Moving /\ "aside" \in Labels
  BY <1>2, PlacesAre DEF Lists, Moving
<1> QED BY <1>1, <1>2, <1>3, <1>4, OwnStep DEF Wrapper!Replace

\* The new pair is to be put in place.
LEMMA SwapStep == ASSUME InstallInv, NEW p \in Invocations, Wrapper!Swap(p) PROVE InstallInv'
<1>1. /\ place \in [Invocations -> Labels] /\ Active(p) /\ result[p] \in {"none", "binary", "error"}
      /\ result = [result EXCEPT ![p] = result[p]]
      /\ deaths \in 0..MaxDeaths /\ suspends \in 0..MaxSuspends
  BY InstallTypes, PlacesAre DEF Wrapper!Swap, Active
<1>2. todo' = [todo EXCEPT ![p] = Swap2] /\ place' = [place EXCEPT ![p] = "swap"]
  BY DEF Wrapper!Swap, Wrapper!Goto, Swap2
<1>3. displaced = FALSE /\ CacheInv => ProgressOf(p, "swap", Swap2, result[p])
  <2> SUFFICES ASSUME CacheInv PROVE ProgressOf(p, "swap", Swap2, result[p])
    OBVIOUS
  <2>1. IsAside(<<>>)
    BY <1>1 DEF CacheInv, Wrapper!Swap, ProgressOf
  <2>2. cache.binary = Missing /\ cache.manifest = Missing /\ InBackup
    BY <2>1, Firsts DEF IsAside
  <2> QED BY <2>2 DEF ProgressOf, Wrapper!Releasing, IsSwapped
<1>4. Swap2 \in Lists /\ "swap" \in Moving /\ "swap" \in Labels
  BY PlacesAre DEF Lists, Moving
<1> QED BY <1>1, <1>2, <1>3, <1>4, OwnStep DEF Wrapper!Swap

\* The new pair is found to verify.
LEMMA VerifyStep == ASSUME InstallInv, NEW p \in Invocations, Wrapper!Verify(p) PROVE InstallInv'
<1>1. /\ place \in [Invocations -> Labels] /\ Active(p) /\ result[p] \in {"none", "binary", "error"}
      /\ result = [result EXCEPT ![p] = result[p]] /\ todo = [todo EXCEPT ![p] = todo[p]]
      /\ deaths \in 0..MaxDeaths /\ suspends \in 0..MaxSuspends
      /\ place[p] = "swap" /\ todo[p] = <<>> /\ <<>> \in Lists
  BY InstallTypes, PlacesAre DEF Wrapper!Verify, Active
<1>2. CASE Wrapper!OfVersion(p)
  <2>1. todo' = [todo EXCEPT ![p] = Clean2] /\ place' = [place EXCEPT ![p] = "tidy"]
    BY <1>2 DEF Wrapper!Verify, Wrapper!Goto, Clean2
  <2>2. ProgressOf(p, "tidy", Clean2, result[p])
    BY <1>2 DEF ProgressOf, Wrapper!Releasing
  <2>3. Clean2 \in Lists /\ "tidy" \in Moving /\ "tidy" \in Labels
    BY PlacesAre DEF Lists, Moving
  <2> QED BY <1>1, <2>1, <2>2, <2>3, OwnStep DEF Wrapper!Verify
<1>3. CASE ~Wrapper!OfVersion(p)
  <2>1. todo' = [todo EXCEPT ![p] = <<>>] /\ place' = [place EXCEPT ![p] = "undo"]
    BY <1>1, <1>3 DEF Wrapper!Verify, Wrapper!Goto
  <2>2. CacheInv => FALSE
    <3> SUFFICES ASSUME CacheInv PROVE FALSE
      OBVIOUS
    <3>1. IsSwapped(p, <<>>)
      BY <1>1 DEF CacheInv, ProgressOf
    <3> QED BY <1>3, <3>1, Firsts DEF IsSwapped
  <2>3. "undo" \in Labels
    BY PlacesAre
  <2> QED BY <1>1, <2>1, <2>2, <2>3, OwnStep DEF Wrapper!Verify
<1> QED BY <1>2, <1>3

\* An installation returns.
LEMMA ReturnStep == ASSUME InstallInv, NEW p \in Invocations, Wrapper!Return(p) PROVE InstallInv'
<1>1. /\ place \in [Invocations -> Labels] /\ Active(p) /\ todo = [todo EXCEPT ![p] = todo[p]]
      /\ deaths \in 0..MaxDeaths /\ suspends \in 0..MaxSuspends
      /\ todo[p] = <<>> /\ <<>> \in Lists
  BY InstallTypes, PlacesAre DEF Wrapper!Return, Active
<1>2. PICK res \in {"binary", "error"} :
        /\ place' = [place EXCEPT ![p] = "release"] /\ result' = [result EXCEPT ![p] = res]
        /\ todo' = [todo EXCEPT ![p] = <<>>]
  BY <1>1 DEF Wrapper!Return, Wrapper!Goto
<1>3. displaced = FALSE /\ CacheInv => ProgressOf(p, "release", <<>>, res)
  BY <1>1 DEF CacheInv, Wrapper!Return, ProgressOf, Wrapper!Releasing
<1>4. "release" \in Labels /\ res \in {"none", "binary", "error"}
  BY PlacesAre
<1>5. UNCHANGED <<installLock, cache, deaths, suspends, last, displaced>>
  BY DEF Wrapper!Return
<1> QED BY <1>1, <1>2, <1>3, <1>4, <1>5, OwnStep

\* An installation fails.
LEMMA ThrowStep == ASSUME InstallInv, NEW p \in Invocations, Wrapper!Throw(p) PROVE InstallInv'
<1>1. /\ place \in [Invocations -> Labels] /\ <<>> \in Lists /\ deaths \in 0..MaxDeaths
         /\ suspends \in 0..MaxSuspends
      /\ place[p] \notin Moving => todo[p] = <<>>
  BY InstallTypes
<1>2. Active(p)
  BY <1>1, PlacesAre DEF Wrapper!Throw, Wrapper!Fails, Active
<1>3. ProgressOf(p, "release", <<>>, "error")
  BY DEF ProgressOf, Wrapper!Releasing
<1>4. "release" \in Labels
  BY PlacesAre
<1> QED BY <1>1, <1>2, <1>3, <1>4, OwnStep DEF Wrapper!Throw, Wrapper!Goto

\* An invocation looks whether the lock is its own.
LEMMA ReadOwnStep == ASSUME InstallInv, NEW p \in Invocations, Wrapper!ReadOwn(p) PROVE InstallInv'
<1>1. /\ place \in [Invocations -> Labels] /\ Active(p) /\ result[p] \in {"none", "binary", "error"}
      /\ result = [result EXCEPT ![p] = result[p]] /\ todo = [todo EXCEPT ![p] = todo[p]]
      /\ deaths \in 0..MaxDeaths /\ suspends \in 0..MaxSuspends /\ <<>> \in Lists
      /\ place[p] \notin Moving => todo[p] = <<>>
  BY InstallTypes, PlacesAre DEF Wrapper!ReadOwn, Active
<1>2. todo[p] = <<>> /\ todo' = [todo EXCEPT ![p] = <<>>]
  BY <1>1 DEF Wrapper!ReadOwn, Moving
<1>3. PICK to \in {"unlock", "ended"} : place' = [place EXCEPT ![p] = to]
  BY DEF Wrapper!ReadOwn, Wrapper!Goto
<1>4. displaced = FALSE /\ CacheInv => ProgressOf(p, to, <<>>, result[p])
  BY <1>1 DEF CacheInv, Wrapper!ReadOwn, ProgressOf, Wrapper!Releasing
<1>5. to \in Labels /\ to # "own" /\ result' = [result EXCEPT ![p] = result[p]]
  BY <1>1, <1>3, PlacesAre DEF Wrapper!ReadOwn
<1> QED BY <1>1, <1>2, <1>3, <1>4, <1>5, OwnStep DEF Wrapper!ReadOwn

\* A step that leaves the cache and who installs alone, unless somebody begins.
LEMMA CacheStays ==
  ASSUME CacheInv, UNCHANGED <<cache, last>>,
         \A q \in Invocations : Active(q)' =>
             \/ Active(q) /\ place'[q] = place[q] /\ todo'[q] = todo[q] /\ result'[q] = result[q]
             \/ place'[q] = "recover" /\ todo'[q] = <<>>
  PROVE  CacheInv'
<1>1. Wrapper!Restored' = last'
  BY DEF CacheInv, Wrapper!Restored, Wrapper!Verified, Wrapper!OnlyManifestAway
<1>2. ASSUME NEW q \in Invocations, Active(q)' PROVE ProgressOf(q, place[q], todo[q], result[q])'
  <2>1. CASE Active(q) /\ place'[q] = place[q] /\ todo'[q] = todo[q] /\ result'[q] = result[q]
    <3>1. ProgressOf(q, place[q], todo[q], result[q])
      BY <2>1 DEF CacheInv
    <3> QED BY <2>1, <3>1
       DEF ProgressOf, ComesBack, IsCleared, IsAside, IsSwapped, Recovered, Current, Backup, Nowhere,
           InBackup, Wrapper!OfVersion, Wrapper!Verified, Wrapper!OnlyManifestAway
  <2>2. CASE place'[q] = "recover" /\ todo'[q] = <<>>
    BY <2>2 DEF ProgressOf, Wrapper!Releasing
  <2> QED BY <1>2, <2>1, <2>2
<1> QED BY <1>1, <1>2 DEF CacheInv

\* A lock directory is made where there was none.
LEMMA MakeLockStep ==
  ASSUME Wrapper!CacheAssumption, InstallInv, NEW p \in Invocations, Wrapper!MakeLock(p),
           installLock = Missing PROVE InstallInv'
<1>1. InstallShape /\ TodoInv
  BY DEF InstallInv
<1>2. /\ installLock' = [owner |-> Missing, stale |-> FALSE] /\ place' = [place EXCEPT ![p] = "own"]
      /\ UNCHANGED <<cache, todo, result, deaths, suspends, last, displaced>> /\ place[p] = "acquire"
  BY DEF Wrapper!MakeLock, Wrapper!Goto
<1>3. place' \in [Invocations -> Labels] /\ place'[p] = "own"
         /\ \A q \in Invocations \ {p} : place'[q] = place[q]
  BY <1>1, <1>2, PlacesAre DEF InstallShape
<1>4. InstallShape'
  BY <1>1, <1>2, <1>3 DEF InstallShape, Locks
<1>5. TodoInv'
  BY <1>1, <1>2, <1>3 DEF TodoInv, Moving
<1>6. ASSUME displaced' = FALSE PROVE OwnerInv' /\ CacheInv'
  <2>1. OwnerInv /\ CacheInv
    BY <1>2, <1>6 DEF InstallInv
  <2>2. \A q \in Invocations : ~Active(q) /\ place[q] # "own"
    BY <2>1 DEF OwnerInv
  <2>3. \A q \in Invocations : ~Active(q)' /\ (place'[q] = "own" => q = p)
    BY <1>3, <2>2, PlacesAre DEF Active
  <2>4. installLock' # Missing /\ installLock'.owner = Missing
    <3>1. installLock' \in Locks /\ installLock'.owner = Missing
      BY <1>2 DEF Locks
    <3> QED BY <3>1 DEF Locks, Wrapper!CacheAssumption
  <2>5. OwnerInv'
    BY <2>3, <2>4 DEF OwnerInv
  <2>6. CacheInv'
    BY <1>2, <2>1, <2>3, CacheStays
  <2> QED BY <2>5, <2>6
<1> QED BY <1>4, <1>5, <1>6 DEF InstallInv

\* The lock directory gets its owner.
LEMMA WriteOwnerStep ==
  ASSUME Wrapper!CacheAssumption, InstallInv, NEW p \in Invocations, Wrapper!WriteOwner(p),
           installLock # Missing PROVE InstallInv'
<1>1. InstallShape /\ TodoInv
  BY DEF InstallInv
<1>2. /\ installLock' = [owner |-> p, stale |-> FALSE] /\ place' = [place EXCEPT ![p] = "recover"]
      /\ UNCHANGED <<cache, todo, result, deaths, suspends, last, displaced>> /\ place[p] = "own"
  BY DEF Wrapper!WriteOwner, Wrapper!Goto
<1>3. place' \in [Invocations -> Labels] /\ place'[p] = "recover"
         /\ \A q \in Invocations \ {p} : place'[q] = place[q]
  BY <1>1, <1>2, PlacesAre DEF InstallShape
<1>4. InstallShape'
  BY <1>1, <1>2, <1>3 DEF InstallShape, Locks
<1>5. todo[p] = <<>> /\ TodoInv'
  BY <1>1, <1>2, <1>3 DEF TodoInv, Moving
<1>6. ASSUME displaced' = FALSE PROVE OwnerInv' /\ CacheInv'
  <2>1. OwnerInv /\ CacheInv
    BY <1>2, <1>6 DEF InstallInv
  <2>2. installLock.owner = Missing /\ \A q \in Invocations : place[q] = "own" => q = p
    BY <1>2, <2>1 DEF OwnerInv
  <2>3. \A q \in Invocations : ~Active(q)
    BY <2>1, <2>2 DEF OwnerInv, Wrapper!CacheAssumption
  <2>4. \A q \in Invocations : place'[q] # "own" /\ (Active(q)' => q = p)
    BY <1>3, <2>2, <2>3 DEF Active
  <2>5. installLock' # Missing /\ installLock'.owner = p
    <3>1. installLock' \in Locks /\ installLock'.owner = p
      BY <1>2 DEF Locks
    <3> QED BY <3>1 DEF Locks, Wrapper!CacheAssumption
  <2>6. OwnerInv'
    BY <2>4, <2>5 DEF OwnerInv
  <2>7. CacheInv'
    BY <1>2, <1>3, <1>5, <2>1, <2>4, CacheStays
  <2> QED BY <2>6, <2>7
<1> QED BY <1>4, <1>5, <1>6 DEF InstallInv

\* The lock goes: no live invocation had it, or that is told.
LEMMA LockGoes ==
  ASSUME Wrapper!CacheAssumption, InstallInv, NEW p \in Invocations, NEW to \in {"acquire", "ended"},
           installLock' = Missing,
         todo[p] = <<>>, place' = [place EXCEPT ![p] = to],
         UNCHANGED <<cache, todo, deaths, suspends, last>>, displaced' \in BOOLEAN,
         result' \in [Invocations -> {"none", "binary", "error"}],
         displaced' = FALSE => displaced = FALSE
             /\ (OwnerInv => \A q \in Invocations \ {p} : ~Active(q) /\ place[q] # "own")
  PROVE  InstallInv'
<1>1. InstallShape /\ TodoInv
  BY DEF InstallInv
<1>2. /\ place' \in [Invocations -> Labels] /\ place'[p] = to
         /\ \A q \in Invocations \ {p} : place'[q] = place[q]
  BY <1>1, PlacesAre DEF InstallShape
<1>3. InstallShape'
  BY <1>1, <1>2 DEF InstallShape
<1>4. TodoInv'
  BY <1>1, <1>2 DEF TodoInv
<1>5. ASSUME displaced' = FALSE PROVE OwnerInv' /\ CacheInv'
  <2>1. OwnerInv /\ CacheInv
    BY <1>5 DEF InstallInv
  <2>2. \A q \in Invocations : ~Active(q)' /\ place'[q] # "own"
    BY <1>2, <1>5, <2>1, PlacesAre DEF Active
  <2>3. OwnerInv'
    BY <2>2 DEF OwnerInv
  <2>4. CacheInv'
    BY <2>1, <2>2, CacheStays
  <2> QED BY <2>3, <2>4
<1> QED BY <1>3, <1>4, <1>5 DEF InstallInv

\* A stale lock is taken over.
LEMMA TakeOverStep ==
  ASSUME Wrapper!CacheAssumption, InstallInv, NEW p \in Invocations, Wrapper!TakeOver(p) PROVE InstallInv'
<1>1. InstallShape /\ TodoInv /\ <<>> \in Lists
  BY InstallTypes DEF InstallInv
<1>2. todo[p] = <<>>
  BY <1>1 DEF Wrapper!TakeOver, TodoInv, Moving
<1>3. /\ installLock' = Missing /\ place' = [place EXCEPT ![p] = "acquire"] /\ displaced' = (displaced
         \/ Wrapper!Held)
      /\ UNCHANGED <<cache, todo, result, deaths, suspends, last>>
  BY DEF Wrapper!TakeOver, Wrapper!Goto
<1>4. displaced' \in BOOLEAN /\ (displaced' = FALSE => displaced = FALSE /\ ~Wrapper!Held)
  BY <1>1, <1>3 DEF InstallShape
<1>5. ~Wrapper!Held /\ OwnerInv => \A q \in Invocations \ {p} : ~Active(q) /\ place[q] # "own"
  BY DEF Wrapper!Held, OwnerInv, Active
<1>6. result' \in [Invocations -> {"none", "binary", "error"}]
  BY <1>1, <1>3 DEF InstallShape
<1> QED BY <1>2, <1>3, <1>4, <1>5, <1>6, LockGoes

\* A lock is released.
LEMMA UnlockStep ==
  ASSUME Wrapper!CacheAssumption, InstallInv, NEW p \in Invocations, Wrapper!Unlock(p) PROVE InstallInv'
<1>1. InstallShape /\ TodoInv
  BY DEF InstallInv
<1>2. todo[p] = <<>> /\ Active(p)
  BY <1>1, PlacesAre DEF Wrapper!Unlock, TodoInv, Moving, Active
<1>3. /\ installLock' = Missing /\ place' = [place EXCEPT ![p] = "ended"]
      /\ displaced' = (displaced \/ (Wrapper!Held /\ ~Wrapper!Owns(p)))
      /\ UNCHANGED <<cache, todo, deaths, suspends, last>>
      /\ result' = [result EXCEPT ![p] = "error"] \/ result' = result
  BY DEF Wrapper!Unlock, Wrapper!Goto
<1>4. displaced' \in BOOLEAN /\ (displaced' = FALSE => displaced = FALSE)
  BY <1>1, <1>3 DEF InstallShape
<1>5. OwnerInv => \A q \in Invocations \ {p} : ~Active(q) /\ place[q] # "own"
  BY <1>2 DEF OwnerInv, Wrapper!CacheAssumption
<1>6. result' \in [Invocations -> {"none", "binary", "error"}]
  BY <1>1, <1>3 DEF InstallShape
<1> QED BY <1>2, <1>3, <1>4, <1>5, <1>6, LockGoes

\* The lock gets old, or new again.
LEMMA AgeStep ==
  ASSUME Wrapper!CacheAssumption, InstallInv, Wrapper!GetsStale
           \/ \E p \in Invocations : Wrapper!Beat(p) PROVE InstallInv'
<1>1. InstallShape /\ TodoInv
  BY DEF InstallInv
<1>2. PICK b \in BOOLEAN : installLock # Missing /\ installLock' = [installLock EXCEPT !.stale = b]
  BY DEF Wrapper!GetsStale, Wrapper!Beat, Wrapper!Owns
<1>3. UNCHANGED <<cache, place, todo, result, deaths, last, displaced>> /\ suspends' \in 0..MaxSuspends
  BY <1>1 DEF Wrapper!GetsStale, Wrapper!Beat, InstallShape, Wrapper!CacheAssumption
<1>4. installLock \in Locks /\ installLock' \in Locks /\ installLock'.owner = installLock.owner
  BY <1>1, <1>2 DEF InstallShape, Locks
<1>5. installLock' # Missing
  BY <1>4 DEF Locks, Wrapper!CacheAssumption
<1>6. InstallShape' /\ TodoInv'
  BY <1>1, <1>3, <1>4 DEF InstallShape, TodoInv
<1>7. ASSUME displaced' = FALSE PROVE OwnerInv' /\ CacheInv'
  <2>1. OwnerInv /\ CacheInv
    BY <1>3, <1>7 DEF InstallInv
  <2>2. OwnerInv'
    BY <1>2, <1>3, <1>4, <1>5, <2>1 DEF OwnerInv, Active
  <2>3. CacheInv'
    BY <1>3, <2>1, CacheStays DEF Active
  <2> QED BY <2>2, <2>3
<1> QED BY <1>6, <1>7 DEF InstallInv

\* What a call of the file system does.
Removes(f) ==
    /\ cache'[f] = Missing /\ last' = last
    /\ \A g \in Wrapper!Files \ {f} : cache'[g] = cache[g]

Renames(f, g) ==
    /\ cache[f] # Missing /\ cache'[g] = cache[f] /\ cache'[f] = Missing /\ last' = last
    /\ \A h \in Wrapper!Files \ {f, g} : cache'[h] = cache[h]

Places(p, f) ==
    /\ cache'[f] = Version[p] /\ last' = (IF f = "manifest" THEN Version[p] ELSE last)
    /\ \A g \in Wrapper!Files \ {f} : cache'[g] = cache[g]

\* A step makes the first of the calls that are left.
LEMMA StepMakes ==
  ASSUME Wrapper!CacheAssumption, InstallInv, NEW p \in Invocations, Wrapper!Step(p)
  PROVE  /\ \A f \in Wrapper!Files : Head(todo[p]) = Wrapper!Remove(f) => Removes(f)
         /\ \A f, g \in Wrapper!Files : f # g /\ Head(todo[p]) = Wrapper!Rename(f, g) => Renames(f, g)
         /\ \A f \in Wrapper!Files : Head(todo[p]) = Wrapper!Place(f) => Places(p, f)
         /\ cache' \in [Wrapper!Files -> Versions \cup {Missing, Wrapper!Direct}]
                  /\ last' \in Versions \cup {Missing}
         /\ todo' = [todo EXCEPT ![p] = Tail(todo[p])] /\ Tail(todo[p]) \in Lists
         /\ todo'[p] = Tail(todo[p])
         /\ UNCHANGED <<installLock, place, result, deaths, suspends, displaced>> /\ todo[p] # <<>>
<1>1. /\ cache \in [Wrapper!Files -> Versions \cup {Missing, Wrapper!Direct}]
         /\ last \in Versions \cup {Missing}
      /\ todo \in [Invocations -> Lists] /\ todo[p] # <<>> /\ Version[p] \in Versions
  BY DEF InstallInv, InstallShape, Wrapper!Step, Wrapper!CacheAssumption
<1> DEFINE op == Head(todo[p])
<1>2. /\ cache' = CASE op[1] = "remove" -> [cache EXCEPT ![op[2]] = Missing]
                    [] op[1] = "rename" -> [cache EXCEPT ![op[3]] = cache[op[2]], ![op[2]] = Missing]
                    [] op[1] = "place" -> [cache EXCEPT ![op[2]] = Version[p]]
      /\ last' = IF op = Wrapper!Place("manifest") THEN Version[p] ELSE last
      /\ todo' = [todo EXCEPT ![p] = Tail(todo[p])]
      /\ op[1] = "rename" => cache[op[2]] # Missing
      /\ UNCHANGED <<installLock, place, result, deaths, suspends, displaced>>
  BY <1>1 DEF Wrapper!Step, Wrapper!Fails
<1>3. /\ \/ \E f \in Wrapper!Files : op = Wrapper!Remove(f)
         \/ \E f, g \in Wrapper!Files : f # g /\ op = Wrapper!Rename(f, g)
         \/ \E f \in Wrapper!Files : op = Wrapper!Place(f)
      /\ Tail(todo[p]) \in Lists
  <2>1. "binary" \in Wrapper!Files /\ "manifest" \in Wrapper!Files /\ "backupBinary" \in Wrapper!Files
           /\ "backupManifest" \in Wrapper!Files
    BY DEF Wrapper!Files
  <2>2. todo[p] \in Lists
    BY <1>1
  <2>3. CASE todo[p] \in {Clean4, Clean3, Clean2, Clean1, Drop2, Drop1}
    BY <2>1, <2>3, Firsts DEF Lists
  <2>4. CASE todo[p] \in {Restore4, Restore3}
    BY <2>1, <2>4, Firsts DEF Lists
  <2>5. CASE todo[p] = Restore2
    <3>1. op = Wrapper!Rename("backupBinary", "binary") /\ Tail(todo[p]) = Restore1
      BY <2>5, Firsts
    <3> QED BY <2>1, <3>1 DEF Lists
  <2>6. CASE todo[p] = Restore1
    <3>1. op = Wrapper!Rename("backupManifest", "manifest") /\ Tail(todo[p]) = <<>>
      BY <2>6, Firsts
    <3> QED BY <2>1, <3>1 DEF Lists
  <2>7. CASE todo[p] = Aside2
    <3>1. op = Wrapper!Rename("manifest", "backupManifest") /\ Tail(todo[p]) = Aside1
      BY <2>7, Firsts
    <3> QED BY <2>1, <3>1 DEF Lists
  <2>8. CASE todo[p] = Aside1
    <3>1. op = Wrapper!Rename("binary", "backupBinary") /\ Tail(todo[p]) = <<>>
      BY <2>8, Firsts
    <3> QED BY <2>1, <3>1 DEF Lists
  <2>9. CASE todo[p] \in {Swap2, Swap1}
    BY <2>1, <2>9, Firsts DEF Lists
  <2> QED BY <1>1, <2>2, <2>3, <2>4, <2>5, <2>6, <2>7, <2>8, <2>9 DEF Lists
<1> HIDE DEF op
<1>4. ASSUME NEW f \in Wrapper!Files, op = Wrapper!Remove(f) PROVE Removes(f)
         /\ cache' = [cache EXCEPT ![f] = Missing]
  <2>1. op[1] = "remove" /\ op[2] = f /\ op # Wrapper!Place("manifest")
    BY <1>4, CallsAre
  <2> QED BY <1>1, <1>2, <2>1 DEF Removes
<1>5. ASSUME NEW f \in Wrapper!Files, NEW g \in Wrapper!Files, f # g, op = Wrapper!Rename(f, g)
      PROVE  Renames(f, g) /\ cache' = [cache EXCEPT ![g] = cache[f], ![f] = Missing]
  <2>1. op[1] = "rename" /\ op[2] = f /\ op[3] = g /\ op # Wrapper!Place("manifest")
    BY <1>5, CallsAre
  <2> QED BY <1>1, <1>2, <1>5, <2>1 DEF Renames
<1>6. ASSUME NEW f \in Wrapper!Files, op = Wrapper!Place(f) PROVE Places(p, f)
         /\ cache' = [cache EXCEPT ![f] = Version[p]]
  <2>1. op[1] = "place" /\ op[2] = f /\ (op = Wrapper!Place("manifest") <=> f = "manifest")
    BY <1>6, CallsAre
  <2> QED BY <1>1, <1>2, <2>1 DEF Places
<1>7. cache' \in [Wrapper!Files -> Versions \cup {Missing, Wrapper!Direct}] /\ last' \in Versions \cup {Missing}
  <2>1. last' \in Versions \cup {Missing}
    BY <1>1, <1>2
  <2>2. CASE \E f \in Wrapper!Files : op = Wrapper!Remove(f)
    BY <1>1, <1>4, <2>1, <2>2
  <2>3. CASE \E f, g \in Wrapper!Files : f # g /\ op = Wrapper!Rename(f, g)
    BY <1>1, <1>5, <2>1, <2>3
  <2>4. CASE \E f \in Wrapper!Files : op = Wrapper!Place(f)
    BY <1>1, <1>6, <2>1, <2>4
  <2> QED BY <1>3, <2>2, <2>3, <2>4
<1> QED BY <1>1, <1>2, <1>3, <1>4, <1>5, <1>6, <1>7 DEF op

\* The calls of a recovery that brings the backup back.
LEMMA ComingBack ==
  ASSUME Wrapper!CacheAssumption, InstallInv, NEW p \in Invocations, Wrapper!Step(p), Wrapper!Restored = last,
           ComesBack(todo[p])
  PROVE  Wrapper!Restored' = last' /\ (ComesBack(todo[p]) \/ IsCleared(todo[p]))'
<1> DEFINE list == todo[p]
<1>1. /\ "binary" \in Wrapper!Files /\ "manifest" \in Wrapper!Files /\ "backupBinary" \in Wrapper!Files
         /\ "backupManifest" \in Wrapper!Files
  BY DEF Wrapper!Files
<1>2. CASE list = Restore4 /\ ~Current /\ Backup
  <2>1. Removes("binary") /\ todo'[p] = Restore3
    BY <1>1, <1>2, StepMakes, Firsts
  <2>2. /\ cache'["binary"] = Missing /\ cache'["backupBinary"] = cache["backupBinary"]
        /\ cache'["backupManifest"] = cache["backupManifest"] /\ last' = last
    BY <1>1, <2>1 DEF Removes
  <2> QED BY <1>2, <2>1, <2>2
     DEF ComesBack, Wrapper!Restored, Current, Backup, Wrapper!Verified
<1>3. CASE list = Restore3 /\ cache.binary = Missing /\ Backup
  <2>1. Removes("manifest") /\ todo'[p] = Restore2
    BY <1>1, <1>3, StepMakes, Firsts
  <2>2. /\ cache'["binary"] = Missing /\ cache'["backupBinary"] = cache["backupBinary"]
        /\ cache'["backupManifest"] = cache["backupManifest"] /\ last' = last /\ cache'["manifest"] = Missing
    BY <1>1, <1>3, <2>1 DEF Removes
  <2> QED BY <1>3, <2>1, <2>2
     DEF ComesBack, Wrapper!Restored, Current, Backup, Wrapper!Verified
<1>4. CASE list = Restore2 /\ cache.binary = Missing /\ cache.manifest = Missing /\ Backup
  <2>1. Renames("backupBinary", "binary") /\ todo'[p] = Restore1
    <3>1. Head(list) = Wrapper!Rename("backupBinary", "binary") /\ Tail(list) = Restore1
      BY <1>4, Firsts
    <3> QED BY <1>1, <3>1, StepMakes
  <2>2. /\ cache'["binary"] = cache["backupBinary"] /\ cache'["backupBinary"] = Missing
        /\ cache'["backupManifest"] = cache["backupManifest"] /\ last' = last /\ cache'["manifest"] = Missing
        /\ cache["backupBinary"] # Missing
    BY <1>1, <1>4, <2>1 DEF Renames
  <2> QED BY <1>4, <2>1, <2>2
     DEF ComesBack, Wrapper!Restored, Current, Backup, Wrapper!Verified, Wrapper!OnlyManifestAway
<1>5. CASE list = Restore1 /\ cache.binary # Missing /\ cache.manifest = Missing
                           /\ cache.backupManifest = cache.binary
  <2>1. Renames("backupManifest", "manifest") /\ todo'[p] = <<>>
    <3>1. Head(list) = Wrapper!Rename("backupManifest", "manifest") /\ Tail(list) = <<>>
      BY <1>5, Firsts
    <3> QED BY <1>1, <3>1, StepMakes
  <2>2. /\ cache'["binary"] = cache["binary"] /\ cache'["backupBinary"] = cache["backupBinary"]
        /\ cache'["backupManifest"] = Missing /\ last' = last /\ cache'["manifest"] = cache["backupManifest"]
    BY <1>1, <2>1 DEF Renames
  <2>3. ~Backup \/ cache.backupBinary = cache.binary
    BY <1>5 DEF Backup, Wrapper!Verified
  <2> QED BY <1>5, <2>1, <2>2, <2>3
     DEF IsCleared, Recovered, Wrapper!Restored, Current, Backup, Wrapper!Verified, Wrapper!OnlyManifestAway
<1> QED BY <1>2, <1>3, <1>4, <1>5 DEF ComesBack

\* The calls that clear away what does not verify.
LEMMA Clearing ==
  ASSUME Wrapper!CacheAssumption, InstallInv, NEW p \in Invocations, Wrapper!Step(p), Wrapper!Restored = last,
           IsCleared(todo[p])
  PROVE  Wrapper!Restored' = last' /\ IsCleared(todo[p])'
<1> DEFINE list == todo[p]
<1>1. /\ "binary" \in Wrapper!Files /\ "manifest" \in Wrapper!Files /\ "backupBinary" \in Wrapper!Files
         /\ "backupManifest" \in Wrapper!Files
      /\ list # <<>>
  BY DEF Wrapper!Files, Wrapper!Step
<1>2. CASE list = Clean4 /\ ~Current /\ ~Backup /\ ~Wrapper!OnlyManifestAway
  <2>1. Removes("binary") /\ todo'[p] = Clean3
    BY <1>1, <1>2, StepMakes, Firsts
  <2>2. /\ cache'["binary"] = Missing /\ cache'["backupBinary"] = cache["backupBinary"]
        /\ cache'["backupManifest"] = cache["backupManifest"] /\ last' = last
    BY <1>1, <2>1 DEF Removes
  <2> QED BY <1>2, <2>1, <2>2
     DEF IsCleared, Wrapper!Restored, Current, Backup, Wrapper!Verified, Wrapper!OnlyManifestAway
<1>3. CASE list = Clean3 /\ cache.binary = Missing /\ ~Backup
  <2>1. Removes("manifest") /\ todo'[p] = Clean2
    BY <1>1, <1>3, StepMakes, Firsts
  <2>2. /\ cache'["binary"] = Missing /\ cache'["backupBinary"] = cache["backupBinary"]
        /\ cache'["backupManifest"] = cache["backupManifest"] /\ last' = last /\ cache'["manifest"] = Missing
    BY <1>1, <1>3, <2>1 DEF Removes
  <2> QED BY <1>3, <2>1, <2>2
     DEF IsCleared, Wrapper!Restored, Current, Backup, Wrapper!Verified, Wrapper!OnlyManifestAway
<1>4. CASE list = Clean2 /\ (Current \/ (cache.binary = Missing /\ cache.manifest = Missing /\ ~Backup))
  <2>1. Removes("backupBinary") /\ todo'[p] = Clean1
    BY <1>1, <1>4, StepMakes, Firsts
  <2>2. /\ cache'["binary"] = cache["binary"] /\ cache'["backupBinary"] = Missing
        /\ cache'["backupManifest"] = cache["backupManifest"] /\ last' = last
        /\ cache'["manifest"] = cache["manifest"]
    BY <1>1, <2>1 DEF Removes
  <2> QED BY <1>4, <2>1, <2>2
     DEF IsCleared, Wrapper!Restored, Current, Backup, Wrapper!Verified, Wrapper!OnlyManifestAway, Nowhere
<1>5. CASE list = Clean1 /\ (Current \/ Nowhere({"binary", "manifest", "backupBinary"}))
  <2>1. Removes("backupManifest") /\ todo'[p] = <<>>
    BY <1>1, <1>5, StepMakes, Firsts
  <2>2. /\ cache'["binary"] = cache["binary"] /\ cache'["backupBinary"] = cache["backupBinary"]
        /\ cache'["backupManifest"] = Missing /\ last' = last
        /\ cache'["manifest"] = cache["manifest"]
    BY <1>1, <2>1 DEF Removes
  <2> QED BY <1>5, <2>1, <2>2
     DEF IsCleared, Recovered, Wrapper!Restored, Current, Backup, Wrapper!Verified, Wrapper!OnlyManifestAway,
              Nowhere, Wrapper!Files
<1> QED BY <1>1, <1>2, <1>3, <1>4, <1>5 DEF IsCleared

\* The calls that set the previous pair aside.
LEMMA SettingAside ==
  ASSUME Wrapper!CacheAssumption, InstallInv, NEW p \in Invocations, Wrapper!Step(p), Wrapper!Restored = last,
           IsAside(todo[p])
  PROVE  Wrapper!Restored' = last' /\ IsAside(todo[p])'
<1> DEFINE list == todo[p]
<1>1. /\ "binary" \in Wrapper!Files /\ "manifest" \in Wrapper!Files /\ "backupBinary" \in Wrapper!Files
         /\ "backupManifest" \in Wrapper!Files
      /\ list # <<>>
  BY DEF Wrapper!Files, Wrapper!Step
<1>2. CASE list = Aside2 /\ Current
  <2>1. Renames("manifest", "backupManifest") /\ todo'[p] = Aside1
    <3>1. Head(list) = Wrapper!Rename("manifest", "backupManifest") /\ Tail(list) = Aside1
      BY <1>2, Firsts
    <3> QED BY <1>1, <3>1, StepMakes
  <2>2. /\ cache'["binary"] = cache["binary"] /\ cache'["backupBinary"] = cache["backupBinary"]
        /\ cache'["backupManifest"] = cache["manifest"] /\ last' = last /\ cache'["manifest"] = Missing
        /\ cache["manifest"] # Missing
    BY <1>1, <2>1 DEF Renames
  <2> QED BY <1>2, <2>1, <2>2
     DEF IsAside, Wrapper!Restored, Current, Wrapper!Verified, Wrapper!OnlyManifestAway
<1>3. CASE list = Aside1 /\ cache.binary # Missing /\ cache.manifest = Missing
         /\ cache.backupManifest = cache.binary
  <2>1. Renames("binary", "backupBinary") /\ todo'[p] = <<>>
    <3>1. Head(list) = Wrapper!Rename("binary", "backupBinary") /\ Tail(list) = <<>>
      BY <1>3, Firsts
    <3> QED BY <1>1, <3>1, StepMakes
  <2>2. /\ cache'["binary"] = Missing /\ cache'["backupBinary"] = cache["binary"]
        /\ cache'["backupManifest"] = cache["backupManifest"] /\ last' = last /\ cache'["manifest"] = Missing
    BY <1>1, <1>3, <2>1 DEF Renames
  <2> QED BY <1>3, <2>1, <2>2
     DEF IsAside, InBackup, Wrapper!Restored, Wrapper!Verified, Wrapper!OnlyManifestAway
<1>4. CASE list \in {Drop2, Drop1} /\ Nowhere(Wrapper!Files)
  <2>1. PICK f \in Wrapper!Files : Removes(f) /\ todo'[p] \in {Drop1, <<>>}
    BY <1>1, <1>4, StepMakes, Firsts
  <2>2. last' = Missing /\ \A g \in Wrapper!Files : cache'[g] = Missing
    <3>1. last = Missing
      BY <1>1, <1>4 DEF Nowhere, Wrapper!Restored, Wrapper!Verified, Wrapper!OnlyManifestAway
    <3> QED BY <1>4, <2>1, <3>1 DEF Removes, Nowhere
  <2> QED BY <1>1, <2>1, <2>2
     DEF IsAside, InBackup, Nowhere, Wrapper!Restored, Wrapper!Verified, Wrapper!OnlyManifestAway, Wrapper!Files
<1> QED BY <1>1, <1>2, <1>3, <1>4 DEF IsAside

\* The calls that put the new pair in place.
LEMMA Swapping ==
  ASSUME Wrapper!CacheAssumption, InstallInv, NEW p \in Invocations, Wrapper!Step(p), Wrapper!Restored = last,
           IsSwapped(p, todo[p])
  PROVE  Wrapper!Restored' = last' /\ IsSwapped(p, todo[p])'
<1> DEFINE list == todo[p]
<1>1. /\ "binary" \in Wrapper!Files /\ "manifest" \in Wrapper!Files /\ "backupBinary" \in Wrapper!Files
         /\ "backupManifest" \in Wrapper!Files
      /\ list # <<>> /\ Version[p] # Missing
  BY DEF Wrapper!Files, Wrapper!Step, Wrapper!CacheAssumption
<1>2. CASE list = Swap2 /\ cache.binary = Missing /\ cache.manifest = Missing /\ InBackup
  <2>1. Places(p, "binary") /\ todo'[p] = Swap1
    <3>1. Head(list) = Wrapper!Place("binary") /\ Tail(list) = Swap1
      BY <1>2, Firsts
    <3> QED BY <1>1, <3>1, StepMakes
  <2>2. /\ cache'["binary"] = Version[p] /\ cache'["backupBinary"] = cache["backupBinary"]
        /\ cache'["backupManifest"] = cache["backupManifest"] /\ last' = last /\ cache'["manifest"] = Missing
    BY <1>1, <1>2, <2>1 DEF Places
  <2> QED BY <1>1, <1>2, <2>1, <2>2
     DEF IsSwapped, InBackup, Wrapper!Restored, Wrapper!Verified, Wrapper!OnlyManifestAway
<1>3. CASE list = Swap1 /\ cache.binary = Version[p] /\ cache.manifest = Missing /\ InBackup
  <2>1. Places(p, "manifest") /\ todo'[p] = <<>>
    <3>1. Head(list) = Wrapper!Place("manifest") /\ Tail(list) = <<>>
      BY <1>3, Firsts
    <3> QED BY <1>1, <3>1, StepMakes
  <2>2. /\ cache'["binary"] = Version[p] /\ last' = Version[p] /\ cache'["manifest"] = Version[p]
    BY <1>1, <1>3, <2>1 DEF Places
  <2> QED BY <1>1, <2>1, <2>2 DEF IsSwapped, Wrapper!OfVersion, Wrapper!Restored, Wrapper!Verified
<1> QED BY <1>1, <1>2, <1>3 DEF IsSwapped

\* The calls that remove the backup.
LEMMA Tidying ==
  ASSUME Wrapper!CacheAssumption, InstallInv, NEW p \in Invocations, Wrapper!Step(p), Wrapper!Restored = last,
         todo[p] \in {Clean2, Clean1, <<>>}, Wrapper!OfVersion(p)
  PROVE  Wrapper!Restored' = last' /\ todo'[p] \in {Clean2, Clean1, <<>>} /\ Wrapper!OfVersion(p)'
<1>1. /\ "binary" \in Wrapper!Files /\ "manifest" \in Wrapper!Files /\ "backupBinary" \in Wrapper!Files
         /\ "backupManifest" \in Wrapper!Files
      /\ todo[p] # <<>>
  BY DEF Wrapper!Files, Wrapper!Step
<1>2. PICK f \in {"backupBinary", "backupManifest"} : Removes(f) /\ todo'[p] \in {Clean2, Clean1, <<>>}
  BY <1>1, StepMakes, Firsts
<1>3. cache'["binary"] = cache["binary"] /\ cache'["manifest"] = cache["manifest"] /\ last' = last
  BY <1>1, <1>2 DEF Removes
<1> QED BY <1>2, <1>3 DEF Wrapper!OfVersion, Wrapper!Restored, Wrapper!Verified

\* The call that brings the manifest back to its binary.
LEMMA BringingBack ==
  ASSUME Wrapper!CacheAssumption, InstallInv, NEW p \in Invocations, Wrapper!Step(p), Wrapper!Restored = last,
         todo[p] = Restore1, Wrapper!OnlyManifestAway
  PROVE  /\ Wrapper!Restored' = last' /\ todo'[p] = <<>>
         /\ cache'["manifest"] # Missing /\ cache'["backupManifest"] = Missing
<1>1. /\ "binary" \in Wrapper!Files /\ "manifest" \in Wrapper!Files /\ "backupBinary" \in Wrapper!Files
         /\ "backupManifest" \in Wrapper!Files
  BY DEF Wrapper!Files
<1>2. Renames("backupManifest", "manifest") /\ todo'[p] = <<>>
  <2>1. Head(todo[p]) = Wrapper!Rename("backupManifest", "manifest") /\ Tail(todo[p]) = <<>>
    BY Firsts
  <2> QED BY <1>1, <2>1, StepMakes
<1>3. /\ cache'["binary"] = cache["binary"] /\ cache'["backupBinary"] = cache["backupBinary"]
      /\ cache'["backupManifest"] = Missing /\ last' = last /\ cache'["manifest"] = cache["backupManifest"]
      /\ cache["backupManifest"] # Missing
  BY <1>1, <1>2 DEF Renames
<1> QED BY <1>2, <1>3 DEF Wrapper!Restored, Wrapper!Verified, Wrapper!OnlyManifestAway

\* A call of the file system.
LEMMA StepStep == ASSUME Wrapper!CacheAssumption, InstallInv, NEW p \in Invocations, Wrapper!Step(p)
         PROVE InstallInv'
<1>1. InstallShape /\ TodoInv
  BY DEF InstallInv
<1>2. /\ UNCHANGED <<installLock, place, result, deaths, suspends, displaced>> /\ todo[p] # <<>>
      /\ todo' = [todo EXCEPT ![p] = Tail(todo[p])] /\ Tail(todo[p]) \in Lists
      /\ cache' \in [Wrapper!Files -> Versions \cup {Missing, Wrapper!Direct}]
               /\ last' \in Versions \cup {Missing}
  BY StepMakes
<1>3. place[p] \in Moving /\ Active(p)
  BY <1>1, <1>2, PlacesAre DEF TodoInv, Active
<1>4. /\ todo' \in [Invocations -> Lists] /\ \A q \in Invocations \ {p} : todo'[q] = todo[q]
  BY <1>1, <1>2 DEF InstallShape
<1>5. InstallShape' /\ TodoInv'
  BY <1>1, <1>2, <1>3, <1>4 DEF InstallShape, TodoInv
<1>6. ASSUME displaced' = FALSE PROVE OwnerInv' /\ CacheInv'
  <2>1. OwnerInv /\ CacheInv
    BY <1>2, <1>6 DEF InstallInv
  <2>2. OwnerInv'
    BY <1>2, <2>1 DEF OwnerInv, Active
  <2>3. Wrapper!Restored = last /\ ProgressOf(p, place[p], todo[p], result[p])
    BY <1>3, <2>1 DEF CacheInv
  <2>4. Wrapper!Restored' = last' /\ ProgressOf(p, place[p], todo[p], result[p])'
    <3>1. CASE place[p] = "recheck"
      <4>1. todo[p] = Restore1 /\ Wrapper!OnlyManifestAway
        BY <1>2, <2>3, <3>1 DEF ProgressOf
      <4> QED BY <1>2, <2>3, <3>1, <4>1, BringingBack DEF ProgressOf, Wrapper!Releasing
    <3>2. CASE place[p] = "recovering"
      <4>1. ComesBack(todo[p]) \/ IsCleared(todo[p])
        BY <2>3, <3>2 DEF ProgressOf
      <4>2. Wrapper!Restored' = last' /\ (ComesBack(todo[p]) \/ IsCleared(todo[p]))'
        BY <2>3, <4>1, ComingBack, Clearing
      <4> QED BY <1>2, <3>2, <4>2 DEF ProgressOf, Wrapper!Releasing
    <3>3. CASE place[p] = "aside"
      <4>1. Wrapper!Restored' = last' /\ IsAside(todo[p])'
        BY <2>3, <3>3, SettingAside DEF ProgressOf
      <4> QED BY <1>2, <3>3, <4>1 DEF ProgressOf, Wrapper!Releasing
    <3>4. CASE place[p] = "swap"
      <4>1. Wrapper!Restored' = last' /\ IsSwapped(p, todo[p])'
        BY <2>3, <3>4, Swapping DEF ProgressOf
      <4> QED BY <1>2, <3>4, <4>1 DEF ProgressOf, Wrapper!Releasing
    <3>5. CASE place[p] = "tidy"
      <4>1. Wrapper!Restored' = last' /\ todo'[p] \in {Clean2, Clean1, <<>>} /\ Wrapper!OfVersion(p)'
        BY <2>3, <3>5, Tidying DEF ProgressOf
      <4> QED BY <1>2, <3>5, <4>1 DEF ProgressOf, Wrapper!Releasing
    <3> QED BY <1>3, <2>3, <3>1, <3>2, <3>3, <3>4, <3>5 DEF Moving, ProgressOf
  <2>5. ASSUME NEW q \in Invocations, Active(q)' PROVE q = p
    BY <1>2, <1>3, <2>1, <2>5 DEF OwnerInv, Active
  <2> QED BY <2>2, <2>4, <2>5 DEF CacheInv
<1> QED BY <1>5, <1>6 DEF InstallInv

\* A new cache is as it should be.
LEMMA InstallBegins == ASSUME Wrapper!CacheAssumption, Wrapper!Init PROVE InstallInv
<1>1. /\ installLock = Missing /\ place = [q \in Invocations |-> "acquire"] /\ todo = [q \in Invocations |-> <<>>]
      /\ result = [q \in Invocations |-> "none"] /\ deaths = 0 /\ suspends = 0 /\ displaced = FALSE
  BY DEF Wrapper!Init
<1>2. PICK b \in Versions \cup {Missing, Wrapper!Direct}, m \in Versions \cup {Missing} :
        /\ cache = [[Wrapper!NoFiles EXCEPT !.binary = b] EXCEPT !.manifest = m]
        /\ last = m /\ (m # Missing => b = m) /\ (m = Missing => b \in {Missing, Wrapper!Direct})
  <2>1. CASE \E b \in {Missing, Wrapper!Direct} : cache = [Wrapper!NoFiles EXCEPT !.binary = b]
           /\ last = Missing
    <3>1. PICK b \in {Missing, Wrapper!Direct} : cache = [Wrapper!NoFiles EXCEPT !.binary = b] /\ last = Missing
      BY <2>1
    <3>2. cache = [[Wrapper!NoFiles EXCEPT !.binary = b] EXCEPT !.manifest = Missing]
      BY <3>1 DEF Wrapper!NoFiles, Wrapper!Files
    <3> QED BY <3>1, <3>2
  <2>2. CASE \E v \in Versions : cache = [Wrapper!NoFiles EXCEPT !.binary = v, !.manifest = v] /\ last = v
    BY <2>2 DEF Wrapper!CacheAssumption
  <2> QED BY <2>1, <2>2 DEF Wrapper!Init
<1>3. /\ cache \in [Wrapper!Files -> Versions \cup {Missing, Wrapper!Direct}]
      /\ cache["binary"] = b /\ cache["manifest"] = m
      /\ cache["backupBinary"] = Missing /\ cache["backupManifest"] = Missing
  BY <1>2 DEF Wrapper!NoFiles, Wrapper!Files
<1>4. Wrapper!Restored = last
  BY <1>2, <1>3 DEF Wrapper!Restored, Wrapper!Verified, Wrapper!OnlyManifestAway
<1>5. \A q \in Invocations : place[q] = "acquire" /\ ~Active(q) /\ todo[q] = <<>>
  BY <1>1 DEF Active, Wrapper!Installing, Wrapper!Releasing
<1>6. InstallShape
  <2>1. place \in [Invocations -> Labels]
    BY <1>1, PlacesAre
  <2>2. todo \in [Invocations -> Lists]
    BY <1>1 DEF Lists
  <2>3. result \in [Invocations -> {"none", "binary", "error"}]
    BY <1>1
  <2>4. deaths \in 0..MaxDeaths /\ suspends \in 0..MaxSuspends
    BY <1>1 DEF Wrapper!CacheAssumption
  <2> QED BY <1>1, <1>2, <1>3, <2>1, <2>2, <2>3, <2>4 DEF InstallShape
<1> QED BY <1>4, <1>5, <1>6 DEF InstallInv, TodoInv, OwnerInv, CacheInv

\* Every step keeps what is shown of an installation.
LEMMA InstallKept == ASSUME Wrapper!CacheAssumption, InstallInv, [Wrapper!Next]_(Wrapper!vars) PROVE InstallInv'
<1>1. CASE Wrapper!GetsStale
  BY <1>1, AgeStep
<1>2. CASE \E p \in Invocations : Wrapper!MakeLock(p) \/ Wrapper!WriteOwner(p) \/ Wrapper!ReadLock(p)
         \/ Wrapper!TakeOver(p) \/ Wrapper!Beat(p)
                            \/ Wrapper!ReadOwn(p) \/ Wrapper!Unlock(p) \/ Wrapper!Killed(p)
  BY <1>2, AgeStep, IdleSteps, MakeLockStep, WriteOwnerStep, TakeOverStep, ReadOwnStep, UnlockStep
<1>3. CASE \E p \in Invocations : Wrapper!Recover(p) \/ Wrapper!Recheck(p) \/ Wrapper!Validate(p)
         \/ Wrapper!Fetch(p)
                            \/ Wrapper!Replace(p) \/ Wrapper!Swap(p) \/ Wrapper!Verify(p) \/ Wrapper!Return(p)
  BY <1>3, RecoverStep, RecheckStep, ValidateStep, FetchStep, ReplaceStep, SwapStep, VerifyStep, ReturnStep
<1>4. CASE \E p \in Invocations : Wrapper!Step(p) \/ Wrapper!Throw(p)
  BY <1>4, StepStep, ThrowStep
<1>5. CASE UNCHANGED Wrapper!vars
  <2>1. InstallInv
    OBVIOUS
  <2> QED BY <1>5, <2>1
     DEF Wrapper!vars, InstallInv, InstallShape, TodoInv, OwnerInv, CacheInv, Active, Wrapper!Restored,
              ProgressOf,
         ComesBack, IsCleared, IsAside, IsSwapped, Recovered, Current, Backup, Nowhere,
         InBackup, Wrapper!OfVersion, Wrapper!Verified, Wrapper!OnlyManifestAway
<1> QED BY <1>1, <1>2, <1>3, <1>4, <1>5 DEF Wrapper!Next

\* No list has more than four calls.
LEMMA ListsAreShort == \A list \in Lists : Len(list) <= 5
<1>1. Len(<<>>) = 0
  OBVIOUS
<1>2. \A list \in {Clean1, Restore1, Aside1, Drop1, Swap1} : Len(list) = 1
  BY ListOfOne DEF Clean1, Restore1, Aside1, Drop1, Swap1
<1>3. \A list \in {Clean2, Restore2, Aside2, Drop2, Swap2} : Len(list) = 2
  BY ListOfTwo DEF Clean2, Restore2, Aside2, Drop2, Swap2
<1>4. \A list \in {Clean3, Restore3} : Len(list) = 3
  BY ListOfThree DEF Clean3, Restore3
<1>5. \A list \in {Clean4, Restore4} : Len(list) = 4
  BY ListOfFour DEF Clean4, Restore4
<1>6. ASSUME NEW list \in Lists PROVE Len(list) <= 5
  <2>1. \/ list = <<>> \/ list \in {Clean1, Restore1, Aside1, Drop1, Swap1}
        \/ list \in {Clean2, Restore2, Aside2, Drop2, Swap2}
        \/ list \in {Clean3, Restore3} \/ list \in {Clean4, Restore4}
    BY <1>6 DEF Lists
  <2>2. Len(list) \in {0, 1, 2, 3, 4}
    BY <1>1, <1>2, <1>3, <1>4, <1>5, <2>1
  <2>3. \A n \in {0, 1, 2, 3, 4} : n <= 5
    OBVIOUS
  <2> QED BY <2>2, <2>3, Zenon
<1> QED BY <1>6

\* What is shown is enough.
LEMMA InstallImplies == ASSUME InstallInv PROVE Wrapper!InstallSafe
<1>1. InstallShape
  BY DEF InstallInv
<1>2. Wrapper!TypeOK
  BY <1>1, ListsAreShort DEF InstallShape, Wrapper!TypeOK, Labels, Locks
<1>3. Wrapper!NoInstallLost
  BY <1>1 DEF InstallInv, InstallShape, CacheInv, Wrapper!NoInstallLost
<1>4. ASSUME displaced = FALSE
      PROVE  /\ \A p \in Invocations : place[p] \in Wrapper!Releasing
               /\ result[p] = "binary" => Wrapper!OfVersion(p)
             /\ \A p, q \in Invocations :
                  place[p] \in Wrapper!Installing \cup Wrapper!Releasing
                           /\ place[q] \in Wrapper!Installing \cup Wrapper!Releasing => p = q
  <2>1. OwnerInv /\ CacheInv
    BY <1>4 DEF InstallInv
  <2>2. \A p \in Invocations : place[p] \in Wrapper!Releasing /\ result[p] = "binary" => Wrapper!OfVersion(p)
    BY <2>1 DEF CacheInv, Active, ProgressOf
  <2> QED BY <2>1, <2>2 DEF OwnerInv, Active
<1>5. Wrapper!InstallsAlone
  BY <1>1, <1>4 DEF InstallShape, Wrapper!InstallsAlone
<1> QED BY <1>2, <1>3, <1>5 DEF Wrapper!InstallSafe

\* NoInstallLost and InstallsAlone for any invocations: recoverInterruptedInstall
\* ends with the version that was completed last, whichever of them were killed, in
\* an upgrade or in a recovery from one; and ensureBinary returns the invocation's
\* own version while nobody took its lock.
THEOREM InstallsAreSafe == ASSUME Wrapper!CacheAssumption PROVE Wrapper!Spec => []Wrapper!InstallSafe
<1>1. Wrapper!Init => InstallInv
  BY InstallBegins
<1>2. InstallInv /\ [Wrapper!Next]_(Wrapper!vars) => InstallInv'
  BY InstallKept
<1>3. InstallInv => Wrapper!InstallSafe
  BY InstallImplies
<1> QED BY <1>1, <1>2, <1>3, PTL DEF Wrapper!Spec
===============================================================================
