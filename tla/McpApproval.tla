----------------------------- MODULE McpApproval -----------------------------
(***************************************************************************)
(* Out-of-band approval of effectful MCP tools: the record store of        *)
(* phantom-core (mcp_approval.rs), the gate every effectful tool passes    *)
(* (require_approval_token in phantom-mcp) and the terminal ceremony       *)
(* `phantom mcp-approve' (mcp_approve.rs).                                 *)
(*                                                                         *)
(* A server thread that is called without a token writes a pending record  *)
(* under a fresh nonce.  The operator inspects it, types the challenge and *)
(* approves it, which prints a token; a call with that token removes the   *)
(* record and runs the effect.  Each operation takes the storage lock,     *)
(* loads the file, checks, and replaces the file; the steps between are    *)
(* where other processes, the wall clock and a crash can come in.          *)
(*                                                                         *)
(* The argument hash and the token are keyed MACs: the hash is modelled as *)
(* the parameters themselves, a token as the pair it authenticates.        *)
(***************************************************************************)
EXTENDS Integers, Sequences

CONSTANTS
  Servers,      \* threads of MCP servers that handle tool calls
  Terminals,    \* runs of `phantom mcp-approve'
  Nonces,       \* 32-byte random values; their number bounds the requests
  Legacy,       \* nonces of records written before the informed-consent format
  Tools,
  Projects,
  Params,       \* canonical parameters, without the approval fields
  Forged,       \* any token text that is no token of the key
  None,
  ApprovalTtl,  \* APPROVAL_TTL_SECS
  UseTtl,       \* APPROVED_USE_TTL_SECS
  MaxTime       \* bound on the clock

Procs == Servers \cup Terminals
Calls == [tool : Tools, project : Projects, params : Params]
Macs  == Nonces \X Params

ASSUME ApprovalAssumption ==
  /\ Servers \cap Terminals = {}
  /\ Legacy \subseteq Nonces
  /\ Calls # {}
  /\ None \notin Procs \cup Nonces
  /\ Forged \notin Macs
  /\ ApprovalTtl \in Nat /\ UseTtl \in Nat /\ MaxTime \in Nat

AnyCall == CHOOSE c \in Calls : TRUE

\* What the records file says of a nonce.  A missing expires_at is 0: it never
\* lies in the future.
StoredApprovalRecord ==
  [state : {"absent", "pending", "approved"}, call : Calls,
   expires : Nat, informed : BOOLEAN]

Absent == [state |-> "absent", call |-> AnyCall, expires |-> 0, informed |-> FALSE]

VARIABLES
  now,        \* the wall clock
  records,    \* the records file
  lock,       \* holder of the storage lock, or None
  pc,         \* where each process is
  job,        \* the arguments and locals of its operation
  staged,     \* the records it has loaded and will write
  announced,  \* nonces shown to the operator
  printed,    \* tokens printed by mcp-approve
  reviewed,   \* <<nonce, call>> pairs the operator confirmed
  grantedAt,  \* when each nonce was approved
  effects     \* effects run on each nonce: the call, and when it was let in

trail == <<announced, printed, reviewed, grantedAt, effects>>
vars  == <<now, records, lock, pc, job, staged, announced, printed, reviewed,
           grantedAt, effects>>

NoJob ==
  [op |-> "none", nonce |-> None, mac |-> Forged, call |-> AnyCall, at |-> 0]

Empty == [n \in Nonces |-> Absent]

\* The store may hold records of an earlier version, without summaries and
\* with or without an expiry; tokens of its approved records may be in use.
Init ==
  /\ now = 0
  /\ \E old \in [Legacy ->
             [state : {"pending", "approved"}, call : Calls,
              expires : {0, UseTtl}, informed : {FALSE}]] :
       /\ records = [n \in Nonces |-> IF n \in Legacy THEN old[n] ELSE Absent]
       /\ printed = {<<n, old[n].call.params>> :
                       n \in {m \in Legacy : old[m].state = "approved"}}
  /\ lock = None
  /\ pc = [p \in Procs |-> "idle"]
  /\ job = [p \in Procs |-> NoJob]
  /\ staged = [p \in Procs |-> Empty]
  /\ announced = Legacy
  /\ reviewed = {}
  /\ grantedAt = [n \in Nonces |-> 0]
  /\ effects = [n \in Nonces |-> <<>>]

-----------------------------------------------------------------------------
(* Starting, waiting and returning                                         *)

Start(p, j) ==
  /\ pc[p] = "idle"
  /\ pc' = [pc EXCEPT ![p] = "lock"]
  /\ job' = [job EXCEPT ![p] = j]
  /\ UNCHANGED <<now, records, lock, staged, trail>>

\* The operation returns, or its process dies: either way the lock is dropped.
Return(p) ==
  /\ pc' = [pc EXCEPT ![p] = "idle"]
  /\ job' = [job EXCEPT ![p] = NoJob]
  /\ staged' = [staged EXCEPT ![p] = Empty]
  /\ lock' = IF lock = p THEN None ELSE lock

\* The loop that draws nonces refuses one that is in the file; a random one
\* is not one that anybody else holds.
Fresh(n) ==
  /\ n \notin announced
  /\ records[n] = Absent
  /\ \A p \in Procs : job[p].nonce # n

\* require_approval_token without a token: ask for an approval of call c.
Request(s, c, n) ==
  /\ Fresh(n)
  /\ Start(s, [NoJob EXCEPT !.op = "generate", !.nonce = n, !.call = c])

\* require_approval_token with the token m for nonce n.
Retry(s, c, n, m) ==
  Start(s, [NoJob EXCEPT !.op = "consume", !.nonce = n, !.mac = m, !.call = c])

\* `phantom mcp-approve n', on a terminal.
Review(t, n) ==
  Start(t, [NoJob EXCEPT !.op = "inspect", !.nonce = n])

\* prune_stale_approvals, a public operation.
PruneStale(t) == Start(t, [NoJob EXCEPT !.op = "prune"])

\* acquire_storage_lock: the process mutex, then an exclusive file lock.
Acquire(p) ==
  /\ pc[p] = "lock"
  /\ lock = None
  /\ lock' = p
  /\ pc' = [pc EXCEPT ![p] = "held"]
  /\ UNCHANGED <<now, records, job, staged, trail>>

\* Any operation can fail on I/O before it has replaced the file, and any
\* process can die: before the write, before the effect, before the token is
\* printed.
Abort(p) ==
  /\ pc[p] \in {"lock", "held", "write", "run", "print"}
  /\ Return(p)
  /\ UNCHANGED <<now, records, trail>>

-----------------------------------------------------------------------------
(* Load and check, under the lock                                          *)

Expired(r) == now >= r.expires

Live == [n \in Nonces |-> IF Expired(records[n]) THEN Absent ELSE records[n]]

\* load_records, and the check has passed: rs is what will be written.
Stage(p, rs) ==
  /\ pc' = [pc EXCEPT ![p] = "write"]
  /\ job' = [job EXCEPT ![p].at = now]
  /\ staged' = [staged EXCEPT ![p] = rs]
  /\ UNCHANGED <<now, records, lock, trail>>

Refuse(p) ==
  /\ Return(p)
  /\ UNCHANGED <<now, records, trail>>

\* generate_pending_approval drops the expired records.
Generate(p) == job[p].op = "generate" /\ Stage(p, Live)

\* Mutant: any parameters pass.
AdmissibleAnyParams(r, j) ==
  /\ r.call.tool = j.call.tool
  /\ r.call.project = j.call.project
  /\ r.state = "approved" /\ r.informed /\ ~Expired(r)
  /\ j.mac = <<j.nonce, r.call.params>>

\* Mutant: the use window is not checked.
AdmissibleLate(r, j) ==
  /\ r.call.tool = j.call.tool
  /\ r.call.project = j.call.project
  /\ r.state = "approved" /\ r.informed
  /\ r.call.params = j.call.params
  /\ j.mac = <<j.nonce, r.call.params>>

\* The checks of validate_and_consume_approval.
Admissible(r, j) ==
  /\ r.call.tool = j.call.tool
  /\ r.call.project = j.call.project
  /\ r.state = "approved" /\ r.informed /\ ~Expired(r)
  /\ r.call.params = j.call.params
  /\ j.mac = <<j.nonce, r.call.params>>

\* Mutant: the record stays in the file.
ConsumeKeeps(p) ==
  /\ job[p].op = "consume"
  /\ IF Admissible(records[job[p].nonce], job[p])
     THEN Stage(p, records)
     ELSE Refuse(p)

Consume(p) ==
  /\ job[p].op = "consume"
  /\ IF Admissible(records[job[p].nonce], job[p])
     THEN Stage(p, [records EXCEPT ![job[p].nonce] = Absent])
     ELSE Refuse(p)

\* The checks inspect_pending_approval and approve_nonce share.
Approvable(r) == r.state = "pending" /\ ~Expired(r) /\ r.informed

\* inspect_pending_approval shows the record and releases the lock.
Inspect(p) ==
  /\ job[p].op = "inspect"
  /\ IF Approvable(records[job[p].nonce])
     THEN /\ pc' = [pc EXCEPT ![p] = "confirm"]
          /\ job' = [job EXCEPT ![p].call = records[job[p].nonce].call]
          /\ lock' = None
          /\ UNCHANGED <<now, records, staged, trail>>
     ELSE Refuse(p)

\* approve_nonce looks the record up again.
Approve(p) ==
  /\ job[p].op = "approve"
  /\ IF Approvable(records[job[p].nonce]) THEN Stage(p, records) ELSE Refuse(p)

\* prune_stale_approvals writes only if something expired.
Prune(p) ==
  /\ job[p].op = "prune"
  /\ IF Live # records THEN Stage(p, Live) ELSE Refuse(p)

Check(p) ==
  /\ pc[p] = "held"
  /\ Generate(p) \/ Consume(p) \/ Inspect(p) \/ Approve(p) \/ Prune(p)

-----------------------------------------------------------------------------
(* Replacing the file                                                      *)

\* What write_records writes: generate and approve stamp the current time.
Written(p) ==
  LET n == job[p].nonce
  IN CASE job[p].op = "generate" ->
            [staged[p] EXCEPT ![n] =
               [state |-> "pending", call |-> job[p].call,
                expires |-> now + ApprovalTtl, informed |-> TRUE]]
       [] job[p].op = "approve" ->
            [staged[p] EXCEPT ![n].state = "approved",
                              ![n].expires = now + UseTtl]
       [] OTHER -> staged[p]

Replace(p) ==
  /\ pc[p] = "write"
  /\ records' = Written(p)
  /\ grantedAt' = IF job[p].op = "approve"
                  THEN [grantedAt EXCEPT ![job[p].nonce] = now]
                  ELSE grantedAt

\* generate and prune return, a consumed approval lets the tool run, and
\* approve_nonce computes the token from the record it loaded.
Write(p) ==
  /\ Replace(p)
  /\ IF job[p].op \in {"generate", "prune"}
     THEN Return(p)
     ELSE /\ lock' = None
          /\ pc' = [pc EXCEPT ![p] = IF job[p].op = "consume" THEN "run" ELSE "print"]
          /\ job' = [job EXCEPT ![p].mac =
                       <<job[p].nonce, staged[p][job[p].nonce].call.params>>]
          /\ staged' = [staged EXCEPT ![p] = Empty]
  /\ announced' = IF job[p].op = "generate"
                  THEN announced \cup {job[p].nonce}
                  ELSE announced
  /\ UNCHANGED <<now, printed, reviewed, effects>>

\* replace_file has renamed the file and fails to sync the directory: the
\* operation reports an error though its records are in place.
WriteUnsynced(p) ==
  /\ Replace(p)
  /\ Return(p)
  /\ UNCHANGED <<now, announced, printed, reviewed, effects>>

-----------------------------------------------------------------------------
(* Outside the lock                                                        *)

\* The tool runs its effect after require_approval_token returned Ok.
Run(s) ==
  /\ pc[s] = "run"
  /\ effects' = [effects EXCEPT ![job[s].nonce] =
                   Append(@, [call |-> job[s].call, at |-> job[s].at])]
  /\ Return(s)
  /\ UNCHANGED <<now, records, announced, printed, reviewed, grantedAt>>

\* write_approval_output.
PrintToken(t) ==
  /\ pc[t] = "print"
  /\ printed' = printed \cup {job[t].mac}
  /\ Return(t)
  /\ UNCHANGED <<now, records, announced, reviewed, grantedAt, effects>>

\* review_and_confirm: the operator types the challenge ...
Confirm(t) ==
  /\ pc[t] = "confirm"
  /\ pc' = [pc EXCEPT ![t] = "lock"]
  /\ job' = [job EXCEPT ![t].op = "approve"]
  /\ reviewed' = reviewed \cup {<<job[t].nonce, job[t].call>>}
  /\ UNCHANGED <<now, records, lock, staged, announced, printed, grantedAt, effects>>

\* ... or something else, or the terminal goes away.
Cancel(t) ==
  /\ pc[t] = "confirm"
  /\ Return(t)
  /\ UNCHANGED <<now, records, trail>>

\* The wall clock moves, or is set.
Clock ==
  /\ now' \in 0..MaxTime \ {now}
  /\ UNCHANGED <<records, lock, pc, job, staged, trail>>

Next ==
  \/ \E s \in Servers, c \in Calls :
       \/ \E n \in Nonces : Request(s, c, n)
       \/ \E n \in announced, m \in printed \cup {Forged} : Retry(s, c, n, m)
  \/ \E t \in Terminals :
       \/ \E n \in announced : Review(t, n)
       \/ PruneStale(t) \/ PrintToken(t) \/ Confirm(t) \/ Cancel(t)
  \/ \E s \in Servers : Run(s)
  \/ \E p \in Procs :
       Acquire(p) \/ Check(p) \/ Write(p) \/ WriteUnsynced(p) \/ Abort(p)
  \/ Clock

\* A process that holds the lock runs straight-line code until it returns.
Spec ==
  /\ Init /\ [][Next]_vars
  /\ \A p \in Procs : WF_vars(Check(p)) /\ WF_vars(Write(p) \/ WriteUnsynced(p))

-----------------------------------------------------------------------------
(* Properties                                                              *)

\* Every variable keeps its type.
TypeOK ==
  /\ now \in 0..MaxTime
  /\ records \in [Nonces -> StoredApprovalRecord]
  /\ lock \in Procs \cup {None}
  /\ pc \in [Procs -> {"idle", "lock", "held", "write", "confirm", "run", "print"}]
  /\ job \in [Procs ->
       [op : {"none", "generate", "consume", "inspect", "approve", "prune"},
        nonce : Nonces \cup {None}, mac : Macs \cup {Forged}, call : Calls,
        at : Nat]]
  /\ staged \in [Procs -> [Nonces -> StoredApprovalRecord]]
  /\ announced \subseteq Nonces
  /\ printed \subseteq Macs
  /\ reviewed \subseteq Nonces \X Calls
  /\ grantedAt \in [Nonces -> Nat]
  /\ effects \in [Nonces -> Seq([call : Calls, at : Nat])]

\* "On success the nonce is consumed (deleted) to prevent replay": however
\* many calls present its token, and whatever fails or dies between, one
\* approval lets at most one effect run.
SingleUse == \A n \in Nonces : Len(effects[n]) <= 1

\* A tool runs only what the operator saw: the effect run on a nonce is the
\* very call shown and confirmed in a terminal for that nonce, whatever became
\* of the record between the review, the approval and the call.
RunsWhatWasReviewed ==
  \A n \in Nonces : \A i \in 1..Len(effects[n]) :
    <<n, effects[n][i].call>> \in reviewed

\* "Approved tokens must be consumed within 5 minutes of terminal approval."
UsedInWindow ==
  \A n \in Nonces : \A i \in 1..Len(effects[n]) :
    effects[n][i].at < grantedAt[n] + UseTtl

\* No operation undoes another's: an approval leaves the file only when a
\* call consumes it or when the operation that drops it found it expired.  In
\* particular no writer puts back what it loaded before the approval, and a
\* refused call costs nothing.
ApprovalsKept ==
  [][\A n \in Nonces :
       records[n].state = "approved" /\ records'[n] # records[n] =>
         \E p \in Procs :
           /\ pc[p] = "write"
           /\ \/ job[p].op = "consume" /\ job[p].nonce = n
              \/ records[n].expires <= job[p].at]_vars

\* Nobody waits for the lock on the operator: whoever has it gives it up
\* without a confirmation being typed.
LockReleased == \A p \in Procs : lock = p ~> lock # p

=============================================================================
