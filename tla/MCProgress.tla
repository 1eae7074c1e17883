----------------------------- MODULE MCProgress -----------------------------
(***************************************************************************)
(* What has to happen eventually, for TLC: locks that are given back, a stop *)
(* that is obeyed, a recovery, a login, a delivery and a shutdown that end.  *)
(*                                                                           *)
(* As in MCRecords a behaviour has one scenario: one component with values   *)
(* for its constants.  The others rest: where a component has one initial    *)
(* state it stays there, and otherwise its variables hold Absent.  The       *)
(* fairness of a component is that of its own specification.                 *)
(***************************************************************************)
EXTENDS Integers, Sequences, FiniteSets, TLC

CONSTANTS Scenarios, None, Forged

VARIABLES
    scenario,
    files, dir, vault, lock, pc, todo, cur, seen, snap, touched, receipts, ok, edits,
    request, lapsed, targets, dirs, entries, jphase, jimage, jshot, wsLock, projLock, step,
    mode, k, image, shot, parents, made, failed, why, env,
    clock, records, storage, at, job, staged, announced, printed, reviewed, grantedAt, effects,
    stage, branch, token, woken, timer, child, group, kind, use, revokedUse, result, faults,
    done, user, binding, cursor, work, acked, crashes,
    now, row, cli, attempts, polls, approval, bearers, repeats,
    server, signal, conn, task, upstream, permits, budget, got, served

transaction == <<files, dir, vault, lock, pc, todo, cur, seen, snap, touched, receipts, ok, edits>>
workspace == <<request, lapsed, targets, dirs, entries, jphase, jimage, jshot, wsLock, projLock,
               step, mode, k, image, shot, parents, made, failed, why, env>>
approvals == <<clock, records, storage, at, job, staged, announced, printed, reviewed,
               grantedAt, effects>>
supervised == <<stage, branch, token, woken, timer, child, group, kind, use, revokedUse,
                result, faults>>
billing == <<done, user, binding, cursor, work, acked, crashes>>
login == <<now, row, cli, attempts, polls, approval, bearers, repeats>>
proxy == <<server, signal, conn, task, upstream, permits, budget, got, served>>

-----------------------------------------------------------------------------
(* The scenarios.                                                            *)

\* Two init transactions, one of which may be waiting for the project lock;
\* writes and rollbacks fail.
Commit == INSTANCE InitTransaction WITH
    Txns <- {"t1", "t2"}, Early <- {}, Last <- {"env"}, Nested <- {},
    Secrets <- {"s1"}, Deletes <- {}, Copies <- {}, Source <- "source",
    Faults <- {"file", "rollback", "vault"}, Crashes <- TRUE, MaxEdits <- 0

\* One terminal that runs the command until nothing is left to recover.
Apply == INSTANCE WorkspaceApply WITH
    files <- targets, vault <- entries, pc <- step,
    Procs <- {"p1"}, NoProc <- None, NFiles <- 2, NSecrets <- 2, Dotenv <- <<2, 2>>,
    Nested <- {}, MaxDisturbances <- 2

\* A server and a terminal, with a record of the format before informed consent.
Approve == INSTANCE McpApproval WITH
    now <- clock, lock <- storage, pc <- at,
    Servers <- {"server"}, Terminals <- {"terminal"}, Nonces <- {"n0", "n1"}, Legacy <- {"n0"},
    Tools <- {"rotate"}, Projects <- {"here"}, Params <- {"x"},
    ApprovalTtl <- 1, UseTtl <- 1, MaxTime <- 1

\* A run whose caller waits for it, one write of its store may fail.
Run == INSTANCE SupervisedRun WITH
    pc <- stage, MaxFaults <- 1, MayDrop <- FALSE

Event(id, type, created, plan, expires) ==
    [id |-> id, type |-> type, created |-> created, user |-> "u1", sub |-> "s1",
     plan |-> plan, expires |-> expires]

Purchases ==
    {Event(1, "updated", 1, "pro", 8), Event(2, "checkout", 1, "pro", 0),
     Event(3, "deleted", 2, "free", 0)}

\* One subscription from its purchase to its deletion; deliveries die twice.
Billing == INSTANCE BillingEvents WITH
    Users <- {"u1"}, Subs <- {"s1"}, Workers <- {"w1", "w2"}, MaxCrashes <- 2,
    Events <- Purchases

\* A login whose polls may be repeated.
Login == INSTANCE DeviceLogin WITH
    Codes <- {"d1"}, Users <- {"u1"}, Client <- [d \in {"d1"} |-> "address"],
    CodeTTL <- 1, TokenTTL <- 3, MaxPending <- 1, MaxAttempts <- 3, MaxTime <- 3, MaxRepeats <- 1, MaxUnsure <- 1

Good(size) == [token |-> "header", path |-> "route", usable |-> TRUE, size |-> size]

\* One client of a proxy, which may leave, and upstreams that may hang.
Proxy == INSTANCE ProxyServer WITH
    Clients <- {"c1"}, MaxConnections <- 1, MaxRequests <- 1, MaxBody <- 2, Budget <- 2,
    UrlAuth <- FALSE, Requests <- {Good(1), Good(2)}, MaxServed <- 2, MaxChunks <- 2

ASSUME Scenarios \subseteq {"commit", "apply", "approve", "run", "billing", "login", "proxy"}

ASSUME /\ Commit!InitAssumption /\ Run!RunAssumption /\ Billing!BillingAssumption
       /\ Login!DeviceAssumption /\ Proxy!ProxyAssumption

-----------------------------------------------------------------------------
(* The specification.                                                        *)

\* The value of the variables of a component that is not in the scenario.
Absent == "absent"

TransactionInit ==
    IF scenario = "commit" THEN Commit!Init
    ELSE /\ files = Absent /\ dir = Absent /\ vault = Absent /\ lock = Absent
         /\ pc = Absent /\ todo = Absent /\ cur = Absent /\ seen = Absent
         /\ snap = Absent /\ touched = Absent /\ receipts = Absent /\ ok = Absent
         /\ edits = Absent

ApprovalInit ==
    IF scenario = "approve" THEN Approve!Init
    ELSE /\ clock = Absent /\ records = Absent /\ storage = Absent /\ at = Absent
         /\ job = Absent /\ staged = Absent /\ announced = Absent /\ printed = Absent
         /\ reviewed = Absent /\ grantedAt = Absent /\ effects = Absent

Init ==
    /\ scenario \in Scenarios
    /\ TransactionInit /\ ApprovalInit
    /\ Apply!Init /\ Run!Init /\ Billing!Init /\ Login!Init /\ Proxy!Init

Commits ==
    /\ scenario = "commit" /\ Commit!Next
    /\ UNCHANGED <<scenario, workspace, approvals, supervised, billing, login, proxy>>

Applies ==
    /\ scenario = "apply" /\ Apply!Next
    /\ UNCHANGED <<scenario, transaction, approvals, supervised, billing, login, proxy>>

Approves ==
    /\ scenario = "approve" /\ Approve!Next
    /\ UNCHANGED <<scenario, transaction, workspace, supervised, billing, login, proxy>>

Runs ==
    /\ scenario = "run" /\ Run!Next
    /\ UNCHANGED <<scenario, transaction, workspace, approvals, billing, login, proxy>>

Bills ==
    /\ scenario = "billing" /\ Billing!Next
    /\ UNCHANGED <<scenario, transaction, workspace, approvals, supervised, login, proxy>>

LogsIn ==
    /\ scenario = "login" /\ Login!Next
    /\ UNCHANGED <<scenario, transaction, workspace, approvals, supervised, billing, proxy>>

Serves ==
    /\ scenario = "proxy" /\ Proxy!Next
    /\ UNCHANGED <<scenario, transaction, workspace, approvals, supervised, billing, login>>

vars == <<scenario, transaction, workspace, approvals, supervised, billing, login, proxy>>

\* Transactions, commands and logins end.
Rests == scenario \in {"commit", "apply", "approve", "login"} /\ UNCHANGED vars

Next == Commits \/ Applies \/ Approves \/ Runs \/ Bills \/ LogsIn \/ Serves \/ Rests

\* The fairness of InitTransaction!Spec, WorkspaceApply!RerunSpec, McpApproval!Spec
\* and of FairSpec in the other modules.
Fairness ==
    /\ \A t \in {"t1", "t2"} : WF_transaction(scenario = "commit" /\ Commit!Step(t))
    /\ WF_workspace(scenario = "apply" /\ Apply!Work("p1"))
    /\ SF_workspace(scenario = "apply" /\ Apply!TakesWorkspaceLock("p1"))
    /\ WF_workspace(scenario = "apply" /\ Apply!ReadStatus("p1"))
    /\ WF_workspace(scenario = "apply" /\ Apply!Confirm("p1"))
    /\ \A p \in {"server", "terminal"} :
        /\ WF_approvals(scenario = "approve" /\ Approve!Check(p))
        /\ WF_approvals(scenario = "approve" /\ (Approve!Write(p) \/ Approve!WriteUnsynced(p)))
    /\ WF_supervised(scenario = "run" /\ Run!Run)
    /\ \A t \in {"revoked", "cancelled", "overflow"} :
        WF_supervised(scenario = "run" /\ Run!Notify(t))
    /\ \A w \in {"w1", "w2"} : WF_billing(scenario = "billing" /\ Billing!Step(w))
    /\ \A e \in Purchases :
        SF_billing(scenario = "billing" /\ \E w \in {"w1", "w2"} : Billing!Redeliver(w, e))
    /\ WF_login(scenario = "login" /\ Login!Initiate("d1"))
    /\ WF_login(scenario = "login" /\ Login!SendPoll("d1"))
    /\ WF_login(scenario = "login" /\ \E p \in polls : Login!Poll(p))
    /\ WF_proxy(scenario = "proxy" /\ Proxy!Break)
    /\ WF_proxy(scenario = "proxy" /\ Proxy!Stop)
    /\ WF_proxy(scenario = "proxy" /\ Proxy!Task("c1"))
    /\ WF_proxy(scenario = "proxy" /\ Proxy!NoticeGone("c1"))

Spec == Init /\ [][Next]_vars /\ Fairness

-----------------------------------------------------------------------------
(* Properties: those of the components, each in its scenario.                *)

\* InitTransaction and McpApproval: whoever has the project lock or the storage
\* lock gives it back, whatever fails and without anybody confirming anything.
LocksAreReturned ==
    /\ scenario = "commit" => Commit!LockIsReturned
    /\ scenario = "approve" => Approve!LockReleased

\* WorkspaceApply: running the command again resolves an unfinished journal,
\* unless somebody else has changed a file or an entry.
RecoverySettles == scenario = "apply" => Apply!RecoverySettles

\* SupervisedRun: a revocation or a cancellation at any moment of the wait ends
\* the run.
StopIsObeyed == scenario = "run" => Run!StopIsObeyed

\* BillingEvents and DeviceLogin: every event is taken in the end, in whatever
\* order they come, and every login ends, approved or not.
ServiceSettles ==
    /\ scenario = "billing" => Billing!EveryEventSettles
    /\ scenario = "login" => Login!LoginEnds

\* ProxyServer: a client that leaves releases its upstream although that may
\* hang, and a shutdown ends.
ProxyLetsGo == scenario = "proxy" => Proxy!GoneReleasesUpstream /\ Proxy!ShutdownEnds
=============================================================================
