---------------------------- MODULE SupervisedRun ----------------------------
(***************************************************************************)
(* One supervised execution of phantom-runtime: a permit for one durable    *)
(* use is turned into a run of a child process group, which a revocation,   *)
(* a cancellation, too much output or a timeout may stop, and the use is    *)
(* finished or abandoned in the replay store whatever happens.              *)
(*                                                                          *)
(* The confinement backend is the one the crate's tests use; the shipped    *)
(* one refuses every run (Build fails).  Two dispositions, an operation of  *)
(* the store in two locked writes, each of which may fail before or after   *)
(* its rename.                                                              *)
(***************************************************************************)
EXTENDS Naturals, Sequences

CONSTANTS
    MaxFaults,  \* bound: failing store writes
    MayDrop     \* whether the caller may drop the execute future

\* What the constants have to satisfy.
RunAssumption == MaxFaults \in Nat /\ MayDrop \in BOOLEAN

VARIABLES
    pc,         \* where execute stands
    branch,     \* the branch of select! being polled
    token,      \* the three CancellationTokens of select!
    woken,      \* the task was woken since its last poll began
    timer,      \* the timeout has elapsed
    child,      \* the child process
    group,      \* descendants in its process group still run
    kind,       \* the outcome's kind, or the error
    use,        \* the durable use in the replay store
    revokedUse, \* the lease was revoked in the store
    result,     \* what the caller got
    faults

store == <<use, revokedUse, faults>>

process == <<child, group>>

vars == <<pc, branch, token, woken, timer, process, kind, store, result>>

Dispositions == {"finished", "abandoned"}

\* A use is active, completing with a disposition, or ended with it.
Active == <<"active", "none">>

Completing(d) == <<"completing", d>>

Ended(d) == <<"ended", d>>

Tokens == {"revoked", "cancelled", "overflow"}

\* flag is the AtomicBool; told says that cancel's notify_waiters is done;
\* waiter is the Notified future of the waiting task.
FreshToken == [flag |-> FALSE, told |-> FALSE, waiter |-> "none"]

Init ==
    /\ pc = "build"
    /\ branch = 1
    /\ token = [t \in Tokens |-> FreshToken]
    /\ woken = FALSE
    /\ timer = FALSE
    /\ child = "none"
    /\ group = FALSE
    /\ kind = "none"
    /\ use = Active
    /\ revokedUse = FALSE
    /\ result = "none"
    /\ faults = 0

-----------------------------------------------------------------------------
(* The replay store: begin_completion and commit_completion.                *)

\* A locked write may fail before its rename, or after it.
Faulty == faults < MaxFaults /\ faults' = faults + 1

\* Writing u and going on with good; with bad when an error is reported.
Write(u, good, bad) ==
    \/ use' = u /\ pc' = good /\ UNCHANGED faults
    \/ use' = u /\ pc' = bad /\ Faulty
    \/ UNCHANGED use /\ pc' = bad /\ Faulty

\* legacy_terminalize begins a completion: a matching one is resumed, any other
\* conflicts, and a revoked lease refuses.
BeginCompletion(d, commit, good, bad) ==
    \/ use = Active /\ ~revokedUse /\ Write(Completing(d), commit, bad)
    \/ use = Completing(d) /\ ~revokedUse /\ pc' = commit /\ UNCHANGED <<use, faults>>
    \/ use = Ended(d) /\ ~revokedUse /\ pc' = good /\ UNCHANGED <<use, faults>>
    \/ /\ revokedUse \/ use \notin {Active, Completing(d), Ended(d)}
       /\ pc' = bad
       /\ UNCHANGED <<use, faults>>

CommitCompletion(d, good, bad) ==
    \/ use = Completing(d) /\ Write(Ended(d), good, bad)
    \/ use = Ended(d) /\ pc' = good /\ UNCHANGED <<use, faults>>

\* revoke ends the active use; a completion that has begun may be committed.
RevokeLease ==
    /\ ~revokedUse
    /\ revokedUse' = TRUE
    /\ use' = IF use = Active THEN Ended("abandoned") ELSE use
    /\ UNCHANGED <<pc, branch, token, woken, timer, process, kind, faults, result>>

-----------------------------------------------------------------------------
(* CancellationToken: cancel and cancelled.                                 *)

\* The swap of the flag.
Cancel(t) ==
    /\ ~token[t].flag
    /\ t = "overflow" => child = "running"
    /\ token' = [token EXCEPT ![t].flag = TRUE]
    /\ UNCHANGED <<pc, branch, woken, timer, process, kind, store, result>>

\* Mutant: the waiters are notified before the flag is set.
NotifyEarly(t) ==
    LET there == token[t].waiter = "created"
    IN  /\ ~token[t].told
        /\ token' = [token EXCEPT ![t].told = TRUE,
                                  ![t].waiter = IF there THEN "notified" ELSE @]
        /\ woken' = (woken \/ there)
        /\ UNCHANGED <<pc, branch, timer, process, kind, store, result>>

\* notify_waiters, by the caller that swapped the flag: it reaches the Notified
\* futures that exist.
Notify(t) ==
    LET there == token[t].waiter = "created"
    IN  /\ token[t].flag /\ ~token[t].told
        /\ token' = [token EXCEPT ![t].told = TRUE,
                                  ![t].waiter = IF there THEN "notified" ELSE @]
        /\ woken' = (woken \/ there)
        /\ UNCHANGED <<pc, branch, timer, process, kind, store, result>>

-----------------------------------------------------------------------------
(* execute                                                                  *)

\* build: every error after the permit is attached drops the guard.
Build ==
    /\ pc = "build"
    /\ \/ pc' = "check" /\ UNCHANGED kind
       \/ pc' = "drop" /\ kind' = "error"
    /\ UNCHANGED <<branch, token, woken, timer, process, store, result>>

\* execute_inner before the backend: the action must be the permitted one, and a
\* revocation or cancellation that is already there ends the run.
Check ==
    /\ pc = "check"
    /\ \/ kind' = "error" /\ pc' = "abandon"
       \/ token["revoked"].flag /\ kind' = "revoked" /\ pc' = "finish"
       \/ ~token["revoked"].flag /\ token["cancelled"].flag /\ kind' = "cancelled" /\ pc' = "finish"
       \/ /\ ~token["revoked"].flag /\ ~token["cancelled"].flag
          /\ UNCHANGED kind /\ pc' = "spawn"
    /\ UNCHANGED <<branch, token, woken, timer, process, store, result>>

\* The backend judges the window and the directory, and spawns.
Spawn ==
    /\ pc = "spawn"
    /\ \/ /\ child' = "running" /\ group' = TRUE /\ pc' = "select" /\ UNCHANGED kind
       \/ /\ kind' = "error" /\ pc' = "abandon" /\ UNCHANGED process
    /\ UNCHANGED <<branch, token, woken, timer, store, result>>

-----------------------------------------------------------------------------
(* select! { biased; revoked, cancelled, overflow, sleep, wait }             *)

Branches == <<"revoked", "cancelled", "overflow">>

Polled == Branches[branch]

\* A cancelled() that is polled first, or was woken, creates its Notified before
\* it looks at the flag.
CreateNotified ==
    /\ pc = "select" /\ branch <= 3
    /\ token[Polled].waiter \in {"none", "notified"}
    /\ token' = [token EXCEPT ![Polled].waiter = "created"]
    /\ pc' = "look"
    /\ UNCHANGED <<branch, woken, timer, process, kind, store, result>>

\* Mutant: whatever stops the run, it is reported as a cancellation.
LookCancelled ==
    /\ pc = "look"
    /\ IF token[Polled].flag
       THEN kind' = "cancelled" /\ pc' = "terminate" /\ UNCHANGED branch
       ELSE pc' = "select" /\ branch' = branch + 1 /\ UNCHANGED kind
    /\ UNCHANGED <<token, woken, timer, process, store, result>>

\* The flag decides; otherwise the future waits and the next branch is polled.
Look ==
    /\ pc = "look"
    /\ IF token[Polled].flag
       THEN kind' = Polled /\ pc' = "terminate" /\ UNCHANGED branch
       ELSE pc' = "select" /\ branch' = branch + 1 /\ UNCHANGED kind
    /\ UNCHANGED <<token, woken, timer, process, store, result>>

\* A future that waits and was not woken stays pending.
StillPending ==
    /\ pc = "select" /\ branch <= 3
    /\ token[Polled].waiter = "created"
    /\ branch' = branch + 1
    /\ UNCHANGED <<pc, token, woken, timer, process, kind, store, result>>

PollTimer ==
    /\ pc = "select" /\ branch = 4
    /\ IF timer THEN kind' = "timedOut" /\ pc' = "terminate" /\ UNCHANGED branch
                ELSE branch' = 5 /\ UNCHANGED <<kind, pc>>
    /\ UNCHANGED <<token, woken, timer, process, store, result>>

\* child.wait reaps, or fails and returns at once.
PollChild ==
    /\ pc = "select" /\ branch = 5
    /\ \/ child = "exited" /\ child' = "reaped" /\ kind' = "exited" /\ pc' = "kill"
          /\ UNCHANGED branch
       \/ child = "exited" /\ kind' = "error" /\ pc' = "abandon" /\ UNCHANGED <<child, branch>>
       \/ child = "running" /\ branch' = 6 /\ UNCHANGED <<child, kind, pc>>
    /\ UNCHANGED <<token, woken, timer, group, store, result>>

\* The task sleeps until a waker runs, and then polls from the first branch.
Repoll ==
    /\ pc = "select" /\ branch = 6
    /\ woken
    /\ woken' = FALSE
    /\ branch' = 1
    /\ UNCHANGED <<pc, token, timer, process, kind, store, result>>

-----------------------------------------------------------------------------
(* The world: the clock and the processes.                                  *)

\* The timeout ends and wakes the task.
Elapse ==
    /\ ~timer /\ pc \in {"select", "look"}
    /\ timer' = TRUE /\ woken' = TRUE
    /\ UNCHANGED <<pc, branch, token, process, kind, store, result>>

\* The child exits by itself; its descendants may go on.
Exit ==
    /\ child = "running"
    /\ child' = "exited" /\ woken' = TRUE
    /\ group' \in {group, FALSE}
    /\ UNCHANGED <<pc, branch, token, timer, kind, store, result>>

\* terminate: the group is killed and the child waited for, for a while.
Terminate ==
    /\ pc = "terminate"
    /\ group' = FALSE
    /\ \/ child' = "reaped" /\ pc' = "kill" /\ UNCHANGED kind
       \/ child' = "exited" /\ pc' = "abandon" /\ kind' = "error"
    /\ UNCHANGED <<branch, token, woken, timer, store, result>>

\* kill_group, then the output is drained for a bounded time.
Kill ==
    /\ pc = "kill"
    /\ group' = FALSE
    /\ pc' = "finish"
    /\ UNCHANGED <<branch, token, woken, timer, child, kind, store, result>>

-----------------------------------------------------------------------------
(* DurableGuard                                                             *)

\* finish: an error leaves the permit in the guard, and Drop abandons.
Finish ==
    /\ \/ pc = "finish" /\ BeginCompletion("finished", "commitFinish", "ok", "drop")
       \/ pc = "commitFinish" /\ CommitCompletion("finished", "ok", "drop")
    /\ UNCHANGED <<branch, token, woken, timer, process, kind, revokedUse, result>>

\* abandon: an error is reported instead of the run's, and Drop tries again.
Abandon ==
    /\ \/ pc = "abandon" /\ BeginCompletion("abandoned", "commitAbandon", "failed", "drop")
       \/ pc = "commitAbandon" /\ CommitCompletion("abandoned", "failed", "drop")
    /\ UNCHANGED <<branch, token, woken, timer, process, kind, revokedUse, result>>

\* Drop: a guard that still has its permit abandons the use, whatever comes of it.
Drop ==
    /\ \/ pc = "drop" /\ BeginCompletion("abandoned", "commitDrop", "failed", "failed")
       \/ pc = "commitDrop" /\ CommitCompletion("abandoned", "failed", "failed")
    /\ UNCHANGED <<branch, token, woken, timer, process, kind, revokedUse, result>>

\* The caller gets the outcome or an error.
Return ==
    /\ pc \in {"ok", "failed"}
    /\ result' = IF pc = "ok" THEN kind ELSE "error"
    /\ pc' = "done"
    /\ UNCHANGED <<branch, token, woken, timer, process, kind, store>>

\* The future is dropped while it waits: kill_on_drop ends the child alone, and
\* the guard is dropped with the runtime.
DropFuture ==
    /\ MayDrop /\ pc = "select" /\ branch = 6
    /\ child' = "reaped"
    /\ kind' = "error"
    /\ pc' = "drop"
    /\ UNCHANGED <<branch, token, woken, timer, group, store, result>>

Done == pc = "done" /\ UNCHANGED vars

-----------------------------------------------------------------------------
Run ==
    \/ Build \/ Check \/ Spawn
    \/ CreateNotified \/ Look \/ StillPending \/ PollTimer \/ PollChild \/ Repoll
    \/ Terminate \/ Kill
    \/ Finish \/ Abandon \/ Drop \/ Return

Next ==
    \/ Run
    \/ RevokeLease
    \/ \E t \in Tokens : Cancel(t) \/ Notify(t)
    \/ Elapse \/ Exit
    \/ DropFuture
    \/ Done

Spec == Init /\ [][Next]_vars

\* The task is polled when it is woken, and a thread that swapped a flag goes on
\* to notify.  Neither the timeout nor an exit is needed.
FairSpec == Spec /\ WF_vars(Run) /\ \A t \in Tokens : WF_vars(Notify(t))

-----------------------------------------------------------------------------
(* Properties.                                                               *)

\* The type invariant of a run.
TypeOK ==
    /\ pc \in {"build", "check", "spawn", "select", "look", "terminate", "kill", "finish",
               "commitFinish", "abandon", "commitAbandon", "drop", "commitDrop", "ok",
               "failed", "done"}
    /\ branch \in 1..6
    /\ token \in [Tokens -> [flag : BOOLEAN, told : BOOLEAN,
                             waiter : {"none", "created", "notified"}]]
    /\ child \in {"none", "running", "exited", "reaped"}
    /\ use \in {Active} \cup {Completing(d) : d \in Dispositions} \cup {Ended(d) : d \in Dispositions}
    /\ result \in Tokens \cup {"none", "error", "timedOut", "exited"}
    /\ faults \in 0..MaxFaults

\* An outcome that execute returns is in the store as a finished use, and the
\* process group of the run is gone.
OutcomeIsDurable ==
    result \notin {"none", "error"} =>
        use = Ended("finished") /\ child \in {"none", "reaped"} /\ ~group

\* "Every validation error after a permit is attached abandons the consumed
\* durable use": no end of a run leaves the use active unless the store failed.
UseIsEnded == pc = "done" => use # Active \/ faults > 0

\* What the returned outcome names has happened: the token that is said to have
\* stopped the run was set, the time that is said to have run out had.
OutcomeStep ==
    result = "none" /\ result' # "none" =>
        /\ result' \in Tokens => token[result'].flag
        /\ result' = "timedOut" => timer

OutcomeIsTrue == [][OutcomeStep]_vars

\* A stop that comes at any moment of the wait is not missed, whatever the timer
\* and the child do.
StopIsObeyed ==
    \A t \in {"revoked", "cancelled"} :
        (token[t].flag /\ pc \in {"check", "spawn", "select", "look"}) ~> (pc = "done")

\* What a run promises about the use it was given.
RunSafe == TypeOK /\ OutcomeIsDurable /\ UseIsEnded
=============================================================================
