-------------------------- MODULE TransactionLock --------------------------
(***************************************************************************)
(* The project transaction lock of phantom-vault: a mutex per shard inside  *)
(* each process, counted per thread, then for every project the stable and  *)
(* the legacy lock file, shared by all processes.  A thread takes the lock  *)
(* of one project or of a pair, may take another while it holds one, and    *)
(* drops what it holds in any order.  Writers of older releases only know   *)
(* the legacy lock file.                                                    *)
(*                                                                          *)
(* Projects are numbered in the order of their stable lock names.           *)
(***************************************************************************)
EXTENDS Integers, FiniteSets, Sequences

CONSTANTS
    Threads,        \* threads of current releases
    OldWriters,     \* writers of older releases, each a process of its own
    ProcessOf,      \* the process of each thread
    Projects,       \* canonical projects, in the order of their lock names
    ShardOf,        \* the shard of each project
    Slots,          \* bound: locks one thread may hold at the same time
    Timeouts,       \* whether a deadline may pass or an open may fail
    Panics          \* whether a thread may panic while it holds a lock

Nobody == "nobody"

\* What the constants have to satisfy.
LockAssumption ==
    /\ IsFiniteSet(Threads) /\ IsFiniteSet(Projects) /\ IsFiniteSet(Slots)
    /\ Threads \cap OldWriters = {} /\ Nobody \notin Threads \cup OldWriters
    /\ Projects \subseteq Nat
    /\ \A p \in Projects : ShardOf[p] \in Nat
    /\ Threads \subseteq DOMAIN ProcessOf
    /\ Timeouts \in BOOLEAN /\ Panics \in BOOLEAN

Shards == {ShardOf[p] : p \in Projects}

Processes == {ProcessOf[t] : t \in Threads}

Files == {"stable", "legacy"}

VARIABLES
    mutex,      \* of each process and shard: the thread that locked it, or Nobody
    poisoned,   \* the mutexes whose holder panicked
    refs,       \* SHARD_OWNERSHIP: how many guards each thread counts on a shard
    file,       \* of each project, the holder of either lock file
    slot,       \* each thread's acquisitions
    refused     \* what the last timed out acquisition of each thread waited for

vars == <<mutex, poisoned, refs, file, slot, refused>>

Free == [status |-> "free", projects |-> {}, todo |-> <<>>, real |-> {}, counted |-> {}]

Resource(kind, n) == [kind |-> kind, n |-> n]

FilesOf(p) == <<Resource("stable", p), Resource("legacy", p)>>

\* process_locks_for: the distinct shards of one or two projects, ascending.
ShardsOf(a, b) ==
    LET s == Resource("shard", ShardOf[a])
        r == Resource("shard", ShardOf[b])
    IN  IF s = r THEN <<s>> ELSE IF ShardOf[a] < ShardOf[b] THEN <<s, r>> ELSE <<r, s>>

\* acquire_project_transaction_locks_at: the shards, then the files of each
\* project by lock name, stable before legacy.  A pair that names one project
\* twice is one lock.
Plan(order) ==
    LET a == order[1]
        b == order[Len(order)]
    IN  ShardsOf(a, b) \o
          (IF a = b THEN FilesOf(a)
           ELSE IF a < b THEN FilesOf(a) \o FilesOf(b) ELSE FilesOf(b) \o FilesOf(a))

\* The requests a thread makes: one project, or a primary and a secondary.
Requests == {<<p>> : p \in Projects} \cup {<<p, q>> : p \in Projects, q \in Projects}

Init ==
    /\ mutex = [x \in Processes \X Shards |-> Nobody]
    /\ poisoned = {}
    /\ refs = [x \in Threads \X Shards |-> 0]
    /\ file = [x \in Files \X Projects |-> Nobody]
    /\ slot = [x \in Threads \X Slots |-> Free]
    /\ refused = [t \in Threads |-> "nothing"]

Busy(t) == \E k \in Slots : slot[<<t, k>>].status \in {"acquiring", "releasing"}

\* A thread asks for a lock, possibly while it holds another.
Begin(t, k, order) ==
    /\ ~Busy(t)
    /\ slot[<<t, k>>] = Free
    /\ slot' = [slot EXCEPT ![<<t, k>>] =
          [Free EXCEPT !.status = "acquiring",
                       !.projects = {order[i] : i \in 1..Len(order)},
                       !.todo = Plan(order)]]
    /\ UNCHANGED <<mutex, poisoned, refs, file, refused>>

NextResource(t, k) == Head(slot[<<t, k>>].todo)

Acquiring(t, k) == slot[<<t, k>>].status = "acquiring"

Taken(t, k) ==
    [slot[<<t, k>>] EXCEPT !.todo = Tail(@),
                           !.status = IF Len(slot[<<t, k>>].todo) = 1 THEN "held" ELSE @]

\* ShardGuard::acquire on a shard the thread already counts: no mutex.
TakeShardAgain(t, k) ==
    LET s == NextResource(t, k).n IN
    /\ Acquiring(t, k)
    /\ NextResource(t, k).kind = "shard"
    /\ refs[<<t, s>>] > 0
    /\ refs' = [refs EXCEPT ![<<t, s>>] = @ + 1]
    /\ slot' = [slot EXCEPT ![<<t, k>>] = [Taken(t, k) EXCEPT !.counted = @ \cup {s}]]
    /\ UNCHANGED <<mutex, poisoned, file, refused>>

\* ShardGuard::acquire on another shard: try_lock, which a poisoned mutex
\* refuses exactly like a locked one.
TakeShard(t, k) ==
    LET s == NextResource(t, k).n
        c == ProcessOf[t]
    IN
    /\ Acquiring(t, k)
    /\ NextResource(t, k).kind = "shard"
    /\ refs[<<t, s>>] = 0
    /\ mutex[<<c, s>>] = Nobody
    /\ <<c, s>> \notin poisoned
    /\ mutex' = [mutex EXCEPT ![<<c, s>>] = t]
    /\ refs' = [refs EXCEPT ![<<t, s>>] = 1]
    /\ slot' = [slot EXCEPT ![<<t, k>>] =
          [Taken(t, k) EXCEPT !.counted = @ \cup {s}, !.real = @ \cup {s}]]
    /\ UNCHANGED <<poisoned, file, refused>>

\* Mutant: a lock file that is held does not stop the next holder.
TakeFileShared(t, k) ==
    LET r == NextResource(t, k) IN
    /\ Acquiring(t, k)
    /\ r.kind \in Files
    /\ file' = [file EXCEPT ![<<r.kind, r.n>>] = t]
    /\ slot' = [slot EXCEPT ![<<t, k>>] = Taken(t, k)]
    /\ UNCHANGED <<mutex, poisoned, refs, refused>>

\* acquire_lock_until: a lock file excludes every other open of it, the same
\* thread's included.
TakeFile(t, k) ==
    LET r == NextResource(t, k) IN
    /\ Acquiring(t, k)
    /\ r.kind \in Files
    /\ file[<<r.kind, r.n>>] = Nobody
    /\ file' = [file EXCEPT ![<<r.kind, r.n>>] = t]
    /\ slot' = [slot EXCEPT ![<<t, k>>] = Taken(t, k)]
    /\ UNCHANGED <<mutex, poisoned, refs, refused>>

\* The resources an acquisition still has to take.
Missing(t, k) == {slot[<<t, k>>].todo[i] : i \in 1..Len(slot[<<t, k>>].todo)}

\* The files slot k of thread t holds.
HeldFiles(t, k) ==
    {x \in Files \X slot[<<t, k>>].projects : Resource(x[1], x[2]) \notin Missing(t, k)}

\* Dropping the guards of a slot: each counts itself down, and the guard that
\* holds the mutex gives it up, whatever the count has come to.
DropShards(t, k) ==
    /\ refs' = [x \in DOMAIN refs |->
          IF x[1] = t /\ x[2] \in slot[<<t, k>>].counted THEN refs[x] - 1 ELSE refs[x]]
    /\ mutex' = [x \in DOMAIN mutex |->
          IF x[1] = ProcessOf[t] /\ x[2] \in slot[<<t, k>>].real THEN Nobody ELSE mutex[x]]

DropFiles(t, k) ==
    file' = [x \in DOMAIN file |-> IF x \in HeldFiles(t, k) THEN Nobody ELSE file[x]]

\* Drop of a held lock: the field order of ProjectTransactionLock drops the
\* shard guards first and the lock files after them.
ReleaseShards(t, k) ==
    /\ ~Busy(t)
    /\ slot[<<t, k>>].status = "held"
    /\ DropShards(t, k)
    /\ slot' = [slot EXCEPT ![<<t, k>>] =
          [slot[<<t, k>>] EXCEPT !.status = "releasing", !.counted = {}, !.real = {}]]
    /\ UNCHANGED <<poisoned, file, refused>>

ReleaseFiles(t, k) ==
    /\ slot[<<t, k>>].status = "releasing"
    /\ DropFiles(t, k)
    /\ slot' = [slot EXCEPT ![<<t, k>>] = Free]
    /\ UNCHANGED <<mutex, poisoned, refs, refused>>

\* The deadline passes at the resource the thread waits for, and everything
\* the acquisition took is dropped.
TimeOut(t, k) ==
    LET r == NextResource(t, k) IN
    /\ Timeouts
    /\ Acquiring(t, k)
    /\ \/ r.kind \in Files /\ file[<<r.kind, r.n>>] # Nobody
          /\ refused' = [refused EXCEPT ![t] = "file"]
       \/ r.kind = "shard" /\ refs[<<t, r.n>>] = 0 /\ mutex[<<ProcessOf[t], r.n>>] # Nobody
          /\ refused' = [refused EXCEPT ![t] = "busy"]
       \/ r.kind = "shard" /\ refs[<<t, r.n>>] = 0 /\ mutex[<<ProcessOf[t], r.n>>] = Nobody
          /\ <<ProcessOf[t], r.n>> \in poisoned
          /\ refused' = [refused EXCEPT ![t] = "idle shard"]
    /\ DropShards(t, k)
    /\ DropFiles(t, k)
    /\ slot' = [slot EXCEPT ![<<t, k>>] = Free]
    /\ UNCHANGED poisoned

\* The project root or the lock anchor cannot be opened once the shards are
\* taken, and the shards are dropped.
CannotOpen(t, k) ==
    /\ Timeouts
    /\ Acquiring(t, k)
    /\ NextResource(t, k).kind = "stable"
    /\ DropShards(t, k)
    /\ DropFiles(t, k)
    /\ slot' = [slot EXCEPT ![<<t, k>>] = Free]
    /\ UNCHANGED <<poisoned, refused>>

\* A panic unwinds through the holder: the locks are dropped and each mutex
\* that was locked is poisoned.
Panic(t, k) ==
    /\ Panics
    /\ ~Busy(t)
    /\ slot[<<t, k>>].status = "held"
    /\ \A j \in Slots \ {k} : slot[<<t, j>>] = Free
    /\ poisoned' = poisoned \cup {<<ProcessOf[t], s>> : s \in slot[<<t, k>>].real}
    /\ DropShards(t, k)
    /\ DropFiles(t, k)
    /\ slot' = [slot EXCEPT ![<<t, k>>] = Free]
    /\ UNCHANGED refused

\* The process of thread t dies; the system unlocks its files.
Exit(t) ==
    /\ \A u \in Threads \ {t} : ProcessOf[u] # ProcessOf[t]
    /\ \E k \in Slots : slot[<<t, k>>] # Free
    /\ mutex' = [x \in DOMAIN mutex |-> IF x[1] = ProcessOf[t] THEN Nobody ELSE mutex[x]]
    /\ refs' = [x \in DOMAIN refs |-> IF x[1] = t THEN 0 ELSE refs[x]]
    /\ file' = [x \in DOMAIN file |-> IF file[x] = t THEN Nobody ELSE file[x]]
    /\ slot' = [x \in DOMAIN slot |-> IF x[1] = t THEN Free ELSE slot[x]]
    /\ poisoned' = {x \in poisoned : x[1] # ProcessOf[t]}
    /\ UNCHANGED refused

\* A writer of an older release takes and drops the legacy lock file alone.
OldTake(w, p) ==
    /\ \A q \in Projects : file[<<"legacy", q>>] # w
    /\ file[<<"legacy", p>>] = Nobody
    /\ file' = [file EXCEPT ![<<"legacy", p>>] = w]
    /\ UNCHANGED <<mutex, poisoned, refs, slot, refused>>

OldDrop(w, p) ==
    /\ file[<<"legacy", p>>] = w
    /\ file' = [file EXCEPT ![<<"legacy", p>>] = Nobody]
    /\ UNCHANGED <<mutex, poisoned, refs, slot, refused>>

Next ==
    \/ \E t \in Threads, k \in Slots :
          \/ \E order \in Requests : Begin(t, k, order)
          \/ TakeShardAgain(t, k) \/ TakeShard(t, k) \/ TakeFile(t, k)
          \/ ReleaseShards(t, k) \/ ReleaseFiles(t, k)
          \/ TimeOut(t, k) \/ CannotOpen(t, k) \/ Panic(t, k)
    \/ \E t \in Threads : Exit(t)
    \/ \E w \in OldWriters, p \in Projects : OldTake(w, p) \/ OldDrop(w, p)

Spec == Init /\ [][Next]_vars

-----------------------------------------------------------------------------
(* Properties.                                                               *)

\* The type invariant of the locks and of the threads that use them.
TypeOK ==
    /\ mutex \in [Processes \X Shards -> Threads \cup {Nobody}]
    /\ poisoned \subseteq Processes \X Shards
    /\ refs \in [Threads \X Shards -> 0..Cardinality(Slots)]
    /\ file \in [Files \X Projects -> Threads \cup OldWriters \cup {Nobody}]
    /\ \A t \in Threads, k \in Slots :
          /\ slot[<<t, k>>].status \in {"free", "acquiring", "held", "releasing"}
          /\ slot[<<t, k>>].projects \subseteq Projects
          /\ slot[<<t, k>>].real \subseteq slot[<<t, k>>].counted
    /\ refused \in [Threads -> {"nothing", "file", "busy", "idle shard"}]

Holds(t, p) == \E k \in Slots : slot[<<t, k>>].status = "held" /\ p \in slot[<<t, k>>].projects

\* acquire_filesystem_locks_until: the lock of a project has one holder among
\* all threads of all processes, the writers of older releases included.
OneHolderPerProject ==
    \A p \in Projects :
        LET holders == {t \in Threads : Holds(t, p)}
                       \cup {w \in OldWriters : file[<<"legacy", p>>] = w}
        IN  Cardinality(holders) <= 1

\* Nothing is left locked by nobody: a locked file belongs to a thread that is
\* taking, holding or dropping it, whichever acquisitions timed out.
NoLockLeaks ==
    \A f \in Files, p \in Projects : file[<<f, p>>] \in Threads =>
        \E k \in Slots : <<f, p>> \in HeldFiles(file[<<f, p>>], k)

\* The thread that t waits for at the next resource of its acquisition.
WaitsFor(t, u) ==
    \E k \in Slots :
        /\ Acquiring(t, k)
        /\ LET r == NextResource(t, k) IN
              \/ r.kind \in Files /\ file[<<r.kind, r.n>>] = u
              \/ r.kind = "shard" /\ refs[<<t, r.n>>] = 0 /\ mutex[<<ProcessOf[t], r.n>>] = u

\* The module comment: every acquisition follows one global order, "so two
\* copies in opposite directions cannot deadlock": among any threads there is
\* one that waits for none of them.
NoCircularWait ==
    \A stuck \in SUBSET Threads : stuck # {} =>
        \E t \in stuck : \A u \in stuck : ~WaitsFor(t, u)

\* ShardGuard's comment: the counter is decremented and only "at zero the mutex
\* is released for other threads", so one thread of a process at a time counts
\* itself the owner of a shard.
ShardIsExclusive ==
    \A t, u \in Threads, s \in Shards :
        t # u /\ ProcessOf[t] = ProcessOf[u] => ~(refs[<<t, s>>] > 0 /\ refs[<<u, s>>] > 0)

\* ShardGuard::acquire's error: "another writer is active. Retry after it
\* finishes".  A refusal is never about a shard that nobody holds.
RefusedMeansBusy == \A t \in Threads : refused[t] # "idle shard"

\* What the writers of a project may rely on.
LockSafe == TypeOK /\ OneHolderPerProject /\ NoLockLeaks
=============================================================================
