---------------------------- MODULE InstallCache ----------------------------
(***************************************************************************)
(* The npm wrapper's cache of the phantom binary (npm/bin/cli.js).           *)
(*                                                                           *)
(* Every invocation of the wrapper takes a lock directory, recovers what an  *)
(* earlier one left, and installs its own version of the binary if the cache *)
(* has another.  A binary and its manifest are two files, so an upgrade is a *)
(* sequence of renames, with the previous pair set aside until the new one   *)
(* is verified; an invocation may die between any two of them.               *)
(*                                                                           *)
(* A file is the version it is of: a pair verifies when both are of the same *)
(* one.  The transaction file is left out because no code reads it, and the  *)
(* attestation because it only spares a digest that was computed before.     *)
(***************************************************************************)
EXTENDS Naturals, Sequences

CONSTANTS
    Procs,          \* the invocations of the wrapper, each with a token of its own
    Versions,       \* the released versions
    Version,        \* VERSION, of the wrapper that an invocation runs
    None,
    MaxDeaths,      \* how many invocations are killed
    MaxSuspends     \* how often one is suspended for longer than LOCK_STALE_MS

\* What the constants have to satisfy.
CacheAssumption ==
    /\ Version \in [Procs -> Versions]
    /\ None \notin Procs \cup Versions \cup [owner : Procs \cup {None}, stale : BOOLEAN]
    /\ MaxDeaths \in Nat /\ MaxSuspends \in Nat

VARIABLES
    lock,           \* the lock directory: its owner file and whether it is stale
    cache,          \* the files of pathSet
    pc,             \* where an invocation is
    todo,           \* the renames and removals it still has to make in this phase
    result,         \* what ensureBinary returns or throws
    deaths, suspends,
    last,           \* the version whose pair was completed last
    displaced       \* the lock of a live invocation was taken from it

vars == <<lock, cache, pc, todo, result, deaths, suspends, last, displaced>>

Files == {"binary", "manifest", "backupBinary", "backupManifest"}

\* What the direct installer leaves at binaryPath: a binary without manifest.
Direct == "direct"

NoFiles == [f \in Files |-> None]

Waiting == {"acquire", "read", "takeover"}

Installing == {"recover", "recovering", "recheck", "fetch", "replace", "aside", "swap",
               "tidy", "undo", "undoing", "unchecked"}

Releasing == {"release", "unlock"}

TypeOK ==
    /\ lock \in {None} \cup [owner : Procs \cup {None}, stale : BOOLEAN]
    /\ cache \in [Files -> Versions \cup {None, Direct}]
    /\ pc \in [Procs -> Waiting \cup {"own"} \cup Installing \cup Releasing \cup {"ended", "killed"}]
    /\ \A p \in Procs : Len(todo[p]) <= 5
    /\ result \in [Procs -> {"none", "binary", "error"}]
    /\ deaths \in 0..MaxDeaths /\ suspends \in 0..MaxSuspends
    /\ last \in Versions \cup {None}
    /\ displaced \in BOOLEAN

\* An empty cache, one that the direct installer used, or an earlier install.
Init ==
    /\ lock = None
    /\ \/ \E b \in {None, Direct} : cache = [NoFiles EXCEPT !.binary = b] /\ last = None
       \/ \E v \in Versions : cache = [NoFiles EXCEPT !.binary = v, !.manifest = v] /\ last = v
    /\ pc = [p \in Procs |-> "acquire"]
    /\ todo = [p \in Procs |-> <<>>]
    /\ result = [p \in Procs |-> "none"]
    /\ deaths = 0 /\ suspends = 0
    /\ displaced = FALSE

Goto(p, label) == pc' = [pc EXCEPT ![p] = label]

-----------------------------------------------------------------------------
(* The lock directory.                                                       *)

\* createOwnedInstallLock: mkdir, which fails with EEXIST ...
MakeLock(p) ==
    /\ pc[p] = "acquire"
    /\ IF lock = None
       THEN lock' = [owner |-> None, stale |-> FALSE] /\ Goto(p, "own")
       ELSE UNCHANGED lock /\ Goto(p, "read")
    /\ UNCHANGED <<cache, todo, result, deaths, suspends, last, displaced>>

\* ... and the owner file, for which the directory has to be there still.
WriteOwner(p) ==
    /\ pc[p] = "own"
    /\ IF lock = None
       THEN UNCHANGED lock /\ Goto(p, "ended") /\ result' = [result EXCEPT ![p] = "error"]
       ELSE /\ lock' = [owner |-> p, stale |-> FALSE]
            /\ Goto(p, "recover") /\ UNCHANGED result
    /\ UNCHANGED <<cache, todo, deaths, suspends, last, displaced>>

\* readInstallLock in the loop of acquireInstallLock: it throws if the lock was
\* released meanwhile, and the loop goes on until the deadline.
ReadLock(p) ==
    /\ pc[p] = "read"
    /\ \/ lock # None /\ lock.stale /\ Goto(p, "takeover") /\ UNCHANGED result
       \/ lock # None /\ ~lock.stale /\ Goto(p, "acquire") /\ UNCHANGED result
       \/ (lock # None => ~lock.stale) /\ Goto(p, "ended") /\ result' = [result EXCEPT ![p] = "error"]
    /\ UNCHANGED <<lock, cache, todo, deaths, suspends, last, displaced>>

\* Whether a live invocation holds the lock that is there.
Held == \E q \in Procs : \/ lock # None /\ lock.owner = q /\ pc[q] \in Installing \cup Releasing
                         \/ lock # None /\ lock.owner = None /\ pc[q] = "own"

\* The rename to a stale name takes whatever lock is there by now.
TakeOver(p) ==
    /\ pc[p] = "takeover"
    /\ lock' = None /\ displaced' = (displaced \/ Held)
    /\ Goto(p, "acquire")
    /\ UNCHANGED <<cache, todo, result, deaths, suspends, last>>

\* The lock of an invocation that was killed gets old, and that of a live one
\* only if no timer could run; its next heartbeat makes it new again.
GetsStale ==
    /\ lock # None /\ ~lock.stale
    /\ IF Held THEN suspends < MaxSuspends /\ suspends' = suspends + 1 ELSE UNCHANGED suspends
    /\ lock' = [lock EXCEPT !.stale = TRUE]
    /\ UNCHANGED <<cache, pc, todo, result, deaths, last, displaced>>

Owns(p) == lock # None /\ lock.owner = p

Beat(p) ==
    /\ pc[p] \in Installing /\ Owns(p) /\ lock.stale
    /\ lock' = [lock EXCEPT !.stale = FALSE]
    /\ UNCHANGED <<cache, pc, todo, result, deaths, suspends, last, displaced>>

\* release: the token is read, and then the directory is removed, which throws
\* if it is gone.
ReadOwn(p) ==
    /\ pc[p] = "release"
    /\ Goto(p, IF Owns(p) THEN "unlock" ELSE "ended")
    /\ UNCHANGED <<lock, cache, todo, result, deaths, suspends, last, displaced>>

Unlock(p) ==
    /\ pc[p] = "unlock"
    /\ lock' = None /\ displaced' = (displaced \/ (Held /\ ~Owns(p)))
    /\ Goto(p, "ended")
    /\ result' = IF lock = None THEN [result EXCEPT ![p] = "error"] ELSE result
    /\ UNCHANGED <<cache, todo, deaths, suspends, last>>

-----------------------------------------------------------------------------
(* Recovery, validation and download.                                        *)

Remove(f) == <<"remove", f>>
Rename(f, g) == <<"rename", f, g>>
Place(g) == <<"place", g>>      \* the rename of a verified candidate

\* readIntegrityVerifiedManifest
Verified(b, m) == cache[b] # None /\ cache[b] = cache[m]

CleanAll == <<Remove("binary"), Remove("manifest"), Remove("backupBinary"), Remove("backupManifest")>>

\* recoverInterruptedInstall: what the three cases and the last resort do.
RecoverySteps ==
    CASE Verified("binary", "manifest") -> <<Remove("backupBinary"), Remove("backupManifest")>>
      [] ~Verified("binary", "manifest") /\ Verified("backupBinary", "backupManifest") ->
            <<Remove("binary"), Remove("manifest"),
              Rename("backupBinary", "binary"), Rename("backupManifest", "manifest")>>
      [] OTHER -> CleanAll

OnlyManifestAway ==
    /\ ~Verified("backupBinary", "backupManifest")
    /\ cache.binary # None /\ cache.manifest = None /\ cache.backupManifest # None

\* The call in ensureBinary ("recover"), after a heartbeat, and the one in the
\* catch of replaceCachedBinary ("undo").
Recover(p) ==
    /\ pc[p] \in {"recover", "undo"}
    /\ pc[p] = "recover" => Owns(p)
    /\ IF OnlyManifestAway
       THEN /\ todo' = [todo EXCEPT ![p] = <<Rename("backupManifest", "manifest")>>]
            /\ Goto(p, IF pc[p] = "recover" THEN "recheck" ELSE "unchecked")
       ELSE /\ todo' = [todo EXCEPT ![p] = RecoverySteps]
            /\ Goto(p, IF pc[p] = "recover" THEN "recovering" ELSE "undoing")
    /\ UNCHANGED <<lock, cache, result, deaths, suspends, last, displaced>>

\* After the manifest is back: it must be that of the binary.
Recheck(p) ==
    /\ pc[p] \in {"recheck", "unchecked"} /\ todo[p] = <<>>
    /\ todo' = [todo EXCEPT ![p] = IF Verified("binary", "manifest") THEN <<>> ELSE CleanAll]
    /\ Goto(p, IF pc[p] = "recheck" THEN "recovering" ELSE "undoing")
    /\ UNCHANGED <<lock, cache, result, deaths, suspends, last, displaced>>

\* readVerifiedManifest
OfVersion(p) == Verified("binary", "manifest") /\ cache.manifest = Version[p]

\* validateCachedBinary: the binary is run for its version, which may fail.
Validate(p) ==
    /\ pc[p] = "recovering" /\ todo[p] = <<>>
    /\ \/ OfVersion(p) /\ Goto(p, "release") /\ result' = [result EXCEPT ![p] = "binary"]
       \/ Goto(p, "fetch") /\ UNCHANGED result
    /\ UNCHANGED <<lock, cache, todo, deaths, suspends, last, displaced>>

\* Download, checksum, extraction and version check, in a directory of its
\* own; all of it may fail, and each heartbeat does when the lock is lost.
Fetch(p) ==
    /\ pc[p] = "fetch"
    /\ \/ Owns(p) /\ Goto(p, "replace") /\ UNCHANGED result
       \/ Goto(p, "release") /\ result' = [result EXCEPT ![p] = "error"]
    /\ UNCHANGED <<lock, cache, todo, deaths, suspends, last, displaced>>

-----------------------------------------------------------------------------
(* replaceCachedBinary.                                                      *)

\* Mutant: the binary is set aside before its manifest.
BinaryFirst ==
    IF Verified("binary", "manifest")
    THEN <<Rename("binary", "backupBinary"), Rename("manifest", "backupManifest")>>
    ELSE <<Remove("binary"), Remove("manifest")>>

\* The previous pair, if there is one, is kept as a backup.
SetAside ==
    IF Verified("binary", "manifest")
    THEN <<Rename("manifest", "backupManifest"), Rename("binary", "backupBinary")>>
    ELSE <<Remove("binary"), Remove("manifest")>>

Replace(p) ==
    /\ pc[p] = "replace"
    /\ todo' = [todo EXCEPT ![p] = SetAside] /\ Goto(p, "aside")
    /\ UNCHANGED <<lock, cache, result, deaths, suspends, last, displaced>>

Swap(p) ==
    /\ pc[p] = "aside" /\ todo[p] = <<>>
    /\ todo' = [todo EXCEPT ![p] = <<Place("binary"), Place("manifest")>>]
    /\ Goto(p, "swap")
    /\ UNCHANGED <<lock, cache, result, deaths, suspends, last, displaced>>

\* The check after the replacement, whose failure is undone.
Verify(p) ==
    /\ pc[p] = "swap" /\ todo[p] = <<>>
    /\ IF OfVersion(p)
       THEN /\ todo' = [todo EXCEPT ![p] = <<Remove("backupBinary"), Remove("backupManifest")>>]
            /\ Goto(p, "tidy")
       ELSE UNCHANGED todo /\ Goto(p, "undo")
    /\ UNCHANGED <<lock, cache, result, deaths, suspends, last, displaced>>

\* The last heartbeat decides what ensureBinary says; an undone replacement is
\* an error.
Return(p) ==
    /\ pc[p] \in {"tidy", "undoing"} /\ todo[p] = <<>>
    /\ result' = [result EXCEPT ![p] = IF pc[p] = "tidy" /\ Owns(p) THEN "binary" ELSE "error"]
    /\ Goto(p, "release")
    /\ UNCHANGED <<lock, cache, todo, deaths, suspends, last, displaced>>

-----------------------------------------------------------------------------
(* One call of the file system, and the end of an invocation.                *)

\* renameSync throws when its source is gone.
Fails(p) == todo[p] # <<>> /\ Head(todo[p])[1] = "rename" /\ cache[Head(todo[p])[2]] = None

Step(p) ==
    /\ todo[p] # <<>> /\ pc[p] # "killed" /\ ~Fails(p)
    /\ LET op == Head(todo[p]) IN
        /\ cache' = CASE op[1] = "remove" -> [cache EXCEPT ![op[2]] = None]
                      [] op[1] = "rename" -> [cache EXCEPT ![op[3]] = cache[op[2]], ![op[2]] = None]
                      [] op[1] = "place" -> [cache EXCEPT ![op[2]] = Version[p]]
        /\ last' = IF op = Place("manifest") THEN Version[p] ELSE last
    /\ todo' = [todo EXCEPT ![p] = Tail(@)]
    /\ UNCHANGED <<lock, pc, result, deaths, suspends, displaced>>

\* A rename without its source, or a heartbeat without the lock.
Throw(p) ==
    /\ pc[p] # "killed"
    /\ Fails(p) \/ (pc[p] = "recover" /\ ~Owns(p))
    /\ todo' = [todo EXCEPT ![p] = <<>>]
    /\ Goto(p, "release") /\ result' = [result EXCEPT ![p] = "error"]
    /\ UNCHANGED <<lock, cache, deaths, suspends, last, displaced>>

Killed(p) ==
    /\ pc[p] \notin {"ended", "killed"} /\ deaths < MaxDeaths
    /\ deaths' = deaths + 1 /\ Goto(p, "killed")
    /\ todo' = [todo EXCEPT ![p] = <<>>]
    /\ UNCHANGED <<lock, cache, result, suspends, last, displaced>>

Next ==
    \/ GetsStale
    \/ \E p \in Procs :
        \/ MakeLock(p) \/ WriteOwner(p) \/ ReadLock(p) \/ TakeOver(p) \/ Beat(p)
        \/ ReadOwn(p) \/ Unlock(p)
        \/ Recover(p) \/ Recheck(p) \/ Validate(p) \/ Fetch(p)
        \/ Replace(p) \/ Swap(p) \/ Verify(p) \/ Return(p)
        \/ Step(p) \/ Throw(p) \/ Killed(p)

Spec == Init /\ [][Next]_vars

-----------------------------------------------------------------------------
(* Properties.                                                               *)

\* The version that recoverInterruptedInstall, run now and alone, leaves.
Restored ==
    CASE Verified("binary", "manifest") -> cache.binary
      [] ~Verified("binary", "manifest") /\ Verified("backupBinary", "backupManifest") ->
            cache.backupBinary
      [] OnlyManifestAway /\ cache.binary = cache.backupManifest -> cache.binary
      [] OTHER -> None

\* Whichever invocations were killed, in an upgrade or in the recovery from
\* one, the next recovery ends with the version that was completed last.
NoInstallLost == ~displaced => Restored = last

\* An invocation that still owns the lock and returns the binary returns its
\* own version, and no two of them install at the same time.
InstallsAlone ==
    ~displaced =>
        /\ \A p \in Procs : pc[p] \in Releasing /\ result[p] = "binary" => OfVersion(p)
        /\ \A p, q \in Procs :
            pc[p] \in Installing \cup Releasing /\ pc[q] \in Installing \cup Releasing => p = q

InstallSafe == TypeOK /\ NoInstallLost /\ InstallsAlone
=============================================================================
