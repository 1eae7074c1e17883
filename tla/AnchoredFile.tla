---------------------------- MODULE AnchoredFile ----------------------------
(***************************************************************************)
(* The exact file effects of phantom-core's fs/anchored.rs: a writer reads   *)
(* a file, takes the lock of its domain, and replaces or removes the file    *)
(* only if it is still the one it read, in identity, bytes and permissions.  *)
(*                                                                           *)
(* A replacement is staged in a file of its own, synced, compared again,     *)
(* renamed over the name, and followed by a sync of the directory and a      *)
(* last read.  A read opens the name twice and compares.  Beside the writers *)
(* an editor, which knows of no lock, saves the file in place or through a   *)
(* new file, removes it, changes its permissions and clears staging files;   *)
(* and the power may fail, which loses what no sync has made durable.        *)
(***************************************************************************)
EXTENDS Naturals, FiniteSets

CONSTANTS
    Writers,        \* processes that use the lock
    Removers,       \* those of them that remove the file
    Contents,       \* what files can hold
    MaxInodes,      \* bound: files that exist at one time
    MaxEdits,       \* bound: what the editor does
    MaxFailures,    \* bound: failing calls of the operating system
    PowerFails      \* whether the power may fail

\* What the constants have to satisfy.
AnchoredAssumption ==
    /\ Removers \subseteq Writers /\ "nobody" \notin Writers
    /\ MaxInodes \in Nat \ {0} /\ MaxEdits \in Nat /\ MaxFailures \in Nat
    /\ PowerFails \in BOOLEAN

Nowhere == 0

Inodes == 1..MaxInodes

\* What is left of a file that was not synced when the power failed.
Torn == "torn"

VARIABLES
    store,      \* the files: bytes, permissions, whether synced, and who made it when
    entry,      \* the file under the name
    maybe,      \* the files that may be under the name when the power fails
    holder,     \* who holds the lock
    writer,     \* the writers
    made,       \* per file, what a writer published it with and nobody edited
    edits, failures

vars == <<store, entry, maybe, holder, writer, made, edits, failures>>

Nobody == "nobody"

\* No file, for an image; no image, for a read that has not begun.
Gone == [inode |-> Nowhere, bytes |-> Torn, private |-> TRUE]
Unread == [Gone EXCEPT !.bytes = "unread"]

Fresh == [pc |-> "review", seen |-> Unread, expected |-> Gone, want |-> Torn, temp |-> Nowhere,
          staged |-> FALSE, did |-> FALSE, late |-> FALSE, out |-> "none", read |-> <<"first", 0>>]

Init ==
    /\ \E b \in Contents, mode \in BOOLEAN :
          store = [i \in Inodes |->
                      [bytes |-> b, private |-> mode, synced |-> TRUE, by |-> <<"first", 0>>]]
    /\ entry \in {Nowhere, 1}
    /\ maybe = {entry}
    /\ holder = Nobody
    /\ \E b \in Contents : writer = [w \in Writers |-> [Fresh EXCEPT !.want = b]]
    /\ made = [i \in Inodes |-> Torn]
    /\ edits = 0
    /\ failures = 0

\* What a read finds under the name.
Look ==
    IF entry = Nowhere THEN Gone
    ELSE [inode |-> entry, bytes |-> store[entry].bytes, private |-> store[entry].private]

\* Who made the file under the name, which no image shows.
Maker == IF entry = Nowhere THEN <<"first", 0>> ELSE store[entry].by

\* A handle keeps its file: the inode of a file that a writer has read is not
\* given to another file, even after the name is gone.
Retained(w) == {writer[w].expected.inode, writer[w].seen.inode}

Unused ==
    Inodes \ ((UNION {Retained(w) \cup {writer[w].temp} : w \in Writers}) \cup {entry} \cup maybe)

Live(w) == writer[w].pc \notin {"done", "dead"}

\* The call returns; a guard that is dropped gives the lock back.
Return(w, out) ==
    /\ writer' = [writer EXCEPT ![w].pc = "done", ![w].out = out, ![w].seen = Unread,
                                ![w].staged = FALSE]
    /\ holder' = IF holder = w THEN Nobody ELSE holder

\* An error leaves through remove_if_identity, which takes the staging file
\* with it if that is still the one.
Refuse(w) == Return(w, "err")

-----------------------------------------------------------------------------
(* The writers.                                                              *)

Reads == {"review", "check", "recheck", "verify"}

\* Mutant: the last look before the rename is not taken.
AfterStagingBlind == "rename"

AfterStaging == "recheck"

AfterCheck(w) == IF w \in Removers THEN AfterStaging ELSE "stage"

Committed(w) ==
    IF w \in Removers THEN Gone ELSE [inode |-> writer[w].temp, bytes |-> writer[w].want, private |-> TRUE]

\* What follows a read that found r under the name.
Judge(w, r) ==
    CASE writer[w].pc = "review" ->
            /\ IF w \in Removers /\ r = Gone
               THEN writer' = [writer EXCEPT ![w].pc = "done", ![w].out = "err", ![w].seen = Unread]
               ELSE writer' = [writer EXCEPT ![w].expected = r, ![w].seen = Unread, ![w].pc = "lock",
                                           ![w].read = Maker]
            /\ UNCHANGED holder
      [] writer[w].pc = "check" /\ r = writer[w].expected ->
            /\ writer' = [writer EXCEPT ![w].pc = AfterCheck(w), ![w].seen = Unread]
            /\ UNCHANGED holder
      [] writer[w].pc = "recheck" /\ r = writer[w].expected ->
            /\ writer' = [writer EXCEPT ![w].pc = IF w \in Removers THEN "rename" ELSE "temp",
                                        ![w].seen = Unread]
            /\ UNCHANGED holder
      [] writer[w].pc \in {"check", "recheck"} /\ r # writer[w].expected -> Refuse(w)
      [] writer[w].pc = "verify" ->
            Return(w, IF r = Committed(w) THEN "durable" ELSE "uncertain")

\* read_regular_at, the first open: nothing under the name ends the read.
ReadFirst(w) ==
    /\ writer[w].pc \in Reads /\ writer[w].seen = Unread
    /\ IF Look = Gone
       THEN Judge(w, Gone)
       ELSE writer' = [writer EXCEPT ![w].seen = Look] /\ UNCHANGED holder
    /\ UNCHANGED <<store, entry, maybe, made, edits, failures>>

\* The second open: another file, other bytes or permissions are drift.
ReadSecond(w) ==
    /\ writer[w].pc \in Reads /\ writer[w].seen # Unread
    /\ IF Look = writer[w].seen THEN Judge(w, Look)
       ELSE IF writer[w].pc = "verify" THEN Return(w, "uncertain") ELSE Refuse(w)
    /\ UNCHANGED <<store, entry, maybe, made, edits, failures>>

\* The caller takes the lock of its domain.
Acquire(w) ==
    /\ writer[w].pc = "lock" /\ holder = Nobody
    /\ holder' = w
    /\ writer' = [writer EXCEPT ![w].pc = "check"]
    /\ UNCHANGED <<store, entry, maybe, made, edits, failures>>

\* Mutant: the staging file is not synced.
StageUnsynced(w) ==
    /\ writer[w].pc = "stage"
    /\ \E i \in Unused :
          /\ store' = [store EXCEPT ![i] = [bytes |-> writer[w].want, private |-> TRUE,
                                            synced |-> FALSE, by |-> <<w, 0>>]]
          /\ made' = [made EXCEPT ![i] = Torn]
          /\ writer' = [writer EXCEPT ![w].temp = i, ![w].staged = TRUE, ![w].pc = AfterStaging]
    /\ UNCHANGED <<entry, maybe, holder, edits, failures>>

\* create_staging_temp, the permissions, the bytes and sync_all.
Stage(w) ==
    /\ writer[w].pc = "stage"
    /\ \E i \in Unused :
          /\ store' = [store EXCEPT ![i] = [bytes |-> writer[w].want, private |-> TRUE,
                                            synced |-> TRUE, by |-> <<w, 0>>]]
          /\ made' = [made EXCEPT ![i] = Torn]
          /\ writer' = [writer EXCEPT ![w].temp = i, ![w].staged = TRUE, ![w].pc = AfterStaging]
    /\ UNCHANGED <<entry, maybe, holder, edits, failures>>

\* require_temp_exact: the staging file is still there, as it was written.
CompareTemp(w) ==
    /\ writer[w].pc = "temp"
    /\ IF writer[w].staged
       THEN writer' = [writer EXCEPT ![w].pc = "rename"] /\ UNCHANGED holder
       ELSE Refuse(w)
    /\ UNCHANGED <<store, entry, maybe, made, edits, failures>>

\* The rename of the staging file over the name, or the unlink.  A name or a
\* staging file that went away in the meantime makes it fail.
Publish(w) ==
    /\ writer[w].pc = "rename"
    /\ IF w \in Removers
       THEN /\ entry # Nowhere
            /\ entry' = Nowhere
            /\ UNCHANGED made
       ELSE /\ writer[w].staged
            /\ entry' = writer[w].temp
            /\ made' = [made EXCEPT ![writer[w].temp] = writer[w].want]
    /\ maybe' = maybe \cup {entry'}
    /\ writer' = [writer EXCEPT ![w].pc = "sync", ![w].did = TRUE, ![w].staged = FALSE]
    /\ UNCHANGED <<store, holder, edits, failures>>

PublishTooLate(w) ==
    /\ writer[w].pc = "rename"
    /\ IF w \in Removers THEN entry = Nowhere ELSE ~writer[w].staged
    /\ Refuse(w)
    /\ UNCHANGED <<store, entry, maybe, made, edits, failures>>

\* verify_directory_durability: the name is what it is now, for good.
SyncDirectory(w) ==
    /\ writer[w].pc = "sync"
    /\ maybe' = {entry}
    /\ writer' = [writer EXCEPT ![w].pc = "verify"]
    /\ UNCHANGED <<store, entry, holder, made, edits, failures>>

\* Mutant: a failed sync is reported as a failed call.
FailPlainly(w) ==
    /\ writer[w].pc \in {"stage", "rename", "sync", "verify"}
    /\ failures < MaxFailures
    /\ failures' = failures + 1
    /\ Return(w, "err")
    /\ UNCHANGED <<store, entry, maybe, made, edits>>

\* A call of the operating system fails: before the rename that is an error,
\* after it the effect is there and uncertain.
Fail(w) ==
    /\ writer[w].pc \in {"stage", "rename", "sync", "verify"}
    /\ failures < MaxFailures
    /\ failures' = failures + 1
    /\ Return(w, IF writer[w].did THEN "uncertain" ELSE "err")
    /\ UNCHANGED <<store, entry, maybe, made, edits>>

-----------------------------------------------------------------------------
(* The editor and the power.                                                 *)

\* A writer past its last look is late for what the editor does.
Edit ==
    /\ edits < MaxEdits
    /\ edits' = edits + 1
    /\ writer' = [w \in Writers |-> [writer[w] EXCEPT !.late = @ \/ writer[w].pc \in {"temp", "rename"}]]
    /\ UNCHANGED <<holder, failures>>

EditInPlace ==
    /\ Edit /\ entry # Nowhere
    /\ \E b \in Contents : store' = [store EXCEPT ![entry].bytes = b, ![entry].synced = FALSE]
    /\ made' = [made EXCEPT ![entry] = Torn]
    /\ UNCHANGED <<entry, maybe>>

\* A file of its own, under the name; its bytes may be those that were there.
EditThroughNewFile ==
    /\ Edit
    /\ \E i \in Unused, b \in Contents :
          /\ store' = [store EXCEPT ![i] = [bytes |-> b, private |-> TRUE, synced |-> TRUE,
                                            by |-> <<"editor", edits'>>]]
          /\ made' = [made EXCEPT ![i] = Torn]
          /\ entry' = i
    /\ maybe' = maybe \cup {entry'}

EditRemoves ==
    /\ Edit /\ entry # Nowhere
    /\ entry' = Nowhere
    /\ maybe' = maybe \cup {Nowhere}
    /\ UNCHANGED <<store, made>>

EditPermissions ==
    /\ Edit /\ entry # Nowhere
    /\ store' = [store EXCEPT ![entry].private = ~@]
    /\ UNCHANGED <<entry, maybe, made>>

\* Somebody clears the staging files.
ClearStaging ==
    /\ edits < MaxEdits
    /\ \E w \in Writers : writer[w].staged
    /\ edits' = edits + 1
    /\ writer' = [w \in Writers |-> [writer[w] EXCEPT !.staged = FALSE]]
    /\ UNCHANGED <<store, entry, maybe, holder, made, failures>>

PowerFailure ==
    /\ PowerFails
    /\ \E w \in Writers : Live(w)
    /\ entry' \in maybe
    /\ maybe' = {entry'}
    /\ \E torn \in SUBSET {i \in Inodes : ~store[i].synced} :
          store' = [i \in Inodes |-> [store[i] EXCEPT !.synced = TRUE,
                                                      !.bytes = IF i \in torn THEN Torn ELSE @]]
    /\ writer' = [w \in Writers |->
                    IF Live(w) THEN [writer[w] EXCEPT !.pc = "dead", !.staged = FALSE] ELSE writer[w]]
    /\ holder' = Nobody
    /\ UNCHANGED <<made, edits, failures>>

Next ==
    \/ \E w \in Writers :
          \/ ReadFirst(w) \/ ReadSecond(w) \/ Acquire(w) \/ Stage(w) \/ CompareTemp(w)
          \/ Publish(w) \/ PublishTooLate(w) \/ SyncDirectory(w) \/ Fail(w)
    \/ EditInPlace \/ EditThroughNewFile \/ EditRemoves \/ EditPermissions \/ ClearStaging
    \/ PowerFailure

Spec == Init /\ [][Next]_vars

-----------------------------------------------------------------------------
(* Properties.                                                               *)

\* A file that was published and that nobody has edited is under its name
\* with all its bytes, whenever the power fails: nothing reaches the name
\* before it is on the disk.
PublishedIsWhole ==
    entry # Nowhere /\ made[entry] # Torn => store[entry].bytes = made[entry]

\* What a writer is told holds: an error means that its call had no effect, an
\* effect that is called durable leaves no way back to the file it replaced.
OutcomeIsTrue ==
    \A w \in Writers :
        /\ writer[w].out = "err" => ~writer[w].did
        /\ writer[w].out \in {"durable", "uncertain"} => writer[w].did
        /\ writer[w].out = "durable" /\ writer[w].expected # Gone =>
               writer[w].expected.inode \notin maybe

\* A writer replaces or removes exactly the file it read, in identity, bytes
\* and permissions, unless the editor came between its last look and its
\* rename: other writers and a copy with the same bytes are never in between.
ReplacesWhatWasRead ==
    \A w \in Writers :
        ~writer[w].did /\ writer'[w].did =>
            \/ Look = writer[w].expected /\ Maker = writer[w].read
            \/ writer[w].late
=============================================================================
