------------------------------ MODULE FileVault ------------------------------
(***************************************************************************)
(* The encrypted file vault of phantom-vault: all secrets of a project in    *)
(* one file.  A call takes the stable lock and then the lock of older        *)
(* releases, loads the file, changes what it holds and replaces it exactly;  *)
(* the first call of a process first moves a plaintext vault of an old       *)
(* release, if there is one, into the encrypted file and removes it.         *)
(*                                                                           *)
(* Processes of an older release, which know only their own lock, use the    *)
(* vault too; a still older one rewrites the plaintext vault with no lock.   *)
(* The exact effects are those of AnchoredFile: they fail with nothing done, *)
(* or are done and durable, or done and uncertain.  A process may die        *)
(* between any two of its steps, and the power may fail.                     *)
(***************************************************************************)
EXTENDS Naturals

CONSTANTS
    Clients,        \* processes that use the vault
    OldClients,     \* those of them that run an older release
    Names, Values,  \* secrets
    MaxCalls,       \* bound: calls
    MaxEdits,       \* bound: rewrites of the plaintext vault, and changes of permissions
    MaxFaults,      \* bound: failing effects, deaths and power failures
    Deaths,         \* whether effects fail and processes die while the power is on
    Reorders,       \* whether the file system reorders the changes of a directory
    Plaintext       \* whether an old release has left a plaintext vault

\* What the constants have to satisfy.
FileVaultAssumption ==
    /\ OldClients \subseteq Clients /\ "nobody" \notin Clients /\ "none" \notin Values
    /\ MaxCalls \in Nat /\ MaxEdits \in Nat /\ MaxFaults \in Nat
    /\ Deaths \in BOOLEAN /\ Reorders \in BOOLEAN /\ Plaintext \in BOOLEAN

Nothing == "none"
Nobody == "nobody"

VARIABLES
    cur,        \* the encrypted file and the plaintext file under their names
    maybe,      \* the pairs of them that may be there when the power fails
    stable,     \* who holds the stable lock
    legacy,     \* who holds the lock of older releases
    client,     \* the processes
    told,       \* the contents that the calls so far account for
    calls, edits, faults

vars == <<cur, maybe, stable, legacy, client, told, calls, edits, faults>>

\* VaultData: values, metadata and verdicts, each by name.  A verdict is the
\* value that its writer checked.  History: the value that was stored when the
\* verdict was recorded beside it.
EmptyData ==
    [secrets |-> [n \in Names |-> Nothing], metadata |-> [n \in Names |-> Nothing],
     verdicts |-> [n \in Names |-> Nothing], beside |-> [n \in Names |-> Nothing]]

Missing == [there |-> FALSE, data |-> EmptyData, private |-> TRUE]

File(d, private) == [there |-> TRUE, data |-> d, private |-> private]

NoCall == [kind |-> "none"]

Fresh == [pc |-> "idle", opened |-> FALSE, before |-> Missing, after |-> EmptyData, call |-> NoCall]

Stored(n, v) ==
    [EmptyData EXCEPT !.secrets[n] = v, !.metadata[n] = "plain", !.verdicts[n] = v, !.beside[n] = v]

\* Until the directory is synced a change of it may be lost; where changes are
\* not kept in order, each on its own.
Added(p) ==
    LET more == maybe \cup {p} IN
    IF Reorders THEN [encrypted : {q.encrypted : q \in more}, json : {q.json : q \in more}] ELSE more

Init ==
    /\ \E n \in Names, v \in Values :
          cur = IF Plaintext THEN [encrypted |-> Missing, json |-> File(Stored(n, v), FALSE)]
                ELSE [encrypted |-> File(Stored(n, v), TRUE), json |-> Missing]
    /\ maybe = {cur}
    /\ stable = Nobody /\ legacy = Nobody
    /\ client = [c \in Clients |-> Fresh]
    /\ told = {IF Plaintext THEN cur.json.data ELSE cur.encrypted.data}
    /\ calls = 0 /\ edits = 0 /\ faults = 0

-----------------------------------------------------------------------------
(* What the calls do with the contents.                                      *)

\* Mutant: the verdict of the old value is kept.
ReplaceValueOnly(d, n, v) == [d EXCEPT !.secrets[n] = v]

\* replace_value: a verdict describes the value that was checked, and goes with
\* the value it is recorded beside.
ReplaceValue(d, n, v) ==
    IF d.secrets[n] = v THEN d
    ELSE [d EXCEPT !.secrets[n] = v, !.verdicts[n] = Nothing, !.beside[n] = Nothing]

Seeded(d, n) ==
    [d EXCEPT !.metadata[n] = IF d.secrets[n] = Nothing /\ @ = Nothing THEN "plain" ELSE @]

Removed(d, n) ==
    [secrets |-> [d.secrets EXCEPT ![n] = Nothing], metadata |-> [d.metadata EXCEPT ![n] = Nothing],
     verdicts |-> [d.verdicts EXCEPT ![n] = Nothing], beside |-> [d.beside EXCEPT ![n] = Nothing]]

\* A verdict on any value is recorded, or the verdict removed, beside the value
\* that is stored: nothing compares the two.
Judged(d, n, of) ==
    [d EXCEPT !.verdicts[n] = of, !.beside[n] = IF of = Nothing THEN Nothing ELSE d.secrets[n]]

Calls ==
    [kind : {"store", "store_with_expiry"}, name : Names, value : Values]
        \cup [kind : {"delete", "set_metadata"}, name : Names]
        \cup [kind : {"set_verdict"}, name : Names, of : Values]
        \cup [kind : {"swap"}, name : Names, from : Values \cup {Nothing}, to : Values \cup {Nothing}]
        \cup [kind : {"swap_verdict"}, name : Names, from : Values \cup {Nothing}, of : Values \cup {Nothing}]

\* Whether a call changes the contents d; else it says no, and saves nothing.
Accepted(d, k) ==
    CASE k.kind \in {"store", "store_with_expiry"} -> TRUE
      [] k.kind \in {"delete", "set_metadata", "set_verdict"} -> d.secrets[k.name] # Nothing
      [] k.kind = "swap" -> d.secrets[k.name] = k.from
      [] k.kind = "swap_verdict" -> d.secrets[k.name] # Nothing /\ d.verdicts[k.name] = k.from

Applied(d, k) ==
    CASE k.kind = "store" -> ReplaceValue(Seeded(d, k.name), k.name, k.value)
      [] k.kind = "store_with_expiry" ->
            [ReplaceValue(d, k.name, k.value) EXCEPT !.metadata[k.name] = "expiring"]
      [] k.kind = "delete" -> Removed(d, k.name)
      [] k.kind = "swap" /\ k.to = Nothing -> Removed(d, k.name)
      [] k.kind = "swap" /\ k.to # Nothing -> ReplaceValue(Seeded(d, k.name), k.name, k.to)
      [] k.kind = "set_metadata" -> [d EXCEPT !.metadata[k.name] = "expiring"]
      [] k.kind \in {"set_verdict", "swap_verdict"} -> Judged(d, k.name, k.of)

-----------------------------------------------------------------------------
(* The calls.                                                                *)

\* The call is over and its guards are dropped.
Return(c, opened) ==
    /\ client' = [client EXCEPT ![c] = [Fresh EXCEPT !.opened = opened]]
    /\ stable' = IF stable = c THEN Nobody ELSE stable
    /\ legacy' = Nobody

\* lock_view, the stable lock.
TakeStable(c) ==
    /\ client[c].pc = "idle" /\ c \notin OldClients
    /\ calls < MaxCalls
    /\ stable = Nobody
    /\ stable' = c
    /\ calls' = calls + 1
    /\ client' = [client EXCEPT ![c].pc = "stable"]
    /\ UNCHANGED <<cur, maybe, legacy, told, edits, faults>>

\* lock_view, the lock of older releases, which is all that those take.
TakeLegacy(c) ==
    /\ \/ client[c].pc = "stable" /\ UNCHANGED calls
       \/ client[c].pc = "idle" /\ c \in OldClients /\ calls < MaxCalls /\ calls' = calls + 1
    /\ legacy = Nobody
    /\ legacy' = c
    /\ client' = [client EXCEPT ![c].pc = IF client[c].opened THEN "load" ELSE "open"]
    /\ UNCHANGED <<cur, maybe, stable, told, edits, faults>>

\* load: the file is read first, and its permissions are repaired after.
Load(c) ==
    /\ client[c].pc = "load"
    /\ client' = [client EXCEPT ![c].before = cur.encrypted, ![c].pc = "change"]
    /\ cur' = [cur EXCEPT !.encrypted.private = TRUE]
    /\ maybe' = {[p EXCEPT !.encrypted.private = TRUE] : p \in maybe}
    /\ UNCHANGED <<stable, legacy, told, calls, edits, faults>>

\* The call itself: it reads or says no, or goes on to save.
Change(c) ==
    /\ client[c].pc = "change"
    /\ \E k \in Calls :
          IF Accepted(client[c].before.data, k)
          THEN /\ client' = [client EXCEPT ![c].pc = "save", ![c].call = k,
                                           ![c].after = Applied(client[c].before.data, k)]
               /\ UNCHANGED <<stable, legacy>>
          ELSE Return(c, TRUE)
    /\ UNCHANGED <<cur, maybe, told, calls, edits, faults>>

\* save: replace_if_exact refuses a file that is not as it was read, which
\* includes one whose permissions were just repaired.
Save(c) ==
    /\ client[c].pc = "save"
    /\ IF cur.encrypted = client[c].before
       THEN /\ cur' = [cur EXCEPT !.encrypted = File(client[c].after, TRUE)]
            /\ maybe' = Added(cur')
            /\ told' = told \cup {Applied(d, client[c].call) :
                                    d \in {e \in told : Accepted(e, client[c].call)}}
            /\ client' = [client EXCEPT ![c].pc = "sync"]
            /\ UNCHANGED <<stable, legacy>>
       ELSE Return(c, TRUE) /\ UNCHANGED <<cur, maybe, told>>
    /\ UNCHANGED <<calls, edits, faults>>

\* The directory is synced and the effect durable: the call succeeds.
Sync(c) ==
    /\ client[c].pc = "sync"
    /\ maybe' = {cur}
    /\ told' = {Applied(client[c].before.data, client[c].call)}
    /\ Return(c, TRUE)
    /\ UNCHANGED <<cur, calls, edits, faults>>

-----------------------------------------------------------------------------
(* migrate_from_json, when a process opens the vault.                        *)

\* Both files are read.  A plaintext vault that differs from the encrypted one
\* stays, and the vault does not open.
OpenRead(c) ==
    /\ client[c].pc = "open"
    /\ \/ ~cur.json.there /\ Return(c, TRUE)
       \/ /\ cur.json.there /\ cur.encrypted.there /\ cur.encrypted.data # cur.json.data
          /\ Return(c, FALSE)
       \/ /\ cur.json.there
          /\ cur.encrypted.there => cur.encrypted.data = cur.json.data
          /\ client' = [client EXCEPT ![c].before = cur.json,
                                      ![c].pc = IF cur.encrypted.there THEN "duplicate" ELSE "publish"]
          /\ UNCHANGED <<stable, legacy>>
    /\ UNCHANGED <<cur, maybe, told, calls, edits, faults>>

Publish(c) ==
    /\ client[c].pc = "publish"
    /\ cur' = [cur EXCEPT !.encrypted = File(client[c].before.data, TRUE)]
    /\ maybe' = Added(cur')
    /\ client' = [client EXCEPT ![c].pc = "published"]
    /\ UNCHANGED <<stable, legacy, told, calls, edits, faults>>

\* Mutant: the encrypted file is not durable yet.
SyncPublishedNot(c) ==
    /\ client[c].pc = "published"
    /\ client' = [client EXCEPT ![c].pc = "unlink"]
    /\ UNCHANGED <<cur, maybe, stable, legacy, told, calls, edits, faults>>

\* The encrypted file is durable before the plaintext one goes.
SyncPublished(c) ==
    /\ client[c].pc = "published"
    /\ maybe' = {cur}
    /\ client' = [client EXCEPT ![c].pc = "unlink"]
    /\ UNCHANGED <<cur, stable, legacy, told, calls, edits, faults>>

\* unlink_if_exact of the plaintext vault.  If that has changed, the encrypted
\* copy that was made of it is taken back; a duplicate is left alone.
Unlink(c) ==
    /\ client[c].pc \in {"unlink", "duplicate"}
    /\ IF cur.json = client[c].before
       THEN /\ cur' = [cur EXCEPT !.json = Missing]
            /\ maybe' = Added(cur')
            /\ client' = [client EXCEPT ![c].pc = "unlinked"]
            /\ UNCHANGED <<stable, legacy>>
       ELSE IF client[c].pc = "unlink"
       THEN /\ client' = [client EXCEPT ![c].pc = "rollback"]
            /\ UNCHANGED <<cur, maybe, stable, legacy>>
       ELSE Return(c, FALSE) /\ UNCHANGED <<cur, maybe>>
    /\ UNCHANGED <<told, calls, edits, faults>>

SyncUnlinked(c) ==
    /\ client[c].pc = "unlinked"
    /\ maybe' = {cur}
    /\ told' = {client[c].before.data}
    /\ Return(c, TRUE)
    /\ UNCHANGED <<cur, calls, edits, faults>>

\* The encrypted copy is taken back: the plaintext vault, if it is still
\* there, is the vault again.
Rollback(c) ==
    /\ client[c].pc = "rollback"
    /\ cur' = [cur EXCEPT !.encrypted = Missing]
    /\ maybe' = Added(cur')
    /\ Return(c, FALSE)
    /\ UNCHANGED <<told, calls, edits, faults>>

-----------------------------------------------------------------------------
(* What goes wrong.                                                          *)

Fault == faults < MaxFaults /\ faults' = faults + 1

\* An effect fails.  Before the rename or the unlink nothing has happened (and
\* a plaintext vault that cannot be removed takes the copy with it); after it
\* the call says that the effect is uncertain.
Fail(c) ==
    /\ Deaths /\ Fault
    /\ client[c].pc \in {"save", "sync", "publish", "published", "unlink", "duplicate", "unlinked", "rollback"}
    /\ IF client[c].pc = "unlink"
       THEN client' = [client EXCEPT ![c].pc = "rollback"] /\ UNCHANGED <<stable, legacy>>
       ELSE Return(c, client[c].opened)
    /\ UNCHANGED <<cur, maybe, told, calls, edits>>

\* The process dies, and with it its locks.
Die(c) ==
    /\ Deaths /\ Fault
    /\ client[c].pc # "idle"
    /\ client' = [client EXCEPT ![c] = Fresh]
    /\ stable' = IF stable = c THEN Nobody ELSE stable
    /\ legacy' = IF legacy = c THEN Nobody ELSE legacy
    /\ UNCHANGED <<cur, maybe, told, calls, edits>>

PowerFailure ==
    /\ Fault
    /\ cur' \in maybe
    /\ maybe' = {cur'}
    /\ client' = [c \in Clients |-> Fresh]
    /\ stable' = Nobody /\ legacy' = Nobody
    /\ UNCHANGED <<told, calls, edits>>

\* A release from before the encrypted vault rewrites the plaintext one.
RewriteJson ==
    /\ edits < MaxEdits /\ cur.json.there
    /\ edits' = edits + 1
    /\ \E n \in Names, v \in Values : cur' = [cur EXCEPT !.json = File(Stored(n, v), FALSE)]
    /\ maybe' = {[p EXCEPT !.json = cur'.json] : p \in maybe}
    /\ told' = told \cup {cur'.json.data}
    /\ UNCHANGED <<stable, legacy, client, calls, faults>>

\* Somebody opens up the permissions of the encrypted file.
WidenPermissions ==
    /\ edits < MaxEdits /\ cur.encrypted.there /\ cur.encrypted.private
    /\ edits' = edits + 1
    /\ cur' = [cur EXCEPT !.encrypted.private = FALSE]
    /\ maybe' = Added(cur')
    /\ UNCHANGED <<stable, legacy, client, told, calls, faults>>

Next ==
    \/ \E c \in Clients :
          \/ TakeStable(c) \/ TakeLegacy(c) \/ Load(c) \/ Change(c) \/ Save(c) \/ Sync(c)
          \/ OpenRead(c) \/ Publish(c) \/ SyncPublished(c) \/ Unlink(c) \/ SyncUnlinked(c) \/ Rollback(c)
          \/ Fail(c) \/ Die(c)
    \/ PowerFailure \/ RewriteJson \/ WidenPermissions

Spec == Init /\ [][Next]_vars

-----------------------------------------------------------------------------
(* Properties.                                                               *)

\* What a reader finds: the encrypted vault, and before it exists the
\* plaintext one.
Readable(p) == IF p.encrypted.there THEN p.encrypted.data ELSE p.json.data

\* Whatever happens next, power failures included, the vault holds what the
\* calls so far account for: an update that was reported is neither lost to
\* another process nor to a crash, and the plaintext vault is not gone before
\* its encrypted copy is safe.
NoValueLost == \A p \in maybe : Readable(p) \in told

\* A stored value never inherits a verdict that was recorded beside another one,
\* and a name without a value has neither a verdict nor metadata that a later
\* value would inherit.
SidecarsFollowValues ==
    LET d == Readable(cur) IN
    \A n \in Names :
        /\ d.beside[n] \in {Nothing, d.secrets[n]}
        /\ d.verdicts[n] = Nothing <=> d.beside[n] = Nothing
        /\ d.secrets[n] = Nothing => d.metadata[n] = Nothing

\* Not so: a verdict is on the value it is recorded beside.  Who validates reads
\* the value, asks its service, and compares only verdicts when it writes.
VerdictMatchesValue ==
    \A n \in Names : Readable(cur).verdicts[n] \in {Nothing, Readable(cur).secrets[n]}
=============================================================================
