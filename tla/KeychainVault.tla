--------------------------- MODULE KeychainVault ---------------------------
(***************************************************************************)
(* The keychain vault of phantom-vault.  A secret is spread over five       *)
(* places that cannot be written together: its credential under a hashed    *)
(* name (in old vaults under its plain name), the index of names, and the   *)
(* two sidecar files with its metadata and its validation verdict.  Every   *)
(* call holds the project lock, writes the places one by one, and when a    *)
(* write fails puts the earlier ones back; any write may fail without or    *)
(* with its effect, and the process may die between two of them.            *)
(*                                                                          *)
(* A validation runs beside the calls: it notes the verdict, reads the      *)
(* value, asks the provider, and records its verdict if the noted one is    *)
(* still there.                                                             *)
(***************************************************************************)
EXTENDS Naturals, Sequences

CONSTANTS
    Names,          \* secret names
    Values,         \* secret values
    LegacyNames,    \* the names an older release stored under their plain name
    Stores,         \* whether callers store and delete, or only retrieve
    Validates,      \* whether a validation runs
    MaxFaults       \* bound: failed writes and deaths

\* What the constants have to satisfy.
KeychainAssumption ==
    /\ LegacyNames \subseteq Names /\ "none" \notin Values
    /\ Stores \in BOOLEAN /\ Validates \in BOOLEAN
    /\ MaxFaults \in Nat

Nothing == "none"

Metadata == {"plain", "expiring"}

VARIABLES
    disk,       \* the five places of every secret
    op,         \* the call that holds the lock
    before,     \* the places as the call found them
    said,       \* what the last call told its caller
    allowed,    \* per name, the values the calls so far may have left
    check,      \* the validation under way
    faults

vars == <<disk, op, before, said, allowed, check, faults>>

NoCheck == [at |-> "idle", name |-> Nothing, noted |-> Nothing, value |-> Nothing]

Idle == [kind |-> "idle", name |-> Nothing, stage |-> "commit", todo |-> <<>>, clean |-> TRUE]

\* current_value_locked: the hashed entry, else the entry of an old release.
Value(d, n) == IF d.hashed[n] # Nothing THEN d.hashed[n] ELSE d.legacy[n]

Init ==
    /\ disk \in [hashed : {[n \in Names |-> Nothing]},
                 legacy : {l \in [Names -> Values \cup {Nothing}] :
                              \A n \in Names : (l[n] # Nothing) = (n \in LegacyNames)},
                 index : SUBSET LegacyNames,
                 meta : {[n \in Names |-> Nothing]},
                 verdict : {[n \in Names |-> Nothing]}]
    /\ op = Idle
    /\ before = disk
    /\ said = "nothing"
    /\ allowed = [n \in Names |-> {Value(disk, n)}]
    /\ check = NoCheck
    /\ faults = 0

-----------------------------------------------------------------------------
(* The writes of each call, in their order.                                  *)

Write(f, to) == [field |-> f, to |-> to]

Changed(f, to) == IF disk[f] = to THEN <<>> ELSE <<Write(f, to)>>

Set(f, n, v) == [disk[f] EXCEPT ![n] = v]

StoredMetadata(n, m) ==
    IF m # Nothing THEN m ELSE IF disk.meta[n] = Nothing THEN "plain" ELSE disk.meta[n]

\* store_locked: the credential first, the sidecars that change after it, and
\* the entry of an old release last.
StoreWrites(n, v, m) ==
    <<Write("hashed", Set("hashed", n, v))>>
    \o Changed("index", disk.index \cup {n})
    \o Changed("meta", Set("meta", n, StoredMetadata(n, m)))
    \o Changed("verdict", IF disk.hashed[n] = v THEN disk.verdict ELSE Set("verdict", n, Nothing))
    \o <<Write("legacy", Set("legacy", n, Nothing))>>

\* delete_locked: the sidecars and the index first, the credentials last.
DeleteWrites(n) ==
    Changed("meta", Set("meta", n, Nothing))
    \o Changed("verdict", Set("verdict", n, Nothing))
    \o Changed("index", disk.index \ {n})
    \o <<Write("hashed", Set("hashed", n, Nothing)), Write("legacy", Set("legacy", n, Nothing))>>

\* Mutant: the old entry is removed before the hashed one is written.
MigrateWritesOldFirst(n) ==
    <<Write("legacy", Set("legacy", n, Nothing)), Write("hashed", Set("hashed", n, disk.legacy[n]))>>
    \o Changed("index", disk.index \cup {n})

\* migrate_legacy_transaction: hashed entry, index, then the old entry goes.
MigrateWrites(n) ==
    <<Write("hashed", Set("hashed", n, disk.legacy[n]))>>
    \o Changed("index", disk.index \cup {n})
    \o <<Write("legacy", Set("legacy", n, Nothing))>>

Back(fs) == [i \in 1..Len(fs) |-> Write(fs[i], before[fs[i]])]

\* Mutant: a failed store leaves the metadata it wrote.
UndoWithoutMetadata(w) ==
    CASE op.kind = "store" ->
            IF w.field = "hashed" THEN <<>> ELSE Back(<<"hashed", "index", "verdict">>)
      [] op.kind = "delete" -> Back(<<"hashed", "index", "verdict", "legacy">>)
      [] op.kind = "migrate" -> Back(<<"hashed", "index">>)
      [] OTHER -> <<>>

\* What is put back after write w failed.  A store whose first write failed
\* puts nothing back, and neither does a call of a single write.
Undo(w) ==
    CASE op.kind = "store" ->
            IF w.field = "hashed" THEN <<>> ELSE Back(<<"hashed", "index", "meta", "verdict">>)
      [] op.kind = "delete" -> Back(<<"hashed", "index", "meta", "verdict", "legacy">>)
      [] op.kind = "migrate" ->
            CASE w.field = "hashed" -> Back(<<"hashed">>)
              [] w.field = "index" -> Back(<<"index", "hashed">>)
              [] OTHER -> Back(IF before.index = disk.index THEN <<"legacy", "hashed">>
                               ELSE <<"legacy", "index", "hashed">>)
      [] OTHER -> <<>>

-----------------------------------------------------------------------------
(* The calls.                                                                *)

Start(kind, n, writes, v) ==
    /\ op = Idle
    /\ op' = [Idle EXCEPT !.kind = kind, !.name = n, !.todo = writes]
    /\ before' = disk
    /\ said' = "nothing"
    /\ allowed' = [allowed EXCEPT ![n] = {Value(disk, n), v}]
    /\ UNCHANGED <<disk, faults>>

\* store, and store_with_expiry which brings its own metadata.
Store(n, v, m) ==
    /\ Stores
    /\ Start("store", n, StoreWrites(n, v, m), v)
    /\ UNCHANGED check

Delete(n) ==
    /\ Stores
    /\ Value(disk, n) # Nothing \/ n \in disk.index
    /\ Start("delete", n, DeleteWrites(n), Nothing)
    /\ UNCHANGED check

\* compare_and_swap with the value the caller saw.
CompareAndSwap(n, expected, v) ==
    /\ Stores
    /\ Value(disk, n) = expected
    /\ v # expected
    /\ \/ v # Nothing /\ Start("store", n, StoreWrites(n, v, Nothing), v)
       \/ v = Nothing /\ Start("delete", n, DeleteWrites(n), Nothing)
    /\ UNCHANGED check

\* retrieve of a secret that only the old release's entry holds.
Retrieve(n) ==
    /\ disk.hashed[n] = Nothing
    /\ disk.legacy[n] # Nothing
    /\ Start("migrate", n, MigrateWrites(n), disk.legacy[n])
    /\ UNCHANGED check

\* set_metadata, and compare_and_swap_metadata_batch of one name: only for
\* names in the index.
SetMetadata(n, m) ==
    /\ Stores
    /\ n \in disk.index
    /\ disk.meta[n] # m
    /\ Start("sidecar", n, <<Write("meta", Set("meta", n, m))>>, Value(disk, n))
    /\ UNCHANGED check

\* snapshot_validation_metadata, then retrieve_validation_values.
NoteVerdict(n) ==
    /\ Validates
    /\ op = Idle
    /\ check = NoCheck
    /\ n \in disk.index
    /\ check' = [NoCheck EXCEPT !.at = "noted", !.name = n, !.noted = disk.verdict[n]]
    /\ UNCHANGED <<disk, op, before, said, allowed, faults>>

ReadValue ==
    /\ op = Idle
    /\ check.at = "noted"
    /\ check' = IF Value(disk, check.name) = Nothing THEN NoCheck
                ELSE [check EXCEPT !.at = "read", !.value = Value(disk, check.name)]
    /\ UNCHANGED <<disk, op, before, said, allowed, faults>>

\* persist_validation_metadata: the verdict about the value read is recorded
\* when the noted verdict is still there and the name still in the index.
RecordVerdict ==
    LET n == check.name IN
    /\ op = Idle
    /\ check.at = "read"
    /\ n \in disk.index
    /\ disk.verdict[n] = check.noted
    /\ Start("sidecar", n, <<Write("verdict", Set("verdict", n, check.value))>>, Value(disk, n))
    /\ check' = NoCheck

DropVerdict ==
    LET n == check.name IN
    /\ op = Idle
    /\ check.at = "read"
    /\ n \notin disk.index \/ disk.verdict[n] # check.noted
    /\ check' = NoCheck
    /\ UNCHANGED <<disk, op, before, said, allowed, faults>>

-----------------------------------------------------------------------------
(* The steps of the call under way.                                          *)

Finish(word) ==
    /\ op' = Idle
    /\ said' = word
    /\ allowed' =
          IF word \in {"ok", "restored"}
          THEN [allowed EXCEPT ![op.name] = {Value(disk', op.name)}]
          ELSE allowed

Advance(clean) ==
    IF Len(op.todo) > 1
    THEN /\ op' = [op EXCEPT !.todo = Tail(@), !.clean = clean]
         /\ UNCHANGED <<said, allowed>>
    ELSE Finish(IF op.stage = "commit" THEN "ok" ELSE IF clean THEN "restored" ELSE "incomplete")

WriteNext == [disk EXCEPT ![Head(op.todo).field] = Head(op.todo).to]

\* A write, of the call or of what it puts back, succeeds.
Succeed ==
    /\ op # Idle
    /\ disk' = WriteNext
    /\ Advance(op.clean)
    /\ UNCHANGED <<before, check, faults>>

Failing(effect) ==
    /\ op # Idle
    /\ faults < MaxFaults
    /\ faults' = faults + 1
    /\ disk' = IF effect THEN WriteNext ELSE disk
    /\ UNCHANGED <<before, check>>

\* delete_legacy: the old entry's removal after a store may fail unseen.
FailUnseen(effect) ==
    /\ op.stage = "commit" /\ op.kind = "store"
    /\ Head(op.todo).field = "legacy"
    /\ Failing(effect)
    /\ Advance(op.clean)

\* Any other write of the call fails and what was written is put back.
Fail(effect) ==
    LET w == Head(op.todo) IN
    /\ op # Idle
    /\ op.stage = "commit"
    /\ ~(op.kind = "store" /\ w.field = "legacy")
    /\ Failing(effect)
    /\ IF Undo(w) = <<>> THEN Finish("failed")
       ELSE /\ op' = [op EXCEPT !.stage = "undo", !.todo = Undo(w)]
            /\ UNCHANGED <<said, allowed>>

\* Putting back fails: a migration stops there, store and delete try the rest.
FailUndo(effect) ==
    /\ op # Idle
    /\ op.stage = "undo"
    /\ Failing(effect)
    /\ IF op.kind = "migrate" THEN Finish("incomplete") ELSE Advance(FALSE)

Die ==
    /\ op # Idle
    /\ faults < MaxFaults
    /\ faults' = faults + 1
    /\ op' = Idle
    /\ UNCHANGED <<disk, before, said, allowed, check>>

Next ==
    \/ \E n \in Names :
          \/ \E v \in Values, m \in {Nothing, "expiring"} : Store(n, v, m)
          \/ Delete(n) \/ Retrieve(n) \/ NoteVerdict(n)
          \/ \E e \in Values \cup {Nothing}, v \in Values \cup {Nothing} : CompareAndSwap(n, e, v)
          \/ \E m \in Metadata \cup {Nothing} : SetMetadata(n, m)
    \/ ReadValue \/ RecordVerdict \/ DropVerdict
    \/ Succeed
    \/ \E effect \in BOOLEAN : FailUnseen(effect) \/ Fail(effect) \/ FailUndo(effect)
    \/ Die

Spec == Init /\ [][Next]_vars

-----------------------------------------------------------------------------
(* Properties.                                                               *)

\* The type invariant of the places, the call and the validation.
TypeOK ==
    /\ disk \in [hashed : [Names -> Values \cup {Nothing}],
                 legacy : [Names -> Values \cup {Nothing}],
                 index : SUBSET Names,
                 meta : [Names -> Metadata \cup {Nothing}],
                 verdict : [Names -> Values \cup {Nothing}]]
    /\ op.kind \in {"idle", "store", "delete", "migrate", "sidecar"}
    /\ op.stage \in {"commit", "undo"}
    /\ (op = Idle) = (op.todo = <<>>)
    /\ said \in {"nothing", "ok", "failed", "restored", "incomplete"}
    /\ allowed \in [Names -> SUBSET (Values \cup {Nothing})]
    /\ check.at \in {"idle", "noted", "read"}
    /\ faults \in 0..MaxFaults

\* A caller that reads under the lock finds the value the last successful call
\* left, or one that a call which failed or died since was replacing or
\* writing; never nothing in its place, and never a value given up earlier.
ValueIsAccounted == op = Idle => \A n \in Names : Value(disk, n) \in allowed[n]

\* compensated_error: when a call says "failed and prior keychain state was
\* restored", every place is what the call found.
RestoredMeansRestored == said = "restored" => disk = before

\* migrate_legacy_transaction's concern in its comments, for every call: no
\* name in the index whose credential is gone ("a dangling index record").
IndexedHasValue == op = Idle => \A n \in disk.index : Value(disk, n) # Nothing

\* A name that is not in the index has neither metadata nor a verdict that a
\* later secret of the same name would inherit.
NothingToInherit ==
    op = Idle => \A n \in Names \ disk.index : disk.meta[n] = Nothing /\ disk.verdict[n] = Nothing

\* store_locked's comment: "A validation verdict describes the credential that
\* was checked; a different value reads as never checked until it is validated".
VerdictMatchesValue ==
    op = Idle => \A n \in Names : disk.verdict[n] \in {Nothing, Value(disk, n)}

\* What a reader of the vault may rely on, whatever calls failed before.
KeychainSafe == TypeOK /\ ValueIsAccounted /\ IndexedHasValue
=============================================================================
