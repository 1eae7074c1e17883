------------------------------ MODULE CloudSync ------------------------------
(***************************************************************************)
(* phantom cloud push and pull.  Checkouts of one project, each with its    *)
(* own vault and .phantom.toml, exchange their secrets through one          *)
(* encrypted blob with a version.  A push sends everything and names the    *)
(* version it builds on; a pull merges, and records the version only when   *)
(* nothing was skipped.  Both end in commit_init, which writes .phantom.toml *)
(* first and the values one by one, and may fail or die in between.  The key *)
(* of the blob is in the OS keychain, which the checkouts of one machine     *)
(* share.                                                                   *)
(*                                                                          *)
(* Every value stored is new: values are numbered as they are written.      *)
(***************************************************************************)
EXTENDS Naturals, FiniteSets

CONSTANTS
    Checkouts,
    Keychain,       \* the keychain of a checkout
    KeysFrom,       \* the key each keychain holds at first, NoKey without
    Names,          \* secret names
    MaxWrites,      \* bound: values stored by users
    MaxCalls,       \* bound: pushes and pulls
    MaxFaults,      \* bound: faults in them
    ConfigInGit,    \* whether .phantom.toml travels between checkouts
    NoKey

\* What the constants have to satisfy.
CloudAssumption ==
    /\ MaxWrites \in Nat /\ MaxCalls \in Nat /\ MaxFaults \in Nat
    /\ IsFiniteSet(Checkouts) /\ NoKey \notin Checkouts
    /\ KeysFrom = [k \in DOMAIN KeysFrom |-> KeysFrom[k]]
    /\ Keychain \in [Checkouts -> DOMAIN KeysFrom]
    /\ ConfigInGit \in BOOLEAN

VARIABLES
    vault,      \* the value of each name of a checkout, 0 without
    config,     \* [cloud] of .phantom.toml
    remote,     \* vault_blobs: what is encrypted, with which key, and the version
    keys,       \* phantom-cloud:vault_key of each keychain
    call,       \* the push or pull a checkout runs
    writes, calls,
    known,      \* history: every value a checkout has held
    cut,        \* history: checkouts of which a commit ended between .phantom.toml
                \* and its last value, and none has been completed since
    faults      \* deaths, and calls of the file system or the vault that failed

vars == <<vault, config, remote, keys, call, writes, calls, known, cut, faults>>

Empty == [n \in Names |-> 0]

NoConfig == [version |-> 0, blocked |-> FALSE]

NoCall == [pc |-> "idle", before |-> NoConfig, secrets |-> Empty, read |-> Empty,
           key |-> NoKey, blobKey |-> NoKey, force |-> FALSE, version |-> 0,
           left |-> {}, wrote |-> {}]

Init ==
    /\ vault = [c \in Checkouts |-> Empty]
    /\ config = [c \in Checkouts |-> NoConfig]
    /\ remote = [secrets |-> Empty, key |-> NoKey, version |-> 0]
    /\ keys = KeysFrom
    /\ call = [c \in Checkouts |-> NoCall]
    /\ writes = 0
    /\ calls = 0
    /\ known = [c \in Checkouts |-> {}]
    /\ cut = {}
    /\ faults = 0

Held(secrets) == {n \in Names : secrets[n] # 0}

Values(secrets) == {secrets[n] : n \in Held(secrets)}

At(c, pc) == call[c].pc = pc

Go(c, pc) == call' = [call EXCEPT ![c].pc = pc]

End(c) == call' = [call EXCEPT ![c] = NoCall]

\* Another process of the checkout stores or removes a secret at any time.
Store(c, n) ==
    /\ writes < MaxWrites
    /\ writes' = writes + 1
    /\ vault' = [vault EXCEPT ![c][n] = writes + 1]
    /\ known' = [known EXCEPT ![c] = @ \cup {writes + 1}]
    /\ UNCHANGED <<config, remote, keys, call, calls, cut, faults>>

Remove(c, n) ==
    /\ vault[c][n] # 0
    /\ vault' = [vault EXCEPT ![c][n] = 0]
    /\ UNCHANGED <<config, remote, keys, call, writes, calls, known, cut, faults>>

\* .phantom.toml is committed, and the other checkout takes it over.
ShareConfig(c, d) ==
    /\ ConfigInGit
    /\ config[c] # config[d]
    /\ config' = [config EXCEPT ![d] = config[c]]
    /\ UNCHANGED <<vault, remote, keys, call, writes, calls, known, cut, faults>>

-----------------------------------------------------------------------------
(* The key.                                                                  *)

\* Mutant: a keychain that cannot be read counts as one without the entry.
FindKeyUnreadable(c) ==
    LET k == keys[Keychain[c]]
    IN  /\ At(c, "key")
        /\ \/ call' = [call EXCEPT ![c].key = k,
                                   ![c].pc = IF k = NoKey THEN "makeKey" ELSE "crypt"]
           \/ Go(c, "makeKey")
        /\ UNCHANGED <<vault, config, remote, keys, writes, calls, known, cut, faults>>

\* get_or_create_cloud_passphrase finds an entry, or reports that none exists.
FindKey(c) ==
    LET k == keys[Keychain[c]]
    IN  /\ At(c, "key")
        /\ call' = [call EXCEPT ![c].key = k, ![c].pc = IF k = NoKey THEN "makeKey" ELSE "crypt"]
        /\ UNCHANGED <<vault, config, remote, keys, writes, calls, known, cut, faults>>

\* A new key is named after the checkout that makes it.
MakeKey(c) ==
    /\ At(c, "makeKey")
    /\ keys' = [keys EXCEPT ![Keychain[c]] = c]
    /\ call' = [call EXCEPT ![c].key = c, ![c].pc = "crypt"]
    /\ UNCHANGED <<vault, config, remote, writes, calls, known, cut, faults>>

-----------------------------------------------------------------------------
(* Push.                                                                     *)

\* ensure_cloud_push_allowed, then every value of the vault is read.
Push(c) ==
    /\ At(c, "idle") /\ calls < MaxCalls
    /\ ~config[c].blocked
    /\ Held(vault[c]) # {}
    /\ calls' = calls + 1
    /\ call' = [call EXCEPT ![c] = [NoCall EXCEPT !.pc = "key", !.before = config[c],
                                       !.secrets = vault[c], !.read = vault[c]]]
    /\ UNCHANGED <<vault, config, remote, keys, writes, known, cut, faults>>

\* A pull knows the version it fetched; a push has none until it is accepted.
Pushing(c) == call[c].version = 0

\* The server accepts a push that builds on its version; any other conflicts.
Accepted(p) == p.before.version = remote.version

\* The push is answered with a new version or a conflict.  The receipt may be
\* lost, and the outcome stays unknown.
Send(c) ==
    LET p == call[c]
        accepted == Accepted(p)
    IN  /\ At(c, "crypt") /\ Pushing(c)
        /\ remote' = IF accepted
                     THEN [secrets |-> p.secrets, key |-> p.key, version |-> remote.version + 1]
                     ELSE remote
        /\ \/ accepted /\ call' = [call EXCEPT ![c].pc = "receipt",
                                               ![c].version = remote.version + 1]
           \/ End(c)
        /\ UNCHANGED <<vault, config, keys, writes, calls, known, cut, faults>>

\* The names are compared with the ones sent.
CheckNames(c) ==
    /\ At(c, "receipt")
    /\ IF Held(vault[c]) = Held(call[c].secrets) THEN Go(c, "commit") ELSE End(c)
    /\ UNCHANGED <<vault, config, remote, keys, writes, calls, known, cut, faults>>

-----------------------------------------------------------------------------
(* Pull.                                                                     *)

\* What the server returns of the blob.
Fetched == [NoCall EXCEPT !.secrets = remote.secrets, !.version = remote.version,
                          !.blobKey = remote.key]

\* The config is read and the blob fetched, if there is one.
Pull(c, force) ==
    /\ At(c, "idle") /\ calls < MaxCalls
    /\ remote.version > 0
    /\ calls' = calls + 1
    /\ call' = [call EXCEPT ![c] = [Fetched EXCEPT !.pc = "key", !.before = config[c],
                                                     !.force = force]]
    /\ UNCHANGED <<vault, config, remote, keys, writes, known, cut, faults>>

\* The blob is decrypted; then the local values are read.
Decrypt(c) ==
    /\ At(c, "crypt") /\ ~Pushing(c)
    /\ call[c].key = call[c].blobKey
    /\ call' = [call EXCEPT ![c].pc = "commit", ![c].read = vault[c]]
    /\ UNCHANGED <<vault, config, remote, keys, writes, calls, known, cut, faults>>

\* A blob of another key cannot be read.
Undecryptable(c) ==
    /\ At(c, "crypt") /\ ~Pushing(c)
    /\ call[c].key # call[c].blobKey
    /\ End(c)
    /\ UNCHANGED <<vault, config, remote, keys, writes, calls, known, cut, faults>>

-----------------------------------------------------------------------------
(* commit_init, with the version and the values of a push or of a pull.      *)

\* A name that both sides have is skipped without force; the others are bound
\* to the value that was read, those without any change included.
Skipped(p) == {n \in Held(p.secrets) : ~p.force /\ p.read[n] # 0 /\ p.read[n] # p.secrets[n]}

Bound(p) == Held(p.secrets) \ Skipped(p)

\* The version is recorded only when nothing was skipped.
After(p) ==
    IF Skipped(p) = {} THEN [version |-> p.version, blocked |-> FALSE]
    ELSE [p.before EXCEPT !.blocked = TRUE]

Undo(c, names) == call' = [call EXCEPT ![c].pc = "undo", ![c].wrote = names]

Done(c) == End(c) /\ cut' = IF Skipped(call[c]) = {} THEN cut \ {c} ELSE cut

\* Something fails.
Fault == faults < MaxFaults /\ faults' = faults + 1

\* Config and values are looked at once more, and .phantom.toml is replaced; what
\* follows its rename may fail.  An earlier error ends the call like a death.
CommitConfig(c) ==
    LET p == call[c]
        ready == config[c] = p.before /\ \A n \in Bound(p) : vault[c][n] = p.read[n]
    IN  /\ At(c, "commit")
        /\ \/ ~ready /\ End(c) /\ UNCHANGED <<config, cut, faults>>
           \/ /\ ready
              /\ config' = [config EXCEPT ![c] = After(p)]
              /\ \/ Bound(p) = {} /\ Done(c) /\ UNCHANGED faults
                 \/ /\ Bound(p) # {}
                    /\ call' = [call EXCEPT ![c].pc = "values", ![c].left = Bound(p)]
                    /\ UNCHANGED <<cut, faults>>
                 \/ Fault /\ Undo(c, {}) /\ UNCHANGED cut
        /\ UNCHANGED <<vault, remote, keys, writes, calls, known>>

\* A value that is no longer the one that was read, and a failed call, which may
\* have taken effect, are the end of the commit.
RefuseValue(c, n) ==
    LET p == call[c]
    IN  /\ At(c, "values") /\ n \in p.left
        /\ (vault[c][n] # p.read[n] /\ UNCHANGED faults) \/ Fault
        /\ Undo(c, p.wrote)
        /\ UNCHANGED <<vault, config, remote, keys, writes, calls, known, cut>>

CommitValue(c, n) ==
    LET p == call[c]
    IN  /\ At(c, "values") /\ n \in p.left
        /\ vault[c][n] = p.read[n]
        /\ vault' = [vault EXCEPT ![c][n] = p.secrets[n]]
        /\ known' = [known EXCEPT ![c] = @ \cup {p.secrets[n]}]
        /\ \/ p.left = {n} /\ Done(c) /\ UNCHANGED faults
           \/ /\ p.left # {n}
              /\ call' = [call EXCEPT ![c].left = @ \ {n}, ![c].wrote = @ \cup {n}]
              /\ UNCHANGED <<cut, faults>>
           \/ Fault /\ Undo(c, p.wrote \cup {n}) /\ UNCHANGED cut
        /\ UNCHANGED <<config, remote, keys, writes, calls>>

\* rollback_files: the config goes back if it is still the new one, or that fails.
UndoConfig(c) ==
    LET p == call[c]
    IN  /\ At(c, "undo")
        /\ \/ /\ config[c] = After(p)
              /\ config' = [config EXCEPT ![c] = p.before]
              /\ UNCHANGED <<cut, faults>>
           \/ /\ (config[c] # After(p) /\ UNCHANGED faults) \/ Fault
              /\ cut' = cut \cup {c}
              /\ UNCHANGED config
        /\ IF p.wrote = {} THEN End(c) ELSE Go(c, "undoValues")
        /\ UNCHANGED <<vault, remote, keys, writes, calls, known>>

\* rollback_secrets: a value that is still the new one goes back, or that fails.
UndoValue(c, n) ==
    LET p == call[c]
    IN  /\ At(c, "undoValues") /\ n \in p.wrote
        /\ \/ /\ vault[c][n] = p.secrets[n]
              /\ vault' = [vault EXCEPT ![c][n] = p.read[n]]
              /\ UNCHANGED faults
           \/ /\ (vault[c][n] # p.secrets[n] /\ UNCHANGED faults) \/ Fault
              /\ UNCHANGED vault
        /\ IF p.wrote = {n} THEN End(c) ELSE call' = [call EXCEPT ![c].wrote = @ \ {n}]
        /\ UNCHANGED <<config, remote, keys, writes, calls, known, cut>>

\* The process dies; what it has written stays.
Die(c) ==
    /\ ~At(c, "idle")
    /\ Fault
    /\ cut' = IF call[c].pc \in {"values", "undo"} THEN cut \cup {c} ELSE cut
    /\ End(c)
    /\ UNCHANGED <<vault, config, remote, keys, writes, calls, known>>

-----------------------------------------------------------------------------
Next ==
    \/ \E c \in Checkouts : \E n \in Names : Store(c, n) \/ Remove(c, n)
    \/ \E c, d \in Checkouts : ShareConfig(c, d)
    \/ \E c \in Checkouts :
        \/ FindKey(c)
        \/ MakeKey(c)
        \/ Push(c)
        \/ Send(c)
        \/ CheckNames(c)
        \/ \E force \in BOOLEAN : Pull(c, force)
        \/ Decrypt(c)
        \/ Undecryptable(c)
        \/ CommitConfig(c)
        \/ UndoConfig(c)
        \/ \E n \in Names : RefuseValue(c, n) \/ CommitValue(c, n) \/ UndoValue(c, n)
        \/ Die(c)

Spec == Init /\ [][Next]_vars

-----------------------------------------------------------------------------
(* Properties.                                                               *)

\* The type invariant of the sync.
TypeOK ==
    /\ vault \in [Checkouts -> [Names -> 0..MaxWrites]]
    /\ \A c \in Checkouts : config[c].version \in 0..remote.version /\ config[c].blocked \in BOOLEAN
    /\ remote.version \in 0..MaxCalls
    /\ \A c \in Checkouts : call[c].pc \in
            {"idle", "key", "makeKey", "crypt", "receipt", "commit", "values", "undo", "undoValues"}
    /\ cut \subseteq Checkouts /\ faults \in 0..MaxFaults

\* "would permit a later push to destructively omit the skipped remote values":
\* a push replaces or omits only values that its checkout has held, unless a
\* commit of the checkout was cut short.
PushKeeps ==
    \A c \in Checkouts \ cut : Send(c) /\ remote' # remote =>
        \A n \in Held(remote.secrets) : remote.secrets[n] \in known[c]

\* The same of every checkout, which a pull that dies between .phantom.toml and
\* the values makes false.
PushAlwaysKeeps ==
    \A c \in Checkouts : Send(c) /\ remote' # remote =>
        \A n \in Held(remote.secrets) : remote.secrets[n] \in known[c]

\* A pull without force takes no local value away, none takes one away that was
\* stored after the pull looked ("a concurrent change is drift"), and its
\* rollback takes back only what the pull itself has put there.
PullKeeps ==
    \A c \in Checkouts : \A n \in Held(vault[c]) :
        LET p == call[c]
        IN  call'[c] # p /\ vault'[c][n] # vault[c][n] =>
                \/ p.force /\ vault[c][n] = p.read[n]
                \/ n \in p.wrote /\ vault[c][n] = p.secrets[n] /\ vault'[c][n] = p.read[n]

\* No sync replaces what nobody looked at, in the cloud or in a vault.
NothingUnseenIsReplaced == [][PushKeeps /\ PullKeeps]_vars

\* A checkout that records a version, and is not just about to write its values
\* or to take it back, has held everything of that version, unless a commit was
\* cut short.
RecordedMeansHeld ==
    \A c \in Checkouts \ cut :
        config[c].version = remote.version /\ ~config[c].blocked
            /\ call[c].pc \notin {"values", "undo"} =>
                Values(remote.secrets) \subseteq known[c]

\* "replacing it would make vaults already pushed with it undecryptable": the
\* keychain of some checkout can still open what is in the cloud.
PushedIsDecryptable ==
    remote.version > 0 => \E k \in DOMAIN keys : keys[k] = remote.key

\* What a checkout may rely on, wherever the others are.
CloudSafe == TypeOK /\ PushedIsDecryptable
=============================================================================
