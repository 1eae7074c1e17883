------------------------------ MODULE TeamVault ------------------------------
(***************************************************************************)
(* The shared vault of a team: phantom team key-publish, vault-push,        *)
(* vault-pull and rotate-vault against the team routes.  Each device has a  *)
(* key pair in its keychain, whose public half is registered for its user;  *)
(* a push encrypts the vault to the keys of the roster it has read.  Every  *)
(* request and every statement of a route is a step of its own, and a       *)
(* command may die, or lose an answer, between any two of them.             *)
(*                                                                          *)
(* Contents and key pairs are numbered as they are made; one number stands  *)
(* for all the values of a vault.                                           *)
(***************************************************************************)
EXTENDS Naturals, FiniteSets

CONSTANTS
    Users,
    Founder,        \* the user who created the team
    Devices,
    UserOf,         \* the user of a device
    Procs,          \* commands that may run at the same time
    DeviceOf,       \* the device a command runs on
    MaxWrites,      \* bound: values stored by users
    MaxCalls        \* bound: commands

\* What the constants have to satisfy.
TeamAssumption ==
    /\ Founder \in Users
    /\ UserOf \in [Devices -> Users] /\ DeviceOf \in [Procs -> Devices]
    /\ IsFiniteSet(Procs)
    /\ MaxWrites \in Nat /\ MaxCalls \in Nat

VARIABLES
    members,    \* team_members
    registered, \* their public_key, 0 without
    shared,     \* team_vault_blobs: contents, version and key_shares
    keychain,   \* team_pubkey and team_seckey of each device, 0 without
    local,      \* the contents of the vault of each device, 0 without
    call,       \* the command a process runs
    made,       \* key pairs generated
    writes, calls,
    told        \* versions that pushes were told they had written

vars == <<members, registered, shared, keychain, local, call, made, writes, calls, told>>

NoKeys == [pub |-> 0, sec |-> 0]

NoShares == [u \in Users |-> 0]

NoCall == [op |-> "none", pc |-> "idle", keys |-> NoKeys, contents |-> 0, before |-> 0,
           version |-> 0, roster |-> NoShares]

Init ==
    /\ members = {Founder}
    /\ registered = NoShares
    /\ shared = [contents |-> 0, version |-> 0, shares |-> NoShares]
    /\ keychain = [d \in Devices |-> NoKeys]
    /\ local = [d \in Devices |-> 0]
    /\ call = [p \in Procs |-> NoCall]
    /\ made = 0
    /\ writes = 0
    /\ calls = 0
    /\ told = {}

Ops == {"publish", "push", "pull", "rotate"}

At(p, pc) == call[p].pc = pc

Go(p, pc) == call' = [call EXCEPT ![p].pc = pc]

End(p) == call' = [call EXCEPT ![p] = NoCall]

Caller(p) == UserOf[DeviceOf[p]]

remote == <<members, registered, shared>>

-----------------------------------------------------------------------------
\* A value is stored in the vault of a device.
Store(d) ==
    /\ writes < MaxWrites
    /\ writes' = writes + 1
    /\ local' = [local EXCEPT ![d] = writes + 1]
    /\ UNCHANGED <<remote, keychain, call, made, calls, told>>

\* The members route: somebody is invited.
Invite(u) ==
    /\ u \notin members
    /\ members' = members \cup {u}
    /\ UNCHANGED <<registered, shared, keychain, local, call, made, writes, calls, told>>

Begin(p, op) ==
    /\ At(p, "idle") /\ calls < MaxCalls
    /\ calls' = calls + 1
    /\ call' = [call EXCEPT ![p] = [NoCall EXCEPT !.op = op, !.pc = "readPub"]]
    /\ UNCHANGED <<remote, keychain, local, made, writes, told>>

\* The command is interrupted, a request fails or its answer is lost.
Fail(p) ==
    /\ ~At(p, "idle")
    /\ End(p)
    /\ UNCHANGED <<remote, keychain, local, made, writes, calls, told>>

-----------------------------------------------------------------------------
(* get_or_create_team_keypair                                                *)

\* What a command does first with its key pair.
AfterKeys(p) == IF call[p].op \in {"publish", "push"} THEN "register" ELSE "fetch"

ReadPub(p) ==
    /\ At(p, "readPub")
    /\ call' = [call EXCEPT ![p].pc = "readSec", ![p].keys.pub = keychain[DeviceOf[p]].pub]
    /\ UNCHANGED <<remote, keychain, local, made, writes, calls, told>>

\* Mutant: a private key that cannot be read counts as one that is missing.
ReadSecUnreadable(p) ==
    \E sec \in {keychain[DeviceOf[p]].sec, 0} :
        /\ At(p, "readSec")
        /\ IF call[p].keys.pub # 0 /\ sec # 0
           THEN call' = [call EXCEPT ![p].pc = AfterKeys(p), ![p].keys.sec = sec] /\ UNCHANGED made
           ELSE /\ made' = made + 1
                /\ call' = [call EXCEPT ![p].pc = "writeSec",
                                        ![p].keys = [pub |-> made + 1, sec |-> made + 1]]
        /\ UNCHANGED <<remote, keychain, local, writes, calls, told>>

\* Both entries are there, or a new pair is generated; any other failure of the
\* keychain is an error (Fail).  Nothing compares the two halves.
ReadSec(p) ==
    LET sec == keychain[DeviceOf[p]].sec
    IN  /\ At(p, "readSec")
        /\ IF call[p].keys.pub # 0 /\ sec # 0
           THEN call' = [call EXCEPT ![p].pc = AfterKeys(p), ![p].keys.sec = sec] /\ UNCHANGED made
           ELSE /\ made' = made + 1
                /\ call' = [call EXCEPT ![p].pc = "writeSec",
                                        ![p].keys = [pub |-> made + 1, sec |-> made + 1]]
        /\ UNCHANGED <<remote, keychain, local, writes, calls, told>>

\* The private key is written first.
WriteSec(p) ==
    /\ At(p, "writeSec")
    /\ keychain' = [keychain EXCEPT ![DeviceOf[p]].sec = call[p].keys.sec]
    /\ Go(p, "writePub")
    /\ UNCHANGED <<remote, local, made, writes, calls, told>>

WritePub(p) ==
    /\ At(p, "writePub")
    /\ keychain' = [keychain EXCEPT ![DeviceOf[p]].pub = call[p].keys.pub]
    /\ Go(p, AfterKeys(p))
    /\ UNCHANGED <<remote, local, made, writes, calls, told>>

-----------------------------------------------------------------------------
(* The requests.  A route refuses who is not a member.                       *)

\* The key route: the caller's key is replaced, whatever it was.  A push has
\* read the values of its vault before it registers, and needs some.
Register(p) ==
    LET n == call[p]
    IN  /\ At(p, "register")
        /\ IF Caller(p) \in members /\ (n.op = "push" => local[DeviceOf[p]] # 0)
           THEN /\ registered' = [registered EXCEPT ![Caller(p)] = n.keys.pub]
                /\ call' = [call EXCEPT ![p] = CASE n.op = "publish" -> NoCall
                              [] n.op = "push" -> [n EXCEPT !.pc = "roster",
                                                            !.contents = local[DeviceOf[p]]]
                              [] OTHER -> [n EXCEPT !.pc = "roster"]]
           ELSE End(p) /\ UNCHANGED registered
        /\ UNCHANGED <<members, shared, keychain, local, made, writes, calls, told>>

\* Mutant: a rotation looks up the version again before it pushes.
RosterWithVersion(p) ==
    /\ At(p, "roster")
    /\ call' = [call EXCEPT ![p].roster = registered, ![p].version = shared.version,
                            ![p].pc = IF call[p].op = "push" THEN "version" ELSE "cover"]
    /\ UNCHANGED <<remote, keychain, local, made, writes, calls, told>>

\* The roster: the keys that the vault's key is wrapped for.
Roster(p) ==
    /\ At(p, "roster")
    /\ call' = [call EXCEPT ![p].roster = registered,
                            ![p].pc = IF call[p].op = "push" THEN "version" ELSE "cover"]
    /\ UNCHANGED <<remote, keychain, local, made, writes, calls, told>>

\* GET of the vault as a member without a key, or without a share, gets it.
Readable(p) ==
    /\ Caller(p) \in members /\ registered[Caller(p)] # 0
    /\ shared.version > 0 => shared.shares[Caller(p)] # 0

\* A push asks for the version it is about to replace.
Version(p) ==
    /\ At(p, "version")
    /\ IF Readable(p)
       THEN call' = [call EXCEPT ![p].version = shared.version, ![p].pc = "cover"]
       ELSE End(p)
    /\ UNCHANGED <<remote, keychain, local, made, writes, calls, told>>

\* pull_for_project: contents and version come together, and the share opens
\* with the private key it was wrapped for.
Fetch(p) ==
    LET n == call[p]
    IN  /\ At(p, "fetch")
        /\ IF Readable(p) /\ shared.version > 0 /\ shared.shares[Caller(p)] = n.keys.sec
           THEN call' = [call EXCEPT ![p] = [n EXCEPT !.contents = shared.contents,
                            !.version = shared.version,
                            !.pc = IF n.op = "rotate" THEN "register" ELSE "compare"]]
           ELSE End(p)
        /\ UNCHANGED <<remote, keychain, local, made, writes, calls, told>>

-----------------------------------------------------------------------------
(* The POST of a vault.                                                      *)

Covered(shares) == {u \in Users : shares[u] # 0}

\* The shares must be those of exactly the members with a key; keys are not
\* compared.
Cover(p) ==
    /\ At(p, "cover")
    /\ IF Caller(p) \in members /\ Covered(call[p].roster) = Covered(registered)
       THEN Go(p, "occ") ELSE End(p)
    /\ UNCHANGED <<remote, keychain, local, made, writes, calls, told>>

\* The version is read and compared.
CheckVersion(p) ==
    /\ At(p, "occ")
    /\ IF shared.version = call[p].version THEN Go(p, "write") ELSE End(p)
    /\ UNCHANGED <<remote, keychain, local, made, writes, calls, told>>

\* The update of the expected version, or the insert of the first: it has no
\* effect if another push came in between.
Write(p) ==
    LET n == call[p]
        wins == shared.version = n.version
    IN  /\ At(p, "write")
        /\ shared' = IF wins THEN [contents |-> n.contents, version |-> n.version + 1,
                                   shares |-> n.roster]
                     ELSE shared
        /\ told' = IF wins THEN told \cup {[by |-> p, version |-> n.version + 1]} ELSE told
        /\ End(p)
        /\ UNCHANGED <<members, registered, keychain, local, made, writes, calls>>

-----------------------------------------------------------------------------
(* apply_team_vault_pull_transaction                                         *)

\* The local values are read; the rotation gate may refuse to change them
\* (Fail).
Compare(p) ==
    /\ At(p, "compare")
    /\ call' = [call EXCEPT ![p].pc = "apply", ![p].before = local[DeviceOf[p]]]
    /\ UNCHANGED <<remote, keychain, local, made, writes, calls, told>>

\* commit_init (see InitTransaction) replaces them if they are unchanged.
Apply(p) ==
    LET d == DeviceOf[p]
    IN  /\ At(p, "apply")
        /\ local' = IF local[d] = call[p].before
                    THEN [local EXCEPT ![d] = call[p].contents] ELSE local
        /\ End(p)
        /\ UNCHANGED <<remote, keychain, made, writes, calls, told>>

-----------------------------------------------------------------------------
Next ==
    \/ \E d \in Devices : Store(d)
    \/ \E u \in Users : Invite(u)
    \/ \E p \in Procs :
        \/ \E op \in Ops : Begin(p, op)
        \/ ReadPub(p) \/ ReadSec(p) \/ WriteSec(p) \/ WritePub(p)
        \/ Register(p) \/ Roster(p) \/ Version(p) \/ Fetch(p)
        \/ Cover(p) \/ CheckVersion(p) \/ Write(p)
        \/ Compare(p) \/ Apply(p)
        \/ Fail(p)

Spec == Init /\ [][Next]_vars

-----------------------------------------------------------------------------
(* Properties.                                                               *)

\* The type invariant of the team.
TypeOK ==
    /\ members \subseteq Users
    /\ registered \in [Users -> 0..made]
    /\ shared.contents \in 0..writes /\ shared.version \in 0..MaxCalls
    /\ \A d \in Devices : {keychain[d].pub, keychain[d].sec} \subseteq 0..made
    /\ local \in [Devices -> 0..writes]

\* "generating here would overwrite the private key that existing team vault key
\* shares are encrypted to": every share opens on a device of its user.
SharesOpen ==
    \A u \in Users : shared.shares[u] # 0 =>
        \E d \in Devices : UserOf[d] = u /\ keychain[d].sec = shared.shares[u]

\* Optimistic concurrency: two pushes are never told the same version, and the
\* last one told is the one that is stored.
VersionsAreDistinct ==
    /\ \A x, y \in told : x.version = y.version => x = y
    /\ \A x \in told : x.version <= shared.version

\* What the members of a team may rely on.
TeamSafe == TypeOK /\ SharesOpen /\ VersionsAreDistinct

\* A step that ends the POST of p.
Writes(p) == At(p, "write") /\ At(p, "idle")'

\* "do not pull again before pushing (TOCTOU: a concurrent push would be
\* clobbered)": a rotation leaves the contents of the version it replaces.
RotationKeeps ==
    \A p \in Procs : Writes(p) /\ call[p].op = "rotate" /\ shared' # shared =>
        shared'.contents = shared.contents

\* A pull never takes a value away that was stored after it looked.
PullKeeps ==
    \A p \in Procs : At(p, "apply") /\ At(p, "idle")' /\ local' # local =>
        local[DeviceOf[p]] = call[p].before

\* route.ts: "Pull, merge, and push again": a push replaces contents that its
\* device has held.
PushSawWhatItReplaces ==
    \A p \in Procs : Writes(p) /\ call[p].op = "push" /\ shared' # shared =>
        shared.contents \in {0, call[p].contents}

\* route.ts: "Server validates that wrappedKeys covers every team member that has
\* a public_key registered": when a push is stored, all of them have a share.
EveryKeyIsCovered ==
    \A p \in Procs : Writes(p) /\ shared' # shared =>
        Covered(registered) \subseteq Covered(shared'.shares)
=============================================================================
