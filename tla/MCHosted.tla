------------------------------ MODULE MCHosted ------------------------------
(***************************************************************************)
(* The hosted service for TLC, with the commands that talk to it: billing    *)
(* events, device login, cloud sync, team vaults and the npm wrapper, which  *)
(* installs the released binary.                                             *)
(*                                                                           *)
(* As in MCRecords a behaviour has one scenario, in which one component      *)
(* acts.  Device login is the module this one extends, so LoginSafe is       *)
(* checked as it is proved; the other components are instances, and so are   *)
(* two logins at a time.                                                     *)
(***************************************************************************)
EXTENDS DeviceLogin, TLC

CONSTANTS
    Scenarios,
    Pair,       \* two actors that a scenario does not tell apart
    NoKey

VARIABLES
    scenario,
    done, user, binding, cursor, work, acked, crashes,
    now2, row2, cli2, attempts2, polls2, approval2, bearers2, repeats2,
    vault, config, remote, keys, call, writes, calls, known, cut, faults,
    members, registered, shared, keychain, local, command, made, stored, commands, told,
    lock, cache, pc, todo, result, deaths, suspends, last, displaced

billing == <<done, user, binding, cursor, work, acked, crashes>>
logins == <<now2, row2, cli2, attempts2, polls2, approval2, bearers2, repeats2>>
cloud == <<vault, config, remote, keys, call, writes, calls, known, cut, faults>>
team == <<members, registered, shared, keychain, local, command, made, stored, commands, told>>
install == <<lock, cache, pc, todo, result, deaths, suspends, last, displaced>>

\* A Pair are billing's deliveries, the codes of the two logins, the users of the
\* one login, the checkouts of one machine and the wrappers of one version.
PairSymmetry == Permutations(Pair)

-----------------------------------------------------------------------------
(* The scenarios.                                                            *)

Event(id, type, created, sub, plan, expires) ==
    [id |-> id, type |-> type, created |-> created, user |-> "u1", sub |-> sub,
     plan |-> plan, expires |-> expires]

\* A first subscription with an early activation, a tie, an update that ends the
\* paid plan before a payment fails, and a late deletion, and a second one bought
\* before the first was deleted; two deliveries at a time, of which one may die.
Billing == INSTANCE BillingEvents WITH
    Users <- {"u1"}, Subs <- {"s1", "s2"}, Workers <- Pair, MaxCrashes <- 1,
    Events <- {Event(1, "updated", 1, "s1", "pro", 7), Event(2, "checkout", 2, "s1", "pro", 0),
               Event(3, "updated", 2, "s1", "free", 8), Event(4, "failed", 3, "s1", "pro", 5),
               Event(5, "checkout", 4, "s2", "pro", 0), Event(6, "deleted", 5, "s1", "free", 0),
               Event(7, "updated", 6, "s2", "pro", 9)}

\* Hosted.cfg gives one login whose polls reach the server more than once.
OneAddress == [d \in Codes |-> "address"]

\* Two logins from one address that may have one pending code, two browsers; every
\* answer reaches the browser, unlike in Hosted.cfg's login.
Logins == INSTANCE DeviceLogin WITH
    now <- now2, row <- row2, cli <- cli2, attempts <- attempts2, polls <- polls2,
    approval <- approval2, bearers <- bearers2, repeats <- repeats2,
    Codes <- Pair, Users <- {"u1", "u2"}, Client <- [d \in Pair |-> "address"],
    CodeTTL <- 1, TokenTTL <- 2, MaxPending <- 1, MaxAttempts <- 2, MaxTime <- 2, MaxRepeats <- 0,
    MaxUnsure <- 0

\* Two checkouts on one machine, which has the key; one thing may fail or die.
OneMachine == INSTANCE CloudSync WITH
    Checkouts <- Pair, Names <- {"A", "B"}, MaxWrites <- 2, MaxCalls <- 3, MaxFaults <- 1,
    Keychain <- [c \in Pair |-> "laptop"], KeysFrom <- [k \in {"laptop"} |-> "key"],
    ConfigInGit <- FALSE

\* Two machines that share .phantom.toml; the second has no key yet.
TwoMachines == INSTANCE CloudSync WITH
    Checkouts <- {"c1", "c2"}, Names <- {"A"}, MaxWrites <- 2, MaxCalls <- 3, MaxFaults <- 0,
    Keychain <- ("c1" :> "laptop") @@ ("c2" :> "server"),
    KeysFrom <- ("laptop" :> "key") @@ ("server" :> NoKey),
    ConfigInGit <- TRUE

\* Two members with a device each, the second still to be invited.
Team == INSTANCE TeamVault WITH
    call <- command, writes <- stored, calls <- commands,
    Users <- {"u1", "u2"}, Founder <- "u1", Devices <- {"d1", "d2"},
    UserOf <- ("d1" :> "u1") @@ ("d2" :> "u2"),
    Procs <- {"p1", "p2"}, DeviceOf <- ("p1" :> "d1") @@ ("p2" :> "d2"),
    MaxWrites <- 2, MaxCalls <- 4

\* Wrappers of two versions, of which two invocations are killed, so that the
\* last one recovers from a recovery, or two find the same stale lock.
Installs == INSTANCE InstallCache WITH
    Procs <- Pair \cup {"other"}, Versions <- {"v1", "v2"},
    Version <- [p \in Pair |-> "v1"] @@ ("other" :> "v2"),
    MaxDeaths <- 2, MaxSuspends <- 0

\* Two invocations, one of which may sleep until its lock is stale.
Suspended == INSTANCE InstallCache WITH
    Procs <- {"p1", "p2"}, Versions <- {"v1", "v2"},
    Version <- ("p1" :> "v1") @@ ("p2" :> "v2"),
    MaxDeaths <- 1, MaxSuspends <- 1

LoginScenarios == {"logins", "repeated"}
CloudScenarios == {"one machine", "two machines"}
InstallScenarios == {"installs", "suspended"}

ASSUME Scenarios \subseteq
    {"billing", "team"} \cup LoginScenarios \cup CloudScenarios \cup InstallScenarios

ASSUME /\ Billing!BillingAssumption /\ DeviceAssumption /\ Logins!DeviceAssumption
       /\ OneMachine!CloudAssumption /\ TwoMachines!CloudAssumption
       /\ Team!TeamAssumption
       /\ Installs!CacheAssumption /\ Suspended!CacheAssumption

-----------------------------------------------------------------------------
(* The specification.                                                        *)

\* The value of the variables of an instance that is not in the scenario.  The
\* login that this module extends rests in its initial state.
Absent == "absent"

BillingInit ==
    IF scenario = "billing" THEN Billing!Init
    ELSE /\ done = Absent /\ user = Absent /\ binding = Absent /\ cursor = Absent
         /\ work = Absent /\ acked = Absent /\ crashes = Absent

LoginInit ==
    IF scenario = "logins" THEN Logins!Init
    ELSE /\ now2 = Absent /\ row2 = Absent /\ cli2 = Absent /\ attempts2 = Absent
         /\ polls2 = Absent /\ approval2 = Absent /\ bearers2 = Absent /\ repeats2 = Absent

CloudInit ==
    CASE scenario = "one machine" -> OneMachine!Init
      [] scenario = "two machines" -> TwoMachines!Init
      [] OTHER ->
            /\ vault = Absent /\ config = Absent /\ remote = Absent /\ keys = Absent
            /\ call = Absent /\ writes = Absent /\ calls = Absent /\ known = Absent
            /\ cut = Absent /\ faults = Absent

TeamInit ==
    IF scenario = "team" THEN Team!Init
    ELSE /\ members = Absent /\ registered = Absent /\ shared = Absent /\ keychain = Absent
         /\ local = Absent /\ command = Absent /\ made = Absent /\ stored = Absent
         /\ commands = Absent /\ told = Absent

InstallInit ==
    CASE scenario = "installs" -> Installs!Init
      [] scenario = "suspended" -> Suspended!Init
      [] OTHER ->
            /\ lock = Absent /\ cache = Absent /\ pc = Absent /\ todo = Absent
            /\ result = Absent /\ deaths = Absent /\ suspends = Absent /\ last = Absent
            /\ displaced = Absent

MCInit ==
    /\ scenario \in Scenarios
    /\ Init /\ BillingInit /\ LoginInit /\ CloudInit /\ TeamInit /\ InstallInit

Bills ==
    /\ scenario = "billing" /\ Billing!Next
    /\ UNCHANGED <<scenario, vars, logins, cloud, team, install>>

LogsInOnce ==
    /\ scenario = "repeated" /\ Next
    /\ UNCHANGED <<scenario, billing, logins, cloud, team, install>>

LogsInTwice ==
    /\ scenario = "logins" /\ Logins!Next
    /\ UNCHANGED <<scenario, vars, billing, cloud, team, install>>

Syncs ==
    /\ \/ scenario = "one machine" /\ OneMachine!Next
       \/ scenario = "two machines" /\ TwoMachines!Next
    /\ UNCHANGED <<scenario, vars, billing, logins, team, install>>

Shares ==
    /\ scenario = "team" /\ Team!Next
    /\ UNCHANGED <<scenario, vars, billing, logins, cloud, install>>

InstallsBinary ==
    /\ \/ scenario = "installs" /\ Installs!Next
       \/ scenario = "suspended" /\ Suspended!Next
    /\ UNCHANGED <<scenario, vars, billing, logins, cloud, team>>

MCVars == <<scenario, vars, billing, logins, cloud, team, install>>

\* A login ends and so does a wrapper, and the bounds end the use of a cloud vault.
Rests ==
    /\ scenario \in LoginScenarios \cup CloudScenarios \cup InstallScenarios \cup {"team"}
    /\ UNCHANGED MCVars

MCNext == Bills \/ LogsInOnce \/ LogsInTwice \/ Syncs \/ Shares \/ InstallsBinary \/ Rests

MCSpec == MCInit /\ [][MCNext]_MCVars

-----------------------------------------------------------------------------
(* Properties, beside LoginSafe of DeviceLogin: each in its scenarios.       *)

\* BillingEvents: whatever the order, the repetitions and the crashes, what was
\* processed has made of a user what it says in its order, up to the plan of an
\* update that a failed payment overtook.
\* InstallCache: whichever wrappers are killed, in an upgrade or in a recovery,
\* the next recovery ends with the version that was completed last, unless a
\* lock was taken from a live one.
Converges ==
    CASE scenario = "billing" -> Billing!TypeOK /\ Billing!Converges
      [] scenario = "installs" -> Installs!InstallSafe
      [] scenario = "suspended" -> Suspended!InstallSafe
      [] OTHER -> TRUE

\* CloudSync: a checkout has held all of the version it records, and a keychain
\* can open what is in the cloud.  DeviceLogin with two logins at a time: one
\* bearer per device code, that of the user who was told of it or warned, which
\* without repeated polls outlives its device code.
ServiceSafe ==
    CASE scenario = "one machine" -> OneMachine!CloudSafe /\ OneMachine!RecordedMeansHeld
      [] scenario = "two machines" -> TwoMachines!CloudSafe
      [] scenario = "logins" -> Logins!LoginSafe /\ Logins!BearerOutlivesCode
      [] OTHER -> TRUE

\* TeamVault: every share opens on a device of its user, and no two pushes are
\* told that they wrote the same version.
TeamSafe == scenario = "team" => Team!TeamSafe

\* CloudSync: a push replaces only what its checkout has held, and a pull only
\* what it was told to and has looked at.  TeamVault: a rotation leaves the
\* contents of the version it replaces.
NothingUnseenIsReplaced ==
    [][CASE scenario = "one machine" -> OneMachine!PushKeeps /\ OneMachine!PullKeeps
         [] scenario = "two machines" -> TwoMachines!PullKeeps
         [] scenario = "team" -> Team!RotationKeeps /\ Team!PullKeeps
         [] OTHER -> TRUE]_MCVars
=============================================================================
