# Phantom Secrets in TLA+

Phantom keeps plaintext secrets out of a project: dotenv files hold placeholder
tokens, the values live in a vault, and a local proxy puts the value in the
place of the token when a request leaves the machine.  This directory holds
TLA+ modules translated from the repository's source, TLC configurations that
check them on small instances, and TLAPS proofs for instances of any size.

## 1. Inventory

The program is a Rust workspace (`src/crates`), with a Next.js service
(`src/apps/web`), npm wrappers and installers around it.

| Component | State it keeps | Operations | Interacts with | What makes it correct |
|---|---|---|---|---|
| workspace apply (`phantom-workspace/transaction.rs`, `phantom-cli/commands/workspace.rs`) | workspace files, encrypted write-ahead journal, vault entries | apply, recover, roll back, clear | request store, vault, two advisory locks | no secret is lost, the recorded outcome is true, a foreign edit is replaced only while the journal holds it |
| request store (`phantom-core/workspace_request.rs`) | one authenticated record per request | create, status, claim, complete, fail, roll back | CLI, MCP server | one claim, final outcomes, bounded pending records |
| project transaction lock (`phantom-vault/transaction_lock.rs`) | shard mutexes and their counts in a process, two lock files per project | acquire one or a pair with a deadline, nest, release | every command that writes vault and files | one holder per project, old releases included; no circular wait |
| vault init transaction (`phantom-vault/init_transaction.rs`) | project files, vault entries, receipts in memory | review, commit, copy with protection, roll back | vault, dotenv, project lock | no dotenv with tokens whose values are gone; "restored" is true |
| keychain vault (`phantom-vault/keychain.rs`) | credentials, index, metadata and verdict sidecars | store, delete, swap, metadata, verdict, migration of old entries | project lock, validation | a failed call is undone, a reader finds the last value |
| file vault (`phantom-vault/file.rs`) | one encrypted file, two lock files, a plaintext vault of an old release | load, change, save, move the plaintext vault | project lock, exact file effects | what the calls account for is on disk, the power failing or not |
| exact file effects (`phantom-core/fs/anchored.rs`) | a file, its staging file, a domain lock | read, replace, remove | every durable record | what is replaced is what was read; the outcome told is true |
| dotenv files (`phantom-core/dotenv.rs`) | the text of a file | parse, rewrite, append, remove, make the example | init, add, remove, env | only the spans meant are changed; no credential in the example |
| Linux migration (`phantom-vault/keychain.rs`) | keyutils, Secret Service, two markers, two sentinels | migrate, resume, open, call | every vault call | the chosen store is complete and the choice is final |
| MCP approvals (`phantom-core/mcp_approval.rs`) | list of approval records | request, approve, consume, prune | MCP server, CLI | an approval is used once, for the arguments that were approved |
| proxy (`phantom-proxy/server.rs`) | connections, request slots, memory budget | admit, buffer, forward, stream, shut down | scrubber, limiter, services | no slot or byte leaks; only admitted whole requests leave; a clean end is a complete one |
| response scrubber (`phantom-proxy/response_scrubber.rs`, `interceptor.rs`) | held-back bytes | scrub a chunk, finish, scan a body | proxy | chunking does not matter; no managed value or long run of one gets through |
| rate limiter (`phantom-proxy/rate_limiter.rs`) | sliding windows | record and classify | proxy | no window above its limits |
| broker replay ledger (`phantom-broker/replay_store.rs`, `replay_storage.rs`) | one authenticated snapshot | open, start epoch, reserve, begin use, two-phase completion, revoke | runtime | one permit per operation, over restarts and power loss |
| runtime (`phantom-runtime`) | one running child, three tokens, a durable guard | build, execute, stop | replay ledger | the outcome told is durable and true; a stop stops |
| session journal (`phantom-session`) | phase, pending and completed transitions | intend, complete, recover | broker, runtime, evidence | one walk through the phases, no transition twice |
| evidence (`phantom-evidence`) | log and receipts of a session | append, append once, receipt, assert | session | what was accepted stays readable; receipts follow the log |
| audit log (`phantom-core/audit.rs`) | log, HMAC key, marker, signed head | write, verify | CLI, proxy | unbroken chain, durable acknowledgements, damage is seen |
| cloud sync (`phantom-cli/commands/cloud.rs`, `apps/web` vault routes) | vaults, `.phantom.toml`, versioned blob, cloud key | push, pull | web API, keychain | nothing is replaced unseen |
| team vaults (`commands/team.rs`, `teams_vault.rs`, `apps/web` team routes) | members, public keys, shared blob, key pairs | key-publish, vault-push, vault-pull, rotate-vault | web API, keychain | every share opens; one push per version |
| device login (`phantom-core/auth.rs`, `apps/web/.../auth/device`) | device codes | initiate, approve, poll, authenticate | browser, database | one bearer per code, of the user who approved |
| billing (`apps/web/.../billing/webhook`, migrations) | processed events, plan, subscription binding, cursor | checkout, failed, updated, deleted | payment service | order and repetition do not matter, except for an update that a failed payment overtook |
| npm wrapper (`npm/bin/cli.js`) | lock directory, cached binary and manifest, their backups | take over a stale lock, recover, validate, upgrade | release downloads, direct installer | a death in an upgrade or a recovery costs no working version |
| detection, leak correlation, validation, rotation, CLI, packaging | see section 7 and `PROJECT.json` | | | |

Hard behaviours: crashes between any two durable effects; advisory locks that a
dying process drops; check-then-act across a lock, a database statement or a
request; a wall clock that is read before a lock is taken and can be set back;
foreign programs that take no lock; writes that fail after their rename;
renames that power loss takes back; answers that are lost and calls that
arrive twice; events out of order; clients that leave in the middle of a
response; two locks taken in either order.  `PROJECT.json` lists them line by
line under "hazards".

## 2. Plan

Done, in this order:

1. `WorkspaceApply`, `WorkspaceRequest` with the abstraction `RequestLifecycle`
   that both implement, `McpApproval`; their proofs.
2. The vault: `TransactionLock`, `InitTransaction`, `KeychainVault`,
   `LinuxMigration`, `FileVault`; below it `AnchoredFile`.
3. The durable records: `ReplayLedger`, `SupervisedRun`, `SessionJournal`,
   `EvidenceStore`, `AuditLog`.
4. The proxy: `ProxyServer`, `ResponseScrubber`, `RateLimiter`; the dotenv file
   that feeds it: `Dotenv`.
5. The hosted service: `BillingEvents`, `DeviceLogin`, `CloudSync`, `TeamVault`; the
   wrapper that installs the released binary: `InstallCache`.

6. The proofs of the durable records (`ReplayLedger`, `SessionJournal`), of the init
   transaction, of the proxy and of device login.
7. The proofs of the supervised run, the transaction lock, the Linux migration, the
   exact file effects, the cloud and team commands, the npm wrapper's cache, the
   encrypted file vault, the audit log and the keychain vault.

Left, most valuable first:

- proof: a verified log is the one that was written (`AuditLog`);
- the classification rules (names, prefixes, entropy), workspace discovery, and the
  headers, cookies and event streams the proxy rewrites, as pure algorithms;
- rotation, once a shipped build enables it: the order of provider call, vault write
  and revocation of the old value.

## 3. The modules

### WorkspaceApply

`phantom workspace apply --request <id>`, as a process per terminal.  The
variables and the code:

| Variable | Code |
|---|---|
| `request`, `lapsed` | `WorkspaceRequestState` of the record, and whether `REQUEST_TTL_SECS` have passed |
| `files`, `dirs` | content of each planned target (`before`, `after` and two contents somebody else saves), existence of its parent directory |
| `vault` | each planned entry: `old` (what was there before, or nothing), `secret`, `other` |
| `jphase`, `jimage`, `jshot` | phase, participant payload and file before-images of the journal file |
| `wsLock`, `projLock` | `acquire_workspace_lock`, `acquire_project_transaction_lock` |
| `pc`, `mode`, `k`, `image`, `shot`, `parents`, `made`, `failed`, `why` | what one process holds in memory; lost by `Exit` and `Crash` |
| `env` | disturbances so far, bounded by `MaxDisturbances` |

Each action is the code up to the next durable effect, lock or store call; the
map of definitions to lines is in `PROJECT.json`.  `persist` and file
replacement may fail before or after the rename.  A crash, a failing call, an
edit of a planned file and a write to a planned vault entry can happen between
any two steps.  `apply_setup_plan_inner` looks at the planned files three times: for
each validation of the seal (`Prepare`, `Validate`) and in `capture_snapshot`
(`Capture`), whose bytes are the before-images from then on, whatever they are.

Abstractions.  Sealing, encryption and receipts are left out: a journal that
cannot be authenticated is an error that changes nothing.  The comparison of a
file with its expected image and the rename that replaces it are one step.  The
tokens of two applies of one request differ in the code and are one value
`after` here; it matters only for three processes.  Each nested target has a
parent directory of its own.  The workspace lock blocks; the project lock
gives up after its timeout, so a process that finds it held may end.

### WorkspaceRequest and RequestLifecycle

`WorkspaceRequest` has one action per public function of
`workspace_request.rs`.  They run under an exclusive file lock and are single
steps, but for `create_request`, which reads the clock before it waits for the
lock (`Ask`, then `Create`).  `SetClock` moves the wall clock anywhere.
`CreateFails` is a cleanup cut short.  `RequestLifecycle` is what a caller may
rely on about one request: pending, then claimed at most once, then one final
outcome; a claimed request never expires.

### McpApproval

An effectful MCP tool runs only with a token that `phantom mcp-approve` printed.
Three pieces of code meet in one records file: `require_approval_token` in the
MCP server (`Request`, `Retry`, `Run`), the terminal ceremony (`Review`,
`Confirm`, `Cancel`, `PrintToken`) and the store in `mcp_approval.rs`.  A store
operation is `Acquire` (the lock), `Check` (load and check: `Generate`,
`Consume`, `Inspect`, `Approve`, `Prune`) and `Write`.  What it loaded is in
`staged`, so a writer that ran without the lock would put back stale records.
`WriteUnsynced` is a rename whose directory sync fails, `Abort` an I/O error or
the death of the process.  `Clock` moves the wall clock either way.

| Variable | Code |
|---|---|
| `records` | `~/.phantom/mcp-approvals.jsonl` |
| `lock` | `mcp-approvals.lock` with the process mutex |
| `pc`, `job`, `staged` | one running operation: where it is, its arguments, the records it loaded |
| `announced`, `printed` | nonces on the server's stderr, tokens on the terminal's stdout |
| `reviewed`, `grantedAt`, `effects` | history: confirmed calls, times of approval, effects that ran |

Abstractions.  The argument hash and the token are keyed MACs, so equal only for
equal arguments and never guessed; the hash is the parameters, a token the pair
it authenticates.  A random nonce is one nobody holds.  A missing `expires_at` is
0.  Refusals before the lock (effects disabled, no terminal, malformed
parameters) change nothing and are no steps.  The read-only listings are left
out.  `Init` allows records of the format without summaries, whose tokens may
still be around.

### TransactionLock

`acquire_project_transaction_lock` and its paired form.  `mutex`, `poisoned` and
`refs` are the shard mutexes of each process and the per-thread counts of
`SHARD_OWNERSHIP`; `file` is who holds the stable and the legacy lock file of a
project; `slot` holds a thread's guards.  `TakeShard`/`TakeShardAgain`, then one
`TakeFile` per file in lock-name order; `TimeOut` and `CannotOpen` give back what
was taken; a guard may be dropped in any order, and `Panic` poisons.  Writers of
old releases (`OldTake`, `OldDrop`) know only the legacy file.  The resolution of
paths to projects, and the directory handle a guard retains, are abstract.

### InitTransaction

`commit_init` (behind `init`, `add`, `copy`, `import` and `remove`) as a sequence of
review, lock, snapshots, early files, entries, check of copy sources, last files;
on an error the rollback of files, directories and entries.  A file carries who
wrote it and for what, which is what its anchored identity tells apart; an entry
carries value, metadata and verdict.  `touched` and `receipts` are the undo
information, which is in memory only: `Crash` leaves what was done.  `EditFile`,
`EditEntry` and `ChangeSource` are other programs and other Phantom commands.  The
targets of a phase are taken in any order (the code sorts them by path); file
permissions are left out.

### KeychainVault

A secret in five places: hashed and plain credential, index, metadata, verdict.  A
call (`Store`, `Delete`, `CompareAndSwap`, `SetMetadata`, `Retrieve` with its
migration of an old entry) is the list of its writes with the undo of each; `Succeed`,
`Fail`, `FailUndo`, `FailUnseen` and `Die` take the list one write at a time, where a
failing write may have had its effect.  `NoteVerdict`, `ReadValue` and
`RecordVerdict` are a validation beside the calls.  `allowed` is the history of what a
reader may find.  Sidecars of old releases are taken to be reconciled.

### AnchoredFile

`read_regular`, `replace_if_exact` and `unlink_if_exact`: read, take the lock of the domain,
compare, stage and sync a file, compare again, rename, sync the directory, verify, each
a step.  A read opens the name twice and compares (`ReadFirst`, `ReadSecond`), so `seen`
is half a read.  `store` is the files by inode, `entry` the one under the name, `maybe`
what may be under it when the power fails.  The editor saves in place or by a new file,
removes, changes permissions and clears staging files, and knows of no lock.  `made` and
`read` are history.  The model is the Unix build; access lists of Windows and its outcome
"durability unavailable" are left out, and so are the anchored directories.

### FileVault

The encrypted vault as one value with secrets, metadata and verdicts.  A verdict is the
value that its writer checked; `set_validation_metadata` and the compare-and-swap of
verdicts record any verdict beside the value that is stored, and compare only verdicts.
`beside` is history: the stored value a verdict was recorded beside.  A call takes the
stable lock, then the one of older releases, loads, changes and saves by an exact
effect, which fails, is done and synced, or is done and uncertain.  `migrate_from_json`
is `OpenRead`, `Publish`, `SyncPublished`, `Unlink`, `SyncUnlinked` with `Rollback`.  `maybe`
is the set of directory contents a power failure may bring back, in order or
(`Reorders`) not; `told` the contents the calls account for.

### Dotenv

Operators for the parser and for what is spliced into the spans it finds, on texts over
the characters that have a meaning.  `file` is a text
with its records, as in `DotenvFile`.  A user types it (`Type`), then one command rewrites
it (`Rewrite`).  What is checked is read back by the same parser, so its own reading of a
text is not in question; the spans, escapes, separators and line ends are.  `"T"`, `"S"`
and `"P"` are whole words: a token, a credential, a placeholder.  Names never make an
entry a secret here, and the byte order mark is left out.  The parser is recursive, so
the module is for TLC only.

### LinuxMigration

`vault migrate-linux` and the choice of a store.  `ku` and `ss` are the two stores
with values, index and sentinel; `config` and `data` the two markers.  The
migration is one action per durable write; `Open` and `Call` decide from the
records as the code does, `Call` once more than `Open`.  `Reboot` empties keyutils.
A write that fails ends the migration like a death.

### ReplayLedger

`DurableReplayStore`.  `disk` is the snapshot as processes read it, `synced` what a
loss of power brings back; every operation is lock, read, decide, replace, and may
fail on either side of the rename.  `permits`, `witnesses` and `epoch` are in the
memory of a broker and die with it; `issued`, `answered` and `promised` are
history.  Digests stand for what they are taken of, the MAC is unforgeable, and
sizes are counted in abstract units against `MaxStateSize`.

### SupervisedRun

`SupervisedRuntime::execute` polled branch by branch: `select!` over three tokens,
the timer and the child's exit (`Look`), the kill of the process group, the drop
guard, and the end of the use in the store in two writes.  `Notify` is the waker;
`DropFuture` is a caller that gives up.  The confinement backend is the one
of the crate's tests: the shipped one refuses every run, so all but `Build` would be
out of reach.

### SessionJournal

`intend`, `complete` and `recover` with the generation the caller last learned.
`Edges` is the closed table of transitions; `Asked` adds two that must be refused.
A write may fail or succeed without its answer; a coordinator may restart with what
the file says.  A transition is its own digest.

### EvidenceStore

`append`, `append_once`, receipts and assertions.  `Replay` folds the log as
`EvidenceSummary` does; `Admissible` is `validate_next`; counters stop at `MaxU64`.  A
record may be torn, and a write that took effect may be reported as failed.  The
bytes and the MACs of a record are taken to hold.

### AuditLog

A writer reads the key, appends marker and event, syncs the log, syncs the directory if it
created the log, and replaces the checkpoint, each a step that may fail; `Die` and
`LosePower` come between any two.  Log, key and checkpoint are entries of one directory
(`dir`), and `maybe` holds what a power failure may leave of it: what was there when it was
last synced, and each state since, with `Reorders` any mix of them.  A writer that finds
the log does not sync its entry, though the writer that created it may have died before
(`SyncLogEntry`).  `Verify` is the
walk of `audit verify`, which looks for the log before it takes the lock.  An HMAC is
the number of its event.  Encrypted contexts, statistics and export are left out.

### ProxyServer

Per client a connection with a request on it (`Receive`, `Admit`, `Collect`, `Send`),
the upstream exchange, and either a buffer (`BufferChunk`, `Reply`) or a streaming
task (`Task`, `ReadFrame`).  `permits` and `budget` are the two semaphores.  `Leave`
and `NoticeGone` are the client's departure and the runtime noticing it; `Shutdown`,
`Drain`, `DrainTimeout`, `Break`, `Stop` the end of the server.  Bodies are numbers of
units.  Header, cookie, link and path rewriting, and TLS, are left out.

### ResponseScrubber

The streaming scrub as operators on sequences of bytes of a small alphabet:
`ExactStage` with its holdback and suppression, `PartialStage` with its runs, and
`ScanStr`; `ScrubStreamChunk` and `FinishStream` are the actions.  The rolling hash
that preselects windows changes no result; event-stream line parsing, headers,
reports and bodies that are not UTF-8 (which get the vault stage on bytes only,
`interceptor.rs:245`) are left out.  The scan is recursive, so the module is for TLC only.

### RateLimiter

`record` with its three windows and the class of the access; `log` is history.  Limits
near 2^64, whose products wrap in a release build, and a limit of zero are not covered.

### BillingEvents

A delivery is one database transaction in steps that may block on a row lock: claim
the event, lock the user, lock the binding, decide, commit; `Crash` rolls it back and
`Redeliver` is the payment service's retry.  Events have a time of creation, and ties.
`Converges` compares each user, at every state, with what the events processed so far say
in their order, and lets the plan differ by the updates that a failed payment overtook:
there the order does matter (section 6).

### DeviceLogin

The row of a code, the CLI's attempts, poll handlers with the row as they read it
(`polls`), and an approval between its read and its write.  `RepeatPoll` is a request
that arrives twice; `Poll` may lose its answer.  An update whose error reaches the handler
may have taken effect: `ApproveError` ("Unable to confirm device approval") approves the
row or not, and `unsure` keeps who was warned so; `PollClaimLost` claims the row and no
answer carries the bearer; an initiation may fail at the CLI with its row made; the mark of
an expired code may be lost.  Rate limits per minute and the terminal ceremony are left out.

### CloudSync

Checkouts with a vault, `.phantom.toml` and a keychain against one versioned blob.
`FindKey` and `MakeKey`, `Push` to `CheckNames`, and `Pull` to `Decrypt` are statements of
the commands; `Send` is the push route with its version check.  Both end in `commit_init`:
`CommitConfig` replaces `.phantom.toml` first, `CommitValue` and `RefuseValue` compare and
swap the values in any order, `UndoConfig` and `UndoValue` roll back, each of which may
fail, and the process may `Die` between any two.  `cut` keeps the checkouts of which a
commit ended between the two files for good.  `ShareConfig` is a commit and a checkout of
`.phantom.toml`.  Values are numbered, so `known` tells what a checkout has ever held.

### TeamVault

`key-publish`, `vault-push`, `vault-pull` and `rotate-vault` request by request,
against the key, members and vault routes statement by statement.  `Fail` is an error,
a death or a lost answer anywhere.  One number stands for all the values of a vault.

### InstallCache

The invocations of the npm wrapper around one cache.  The lock is a directory with an
owner file: `MakeLock` and `WriteOwner` are its two steps, `ReadLock` and `TakeOver` the
look at a stale one and the rename that removes it, which are two calls of the file
system.  `Recover`, `Validate`, `Fetch`, `Replace` to `Verify` are the statements of
`ensureBinary`; the renames and removals of a phase are a list `todo` that `Step` works
off one call at a time, and `Killed` comes between any two.  `last` and `displaced` are
history: the version that was completed last, and whether the lock of a live invocation
was taken from it.  A file is the version it is of.  The transaction file, which no code
reads, the attestation cache and the source marker are left out.

## 4. The runs

| Run | Instance | Shows |
|---|---|---|
| `ApplyOne` | 1 process, 3 files (one in a new directory), 2 secrets, 3 disturbances | `SecretNeverLost`, `AppliedIsApplied`, `RolledBackIsClean`, `EffectsAccountedFor`, `EditsPreserved`, `OverwriteJournaled` |
| `ApplyTwo` | 2 processes, 2 files, 1 secret, 1 disturbance, fairness | `LifecycleKept` (refinement of `RequestLifecycle`), `ApplyTerminates` |
| `Requests` | 3 identifiers, 4 bases in 2 workspaces, limit 2, 2 clients, clock 0..1 | `PendingCapped`, `PendingUnique`, `EachLifecycle` (refinement) |
| `Approvals` | 2 server threads, 1 terminal, 2 nonces, 2 calls, clock 0..1 | `SingleUse`, `RunsWhatWasReviewed`, `UsedInWindow` |
| `Records` | the durable records | `LedgerSafe`, `RecordsSafe`, `EvidenceSafe`, `AuditSafe`, `RunSafe`, `RecordsAreFinal` |
| `Vaults` | the vault side | `NoValueLost`, `OutcomesAreTrue`, `ActsOnWhatWasRead`, `BackendSafe`, `MigrationSafe`, `LockSafe` |
| `Proxy` | the proxy and the dotenv file | `ProxySafe`, `CleanEndIsComplete`, `ScrubSafe`, `LimiterSafe` |
| `Hosted` | the hosted service and the npm wrapper | `Converges`, `LoginSafe`, `ServiceSafe`, `TeamSafe`, `NothingUnseenIsReplaced` |
| `Progress` | seven components under their fairness | `LocksAreReturned`, `RecoverySettles`, `StopIsObeyed`, `ServiceSettles`, `ProxyLetsGo` |
| `RecoveryRace`, `InitLosesValues`, `AuditReset` | see section 6 | disagreements between the code and its documentation |

Scenarios.  `Records`, `Vaults`, `Proxy`, `Hosted` and `Progress` each cover several
components that share no state.  A behaviour picks one scenario, which is one component
with values for its constants; the variables of the others hold `Absent` or stay in
their initial state.  `MCRecords` extends `ReplayLedger`, `MCVaults` extends
`InitTransaction`, `MCProxy` extends `ProxyServer` and `MCHosted` extends `DeviceLogin`:
their configurations give that component its constants, and `LedgerSafe`, `NoValueLost`,
`ProxySafe`, `CleanEndIsComplete` and `LoginSafe` are its own definitions, the ones
section 5 proves.  The other
components are `INSTANCE`s.  TLC so explores the sum of the state spaces, never
their product, and a property of such a run is the conjunction of the component's own
invariants, named in the component's module, in the scenarios in which it is claimed.
Each MC module says in a comment what each of its scenarios is:

| Run | Scenarios and bounds |
|---|---|
| `Records` | `uses`: 2 brokers, 1 lease of 2 uses one at a time, 3 operations, clock over both ends of the lease. `leases`: 2 grants, 2 leases, a store that is nearly full. `keyed`: 2 idempotency keys, 2 grants, 2 leases. `intents`, `results`: 2 coordinators that disagree on an intent or a result. `session`: all phases, 2 faults. `evidence`: 2 grants, a contradictory aggregate, 8 records. `audit`: 2 writers, 3 events, 2 faults, a verifier. `run`: 2 faults and a dropped future |
| `Vaults` | `commit`: 2 transactions, a config file in a new directory, a dotenv, a new and a deleted entry, crashes. `rollback`: rollback faults and an editor. `copy`: 2 copies of an entry that changes. `calls`: every keychain call, 1 fault. `legacy`: 2 old entries, 5 faults. `switch`: 2 clients, reboots, 2 faults. `resume`: 4 deaths. `pairs`: 3 threads in 2 processes, 3 projects of which 2 share a shard. `guards`: 2 guards per thread, an old writer, deadlines, panics. `effects`: a writer and a remover, an edit, a failing call, power failures, 3 inodes. `review`: a writer, 2 edits. `encrypted`: a current and an old client, 4 calls, 1 fault. `plaintext`: the move of a plaintext vault, 4 calls, 2 faults. `reordered`: the same where the power fails and directory changes are reordered |
| `Proxy` | `requests`: 2 clients, 1 slot, a budget of 2, every early return, 3 requests, 2 chunks. `mixed`, `overlap`: 3 bytes, responses of up to 7 in chunks of up to 3, values that begin or overlap each other, both kinds of format. `limits`: 2 secrets, 6 requests, times on and around a window's border. `dotenv`: files of 7 or 8 characters with quotes, backslashes, comments and line ends, with a second entry or an export, and with credentials in values and comments; a token map over 2 names |
| `Hosted` | `billing`: 7 events of 2 subscriptions with a tie and an update of the plan just before a failed payment, 2 deliveries, 1 crash. `logins`: 2 codes of one address, 2 browsers. `repeated`: 1 code, polls that arrive twice, 1 approval that ends in an error. `one machine`: 2 checkouts, 2 names, 2 writes, 3 calls, 1 fault. `two machines`: the same with 1 name and no fault. `team`: 2 members, 2 devices, 4 commands. `installs`: 3 wrappers of 2 versions, 2 killed. `suspended`: 2 wrappers, 1 killed, 1 suspended past the age of a stale lock |
| `Progress` | `commit`, `apply`, `approve` (with a record of the old format), `run`, `billing`, `login`, `proxy` |

Bounds.  Three files make a first, a middle and a last one of each loop; two
secrets make a partial commit and a partial rollback; three disturbances are a
crash, a fault in the recovery that follows, and a foreign write.  Time 0..1
with both time-to-lives 1 reaches expiry, an overdue claim and a clock set back.
Three identifiers exceed the limit of two by one.  In `Approvals` two threads race
for one token and a second request can overwrite an approval.  Two brokers, writers,
coordinators, clients, browsers or machines make every pairwise interleaving; the
generations, uses, budgets and windows are one larger than what fills them.  A
scrubber input of 7 holds a value of 5 with a byte on either side, cut everywhere.

Deadlock is checked in every run but the apply runs, where a request with a final
outcome leaves nothing to do.  In the scenario runs a component that may really come
to an end (a transaction, a login, a response, a rewrite, a budget of bounded calls) has a
`Rests` step for its scenarios only; in the others a state without a step is an error.

Symmetry.  `Requests`, `Approvals`, `Records` (brokers), `Proxy` (clients) and `Hosted`
(the two actors that a scenario does not tell apart: deliveries, codes, users, checkouts
or wrappers) use it; none of these runs checks liveness.

Fairness.  `FairSpec` of `WorkspaceApply` assumes that a started process keeps running
(weak fairness of `Work`) and that a process blocked on the workspace lock gets it if
it is free again and again (strong fairness; the kernel's `flock` queue).
Nothing is assumed of the person: `Confirm` and starting the command have no
fairness in `FairSpec`.  `RerunSpec` adds that the person answers and runs the
command again, as its error messages ask; only `RecoverySettles` needs it.
In `McpApproval` a process that has the storage lock goes on: it runs straight-line
code.  In `InitTransaction` a transaction that has begun goes on.  In `SupervisedRun` the
executor polls a woken task and a cancelled token wakes its waiters; the
child need not exit and the timer need not elapse.  In `BillingEvents` a delivery
that can go on does, and the payment service repeats what is not acknowledged (strong,
because a delivery can be blocked or die again and again).  In `DeviceLogin` the CLI polls
and the server answers; nobody need approve.  In `ProxyServer` the accept loop, the
streaming task and the notice of a closed socket go on; clients need not read or leave,
upstreams need not answer.

Liveness of `Progress` is checked on smaller instances than the safety of the same
components, because TLC explores the fair cycles of the whole graph.

## 5. The proofs

`WorkspaceApplyProofs`, for any number of files and secrets:

- `TypeCorrect`: types and loop bounds, any number of processes.
- `EditsReplacedFromSnapshot`: no rollback and no recovery replaces a file somebody else
  has edited; only an apply whose snapshot holds that very edit does.  Any number of
  processes.
- `EditsKept`: `EditsPreserved`, under `OneProcess`: such an edit is in the unfinished
  journal too.  `ShotInv` says that an apply that writes has its before-images on disk,
  and that none of them is what the apply writes.
- `RequestImplements`: the command implements `RequestLifecycle`, any number of
  processes.
- `SecretsKept`, `OutcomesTrue`, `RollbacksTrue`, `EffectsKept`: `SecretNeverLost`,
  `AppliedIsApplied`, `RolledBackIsClean`, `EffectsAccountedFor`, under `OneProcess`:
  with two processes they are false (section 6).

None of the four safety properties is inductive.  `Inv` strengthens them:
`RequestInv` ties journal phase and request state to what files and vault can
hold; `ImageInv` says no before-image is the secret itself; `ClaimInv` and
`PhaseInv` say what request and journal are at each place of the program;
`EffectInv` and `UndoInv` say how far a forward or a backward loop has come.  The
proof goes action by action; the loops need the fact that an index one lower
adds exactly one element.

`WorkspaceRequestProofs`, for any number of identifiers, bases and clients and
any limit: `RequestTypeCorrect`, `PendingIsCapped`, `PendingIsUnique`,
`LifecycleKept` (every record implements `RequestLifecycle`) and
`RecoveryStaysMarked`.  The first two of the pending theorems rest on
`PendingStep`: a step makes at most one record pending, and then every other
pending record was counted in the limit and compared with the new one.

Its second part is `AnchoredFile`, for any writers and contents and any number of files, edits
and failures:

- `WrittenFilesAreSafe`: `PublishedIsWhole` and `OutcomeIsTrue`.
- `WritersReplaceWhatTheyRead`: `ReplacesWhatWasRead`.

The second speaks of who made a file, which no image shows.  `ReadOf` supplies it: an
inode that a writer has read is not given to another file, so the file under it is the
one that was read.  `LookOf` says that from the last look to the rename only the editor
changes the name, because `GuardOf` keeps the other writers out; `StagedOf` that a staging
file is complete, synced and under no name; `AwayOf` that a replaced file is no longer
under the name after the rename, and cannot come back after the sync.

Its third part is `KeychainVault`, for any names, values, old entries and number of
failures:

- `RestoredIsRestored`: `RestoredMeansRestored`.
- `ValuesAreAccounted`: `ValueIsAccounted`, if nothing is stored, there are no old entries
  or at most one thing fails (`Accountable`).
- `IndexNeverDangles`: `IndexedHasValue`, if nothing is stored or at most one thing fails
  (`Anchored`).

A call is a list of writes of which any may fail and any may be the last, so the invariant
is about the lists.  `Storing`, `Deleting` and `Unmigrating` say in which order the writes to
come are: a store and a migration begin with the new entry and end with the old one, a
deletion takes the name off the index before its credentials, and a migration is undone so
that one of the two entries is always there.  `Left` says what a call can have made of its
name, and `BackAgain` that a place for which no undoing write is left is as it was found.
`RestoredIsRestored` needs only these.  The other two also count failures: until the first,
and always where nothing stores, the two entries of a name agree (`AgreeInv`), so a
deletion cut short between them, which is a failure itself, does not bring up an older
value; a call that could not be undone has seen two.  The hypotheses are needed (section 6).

`McpApprovalProofs`, for any servers, terminals, nonces, calls and windows and
any old records: `ApprovalTypeCorrect`, `ApprovalIsSingleUse`,
`EffectsWereReviewed`, `EffectsInWindow`, `ApprovalsAreKept`.  The properties
speak of effects, which come long after the checks, so `Inv` follows a nonce from
the record to the effect.  `LockInv` and `StageInv`: what a process is about to
write still agrees with the file.  `NonceInv`: a nonce being requested is new, so
no write can bring back a record once `announced`.  `SpentInv`: a consumed nonce
has no record, one runner and no effect yet.  `ReviewInv` and `WindowInv`: an
approved record of the current format carries a confirmed call and the window of
its approval.

`SessionJournalProofs`, for any coordinators, digests, results, last phase and number of
faults: `JournalInv`, and from it `JournalSafety`, `JournalNeverStuck` and
`JournalHistory`.  The walk itself is nearly inductive; two parts are added.
`PhaseAdvances` gives every phase a rank that a completed transition raises, so the
number of completions is bounded by the rank and the limit of the file is out of reach.
`NewIsRecorded` says that a transition answered New is the pending or a completed one,
so none can be New again.

The same module proves `SupervisedRun`, for any number of faults: `RunsAreSafe`
(`RunSafe`) and `RunOutcomesAreTrue` (`OutcomeIsTrue`).  `RunInv` says at each place of
`execute` what the use in the store, the child and the tokens can be, so that what was
seen when the wait ended is still so when the outcome is returned.

`ReplayLedgerProofs`, for any brokers, grants, leases, operations, keys and limits:
`LedgerInv`, and from it `LedgerSafety` and `LedgerOutcomes`.  A loss of power goes back
to `synced`, so everything is said of both files: `Sound` (the records of a file agree
with each other), `Backs` (a file has what was promised to a caller), `Fits` (room for
the restart is kept in hand) and `NeverBehind` (an end of a use that a loss of power
brings back is the one processes see).  `EpochInv` ties the generation of a broker to the files, and
`OnePermitPerOperation` follows what was issued.  The lemmas about `Forward` carry the
argument: every operation moves a file forward, and forward steps keep promises.

`InitTransactionProofs`, for any transactions, files and entries:

- `InitBase`: types; a transaction is in a phase that changes the project exactly while it
  holds the lock; each phase works on its own targets.
- `InitLosesNoValue`: `NoValueLost`, under two hypotheses: no write of a rollback fails,
  and nobody saves a file meanwhile.  The run `InitLosesValues` shows that it is false
  without the first.  Without the second an editor may save the tokens of a commit again
  before its rollback, which then leaves that file alone while it takes the entries
  back.  Faults of the commit,
  deaths, edits of entries and of copy sources are all in.
- `CopiesFollowTheirSource`: `CopyFollowsSource`, without any hypothesis on faults or
  editors.

Its invariant says for each file, snapshot and entry what it can be: `FileInv` (a file is
what it was, or what the lock's holder or a finished transaction wrote), `SnapInv` (an undo
record is what was there when it was taken) and `VaultInv` (the value of a token is in the
vault from before the dotenv is written until after it is restored).  `CopyInv` carries
the copies from the swap to the commit: a copy that is done has the protection its source
had at review time, from the first check of the sources on the source is as it was then,
and the lock keeps Phantom's own writers of the source out in between.

The same module proves the lock itself, `TransactionLock`, for any threads, processes,
projects, shards and old writers:

- `LockIsSafe`: `LockSafe`, however many locks a thread nests and whatever times out,
  cannot be opened, panics or dies.
- `OneLockIsEnough`: `ShardIsExclusive` and `NoCircularWait`, when each thread has one
  lock at a time.  With two, both are false (section 6).

`HolderInv` says that a lock file is held by exactly the acquisition that took it and has
not dropped it; `CountInv` that a count of `SHARD_OWNERSHIP` is the number of the thread's
acquisitions on the shard; `MutexInv` that a locked mutex belongs to one of them; `SlotOK`
that what an acquisition still asks for comes after all it has, in the one order of shards
and files (`Below`).  So a wait always goes up, and among threads that all wait for each
other the one whose resource has the fewest above it would wait for one with fewer.

Its third part is `LinuxMigration`, for any names, values and clients and any number of
faults:

- `MigrationIsSafe`: `ChosenStoreIsComplete`, with reboots.
- `TheMoveIsFinal`: `NeverBackToKeyutils`, with reboots.
- `RerunFinishesWithoutReboots`: `RerunFinishes` for `Reboots = FALSE`; with reboots it is
  false (section 6).

`ContentInv` says that keyutils shows all that was stored until the config marker exists
and Secret Service from then on; `CopyingInv` how far a running migration has come,
so that the marker is published only after every value was found equal; `RecordInv` in
which order the markers and sentinels appear.  `KeptInv`, without reboots, adds that
keyutils keeps what an interrupted migration still needs.

`ProxyServerProofs`, for any finite set of clients and any limits and sizes:
`ProxyInvariant`, and from it `CleanEndsAreComplete`, `OnlyReviewedRequestsLeave`,
`SlotsAreConserved` and `ProxyIsSafe`.  A clean end is seen at the client long after the upstream's, so the
invariant follows the bytes: `RequestSound` (what was sent upstream had been reviewed),
`ReplySound` and `StreamSound` (what is buffered, or is with the streaming task and the
client, adds up to what the upstream has delivered) and `CleanSound`.  `SlotsInv` counts
the permits by the cardinality of the connections that hold one.  `ProxyIsSafe` adds
`BudgetInv`: the bytes that requests hold are counted as a set, one pair of a client and
a number for each byte, so that reserving and giving back are disjoint unions instead
of a sum over the clients, and a request without a slot holds none.

`DeviceLoginProofs`, for any device codes, browsers, limits and lifetimes:
`OneBearerForItsApprover`, which is `LoginSafe`.  A poll claims a row that it read earlier
and a browser approves a row that it looked at, so the invariant says what a row keeps
once it was read: `UserInv` (a row that a poll has read as approved has a user, even if it
has expired since), `ToldInv` (that user is the one who was told, or was warned that the
approval may have taken effect), `OwnInv` (a login has
one poll of its own under way) and `BearerInv` (a bearer belongs to a claimed row).
`BearerLivesOn` is `BearerOutlivesCode` for `MaxRepeats = 0`: then the only poll of a code
is the one its login waits for (`AloneInv`), and nothing marks the row expired behind its
back.  A repeated poll does (section 6), so the hypothesis is needed.

The same module proves the two commands that the bearer is for.  `CloudSync`, for any
checkouts, keychains and names:

- `CloudTypeCorrect`, and `PullsKeepWhatTheyHaveNotSeen`, which is `PullKeeps`.
- `PushesKeepWhatTheyHaveNotHeld`: `RecordedMeansHeld` and `PushKeeps`, for
  `ConfigInGit = FALSE` and the checkouts that are not `cut`.
- `PushedStaysDecryptable`: `PushedIsDecryptable`, when a keychain that checkouts share
  has a key at first.

Nobody names a version the server has not made (`SeenVersionInv`), so a new version turns
every version that is named elsewhere into an old one, and `HeldInv` has to speak only of
the newest: who names it has held what is stored under it.  A commit is the exception
while its values are `left`; then `WrittenHeld` says that the others are held, and
`BeforeHeld` that the version a rollback brings back was.  `CloudKeyInv` says that a key
is made only where there is none.  Both hypotheses are needed (section 6).

`TeamVault`, for any users, devices and commands:

- `TeamVersionsAreDistinct`: `VersionsAreDistinct`.
- `TeamNothingUnseenIsReplaced`: `RotationKeeps` and `PullKeeps`.
- `TeamSharesOpen`: `SharesOpen`, when a device runs one team command at a time; with two
  it is false (section 6).

`RotationInv` says that a rotation has the contents that are stored or names an old
version, which the server refuses; `PairInv` that the public half of a pair is stored only
after its private half, so a key that was registered, was read from the roster or has a
share (`OpenInv`) opens wherever a command died.  In both modules the version is bounded by
counting the commands that may still write.

`InstallCache`, for any invocations and versions, in `McpApprovalProofs`:
`InstallsAreSafe`, which is `InstallSafe`.  `OwnerInv` says that the lock is with the one
invocation that installs; `ProgressOf` relates the calls of the file system that it has
still to make to what is in the cache, and since a recovery would end with the same version
before and after each of them (`CacheInv`), it may be killed anywhere.  All of it holds
until a lock is taken from a live invocation (section 6).

`FileVault`, for any clients, names and values, in `WorkspaceApplyProofs`:
`VaultValuesAreKept`, which is `NoValueLost` and `SidecarsFollowValues`.  Whoever changes
files has the lock of older releases, and `PlaceOf` says what that client knows of them at
each step.  `PairsInv` says of every pair of files that a power failure may bring back that
one of the two is there and that what a reader takes is what the calls account for.  Where
the file system reorders the changes of the directory, `OrderInv` adds that one of the two
names at most is unsettled, which needs the sync between the publication and the removal.
Deaths together with reordering are excluded for the reason that section 6 gives.

`AuditLog`, for any writers, faults and events, in `SessionJournalProofs`:

- `AuditRecordsAreDurable`: `TypeOK`, `AcknowledgedIsDurable` and `CheckpointFollows`,
  whether or not the log can be read back and directory changes are reordered, and
  `HeadNotAhead` for `Reorders = FALSE` (section 6).
- `AuditChainIsUnbroken`: `ChainIsUnbroken`, for `LogReadFails = FALSE` (section 6).

One writer at a time is in `write_event` (`AloneInv`), and `StepOf` says what it knows: the
line it has built `Follows` the log, the last line is the one it wrote, that line is
durable before the checkpoint is.  `DirectoryStays` and `NewDirectory` say what one change
may make of the directory: a log that every surviving version has stays, and a new
checkpoint names a synced line.  `Chained` is a property of sequences of lines, with
three lemmas about the helpers: a beginning of a chain is one (`BeginningIsChained`), a line
that follows keeps it (`LongerIsChained`), and what is read back is the last signed line
(`LastIsRead`, which needs that a set of places has a last one, `MaxIsLast`).  `PartialIs`
and `LostIs` bring every cut of a write and of a power loss under them.

Assumptions: `ConstantsAssumption`, `StoreAssumption`, `ApprovalAssumption`,
`SessionAssumption`, `LedgerAssumption`, `InitAssumption`, `LockAssumption`,
`MigrationAssumption`, `AnchoredAssumption`, `ProxyAssumption`, `DeviceAssumption`,
`CloudAssumption`, `TeamAssumption`, `AuditAssumption`, `CacheAssumption`,
`FileVaultAssumption` and `KeychainAssumption` in the modules that declare the constants. They give numbers and
sets their types, say which sets are finite, keep `None` and values of different kinds
apart, and say that a limit is not zero; TLC evaluates each on the instances of the runs.

Only model-checked: all liveness properties, because fairness is out of the prover's
reach; what the recursive scan of `ResponseScrubber` computes, because it is an induction over
data; `InitTransaction`'s `RestoredMeansRestored`, which speaks of the moment of a rollback and is made false
for an earlier transaction by a later one whose own rollback fails, so that it holds only
in the scenarios in which it is claimed; and the properties of the other modules of
section 2, items 2 to 5.

## 6. Where code and documentation disagree

Three runs end in a counterexample; `PROJECT.json` quotes the lines.

- `RecoveryRace`: `recover_setup_plan_journal` loads the journal before it takes
  the workspace lock.  A second terminal can load it in the window after
  `commit` has dropped the project lock and before the journal says Applied, wait
  for the workspace lock, and roll back a transaction that is applied by then.
  With a crash in addition a secret can be lost.
- `InitLosesValues`: `rollback_secrets` runs also when `rollback_files` has failed, so
  a dotenv that could not be restored keeps its tokens while the entries behind them
  are deleted.
- `AuditReset`: an error reading the log back counts as an empty log, so the next
  event starts the chain over at GENESIS.

The passing runs leave out, by their constants or by the scenarios in which a property
is claimed, the further cases below.  Each is reproduced by checking the named
definition of the component's module with the constants given.

| Property | Constants | What TLC shows | Code |
|---|---|---|---|
| `WorkspaceApply!RolledBackIsClean` | two processes, 1 disturbance | a terminal that read Claimed does not look at the request again, and applies one that another terminal has recorded as RolledBack | `commands/workspace.rs:266` |
| `WorkspaceApply!EditsSurvive` | as in `ApplyOne` | an edit saved between the second validation of the seal and `capture_snapshot` becomes the before-image, is written over, and is lost once the journal is cleared, against the comment that nothing can "silently alter a planned file during staging" (`transaction.rs:587`) | `transaction.rs:610` |
| `WorkspaceApply!EditsPreserved` | two processes, 1 disturbance | a terminal that has finished removes the journal of another one that is writing, with such an edit in it | `transaction.rs:966` |
| `WorkspaceApply!RecoverySettles` | a nested file, 1 disturbance | after a crash between writing the journal and creating the directory of a nested target every recovery refuses, though nothing was written | `transaction.rs:903` |
| `InitTransaction!CopyIsProtected` | one copy, `Crashes` | a death between the two vault writes leaves a copy less protected than its source | `init_transaction.rs:658` |
| `AuditLog!SignedErasHaveMarkers` | as in `audit` | a death after the key is published leaves a signed era without marker | `audit.rs:692` |
| `AuditLog!UndisturbedVerifiesClean` | as in `audit` | the first event, written while the verifier waits, is reported as damage | `audit.rs:445` |
| `AuditLog!HeadNotAhead` | `Reorders`, as in `audit` | a writer dies, or fails, between creating the log and syncing its directory entry; the next finds the log, does not sync the entry, and publishes a checkpoint that a power loss may keep without the log, against the comment that a checkpoint "never points past durable log content" (`audit.rs:806`) | `audit.rs:833` |
| `EvidenceStore!AcceptedStaysReadable` | `MaxU64 = 3` | an aggregate is accepted whose sum overflows in every later replay | `phantom-evidence/lib.rs:565` |
| `TransactionLock!ShardIsExclusive` | `Slots = {1, 2}` | dropping the first of two guards unlocks the mutex that is still counted; the lock files still exclude | `transaction_lock.rs:182` |
| `TransactionLock!RefusedMeansBusy` | `Panics` | a poisoned shard is reported as another active writer until the process ends | `transaction_lock.rs:157` |
| `TransactionLock!NoCircularWait` | `Slots = {1, 2}` | two threads that each ask for a second lock wait for each other until a deadline passes | `transaction_lock.rs:157` |
| `KeychainVault!IndexedHasValue` | `MaxFaults = 2` | the undo of a store removes the credential before the index entry | `keychain.rs:1154` |
| `KeychainVault!ValueIsAccounted` | an old entry, `MaxFaults = 2` | an old entry whose removal failed becomes the value again after an interrupted delete | `keychain.rs:1055` |
| `KeychainVault!VerdictMatchesValue` | `Validates`, no fault | a verdict on the old value is recorded for a value stored meanwhile | `commands/validate.rs:493` |
| `FileVault!VerdictMatchesValue` | as in `encrypted` | the same in the encrypted file vault, whose swap compares only verdicts | `phantom-vault/file.rs:573`, `commands/validate.rs:493` |
| `LinuxMigration!RerunFinishes` | `Reboots`, 2 faults | after a reboot between config marker and sentinel no rerun is accepted | `keychain.rs:1526` |
| `BillingEvents!ConvergesFully` | as in `billing` | a payment failure that is delivered before an older update of the plan makes the update stale, and the change of plan is lost | migration `20260831010000`, line 304 |
| `DeviceLogin!BearerOutlivesCode` | a repeated poll | a late repeated poll marks a claimed row expired and ends its bearer | `auth/device/poll/route.ts:59` |
| `CloudSync!PushKeeps` | `ConfigInGit`, one keychain | a clone inherits the version without the values, and its push removes them | `config.rs:190` |
| `CloudSync!PushAlwaysKeeps` | as in `one machine` | a pull that dies between `.phantom.toml` and the values records a version whose values it never held, and its next push removes them, against the comment that the merge base does not advance "after a partial apply" (`commands/cloud.rs:529`) | `commands/cloud.rs:509`, `init_transaction.rs:613` |
| `CloudSync!PushedIsDecryptable` | no key at first, one keychain | two first pushes make two keys, and what the first pushed cannot be opened | `auth.rs:196` |
| `ProxyServer!HeldWithinBudget` | 2 slots, budget 2 | the reservation ends when the handler returns, while the response is still held | `server.rs:908` |
| `RateLimiter!OneSessionDoesNotTrip` | as in `limits` | refused accesses count, so one busy secret trips the global guard | `rate_limiter.rs:212` |
| `TeamVault!PushSawWhatItReplaces`, `EveryKeyIsCovered` | as in `team` | `vault-push` takes the version after it has read its values, and the roster before | `commands/team.rs` |
| `InstallCache!InstallsAlone` and `NoInstallLost` without `~displaced` | as in `installs` | two wrappers that saw the same stale lock: the second renames away the new lock of the first, both install, and a completed install can be removed by the other's recovery | `npm/bin/cli.js:868` |
| `TeamVault!SharesOpen` | two commands on one new device | both make a key pair, and the halves that stay need not belong together | `auth.rs` |

Smaller observations.  `ActsOnWhatWasRead` leaves one window open: a save by an editor
after the last look and before the rename is lost, and no system call the code uses
could close it.  `FileVault::load` takes its image of the file before
`repair_private_regular`, so the first change after a repair of the permissions is
refused as "changed after review"; the next one works.  When `migrate_from_json` finds
the same contents already published, it removes the plaintext vault without a sync of
the directory, so on a file system that reorders directory changes a death followed by a
power failure could lose both; the scenario `reordered` therefore has no deaths.  An
error in `create_staging_temp` after the open leaves an empty staging file.  An
activation event that was created before its checkout
is only counted as stale, so the plan has no expiry until the next update.  The key file
of the evidence store is created in place, so a death while it is written leaves a
file that every later open refuses.  A wrapper whose `mkdir` found the lock and whose
look at it came after the release ends with ENOENT instead of trying again
(`npm/bin/cli.js:864`).

## 7. Not modelled

`PROJECT.json` lists every component with its status.

- Cryptography, signatures and canonical encodings (`phantom-vault/crypto.rs`,
  `phantom-authority`, `phantom-locus-contract`): assumed, as equality of
  what was sealed.
- Text processing: the classification rules, secret detection, leak correlation, workspace
  discovery, header and cookie rewriting of the proxy.  Their results enter as
  choices.
- Calls to services: providers of rotation and validation, deployment platforms,
  payment.  What Phantom records about them is modelled where it is state.
- The broker's request lifecycle, a table of transitions that nothing calls, and the
  broker protocol, which validates single messages.
- Command line: arguments, prompts, output, shell integration, packaging, shell installers.
- Rotation: the shipped CLI and MCP server refuse it, and the candidates of
  `phantom-vault/shadowing.rs` are metadata of an older staged rotation that nothing
  reads.
- The composition of the file effects: `InitTransaction`, `WorkspaceApply` and the
  record stores take an exact effect as one step that may fail on either side of its
  rename, which is what `AnchoredFile` says of it; the proof of that refinement is open.
- A crash between the request's final state and `clear_setup_plan_journal` leaves an
  encrypted journal file behind that no later run removes; it has no effect on the
  properties above.

The repository has about 160,000 lines of implementation, half of which are tests
inside the source files and most of the rest output, text processing and calls to
services; the stateful core listed in section 1 is what the modules cover.
