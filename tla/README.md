# HermesKatana: a formal model

TLA+ specifications of the stateful core of HermesKatana (`src/src/hermes_katana/`, below
written without that prefix), their model checking with TLC, and proofs checked with
TLAPS. HermesKatana sits between an AI agent (Hermes) and its tools: it
tracks taint, scans and judges each tool call, records what happened in a hash-chained
log, keeps secrets in an encrypted vault and filters traffic in a proxy. Most of its
lines are pattern libraries and research scripts, functions of text without interacting
state. What is hard is the rest: threads and processes that share files, a
keyring, dictionaries and caches, and that crash in between.

## Inventory

| Part | State it keeps | Operations | What is hard about it | What makes it correct |
|---|---|---|---|---|
| Audit trail (`audit/trail.py`, `_files.py`) | active and rotated JSONL files, anchor sidecar, advisory file lock, cached head and key per object | `log`, `rotate`, pruning, `reanchor`, `verify_chain`, `clear` (a `log`) | many objects in many processes, torn lines, crash between append and anchor, names with one-second resolution | every line links to its predecessor; returned entries stay; the anchor is the head |
| Vault (`vault/store.py`) | vault file with counter and HMAC, master key in the OS keyring, rotation journal, circuit breaker, cached key per object | `set`, `remove`, `get`, `lock`, `unlock`, `rotate_key`, `recover_rotation`, `close` | rotation spans keyring and file; read-modify-write; keyring that fails; stale cached keys | every secret stays decryptable; an operation changes only its secret |
| Vault satellites (`vault/access_log.py`, `expiry.py`, `honey_tokens.py`) | three JSON files next to the vault, a registry per object | set, clear, touch, sync, rotate; generate, remove, lookup; log, rotation, clear | locks around a part of an update, or none; failures answered by an empty result | what a call promised is not undone by another |
| Migration (`vault/migrate.py`) | `.env` files, configuration, environment | discover, import, erase | not atomic over vault and files; patterns instead of parsers | no secret lost, none replaced by zeros, none left in plain text |
| Taint (`taint/`, `middleware/taint_middleware.py`) | values with labels per character and readers, lists, tracker with a limit | string and list operations, codecs, registration, flow analysis | dozens of operations each of which can forget an origin | taint is never lost; readers only become fewer; untrusted data does not reach critical tools |
| Dispatch (`hermes_plugin.py`, `middleware/chain.py`, `escalation.py`) | context stash, result stash, chain and runtime globals | pre, post and transform hooks, session start and end, registration, escalation | hooks of one call in different threads matched by a heuristic, eviction, re-registration | nothing passes undecided or unaudited; a context reaches its own call, once |
| Built-in middlewares (`middleware/integration.py`, `scan_middleware.py`, ...), stateful scanners (`scanner/mcp_scanner.py`, `multiturn.py`) | baselines of MCP tools, the conversation so far, metadata passed along the chain | `pre_dispatch`, `post_dispatch` | one middleware relies on what another left in the context; concurrent registrations; all sessions share a detector | what a judge would object to does not pass unasked |
| Policy engine (`policy/engine.py`) | ordered policies, default action, result cache | `evaluate`, `add_policy`, `remove_policy`, `replace_all`, `clear` | evaluation is three critical sections; cache | an answer is by policies in force |
| Policy files (`policy/yaml_loader.py`) | YAML files, last modification times, watcher thread | load, poll, reload, start, stop | edits during a load, half-written files, failed loads | no reload loses coverage; the engine converges to the disk |
| Proxy addon and injector (`proxy/addon.py`, `injector.py`) | rate windows and violations per client, marks on flows | request, response, WebSocket hooks | order of gates, injection and scans; failing scans; replaced credentials | nothing bad slips through; a credential reaches its provider only |
| Proxy runner (`proxy/runner.py`) | mitmproxy process, watchdog thread, stop event | start, stop, restart | watchdog races with stop, one more watchdog per restart | a stopped proxy stays stopped |
| Installer (`installer/`) | patched files of a Hermes checkout, backups | install, uninstall, restore, verify | text patches, failure half way | restore brings back what was there |
| Other scanners, Scabbard | compiled patterns, trained models | scan | none of a temporal kind | their verdicts are inputs here |
| Configuration, bootstrap, CLI, metrics, artifacts | settings | assembly | sequential | out of scope |
| Proving ground (`proving_ground/`) | research results on disk | run, resume | resuming shards | out of scope |

Interactions: the plugin's hooks call the middleware chain; the policy middleware calls
the engine; the audit middleware, the honey tokens, the CLI and the proxy addon each open
their *own* `AuditTrail` on the same file (`hermes_plugin.py:397`,
`vault/honey_tokens.py:271`), which is why `AuditTrail` has objects and not processes. The
CLI, the plugin and the proxy open their own `Vault`. The bootstrap uses
`PolicyEngine.from_directory` without a watcher (`bootstrap.py:412`): hot-reload
needs `watch=True`.

The hazards these parts are exposed to, each at its line with the properties that cover
it, are the `hazards` of `PROJECT.json`.

## Modules

| Module | Models | Built on |
|---|---|---|
| `AuditTrail` | the audit log shared by several objects | |
| `AuditTrailProofs` | proofs about it | `AuditTrail` |
| `SecretStore` | what the vault promises: a map that clients change atomically | |
| `Vault` | the vault shared by several processes | |
| `VaultStore` | the refinement of `SecretStore` by `Vault` | `Vault` |
| `VaultProofs` | proofs about the vault and its refinement | `VaultStore` |
| `SharedFiles` | processes that begin, leave and die | |
| `ExpiryFile`, `HoneyTokens`, `AccessLog` | the three files next to the vault | `SharedFiles` |
| `VaultSatellites` | one specification of the three | the three |
| `SatelliteProofs` | proofs about it and the migration | `VaultSatellites`, `Migration` |
| `Migration` | `.env` files, YAML and environment into the vault | |
| `TaintFlow` | labels, trust, risk, rules, the verdict on a call | |
| `TaintValues` | texts, bytes and their operations, character by character | `TaintFlow` |
| `Taint` | an agent that computes with variables and a list | `TaintValues` |
| `TaintProofs` | proofs about it | `Taint` |
| `Dispatch` | hooks, chain verdict, escalation, the two stashes | |
| `DispatchProofs` | proofs about it | `Dispatch` |
| `DefaultChain` | what the default middlewares find and pass to each other | |
| `DefaultChainProofs` | proofs about it | `DefaultChain` |
| `PolicyEngine` | evaluation, cache, mutations | |
| `PolicyReload` | files, loading and watcher, composed with the engine | `PolicyEngine` |
| `PolicyProofs` | proofs about the files and the engine | `PolicyReload` |
| `RateTracker` | the proxy's rate limit | |
| `ProxyAddon` | the proxy's hooks, composed with the rate limit | `RateTracker` |
| `ProxyRunner` | the proxy's life under several owners | |
| `ProxyProofs` | proofs about the runner, the rate limit and the addon | `ProxyRunner`, `ProxyAddon` |
| `MC...` | instances for TLC | the module they are named after |

Operators whose name has an underscore and a suffix, `LinkOf_NoReread` for instance, are
*mutants*: a plausible bug in the code behind the operator of the same stem, defined before it.
They occur in no specification; putting one in place of the original makes TLC report
the property named in `PROJECT.json`, which shows that the property can fail.

Most modules record in a history variable (`causes`, `lost`, `but`, ...) which *mishaps* have
happened: the circumstances under which the code is known not to keep a property.
Properties then read "unless one of these mishaps occurred", and so also say that there is
no other way. The mishaps are as narrow as we could make them, and some are cancelled
when the code makes them good (an unwritten anchor by the next entry, a stale
cached result by the next invalidation).

### AuditTrail

`log` holds the parsable lines on disk as records of hash, previous hash and file; hashes
are numbers in the order in which entries are finalized, SHA-256 being taken as
collision free. `Append` is `log()` from taking the file lock to the written line (lines 330-374),
`WriteAnchor` the rest of the critical section, `AfterAppend` the cached head and the
size check, which happen after the lock is released; `BeginRotation`, `Move` and `Cleanup`
are `rotate()`, whose name is computed before the lock is taken. `TornAppend` is a write that
fails half way, as an error or a death of the process; `Crash` and `Drop` end an object
at every step, and the kernel then releases its lock. An empty active file and a missing one are not
told apart.

Every read of the active file may raise (`Readable`), as it always does once a line was torn inside a
character (`garbled`); `_read_last_hash_from_file` then answers with the genesis hash, and an append starts
again from it inside the file ("unread"). The HMAC key of the anchor is resolved by each object at its
first use and then kept (`held`), while `ChangeKey` changes what the next object will find: another key, or
none. `AppendUnsynced` is an `fsync` that raises after the line was written, which leaves the newest entry
unanchored and the object with its old head. `VerifyChain(p)` is `verify_chain()` of one object, with the key it
holds or would resolve, on one state of the files that can be read; its
unlocked reads during appends are not steps.

### Vault

Keys are numbers in the order of generation, a ciphertext is a key and a plaintext, the
HMAC is the key it was made with. The file lock covers one read or one replacement, so an
operation is `Begin` (check the breaker, read, change), `Count` (the counter) and
`Write`. A rotation is `RotateBegin` (journal), `RotateRead`, `RotateKey` (keyring),
`Count`, `RotateWrite`, `Unlink`, with a failure or a crash possible between any two of
them, and `RotateWriteFails` with its attempt to restore the key. `Recover`,
`RecoverKey`, `Unlink` are `recover_rotation()`, which only tests call. Two simplifications: `Recover`
reads journal, keyring and file in one step, and `Begin` the breaker and the file. Not modelled:
the key from the environment, a breaker file that cannot be parsed.

`SecretStore` is what a client of the vault may rely on: a map from names to values, a pending
request per client, and one step at which a request takes effect. In `VaultStore` a secret's
abstract value is what its ciphertext decrypts to under a key that can still be got at, and "lost" if
there is none; the pending request is the changed copy between reading and replacing the file.
Rotation, recovery, openings and crashes must then be stutters. `SecretStore` promises
nothing more after the mishaps "overlap" (two read-modify-writes at once), "stale" (a cached key
after another's rotation), "unrecovered" (an access between a crashed rotation and its
recovery) and "keyring".

### ExpiryFile, HoneyTokens, AccessLog

`ExpiryFile` keeps reading and writing apart, since each takes the file lock by itself: an unreadable file
counts as an empty one, the next write makes that permanent, and a failed write only warns. Its mishaps are
"overlap", "unread", "unwritten" and "stale_list" (`sync` with a list of names that is out of date).
`HoneyTokens` has one copy of the registry per object, loaded once and written back whole, without a lock
("outdated", "unloaded", "unsaved"; after a failed save the copy stays changed). `AccessLog` appends and
rotates without a lock across processes: rotations that cross, a late line into a rotated file, a rename
that fails after the removal, a swallowed write error, a `clear` ("crossed", "late", "unrotated",
"unlogged", "cleared"). The properties say that whatever a call promised, and nobody revoked, is still
there. The HMAC of a line, canary pings and the monitor of decoy files are not modelled.

### Migration

`migrate_secrets()` discovers, imports into the vault and erases, one file at a time. A file is a
map from keys to values; writing it truncates it first, so a crash or an error there loses all of it
("truncated"). YAML is erased by a pattern on the last part of a nested key, which also
hits a neighbour ("neighbour"), while the line of a nested entry may not match its name ("nested"); the scan
strips lines and parses YAML, so it finds entries that no pattern matches, with an indented or quoted key or one
spelt with a dash or a dot (`Odd`), which are stored and never erased ("unmatched"); the
default `.env` is looked for in the home directory too, but erased only in the working
directory ("pathless", or "elsewhere" if another file got the zeros); a death between import and erasure
leaves plaintext that no later run removes ("cut_short"), and zeros are taken for a secret if the vault has
lost it ("removed"). "kept" is a run told not to erase. The vault
is the atomic store that `SecretStore` specifies and `Vault` implements.

### TaintFlow, TaintValues, Taint

`TaintFlow` has labels, trust, risk, the rules and the verdict of the taint middleware on one argument.
`TaintValues` represents a text by the true origin of each of its characters next to what the code records:
sources per character, readers, a fallback for the whole. Each operation of `value.py` and `codecs.py` is
there with its own propagation rule; several cover what the code treats alike. `Taint` lets an agent apply
them in any order to two variables and a `TaintedList`. Operations that drop metadata in the code mark the
value in `lost`: `replace` and mappings that ignore the second operand, a same-length `translate` that
misaligns, list slices that return plain items, deletions and insertions that do not shift `_item_taint`,
codecs that unite readers or forget them, and a `split()` at a space that `str.split` knows and the search
for its parts does not, whose later parts are given the taint of earlier characters (`SplitPart`, "spaces").
Lists and the middleware do not take `TaintedBytes` for tainted (`Recognised`): stored in a list they leave
no entry, and read from it they are wrapped in what the list says of that index, marked "boxed" if that is
less than they say themselves. Everything after such an operation is cut off by the constraint `UntilLost`,
as nothing is claimed about it. Two consequences of the code that the module states rather than excuses:
concatenation gives *every* character the union of both defaults (`value.py:235`, README.md:130 promises
per-character taint), and a value with readers makes the middleware raise, which the chain turns into a
denial. `MixingNeverRelaxes` excepts the mixes of FILE or AGENT data with the user's, for which a default
rule turns ASK into ALLOW. Nested containers, dictionaries and the tracker's registry, which only statistics
read, are left out.

### Dispatch

`Pre` runs the chain in one step (`execute_pre` touches nothing shared but the audit
log): what each of the `Enforcers` does is an input (`Script`), `Verdict` is the chain's
conclusion, and the audit middleware, last in `create_default_chain`, records it or
is notified of a short circuit. `Approve` and `Refuse` are `resolve_escalation`, which may take
long. `Post` and `Transform` are the hooks after the tool; the post hook may
run in another thread. `Found` is `_pop_context`: the first of four passes (`Matches`) that accepts any
stashed context yields the place of the newest one it accepts. A call whose tool
never returns stays in "running". `RegisterBegin` and `RegisterEnd` are `register()` with
its window without a chain. Not modelled: the patched dispatch path of
`installer/patches.py`, hooks without a tool call id, chains changed at run time.

### DefaultChain

The middlewares of `create_default_chain` in the order of their priorities: taint 100, scabbard 90,
ProtectAI 88, secondary 85, scan 80, MCP 78, multi-turn 76, RAG 74, structural 70, behavioral 65,
policy 60, audit 20. After the tool they run in reverse and exceptions are swallowed;
before it an exception is a denial. The verdict on a text is an input, of which ten kinds are told apart by who
objects (the classifier, the scanner or both), to what (a secret, a lone address, neither), and whether a softener
or the list of known false positives would excuse it. What is modelled is what can go wrong around the
verdicts:

- Data: `UseData` is the whole pre-dispatch of a call over one or two arguments. Softeners excuse only text
  that does not come from a tool, by the label kept for the argument, which is the label of its last
  labelled value ("mixed", "unregistered"); the list of false positives excuses an argument from anywhere if
  it has all of it; a timeout of the classifier may allow ("late"); a flag is only softened by the text of
  the highest confidence ("outranked"). `Deliver` is post-dispatch with each of its judges possibly failing.
  The classifier lets a lone address pass before it asks for the scanner's findings; of these only secrets
  are always redacted, the rest only with `enforce_output_findings`, which `OutputsVetted` states and does
  not excuse. As audit is last before the tool and hence first after it, it never sees
  `output_scan_findings`.
- MCP tools: `LookUp` and `Record` are the comparison with the baselines and their recording, between which
  other calls do the same. A baseline is recorded even if the call is denied and never replaced. A list that
  defines a name twice gets both in.
- Conversations: `FindDetector`, `AddTurn`, `Assess`. The plugin gives no session id, so all sessions share
  the detector "default" (`integration.py:1674`, while 1640 says one per session): turns of others
  ("shared") and parallel ones ("overtaken", "lost") can hide a rise. Repeated hostile turns stop being
  noticed once the window begins with one, hence the property is about the first.

Calls that use data run one at a time: they share only what the agent heard. A behaviour
has calls of one aspect, as the bounds of a configuration say, since the aspects share nothing. Not
modelled: route skipping, chains degraded for lack of trained models, the behavioral tracker's history,
and the cap of 200 turns; the verdicts of the stateless middlewares and of the policy are the
nondeterministic decision in `Policy`. An output is one text, and `redact_output_secrets` is at its default,
true. Timeouts are per argument, in the code per text in it.

### PolicyEngine and PolicyReload

A call stands for a cache key; a policy for its name, priority, action and the calls it covers.
`policies` is kept in the order of addition, from which `Match` takes the highest
priority and among equals the first, which is what the stable sort and the first match
yield. `Lookup`, `MatchPolicies` and `Put` are the three accesses of `evaluate()`. The
watcher's thread goes from "wait" through `Poll`, `List`, `LoadFile` (one file a step) to `Adopt`,
while `Edit` gives a file any content at any moment: valid, failing validation, no YAML (a
half-written file) or missing. The same steps, ending in `Build` and `StartWatcher`, are
`from_directory`, which settles for the valid files. A directory listing and a round of `stat` are
one step each. `load_policies()` is a series of `Add`.

### RateTracker and ProxyAddon

`RateTracker` is `check()` with ages in place of times: `Grant`, `Deny`, the decay of violations, the
eviction of clients when too many are tracked, and `Tick`. Its requests and `Tick` are also steps of
`ProxyAddon`, whose actions are the hooks in the order in which mitmproxy calls them for a flow, several
flows interleaved, one hook at a time (mitmproxy is single-threaded): the gates by host, the rate limit, the
injection, the scans of all parts in their order with their failure, streamed and oversized bodies, the
response and WebSocket messages, while another process replaces the credential (`Replace`) and the vault can
be unreadable. `last` is what the hook just delivered, what is wrong with it and what hindered the scan. A
blocked request ends; a blocked response (`Block`) is the server's own with another status and a notice for
its body, so its headers reach the client, whether they are what it was blocked for or have not been scanned
("blocked"); bodies and WebSocket messages have no such exception. Stated rather than excused: an ignored
host is not scanned, except its WebSocket messages; a response is scanned for the credential the vault has
then, so a replaced one may come back ("replaced"); violations never decay once the limit is below 4, as
half of it is at most 1 (`addon.py:97`). Streaming of bodies is treated as the code supposes mitmproxy to
behave. The `X-Katana-Scanned` header, statistics and audit entries are left out.

### ProxyRunner

An owner is a process with one `KatanaProxy`; its threads are the caller of `start()` and
`stop()` and the watchdogs, each known by the PID whose start created it. All owners share the
PID file. The owner's lock is `Free`: an operation begins only when no thread of that owner is
inside. `Start` and `Stop` are the calls up to the first change of something shared;
`Unlink`, `Kill`, `Spawn`, `Settle` (the look after 0.2 s), `Write` and `Clean` are the
changes in the order of the code, and between any two of them the proxy may die, an owner
exit, another owner act or a check remove the PID file. `Look` and `Restart` are a watchdog before
and after it gets the lock, `Check` and `CheckUnlinks` the unlocked `is_running()` and
`status()`. One step each: the end of a watchdog's wait with its reading of the file,
`_kill_process()` with the death of the process, the PID file with the flags and threads set after it, and
stop's last `terminate()` with its removal of the file. A killed process always ends. PIDs are
not reused, though the code guards against that by the command line. The health server is set by its own
thread once it has bound the port: a stop that comes before (`StopHealth`) finds nothing to shut down and drops
the reference, and the server serves on ("unheard"). `MaxMishaps` does not limit what a
mishap leads to, only new calls, checks and exits after it.

## Runs

| Run | Instance | Shows |
|---|---|---|
| `audit` | 2 objects, 3 entries, size limit 2, 1 rotation kept, 2 seconds, 2 keys, 1 fault (a crash, a failed read or write, or a change of the key) | `FilesChained`, `VerifiesUnlessMishap`, `ReturnedIsDurable`, `AnchorNamesHead`, `LockReleased` |
| `audit_concurrent_objects` | as above, no fault | a counterexample: the chain breaks when another object writes first after a rotation |
| `vault` | 2 processes, 2 names, 1 value, 2 keys, counter up to 3, 2 faults | `NoSecretLost`, `ReadableAtRest`, `LiveOwnerKeepsBreaker`, `ImplementsStore` |
| `vault_satellites` | 2 processes, 2 names, times up to 2, 2 accesses, files of 1 line, 6 calls, 1 fault | `ExpiryKept`, `TokensKept`, `RecentKept` |
| `migration` | 2 keys one of which is nested, one entry that no pattern matches, 2 runs, 1 fault, 1 change by others | `NothingLost`, `ZerosNotImported`, `NoPlaintextLeft` |
| `taint` | 2 variables and a list, user and web sources, 2 readers, texts of 3, 4 operations | `NothingLaundered`, `ReadersNarrow`, `ListAccountsForItems`, `UntrustedNeverReachesCritical`, `MixingNeverRelaxes` |
| `proxy_addon` | 2 flows, 1 client with limit 1, 2 credentials, 4 configurations, messages with at most two bad parts | `NothingUnvetted`, `CredentialContained` |
| `rate_tracker` | 2 clients, limit 8, window of 1 tick, 1 client before eviction, 2 violations | `RateBound`, `ForgivenOnlyWhenQuiet`, `Forgiven` |
| `dispatch` | 3 calls of one tool, 2 tasks or none, 2 threads, 2 enforcers, stashes of 2 keeping 1, 1 session end or registration | `GateHolds`, `ContextUsedOnce`, `OwnContext`, `ProcessedOnce` |
| `default_chain` | 2 threads, 2 sessions, 2 tools in 2 versions; 2 data calls, 3 registrations or 5 turns; 7 configurations; window of 4, the default | `DriftNoticed`, `EscalationNoticed`, `ArgumentsVetted`, `OutputsVetted` |
| `policy_reload` | 2 files, 1 evaluating thread, 2 calls (one unsafe), cache of 1, 2 events | `CoverageKept`, `Converges`, `QuietAfterStop`, `AnswersCurrent` |
| `proxy` | 2 owners, 2 ports, 2 processes, 2 faults, no new calls after a mishap | `NamedOrStarting`, `StopLeavesNothing`, `Restarted` |

Why the bounds are enough. Audit: two objects are one that rotates and one that is behind; three entries
fill a file and start the next; two seconds give rotations with the same name and with different ones,
keeping one rotation prunes the older, and one change of the key tells the objects that hold the old one
from those that resolve the new one. Vault: two keys are one rotation and the second key is also that of a
racing first opening; two faults are a crash and a failure in the recovery. Satellites: every mishap takes
at most two processes and one fault, and after it nothing is claimed, so the constraint `UntilMishap` ends
the behaviour. Migration: a second run meets what a cut-off first one left. Taint: four operations split,
join and wrap both variables, which are alike, as readers are (a symmetry); texts of three characters have a
beginning, a middle and an end. Rates: limit 8 halves twice before it is too low to decay; a third client
would be a second one that evicts or is evicted. Proxy addon: a scan stops at its first finding or failure,
so two bad parts are every order; the rate limit is the other run's. Dispatch: the third call overflows a
stash of two; one task id each, or none, reaches every pass of `_pop_context`. Default chain: three
registrations are a baseline and a race, five turns fill the window and shift it once. Policies: an edit
before and one during a load, or a read error in place of one; one evaluating thread suffices, because what
two evaluations share is the cache, and a stale answer left there is read by the thread's next call. Proxy:
two processes are a start and a restart, or two starts on different ports; two faults are a death and a
failing restart. The safety properties are also proved for all values of the constants, two of them under an
assumption named under Proofs.

Deadlock is not checked in any run: bounded calls, edits and entries come to an end.

Fairness. `audit` assumes weak fairness of the steps of a call that has begun
(`Continue`): a running thread runs on, while calls need not be made and crashes need not
happen; crashed objects need not come back. `policy_reload` assumes weak fairness of the builder's and the
watcher's thread (`Watch`), whose loop polls for ever (`yaml_loader.py:398-433`); edits,
errors and stops are not fair. `proxy` assumes weak fairness of each thread: the lock is held only
for a few steps, and a watchdog looks every five seconds; calls, checks, exits and deaths are not
fair. `rate_tracker` assumes that time goes on and that each client goes on asking (weak fairness of `Tick`
and of each client's `Grant` or `Deny`), as `Forgiven` is about such clients; that a client pauses is a premise of
`Forgiven` and not assumed. All other runs check safety only; `vault` includes the safety refinement.

### Divergences between code and documentation

`audit_concurrent_objects` ends in a counterexample and refutes a sentence of the repository, which the
`findings` of `PROJECT.json` quote: that re-reading the last hash under the lock chains concurrent
processes correctly (`trail.py:337`). Others are mishaps of properties that hold, where TLC checks
that they are the only ways: rotations within a second (`trail.py:16`, "clash"), a vault accessed before the recovery
that should run "on next access" (`docs/runbook.md:121`, "unrecovered"), the task id that the laxer passes of
`_pop_context` do not look at (`hermes_plugin.py:874`, "similar"), hot-reload with a result that is cached after the
cache was cleared (`engine.py:558`), `stop()` while a watchdog waits for the lock (`runner.py:544`, "late"), one
multi-turn detector for all sessions (`integration.py:1640`, "shared").

## Proofs

`AuditTrailProofs` proves, for any number of objects, entries, files, seconds and faults,
from the named assumptions of `AuditTrail` alone:

- `TypeCorrect`: `Spec => []TypeOK`;
- `FilesAlwaysChained`, `AnchorCorrect`, `VerificationComplete`, `ReturnedAlwaysDurable`: the
  four safety invariants of the run.

None of them is inductive. `IInv` adds that an anchor without a key is no anchor (`AnchorSigned`), that
hashes and file names are bounded and identify lines (`FilesOrdered`), that the holder of the lock is
exactly the object between append and anchor and has the newest entry (`LockDiscipline`), that the last
writer's cache is the head (`WriterKnowsHead`), which is what carries the chain over a rotation, and that
without torn lines, clashes and pruning the files hold all entries in order (`Complete`), each linked to its
predecessor if no read failed (`Chained`). One lemma per conjunct shows that a step preserves it, with one
case per action; `Invariance` combines them. The order of the lines needs that a set of naturals has a least
and a bounded one a greatest element, which the modules that use it prove from the library's induction.

`DispatchProofs` proves, for any calls, tools, threads, numbers of middlewares and sizes of the stash:

- `GateAlwaysHolds` (`[]GateHolds`): no tool runs denied, unapproved or unaudited. The
  inductive invariant `GateInv` adds what is known before the gate (`BeforeGate`: a new call
  has no trace, a call that waits was escalated and recorded so) and that the plugin lacks a chain only after a
  registration (`GapIsKnown`). `VerdictSound` relates the chain's verdict to what the
  middlewares said, for chains of every length.
- `ContextsUsedOnce` (`[]ContextUsedOnce`): no two hooks get the same context. `StashInv` says that the
  stash has each context once, none that was taken, and only of calls past the gate, and
  that this survives eviction (a suffix) and the removal of any element, whatever `Found` returns.
- `ResultsProcessedOnce` (`[]ProcessedOnce`): `ResultInv` says that a processed result waits in its stash until the
  transform hook of its call takes it, unless the plugin was registered anew or the stash lost entries.
- `HooksGetOwnContext` (`[]OwnContext`): as long as there was no mishap, `OwnInv` says, only running calls have a
  context in the stash and no two of these are similar. The first pass of `_pop_context` that accepts anything then
  accepts only the call's own context (`OwnFound`).

`ProxyProofs` proves, for any owners, ports and numbers of processes, faults and mishaps,
`TypeCorrect`, `NoProxyLost` (`[]NamedOrStarting`) and `StopIsClean`
(`[]StopLeavesNothing`). The argument: threads that are somewhere have an owner (`Known`);
the lock, and across owners the absence of overlaps, keep all but one thread out (`OneInside`); hence
whoever is about to spawn or to clean up has dealt with the proxy named by the file, and nobody has
replaced it since (`Handled`), so that a new PID never covers a running one. What was seen dead stays
dead (`DeadIsDead`), which makes removals after a check harmless as long as the file still names
what was looked at. After a stop nobody is inside (`QuietMeansIdle`), and a health server survives
it only if a second one covered it or its thread was not yet serving (`Served`).

About the rate limit it proves, for any clients, limits, windows and numbers of violations, `RateIsBounded`
(`[]RateBound`) and `LimitsRiseOnlyWhenQuiet` (`ForgivenOnlyWhenQuiet`). `RateInv` says that the fresh part
of what `check()` keeps of a client is exactly what the client was granted within the window; this survives
evictions because only clients without a fresh entry are evicted. `AddonRateIsBounded` carries it over to
the addon, whose steps are steps or stutters of the rate limit. About the addon it proves, for any flows,
configurations, messages with any number of parts and credentials, `NothingPassesUnvetted`
(`[]NothingUnvetted`) and `CredentialStaysInside` (`[]CredentialContained`): what a delivered message
carries (`Carries`) the scanners either do not object to (`Objected`), or one that comes before it failed
and the failure was tolerated, or it is among the headers of a blocked response. `MessageAssumption` types
the messages and gives each request at least one part that is always scanned, its URL.

`VaultProofs` proves, for any processes, secrets, values and numbers of keys and faults,
`TypeCorrect`, `SecretsKept` (`[]NoSecretLost`), `AlwaysReadableAtRest` (`[]ReadableAtRest`),
`BreakerKept` (`[]LiveOwnerKeepsBreaker`) and `VaultImplementsStore` (`ImplementsStore`). The inductive
invariant `VaultInv` says, as long as no mishap has occurred: at most one process is in the middle of
an operation (`OneBusy`); the file is under one key, which its HMAC has too, and a journal names the
keyring's key and the other one whenever the two differ (`FileSound`); before a first key there
is nothing (`FirstKey`); and, operation by operation, what its owner may rely on (`AtWork`), such as that
a rotation's buffer is the file re-encrypted. An operation that begins without
a mishap begins alone and with the keyring's key, which is what re-establishes `AtWork`; a
crash leaves a file and a journal that the next recovery can read. For the refinement, the begin of
a change asks, its write takes effect, a failure or crash gives up, a mishap excuses the store,
and every other step, rotations and recoveries included, stutters.

`PolicyProofs` proves, for any files, policies, calls, threads, cache sizes and numbers of events:

- `CoverageAlwaysKept` (`[]CoverageKept`). Every covered file exists (`CoveredFiles`), and while a load is
  under way the number it counts is that of a set of existing files of which each covered one has a rule
  among those loaded (`Counted`). A load is adopted only if it counts as many files as there are, so the set is
  all of them (`AllCounted`), which is where a file that vanishes after it was counted would break the argument.
- `StoppedIsQuiet` (`QuietAfterStop`): once stopped in time the watcher's thread has ended (`Ended`).
- `AnswersAlwaysCurrent` (`AnswersCurrent`). `AnswerInv` says that the cache holds what the policies say
  unless a mutation raced with an evaluation or left the cache uncleared, and that what an evaluation has
  found is what the policies said at some moment since it began.

`DefaultChainProofs` proves, for any threads, tools, versions, configurations and bounds,
`DriftAlwaysNoticed` (`[]DriftNoticed`), `ArgumentsAlwaysVetted` (`[]ArgumentsVetted`) and
`OutputsAlwaysVetted` (`[]OutputsVetted`). `ChainInv` says of each call what its stage guarantees
(`CallSound`): between look-up and recording, that the baselines it read still stand unless two
registrations crossed (`StillThere`); before the policy, that each definition it offers is the baseline;
with the decision still "allow", that each part of its arguments was vetted; at delivery, that its output
was. Baselines only grow (`Grown`), which makes the calls of all other threads stay sound.
`EscalationIsNoticed` (`[]EscalationNoticed`) assumes a window of at most 4 turns, 4 being the default
(`multiturn.py:255`): in a full window of 5, a single hostile turn does not make the slope steep enough and
passes, which the proof attempt showed and TLC reports if the constant is changed. `TurnInv` says that a
hostile turn in a detector was said in its session, and that, of a first hostile turn that is due, the turns
of its session before it in the detector are calm (`TurnSound`).

`SatelliteProofs` proves, for any processes, names, log sizes and numbers of calls and faults,
`ExpiryAlwaysKept` (`[]ExpiryKept`), `TokensAlwaysKept` (`[]TokensKept`) and `RecentAlwaysKept`
(`[]RecentKept`), and about the migration, for any keys, nestings and numbers of runs, deaths and changes by
others, `MigrationLosesNothing` (`[]NothingLost`), `ZerosStayOutside` (`[]ZerosNotImported`) and
`PlaintextErased` (`[]NoPlaintextLeft`). Without a mishap the expiry file is what was promised, and what a
process is about to write is its change of what it read (`EditSound`). The active log ends with the newest
access and has no gap, and unless it alone is long enough the rotated log goes on where it begins and is
(`LogSound`); a rotation makes the active log, then too long, the rotated one. Of the migration,
`MigrationTyped` says that a secret is stored before its original is erased and that an emptied file's new
content is in `buf`; `ZerosKnown`, that a key with zeros in a `.env` file is in the vault as long as nobody
removed it, and so is skipped; `PlaintextKnown`, that what is stored is in plaintext only where its erasure
is still `Pending`, that is, where the first existing file of those still to be searched is the one in which
it was found and a pattern matches it there. `AbsentAssumption` says that the absence of a secret is not a
value.

`TaintProofs` proves, for any sources, readers, variables, and texts and lists of any length,
`OriginsAreKept` (`[]NothingLaundered`), `ReadersOnlyNarrow` (`[]ReadersNarrow`), `ListsAccountForItems`
(`[]ListAccountsForItems`), `UntrustedIsKeptOut` (`[]UntrustedNeverReachesCritical`) and
`MixingDoesNotRelax` (`[]MixingNeverRelaxes`). `TaintInv` says that each variable holds a `Sound` value, one
that, unless a mishap marks it, accounts for the origins of its characters (`Accounted`) and has no reader
that one of them excludes, and that the list's entries account for its items (`ListGood`). One lemma per
operation of `TaintValues` shows that it keeps values sound. `MixingDoesNotRelax` assumes that no source
labels an agent's words as trusted. None of the factories of `Source` does (`labels.py:229-368`), but its
constructor allows it, and the proof attempt showed what would follow: such data alone is quarantined, and
together with a trusted memory's it is allowed.

Only model-checked: liveness (`LockReleased`, `Converges`, `Restarted`, `Forgiven`), since fairness and ENABLED
are beyond the prover.

## Not modelled

- The installer patches the text of another repository's files; its backup and restore are sequential and
  have tests.
- Pattern scanners, Scabbard's classifiers and their data: functions of text. Their verdicts, and the order
  and failure of their calls, are inputs of `DefaultChain`, `ProxyAddon` and `PolicyEngine`.
- Configuration, bootstrap, artifacts and the command line assemble the other parts or call them one after
  the other; their `AuditTrail` and `Vault` objects are among those modelled.
- Metrics and logging only write.
- The proving ground is a research harness around the product. The resuming of its shards is the one part of
  it with a protocol.

## Plan

Next, in this order: the resuming of shards and the installer's restore; nested containers and dictionaries
in `Taint`; a specification of what the audit log promises its readers, refined by `AuditTrail` as
`SecretStore` is by `Vault`.
