# AegisHook in TLA+

AegisHook puts a review in front of the tool calls of coding agents. A hook of
the agent submits each call to a local service; the service decides it by rules,
by asking a human, or by asking a language model; the hook lets the tool run only
after an approval. This directory models that system, checks it with TLC on small
instances and proves its central properties with TLAPS for all instances.

All paths below are relative to the repository; `core/` stands for
`src/internal/core/`.

## 1. The system

### Components, their state and their operations

| Component | Code | State | Operations |
|---|---|---|---|
| Review engine | `core/store.go`, `reviews.go`, `model.go` | records `instances`, `reviews`, `audit` in SQLite; model goroutines; one mutex `Engine.mu`; a lock file | `Register`, `Heartbeat`, `Disconnect`, `Submit`, `Decide`, `Result`, `modelReview`, `Expire` (every second), `Open`, `Close` |
| Settings and policy versions | `core/store.go`, `prompt_upgrade.go`, `rule_catalog.go`, `model.go` | `Engine.Settings`, its record, `model.key`, version snapshots, rules, scopes | `SaveSettings`, `TestModel`, `SaveRule`/`DeleteRule`, `SaveScope`/`DeleteScope`, the upgrades inside `Open` |
| Deterministic policy | `core/policy.go`, `rule_catalog.go`, `rule_matchers.go`, `semantics.go` | records `rules`, `scopes` | `SaveRule`, `DeleteRule`, `SaveScope`, `DeleteScope`, `upgradeBuiltinRules`; `checkScopePaths`, `evaluatePaths` |
| Script capture | `core/scripts.go` | none | reads the scripts a command would run: complete or incomplete |
| Model protocol | `core/model.go`, `model_context.go`, `usage.go` | none | one HTTP exchange, up to four attempts at a well-formed answer |
| HTTP server | `src/internal/server/server.go` | login sessions, subscribers of the event stream | routes, authentication, origin checks, events |
| Command hook | `src/internal/bridge/bridge.go` | one process per event, no shared state | heartbeat or registration, submission, polling, report of the result |
| Remote enrollment | `core/client_requests.go`, `client_nodes.go`, `client_connection.go` | records `client_requests`, `client_enrollments`, `client_nodes`, `client_ip_blocks`; on the device `request.json`, `enrolled.json` | file, decide and poll a request; issue and spend a code; revoke; block and unblock a source |
| Client installation | `core/client_install.go` | the agents' configuration files, adapter files, `client.json` | install, switch, uninstall, with rollback |
| Local installations | `core/install.go`, `install_agents.go` | the same on the service's machine, recorded in SQLite | install, uninstall |
| Pi adapter | `src/adapter/index.ts` | registration, heartbeat timer, counter of pending calls | tool call, tool result, session start and shutdown |
| OpenCode plugin | `src/adapter/opencode.mjs` | the map of calls, child processes | tool before/after, part errors, deleted session, dispose |
| Web console | `src/web/src/store.ts`, the views | copies of the tables, the stream, a timer | login, refresh, reaction to events, edits |
| Process lock, addresses | `core/lock_*.go`, `src/internal/localaddr/` | the lock file | lock; parse addresses |

### How they interact

The hook, the adapter and the console call the HTTP server; every route that
changes state is one method of the engine, which holds `Engine.mu` from its first
read to its last write. The exceptions are what makes the system interesting:

* `Submit` starts a goroutine that asks the model without the mutex and takes it
  when the answer is there. By then a timeout, a shutdown or a restart may have
  decided the review.
* `TestModel` copies the settings, lets the mutex go, and comes back.
* A handler that changes several records (`Disconnect`, `Expire`, `Open`,
  `DecideClientRequest` with `block_ip`) commits them one by one, and
  `SaveSettings` writes a file and then the database.
* A hook works with the answer of an earlier request; the global and the project
  installation of one agent start two hooks for one call.
* The middleware checks source and credential before the handler takes the mutex.
* The client's installer and the service's own write the same configuration files of
  the agents, which the agents and their users write too, each without a lock that
  the others know.
* The adapters inside an agent are single threads whose handlers interleave wherever
  they await a request; a session can end between any two of their steps.
* A console tab learns of changes by a stream of merged signals and answers each with
  thirteen requests, which are not one reading.

### What each component must keep

* Engine: every call gets one answer, from somebody entitled to it, in time; an
  answer is final; no call survives its session or its process; the audit rows
  are the exact history.
* Settings: the mark *tested* stands for a real test of the key and endpoint in
  use; memory equals disk between handlers; a version number names one policy.
* Hook: a tool runs only with an approval for exactly what it will run; a reported
  result is true; an approval serves one run; the agent is never left waiting.
* Policy: the strictest verdict wins, whatever other rules say, and no start of the
  service reopens what the operator has closed.
* Enrollment: a grant makes one node; no device loses a good ticket or credential.
* Installations: hooks and records agree; a recorded hook finds its adapter; an
  interrupted operation can be repaired, but for one kind of interruption (section 6);
  foreign content of a configuration file stays; a device keeps its identity.
* Adapter and plugin: a tool runs only as approved, results are never turned round as
  far as the agent gives them, every call ends; a capture that is called complete is
  complete.
* Console: the last change reaches a tab that says it is online.

`PROJECT.json` lists the hazards behind these, each at its line.

## 2. The modules

| Module | Role |
|---|---|
| `ReviewContract` | what the engine promises for one call: asked, judged, reported, with who may allow what |
| `ReviewEngine` | the engine |
| `ReviewSettings` | settings, key file, versions, model test, upgrades |
| `HookBridge` | hook processes and the agent, composed with `ReviewEngine` |
| `Enrollment` | the service's side and the installer's side of a device's enrollment |
| `HookFiles` | the agents' entries and what an installer may do to them |
| `ClientInstall` | the client's installer: plan, edits, rollback, manifest |
| `LocalInstall` | the service's own installer: entry and record |
| `Installations` | both installers and a user on one machine |
| `Policy` | rules and scopes: edits, upgrade at start, evaluation |
| `Console` | the event stream and a console tab |
| `Administration` | `Policy` and `Console` with other administrators and restarts |
| `AgentCalls` | an agent's calls and the service as `ReviewContract` has it |
| `ScriptCapture` | the snapshot of the scripts of a command |
| `PiAdapter` | the extension in Pi, with `ScriptCapture` |
| `OpenCodePlugin` | the plugin in OpenCode |
| `Adapters` | the two adapters against the service |
| `ReviewEngineProofs` | proofs of the engine's invariants and of finality |
| `HookBridgeProofs` | proofs that the composition implements the engine, that tools run only as approved, that reported results are true and that an approval is good for one run |
| `ReviewHistoryProofs` | proof that `ReviewEngine` implements `ReviewContract`; proofs about the audit rows and the end of a session |
| `EnrollmentProofs` | proofs about grants, credentials and tickets |
| `ReviewSettingsProofs` | proofs about the mark, the mode, durability and versions |
| `AdaptersProofs` | proofs about the two adapters and the capture |
| `AdministrationProofs` | proofs about the verdicts of the policy and its upgrade |
| `InstallationsProofs` | proofs about the two installers |
| `MC*` | the constants, and the symmetries, of the instances TLC checks |

### `ReviewEngine`

| Variable | Code |
|---|---|
| `instances`, `reviews` | the records of these kinds, with the fields the properties tell apart (`by` is `RuleID`, `created`/`deadline`/`decidedAt` the times) |
| `audit` | for each review the actions of its audit rows, in order |
| `calling` | the reviews whose `modelReview` goroutine runs |
| `mode` | `Settings.Mode` |
| `up`, `run` | whether a process holds the lock, and which one |
| `faults` | how many handlers lost a commit (a bound) |
| `clock` | `Engine.clock` |

One action is one handler. `Submit` has three disjuncts, for the policy's verdict,
the human's queue and the model; `ModelReview` has four, for the ways the
goroutine can end. A handler that commits in a loop has an argument `lost`, the
commits the database refused: `Disconnect` and `Open` stop at the first failure,
so that what is lost is older than what was written (`StopsEarly`), while `Expire`
and the second loop of `Open` skip it.

Abstractions. The verdict of the policy and the answer of the model are inputs: any
verdict may come for any payload. A digest is its payload, since equal digests are
equal payloads. Sessions have no fields but state and heartbeat. `Register` for a
session of another node or agent, and settings other than the mode, change nothing
the properties see. The clock is global and moves in steps; every interleaving of
its steps with the handlers is checked.

### `ReviewSettings`

`SaveSettings` is `BeginSave` (validation and the key file) followed by
`CommitSave` or `AbortSave`; no other handler runs in between because it holds the
mutex (`Free`), but a crash may come. `TestModel` is `BeginTest` and `TestPassed` or
`TestFailed`, with everything else in between. `Open` is `OpenLoad`, the seeding in
two steps so that a crash can cut it short, and the upgrade of the rules.
Endpoint stands for protocol, base URL and model name; a prompt for whether
`upgradeDataGuard` would change it; the rule table for its stage.

### `HookBridge`

The module extends `ReviewEngine` and adds processes. A request is one step of the
service together with the hook's reception of the reply; `heard = FALSE` loses the
reply and `RequestFails` the request. `Judge` works on the copy in
`hook[h].answer`. The agent (`AgentCalls`, `AgentRuns`, `AgentBlocked`) is external
and does what an agent's hook contract says: it runs the tool when every hook has
allowed it. Everything else the service does (`Service`) is the engine's own action.
Hook and service run on one machine or have synchronised clocks; the module uses
one clock for both.

### `Enrollment`

The service's records, two files on each device and the installer's program
counter. `EnrollArrives` is the middleware's check of the source, `EnrollClient` the
handler after it, so that a block can come between. `Collect` and `EnrollClient`
issue the credential in one transaction (`Issue`) and their reply may be lost.
`credential` is `enrolled.json` or, after the installation, the connection file
that takes over its content: the installer reads one or the other.

### `HookFiles`, `ClientInstall`, `LocalInstall`, `Installations`

An entry is the file by which an agent starts a hook. Its content is reduced to what the
installers tell apart (`HookFiles`): per hook command whether its groups are complete,
partly there or edited, and the edition of everything else. `ClientInstall` is one
operation under `client.lock`: `Start`, `Connect` (the credential; enrollment itself is
`Enrollment`), `Plan`, which reads all files and computes `op.edits`, then for each edit
`Check` and `Write`, because the file is compared first and replaced afterwards; `Fail`
leads to `CheckUndo`/`Unwrite` of the applied ones in reverse, and `Killed` ends the process
anywhere. `own` holds the files of the client's directory; the adapter's code is one file
with its release as content. The list in `client.json` is a set: it names no entry twice, and
its order matters only for the order in which a switch gives entries up, for which `Plan`
takes any (`Orders`). `LocalInstall` writes the entry, commits the record and
restores the entry when the commit fails; `Restart` starts the service from another path.
`disturbed` and `raced` are histories: entries that the user has edited, that could not be
put back, or that were written between another installer's last look and its write.

### `Policy`, `Console`, `Administration`

`Policy` has the tables and `Evaluate`, `OutOfScope` and `Verdict` as operators on a call.
A call is what the matchers make of it: the semantic rules it hits, the texts found in it,
its place, its hosts. `Within` is the order of directories. `SeedSome` is a first start that
was cut short; `Open` the start that completes it, with the upgrade of the catalog.
`Console` is a login session, the server's channel of one signal (`signal`), what is on the
wire, and one tab: its `refresh` reads the tables one by one (`Read`), each at its own moment,
and `EventSource` is external and reconnects by itself unless the server refuses it.
`Scenarios` bounds how often each thing happens.

### `AgentCalls`, `ScriptCapture`, `PiAdapter`, `OpenCodePlugin`, `Adapters`

The adapters see the service through `ReviewContract` alone (`Service == INSTANCE`), which
the engine is proved to implement. A request and its reply are one step at the moment the
service serves it, or a failure before or after. In `PiAdapter` each step is what one
handler or callback does between two awaits; `handler[t].at` says what it awaits. When a
session shuts down every awaited request is aborted, so the handlers in hand end at once.
`capture` is the running snapshot: it is synchronous, so no other handler moves, but each
file is looked at and read in separate steps of its owners (`stat`, `size`). Of a file that
has grown, the bridge reads one byte more than the limit (`Held`): beside what the capture
says of a file (`complete`), the record has whether all of it was read (`whole`). The heartbeat
is one step, because what it finds at its reply is all that counts. `OpenCodePlugin` has the
map `calls` (`promise`, `mapped`), the hooks of each scope in turn (`step`), another plugin
that rewrites the arguments between them, and the child, which is the bridge reduced to its
answer. A tool that returns has an exit code or none, which is all that `tool.execute.after`
sees of its end (`OutcomeOfExit`); one that throws is reported by its part. `agent` chooses which of the two a behaviour is about, since they share nothing.

## 3. The runs

| Run | Question | Bounds |
|---|---|---|
| `engine` | Are the deadlines, the queue, the model's exclusivity and finality kept in every order of handlers? Does the engine implement `ReviewContract`, and is every call answered though only the clock, the sweep and the supervisor act? | 1 call, 3 processes, 2 faulty handlers, clock 0..6, window 2, human 3, model 2; fairness below |
| `engine_pair` | Do two calls of one session keep exact trails, and does neither survive its session, when a loop over both stops half way? | 2 calls, 2 processes, times of 1 |
| `settings` | Do mark, mode, memory and version stand for what they say? | 2 endpoints, 1 key beside the empty one, 3 versions, 1 crash |
| `hook` | Does a tool run only as approved, and is it reported as it ran? | 2 hooks of 1 call, 2 attempts, 2 processes, any number of lost requests and replies, times of 1, clock 0..2 |
| `hook_live` | Does every hook end, whatever the service does? | 1 hook, 1 attempt, 2 processes, clock 0..3, fairness below |
| `enrollment` | Is a grant good for one node, and does a device keep what it was given? | 2 devices, 2 sources, 1 code, 2 requests, clock 0..2, 1 crash, 1 lost reply |
| `installations` | Do hooks and records agree, and does everything of the user's survive, when two installers and a user write one machine's files? | the link of Pi and two scopes of Grok, 2 releases, 2 program paths; of 1 crash, 1 failing write, 1 edit by the user and 1 move of the service at most two in one behaviour |
| `administration` | Does the strictest rule decide, after any edits, seeds and upgrades, and does a tab catch up? | 4 built-in rules, 1 custom one, 2 scopes; 2 edits and 2 starts without a tab, or 2 edits, 2 logins, 1 stop and 1 failing request with one |
| `adapters` | Does a tool run only as approved and is it reported so; is a capture whole; does every call end? | Pi: 2 calls, 2 sessions, captures of up to 3 references with limits of 2 files and 2 bytes; OpenCode: 2 calls, 2 scopes; requests lost without bound |
| `model_transfer`, `settings_key`, `installations_stranded` | findings, section 6 | the instances of `engine` (2 processes, 1 faulty handler), `settings` and `installations` |

Why the bounds are enough. A review interacts with others only through its
session and through a loop that commits several of them: two reviews of one session
meet every such case. The clock is long enough that each deadline passes with room for
late actions after it, and `LastSubmit` keeps the last deadline before the end of
the clock, as an assumption of the module demands. In the `engine` run the window is
shorter than the human's deadline and as long as the model's, so that sessions are
lost before, at and after deadlines. Three processes give a review that was accepted
by the first, left by the second and rejected by the third. The payloads are one
captured completely and one not. In the `hook` run the faults of the database are left
out, because the `engine` runs cover them. In `enrollment` the two requests can come
from one source or from two, so that one can be blocked through the other; the
quotas are not reached with two requests, and no property is about them.

In `installations` a Grok entry is what is hardest (a document shared with the user and
limited to one scope) and Pi's is the other kind, nothing but the hook; both are offered by
both installers. `SmallInstance` leaves out behaviours in which the two installers both work
and more than one thing goes wrong, or touch more than one entry they share
(`OneSharedEntry`, `OneSharedLink`), since they meet nowhere else. Its constraint cuts no state that
the properties of the remaining behaviours depend on: all properties are safety. In
`administration` the two scenarios keep apart what does not interact: the verdicts depend on
the tables only, the tab on their changes only. The catalog has one rule of each kind that
`upgradeBuiltinRules` treats differently. In `adapters` the second call captures nothing:
captures run one at a time, and what matters to the other call is that one ran. Three
references are one more than the limit of files, and sizes go two bytes over the limit, one
more than what is read.

Symmetry (devices and sources, the two hooks) is used for safety only. The
histories `run`, `approved`, `outcomes`, `passed`, `used`, `torn` and `replay` are never
read by a guard.

Deadlock is checked, except in `administration` and `adapters`: there the system may stop,
when nobody logs in or edits any more and when the agent makes no more calls.

### Fairness

* `ReviewEngine!Fairness`: weak fairness of the clock, of a sweep that loses no
  write (`Expire({})`), and of a start that succeeds (`Open({})`). The sweep is a
  ticker of one second in a goroutine of its own; that its writes eventually succeed
  and that a stopped service is started again is assumed of the environment. The
  human, the model, the hooks: none of them has to act.
* `HookBridge!FairHookSpec`: weak fairness of the clock and of each hook process: the
  operating system schedules it, and each of its requests ends within the 2.5 s
  timeout of its HTTP client. Nothing is assumed of the service.
* `Administration!Fairness`: the server's stream handler runs (`SendSignal`, `Tick`), the
  browser follows its connections and timers (`StreamOpens`, `StreamFails`,
  `UpdateArrives`, `TimerFires`), and each request of a refresh is answered or fails. Nobody
  has to start the service, log in or edit.
* `Adapters!Fairness`: each handler goes on, because every request has a timeout of five
  seconds and every sleep a timer; deadlines pass; a child ends, because the bridge does
  (`EveryHookEnds`) or by the plugin's own timeout. Nobody has to decide a review.

## 4. The proofs

`ReviewEngineProofs` proves, for all sets of sessions, calls and payloads, all deadlines
and all bounds:

* `TypeCorrect`: `Spec => []TypeOK`.
* `InvariantHolds`: `Spec => []Inv`, with `Inv` of `ReviewEngine`, and from it
  `IncompleteIsForHumans`, `DeadlinesHold`, `RestartLeavesNothingPending`,
  `QueueIsExact` and `ModelAnswersAlone`.
* `Finality`: `Spec => DecisionsAreFinal`.

`ReviewHistoryProofs` proves of the engine:

* `EngineKeepsContract`: `Spec => KeepsContract`, that is, the initial state maps to the
  contract's and every step to one of its steps or to a stutter.
* `RowsAreTheHistory`: `Spec => []AuditTrail`.
* `SessionEndIsFinal`: `Spec => NoApprovalAfterSessionEnd`.

`HookBridgeProofs` proves of the composition, for any number of hooks, calls and attempts:

* `HooksUseTheEngine`: `HookSpec => Spec`. Every theorem above therefore holds with the
  hooks and the agent in place.
* `HookTypesCorrect`: `HookSpec => []HookTypeOK`.
* `ToolsRunAsApproved`: `HookSpec => []RunsOnlyApproved`, from `HookInvariantHolds`.
* `ResultsAreTrue`: `HookSpec => []ReportsAreTrue`, and `ReplaysAreDenied`:
  `HookSpec => []ReplayIsDenied`, from `ResultInvariantHolds`.

`EnrollmentProofs` proves, for any devices, sources and codes and any number of requests,
crashes and lost replies, from `EnrollInvariantHolds`: `EnrollTypesCorrect`,
`GrantsAreSpentOnce` (`GrantedOnce`), `CredentialsAreKept` (`CredentialIsKept`) and
`TicketsAreKept` (`TicketIsKept`).

`ReviewSettingsProofs` proves, for any endpoints, keys, prompts and number of versions and
crashes, from `SettingsInvariantHolds`: `SettingsTypesCorrect`, `MarkIsEarned`
(`TestedMeansPassed`), `ModelIsTested` (`ModelModeIsTested`), `RestartFindsTheSettings`
(`MemoryIsDurable`) and `VersionsNameOnePolicy` (`VersionNamesPolicy`).

`AdaptersProofs` proves, for any calls, commands, limits, sessions and scopes, from
`AdapterInvariantHolds`: `AdapterTypesCorrect` (`TypeOK`, with the counter behind the
heartbeat), `AdaptersRunAsApproved` (`RunsOnlyApproved`), `AdapterOutcomesTrue`
(`OutcomesAreTrue`) and `CompleteCapturesAreWhole` (`CompleteMeansWhole`); and
`AdaptersKeepContract`: `Spec => Service!Safety`, that the service as the adapters use it
makes only moves of `ReviewContract`. With `EngineKeepsContract` the adapters stand on
what the engine is proved to do.

`AdministrationProofs` proves, for any catalog, custom rules, scopes, calls and histories of
edits and starts: `TablesAreWellFormed` (`[]TableInv`), `StrictestAlwaysDecides`
(`StrictestRuleDecides`) and `ClosedCategoriesKept` (`ClosedCategoriesStayClosed`).

`InstallationsProofs` proves, for any entries, agents, releases, program paths and number of
edits, failures, kills and restarts, from `InstallationsInvariantHolds`, every property of
the `installations` run: `InstallationsTypesCorrect` (`TypeOK`), `RecordedHooksKeepAdapter`
(`RecordedHooksHaveAdapter`), `ClientHooksStayRecorded` (`ClientHooksAreRecorded`),
`LocalHooksStayRecorded` (`LocalHooksAreRecorded`), `OneScopeAtATime` (`OneScope`),
`InstallingAgainRepairs` (`RepairsAreAccepted`), `OthersContentKept` (`OtherContentIsKept`)
and `IdentityIsOne` (`OneIdentity`).

The assumptions are the modules' named ones, and TLC evaluates them in each run:

* `OwnerAssumption`, `PayloadAssumption`, `TimeAssumption`, `BoundAssumption` of the engine;
  `HookAssumption` (each modelled call has at least one hook: a call without one is outside
  the system); `EnrollmentAssumption`; `SettingsAssumption`.
* `AgentAssumption`: finitely many calls, since the counter is an integer; what a tool call
  carries is the command with a whole capture, with a partial one, or another.
  `CommandAssumption`: the references of a command are a list, the limits are numbers
  (`core/scripts.go` has constants). `ScopeAssumption`: at least one installation of the plugin.
  Beside the named ones, the model of the agent assumes that no other extension changes a
  call's arguments after the last hook of this one has allowed it: the adapter cannot see
  that, and the repository's README (line 209) asks that only trusted extensions be loaded.
* `PolicyAssumption`: built-in and custom rules have different IDs; a rule that was split off
  has a parent in the catalog that was not; the catalog is a table of well-formed rules
  whose matcher is `semantic`, which `BuiltinRules` sets (`core/policy.go:58`).
  `ScenarioAssumption`: tables to start from and drafts are well-formed rules, as `SaveRule`
  accepts no others.
* `EntryAssumption`: finitely many entries, since a manifest is a finite list; a link is not a
  document. `ClientAssumption`, `LocalAssumption`: the names are those of the files and
  commands. `InstallerAssumption`: the client's hook command is not one of the service's;
  it names the client's connection file (`clientTarget`), theirs does not.

The argument. The safety properties are not inductive alone: that a decided review is
never decided again needs that a decided record has left the queue and the model's
hands. `Inv` therefore joins them with `LifeCycle`, which says for each decision which
fields are set (an unasked record is blank; a pending one has no decider and is
the human's or the model's; an approved one has an approver who may approve), and with
`calling # {} => up`. The proof does not treat thirteen actions once for each conjunct.
`StepEffect` classifies what a step does to one review: nothing, submission,
transfer, verdict or result, each with its guards. The lemma for each conjunct then
has one case for each class, and the refinement uses the same classification, because
the classes are the contract's moves.

For the hooks, `HookInv` adds to `RunsOnlyApproved` what ties a process to its review
(`LifeOf`): from the reply to its submission until it ends a process holds the payload
that the record holds, an approval it was told of is still in the record, and no process
of a call submits any more once the tool has run. The first two are kept because a
submitted record keeps its payload and its approval (`ReviewKeeps`, from `StepEffect`),
which makes the copies harmless although they are old. That the composition implements
the engine needs this invariant too: a process that reports must have left `resultState`
with an outcome the engine accepts.

For the rows and the sessions, `StepTrace` says of each step at once what it does to a
record and which row it adds, because the two go out in one commit; `AuditTrail` is then
inductive with `Inv`. That no call is allowed after its session needs one more fact,
`WaitersConnected`: as long as no write was lost, whoever waits has a connected session.

For results, `ResultInv` says that a tool which ended has its end among its outcomes, and
that a process which will deny a replay was told of the result. It holds because a report is
the only step that changes an approved record (`OnlyReports`), so that a result a process
has read stays.

For enrollment, `EnrollInv` adds to the kinds of the records what an installer's place
implies: one that asks for anything has no credential yet, and what it remembers or stores
exists (`DeviceInv`); a grant that made a node is spent (`SpentInv`). `GrantedOnce` would not
be inductive without the latter. That a ticket is not given up is a property of steps: the
lemmas go through the steps that write the file and find each time that the request is
worthless or the credential is there.

For the settings, `SettingsInv` has one part for each copy: a save under way keeps the mark
only if it changes neither endpoint nor key, and the key file is the new one as soon as
it is written (`SavingInv`); the copy that a running test holds is of the current settings
if its version is (`TestInv`), which is what makes the comparison of versions in `TestModel`
sufficient although the mutex was let go; record and memory agree, and so does the key file
unless a save was cut short (`DurableInv`); no review and no snapshot is ahead of the
settings, and those of the current version are of the current policy (`VersionInv`).

For the adapters, `AdapterInv` says for every place at which a handler or a hook can stand
what the service knows of its call: a handler that lets the tool run, and a child whose
approval was read, have a review that is allowed and stays so, for the payload that will run
(`PromiseInv`, `HandlerRuns`, `HooksRun`); nothing is reported before the tool has ended or
was blocked (`HandlerResult`, `HookResult`). `SessionInv` ties the counter to the set of
handlers in hand and those to the session that lives, which is why a shutdown, which ends
them all at once, leaves it at zero. `CaptureInv` is the loop invariant of the capture: unless
it is known to be incomplete, every reference before the one at hand is covered. The contract
is kept because each request is a `Submitted`, a `Polled` or a `Reported`, and each of these
makes one of its moves or none (`SubmitIsLegal` and the lemmas beside it).

For the policy, the scan stops at the first rule that matches, in the order of `Before`. That
the result is the strictest follows if any set of rules has a first one (`OneIsFirst`, by the
well-foundedness of the subsets of a finite table) and if every rule decides and is found,
which is `IsTable`; that this stays true through edits, upgrades and starts that were cut
short is the invariant `TableInv`. `ClosedCategoriesKept` compares the tables before and
after a start, rule by rule.

For the installations, the properties are about files while an operation is a list of edits
that was planned from them earlier; the invariant is about the list. `PlanInv` says what is
in one: at most one edit for each file, the record last, each edit of an entry touches only
the client's hook, each removal comes before the new hook, the adapter is not exchanged under
a hook. It is proved once, for the step that makes the plan (`InstallationIsPlanned`,
`RemovalIsPlanned`), and kept because nothing changes the list. `ProgressInv` says what every
file that the lock protects contains, by how far the operation has come, forwards or
backwards, and allows for a rollback that failed; `HooksInv` says the same of the entries that
nobody has disturbed; `WindowInv` and `LopInv` say that a look still holds when the installer
writes, or that the entry is among the raced ones. A step is then one of eight things that
can happen to a file (`ClientFiles`, `OwnSteps`, `WorkSteps`, `LocalFiles`), whatever the
action is called. `RecordedHooksHaveAdapter` is not inductive without `TidyInv` (the adapter
is only tidied away when nothing is recorded), nor `OneScope` without the order in `PlanInv`.

`RepairsAreAccepted` says that after any interruption every entry that nobody has disturbed
can be installed, whether `client.json` names it or not: with the recorded release, or with
any if nothing is recorded. It excludes three states, each of which the proof or a run has
shown to be stuck or to need another step first, and each of which section 6 describes:
adapter files without a manifest (`Stranded`), an entry that the service's installer has
taken over (`TakenOver`), and, for an agent that allows one scope, an interrupted switch
(`OnlyScope`). For `Stranded` the run `installations_stranded` shows that the state is reached.

`OutcomesAreTrue` says of a success that the tool succeeded or, under OpenCode, ended without
an exit code (`WithoutExitCode`, section 6), and of any other outcome that the tool did not
succeed. `CompleteMeansWhole` needs the byte that is read beyond the limit: without it a file
that grew after `stat` would be cut off at the limit and count as complete.

Only model-checked: the liveness properties `EveryReviewSettles`, `EveryHookEnds`,
`ConsoleCatchesUp` and `EveryCallEnds`, which are beyond the prover, and the three runs of
section 6, which expect a violation. Every other property of a run is a theorem.

## 5. What is not modelled

* The matching of rules against commands, the parsing of shell and SQL, the recognition of
  references in a script and the model's answer format are string processing. Their results
  are inputs: of the engine, of `Policy` and of `ScriptCapture`, which are checked for
  every result.
* Host and origin checks, the login throttle, downloads and static files of the server.
* The formats of the agents' configuration files, the detection of agents and of their
  paths, symbolic links in directories: an entry is its abstract content.
* The consoles' views other than the tables and the rule switch, which display them or send
  one request; the command line, which calls one method of the engine or of an installer.
* The adapters' status texts, the messages and the branch they send along; passive session
  events of the OpenCode plugin. The branch of the Pi adapter that reports `not_executed`
  after an approval needs an exception of Pi's status line.
* The process lock: it is why the engine has at most one process.
* The recorded user message, usage and cost records, redaction: no property.
* Revocation on the hook routes: the credential is checked before the handler, and a
  request that was admitted completes.

## 6. Findings

* `model_transfer`. The README says that the model mode does not hand over to a
  human and that a human cannot decide a model's call. `modelReview` hands a call with
  incompletely captured scripts to the human queue, and `Decide` accepts the verdict.
* `settings_key`. The README says that changing the key clears the test mark.
  `SaveSettings` replaces `model.key` before it commits the record; a crash in between
  leaves a key that was never tested under the mark of the old one.
* `installations_stranded`. A comment at `core/client_install.go:476` says that an
  interrupted first installation may have left only a pending ticket or an enrollment record,
  and `docs/remote-clients.md:7` that an interrupted installation can be run again. The adapter
  files are written before the manifest: an installer that is killed in between leaves them
  without one. After that every installation is refused at line 226, and an uninstallation
  returns at line 159 without touching them, until they are deleted by hand. The last
  uninstallation leaves the same if it is killed after its edits and before it deletes the
  adapter (lines 266-299).

Observations without a run:

* The README (line 199) says that the versions of the settings are kept and can be listed.
  `Open` stores version 1 with `put`, which takes no snapshot (`core/store.go:93`): unless an
  upgrade of the prompt happens to save it, reviews refer to a version that is not listed.
* The README (line 124) says that a result is recorded only with a reliable state. The
  OpenCode plugin records every end without a numeric exit code as a success
  (`src/adapter/opencode.mjs:150-155`), that is, also that of a command that was killed or
  timed out, if the agent reports such an end without one. `OutcomesAreTrue` excludes
  these calls.
* A call handed over by the model keeps the model's deadline: the human has the seconds
  that remain.
* `Submit` accepts a heartbeat that is exactly 30 s old; the sweep cancels the call at
  once (`Reachable` and `Online`).
* A session whose heartbeat lapsed can have a call approved until the next sweep.
* If `Disconnect` cannot reject every call, the rest stays open until the next sweep.
* When the reply to the poll that carries the credential is lost, the request is
  consumed and the device must apply again; the unused node stays active.
* An installer with a revoked credential on disk installs it again.
* Installations. After a crash before the manifest is written a hook can stay that no manifest
  names. If other entries were recorded, the next installation of this one takes it over, but
  an uninstallation of the others in between removes the adapter and leaves the hook, whose
  command then fails. If nothing was recorded, nothing can be installed any more
  (`installations_stranded`). A rollback that cannot undo an edit leaves the same. A crash in the middle of a switch of Grok's scope, followed by an
  installation, can leave the hook in both scopes (`docs/remote-clients.md` allows one).
* A switch of scope or an uninstallation by the client that is interrupted after it has removed
  the hook from a document with other content leaves the entry in `client.json`. Repeating it
  is refused, because the entry is missing (`core/install_agents.go:125`), until the old scope
  has been installed again.
* An uninstallation by the client that is interrupted after it has removed Pi's link or
  OpenCode's plugin leaves the entry in `client.json`. If the service's installer then puts its
  own there, the client can neither install the entry again nor uninstall it
  (`core/client_install.go:336`) until the service has removed its hook.
* The service's installer: if the process stops between the entry and its record and is
  started from another path, an uninstallation finds another program's hook and refuses, and
  so may an installation (`core/install_agents.go:240`).
* The rule switch of the console sends the whole rule as last read
  (`src/web/src/components/RulesTable.vue:77`): it undoes another administrator's edit
  and brings a deleted rule back.
* `src/web/src/store.ts:179` says that the refresh after a failed stream detects an expired
  session. When that refresh fails itself, the tab stays logged in with its stream closed
  for good, shown as offline; `ConsoleCatchesUp` is therefore stated for tabs that say they
  are online.
* A call that an adapter blocked because a poll failed is reported as *failed* by the end
  event; if it was approved meanwhile, the audit says that it failed although it never ran
  (`src/adapter/index.ts:439`, and the plugin when the arguments were changed).
* The plugin starts a child even if it was disposed of while it read its configuration; nobody
  kills that child.

## 7. Plan

Written: all modules of section 2. What is left:

1. `HookBridge` against device credentials that are revoked between requests.
2. The login throttle and the host check as a module of the HTTP server.
3. The model's protocol: its attempts at a well-formed answer and the time they take,
   as a refinement of `ModelReview`.
4. Proofs: what is left are properties of the modules above once they are written, and the
   lemmas they will need.
