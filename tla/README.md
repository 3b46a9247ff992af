# Formal models of rhc

TLA+ models of the `rhc` command (connect, disconnect and status of a host
against Red Hat Subscription Management, Insights and the yggdrasil service),
checked with TLC and, where it matters most, proved with TLAPS.

## 1. Inventory

### Components

| Component | Source | State it keeps | Operations |
|---|---|---|---|
| Configuration resolver | `internal/conf/config.go` `ConfigSource.Read`, `Config.Update`, `findDropInFiles`, `parseDropInFiles`, `parseConfigDTO` | a local accumulator `resolved`, the parsed drop-ins, the error | parse the embedded defaults; read and parse `/etc/rhc/config.toml`; `Stat` and `ReadDir` the drop-in directory; read and parse each `.toml` drop-in in byte order; apply them in order |
| Process configuration store | `internal/conf/config.go` `init`, `Configuration` | the global `conf.Configuration` | written once by `init()`: Read's value, or on error the defaults applied on top of Read's partial value; panic if the defaults do not parse |
| Embedded defaults | `data/etc/config.toml` (go:embed, not in the sources) | constant | — |
| CLI start-up | `unnamed/part_000` `beforeAction`, `main`; `pkg/config/config.go` `ConfigPath`, `Global` | `config.Global` (cert, key, log level) | flags, then `altsrc` values from the `--config` file; log level through `slog.Level.UnmarshalText`, INFO on error |
| Error reporting | `pkg/config/config.go` `HasPriorityErrors`; `unnamed/part_001` `ShowErrorMessages`, `ShowTimeDuration`, `ShowProgress` | none (reads `config.Global.LogLevel`) | decide which collected errors are printed and whether the command exits 1 |
| disconnect | `cmd/rhc/disconnect.go` | `DisconnectResult`, `errorMessages` map | stop yggdrasil, unregister from Insights, unregister from RHSM: each checks the current state first, each may fail independently |
| connect | `cmd/rhc/connect.go` | `ConnectResult` | register with RHSM, register with Insights, activate the service; in human mode a failed RHSM registration stops, in JSON mode it does not |
| status | `cmd/rhc/status.go` | `SystemStatus.returnCode` | query RHSM, Insights and systemd; the exit code counts what is not connected/running |
| canonical facts, l10n, util | `cmd/rhc/collector.go`, `canonical_facts.go`, `unnamed/part_001..002` | none | I/O and formatting only |

### Interactions

`init()` of package `conf` runs before `main`, calls `Read` on the fixed
paths and installs `conf.Configuration`; nothing writes it again. `Read` is a
sequence of blocking local file-system calls; the only other actor is any
process that edits `/etc/rhc` at the same time (an administrator, a package
update, a configuration-management run). The commands call external services
(D-Bus RHSM, `insights-client`, systemd) one after another; every call may
fail, and the results flow into a result record, an error map and the exit
code, filtered by the log level of `config.Global`.

### What is hard

* **Presence versus zero value.** `configDTO` uses `*string`: nil means
  "not in this layer", `""` is a real value that must overwrite.
* **Precedence and partial failure.** defaults < main file < drop-ins in byte
  order; a parse error anywhere aborts, and `parseDropInFiles` returns nil on
  the first error, so *all* drop-ins are lost, valid ones included.
* **The fallback.** `init()` applies the defaults on top of the partial
  value; that equals "defaults only" only if the defaults set every field.
* **Time-of-check to time-of-use.** `os.Stat` then `os.ReadDir`; `ReadDir`
  then `ReadFile` per entry: the files can change in between.
* **Lenient log level.** `Config.Update` ignores an unknown level silently;
  `beforeAction` coerces to INFO with a message; `UnmarshalText` accepts
  `error+4`-style offsets that lift the level above every error.
* **Exit codes that depend on the output format** (disconnect, status) and a
  connect that goes on after a failed registration in JSON mode.

### Correctness properties by component

* Resolver/store: the installed configuration is, field by field, the value
  of the last layer that sets it; any broken file means exactly the defaults;
  init always ends with a configuration; an unknown level is handled as
  documented; a missing directory is no error.
* disconnect/connect/status: every failure is reported (in the error table
  or the JSON) and reflected in the exit code; steps run in the documented
  order; a later step never runs on a precondition an earlier step failed to
  establish (connect).

## 2. ConfResolver: the configuration resolver

| Definition | Code |
|---|---|
| `Config`, `DTO`, `Levels`, `ZeroConfig` | `type Config`, `type configDTO`, the `slog` constants, the Go zero value (`LogLevel` 0 = INFO) |
| `Keep`, `Update` | `Config.Update`: nil keeps, non-nil overwrites, unknown level ignored |
| `FileStates`, `EntryStates`, `DirStates` | what `os.ReadFile`+`parseConfigDTO`, a `DirEntry`, and `os.Stat`/`os.ReadDir` can yield |
| `ReadBaseline` | Read lines 86-94 (and the panic of init when the defaults do not parse) |
| `ReadMain` | Read lines 96-112: missing skipped, read error or parse error returns |
| `StatDropInDir`, `ReadDropInDir`, `FindDropInFiles` | `findDropInFiles` |
| `LoadDropIn`, `DropInsParsed` | one iteration of `parseDropInFiles`' loop, on the least remaining name; its return |
| `ApplyDropIn`, `ReadReturns` | Read's merge loop, one iteration per step; `return resolved, nil` |
| `Install` | `init()` |
| `FsChange` | another process edits the main file, the directory or one entry (bounded by `MaxFsChanges`) |

Abstractions: TOML text is the `configDTO` it decodes to, or `Malformed`;
drop-in names are naturals standing for their byte-order rank
(`sort.Strings` on paths of one directory orders them as their names);
`TomlNames` are the names with the `.toml` suffix; a symlink to a directory
or an unreadable file is `Unreadable`.

Fairness: `WF_vars(Resolver)`. `init()` is ordinary blocking code on a
local file system (spec §5); it cannot stop forever between two calls. The
editing process gets no fairness: it may never act.

### Runs

All on `MC_ConfResolver`: paths {"", "/a"}, levels {INFO, DEBUG, "debug"}
(lower case: valid for `slog`, unknown to `Config.Update`), four documents
(empty; cert+DEBUG; cert="" + ca-dir; key + "debug"), defaults with every
field set and INFO, two `.toml` entries and one other entry. Every entry and
the main file range over all documents, missing, unreadable, malformed (and
entries over "is a directory"). This instance contains each unit test's
scenario: empty-string overwrite, missing keys, shadowing drop-ins, missing
directory, a bad drop-in after a good one.

| Run | Expect | Shows |
|---|---|---|
| `resolver` (`MC_ConfResolver.cfg`, one concurrent edit) | pass, 481,592 states | `TypeOK`; `InstalledIsLayeredResult`: with no concurrent edit, the installed configuration is the declarative last-writer layering, or the defaults if any file read is broken; `FallbackIsBaselineOnly` even with edits; `EventuallyConfigured` |
| `dropin_error_partial` | violation | spec §8 says the value returned with a drop-in parse error reflects earlier drop-ins; it does not. The property looks only at a parse error of a malformed drop-in (config.go:195), not at one that cannot be read |
| `invalid_level` | violation | spec §4.3 says an unknown level means INFO; the earlier layer's DEBUG stays |
| `dropin_dir_race` | violation | the directory removed between Stat and ReadDir fails Read, although a missing directory is documented as no error |

Bounds: three entries are enough for "one drop-in before a broken one" and
"a non-`.toml` entry"; one concurrent edit is enough for each
check-then-use window (a second edit only repeats one). The reference
`LayeredResult` is written from the spec (highest-ranked layer that sets a
field), not as a fold, so it checks the loop order rather than restating it.

Each passing property has a mutant of the code it must catch (PROJECT.json):
a dropped nil check (`TypeOK`), a dropped `.toml` filter
(`InstalledIsLayeredResult`), a fallback that forgets to re-apply the
defaults (`FallbackIsBaselineOnly`), a fatal exit instead of the fallback
(`EventuallyConfigured`).

### Findings

* `config.go:195`: one malformed drop-in discards all drop-ins; the spec says
  earlier ones are reflected in the returned value.
* `config.go:58`: an unknown log-level is silently ignored and the earlier
  layer's level stays; the spec says INFO with a diagnostic.
* `config.go:156`: Stat-then-ReadDir race turns a missing directory into an
  error, and init then discards the main file as well.

### Proofs (ConfResolverProofs)

* `TypeCorrect`: `Spec => []TypeOK`, for all constants satisfying
  `ConstantsAssumption`. Inductive as it stands; one step per action, resting
  on the lemma `UpdateType` (`Update` maps Config × DTO to Config).
* `FallbackCorrect`: `BaselineTotal => (Spec => []FallbackIsBaselineOnly)`.
  `BaselineTotal` is spec invariant I1 (the defaults parse and set every field
  to a value `Update` accepts). The invariant is inductive relative to
  `TypeOK`: the only step into `pc = "done"` is `Install`, and its error
  branch is `Update(resolved, Baseline)`, which lemma
  `UpdateWithTotalBaseline` shows equals `BaselineConfig` for every
  `resolved \in Config`; from `done` nothing but the stutter is enabled.

The empty string is the constant `EmptyString` (set to `""` in the MC
module) because the SMT backend of tlapm 1.4.5 mis-handles the literal `""`.

### Proof of the layering (ConfResolverLayering)

* `InstalledIsLayeredResultHolds`:
  `BaselineTotal => (Spec => []InstalledIsLayeredResult)`, for all constants
  satisfying `ConstantsAssumption`.
* `LayeredInvariant`: `Spec => []LInv`, the inductive invariant it rests on.

Why the property needs a strengthening: the code never computes the layered
result. Read folds `Config.Update` over the documents in load order, while
`LayeredResult` takes each field from the highest-ranked layer that sets it.
`LInv` says how far the fold has got at each `pc`, provided `fsChanges = 0`:
- before the main file, `resolved` is the zero Config, then the defaults'
  layer;
- from `stat` to `load`, `resolved` is `LayeredResult(BaseLayers)`, where
  `BaseLayers` is the defaults plus the main file if it is a document;
- at `load`, a sorted witness sequence `s` lists the names whose documents are
  in `dtos`, and they all come before the names still pending;
- at `apply`, the same kind of witness lists the drop-ins not yet applied, all
  after the ones applied, and `resolved` is the layered result of the base
  layers and the applied drop-ins;
- at `install`/`done`, either `err = NoError`, no file is `Broken` and
  `resolved = LayeredResult(Layers)`, or `err` is set and a file is `Broken`.

TLC checked `LInv` on all 481,592 states of the `resolver` run before the
proof.

The key lemma is `TopLayerUpdate`: `Update(LayeredResult(L), LayerDoc(n))`
equals `LayeredResult(L \cup {n})` when `n` is above every layer of `L`. It
is proved field by field (`TopLayerField`, `ChooseHighest`). With it:
- `ApplyDropIn` (the head of `dtos`, the least unapplied name) adds one layer;
- `LoadDropIn` appends the least pending name to the witness;
- a failing step lands in `Broken`: an override that fails to load is
  unreadable or malformed, since it is never missing or a directory.

The theorem then follows from `LInv` and `FallbackCorrect`.

The proof needs two facts about the constants, stated in
`ConstantsAssumption` and true of the Go program:
- the nil pointer `Absent` is not one of the four level names;
- missing, unreadable, malformed and directory are distinct outcomes.

Only model-checked: `EventuallyConfigured`, because liveness under fairness
and ENABLED are out of TLAPS' reach.

## 3. CliStartup: the command line up to a command's action

`CliStartup` models `main`'s `ConfigPath` (`pkg/config/config.go`),
`beforeAction` (`unnamed/part_000`: altsrc applies the `--config` file, then
`slog.Level.UnmarshalText` sets `config.Global.LogLevel`, INFO on error), the
command's `Before` hook (`CheckForUnknownArgs`, `SetupFormatOption`) and the
first line of every action, `ConfigureUISettings` (`unnamed/part_001`). It is
the base the three command modules EXTEND: their `pc` starts at `"action"`
where start-up ends, and their `Next` is start-up's steps plus theirs.

| Definition | Code |
|---|---|
| `ConfigPath` | `ConfigPath`: only a not-exist `Stat` error empties the `--config` default |
| `LevelText` | the value of `c.String("log-level")` after altsrc: command line, else file, else `"info"` |
| `ParsesAsLevel`, `LevelOf`, `SlogLevels` | `UnmarshalText`: a level name plus an optional `+n`/`-n` offset |
| `BeforeAction` | `beforeAction`: any error opening or applying the file exits 1 in `main` |
| `CommandBefore`, `SupportedFormats` | each command's `Before`: unknown arguments exit 1, an unknown `--format` `ExitCodeDataErr` |
| `ConfigureUISettings`, `ConfigureUI` | `ConfigureUISettings`: `IsMachineReadable` is `false` in both branches |
| `FileEdit` | another process replaces, removes or breaks `/etc/rhc/config.toml` between `Stat` and open (at most `MaxFileEdits`) |

The file is abstracted to the level text it gives, `NotSet`, or why it cannot
be used (`Missing`, `Unreadable`, `Malformed`). A level text is a record
`[base, offset]`.

## 4. Disconnect, Status, Connect: the commands

**Disconnect** (`cmd/rhc/disconnect.go`). `disconnectService`,
`disconnectFromInsights` and `disconnectFromRHSM` are one action each; each
disjunct is a branch of the Go function: already down, taken down, or a
failed call. The calls are `IsServiceInState`, `DeactivateService`,
`IsRegistered` and `Unregister`, and each may fail. A failure is put in
`errorMessages` at `slog.LevelError` and in the `DisconnectResult` record.
`ShowErrorMessages` then exits 1 when `HasPriorityErrors(errorMessages,
config.Global.LogLevel)` holds and the output is not machine-readable, and 0
otherwise. The error check of `IsServiceInState` (line 78) is modelled as
written: the error is returned and not recorded.

**Status** (`cmd/rhc/status.go`). `rhsmStatus`, `insightsStatus` and
`yggdrasilStatus` each query an unknown world (`consumerUUID`,
`insightsRegistered`, `unitState`), may fail, and update `returnCode` exactly
where the Go code does. `ExitWithReturnCode` is `os.Exit(returnCode)`.

**Connect** (`cmd/rhc/connect.go`). `CheckFeatureInput` can fail.
`rhsm.Register` can also fail: in human mode the command then stops, in
machine-readable mode it goes on. Insights registration and service
activation run only if their feature is enabled, and each can fail and is
reported. The content result is set unconditionally. The `features` package
is not among the sources. Its verdict on the flags and the three `Enabled`
flags are therefore free choices of `Init`.

**HostDisconnect** is the abstract contract of disconnect:
- It visits the services in a fixed order, once each.
- Each service is either taken down and claimed, or left alone, with or
  without a recorded failure.
- It ends with 0, or with 1 only when a failure was recorded. Alternatively
  it aborts before any visit, with a start-up exit status.

`Disconnect` implements it through `INSTANCE HostDisconnect WITH`:
- `connected`: the services still up;
- `claimed`: the `DisconnectResult` flags;
- `failed`: the keys of `errorMessages`;
- `remaining`: read off `pc`;
- `ended`/`status`: `pc = "exit"` and `exitCode`.

Start-up, `CollectSystemInfo` and the table printing are stutters.

**Fairness.** `WF_vars((Startup /\ UNCHANGED cmdVars) \/ CmdAction)`. Both
start-up and the actions are straight-line blocking code, so a process that
is scheduled keeps making steps. The editing process gets no fairness.
No command run checks a liveness property: start-up and the commands are
straight-line, so termination says nothing about rhc's code.

## 5. Runs

Instance shared by the command runs:
- level texts INFO, DEBUG, ERROR, ERROR+4 (above every error) and LOUD (does
  not parse);
- command-line level unset, ERROR+4 or LOUD;
- `--format` none or json;
- every file state;
- `ExitCodeDataErr = 65`.

`MC_CliStartup` adds the format `yaml` (rejected) and one concurrent file
edit: one edit is enough to open the Stat/open window. Every external call
ranges over success and failure, and every world state over all its values.
The modules are straight-line, so these bounds reach every branch of every
action.

| Run | Expect | Shows |
|---|---|---|
| `format_json` | violation | `--format json` never makes an action machine-readable |
| `config_file_race` | violation | a file removed between `Stat` and open makes rhc exit 1 |
| `disconnect` | pass, 8,640 states | `TypeOK`, `ClaimsAreTrue` (a service reported stopped/unregistered is), `ErrorsRecordedConsistently` (result record and `errorMessages` agree), `FailureExitsNonZeroUnlessSilenced` (a recorded failure gives exit 1 unless the level is above ERROR), `ImplementsHostDisconnect` (refinement, as a PROPERTY) |
| `disconnect_unrecorded_check` | violation | `EveryFailureReported`: a failed `IsServiceInState` is silent and exit is 0 |
| `status` | pass, 27,480 states | `TypeOK`; `ExitCodeCountsDown`: when every query answered, the exit status is the number of components that are down |
| `status_failed_query_exit_zero` | violation | `ExitZeroOnlyIfAllUp`: a failed RHSM or systemd query still allows exit 0 |
| `connect` | pass, 72,888 states | `TypeOK`; `NoStepAfterFailedRegistration`; `SuccessClaimsAreTrue`: on exit 0, what the result calls enabled and successful is true |

Several properties hold only because `IsMachineReadable` is always false. The
mutant `ConfigureUISettingsHonoursFormat` builds the settings from `--format`
and so revives the JSON branches. Under it, `ExitCodeCountsDown` fails
(status.go:118 does not count an inactive unit in JSON mode). The JSON-mode
paths of `connect` and `disconnect` also break their properties. These are
latent bugs behind the `--format` bug.

The refinement is checked as `HD!SafetySpec` only. TLC cannot evaluate the
WF conjunct of `HD!Spec` through an instance whose substitutions are state
expressions.

## 6. Findings (besides ConfResolver's)

* `part_001:134` (and the `Before` hooks, `part_000:212`): `--format json` is
  lost. `SetupFormatOption` writes a local copy, and `ConfigureUISettings`
  sets `IsMachineReadable: false`. No command prints JSON.
* `pkg/config/config.go:31`: the window between `Stat` and altsrc's open. A
  missing file is optional, but a file removed in between is fatal.
* `disconnect.go:78`: a failed service-state check is neither recorded nor
  reflected in the exit code.
* `pkg/config/config.go:52` (not a run; the exception is written into
  `FailureExitsNonZeroUnlessSilenced`): a log level above ERROR (`error+4`)
  hides every error, and disconnect exits 0 after failures.
* `status.go:54`, `105`, `111`: failed RHSM/systemd queries are not counted,
  while `insightsStatus` counts its own failure.
* Composition gap, not a run: no command reads `conf.Configuration`. The
  resolver of §2 only feeds the doc comments of `part_002`, so drop-ins have
  no effect on the CLI.

## 7. Proofs of start-up and the commands

For all constants satisfying `CliStartupAssumption`:
* `DisconnectInvariant`: `Spec => []IInv`;
* `TypeCorrect`, `ClaimsTrue`, `ErrorsConsistent`,
  `FailureExitsNonZeroUnlessSilencedHolds`: the run's four invariants as
  theorems;
* `Refinement`: `Spec => ImplementsHostDisconnect`.

`IInv` strengthens the invariants:
- `machineReadable = FALSE`;
- `UnvisitedUnmarked`: a service not yet visited has no result flag and no
  error entry. Without it, a step could find a stale flag;
- after the Insights step `pc` records it (`InsightsVisited`), which decides
  what `Remaining` is at exit.

TLC checked `IInv` on all 8,640 states before the proof. The proof has one
lemma per action, plus frame lemmas for start-up.

Refinement proof:
- `InitRefines`;
- per action, a lemma that the step is `HD!Visit`, `HD!Finish`, `HD!Abort`
  or a stutter. `DisconnectService` is the visit of `"yggdrasil"`, and the
  lemma shows its claim and failure sets change as `Visit` allows;
- `NextRefines` combines them with `IInv`;
- the theorem then follows by PTL.

CliStartupProofs (for all constants satisfying `CliStartupAssumption`):
* No theorem of its own: start-up is straight-line code, and the level
  precedence of the command line over the file is urfave/cli's altsrc rule,
  which the model assumes (`LevelText`) rather than derives from rhc.
* Lemma `StartupStep` states what every start-up step (or config-file
  edit) keeps: types, human mode, `pc` moving only forward, an exit only
  with status 1 or `ExitCodeDataErr`, and the command line unchanged.
  StatusProofs and ConnectProofs cite it for their start-up steps.

StatusProofs:
* `StatusTypeCorrect`: `Spec => []TypeOK`.
* `ExitCodeCountsDownHolds`: `Spec => []ExitCodeCountsDown`.
* `IInv` adds:
  - `QueriedByPc`: which components have been queried at each `pc`;
  - `returnCode = CountedSoFar`: the running count equals the number of
    queried components found down, failed queries counted only where the
    code counts them. This is what makes the final count provable;
  - that exit after all queries sets `exitCode = returnCode`.
* At exit, `Cardinality(Down)` equals the sum of three indicators
  (`CardinalityOfComponents`, using FiniteSetTheorems).
* `TypeOK`'s status field is written as a record set
  `[rhsmConnected : BOOLEAN, ...]`. This is the same set for TLC, and the
  form the provers handle.

ConnectProofs:
* `ConnectTypeCorrect`, `NoStepAfterFailedRegistrationHolds` and
  `SuccessClaimsAreTrueHolds`: the run's three invariants as theorems.
* `IInv` adds:
  - `RegisteredWhenPast`: RHSM is registered at every `pc` past the RHSM
    step and at a successful exit;
  - `ClaimsHold`: every feature result that claims success is true at every
    step, not only at exit, so that no later step can falsify it.

Only model-checked:
- liveness (`EventuallyConfigured`), because ENABLED and
  fairness are out of TLAPS' reach. Every safety invariant that a passing
  run checks is now also a theorem.

## 8. Not modelled

- Canonical facts and the collector (`canonical_facts.go`, `collector.go`):
  file and process I/O, with no state the commands share.
- Localisation, spinners and printing (`ShowProgress` wraps a call; its
  outcome is the call's, `ShowTimeDuration`): formatting only.
- The TOML decoder: its result is the abstraction.
- The `rhsm`, `features`, `activation` and `insights` packages: not in the
  sources. Their calls are nondeterministic outcomes.
