# TLA+ models of tiproxy's traffic replay, capture filter and metrics readers

This directory holds TLA+ models of parts of the repository under `src/`.
Each model has TLC configurations that check it on small instances. TLAPS
proofs establish some of the properties for every value of the constants.
`PROJECT.json` lists the following:

- the components;
- the runs and the mutants that show each property can fail;
- the source lines each definition models;
- the findings;
- the hazards;
- the theorems.

## 1. Inventory of the system

| Part | Source | State | Operations | Concurrency |
|---|---|---|---|---|
| Replay engine | `pkg/sqlreplay/replay/replay.go` | `conns` map (nil = tombstone), `connCount`, `replayedCmds`, `filteredCmds`, `err`, `progress`, `startTime`, `meta`, `closeCh`, `cancel`, wait group | `Start`, `readCommands` (pacer), `executeCmd`, `readCloseCh` (close drain), `Stop`, `Progress`, `Close` | pacer, drain and one `conn.Run` per ConnID run as goroutines; HTTP cancel, progress polls and `Close` come from other goroutines; one replay object is reused for every job |
| Capture filter | `pkg/sqlreplay/capture/filter.go` | none (pure) | `IsSensitiveSQL` | none |
| Traffic HTTP API | `pkg/server/api/traffic.go` | none | capture, replay, cancel, show | gin handlers calling the job manager (not in `src/`) |
| Backend metrics reader | `pkg/balance/metricsreader/backend_reader.go` | `queryRules`, `queryResults`, `history` (step-1 and step-2 series per rule and backend), `marshalledHistory`, election role | `ReadMetrics` (zone change, `queryAllOwners`, pulls from every other owner, owner scrape), `readFromBackends`, `metric2History`, `history2Value`, `mergeQueryResult`, `purgeHistory`, `readFromOwner`, `mergeHistory`, `marshalHistory`, `GetBackendMetrics`, `OnElected`/`OnRetired`, `Add/RemoveQueryRule` | one reader per proxy, one zonal owner per zone plus a global owner; a worker pool scrapes backends concurrently; the election calls back from its own goroutine; other members pull the marshalled history over HTTP |
| Prometheus metrics reader | `src/unnamed/part_003` | `queryExprs`, `queryResults` | `Start` loop, `readMetrics`, `queryMetric` with backoff retry, `AddQueryExpr`, `RemoveQueryExpr`, `GetQueryResult`, `Close` | a ticker goroutine and callers under one mutex |
| VIP manager | `pkg/manager/vip/manager.go`, `src/unnamed/part_002` | whether this node holds the VIP; the election | `Start`, `OnElected` (add IP, send ARP), `OnRetired` (delete IP), `Close` | election callbacks |
| Namespace config KV, proxy protocol types, command names, CLI helpers | `src/unnamed/part_001`, `part_000`, `pkg/proxy/net/command.go`, `lib/cli/util.go` | none or a KV wrapper | get/set/list, (un)marshalling, formatting | none |

The parts interact as follows:

- The job manager is outside `src/`. It starts a replay job with `Start`, stops it with `Stop`, and polls `Progress`.
- `TrafficStop` reaches `Stop` through the job manager.
- The capture controller, also outside `src/`, asks `IsSensitiveSQL` whether to redact each statement.
- The metrics readers feed the balancer.
- The VIP manager and the backend reader both follow an election, which is not under `src/`.

The hard behaviours of the replay engine are these:

- The replay object is reused from job to job. The goroutines of a stopped job may still run when the next `Start` replaces `r.closeCh`, `r.conns` and `r.cancel`.
- The drain must keep reading close events after cancellation, or workers block on a full channel.
- `Stop` is idempotent, and several callers race to it.
- The context check and `executeCmd` are two separate critical sections.

## 2. Modules

### Replay (`Replay.tla`, `MCReplay.tla`, `ReplayProofs.tla`, `ReplayJobProofs.tla`)

Each `Start` opens a new generation `g`. Generation `g` has the following:

- its own context, `canceled[g]`;
- its own channel, `closeCh[g]`;
- a pacer `pacer[g]` (pc and position in the input);
- a drain `drainer[g]`.

A worker records the ConnID it serves, the generation of the `r.closeCh` it captured when it was created (`ch`), and the generation of its context (`ctx`). The variables map to the code as follows:

- `gen` counts `Start` calls.
- `running` stands for `!startTime.IsZero()`.
- `conns`, `connCount`, `replayedCmds`, `filteredCmds`, `err` and `progress` are the fields of the same names.
- `progress` is a fraction `num/den`.
- Two history variables support the properties. `opened[c]` counts the connections created for ConnID `c` in the current map. `outcome[g]` is the error that first stopped job `g`.

The actions map to the code as follows:

| Action | Code |
|---|---|
| `Start(in, metaOK, reportOK)` | `Start` (a failed meta read gives `Cmds = 0`; a failed `report.Start` starts no goroutine) |
| `PacerCheck` | the loop condition of `readCommands` |
| `PacerDecode` = `DecodeEOF` \/ `DecodeError` \/ `DecodeChangeUser` \/ `DecodeCommand` | `command.Decode` and what follows it |
| `PacerWake` | the pacing sleep and the context check |
| `PacerExec` / `ExecuteCmd` | `replayedCmds++; executeCmd` |
| `DrainExit` | the exit check of `readCloseCh` |
| `DrainRecv` / `OnClose` | the receive on `r.closeCh`, which reads the current job's channel |
| `WorkerClose` | `conn.Run` writing its ConnID to its channel (modelled from the spec; `conn` is not under `src/`) |
| `ManualStop` | the HTTP cancel |
| `ProgressQuery` | `Progress` |
| `Close` / `CloseDone` | `Stop("shutting down")` then `wg.Wait` |

`Stop(e)` holds both branches of `Stop`: the "already stopped" return and `StopJob`. It is part of every action that calls it.

Three abstractions are deliberate:

- `DrainRecv` reads `closeCh[gen]` at the step. The code evaluates `r.closeCh` when the drain enters its `select`, so a drain that entered before a `Start` still waits on the old channel until its 100 ms timeout. The model drops that window; `CloseReturns` still fails at two jobs through the drain's next loop.
- `Start`'s `~running` guard and `Close`'s single call are assumptions about the callers (the job manager starts a job only when none runs; the process calls `Close` once), not checks of the code.
- `PacerExec` increments `replayedCmds` and executes in one step; between them the code holds no lock, but no other goroutine writes either.

Time is abstracted. The pacing sleep and the drain's 100 ms timeout are steps that may happen at any moment, so a drain may re-check its exit condition at any time. `Validate` runs before the lock and changes nothing when it fails, so it is left out.

The fairness assumptions are as follows:

- The goroutines of the replay are weakly fair: each pacer, each drain, and `CloseDone`, which returns from `wg.Wait` once every goroutine has ended.
- A worker is weakly fair only once its context is canceled. `conn.Run` exits on cancellation but may run for as long as the backend keeps the session.
- Callers are not fair: `Start`, the HTTP cancel, progress polls and `Close` may never happen. Backend disconnects are not fair either.

### Filter (`Filter.tla`, `MCFilter.tla`)

A statement is the sequence of upper-cased keywords the lexer returns for it. The lexer (`pkg/util/lex`) is not under `src/`, so `NextToken` is modelled from the spec. `Scan` is the loop of `IsSensitiveSQL` over `sensitiveKeywords`, written as a recursive operator with the current `keyword` and lexer position. `IsSensitiveRef` is the spec's rule (§4.3): the statement starts with one of the prefixes. `Classify` applies the filter once to a statement chosen from every statement of up to `MaxTokens` keywords.

### BackendReader (`BackendReader.tla`, `MCBackendReader.tla`, `BackendReaderProofs.tla`)

Each member `m` of `Members` runs one `BackendReader`. Its zone (`zoneCfg[m]`,
the location label) starts as the global key and may be set once to
`MemberZone[m]` (the HTTP API in k8s). The variables map to the code as follows:

- `lastZone`, `isOwner` and the per-rule state are the fields of the same
  names; `ruleOn[m]` says whether the one rule is registered.
- `h1[m][b]` and `h2[m][b]` are `history[rule][b].Step1History` and
  `Step2History`, each abstracted to the set of its sample timestamps (the
  value of a sample only matters through "the newest one").
- `results[m][b]` is the timestamp of the sample `queryResults` shows for
  backend `b` (`None` when there is none).
- `marshalled[m]` is `marshalledHistory`: what the member returns to others.
- `keys` is the election's etcd keys in create-revision order, `<<member,
  zone key>>`; the first key of a zone owns it. A member campaigns only
  without a key, so it has at most one. `DropKey` (a lost lease, or a
  zone change) removes that key and moves the later ones up. It is written
  without `SelectSeq` so that the provers can type it. TLC checked that it
  equals the `SelectSeq` filter in every reachable state of the three
  passing reader configurations.
- `phase`, `toPull`, `zones`, `pending` and `addrs` are the locals of one
  `ReadMetrics` call, which runs as several steps because it releases the lock
  between its calls: `RoundBegin` (zone change with a new election, then
  `queryAllOwners`), `PullFrom` (one `readFromOwner`), `OwnerCheck`
  (`isOwner`, `getBackendAddrs`, `collectAllNames`), `Scrape` (one backend:
  `metric2History`, `history2Value`, `mergeQueryResult`), `ScrapeDone`
  (`marshalHistory`) and `EndRound` (`purgeHistory`).
- `lastV1` is a history variable: the timestamp of the last Step1 sample a
  scrape computed.

Failures (`MaxFaults`) are an etcd read, a topology read, a scrape, a pull or a
lost election lease. `Tick` advances one shared clock up to `MaxTime`; a sample
expires when `t + Retention <= now`. `Range2Min` is the number of Step1 points
the Range2 function needs; with fewer it returns NaN. The election (spec §4.1)
is `Campaign`, `LeaseLoss` and `Callback`, which delivers `OnElected` or
`OnRetired` asynchronously, so `isOwner` may lag etcd.

Fairness: each member's `ReadMetrics` loop, its election's campaign and its
callbacks are weakly fair (they run in goroutines of the proxy). Zone changes,
rule edits and the clock are not.

### VIPManager (`VIPManager.tla`, `MCVIPManager.tla`, `VIPManagerProofs.tla`)

Each node of `Nodes` may run a `vipManager`. `rev[n]` is the create revision of
its key under the VIP key (0 for none) and `etcdRev` etcd's revision counter;
the owner is the key with the smallest revision. `up[n]` says the process
runs, `belief[n]` is the last callback its election made, `hasIP[n]` that the
address is on its link (this survives a crash), `arp` the node that last
broadcast ARP and `lastErr[n]` that its last callback returned on an error.
`OnElected(n)` and `OnRetired(n)` are the bodies of the callbacks with each
early return of `manager.go`; they are part of `Start` (which calls
`OnRetired` since the election has not started), of `Elected`, `Retired` and
of `Close` (the election calls `OnRetired` when it owned). `Crash` stops a
process without cleanup. The key of its session (`key/leaseID`) stays in etcd,
in `orphans`, until the lease expires (`LeaseExpire`); while it is there it
owns, if it is the oldest key, and no running node is owner. A restarted
process gets a new session and so a new key with a later revision
(`Campaign`). `LeaseLoss` is a running node's session lost to a partition.
Crashes, `Close` calls and lost sessions share the bound `MaxStops`;
`MaxFaults` bounds only failed `HasIP`, `AddIP`, `SendARP` and `DeleteIP`
calls. `Campaign` of a node that believes it owns waits for `Retired`: the
election reports the loss of the key before it campaigns again (spec §4.1,
one callback per change). `Start` leaves out the `GetIPPort` error, which
returns before anything changes.

Fairness: the election's campaign and callbacks and etcd's expiry of a dead
session's lease are weakly fair. Starting a process is not: an operator may never restart it.

### PromReader (`PromReader.tla`, `PromRegistry.tla`, `MCPromReader.tla`, `PromReaderProofs.tla`)

`exprs` is `queryExprs` (id to expression and whether it still has the label
placeholder), `lastID` the id counter, `results` is `queryResults` (each result
abstracted to the expression it answers and the round time `now` it was asked
at). The loop goroutine is `pc`; `snap`, `todo` and `acc` are the locals of one
`readMetrics` call (the copied expressions, the ids not yet queried, the map
being built). `ReadBegin` models `getPromAPI` failing or the copy under the
lock, `Query(id)` one `queryMetric` (with "job" then "component" for an
expression with a placeholder; Prometheus answers with data, empty or an error
after retries, and a canceled context fails every query), `RoundEnd` the
replacement of `queryResults` when the map is not empty, `Wait` the select on
the ticker and the context, `LoopExit` the loop condition.

Fairness: the loop goroutine's steps are weakly fair (the ticker keeps firing).
Callers (`AddQueryExpr`, `RemoveQueryExpr`, `Close`) are not.

`PromRegistry.tla` is what the reader promises its callers, without the
polling goroutine. `Register` hands out a fresh id, and `Unregister` forgets
one. `Publish` replaces the served map with a whole round. That round is not
empty. It was taken at one time, no older than the results it replaces. Each
entry answers the expression registered under its id, or one removed since.
`PromReader` maps to it by the identity on `exprs`, `lastID` and `results`.
`ImplementsRegistry` is `Registry!Spec` with `Registry == INSTANCE PromRegistry`.

## 3. Runs

| Run | What it shows |
|---|---|
| `replay_single_job` (`MCReplay.cfg`, pass) | One job on two ConnIDs (inputs: two interleaved sessions; a session that starts with ComChangeUser), a close channel of capacity 1, every interleaving. Properties hold: `TypeOK`, `ProgressAtMostOne`, `JobErrorFaithful`, `AtMostOneSession`, `CloseReturns`, `ReplayFinishes`. 1,853 states. `SuccessMeansComplete` is checked only where it can fail (`replay_restart_stale_eof`); with one job it restates the guard of `DecodeEOF`. |
| `filter_all_statements` (`MCFilter.cfg`, pass) | `NoFalseNegative` on every statement of up to three of eleven keywords (1,464 statements). |
| `replay_restart_close_hang` (violation) | `CloseReturns` fails with two jobs: the old drain reads the new channel. |
| `replay_restart_stale_eof` (violation) | `SuccessMeansComplete` fails: the old pacer's `Stop(nil)` ends the new job. |
| `reader_zonal_split` (`MCBackendReader.cfg`, pass) | Two members in zones `zx` and `zy`, one backend per zone, zone changes, rule edits, elections: `TypeOK` and `LatestNeverRegresses` (the newest Step1 and Step2 sample of a member's history never moves back). 1,448,058 states. |
| `reader_faults` (`MCBackendReaderFaults.cfg`, pass) | One backend and one failure of any kind: `LatestNeverRegresses`. 1,580,051 states. |
| `reader_converges` (`MCBackendReaderLiveness.cfg`, pass) | One backend, `Retention = 2`: `EventuallyServeLatest` (once both members keep their rule, every member serves the newest sample). 198,955 states. |
| `reader_step1_lost` (violation) | `Step1KeepsSamples` fails when Range2 needs two points. |
| `vip_steady` (`MCVIPManager.cfg`, pass) | Three nodes, up to three crashes, Close calls or lost sessions, keys of crashed sessions that outlive them, no failing network call: `VIPFollowsOwner`. 102,381 states. |
| `vip_faults` (`MCVIPManagerFaults.cfg`, pass) | Two failed network calls and two crashes, Close calls or lost sessions: `VIPMatchesBelief`. 394,658 states. |
| `prom_rounds` (`MCPromReader.cfg`, pass) | Two expressions, two ids, clock up to 2: `CloseReturns` and `ImplementsRegistry` (the reader implements `PromRegistry`; storing an empty round breaks it). 19,031 states. |
| `prom_drop_result` (violation) | `LastGoodResultKept` fails: a failed query loses its old result. |

Why the bounds are enough:

- Two ConnIDs are enough for a tombstone to matter, for two workers to contend for the channel, and for commands of different sessions to interleave. The second input starts with ChangeUser, which exercises the filtered-command path.
- A channel capacity of 1 makes a full channel, and a worker blocked on it, reachable.
- `MaxStarts = 1` checks one job in isolation. `MaxStarts = 2` is the smallest bound at which the reuse of the replay object shows.
- Two members in two zones give a zonal owner per zone and, before the zone
  is set, a global owner; two backends give one per zone, so exclusion lists
  matter. `MaxTime = 1` with `Retention = 1` makes a sample expire after one
  tick, which is the shortest history where purging, merging and serving
  interact; the violation runs use `MaxTime = 2`. Faults run with one backend
  to keep the state space under a few minutes.
- Three VIP nodes let an owner crash while two others compete; three stops
  allow a crash that leaves a key behind, a lost session and a Close in one
  run, so ownership moves away from a node and back.
- Two PromQL ids are enough for a round to copy an expression that is removed
  and replaced before the round stores its result, and for one query of a
  round to fail while another succeeds.
- The VIP and PromReader passing runs set `CHECK_DEADLOCK FALSE`: once every
  node is stopped, or the reader is closed and the id counter is used up, the
  system has really stopped.
- Every mutant listed in `PROJECT.json` is caught under these bounds.

Each violation run shows the following about the code:

1. **Close can hang after a restart** (`replay.go:234`, `replay_restart_close_hang`). A job is stopped while its connections are still open. A new `Start` replaces `r.closeCh`. The old workers then write to the old channel, which nobody reads, `connCount` never returns to 0, and `Close` blocks in `wg.Wait`.
2. **A stale pacer ends the next job** (`replay.go:169`, `replay_restart_stale_eof`). `readCommands` calls `r.Stop` without naming its job. A pacer canceled while decoding can reach EOF after the next `Start` and stop that job as "finished".
3. **The first Step1 sample is lost** (`backend_reader.go:365`, `reader_step1_lost`). When Range2 returns NaN, `metric2History` continues before writing back `beHistory`, so an irate-style rule never gets its second point.
4. **A failing query erases its last result** (`part_003:94`, `prom_drop_result`). `queryResults` is replaced by a map that leaves failed expressions out, against the comment "Only update the result when it succeeds".

Two more behaviours can be reproduced by changing a bound, with no extra run:

- With `MaxStarts = 2` in `MCReplay.cfg`, `ProgressAtMostOne` and `JobErrorFaithful`, each checked alone, fail: `Start` (`replay.go:105`) resets neither `replayedCmds`/`filteredCmds` nor `err`.
- `VIPFollowsOwner` is stated, and checked, only for runs without a failed network call. With `MaxFaults = 1` in `MCVIPManager.cfg` it fails: a failed call in `OnElected`/`OnRetired` is never retried while the ownership stays (`manager.go:86-99`), and a later `OnElected` that finds the address already present returns without `SendARP` (`manager.go:91-93`). No spec text, comment or test says what the manager should do then, so this is not recorded as a finding.

## 4. Proofs (checked by `tlapm`)

### Replay (`ReplayProofs.tla`)

The proofs assume only `ReplayAssumption`: `MaxStarts` and `CloseChCap` are positive, and the inputs are sequences of commands.

- `TypeCorrect: Spec => []TypeOK`. `TypeOK` is not inductive. `PacerExec` reads `input[g][pos]`, so `pos` must be a valid index whenever the pacer is about to execute. `Start` overwrites `input[gen+1]`, so a pacer of a job not yet started must still be at position 0. A started drain or pacer implies `gen >= 1`, which makes `closeCh[gen]` well defined. `PacerInv` states these facts. `IInv == TypeOK /\ PacerInv` is proved initial (`InitIInv`) and preserved by every action (`NextIInv`, one step per action). The lemmas are:
  - `StopTyped`: what `Stop` writes;
  - `PcOnly`: a pc-only record update;
  - `PacerStep`: a pacer step preserves `PacerInv`;
  - `StartedJob`: a started job is not later than `gen`.
- `OneSessionPerConn: Spec => []AtMostOneSession`. The strengthening is `SessionInv`: `opened[c]` is 0 when `conns[c]` is absent and 1 otherwise. It is needed because `AtMostOneSession` alone does not say that a tombstoned ConnID has already used its one connection. `executeCmd`, the close event and `Start` are the only actions that touch `conns` or `opened`, and each keeps the equation. The proof reuses `NextIInv` for typing.

`IInv` and `SessionInv` were checked with TLC, as invariants of `MCReplay` with `MaxStarts = 2`, before they were proved.

### Replay, first job (`ReplayJobProofs.tla`)

`ProgressAtMostOne`, `SuccessMeansComplete` and `JobErrorFaithful` fail once a
second job starts (section 3). They are proved for the first job, that is, in
every state with `gen <= 1`, for any inputs, ConnIDs and channel capacity.

- `FirstJobProgress`, `FirstJobSuccess` and `FirstJobError` state
  `Spec => [](gen <= 1 => P)`.
- `SingleJobCorrect` states that with `MaxStarts = 1` the three hold in every
  state. This is the bound of `replay_single_job`.

The invariant is `JInv == IInv /\ JobInv`.

- `JobInv` says that jobs above `gen` are still pending. It also says that
  while `gen <= 1`, `FirstJob` holds.
- `FirstJob` is the conjunction of:
  - `CountInv`: replayed plus filtered commands, plus one for a command the
    pacer is decoding or executing, never exceed the pacer's position;
  - `MetaInv`: the metadata count is 0 or the whole input;
  - `ErrInv`: `err` is empty while the job runs and is the job's outcome
    after it ends;
  - `SuccessInv`: a job that ends without an error has its pacer done at
    the end of its input;
  - `ProgressAtMostOne`.

`CountInv` is needed because progress is counted by the workers, after the
pacer has handed a command over. `OnlyPacerOne` shows that, while
`gen <= 1`, only job 1's pacer can move. That is why the stale-pacer finding
cannot arise before a restart. There is one lemma per group of actions:
`PacerJobInv`, `FrameJobInv`, `CallerStopJobInv` and `DecodeStopJobInv`.
`JInv` was checked with TLC on `MCReplay` with `MaxStarts = 2` (420,022
states) before it was proved. A proof for all jobs is impossible, because
the properties are false there.

### Backend reader (`BackendReaderProofs.tla`)

The proofs assume only `ReaderAssumption`. The history theorems need only
`HistTyped`: the clock, both series, the marshalled series and `lastV1`.
`ReaderTypeCorrect` adds the rest of `TypeOK`.

`Last(s)` is a `CHOOSE`, and it is the largest time only if a largest time
exists. `LastIsMax` shows that one does for any non-empty set of times. It
applies the well-ordering of the naturals (`WFMin` with
`NatLessThanWellFounded`) to the distances from `MaxTime`. `LastMono` and
`LastPurge` follow: a larger set has a later maximum, and a purge that
leaves something keeps the maximum.

- `HistoryNeverRegresses: Spec => LatestNeverRegresses`. `HistForms` shows
  that each step leaves a series in one of five forms: unchanged, with `now`
  added, empty, purged, or merged with an owner's series.
  `FormsNotEarlier` shows that none of these forms moves the latest pair
  back. The only invariant the proof needs is `HistTyped`.
- `ReaderTypeCorrect: Spec => []TypeOK`. `TypeOK` is inductive. It splits
  into `HistTyped` and `OtherTyped`, and `OtherTypedStep` has one case per
  action. It rests on three lemmas:
  - `DropKeyTyped`: deleting a key leaves a sequence of keys;
  - `OwnerIsMember`: `OwnerOf`'s `CHOOSE` of the first key of a zone has
    a witness. `NatMin`, the least element of a non-empty set of
    naturals, supplies it, again from `WFMin`. So `queryAllOwners` only
    names members;
  - `ResultTyped`: a merged result is a time or `None`, by `LastIsMax`.

### VIP manager (`VIPManagerProofs.tla`)

The proofs assume only `VIPAssumption`: the bounds are natural numbers; the set
of nodes is arbitrary.

- `VIPTypeCorrect: Spec => []TypeOK`, from `TypeStep`. The lemmas
  `OnElectedEffect` and `OnRetiredEffect` state what the callback bodies leave:
  the address is on (off) the link unless the call failed, and no other node
  changes.
- `VIPBeliefHolds: Spec => []VIPMatchesBelief`. `TypeOK /\ VIPMatchesBelief` is
  inductive: each step either leaves a node's address, belief, error flag and
  liveness alone, stops the node, or runs a callback body right after setting
  the belief it serves. The proof has one step per action and splits on the
  node the action acts on.

### Prometheus reader (`PromReaderProofs.tla`)

The proofs assume `PromAssumption`: the bounds are natural numbers and `None`
is neither an expression nor a result.

- `ResultsMatchExprs: Spec => []ResultMatchesExpr`, the step on which the
  refinement below rests (no run checks `ResultMatchesExpr` by itself, since
  `ImplementsRegistry` implies it). The invariant is not
  inductive, since a result is copied from the round's map, and that map from
  the round's snapshot. `IInv` adds `TodoCopied` (a round only queries ids it
  copied), `FreshIDsEmpty` (nothing is stored under an id above `lastID`),
  `SnapCurrent` (a copied expression that is still registered is the
  registered one) and `AccFromSnap` (an entry of the round's map answers the
  copied expression). `FreshIDsEmpty` is where "ids are never reused" enters:
  `AddQueryExpr` writes to `lastID + 1`, where nothing else is stored. One
  lemma per action that writes these variables (`AddStep`, `QueryStep`,
  `ReadBeginStep`, `RoundEndStep`).
- `PromTypeCorrect: Spec => []TypeOK`, from the same invariant (`TypeOK` alone
  is not inductive: a query on an id the round did not copy would build a
  result from `None`).
- `PromRefinesRegistry: Spec => ImplementsRegistry`. The proof adds `TimeInv`:
  every entry of the round's map is stamped with the current round time, and
  every served result is no newer than it.
  - `Init` maps to `Registry!Init`.
  - `AddQueryExpr` maps to `Register` and `RemoveQueryExpr` to `Unregister`.
  - A `RoundEnd` with a non-empty map maps to `Publish`, with witnesses the
    map and `now` (`RoundEndPublishes`). `FreshIDsEmpty` bounds its ids by
    `lastID`. `AccFromSnap` and `SnapCurrent` tie its entries to the
    registered expressions.
  - Every other step leaves the three mapped variables unchanged.
  - The proof closes with PTL.

Some things stay with TLC only:

- The liveness properties (`CloseReturns` of both modules, `ReplayFinishes`,
  `VIPFollowsOwner`, `EventuallyServeLatest`). They rest on fairness and `ENABLED`, which TLAPS cannot reason about here.
- The filter, whose loop is a `RECURSIVE` operator.
- The replay job invariants after a restart. They are false there, so only their first-job form is proved.

## 5. Not modelled

- `lib/cli/util.go` (CLI output formatting, flag helpers and a log encoder),
  `pkg/proxy/net/command.go` beyond `ComChangeUser`, the proxy protocol types
  and the namespace KV wrapper: pure conversion or I/O with no concurrency.
- The network operations of `part_002` (netlink and ARP calls): abstracted to
  their effect and their failure.
- `filterMetrics` and `parseMetrics` of the backend reader: a rule's metrics
  are present or not.
- The older copy of the backend reader in lines 647-1096 of
  `backend_reader.go`, which the zonal version in lines 1-646 replaces.
- The `elect` package, the job manager, `conn.Run` and the lexer are not under
  `src/`; only their contracts from the spec appear, as the environment of the
  modelled components.
- Clock skew between proxies: the backend reader shares one clock.

## 6. Plan for the rest of the project

1. An abstract specification of the backend reader ("every member serves a
   recent sample of each backend") with a refinement mapping from
   `BackendReader`.
2. The election itself as a module with a refinement to "at most one owner per
   key", shared by the VIP manager and the backend reader.
3. Replay over several jobs: a passing run with `MaxStarts = 2` for the
   properties that survive restarts.
4. Action properties of the VIP manager and the Prometheus reader, proved from
   their inductive invariants.
