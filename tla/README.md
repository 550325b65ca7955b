# A TLA+ model of agentic_lab

agentic_lab runs bounded coding agents on pull requests. GitHub deliveries become
*runs*; runs wait in a queue kept in PostgreSQL; worker processes lease them,
orchestrate a role agent (scout, assessor or CI repair) and record the outcome. The only
path that writes to GitHub is the CI push flow.

This directory holds TLA+ modules for the parts of the program where the order of steps
of several actors decides, TLC configurations that check them on small instances, and
proofs that hold for every size of instance. Source paths below are relative to
`src/src/agentic_lab/`, documents are in `src/docs/`.

## 1. Inventory

| Component | Code | State it keeps | Operations | Interacts with |
|---|---|---|---|---|
| Status table and run service | `domain/enums.py`, `runs/service.py` | `runs.status`, `run_transitions`, `run_causal_links` | `create_queued_run`, `transition_run`, `supersede_active_runs`, `link_run`, `list_transitions` | called by the API and the workers in their transactions |
| Durable queue and workers | `runs/leases.py`, `runs/heartbeat.py`, `runs/worker.py` | `run_leases` rows; per worker its session, heartbeat thread and `_lost` event | `claim_next_run`, `heartbeat_lease`, `release_lease`, `process_claimed_run`, `main` | row locks with other workers and with API transactions |
| GitHub intake API | `api/app.py`, `api/security.py` | `webhook_events`, new runs, causal links | `github_webhook`, `replay_github_fixture`, `cancel_run`, manual runs, reviews, opt-ins, pages | GitHub (duplicated, reordered deliveries), run service |
| CI push flow | `runs/ci_push.py`, `policy/push_gate.py`, `policy/audit.py`, `gateway/github.py`, `gateway/github_app.py` | policy decisions, patch artifacts, status; the branch on GitHub | `push_validated_patch`, `evaluate_push_gate`, `apply_validated_patch`, `apply_unified_diff` | GitHub, and humans who push to the branch |
| Orchestrators and artifact store | `runs/orchestrator.py`, `runs/artifacts.py` | transitions, artifacts, call records of one run | `run_*_orchestration`, `store` | agents, tool registry, executor |
| Role agents | `agents/*.py` | none | build a request, validate the output | model gateway |
| Model gateway | `gateway/model.py` | turn, tool call, cost and time counters of one call | the turn loop, one repair of an invalid answer | tool registry, provider over HTTP |
| Tool registry, snapshots | `tools/*.py` | call counter, tool records, citation locators | `execute`, from the threads of the tool calls of one response; reads of a pinned snapshot | model gateway |
| Capability gateway, GitHub reads | `gateway/capability.py`, `gateway/github_read.py`, `gateway/github_evidence.py` | decisions; the page and the items of one read | `fetch_snapshot`, `fetch_pull_request_diff`, `fetch_check_evidence`, each behind a recorded decision | GitHub, whose branch moves; orchestrators |
| Patch policy and application | `policy/patch.py`, `gateway/patch_apply.py`, `gateway/redaction.py` | none (pure) | path rules, hunk application, secret scan | CI push flow |
| Manifest registry | `policy/manifest_registry.py` | `executor_manifests` | approve a manifest, retire the previous one | API, executor |
| Executor | `executor/*.py` | run directories with request, workspace and result; containers | `run_recipe`: prepare, start, wait, remove, `load_result`; `execute_request` in the container | Docker; the container shares the directory and may outlive the launcher |
| Evaluation | `evaluation/*.py` | fixture and batch results | evaluate a batch against its release gates | none |
| Persistence, settings, schemas | `db/*.py`, `config/settings.py`, `domain/schemas.py` | table definitions | none | everything |
| Tracing | `gateway/tracing.py` | none | sends spans | external service |

What is hard in this system, and what correctness means for each part:

- **Queue.** Claim and processing are two transactions at READ COMMITTED; locks are
  taken in one and not in the other; a lease is compared, renewed and deleted at
  different moments, in different threads; workers crash; heartbeats are late. Correct:
  a leased run can always be found again, a run gets one outcome, an ended run stays
  ended, nothing waits for ever.
- **Intake.** Deliveries are duplicated, replayed, forged and reordered; webhook requests
  are serialised by the event loop and replays are not. Correct: one run per delivery,
  event and run agree, one CI run per head, superseded runs have a replacement, every
  request is answered.
- **CI push.** The branch moves between any two calls; a write cannot be rolled back
  although the transaction that records it can. Correct: nobody's commit is lost, nothing
  is written without the whole evidence, the recorded status tells of every write that no
  rollback has disowned.
- **Orchestration, gateway, tools.** Budgets are checked between calls whose cost is known
  afterwards; tool calls of one response run in threads, and go on when one of them raises.
  Correct: budgets bound what is spent up to the last call, every run leaves the records its
  status implies.
- **Evidence.** Each read is several requests, between which the branch moves; lists come in
  pages, excerpts are cut at two limits. Correct: every read has its recorded decision,
  a denied run keeps no evidence, evidence is whole or says that it is not, what is cited is
  found again.
- **Executor.** Launcher and container share a directory and die separately; nothing removes
  a directory; calls to Docker fail at any point. Correct: a caller gets the result of its own
  container, no two containers write one directory, containers do not stay.
- **Patches.** One diff is applied twice, by two pieces of code, to the files of a snapshot and
  to the Git tree of a commit. Correct: where snapshot and commit agree, so do the results, and
  they are what the diff says.
- **Manifest registry, patch policy, evaluation.** At most one approved manifest for a
  repository; the policy judges the paths that are written; a gate refuses a batch exactly
  when a threshold is missed.

`PROJECT.json` lists every hazard at its line, with the properties that cover it or why
none does yet.

## 2. Modules

| Module | Content |
|---|---|
| `RunStatus` | run statuses, `ALLOWED_TRANSITIONS`, and `MayMove`, the condition of `transition_run` |
| `RunLeases` | the queue: tables, workers, heartbeats, crashes, cancelling and superseding transactions; its inductive invariant |
| `RunLifecycle` | the abstract specification of the queue: submitted, claimed, ended once by a worker, ended from outside at any time |
| `RunLeasesProofs` | theorems about `RunLeases` |
| `MCRunLeases` | instances of `RunLeases` |
| `WebhookIntake` | the intake: webhook and replay requests, deduplication, supersession, CI runs; its inductive invariant |
| `WebhookIntakeProofs` | theorems about `WebhookIntake` |
| `MCWebhookIntake` | the requests of its instances |
| `CiPush` | the CI push flow and the branch it writes to; its inductive invariant |
| `CiPushProofs` | theorems about `CiPush` |
| `ToolRegistry` | the tool registry: numbering, evidence window, records, locators, per thread |
| `AgentRun` | one `dispatch_run`: orchestrator, role agent and model gateway, composed with `ToolRegistry`; its inductive invariant |
| `AgentRunProofs` | theorems about `AgentRun` |
| `PatchApply` | unified diffs: parsing, application, the workspace and the Git tree they make; what a diff means, line by line |
| `PatchProofs` | theorems about the operators of `PatchApply` |
| `ExecutorTransport` | the launcher: requests, run directories, containers and the adapter inside them; composed with `PatchApply`; its inductive invariant |
| `RecipeOnce` | the abstract specification of the launcher: one launch claims a run and recipe, and only that one may return a result |
| `ExecutorProofs` | theorems about `ExecutorTransport`, and its refinement of `RecipeOnce` |
| `MCExecutorTransport` | launches that compete, and single launches with every small diff |
| `SnapshotRead` | reads and searches of a snapshot, locators, and how citations are resolved |
| `EvidenceRead` | one `_snapshot_tools`: decisions, archive, pages of files and annotations beside a moving branch; composed with `SnapshotRead` for the citations that follow; its inductive invariant |
| `EvidenceReadProofs` | theorems about `EvidenceRead` and `SnapshotRead` |
| `MCEvidenceRead` | heads, pages, files and requests of its instances |
| `Induction` | induction over the natural numbers, for the proofs about recursive functions |

`AgentRun` opens the step that `RunLeases` takes as one (`Dispatch`): the statuses its
`EndsInOutcome` allows are the `WorkerOutcome` of `RunLeases`, which in turn owes
`AgentRun` that only its transaction writes what is stored. `EvidenceRead` opens its
`SnapshotUnavailable` and `StartAgent`: "denied" and "refused" there are the missing registry
here. The tree that `ExecutorTransport` tests is compared with the one `CiPush` writes:
`PushedTree` is the content of its `UpdateRef`.

Operators called "Mutant of X" are wrong versions of X, next to the right one; they show
that each property would notice a plausible bug. No specification uses them.

### RunLeases and the code

| TLA+ | Code |
|---|---|
| `status`, `lease`, `expired` | committed rows of `runs` and `run_leases`; `expired` is the order in which leases passed `expires_at` |
| `rowLock` | the PostgreSQL row lock of a run |
| `view` | `run.status` in the SQLAlchemy session of a processing transaction |
| `Submit` | `create_queued_run` and its commit |
| `ClaimQueued`, `CommitClaim` | the claim transaction of `main`; `FOR UPDATE SKIP LOCKED` has no `LIMIT`, so it locks every queued row |
| `Reclaim` | the second half of `claim_next_run`: only the lease that expired first is looked at |
| `Load`, `Dispatch` | `process_claimed_run` up to the end of `dispatch_run`, including its `except` |
| `HeartbeatFails`, `StopHeartbeat` | `LeaseHeartbeat._run` and `__exit__` |
| `ReleaseLease`, `Commit` | `release_lease` and the commit of the processing transaction |
| `Crash` | the process dies, PostgreSQL rolls its transaction back |
| `ClientRead`, `ClientWrite`, `ClientCommit` | `cancel_run`; `supersede_active_runs` for one run |

Three details decide what can happen.

- *When the outcome takes the row lock.* The first flush of the changed run does, and the
  orchestrators flush at various places; at the latest it is the autoflush of
  `release_lease`, after the heartbeat has stopped. `Dispatch` is therefore enabled both
  while the heartbeat runs and after it has stopped.
- *When the lease row is locked by its deletion.* `session.delete` may be flushed before
  the commit or by it. `Reclaim` may therefore skip a lease that a worker is releasing
  (it is locked) or take it (it is not yet); in the second case `Commit` deletes the row
  by `run_id` all the same.
- *Where a claim gets stuck.* When the lease that expired first belongs to a run that is
  no longer leased, `claim_next_run` returns `None` and leaves the row in place.
  `Reclaim` is then disabled, for every worker, until that row goes away.

`dispatch_run` is reduced to the outcome it reaches. `status` keeps only what commits:
intermediate statuses never leave the session. Columns nobody reads (`acquired_at`,
`heartbeat_at`, `attempt`) are left out.

### WebhookIntake and the code

A run is named by the request that queued it, and an action is a request up to the next
point where another transaction can come in: the select for the delivery id
(`Deduplicate`), the insert that takes the unique key (`InsertEvent`), the select and
the locking update of a supersession (`SelectCandidates`, `WriteCandidates`), the select
for a CI run (`SelectExistingCi`), and the commit. `github_webhook` is an `async`
function that works on the database synchronously, so at most one webhook request is
between its start and its end (`MayStart`); `replay_github_fixture` is a plain function
that runs in a thread. `Claim`, `Load`, `Flush`, `Finish` and `Cancel` are what
`RunLeases` does to a run, as far as a request can see it. Payload checks and rejection
reasons are reduced to `kind`. A causal link is a pair of runs; its relation follows from
the kind of its target (`superseded_by`, `failed_check_after_assessment`).

### CiPush and the code

`Begin` to `Commit` is one call of `push_validated_patch` in the transaction of its caller.
In `src/` only tests call it, so that the caller is assumed: a processing transaction like
that of the other roles, rolled back by `Rollback`. The early `ValueError`s
(`ci_push.py:38-41`) are its contract. Evidence is six Booleans and counters of
`PushContext`; a mismatch of the changed paths, a policy violation and a detected secret
are all `~cleanDiff`. The writer has an allowlist of its own (`listed`): `_authorize` raises
before either read of the ref, a `PermissionError` that ends the run refused without a
decision, as a head that has moved before `ReadRef` does. `RecheckHead` records its refusal.
What a transaction has written before it was rolled back stays on GitHub: `lost` remembers
those commits, and `reads` the heads the writer has seen. GitHub is external: it accepts an update without force when the new
commit descends from the branch head. Humans push, and reset the branch to an ancestor,
between any two steps.

### AgentRun, ToolRegistry and the code

| TLA+ | Code |
|---|---|
| `NotConfigured`, `SnapshotUnavailable`, `SnapshotFails`, `StartAgent` | the orchestrators up to the call of the role agent, and the `except` of `process_claimed_run` |
| `TurnsExhausted`, `AskForTools`, `AnswerIsValid`, `AnswerIsInvalid`, `ConfigurationRefused`, `ProviderRefuses`, `RequestBreaks`, `Return` | `PydanticAIModelGateway.run_agent_loop`; `GatewayEnds` is where it sets `last_call`, `RequestBreaks` an exception it does not know: a `ValueError` (an answer that is no JSON) ends the run refused, any other one failed |
| `StartCall`, `TakeSequence`, `Execute`, `Record`, `CallReturns`, `CallRaises` | a tool function of the gateway and `SnapshotToolRegistry.execute`: number under the lock, execution without it, record under the lock |
| `Window` | `evidence_round_limit` and `evidence_call_limit` of `run_scout` |
| `AgentChecks` | what a role agent requires of the output |
| `Records`, `RecordError`, `StoreArtifact` | the rows and the `except` clauses of the orchestrators |

The agent loop itself belongs to pydantic-ai and is external. The gateway relies on this
much of it: the request limit is checked before each request and the tool call limit before
each batch of calls; the calls of a batch run in threads; one invalid output is sent
back; an exception of a tool leaves the loop while the threads of the other calls run on.
Everything an orchestrator stores is in one transaction, so that only its contents at the
end matter (`stored`). Statuses inside the transaction are checked with `MayMove`: a
forbidden one would leave the action disabled and `EndsInOutcome` would fail. The HTTP loop
`OpenRouterModelGateway` and `refuse_ci_failure` have no caller outside the tests and are
not modelled.

### ExecutorTransport, PatchApply and the code

| TLA+ | Code |
|---|---|
| `Ask` | `run_recipe` and `validate_recipe_request`: `valid` is every check of token, image, manifest and arguments |
| `owner`, `request`, `workspace`, `result` | the run directory named by run id and recipe name, its `input/request.json`, `workspace/` and `output/result.json` |
| `MakeDirectory`, `Prepare` | `ExecutorTransport.prepare`: `mkdir` with `exist_ok=False`, then the files |
| `StartBox`, `WaitReturns`, `WaitFails`, `RemoveBox` | `DockerContainerRunner.run`: `containers.run`, `wait` with a timeout, the `finally` |
| `LoadResult` | `load_result` and `verify_identity`, which leaves out the arguments |
| `Files`, `Base` | the `snapshot_files` of the request, which `prepare` writes, and the tree of its `source_sha` on GitHub |
| `CopySource`, `ApplyPatch`, `RunRecipe`, `BoxExits` | `execute_request` and `main` of the adapter, in the container |
| `Crash`, `BoxDies` | the launcher process dies and comes back; a container is killed; both independently |
| `WriteWorkspace` | `_apply_workspace_diff`: section after section, on files |
| `PushedTree` | the entries `apply_unified_diff` posts with `base_tree` |
| `Body`, `Applied` | `parse_text_diff`, `apply_text_diff` |
| `Reading` | no code: what a unified diff says, the reference of `PatchMeansWhatItSays` |

A container has a life of its own: it goes on after the launcher has died, writes into the
directory that is still there, and is removed by nobody. `fault` marks containers about
which a call to Docker has raised; for them `BoxesAreRemoved` promises nothing, since
`containers.run` may raise after it has created one and `remove` is tried once.
A scenario gives each request its SHA's tree and its files separately, because nothing in the
code ties one to the other: `_read_archive` leaves links, binary and large files out of a
snapshot and replaces what is not UTF-8. `Agree` compares the two at a path. In a diff paths
are safe and base files are text with one kind of line end.

### EvidenceRead, SnapshotRead and the code

| TLA+ | Code |
|---|---|
| `Authorize` | `CapabilityGateway.fetch_*`: the first check that fails, recorded before `PermissionError`; `allow` recorded before the read |
| `WantsDiff`, `WantsCheck`, `Fetches`, `AfterSnapshot`, `AfterDiff` | `_snapshot_tools`: which evidence a run reads, in which order; a scout reads the snapshot only (`orchestrate_scout`) |
| `Stop` | the `return None` of `_snapshot_tools`, with which what was read so far is gone; "denied" is a `PermissionError` |
| `ReadArchive` | `_read_archive`: links, binary files and files over the limit are skipped |
| `ReadPull`, `ReadCheckRun` | the one request in which the head is compared with the pinned SHA |
| `NextPage`, `Returns`, `Paginated`, `MoreFollow` | `_paginated`: a turn of its loop, its returns, and the request behind the loop |
| `ReadLogs` | `_github_actions_logs`: refused logs are named as unavailable |
| `RequestFails` | an HTTP error ends the run as failed, a `ValueError` as refused |
| `ReadFile`, `TextMatches`, `StructureMatches`, `Locator` | the reads of `RepositorySnapshot` and the locators in their results |
| `UseTool`, `CanonicalLocator`, `Cite` | `_remember_citation_locators`, `canonical_locator`, and the citations `run_scout` keeps |
| `Resolves` | `citation_resolution` |

A character has one byte, and a content hash is the excerpt: two excerpts with the same text
in different places have the same hash, as in the code. The model may claim any place for an
excerpt it was given. The order of the pages and the head they belong to are GitHub's:
`ReadFiles` answers with the files of the head the branch has at that moment.

## 3. Runs

| Run | Instance | What it shows |
|---|---|---|
| `races` | 2 workers, 2 runs, 1 API transaction, 1 crash, 1 fault | the invariants, that no ended run comes back, that the queue drains, and that all of it implements `RunLifecycle`, safety and liveness |
| `poison` | as `races` | *violated:* `docs/architecture.md:73` "A crashed worker leaves a lease that another worker can reclaim after expiry" |
| `immutable` | 2 workers, 1 run, 1 API transaction | *violated:* `docs/data-model.md:50` "Terminal status is immutable" |
| `intake` | 4 of 7 requests: a push and its replay, two checks of one head, a bad signature, a bot, a fork | the invariants of the intake, and that every request is answered |
| `late_delivery` | the opening of a pull request at head 1 and a push of head 2 | *violated:* `docs/contracts.md:27` "A later human head SHA supersedes older work" |
| `push_gate` | 5 commits, 2 attempts | no commit lost; a write has the whole evidence, no deny decision and no read of another head before it; status tells of the writes that were not rolled back |
| `reset_branch` | as `push_gate` | *violated:* `docs/implementation-plan.md:112` "A changed head SHA ... produces no GitHub write" |
| `orchestration` | 2 threads, 5 turns, 7 tool calls, money for 2 | success keeps the budgets and is backed by evidence, a run that did not fail has a row for every call, and its whole cost if it kept an artifact or ran out of budget; every run ends in an outcome |
| `lost_cost` | 2 threads, 5 turns, 3 tool calls | *violated:* `docs/PRD.md:69` "Every ... model call, ... cost ... shall be tied to a run ID" |
| `executor` | 2 launches of one run with one recipe or two, the same or other arguments, 1 crash; 1 launch with each of 2,592 diffs, and with snapshots that lack a file or have other text for it | results are own, writers alone, containers removed, launches answered, the launcher implements `RecipeOnce`; the tested tree is the pushed one where snapshot and commit agree, and reads as the diff says |
| `evidence` | heads with 0, 3, 4 and 5 files at 2 a page and 4 at most, 6 annotations, 1 push, 2 excerpts; every role, and each defect of a request | every read has its decision, stopped runs keep nothing, evidence is whole or marked, reads say when they are cut, kept citations resolve |
| `moved_head` | two heads with different files, 1 push | *violated:* `docs/contracts.md:37` "Bound pull request and exact head SHA" |

**Further configurations.** Seven more are kept beside the runs. In each TLC finds the property
violated, and each says of a document what the runs above leave to a condition:

| Configuration | Property | What TLC shows |
|---|---|---|
| `MCWebhookIntake_second_loop.cfg` | `OneActiveCiPerHead` (`docs/implementation-plan.md:80`) | a check run by webhook, the other by replay in a thread: two CI runs for one head |
| `MCWebhookIntake_dropped_delivery.cfg` | `DuplicatesAreOfVerified` (`docs/contracts.md:25`) | a badly signed request stores its delivery id; the valid delivery is answered as a duplicate |
| `CiPush_unrecorded_refusal.cfg` | `EveryRefusalIsRecorded` (`docs/contracts.md:97`, `docs/implementation-plan.md:113`) | a repository outside the writer's allowlist, or a head that moved before the last read: refused, with allow decisions only |
| `CiPush_lost_write.cfg` | `SupersededByHumans` (`docs/data-model.md:46`) | a write whose transaction is rolled back: the next attempt is superseded by the run's own commit |
| `AgentRun_lost_calls.cfg` | `CallsAreRecorded` (`docs/PRD.md:69`) | a tool raises: the row of its call is missing |
| `MCExecutorTransport_stripped_snapshot.cfg` | `TestedTreeIsPushed` (`docs/PRD.md:62`, `docs/contracts.md:92`) | a snapshot without a file of the commit: what is tested is not what is pushed |
| `MCExecutorTransport_short_count.cfg` | `CountsAreChecked` (`gateway/patch_apply.py:75`) | a hunk with one line more than its header counts is applied without it |

**Bounds.** Two workers and two runs are enough for a takeover, for a takeover of a
takeover, and for an expired lease that stands in the way of another; a crash and a
heartbeat fault are enough for each pair of them to meet on one run. In the intake two requests
of each kind that interact are present, of which at least one runs in a thread; any four of
them arrive, in any order, enough for a supersession of a linked CI run beside a duplicate. In
`push_gate` one commit of the writer and two of humans fit between the pinned head and
the bound, so that a human push and a reset happen at each gap, before and after an update
whose transaction is rolled back. In `orchestration` five turns leave a scout one round of
evidence and six calls of it out of seven, so that both limits of the window refuse calls, and
each budget can be the one that ends the run; two threads overlap in every order; a request
costs 0 or 1, so that the billed cost falls below, on and above its limit. In `executor`
two launches share a directory, share a run only, or differ in their arguments; one crash is
enough for a container to outlive the launch that started it while another is served; the diffs
are all single hunks of at most two lines on a file with repeated lines, with right and
wrong counts at every position, all pairs of one-line hunks, and all pairs of sections that
create, edit, rename or delete the same files. In `evidence` the numbers of files lie below,
on and above the limit and are not all multiples of a page; excerpts are cut by lines and
by bytes, at a line end and within a line. The proofs below remove the bounds
for every safety property; for liveness they remain.
`CHECK_DEADLOCK FALSE` is set everywhere because every instance may come to rest: all
runs ended, all requests answered.

**Fairness.** `RunLeases!Fairness`: a worker that is up polls every second, and its
transactions end because model and executor calls have timeouts; an API transaction that has
begun ends; a lease that nobody renews expires. Crashes, faults, submissions and
cancellations are never forced. `WebhookIntake!Fairness`: requests arrive, handlers run,
and a processing transaction that holds a row lock ends. `AgentRun!LiveSpec`: the run as a
whole goes on, because requests have a timeout and tools read memory; no thread is
favoured. `ExecutorTransport!Fairness`: the launcher's thread goes on, because every call it
waits for has a timeout (`container.wait(timeout=...)`); nothing is assumed of containers,
which may hang. `CiPush` and `EvidenceRead` state no liveness.

**Findings.** Each violated run is a disagreement between the code and the line it quotes;
`PROJECT.json` describes them under `findings`. In short:

1. *A lease of an ended run blocks all takeovers* (`runs/leases.py:36`). A worker crashes,
   its run is superseded or cancelled, the lease expires: every later claim looks at this
   lease first and returns nothing.
2. *Terminal statuses overwrite each other* (`runs/service.py:94`). Cancellation and worker
   judge the status they read, and write by primary key.
3. *An older head supersedes a newer one* (`runs/service.py:63`). SHAs are compared for
   equality only, so that a delivery that arrives late supersedes the run of the later push,
   with the reason `newer_human_head_sha`.
4. *A write on a head that has changed* (`gateway/github.py:153`). Between the last read of the
   ref and the update a human resets the branch; GitHub accepts the update as a fast-forward,
   and the reset is undone. A push in the same gap is refused, and `HumanWorkIsKept` holds.
5. *A cost that is lost* (`gateway/model.py:314`). Any exception but three known ones leaves
   `last_call` empty, and the model call is stored as free. The run ends failed, or refused
   when the exception is a `ValueError`.
6. *Evidence of another head* (`gateway/github_read.py:134`). The head is compared once; the
   pages read afterwards are those of whatever head the branch has by then.

The further configurations show seven more:

7. *Two CI runs for one head* (`api/app.py:508`). A replay beside a webhook.
8. *A valid delivery that is dropped* (`api/app.py:351`). The row of a rejected request makes
   every later delivery with its id a duplicate.
9. *Refusals without a decision* (`runs/ci_push.py:100`). Of the refusals behind the gate only
   the one of `apply_validated_patch` calls `audit`; those of `_authorize` and of the last read
   of the ref (`gateway/github.py:193` and `79`) do not.
10. *A run superseded by itself* (`runs/ci_push.py:82`). After a rollback the head it observes is
    its own commit. `StatusTellsTheWrite` therefore speaks of what no rollback has disowned.
11. *Tool calls without a row* (`tools/registry.py:213`). An exception outside three classes
    leaves `execute` before the record, and the rows are stored while other threads run on.
    `UsageIsKept` therefore speaks of runs that did not fail.
12. *Tested files that are not the commit's* (`executor/adapter.py:32`, `executor/service.py:64`).
    `ValidatedIsPushed` therefore compares the trees where the files agree with the commit,
    and at every path the patch touches.
13. *Lines a header does not count are dropped* (`gateway/patch_apply.py:62`). The loop ends
    when the counts are met; what follows up to the next header is skipped, and the patch is
    tested and pushed without it.

Three behaviours are excluded from properties by a stated condition, and no document of the
repository promises more: a hunk without old lines behind line 0 is inserted one line early
(`SaysWhere`), a symbol longer than `MAX_READ_LINES` has a locator that does not resolve
(`CitationsResolve`), and exactly 300 files are marked as truncated, because the request behind
the loop counts items instead of pages (`MoreFollow`).

## 4. Proofs

Every safety invariant, every action property and the safety part of both refinements that the
runs check is proved with TLAPS, for every value of the constants. Liveness stays with TLC.

| Module | Theorems |
|---|---|
| `RunLeasesProofs` | `InductiveInvariant`, `TypeCorrect`, `LeasedRunsHaveLeases`, `QueuedRunsAreUntouched`, `OutcomesAreSingle`, `EndedRunsStayEnded` (`TerminalStaysTerminal`), `QueueRefinesLifecycle` |
| `WebhookIntakeProofs` | `IntakeInvariant`, `IntakeTypes`, `DeliveriesQueueOneRun` (`OneRunPerDelivery`), `EventsMatchRuns`, `SupersededAreReplaced`, `EventsAreImmutable`, `OneCiRunPerHead` (`OneActiveCiPerHead`) |
| `CiPushProofs` | `PushInvariant`, `PushTypes`, `StatusIsTrue` (`StatusTellsTheWrite`), `WritesAreJustified` (`WriteIsJustified`), `HumanWorkSurvives` (`HumanWorkIsKept`) |
| `AgentRunProofs` | `AgentInvariant`, `AgentTypes`, `CountersAgree` (`BudgetsAgree`), `SuccessIsPaidFor`, `UsageSurvives` (`UsageIsKept`), `ClaimsRestOnCalls` (`EvidenceBacksClaims`) |
| `ExecutorProofs` | `ExecutorInvariant`, `ExecutorTypes`, `ResultsAreOwn`, `WritersAreAlone`, `BoxesAreGone`, `LauncherRunsRecipeOnce`, `TestedTreeStays`, `PushedIsTested` (`ValidatedIsPushed`), `PatchedAsSaid` (`PatchMeansWhatItSays`) |
| `PatchProofs` | `WorkspaceIsPushed`, `WritesAgree`, `PatchReads`: no behaviour, only what the operators of `PatchApply` compute |
| `EvidenceReadProofs` | `EvidenceInvariant`, `EvidenceTypes`, `ReadsAreDecided` (`DecisionsCoverReads`), `EvidenceIsWhole` (`WholeOrTruncated`), `CitationsStand` (`CitationsResolve`), `CutsAreTold` (`ReadsSayWhenCut`) |
| `Induction` | induction over numbers in first-order form, and the type of an iteration |

Each proof has the same shape: the inductive invariant `IndInv` (in the component's module,
after its properties) holds initially (`InitInvariant`), one lemma for each action or for a group
of actions with the same effect shows that it is kept, `NextInvariant` joins them, and each
property follows. Before a proof was begun TLC had checked the invariant on the component's
run: 276,358 states of `intake`, 484,065 of `push_gate`, 954,341 of `orchestration`, 44,351
of `evidence`, and `TestedTree` on the 589,536 of `executor`. Of these only the `IndInv` of
`RunLeases` is also listed in a configuration.

### The queue

*Assumed:* runs are numbered by `created_at`, every worker has an id (two processes under
one host name share one), workers and API transactions are different things, the bounds on
crashes and faults are natural numbers.

`SingleOutcome` is not inductive: it must be known why two workers that
both process a run cannot both publish. The chain is: a worker may publish only when it has
flushed, which means that it holds the row lock (`LocksAreHeld`), so that of two workers
one waits; `ReleaseLease` lets only an owner of the lease go on to publish, and
the commit that publishes deletes the lease row for ever, because a run with an outcome is
terminal and terminal runs are not leased again (`OutcomeEndsLease`). The worker that
waited finds no row and rolls back. That ended runs stay ended needs that a claiming
worker holds the lock of a row that is still queued (`LocksAreHeld`), and that a run being
processed is leased or ended (`JobsAreOut`). `LeasedHasLease` needs `JobsAreOut` for the one
step that deletes a lease row: if the releasing worker flushed, its commit ends the run; if
it did not, the run had already ended.

`QueueRefinesLifecycle` shows that every step of the queue is a step of `RunLifecycle` or
invisible. It needs the invariant, and besides that whoever ends a run has seen it
(`EndsAreExplained`): an API transaction writes over the outcome it did not see, which
`RunLifecycle` allows as `End`, and a worker's outcome is published once, its `Finish`.

### The intake

*Assumed:* `ContentIsGiven` (what each request carries) and a natural number of requests.

One run per delivery rests on the unique key: while a request holds it, no other request with
the same delivery id does (`OneKeyHolder`) and no event with that id is committed
(`KeyIsUncommitted`); a run exists only once its request has ended and its event says so
(`RunsAreRecorded`). So whoever commits a run is the first. For supersession, what a request
selected earlier must still be true when it writes: its candidates are committed runs of the
same pull request and another head (`CandidatesAreOfOtherHeads`), which no step changes. Their
status may have changed by then, and is overwritten in the commit that writes the link.

`OneCiRunPerHead` has a hypothesis, `ChecksAreWebhooks`: failed checks do not arrive through
the replay endpoint. It is needed, as `MCWebhookIntake_second_loop.cfg` shows, and enough: webhook
requests are serial (`WebhooksAreSerial`), so that what `SelectExistingCi` has seen is true at
the commit (`NoCiRunMeanwhile`).

### The push

*Assumed:* the pinned head is a commit, the bounds are natural numbers. Nothing is assumed of
humans: they push and reset between any two steps.

The flow is a line of places, and the invariant says what has been passed at each: behind
the first gate the context is the one that was judged and nothing has been denied since
(`ContextIsJudged`); behind the second its decision is in the session (`GateIsRecorded`);
behind the recheck the writer's allowlist has the repository and no head but the pinned one has
been read (`ReadsArePinned`). `WritesAreJustified` is these three at the update. Until the
update every commit of the writer is one of a transaction that was rolled back (`WriteIsKnown`,
with `lost`); the database has nothing before the end (`CommittedAtTheEnd`); and the status at
the end fits what was written and not lost (`EndIsRight`). `HumanWorkSurvives`
is about a history of any length. GitHub accepts the update when the branch head is in the
history of the pinned commit, which is the parent of the new one. A new commit changes the parent of
no old one, so that whatever the pinned commit reaches in `k` steps the new commit reaches in
`k + 1` (`ReachGrows`, by induction over the steps).

### The orchestration

*Assumed:* budgets, batch and price are natural numbers, the threads are finitely many.

The two counters of tool calls, `toolCalls` of the gateway and `nextSequence` of the
registry, are written in different places by different threads. The invariant says by how much
they differ: the registry is ahead by exactly the calls that have a number and have not returned
(`CallsFit`, by cardinality), and what was promised to the model fits into what is left, so that the
registry never refuses a call the gateway let through. Each number is with one call, and with a
record once that has returned (`NumbersAreOwned`); hence a run that did not lose its threads to
an exception has all its rows (`UsageIsKept`). A claim needs an excerpt, an excerpt a call that is
within the window and that is recorded or will be (`EvidenceIsLocated`), and unless an exception
has left the loop, all threads are idle when the rows are stored (`ThreadsFollow`).
`CostIsKnown` says when `last_call` is there: behind a return, and when a budget ended the loop.
It says nothing of a run that is refused, which a `ValueError` of a request ends without its cost;
`UsageIsKept` asks for the cost where `CostIsKnown` has it, and the run `lost_cost` shows where it
is missing.

### The launcher

*Assumed:* the bound on deaths is a natural number, `Nobody` is no launch, a scenario gives
each launch a request, and diffs and trees are what the parser and the disk produce
(`DiffsAreGiven`: sequences of sections, hunks and marked lines; texts are sequences of lines).

Everything hangs on the one step
that `mkdir` guards: a launch goes on only as the owner of its directory (`GoesOnIfOwner`), no
step changes an owner, so that containers belong to owners (`BoxesOfOwners`), read the
request of their own launch (`ReadsOwnRequest`), and write results for it only
(`ResultsOfOwners`). That a result is final when it is returned needs that the container is
gone by then (`ResultsAreFinal`), hence that `RemoveBox` comes before `LoadResult`. Why
`verify_identity` is not enough is visible here: the argument never uses it.

Both properties of the patch follow from `TestedTree`: the diff applied to the files of the
request, and what it wrote is still the only workspace in that directory. It needs `OneWriter`
and `ReadsOwnRequest`; the rest is the algorithm: `WritesAgree` takes the workspace from the
files to the commit's tree, and `WorkspaceIsPushed` from there to the tree that is posted.

### The patch

- `WorkspaceIsPushed`: when no section raises, `WriteWorkspace` and `PushedTree` make the same
  tree, for any base and any number of sections on the same files. By induction over the
  sections: posting the entries of one section does what writing it to disk does
  (`SectionIsPosted`), because both remove before they put, and posting entries one after the
  other is posting their concatenation (`PostAppend`, `Flattened`).
- `WritesAgree`: a diff that was written onto some files can be written onto every base that has
  the same files where the diff reads them, and the outcomes agree at every path it touches and
  wherever the two agreed before. By induction over the sections (`SectionAgrees`): what a
  section writes depends on the file it reads only.
- `PatchReads`: a file to which a section applies becomes its `Reading`, when the
  hunks count right. Right counts mean that `Body` is all of a hunk's lines (`BodyIsAll`: every
  mark is counted on one side at least, so that the counts are met on the last line and not
  before). The cursor behind each hunk grows (`CursorsGrow`), so that hunks take disjoint
  parts of the file in order (`CoveredOnce`), although they are looked for in a copy that is
  longer or shorter by `offset` already. After each hunk what has been written is the
  reading up to the cursor, followed by the untouched rest (`HunksRead`).
- `PatchMeansWhatItSays` is about diffs of one section, since a reading is of one file; several
  sections are what `WorkspaceIsPushed` is for. The exception `SaysWhere` (a hunk without old
  lines behind line 0) is the one `apply_text_diff` gets wrong.

### The evidence

*Assumed:* `PagesFill` and `FullPages` (a page holds at least one item, the limit is a number
of full pages, as 300 is of 100), `AnswersAreSequences`, `ArchivesAreText`, `RequestsPinHeads`,
`SymbolsArePlaces` (the parser numbers lines from 1), `LimitsArePositive`, natural bounds.

The step a run is at tells how many reads have been decided on (`ReadsAreInOrder`); decisions are
appended one at a time, each that of the read at hand, so that the record is the beginning of
`Fetches` with the decision on each, and a denial is its last entry (`DecisionsCoverReads`). Behind `n` turns of the loop there are
`n` full pages and they are the beginning of one source (`PagesAreWhole`), as long as the
branch has not moved; without `FullPages` a last page that is not full could exceed what
remains and be cut without a mark.

`CitationsStand` is about text: an excerpt names the lines it was cut to, and reading
those lines gives it again. Without the byte limit that is plain; with it the last line named
is the one the cut left, found by counting newlines, and the read up to there is cut at the
same byte again (`ReadAgain`, by induction over joined lines: `JoinsAgree`, `JoinGrows`,
`JoinsHaveBreaks`).

### What the prover cannot do here

**Only model-checked** is liveness: `QueueDrains`, `LifecycleIsLive`, `EveryRequestAnswered`,
`EveryLaunchEnds`, `EndsInOutcome`. The properties of the violated runs are false and have no theorem.

Induction theorems with an operator as a parameter cannot be used either. `Induction`
therefore states induction about sets of numbers: `NatSetInduction` follows from the
well-foundedness of `<`, and a proof cites it with the set of the numbers for which its
statement holds. Recursive definitions are functions inside a `LET`; that such a
function exists, and so satisfies its own equation, is proved for each of them by the same
induction (`PiecesFunction`, `MarkedFunction`, `HunksFunction`, `SectionsFunction`,
`PostedFunction`, `JoinIsThere`, `ReachIsThere`).

## 5. Not modelled, and the plan

Not modelled: transition records; `approve_manifest`, which nothing in `src/` calls but a
test and which runs in one session; the path rules of `policy/patch.py` and the secret scan of `gateway/redaction.py`, which
match text; `OpenRouterModelGateway` and `refuse_ci_failure`, which only tests use; manual
runs, reviews and opt-ins of the API, which insert a row each and meet nothing of the rest (a
manual run has no pull request); the evaluation harness except `citation_resolution`, which
exports files in one sequential process; HTML pages, tracing, settings, schemas and the
scripts under `scripts/`, which have no state of interest.

What is left of the plan:

1. Transition records as an extension of `AgentRun` and `RunLeases`: that the history of a run
   is a path of `ALLOWED_TRANSITIONS` which ends in its status (`docs/data-model.md:5`), in
   the order in which `list_transitions` returns it.
2. `ManifestRegistry`, once an endpoint approves manifests and two approvals can meet.
3. The release gates of an evaluation batch as operators.
