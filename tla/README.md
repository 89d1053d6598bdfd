# CampusPilot: models, checks and proofs

CampusPilot is a campus assistant: a FastAPI backend over PostgreSQL
(`src/backend/app`), a Vue client (`src/frontend/src`), worker processes beside
the backend, and model, vector and meter services outside of it. This directory
holds TLA+ models of its protocols, the TLC configurations that check them on
small instances, and TLAPS proofs of every safety property that they check.

Contents: 1 the system; 2 the modules and how they correspond to the code;
3 the runs, their bounds and what they show; 4 fairness; 5 what is proved;
6 what is only model-checked, and what is not modelled; 7 where the code
disagrees with its documents; 8 what could come next.

To check a model or a proof, in this directory:

    tlc -workers 2 -config AgentRuntime.cfg MCAgentRuntime
    tlapm AgentRuntimeProofs.tla

Every module `X` with a configuration `X.cfg` is checked through `MCX`.

## 1. The system

### Components

Paths are relative to `src/backend/app/modules` unless they start with
`frontend` or `scripts`. "Correct when" is what the models are for.

| component | state | operations | correct when |
|---|---|---|---|
| Agent runtime: `agent_platform/{run_service, approval_decision, approval_expiry, runtime_persistence, runtime_worker}`, `orchestration/runtime` | runs, steps, tool calls, approvals, checkpoints, events, outbox of commands; what a worker has claimed | create, input, cancel, approve, reject; poll, execute, retry, give up; expiry | a run closes once, with one closing event; a guarded tool runs at most once and only under a valid approval; no run is forgotten |
| Orchestration: router, supervisor, registry, graph | plan, steps and checkpoint of one run | route, plan, ask, correct, refuse, call a tool, wait, resume | a run that says it succeeded has done everything; a model's word is no action; a selection of tools binds |
| Run stream: `agent_platform/event_stream`, `frontend .../agentStream.ts`, `useAgentRunStream.ts`, `RunDetailView.vue` | cursor of a connection, frames on their way, timeline, detail of the page | connect, send, lose, reconnect, read, load | the timeline is the log, in order, without gaps, and reaches its end |
| Tool gateway and internal tool route, electricity | tool calls, approvals, top-ups, balance of an account | prepare, approve, execute, replay, fail | every top-up is paid for by an approval of its own; an approval is not used up without its effect |
| Campus events and registrations: `community/{events, registrations}` | event row with its counter, registration rows | create, update, cancel; register, cancel a seat | the counter is exact; no seat beyond the capacity |
| Lost and found: `community/{lost_found, claims}` | items, claims with two confirmations | post, update, delete; claim, verify, reject, complete | a claim keeps its item; both sides complete; refused content stays refused |
| Reports and moderation: `community/{reports, moderation_handler}`, `platform/moderation_*` | reports, cases, the content they refer to | report, decide | what waits for review can be decided |
| Posts, comments, topics, reactions | rows and counters of a post | create, edit, delete, react, report, decide | counters equal what they count; no post in a deleted topic; known deadlocks only |
| Sessions, users, roles: `platform/{auth, user_*, role_*}` | refresh tokens, accounts, roles, their versions | log in, refresh, log out; create, disable, enable; replace roles and permissions | a token is exchanged once; no administrator overwrites what they have not seen |
| Training and evaluation workers, datasets, model registry | jobs, files, versions, models | create, claim, stage, cancel, take over; register, activate | the digest of a job is that of its file; one active model per purpose; jobs end |
| Knowledge bases, ingestion, conversations | documents, chunks, vectors, jobs, answers with citations | upload, index, publish, delete, retry; ask, stream | cited chunks stay; a published document can be found |
| Work orders, idempotency records | orders with versions and timelines, keys with stored answers | submit, transitions, rate; begin, complete and replay a key | numbers without gap; a timeline is the history of its order; a key acts once |
| Migrations and seeds: `scripts/*`, `migrations` | the schema, the demonstration rows | upgrade, downgrade, seed | the API never runs over half a demonstration; a repetition changes nothing |
| Guides, identities, audit, configuration, dashboard, shell, other pages | records | one writer at a time | nothing a protocol could break |

`PROJECT.json` lists every component with its sources, what is modelled of it
and why the rest is not.

### How they interact

- A request is one database transaction (`uow`) under READ COMMITTED. A message
  in a conversation creates a run and its `start` command or, when a run of the
  conversation waits for input, an `input` command for that run.
- Workers poll the outbox with `FOR UPDATE SKIP LOCKED`, keep a lease by time,
  and execute each command in a transaction of its own with a savepoint around
  the processor. The processor moves the run through the orchestrator, which
  calls the specialists and their tools; a write tool asks for an approval and
  the run stops until a `resume` command brings it back. External callers reach
  the same tools through the internal route, under approvals of the same kind.
- Events are written in the transaction that changes the run, numbered under
  the row lock of the run. The stream polls them by cursor; the client follows
  the stream and loads the detail of the run beside it.
- Community content is scanned in the transaction that writes it, may open a
  moderation case, and is changed later by decisions on cases, which reports
  open too. Registrations, claims and comments lock the row they act on.
- A document has its file, its chunks in the database and its vectors in a
  store of its own; only the chunks take part in transactions.
- Every start of the stack runs migrations and seeds over the live database
  before the API comes up.

### What is hard

- **Interleavings.** A run has five kinds of writers: its user, the approver,
  the worker that executes its command, every worker's poll (expiry), and the
  worker that gives a command up. Only compare-and-set updates on the status
  and on the version of the checkpoint keep them apart, since the checkpoint is
  read before the run is locked. Accounts, roles, models, tool calls and
  documents are read without a lock by requests that decide on them.
- **Leases and crashes.** A lease lapses by time, also while its owner is alive;
  the command row's lock is what excludes two executors. Effects of a tool must
  roll back with the command that ran it. A training job or an indexing is
  taken over where its worker stopped.
- **Deadlines and retries.** An approval may lapse between the decision and the
  resume; a client sends a request again when it gets no answer.
- **Lost connections.** A stream is resumed by cursor, and error frames carry
  numbers the log does not know.
- **Counters and multi-row states.** Seats, claims and items, comments and their
  post are kept in agreement by row locks, taken in orders that may cross;
  statuses are written by several modules which do not all look at the status
  they replace.
- **Unreliable answers.** A routing or specialist model may answer anything its
  schema admits, again and again.
- **Liveness.** A run must not wait for ever for a command nobody wrote, a
  page must not stay live on a closed run, a job must end.

The hazards in `PROJECT.json` name the lines where these bite and the
properties that would show it.

## 2. Modules

| module | contents |
|---|---|
| `AgentRuntime` | runs, outbox, workers, approvals, checkpoints, event log |
| `RunContract`, `AgentRuntimeContract` | what the runtime promises of a run, and the mapping under which `AgentRuntime` keeps it |
| `AgentTurn` | one run from the inside: routing, planning, model answers, tools |
| `RunStream` | log, SSE generator, connection, reader, detail page |
| `ToolGateway` | the internal tool route, its approvals, the electricity account |
| `ModeratedContent` | scan, report and decision as operators on content with its cases |
| `CampusEvents`, `LostFoundClaims`, `PostThread` | community content, over `ModeratedContent` |
| `Accounts` | sessions, accounts, roles |
| `ModelOps` | datasets, training workers, evaluations, model registry |
| `Knowledge` | bases, documents, ingestion workers, answers and citations |
| `WorkOrders` | work orders, their numbers and timelines, idempotency records |
| `KeyedOnce` | what an idempotency key promises; `WorkOrders` implements it |
| `Deployment` | migrations and seeds over a database in use |
| `AgentRuntimeProofs`, `AgentTurnProofs`, `ModelOpsProofs`, `KnowledgeProofs`, `WorkOrdersProofs` | theorems about the module they are named after |
| `AgentEdgeProofs`, `CommunityProofs`, `PlatformProofs` | theorems about `RunStream` and `ToolGateway`; about `CampusEvents`, `LostFoundClaims` and `PostThread`; about `Accounts` and `Deployment` |
| `MC*` | instances for TLC: symmetry sets and small constants only |

Two modules meet in three places. `AgentTurn` is what `AgentRuntime` leaves as a
choice (what a plan, an answer or a tool makes the graph do next), and
`AgentRuntime` is what `AgentTurn` leaves out (who executes commands, and how many
at a time). `RunStream` follows the log `AgentRuntime` writes (`ClosedByOneEvent`:
the last event and no other is terminal). `ToolGateway` has the approvals of
`AgentRuntime` as external callers use them.

Definitions named as mutants in a comment ("Mutant: ...") are variants with a
plausible bug. No model uses them; each shows that the property it is listed
with in `PROJECT.json` would notice.

A row lock that is held across a step is a conjunct (`RowFree`, `DocFree`, `UserFree`,
...) of every action that needs the row. A transaction that decides only on rows
it holds is one step; one that reads what it does not hold is two or more, with
`tx[r]` for what it has read. Any of them may be rolled back in between.

### AgentRuntime

Each action is one transaction, except the execution of a command, which is two:
`Begin` (the command row is locked, the checkpoint read: `snap`) and one of the
actions of `Execute` (from the first update of the run to the commit). Other
transactions may come between the two; after the first update the row lock of
the run keeps everybody away, so the statuses `routing` and `running` are
written and left inside one step and no other transaction can see them.

| variable | in the code |
|---|---|
| `run`, `steps` | `agent_runs.status`, `.step_count` |
| `ckpt` | `agent_runtime_checkpoints` (version, position in the plan, the call that waits, `had_failures`, expiry) |
| `appr`, `call` | `approval_requests.status` with its deadline, `tool_calls.status`, by step |
| `effects` | committed executions of the guarded tool of a step (ghost) |
| `events` | `agent_run_events` of the run in sequence order |
| `cmd` | the latest row of `agent_runtime_commands` for each (run, action, approval), which a partial unique index makes unique among the active ones |
| `todo`, `busy`, `snap` | a worker's claimed batch, whether it holds the lock of the first command, the checkpoint it has read |

| action | in the code |
|---|---|
| `Create`, `SendInput`, `Cancel` | `run_service` create / input / cancel with the dispatcher |
| `Approve`, `Reject` | `approval_decision` |
| `Poll` | `run_once`: expire approvals, delete old checkpoints, claim a batch |
| `Begin`, `Skip` | `get_processing` and the read of the checkpoint; a lost lease |
| `StartRun`, `ContinueInput`, `ResumeRun`, `RefuseArguments`, `CancelRun` | the processor's branches in `orchestration/runtime.py`; a resumed call is refused before its approval is consumed, after it, or when its output is checked after the effect |
| `Fail` | any exception: savepoint rolled back, retry or `mark_failed` |
| `Abort`, `Crash`, `WorkerStalls` | faults: the transaction, the process, the lease is lost |
| `ApprovalLapses`, `CheckpointLapses`, `LeaseLapses` | the clock |

Abstracted: texts, prompts and arguments; how a plan is made (its length is
chosen); what a specialist answers (success, failure, question or guarded tool
are chosen); tools that need no approval, which are part of a task's outcome;
the idempotency key of a request, whose first execution is modelled. A retried
command's `available_at` is a choice of the poll to leave it out.

### AgentTurn

The state of one run as `BoundedGraphRuntime` moves it: `plan`, `ck` (the checkpoint),
`steps` (with their tool call and approval), `cmd` and `tries` (the command under way),
`pc` (the place in the graph), `out` (the answer under consideration), and `base`, the
savepoint an exception goes back to (`Raise`).

| actions | in the code |
|---|---|
| `RouteExplicit`, `RouteByModel`, `RouteByRule`, `Clarify` | router and supervisor; the plan is the lead and the other candidates in order, three at most |
| `Continue`, `NextStep`, `AmountMissing`, `Ask` | slots, intents and the call of the specialist |
| `Judge`, `JudgeTool`, `Screen` | a claim without a tool call is asked again; the content check |
| `Prepare`, `PrepareAgain`, `NoTool`, `Refuse` | validation of the arguments, one correction, allowlist and permission |
| `AskApproval`, `RunTool`, `Resume`, `ResumeRefused` | the executor with and without an approval |
| `AskUser`, `FinishStep`, `End` | the outcome of a step and of the run |
| `Reply`, `Approve`, `GiveUp` | the user |

Abstracted: texts and scores (which candidate wins is chosen), rooms, amounts and
orders to the kinds of replies the code tells apart. Left out: replies with ids of
rooms of others, an `idempotency_key` the model supplies itself, the local router
(not part of the composed runtime).

### RunStream

`log` is the log `AgentRuntime` produces. `server` is the generator of
`event_stream.py` with its cursor, `wire` the frames between the two, and `phase`,
`last`, `retried`, `shown` are the state of `useAgentRunStream`; `loads`, `detail`, `broken` that
of the detail page, whose requests are answered in any order. `Lose` drops any
suffix of the frames on their way; `QueryFails` is the generator's own error frame;
`Thrown` is the single reconnect of `start()`. Keep-alive comments and the pace of the
generator's polls are left out: they move no state.

### ToolGateway

All runs are of one user, all top-ups of one room. `call[r][t][k]` is the row of
`tool_calls` with its approval, `topup[k]` the stored top-up, `balance` the account's
(`None` before its first use). `InternalToolService.invoke()` is `Prepare` when it ends in
a new approval, else `Start` (run locked, approval checked, account read), `Look` (the
top-up with the same key) and `Commit`, or `Rollback` for every failure in between,
`uq` violations included. `Approve`, `Reject`, `Expire`, `CloseAtOnce`, `Resume` and `Close` are
the approval routes and the run they act on. A call that is only answered changes
nothing and is no action.

### ModeratedContent, CampusEvents, LostFoundClaims

A content is a status, the case it refers to, and the status of its cases.
`Scanned`, `Reported`, `Decided` are what `_scan`, `create_report` and the decision with
`moderation_handler._apply` do to it. The modules apply them to their rows and add
their own operations.

`CampusEvents` splits a registration into the lock with its reads (`LockEvent`) and the
commit (`Register`, `CancelSeat`, or `Release` for every refusal and rollback), so
that what is written is computed from what was read; the operations of the
organizer, of reports and of moderators are one step each, taken while nobody
holds the lock. `phase` is the clock relative to the event.

`LostFoundClaims` splits the creation of a claim into `Check` and `Submit`: the target is
locked in between and the claimant's own item is not. `Rejectable` is the CHECK
constraint `ck_lost_found_publish`, which rolls back the refusal of the last
claim of an item without a publication date.

### PostThread

One post (content 0), its comments, the topics it can be in. `tx[s]` is the request
a session serves, with `held`, the rows it has locked: `Lock` takes the next one of
`Rows` (the order in which the statements of the request reach them, key-share locks
of foreign keys included), `Serve` writes and releases, `Abort` ends a deadlock.
`body`, `count`, `likes`, `reports` are the rows and counters. Two sessions that wait for
each other are a deadlock; the database rolls one back.

### Accounts

`users`, `roles` and `tokens` are the tables, with the versions that requests of
administrators carry. `LoginRead` and `Login` or `Guess` are the two halves of `login()`;
`RefreshLock` with `Rotate` or `RefuseAll` those of `refresh()`: exchange, or the sweep of all
tokens after a reuse. `Begin...` is what an administrator has read (`tx[r]`), `Disable`,
`ReplaceRoles`, `ReplacePermissions`, `RenameRole`, ... what is written under the version
check; `DisableLock` and `Disable` are split where the other administrators are counted.
`Expire` and `LockLapses` are the clock. Left out: the audit of these requests, and the
idempotent replay of the creation of an account.

### ModelOps

`exec[w]` is where a training worker is: `Claim`, `Start`, `Train` (the back end saves the
adapter), `ReadBack` (and reads it), `WriteArtifact` (the worker writes what was read),
`Succeed`. `files[j]` names the claim whose adapter is on disk. `GoesStale` is the ten minutes after
which a job may be claimed again; nothing keeps a living worker from being silent
for so long (`training_worker.py:107`-`161`: loading a model, a long batch), so it may
happen at any time of any running job. `Watch` and `Report` are the thread that looks for a
cancellation and records progress. `shared` is a history variable: the jobs that were
taken while another worker still ran them. `ReadVersion` / `CreateJob` and `ReadActive` /
`Activate` are requests in two steps. The registry starts with the models of the seed
(`ModelSeeds`, of which an instance takes the first `Seeds`), active and never evaluated;
`Reseed` is the seed at a later start. Left out: what an evaluation measures, and its
dataset version, which nothing reads.

### Knowledge

A document has a file, chunks (counted as generations) and vectors. A worker goes
through `Claim`, `Flush`, `DropVectors`, `Upsert`, `Finish`, and may fail or crash at any of
them; vectors are written at once, chunks with the commit. `Ask`, `Cite`, `Answer`,
`StartStream`, `EndStream`, `GiveUp` are a turn of a conversation with the chunks it cites
held by foreign keys. `SaveUpload` / `CommitUpload` is an upload with its file;
`LockDelete` / `Delete` a deletion. `BreakDeadlock` is the deadlock of a deletion with a
worker. The vector store may refuse what it is told without an error, as OpenSearch
does (the default of `core/config.py:77`): `DropVectors` may leave old vectors, and `Upsert`
may store a generation in part or not at all, which makes it one of `lost`. The expiry
of a document is told only where it could be published, the one operation that asks
for it. Left out: feedback, the idempotency keys of uploads and
publications, what parsing finds.

### WorkOrders

A request is `Begin` (its idempotency record inserted, which makes others with the
key wait), then `AllocateNo` and `Create` (the number under the advisory lock of the
day), or `Lock` and `Transition` or `Rate` (checked under the row lock), or `Abort`. `Replay`
answers a repeated request from its record. `told` is what clients have been told.
Records never lapse: `expires_at` is written and never read.

### Deployment

`ComposeUp` and `ComposeDown` are the operator's (and a machine's that crashes, since what
has not committed is rolled back); `Migrate`, `Demo`, `Knowledge`, `Catalog` the commands of
the job, one transaction each, beside an API that may still run; `Downgrade` alembic's.
One row of each kind stands for all demonstration rows; `groups` are the groups of
rows that are complete, in the order `DemoOrder` in which the statements of
`seed_demo.py` write them. The operations of users are reduced to what they change in
seeded rows. `kinds` are the rows that only newer versions of the schema admit. The
revisions are 0001 to 0011.

## 3. Runs

| run | instance | shows |
|---|---|---|
| `runtime` | 1 run, 2 workers, 2 steps, plans of one task, 2 attempts, 1 fault | safety, the contract and liveness of `AgentRuntime` under all interleavings of one run's actors |
| `turn` | 2 objectives, 9 answers, 3 replies, 3 steps, 2 attempts | what a succeeded run has done, what a step may claim, what the run waits for; every command ends |
| `stream` | log of 3, 1 pause, 2 faults, 1 load by the user | the timeline is the log, one loss is survived, without a fault the end is reached |
| `gateway` | 2 runs, 2 keys, 2 amounts, 5 calls | every top-up is paid for, no approval is used up in vain, closed runs are quiet |
| `events` | 3 users, 2 seats, 2 updates, 2 cases | counter, capacity, cases |
| `claims` | 3 users, 2 items, 2 claims, 1 update, a case for each item | claims keep their items |
| `posts` | 2 sessions, 1 user, 2 topics, 2 comments, 5 requests | counters, topics, deadlocks |
| `accounts` | 2 users, 2 requests, 3 tokens, 2 edits, 4 together | tokens, disabled accounts, versions |
| `modelops` | 1 dataset of 1 version, 2 workers, 2 requests, 2 rows of a table, 2 of the 4 seeded models and 2 more of 3 kinds, 3 claims, 7 together | digests, activations, jobs end |
| `knowledge` | 1 base, 2 documents, 2 workers, 2 requests, 2 attempts, 2 indexings, 1 answer, 5 together | citations and searchability |
| `workorders` | 2 requests, 5 keys, 2 numbers, 5 orders, moves and ratings | numbers, timelines, idempotency |
| `deployment` | 2 users, 2 seats, an order in its third state, 3 operations of users | starts, crashes and downgrades over a database in use |

### The properties

- `runtime`: `ClosedByOneEvent` relates a run's status to the whole of its log, over
  the five writers that close runs. `EffectConsumesApproval` and `EffectOnlyWhenApproved`: a
  guarded tool has its effect at most once however often its command is retried or
  taken over, has consumed its approval, and never has it for a run that was
  cancelled, rejected or expired meanwhile; a call recorded as succeeded has had it, one
  recorded as failed may have (its output was refused). `NoRunLeftBehind`: no run waits without a command or
  a decision to come. `KeepsContract`: the refinement of `RunContract`, the runtime as its
  clients see it. `EveryCommandEnds`, `EveryRunMoves`: liveness.
- `turn`: `DoneMeansDone` - a failure in an earlier step must survive in the checkpoint
  through replies, approvals and retries. `NoEmptyClaim` - a step whose words call for
  a write tool does not succeed on the word of the model. `WaitIsBacked` - waits,
  checkpoints and approvals agree between commands, also after an exception.
  `EveryTurnEnds`.
- `stream`: `TimelineIsLog`, `OneLossIsSurvived`, `TimelineReachesEnd`.
- `gateway`: `PaidByApproval` compares, run by run and amount by amount, top-ups with
  consumed approvals; `SuccessIsPaid` ties an approval to its call and its top-up;
  `ClosedRunIsQuiet` holds also for a call that was under way.
- `events`: `CountIsExact`, `NoSeatBeyondCapacity`, `ReviewHasCase`. `claims`:
  `ActiveClaimKeepsItem`.
- `posts`: `CountsAreExact` under every order of locks; `NoPostInDeletedTopic`, although the
  topic is read without a lock; `OnlyThesePairsDeadlock` says which two requests can wait
  for each other, and so which may be rolled back for another's sake.
- `accounts`: `OneSuccessor` - a refresh token is exchanged once; `RefreshOfEnabled` - no
  session of a disabled account is prolonged; `NoLostUpdate` - roles and permissions
  are replaced in the version their author has seen.
- `modelops`: `DigestIsOfFile` - a job that succeeded has a digest, and it is that of the
  file on disk unless the job was taken over from a worker that still ran it; one
  that crashed does no harm, nor does a takeover to other jobs. `OneActivePerPurpose` -
  over competing activations and repeated seeds at most one model is in use for a
  purpose, it was evaluated or is one of the seed's, and the main purpose always has
  one. `EveryJobEnds` - through crashes and takeovers; it does not say how a job ends, so it
  would not notice a cancellation that is lost (section 7).
- `knowledge`: `CitedChunksStay` against re-indexing; `PublishedIsSearchable` across a worker that
  stops between database and store, and old vectors that stay: a published document
  is complete, nobody is replacing it, and its vectors are in the store unless the store
  refused them without an error in the very indexing that made it ready.
- `workorders`: `NumbersInOrder`, `TimelineFits` and `EachKeyOnce`, the refinement of `KeyedOnce`:
  one effect per key, and every answer tells of it.
- `deployment`: `CompleteWhenUp` - no statement of the seeds that leaves out what is not
  there yet comes before its rows; `CountNeverTooHigh`; `RowsFitOlderSchema` - no row of a
  newer schema keeps a downgrade from restoring its CHECKs; `OwnRowsStay`; `RepeatIsIdle`.

Every property has a mutant of a mapped definition in `PROJECT.json` that breaks it.

### The bounds, and why they are enough

`MaxWork` (in `Deployment`, `MaxOperations`) bounds, where it occurs, the sum of what a
behaviour does, so that TLC can spend the whole of it on any mix of operations, which separate bounds of the same
size would multiply out.

- *Runtime.* Two steps let a run answer a question and then be approved; two
  attempts give a first try, a retry and giving up (the third of the code is
  another retry); two workers and a fault give a command that is taken over.
  Batches, longer plans and several runs are not in the instance: the proofs of
  section 5 cover them, and runs share only the rule that a message goes to the
  waiting run, a worker's batch and the poll's expiry. Liveness and the contract
  are checked for one run only.
- *Turn.* Three steps are an answer, an approval and one step more than the plan;
  the two objectives are words that name two domains, which needs routing, and
  a top-up without an amount with a selection, which needs the question and the
  selection to bind. The nine answers are one of each kind the checks of the
  graph tell apart. The proofs hold for any answers.
- *Stream.* Three events are a pause or an approval, another event and the end.
  The page reconnects once, so the second fault is what makes it fail.
- *Gateway.* Two runs can use each other's keys and read the balance before
  either writes it; five calls let both ask, be approved, pay, and one replay.
- *Events.* Two seats and three users make the last seat contested with one
  already given; two updates and two cases allow an edit during a review that
  an edit opened.
- *Claims.* Two claims of one item, or one of each item with the other as own
  item; one case and one update for the ways in which moderation crosses them.
- *Posts.* A deadlock takes two sessions; a reply takes two comments; two topics let
  a post move. Cycles of three sessions are beyond the instance.
- *Accounts.* Three tokens are one, its successor and a second exchange; two
  administrators can each act on the other.
- *Models.* Two workers on one job, a takeover and a third claim; two models compete
  for a purpose that a seeded model holds. The two seeded models are one that is
  protected from deactivation and one that is not, and the other two seeds differ from
  the latter in their purpose; a model more is a second generator, one that may not be
  activated, or an adapter. `MaxWork` counts the seeded models.
- *Knowledge.* A second indexing of a cited document is what citations must stop, and
  a job behind another one is what a queue is; the two indexings of a document can be
  refused by the store in any combination.
- *Work orders.* Two submissions at once, and an order through three moves to its
  rating; each effect can have a key of its own.
- *Deployment.* The seeded order, event, claim, topic and model can each be changed
  and the job run over it any number of times; three operations are a claim that
  is decided and followed by another.
- Symmetry is used in safety runs only, for sets whose members no action and no
  property names.
- `CHECK_DEADLOCK FALSE` stands where the system may stop: the page is closed or
  settled and its user asks nothing more, an event is over, the bounds are used
  up, the run is closed. The runtime and the deployment never stop, so deadlock
  is checked there.

## 4. Fairness

`AgentRuntime!Fairness`: weak fairness of `Poll`, of `Begin` or `Skip`, and of `Execute`, per
worker - the loop of `runtime_worker.py` runs for ever, and
`docker-compose.yml` restarts the container (`unless-stopped`); `Execute` is enabled as
long as a worker is busy because every exception ends in `Fail`. Weak fairness of
`ApprovalLapses` and `LeaseLapses`: time passes. Users owe nothing: no request is fair.
Faults are bounded and never fair. Which outcome `Execute` has is not fair either,
so the liveness properties hold when every execution fails.

`AgentTurn!LiveSpec`: weak fairness of `Work`, the worker going on with a command. Which
step it takes is not fair: models may answer with nonsense, or an exception come,
every time. Replies and decisions are not fair.

`RunStream!Fairness`: the run ends, the server sends and serves, and the browser's loop
reads, connects and notices the end. Losing and failing are not fair, and
`TimelineReachesEnd` asks nothing of behaviours with a fault or a pause.

`ModelOps!Fairness`: a worker that runs goes on, and ten minutes pass. Nothing is assumed of
its watcher. Workers stop as often as they like; `EveryJobEnds` excepts behaviours in which
jobs may not be claimed any more because the bounds are used up.

The other modules state no liveness: their actors are users and requests, which
owe nothing, and an ingestion worker may meet the job that stops its queue
(section 7).

## 5. What is proved

Eight modules hold proofs; together they state every safety property the runs
check, invariants and action properties alike. Every theorem holds for any values of
the constants under the assumptions of the module it is about (bounds are natural
numbers, some of them not zero; sets are finite where something is counted, and
there is a knowledge base and at least one attempt). No theorem has another
hypothesis. `PROJECT.json` lists the theorems
with what they establish.

| module | theorems, with the property they state |
|---|---|
| `AgentRuntimeProofs` | `TypeCorrect` (`TypeOK`), `EffectsArePaidFor` (`EffectConsumesApproval`), `CommandsFit` (`CommandFitsRun`), `NobodyLeftBehind` (`NoRunLeftBehind`), `ApprovalsAreCurrent` (`PendingApprovalIsCurrent`), `ExecutorsExclude` (`OneExecutor`), `EffectsAreApproved` (`EffectOnlyWhenApproved`), `ClosedForGood` (`ClosedIsFinal`), `CheckpointsGoWithRuns` (`NoCheckpointOfClosedRun`), `ClosesOnce` (`ClosedByOneEvent`), `ContractIsKept` (`KeepsContract`) |
| `AgentTurnProofs` | `TypeCorrect`, `DoneIsDone` (`DoneMeansDone`), `ClaimsAreBacked` (`NoEmptyClaim`), `WaitsAreBacked` (`WaitIsBacked`), `SelectionBinds` (`SelectionHolds`) |
| `AgentEdgeProofs`: stream | `StreamTypeCorrect`, `TimelineIsTrue` (`TimelineIsLog`), `LossIsSurvived` (`OneLossIsSurvived`) |
| gateway | `GatewayTypeCorrect`, `TopupsArePaid` (`PaidByApproval`), `ApprovalsHaveEffect` (`SuccessIsPaid`), `ClosedIsQuiet` (`ClosedRunIsQuiet`) |
| `CommunityProofs`: events | `EventTypeCorrect`, `CountExact` (`CountIsExact`), `CapacityKept` (`NoSeatBeyondCapacity`), `ReviewsHaveCases` (`ReviewHasCase`), `SeatsArePublic` (`SeatOnlyInPublished`) |
| claims | `ItemTypeCorrect`, `ClaimsKeepTheirItems` (`ActiveClaimKeepsItem`), `BothConfirm` (`CompletedByBoth`), `RefusedStaysRefused` (`RefusedReturnsByReview`) |
| posts | `ThreadTypeCorrect`, `CountersAgree` (`CountsAreExact`), `PostsKeepTheirTopic` (`NoPostInDeletedTopic`), `FewPairsDeadlock` (`OnlyThesePairsDeadlock`) |
| `PlatformProofs`: accounts | `TypeCorrect`, `ExchangedOnce` (`OneSuccessor`), `LimitLocks` (`LockedAtLimit`), `ReplacedAsSeen` (`NoLostUpdate`), `DisabledStaysOut` (`RefreshOfEnabled`) |
| deployment | `StackTypeCorrect` (`StackTypeOK`), `CompleteStart` (`CompleteWhenUp`), `SeatsNotLost` (`CountNeverTooHigh`), `AnyDowngradeFits` (`RowsFitOlderSchema`), `JobLeavesUsers` (`OwnRowsStay`), `JobRepeats` (`RepeatIsIdle`) |
| `ModelOpsProofs` | `ModelTypeCorrect`, `OneActive` (`OneActivePerPurpose`), `DigestsKept` (`DigestIsOfFile`) |
| `KnowledgeProofs` | `KnowledgeTypeCorrect`, `CitationsKept` (`CitedChunksStay`), `PublishedIsFound` (`PublishedIsSearchable`) |
| `WorkOrdersProofs` | `TypeCorrect`, `NumbersAreInOrder` (`NumbersInOrder`), `TimelinesFit` (`TimelineFits`), `OrdersRatedOnce` (`RatedOnce`), `KeysKeepTheirPromise` (`EachKeyOnce`) |

Hardly a property is inductive as it stands. For each module an invariant (`IInv`,
`StreamIInv`, `ThreadIInv`, ...) adds what the code relies on while a transaction is
under way.

### The agent runtime

That a resume command finds its run where the approval left it needs that the
pending approval was the current one, that needs that steps not yet taken have no
rows, and both need that a worker holding a command is the only one with its
lease. `IInv` is

    Shape                 types, and a worker that executes a command holds
                          its lease
    FreshSteps            a step not taken has no approval, call or effect
    WaitingCall           a run that waits for an approval has one waiting
                          call, that of its last step; other open runs none
    CommandFitsRun, NoRunLeftBehind, PendingApprovalIsCurrent,
    EffectConsumesApproval

`Shape` is inductive by itself (one shape lemma per group of actions); it gives
`TypeCorrect`, and `ExecutorsExclude` follows since a command has one owner. Everything
else speaks of one run at a time: `InvByRun` turns `IInv` into `Shape` and `RunInv(r)` for
every `r`, `Frame` shows that a step which leaves the rows of `r` alone keeps `RunInv(r)`,
`ClosedInv` that closing a run keeps it, and there is one lemma per action (or
group) for the run it acts on. `AdvanceInv` carries the loop over the plan. The steps
`EffectsAreApproved` allows follow from `IInv` before the step: only a resume whose approval
stands changes `effects` (`EffectSteps`), whether its output is accepted (`ResumeRun`) or refused
(`RefuseArguments`), and it finds the run, its step and the approval as the property
says.

`ClosedForGood`, `CheckpointsGoWithRuns` and `ClosesOnce` rest on `StepRow`: every step
either leaves the status, log and effects of a run as they are and adds no checkpoint (`Rests`), or finds the
run open, deletes its checkpoint if it closes it, and extends its log by events
that are not terminal, with one terminal event at the end exactly if the run is
closed (`Moves`).

`ContractIsKept` is the refinement. `OneNotice`: the number of notices a client has
seen is one if the run is closed and none otherwise (by `ClosedByOneEvent`).
`StepPasses`: in one step a run is opened, or goes from an active status to one that
waits or ends; `StepPerforms`: an effect is added for an approved step, once. Hence a
step moves each run as `Opens`, `Pauses` or `Ends` say, or not at all (`KeepsPromise`);
`Settled` excludes the statuses that are written and left within a step.

### One turn

An exception takes the run back to where its command began, so the invariant
holds twice: of the state, and of `base`. It is written with the state as
parameters (`Snap`, and `Point` for what holds at a place of the graph), and the
lemmas about it speak of data alone. `Snap` says: a plan of distinct targets; for
every step that what was done was approved and that an empty success was asked
for again (`RowFits`); that unless the checkpoint notes a failure the tasks it
counts as finished have a last step that succeeded (`DoneSoFar`); that the waiting
call is the one the checkpoint names (`WaitFits`); that a succeeded run has finished
its plan (`StatusFits`).

### The stream

`LinkOK` is why nothing is lost or shown twice: while the page reads, the frames on
the wire are the events after its last one, in order, and either the server goes
on where they end, or they end with a frame that closes the stream, or there was
a fault more than reconnects (`Losses`). `Timeline` says of every frame shown that it
is genuine, except a last one the server made up.

### The tool gateway

`CallsRely`: while a call is under way its run is open, the approval it found good
still is, and the top-up it found is there. All of this is due to the lock of the
run, which the approval routes take as well. `PaidByApproval` counts: a commit
either stores a top-up and consumes an approval of the same run and amount, or
neither (`FiniteSetTheorems`).

### Campus events

The invariant adds what the row lock is for: one transaction at a time has read
the row (`OneLock`), and what it has read is still so when it writes
(`ReadingStands`). The counter is then exact because a registration adds one element
to the set of seats taken and a withdrawal removes one. `SoundEvent` is the invariant of
moderated content: one lemma each shows that a scan, a report and a decision keep
it. The linked case of a report is the first open one, which exists since the
naturals are well-founded.

### Lost and found

`Rows` is what the CHECK constraints and the code together promise of a row (a refused
text has no publication date). `Held`: the target a claim has locked stays in public
view until the claim is written. Then a decision, an edit or the refusal of another
claim cannot delete an item with an active claim.

### Posts

`ThreadIInv` has five parts. `Locks`: what a request holds are rows its operation
takes, each with those that come before it (`Wants`), and no row has two holders.
`Requested`: a request fits its operation, and two never write the same new
comment. `Bodies`: types, and an unused body has no cases. `Counters`: what is counted is
finite, and `CountsAreExact`. `Places`: `NoPostInDeletedTopic`. A counter is only written
by a request that holds the post's row, so it adds or removes exactly the element
its operation adds to or removes from the set counted. From `Locks` alone follows
which pairs can wait for each other (`FewPairsDeadlock`): the first row that a
request misses must be one the other holds, for both at once, and the table of
rows per operation leaves only the pairs of `OnlyThesePairsDeadlock`.

### Accounts

`Held`: a token is held by one request, and while it is exchanged it is active and its
account not disabled, although the account was read without a lock. This needs
`SeesAll`: whoever disables an account has seen all its active tokens, because issuing
one waits for the lock of the account. `AsSeen`: what a client has seen is what the
row holds while its version stays; `NoLostUpdate` follows at the version check.

### The stack

`Completing` says how far the job has come: after which command which groups are
complete, and that nothing is downgraded while it runs. It rests on `InstalledIs`: the
twenty-four statements of the demonstration, run in their order over any rows,
leave nothing out. `Installed` is a recursive function; `InstalledIs` guesses its values
(what was there, and the first `i` groups), shows by `NeedsComeFirst` that they satisfy
its equation, and that there is no least index where it differs from them
(`LeastOf`, from the well-foundedness of the naturals). `Repeated` says that after each
clean command the rows are fixed points of what it writes, which needs that the
upserts are idempotent (`SeededOrderFacts`, `SeededEventFacts`, `SeededLostFacts`: lemmas on
data) and that no command writes what another one wrote; `JobRepeats` follows.
`JobLeavesUsers` needs only the lemmas on data. `AnyDowngradeFits` is not inductive at
all: `ClearsItsKinds` shows that the migration which first admits a kind of rows
clears it, whatever rows there are. `SeatsNotLost` counts seats as in `CampusEvents`,
with the reset by every start as one more step.

### Training and models

`Registry`: types, a worker that is not idle has a job, an activation under way holds a
model that was evaluated, whatever else is in use is a row of the seed, and one model
is active per purpose since the activation deactivates the others in its own step and
the seed fails where another model is in use. That seeded rows keep purpose and
provider (`SeedsStay`) is why the main purpose keeps a model. `Adapters` is what leases are
for, and holds for every job that is not in `shared`: the job a worker runs was not taken
from it (`OwnsItsJob`), no two workers run it (`OneRunner`), what a worker has read back is on
disk and what it records is what it has read (`JobDigests`), and the models made of the job
have its digest (`ModelDigests`). A job enters `shared` only by the claim that breaks this, so
nothing need be assumed of how long a worker is silent.

### Knowledge

`Rows`: types, a worker's job, one worker per job. `Citing` is about locks: whoever
replaces the chunks of a document is alone with it and no answer cites it or is
about to (`Alone`), so the chunks a transaction holds, and those a stored answer cites,
stay; this needs nothing of the vector store. `Indexing` is about the store: an upload
has its file and no document, what is deleted exists, a document has its one job
in step with its status (`JobsFit`), a worker past the store has left the vectors of its
generation there or the generation is `lost` (`StoredVectors`), and the same is true of the
chunks of a document that is ready or published (`Searchable`). That nobody replaces a
published document is `JobsFit` again: the document of a queued job is pending or deleted.

### Work orders

`Relies` collects what a request under way may count on: the record of its key is
its own, the number it has taken is the next one and nobody else's, and what was
checked under the lock of an order still holds. By `RecordTells` the effects of a key are none
before its record is completed and the one it tells of afterwards, which is the
refinement of `KeyedOnce`:
a commit is its `Do`, a replay its `Tell`, all else stutters. `Counted` says that what the
bound on the work counts is finite.

## 6. What is not proved, and what is not modelled

Only model-checked are the five liveness properties, `EveryCommandEnds`, `EveryRunMoves`,
`EveryTurnEnds`, `TimelineReachesEnd` and `EveryJobEnds`: they rest on fairness, whose ENABLED
the prover does not reason about. For the same reason the theorems are about the
specifications without fairness, which the fair ones imply.

Not modelled, with the reasons in `PROJECT.json`: the adapters of tools (they
translate arguments), reads (catalogue, run queries, dashboards, listings),
cryptography, HTTP clients of providers with their circuit breaker, probes, wiring,
guides and checklists (one writer at a time), audit records, and the pages of the
client other than the run detail. Of modelled components: the creation of topics, feedback on
answers, the matcher's score, the HTTP route of top-ups (which uses the service
`ToolGateway` models). The catalogue's listing is cached by process and may be refilled
with a stale snapshot after an invalidation (`catalog_routes.py`); only listings read it.

Simplifications a reader should know:

- Deadlocks are modelled where locks are taken in steps (`PostThread`, `Knowledge`,
  `Accounts`); elsewhere a deadlock is one of the rollbacks. The internal tool route
  locks run, then approval, the decision of an approval the other way round.
- An own item of a claim is read without a lock (`claims.py`), and may be deleted
  before the claim is written. The model allows it; no document forbids it.
- A run created without a conversation (`run_service.py:92`) that asks for input cannot
  be continued: only messages of a conversation are inputs.
- An escalated case is not pending any more, so nobody can decide it
  (`moderation_decision.py:99`); a new report re-links the oldest open case, so a
  decision on an old case may publish a text nobody has reviewed.
- No code sets the status `ended` of an event, which design document part 4, 7.3
  expects of a task. Queries compare `ends_at` with the clock, and so does the
  model.
- A login under way undoes a lock set meanwhile and issues a token for an account
  just disabled; that token cannot be refreshed (`RefreshOfEnabled`). A sweep after a
  reuse misses tokens issued at the same time.
- A clean-up job of a cited document fails for ever and stops the queue
  behind it; the repetition of a request id overwrites a finished answer.

Two variables keep apart what the code does not promise, and both cases
happen in the instances: a job in `ModelOps!shared` may end with the digest of another
file than its own, and a published document whose generation is in `Knowledge!lost` may not
be found. `CountIsExact` and `TimelineFits` are about rows that users make; what a start does
to seeded rows is in `Deployment` (`CountNeverTooHigh`, section 7).

## 7. Where the code disagrees with its documents

Each is a behaviour of the models (none is assumed away) and an entry under
"findings" in `PROJECT.json`, with the lines it contradicts.

| where | what the code does |
|---|---|
| `approval_decision.py:58` | a run whose approval is rejected or expires becomes `partial`; part 5 of the design says `cancelled` |
| `event_stream.py:77` | the replay of a log stops at an old `input_required`: a finished run that once asked shows a timeline that ends at the question |
| `RunDetailView.vue:30` | answers of detail requests are applied in the order of arrival; the page of a closed run may keep the detail of the open one |
| `moderation_handler.py:56` | a case open when its event was cancelled can still be approved, which publishes the event again |
| `claims.py:179` | refusing the last open claim of an item publishes it, a completed one included |
| `user_update.py:114` | two requests can disable the last two super administrators |
| `training_worker.py:346` | a worker writes its next stage over a cancellation |
| `training.py:57` | a job whose living worker was silent for ten minutes is given to another one; both write one file, and the digest recorded may be that of the other |
| `vectors.py:202` | chunks that OpenSearch refuses are not noticed: the job succeeds and the document can be published; part 3 of the design says that the job fails |
| `retrieval.py:76` | an expired document is still found and cited; part 3 of the design says it is not |
| `ingestion.py:43` | the clean-up job of a deleted document makes it `ready` again |
| `electricity.py:207` | two top-ups of a room at once: the later commit overwrites the credit of the earlier |
| `runtime.py:608` | after a correction of arguments a write step may succeed without a tool call |
| `runtime.py:616` | arguments refused twice put the run into `awaiting_input`, not to failure |
| `runtime.py:396` | a resume may be refused before the approval is consumed; the approval stays |
| `executor.py:273` | a drifted argument name is repaired for the hash only; the call is then refused |
| `seed_agent_platform.py:56` | once another router model is active, the job fails and the stack does not start |
| `seed_demo.py:1060` | rows of users that meet another unique index of the demonstration do the same |
| `seed_demo.py:1098` | every start sets the counter of the seeded event to one: more users than seats can register |

## 8. What could come next

- The chat page, which follows runs by stream and by polling, over the log of
  `RunStream`.
- `AgentTurn` inside `AgentRuntime`: the outcomes of `Execute` as what `AgentTurn` commits.
