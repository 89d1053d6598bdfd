-------------------------------- MODULE ModelOps --------------------------------
(***************************************************************************)
(* Model engineering: datasets and their versions, training jobs and the   *)
(* workers that run them, evaluations and the registry of models.          *)
(*                                                                         *)
(* A training worker commits every stage of a job in a transaction of its  *)
(* own and writes the adapter to a file named after the job; a worker that *)
(* stops leaves its job to be claimed again once nothing was recorded of   *)
(* it for ten minutes, and so does one that is only slow: two workers then *)
(* write one file and record what they did in one job.  Requests are       *)
(* transactions under READ COMMITTED: one that reads what it does not hold *)
(* is two steps.  The registry starts with the models of the seed, which   *)
(* every start of the system puts back to use.                             *)
(***************************************************************************)
EXTENDS Integers, Sequences, FiniteSets

CONSTANTS
    Datasets,
    Workers,      \* training workers
    Requests,     \* requests in flight that are two steps
    Seeds,        \* bound: models of the seed, the first of its list
    Kinds,        \* bound: purposes and providers of the models registered
    MaxVersions,  \* bound: versions of datasets
    MaxRows,      \* bound: jobs, and evaluations
    MaxModels,    \* bound: models
    MaxClaims,    \* bound: times a job is claimed
    MaxWork       \* bound: rows and claims together

Purposes == {"complex_generation", "agent_router", "rag_reranker", "embedding"}
Providers == {"deepseek", "local", "rule"}

ASSUME ModelOpsAssumption ==
    /\ Kinds \subseteq Purposes \X Providers
    /\ {MaxVersions, MaxRows, MaxModels, MaxClaims, MaxWork} \subseteq Nat
    /\ MaxVersions <= MaxRows
    /\ Seeds \in 1 .. 4 /\ Seeds <= MaxModels

ActiveTraining == {"queued", "preparing", "training", "evaluating"}
Ended == {"succeeded", "failed", "cancelled"}

VARIABLES
    datasets,    \* datasets[d]: none, live or deleted
    versions,    \* versions of datasets: dataset, ready (valid and without
                 \* sensitive data), frozen
    jobs,        \* training jobs: version, st, stale (updated_at is ten
                 \* minutes old), digest (of the claim whose file it records)
    files,       \* files[j]: the claim that wrote the adapter of job j, or 0
    exec,        \* exec[w]: what worker w does, of which job and claim, and
                 \* the bytes it read back (named by the claim that wrote them)
    claims,      \* claims so far
    shared,      \* history: jobs taken while another worker still ran them
    evals,       \* evaluations of models: model, st
    models,      \* registered models: purpose, provider, st, job, digest
    tx           \* tx[r]: what the request r has read and holds

vars == <<datasets, versions, jobs, files, exec, claims, shared, evals, models, tx>>

Idle == [op |-> "none"]
Done == [at |-> "idle", job |-> 0, claim |-> 0, bytes |-> 0, cancel |-> FALSE]
Rows == 1 .. MaxRows
Models == 1 .. MaxModels
Claims == 0 .. MaxClaims

VersionRows == [dataset : Datasets, ready : BOOLEAN, frozen : BOOLEAN]
JobRows == [version : Rows, st : ActiveTraining \cup Ended, stale : BOOLEAN,
            digest : Claims]
EvalRows == [model : Models, st : {"queued", "succeeded", "failed"}]
ModelRows == [purpose : Purposes, provider : Providers,
              st : {"candidate", "active", "inactive"},
              job : 0 .. MaxRows, digest : Claims]
Stages == [at : {"idle", "preparing", "training", "saved", "trained", "written"},
           job : 0 .. MaxRows, claim : Claims, bytes : Claims, cancel : BOOLEAN]

(* MODEL_SEEDS: in use without an evaluation, and without a file.          *)
SeededRow(purpose, provider) ==
    [purpose |-> purpose, provider |-> provider, st |-> "active", job |-> 0, digest |-> 0]
ModelSeeds ==
    <<SeededRow("complex_generation", "deepseek"), SeededRow("agent_router", "rule"),
      SeededRow("rag_reranker", "local"), SeededRow("embedding", "local")>>
Seeded == [m \in 1 .. Seeds |-> ModelSeeds[m]]

Init ==
    /\ datasets = [d \in Datasets |-> "none"]
    /\ versions = <<>> /\ jobs = <<>> /\ evals = <<>> /\ models = Seeded
    /\ files = [j \in Rows |-> 0]
    /\ exec = [w \in Workers |-> Done]
    /\ claims = 0 /\ shared = {}
    /\ tx = [r \in Requests |-> Idle]

MayWork == Len(versions) + Len(jobs) + Len(evals) + Len(models) + claims < MaxWork
MayAdd(table, max) == Len(table) < max /\ MayWork
MayClaim == claims < MaxClaims /\ MayWork
End(r) == tx' = [tx EXCEPT ![r] = Idle]
Holds(r, m) == tx[r].op = "activate" /\ tx[r].model = m
Free(m) == \A r \in Requests : ~Holds(r, m)

-----------------------------------------------------------------------------
(* Datasets: every request locks its dataset first. *)

CreateDataset(d) ==
    /\ datasets[d] = "none"
    /\ datasets' = [datasets EXCEPT ![d] = "live"]
    /\ UNCHANGED <<versions, jobs, files, exec, claims, shared, evals, models, tx>>

(* The file is read and validated while the dataset is held.               *)
CreateVersion(d, ready) ==
    /\ datasets[d] = "live" /\ MayAdd(versions, MaxVersions)
    /\ versions' = Append(versions, [dataset |-> d, ready |-> ready, frozen |-> FALSE])
    /\ UNCHANGED <<datasets, jobs, files, exec, claims, shared, evals, models, tx>>

Freeze(v) ==
    /\ datasets[versions[v].dataset] = "live"
    /\ ~versions[v].frozen /\ versions[v].ready
    /\ versions' = [versions EXCEPT ![v].frozen = TRUE]
    /\ UNCHANGED <<datasets, jobs, files, exec, claims, shared, evals, models, tx>>

InUse(d) ==
    \E j \in DOMAIN jobs :
        versions[jobs[j].version].dataset = d /\ jobs[j].st \in ActiveTraining

DeleteDataset(d) ==
    /\ datasets[d] = "live" /\ ~InUse(d)
    /\ datasets' = [datasets EXCEPT ![d] = "deleted"]
    /\ UNCHANGED <<versions, jobs, files, exec, claims, shared, evals, models, tx>>

-----------------------------------------------------------------------------
(* Training jobs: the requests. *)

ReadyVersion(v) ==
    /\ datasets[versions[v].dataset] = "live"
    /\ versions[v].frozen /\ versions[v].ready

(* create(): the dataset is read and not held when the job is inserted.    *)
ReadVersion(r, v) ==
    /\ tx[r] = Idle
    /\ ReadyVersion(v) /\ MayAdd(jobs, MaxRows)
    /\ tx' = [tx EXCEPT ![r] = [op |-> "train", version |-> v]]
    /\ UNCHANGED <<datasets, versions, jobs, files, exec, claims, shared, evals, models>>

CreateJob(r) ==
    /\ tx[r].op = "train" /\ MayAdd(jobs, MaxRows)
    /\ jobs' = Append(jobs, [version |-> tx[r].version, st |-> "queued",
                             stale |-> FALSE, digest |-> 0])
    /\ End(r)
    /\ UNCHANGED <<datasets, versions, files, exec, claims, shared, evals, models>>

Cancel(j) ==
    /\ jobs[j].st \in ActiveTraining
    /\ jobs' = [jobs EXCEPT ![j].st = "cancelled", ![j].stale = FALSE]
    /\ UNCHANGED <<datasets, versions, files, exec, claims, shared, evals, models, tx>>

-----------------------------------------------------------------------------
(* Training jobs: the worker. *)

Running == {"preparing", "training", "evaluating"}
RunsJob(w, j) == exec[w].at # "idle" /\ exec[w].job = j

(* Ten minutes pass in which nothing of the job is recorded: its worker    *)
(* stopped, or it reads a large model or works on a long batch.            *)
GoesStale(j) ==
    /\ jobs[j].st \in Running /\ ~jobs[j].stale
    /\ jobs' = [jobs EXCEPT ![j].stale = TRUE]
    /\ UNCHANGED <<datasets, versions, files, exec, claims, shared, evals, models, tx>>

(* Mutant: whatever has the worker's name on it is queued again.           *)
RequeuedAnything ==
    [j \in DOMAIN jobs |->
        IF jobs[j].st \in Running \cup {"succeeded"}
        THEN [jobs[j] EXCEPT !.st = "queued", !.stale = FALSE] ELSE jobs[j]]

(* Mutant: nothing is queued again.                                        *)
RequeuedNothing == jobs

Requeued ==
    [j \in DOMAIN jobs |->
        IF jobs[j].st \in Running /\ jobs[j].stale
        THEN [jobs[j] EXCEPT !.st = "queued", !.stale = FALSE] ELSE jobs[j]]

Oldest(queue, j) ==
    queue[j].st = "queued" /\ \A i \in 1 .. j - 1 : queue[i].st # "queued"

(* The transaction that starts a round: stale jobs are queued again and    *)
(* the oldest queued job is taken.                                         *)
Claim(w, j) ==
    /\ exec[w].at = "idle" /\ MayClaim
    /\ Oldest(Requeued, j)
    /\ claims' = claims + 1
    /\ jobs' = [Requeued EXCEPT ![j].st = "preparing"]
    /\ exec' = [exec EXCEPT ![w] =
                   [at |-> "preparing", job |-> j, claim |-> claims + 1, bytes |-> 0,
                    cancel |-> FALSE]]
    /\ shared' = shared \cup {i \in {j} : \E v \in Workers : RunsJob(v, i)}
    /\ UNCHANGED <<datasets, versions, files, evals, models, tx>>

(* _persist(): the row is locked and the fields are set, whatever it says. *)
Persisted(j, st) == [jobs EXCEPT ![j].st = st, ![j].stale = FALSE]
Moves(w, at) == exec' = [exec EXCEPT ![w].at = at]
Leaves(w) == exec' = [exec EXCEPT ![w] = Done]

Start(w) ==
    /\ exec[w].at = "preparing"
    /\ jobs' = Persisted(exec[w].job, "training")
    /\ Moves(w, "training")
    /\ UNCHANGED <<datasets, versions, files, claims, shared, evals, models, tx>>

(* The watcher looks every two seconds until the round ends.               *)
Watch(w) ==
    /\ exec[w].at # "idle" /\ ~exec[w].cancel
    /\ jobs[exec[w].job].st = "cancelled"
    /\ exec' = [exec EXCEPT ![w].cancel = TRUE]
    /\ UNCHANGED <<datasets, versions, jobs, files, claims, shared, evals, models, tx>>

(* The watcher records progress that the training made.                    *)
Report(w) ==
    /\ exec[w].at \in {"training", "saved"} /\ ~exec[w].cancel
    /\ jobs[exec[w].job].st # "cancelled" /\ jobs[exec[w].job].stale
    /\ jobs' = [jobs EXCEPT ![exec[w].job].stale = FALSE]
    /\ UNCHANGED <<datasets, versions, files, exec, claims, shared, evals, models, tx>>

(* The training looks at the signal between two batches.                   *)
StopTraining(w) ==
    /\ exec[w].at = "training" /\ exec[w].cancel
    /\ jobs' = Persisted(exec[w].job, "cancelled")
    /\ Leaves(w)
    /\ UNCHANGED <<datasets, versions, files, claims, shared, evals, models, tx>>

(* The back end saves the adapter and reads the file back; then the worker *)
(* writes the bytes that were read ...                                     *)
Train(w) ==
    /\ exec[w].at = "training"
    /\ files' = [files EXCEPT ![exec[w].job] = exec[w].claim]
    /\ Moves(w, "saved")
    /\ UNCHANGED <<datasets, versions, jobs, claims, shared, evals, models, tx>>

ReadBack(w) ==
    /\ exec[w].at = "saved"
    /\ exec' = [exec EXCEPT ![w].at = "trained", ![w].bytes = files[exec[w].job]]
    /\ UNCHANGED <<datasets, versions, jobs, files, claims, shared, evals, models, tx>>

WriteArtifact(w) ==
    /\ exec[w].at = "trained"
    /\ files' = [files EXCEPT ![exec[w].job] = exec[w].bytes]
    /\ Moves(w, "written")
    /\ UNCHANGED <<datasets, versions, jobs, claims, shared, evals, models, tx>>

(* ... and records their digest.                                           *)
Succeeded(w) ==
    [Persisted(exec[w].job, "succeeded") EXCEPT ![exec[w].job].digest = exec[w].bytes]

Succeed(w) ==
    /\ exec[w].at = "written"
    /\ jobs' = Succeeded(w)
    /\ Leaves(w)
    /\ UNCHANGED <<datasets, versions, files, claims, shared, evals, models, tx>>

(* A data set that cannot be read, a missing resource or any other error.  *)
FailJob(w) ==
    /\ exec[w].at # "idle"
    /\ jobs' = Persisted(exec[w].job, "failed")
    /\ Leaves(w)
    /\ UNCHANGED <<datasets, versions, files, claims, shared, evals, models, tx>>

Crash(w) ==
    /\ exec[w].at # "idle"
    /\ Leaves(w)
    /\ UNCHANGED <<datasets, versions, jobs, files, claims, shared, evals, models, tx>>

-----------------------------------------------------------------------------
(* Evaluations and the registry of models. *)

CreateEvaluation(m) ==
    /\ m \in DOMAIN models /\ MayAdd(evals, MaxRows)
    /\ evals' = Append(evals, [model |-> m, st |-> "queued"])
    /\ UNCHANGED <<datasets, versions, jobs, files, exec, claims, shared, models, tx>>

(* DeepSeek is asked a few prompts, a local model measured against its     *)
(* base model; nothing evaluates a model of rules or one without a file.   *)
Verdicts(m) ==
    IF models[m].provider = "rule" \/ (models[m].provider = "local" /\ m <= Seeds)
    THEN {"failed"} ELSE {"succeeded", "failed"}

(* One transaction claims the evaluation, runs it and ends it; a worker    *)
(* that stops before the end leaves it queued.                             *)
Evaluate(e) ==
    /\ evals[e].st = "queued"
    /\ \E st \in Verdicts(evals[e].model) : evals' = [evals EXCEPT ![e].st = st]
    /\ UNCHANGED <<datasets, versions, jobs, files, exec, claims, shared, models, tx>>

(* register(): the adapter of a job must be its own, and the file of a     *)
(* local model must have the digest it is registered with.                 *)
Register(purpose, provider, j) ==
    /\ MayAdd(models, MaxModels)
    /\ j # 0 => jobs[j].st = "succeeded" /\ jobs[j].digest # 0
    /\ models' = Append(models,
           [purpose |-> purpose, provider |-> provider, st |-> "candidate", job |-> j,
            digest |-> IF provider = "local" /\ j # 0 THEN files[j] ELSE 0])
    /\ UNCHANGED <<datasets, versions, jobs, files, exec, claims, shared, evals, tx>>

Evaluated(m) == \E e \in DOMAIN evals : evals[e].model = m /\ evals[e].st = "succeeded"

ActiveFor(purpose) ==
    {m \in DOMAIN models : models[m].purpose = purpose /\ models[m].st = "active"}

(* activate: the model is held and the models to deactivate are looked up. *)
ReadActive(r, m) ==
    /\ tx[r] = Idle /\ Free(m)
    /\ models[m].st # "active" /\ Evaluated(m)
    /\ models[m].purpose = "complex_generation" => models[m].provider = "deepseek"
    /\ tx' = [tx EXCEPT ![r] = [op |-> "activate", model |-> m,
                                seen |-> ActiveFor(models[m].purpose)]]
    /\ UNCHANGED <<datasets, versions, jobs, files, exec, claims, shared, evals, models>>

Deactivated(S) ==
    [m \in DOMAIN models |->
        IF m \in S /\ models[m].st = "active"
        THEN [models[m] EXCEPT !.st = "inactive"] ELSE models[m]]

(* Mutant: no unique index.                                                *)
ActivateUnchecked(r) ==
    LET m == tx[r].model IN
    /\ tx[r].op = "activate"
    /\ models' = [Deactivated(tx[r].seen) EXCEPT ![m].st = "active"]
    /\ End(r)
    /\ UNCHANGED <<datasets, versions, jobs, files, exec, claims, shared, evals>>

(* Another model that became active for the purpose meanwhile breaks the   *)
(* unique index, and nothing changes.                                      *)
Activate(r) ==
    LET m == tx[r].model IN
    /\ tx[r].op = "activate"
    /\ models' = IF ActiveFor(models[m].purpose) \subseteq tx[r].seen
                 THEN [Deactivated(tx[r].seen) EXCEPT ![m].st = "active"]
                 ELSE models
    /\ End(r)
    /\ UNCHANGED <<datasets, versions, jobs, files, exec, claims, shared, evals>>

Deactivate(m) ==
    /\ Free(m)
    /\ models[m].st = "active" /\ models[m].purpose # "complex_generation"
    /\ models' = Deactivated({m})
    /\ UNCHANGED <<datasets, versions, jobs, files, exec, claims, shared, evals, tx>>

(* The seed at a start: one transaction that puts the seeded models to use *)
(* and fails as a whole where another model of a purpose is in use.        *)
Reseed ==
    /\ \A m \in DOMAIN Seeded : Free(m) /\ ActiveFor(models[m].purpose) \subseteq {m}
    /\ models' = [m \in DOMAIN models |->
                     IF m \in DOMAIN Seeded THEN [models[m] EXCEPT !.st = "active"]
                     ELSE models[m]]
    /\ UNCHANGED <<datasets, versions, jobs, files, exec, claims, shared, evals, tx>>

Rollback(r) ==
    /\ tx[r] # Idle
    /\ End(r)
    /\ UNCHANGED <<datasets, versions, jobs, files, exec, claims, shared, evals, models>>

-----------------------------------------------------------------------------

Ask ==
    \/ \E d \in Datasets : CreateDataset(d) \/ DeleteDataset(d)
    \/ \E d \in Datasets, ready \in BOOLEAN : CreateVersion(d, ready)
    \/ \E v \in DOMAIN versions : Freeze(v)
    \/ \E r \in Requests, v \in DOMAIN versions : ReadVersion(r, v)
    \/ \E r \in Requests : CreateJob(r) \/ Activate(r) \/ Rollback(r)
    \/ \E j \in DOMAIN jobs : Cancel(j)
    \/ \E m \in DOMAIN models : CreateEvaluation(m) \/ Deactivate(m)
    \/ \E kind \in Kinds, j \in 0 .. Len(jobs) : Register(kind[1], kind[2], j)
    \/ \E r \in Requests, m \in DOMAIN models : ReadActive(r, m)

Stage(w) ==
    \/ \E j \in DOMAIN jobs : Claim(w, j)
    \/ Start(w) \/ StopTraining(w) \/ Train(w) \/ ReadBack(w) \/ WriteArtifact(w)
    \/ Succeed(w) \/ FailJob(w)

Next ==
    \/ Ask \/ Reseed
    \/ \E w \in Workers : Stage(w) \/ Watch(w) \/ Report(w) \/ Crash(w)
    \/ \E j \in DOMAIN jobs : GoesStale(j)
    \/ \E e \in DOMAIN evals : Evaluate(e)

Spec == Init /\ [][Next]_vars

(* A worker that runs goes on, and time passes.                            *)
Fairness ==
    /\ \A w \in Workers : WF_vars(Stage(w))
    /\ \A j \in Rows : WF_vars(j \in DOMAIN jobs /\ GoesStale(j))

LiveSpec == Spec /\ Fairness

-----------------------------------------------------------------------------
(* Properties *)

TxRows ==
    [op : {"none"}] \cup [op : {"train"}, version : Rows]
    \cup [op : {"activate"}, model : Models, seen : SUBSET Models]

TypeOK ==
    /\ datasets \in [Datasets -> {"none", "live", "deleted"}]
    /\ versions \in Seq(VersionRows) /\ Len(versions) <= MaxRows
    /\ jobs \in Seq(JobRows) /\ Len(jobs) <= MaxRows
    /\ files \in [Rows -> Claims]
    /\ exec \in [Workers -> Stages]
    /\ claims \in Claims /\ shared \subseteq Rows
    /\ evals \in Seq(EvalRows) /\ Len(evals) <= MaxRows
    /\ models \in Seq(ModelRows) /\ Len(models) <= MaxModels
    /\ tx \in [Requests -> TxRows]

(* The adapter on disk, the digest its job records and the one a local     *)
(* model was registered with agree, and the job stays succeeded, however   *)
(* often workers stopped and jobs were claimed again (todo.md:56: the      *)
(* digest agrees with the database).  The takeover of a job from a worker  *)
(* that still runs it is the only way to break this, and breaks it for     *)
(* that job alone; a job that succeeded has a digest even then.            *)
DigestIsOfFile ==
    /\ \A j \in DOMAIN jobs :
           jobs[j].st = "succeeded" =>
               /\ jobs[j].digest # 0
               /\ j \notin shared => jobs[j].digest = files[j]
    /\ \A m \in DOMAIN models :
           models[m].provider = "local" /\ models[m].job \notin shared \cup {0} =>
               /\ jobs[models[m].job].st = "succeeded"
               /\ models[m].digest = files[models[m].job]

(* Two activations that race, with each other or with a start, never leave *)
(* two active models for a purpose; what is active was evaluated or is of  *)
(* the seed; and the generation of complex answers, the fallback of the    *)
(* other purposes, always has an active model, of DeepSeek.                *)
OneActivePerPurpose ==
    /\ \A m, n \in DOMAIN models :
           models[m].st = "active" =>
               /\ Evaluated(m) \/ m \in DOMAIN Seeded
               /\ models[n].st = "active" /\ models[n].purpose = models[m].purpose => m = n
    /\ \E m \in ActiveFor("complex_generation") : models[m].provider = "deepseek"

(* Again and again all jobs there are have ended, unless workers keep      *)
(* stopping, or being taken for dead, until nobody may claim any more.     *)
EveryJobEnds == []<>(MayClaim => \A j \in DOMAIN jobs : jobs[j].st \in Ended)

==============================================================================
