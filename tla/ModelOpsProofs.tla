---------------------------- MODULE ModelOpsProofs ----------------------------
(***************************************************************************)
(* Machine-checked proofs about ModelOps, for any datasets, workers and    *)
(* requests and any number of rows and claims.                             *)
(***************************************************************************)
EXTENDS ModelOps, SequenceTheorems, FiniteSetTheorems, TLAPS

(* A worker that runs has a job and the number of its claim.               *)
HasJob(w) == exec[w].at # "idle" =>
    exec[w].job \in DOMAIN jobs /\ exec[w].claim # 0
WorkersHaveJobs == \A w \in Workers : HasJob(w)

(* An activation under way holds an evaluated model that its purpose       *)
(* admits, and would take models of this purpose out of use.               *)
Activating(r) == tx[r].op = "activate" =>
    LET m == tx[r].model IN
    /\ m \in DOMAIN models /\ Evaluated(m)
    /\ models[m].purpose = "complex_generation" => models[m].provider = "deepseek"
    /\ \A n \in tx[r].seen : n \in DOMAIN models /\ models[n].purpose = models[m].purpose
ActivationsFit == \A r \in Requests : Activating(r)

(* The models of the seed are the first of the registry.                   *)
SeedsStay == \A m \in DOMAIN Seeded :
    m \in DOMAIN models /\ models[m].purpose = Seeded[m].purpose

Registry == TypeOK /\ WorkersHaveJobs /\ ActivationsFit /\ SeedsStay /\ OneActivePerPurpose

(* What is on disk and in the hands of a worker was written by a claim;    *)
(* and a job that no other worker was given is nobody else's: it has not   *)
(* ended, or was cancelled.                                                *)
Owns(w) == exec[w].at # "idle" =>
    LET j == exec[w].job IN
    /\ exec[w].at = "saved" => files[j] # 0
    /\ exec[w].at \in {"trained", "written"} => exec[w].bytes # 0
    /\ j \notin shared =>
           /\ jobs[j].st \in ActiveTraining \cup {"cancelled"}
           /\ exec[w].at = "written" => files[j] = exec[w].bytes
OwnsItsJob == \A w \in Workers : Owns(w)
OneRunner ==
    \A w, v \in Workers :
        /\ exec[w].at # "idle" /\ exec[v].at # "idle" /\ exec[w].job = exec[v].job
        /\ exec[w].job \notin shared
        => w = v

(* Digests of jobs that succeeded, and of the models made of them.         *)
JobDigests == \A j \in DOMAIN jobs :
    jobs[j].st = "succeeded" =>
        jobs[j].digest # 0 /\ (j \notin shared => jobs[j].digest = files[j])
ModelDigest(m) == models[m].provider = "local" /\ models[m].job \notin shared \cup {0} =>
    /\ models[m].job \in DOMAIN jobs /\ jobs[models[m].job].st = "succeeded"
    /\ models[m].digest = files[models[m].job]
ModelDigests == \A m \in DOMAIN models : ModelDigest(m)

Adapters == OwnsItsJob /\ OneRunner /\ JobDigests /\ ModelDigests

-----------------------------------------------------------------------------
(* The tables: what it does to a sequence of rows to rewrite, to map and   *)
(* to append.                                                              *)

(* A table in which one row is rewritten.                                  *)
LEMMA RowRewritten ==
    ASSUME NEW S, NEW s \in Seq(S), NEW i \in DOMAIN s, NEW e \in S
    PROVE  LET t == [s EXCEPT ![i] = e] IN
           /\ t \in Seq(S) /\ DOMAIN t = DOMAIN s /\ Len(t) = Len(s)
           /\ t[i] = e /\ \A k \in DOMAIN s \ {i} : t[k] = s[k]
<1>1. DOMAIN s = 1 .. Len(s) /\ Len(s) \in Nat
    BY LenProperties
<1>2. /\ [s EXCEPT ![i] = e] \in Seq(S)
      /\ Len([s EXCEPT ![i] = e]) = Len(s)
      /\ \A k \in 1 .. Len(s) : [s EXCEPT ![i] = e][k] = IF k = i THEN e ELSE s[k]
    BY <1>1, ExceptSeq
<1> QED  BY <1>1, <1>2

(* A table with a row for each row of another.                             *)
LEMMA RowsMapped ==
    ASSUME NEW S, NEW T, NEW s \in Seq(S), NEW t \in [DOMAIN s -> T]
    PROVE  t \in Seq(T) /\ DOMAIN t = DOMAIN s /\ Len(t) = Len(s)
<1>1. DOMAIN s = 1 .. Len(s) /\ Len(s) \in Nat
    BY LenProperties
<1>2. t \in Seq(T)
    BY <1>1, SeqDef
<1>3. DOMAIN t = 1 .. Len(t) /\ Len(t) \in Nat
    BY <1>2, LenProperties
<1> QED  BY <1>1, <1>2, <1>3

(* A table that may grow by a row.                                         *)
LEMMA RowAdded ==
    ASSUME NEW S, NEW s \in Seq(S), NEW e \in S, NEW max \in Nat, MayAdd(s, max)
    PROVE  LET t == Append(s, e) IN
           /\ t \in Seq(S) /\ Len(t) <= max
           /\ DOMAIN t = DOMAIN s \cup {Len(s) + 1} /\ Len(s) + 1 \notin DOMAIN s
           /\ t[Len(s) + 1] = e /\ \A k \in DOMAIN s : t[k] = s[k]
<1>1. DOMAIN s = 1 .. Len(s) /\ Len(s) \in Nat
    BY LenProperties
<1>2. /\ Append(s, e) \in Seq(S) /\ Len(Append(s, e)) = Len(s) + 1
      /\ \A k \in 1 .. Len(s) : Append(s, e)[k] = s[k]
      /\ Append(s, e)[Len(s) + 1] = e
    BY AppendProperties
<1>3. DOMAIN Append(s, e) = 1 .. Len(s) + 1
    BY <1>2, LenProperties
<1>4. Len(s) + 1 <= max
    BY <1>1 DEF MayAdd
<1> QED  BY <1>1, <1>2, <1>3, <1>4

(* The numbers of the rows that there are.                                 *)
LEMMA RowNumbers ==
    ASSUME TypeOK
    PROVE  /\ DOMAIN versions \subseteq Rows /\ DOMAIN jobs \subseteq Rows
           /\ DOMAIN evals \subseteq Rows /\ DOMAIN models \subseteq Models
           /\ DOMAIN jobs = 1 .. Len(jobs) /\ Len(jobs) \in Nat
           /\ \A j \in DOMAIN jobs : jobs[j] \in JobRows
           /\ \A m \in DOMAIN models : models[m] \in ModelRows
           /\ \A v \in DOMAIN versions : versions[v] \in VersionRows
           /\ \A e \in DOMAIN evals : evals[e] \in EvalRows
<1>1. ASSUME NEW S, NEW s \in Seq(S), Len(s) <= MaxRows
      PROVE  DOMAIN s = 1 .. Len(s) /\ Len(s) \in Nat /\ DOMAIN s \subseteq Rows
    BY <1>1, LenProperties, ModelOpsAssumption DEF Rows
<1>2. ASSUME NEW S, NEW s \in Seq(S), NEW i \in DOMAIN s
      PROVE  s[i] \in S
    BY LenProperties, ElementOfSeq
<1>3. ASSUME NEW S, NEW s \in Seq(S), Len(s) <= MaxModels
      PROVE  DOMAIN s \subseteq Models
    BY <1>3, LenProperties, ModelOpsAssumption DEF Models
<1> QED  BY <1>1, <1>2, <1>3 DEF TypeOK

-----------------------------------------------------------------------------
(* What a step leaves of a job. *)

(* A job whose state is recorded.                                          *)
LEMMA StateRecorded ==
    ASSUME TypeOK, NEW j \in DOMAIN jobs, NEW st \in ActiveTraining \cup Ended
    PROVE  LET p == Persisted(j, st) IN
           /\ p \in Seq(JobRows) /\ DOMAIN p = DOMAIN jobs /\ Len(p) = Len(jobs)
           /\ p[j].st = st /\ p[j].stale = FALSE /\ p[j].digest = jobs[j].digest
           /\ \A i \in DOMAIN jobs \ {j} : p[i] = jobs[i]
<1>1. jobs \in Seq(JobRows) /\ jobs[j] \in JobRows
    BY RowNumbers DEF TypeOK
<1>2. PICK e : e = [jobs[j] EXCEPT !.st = st, !.stale = FALSE]
    OBVIOUS
<1>3. e \in JobRows /\ e.st = st /\ e.stale = FALSE /\ e.digest = jobs[j].digest
    BY <1>1, <1>2 DEF JobRows
<1>4. Persisted(j, st) = [jobs EXCEPT ![j] = e]
    BY <1>1, <1>2 DEF Persisted
<1> QED  BY <1>1, <1>3, <1>4, RowRewritten

(* A job whose progress is recorded, or nothing for ten minutes.           *)
LEMMA TimeRecorded ==
    ASSUME TypeOK, NEW j \in DOMAIN jobs, NEW b \in BOOLEAN,
           jobs' = [jobs EXCEPT ![j].stale = b]
    PROVE  /\ jobs' \in Seq(JobRows) /\ DOMAIN jobs' = DOMAIN jobs
           /\ Len(jobs') = Len(jobs)
           /\ jobs'[j].st = jobs[j].st /\ jobs'[j].digest = jobs[j].digest
           /\ \A i \in DOMAIN jobs \ {j} : jobs'[i] = jobs[i]
<1>1. PICK e : e = [jobs[j] EXCEPT !.stale = b]
    OBVIOUS
<1>2. /\ e \in JobRows /\ jobs \in Seq(JobRows)
      /\ e.st = jobs[j].st /\ e.digest = jobs[j].digest
    BY <1>1, RowNumbers DEF JobRows, TypeOK
<1>3. jobs' = [jobs EXCEPT ![j] = e]
    BY <1>1
<1> QED  BY <1>2, <1>3, RowRewritten

(* A job that succeeded, with the digest of the bytes it read back.        *)
LEMMA DigestRecorded ==
    ASSUME TypeOK, NEW w \in Workers, exec[w].job \in DOMAIN jobs
    PROVE  LET p == Succeeded(w)  j == exec[w].job IN
           /\ p \in Seq(JobRows) /\ DOMAIN p = DOMAIN jobs /\ Len(p) = Len(jobs)
           /\ p[j].st = "succeeded" /\ p[j].stale = FALSE /\ p[j].digest = exec[w].bytes
           /\ \A i \in DOMAIN jobs \ {j} : p[i] = jobs[i]
<1>1. PICK j \in DOMAIN jobs : j = exec[w].job
    OBVIOUS
<1>2. jobs \in Seq(JobRows) /\ jobs[j] \in JobRows /\ exec[w].bytes \in Claims
    BY RowNumbers DEF TypeOK, Stages
<1>3. PICK e : e = [jobs[j] EXCEPT !.st = "succeeded", !.stale = FALSE,
                                   !.digest = exec[w].bytes]
    OBVIOUS
<1>4. e \in JobRows /\ e.st = "succeeded" /\ e.stale = FALSE /\ e.digest = exec[w].bytes
    BY <1>2, <1>3 DEF JobRows, Ended
<1>5. Succeeded(w) = [jobs EXCEPT ![j] = e]
    BY <1>1, <1>2, <1>3, <1>4 DEF Succeeded, Persisted
<1> QED  BY <1>1, <1>2, <1>4, <1>5, RowRewritten

(* What a round finds: stale jobs are queued, the others as they were.     *)
LEMMA RequeuedRows ==
    ASSUME TypeOK
    PROVE  /\ Requeued \in Seq(JobRows) /\ DOMAIN Requeued = DOMAIN jobs
           /\ Len(Requeued) = Len(jobs)
           /\ \A j \in DOMAIN jobs :
                  /\ Requeued[j] = jobs[j] \/ (jobs[j].st \in Running /\ jobs[j].stale)
                  /\ jobs[j].st \in Running /\ jobs[j].stale =>
                         Requeued[j].st = "queued" /\ Requeued[j].stale = FALSE
<1>1. jobs \in Seq(JobRows) /\ \A j \in DOMAIN jobs : jobs[j] \in JobRows
    BY RowNumbers DEF TypeOK
<1>2. ASSUME NEW j \in DOMAIN jobs
      PROVE  LET e == [jobs[j] EXCEPT !.st = "queued", !.stale = FALSE] IN
             e \in JobRows /\ e.st = "queued" /\ e.stale = FALSE
    BY <1>1 DEF JobRows, ActiveTraining
<1>3. Requeued \in [DOMAIN jobs -> JobRows]
    BY <1>1, <1>2 DEF Requeued
<1>4. \A j \in DOMAIN jobs :
          Requeued[j] = IF jobs[j].st \in Running /\ jobs[j].stale
                        THEN [jobs[j] EXCEPT !.st = "queued", !.stale = FALSE] ELSE jobs[j]
    BY DEF Requeued
<1>5. Requeued \in Seq(JobRows) /\ DOMAIN Requeued = DOMAIN jobs /\ Len(Requeued) = Len(jobs)
    BY <1>1, <1>3, RowsMapped
<1> QED  BY <1>2, <1>4, <1>5

(* What a round leaves.                                                    *)
LEMMA ClaimedRows ==
    ASSUME TypeOK, NEW j \in DOMAIN jobs
    PROVE  LET p == [Requeued EXCEPT ![j].st = "preparing"] IN
           /\ p \in Seq(JobRows) /\ DOMAIN p = DOMAIN jobs /\ Len(p) = Len(jobs)
           /\ p[j].st = "preparing" /\ p[j].stale = Requeued[j].stale
           /\ \A i \in DOMAIN jobs \ {j} : p[i] = Requeued[i]
<1>1. PICK q : q = Requeued
    OBVIOUS
<1>2. q \in Seq(JobRows) /\ DOMAIN q = DOMAIN jobs /\ Len(q) = Len(jobs)
    BY <1>1, RequeuedRows
<1>3. q[j] \in JobRows
    BY <1>2, LenProperties, ElementOfSeq
<1>4. PICK e : e = [q[j] EXCEPT !.st = "preparing"]
    OBVIOUS
<1>5. e \in JobRows /\ e.st = "preparing" /\ e.stale = q[j].stale
    BY <1>3, <1>4 DEF JobRows, ActiveTraining
<1>6. [q EXCEPT ![j].st = "preparing"] = [q EXCEPT ![j] = e]
    BY <1>4
<1> QED  BY <1>1, <1>2, <1>5, <1>6, RowRewritten

(* The models of which some are taken out of use.                          *)
LEMMA DeactivatedRows ==
    ASSUME TypeOK, NEW S
    PROVE  /\ Deactivated(S) \in Seq(ModelRows) /\ DOMAIN Deactivated(S) = DOMAIN models
           /\ Len(Deactivated(S)) = Len(models)
           /\ \A m \in DOMAIN models :
                  /\ Deactivated(S)[m].purpose = models[m].purpose
                  /\ Deactivated(S)[m].provider = models[m].provider
                  /\ Deactivated(S)[m].job = models[m].job
                  /\ Deactivated(S)[m].digest = models[m].digest
                  /\ Deactivated(S)[m].st = "active" <=> models[m].st = "active" /\ m \notin S
<1>1. models \in Seq(ModelRows) /\ \A m \in DOMAIN models : models[m] \in ModelRows
    BY RowNumbers DEF TypeOK
<1>2. ASSUME NEW m \in DOMAIN models
      PROVE  LET e == [models[m] EXCEPT !.st = "inactive"] IN
             /\ e \in ModelRows /\ e.st = "inactive" /\ e.purpose = models[m].purpose
             /\ e.provider = models[m].provider /\ e.job = models[m].job
             /\ e.digest = models[m].digest
    BY <1>1 DEF ModelRows
<1>3. Deactivated(S) \in [DOMAIN models -> ModelRows]
    BY <1>1, <1>2 DEF Deactivated
<1>4. \A m \in DOMAIN models :
          Deactivated(S)[m] = IF m \in S /\ models[m].st = "active"
                              THEN [models[m] EXCEPT !.st = "inactive"] ELSE models[m]
    BY DEF Deactivated
<1>5. /\ Deactivated(S) \in Seq(ModelRows) /\ DOMAIN Deactivated(S) = DOMAIN models
      /\ Len(Deactivated(S)) = Len(models)
    BY <1>1, <1>3, RowsMapped
<1>6. ASSUME NEW m \in DOMAIN models
      PROVE  Deactivated(S)[m].st = "active" <=> models[m].st = "active" /\ m \notin S
    BY <1>2, <1>4
<1> QED  BY <1>2, <1>4, <1>5, <1>6

(* The models of which one is put to use instead of some others.           *)
Exchanged(S, m) == [Deactivated(S) EXCEPT ![m].st = "active"]

LEMMA ActivatedRows ==
    ASSUME TypeOK, NEW S, NEW m \in DOMAIN models
    PROVE  LET p == Exchanged(S, m) IN
           /\ p \in Seq(ModelRows) /\ DOMAIN p = DOMAIN models /\ Len(p) = Len(models)
           /\ \A n \in DOMAIN models :
                  /\ p[n].purpose = models[n].purpose /\ p[n].provider = models[n].provider
                  /\ p[n].job = models[n].job /\ p[n].digest = models[n].digest
                  /\ (p[n].st = "active") <=> n = m \/ (models[n].st = "active" /\ n \notin S)
<1>1. PICK q : q = Deactivated(S)
    OBVIOUS
<1>2. /\ q \in Seq(ModelRows) /\ DOMAIN q = DOMAIN models /\ Len(q) = Len(models)
      /\ \A n \in DOMAIN models :
             /\ q[n].purpose = models[n].purpose /\ q[n].provider = models[n].provider
             /\ q[n].job = models[n].job /\ q[n].digest = models[n].digest
             /\ q[n].st = "active" <=> models[n].st = "active" /\ n \notin S
    BY <1>1, DeactivatedRows
<1>3. q[m] \in ModelRows
    BY <1>2, LenProperties, ElementOfSeq
<1>4. PICK e : e = [q[m] EXCEPT !.st = "active"]
    OBVIOUS
<1>5. /\ e \in ModelRows /\ e.st = "active" /\ e.purpose = q[m].purpose
      /\ e.provider = q[m].provider /\ e.job = q[m].job /\ e.digest = q[m].digest
    BY <1>3, <1>4 DEF ModelRows
<1>6. [q EXCEPT ![m].st = "active"] = [q EXCEPT ![m] = e]
    BY <1>4
<1>7. LET p == [q EXCEPT ![m] = e] IN
      /\ p \in Seq(ModelRows) /\ DOMAIN p = DOMAIN models /\ Len(p) = Len(models)
      /\ p[m] = e /\ \A n \in DOMAIN models \ {m} : p[n] = q[n]
    BY <1>2, <1>5, RowRewritten
<1> QED  BY <1>1, <1>2, <1>5, <1>6, <1>7 DEF Exchanged

-----------------------------------------------------------------------------
(* What a step leaves of a worker. *)

(* Each worker that runs after the step ran its job before.                *)
RunsOn == \A w \in Workers : exec'[w].at # "idle" =>
    /\ exec[w].at # "idle" /\ exec'[w].job = exec[w].job /\ exec'[w].claim = exec[w].claim

(* A worker that goes on with its round.                                   *)
LEMMA WorkerMoves ==
    ASSUME TypeOK, NEW w \in Workers, NEW at \in {"training", "saved", "written"},
           exec[w].at # "idle", Moves(w, at)
    PROVE  /\ exec' \in [Workers -> Stages] /\ RunsOn
           /\ exec'[w].at = at /\ exec'[w].job = exec[w].job /\ exec'[w].claim = exec[w].claim
           /\ exec'[w].bytes = exec[w].bytes
           /\ \A v \in Workers \ {w} : exec'[v] = exec[v]
<1>1. PICK e : e = [exec[w] EXCEPT !.at = at]
    OBVIOUS
<1>2. e \in Stages /\ e.at = at /\ e.job = exec[w].job /\ e.claim = exec[w].claim
      /\ e.bytes = exec[w].bytes
    BY <1>1 DEF TypeOK, Stages
<1>3. exec' = [exec EXCEPT ![w] = e]
    BY <1>1 DEF Moves
<1> QED  BY <1>2, <1>3 DEF TypeOK, RunsOn

(* A worker that ends its round.                                           *)
LEMMA WorkerLeaves ==
    ASSUME TypeOK, NEW w \in Workers, Leaves(w)
    PROVE  /\ exec' \in [Workers -> Stages] /\ RunsOn
           /\ exec'[w].at = "idle" /\ \A v \in Workers \ {w} : exec'[v] = exec[v]
<1>1. Done \in Stages /\ Done.at = "idle"
    BY ModelOpsAssumption DEF Done, Stages, Claims
<1>2. exec' = [exec EXCEPT ![w] = Done]
    BY DEF Leaves
<1> QED  BY <1>1, <1>2 DEF TypeOK, RunsOn

(* A worker that is told of the cancellation.                              *)
LEMMA WorkerWarned ==
    ASSUME TypeOK, NEW w \in Workers, Watch(w)
    PROVE  /\ exec' \in [Workers -> Stages] /\ RunsOn
           /\ \A v \in Workers : exec'[v].at = exec[v].at /\ exec'[v].bytes = exec[v].bytes
<1>1. PICK e : e = [exec[w] EXCEPT !.cancel = TRUE]
    OBVIOUS
<1>2. e \in Stages /\ e.at = exec[w].at /\ e.job = exec[w].job /\ e.claim = exec[w].claim
      /\ e.bytes = exec[w].bytes
    BY <1>1 DEF TypeOK, Stages
<1>3. exec' = [exec EXCEPT ![w] = e] /\ exec[w].at # "idle"
    BY <1>1 DEF Watch
<1> QED  BY <1>2, <1>3 DEF TypeOK, RunsOn

(* A worker that takes a job.                                              *)
LEMMA WorkerClaims ==
    ASSUME TypeOK, NEW w \in Workers, NEW j \in DOMAIN jobs, Claim(w, j)
    PROVE  /\ exec' \in [Workers -> Stages] /\ claims' \in Claims /\ claims' # 0
           /\ exec'[w].at = "preparing" /\ exec'[w].job = j /\ exec'[w].claim = claims'
           /\ \A v \in Workers \ {w} : exec'[v] = exec[v]
<1>1. claims + 1 \in Claims /\ claims + 1 # 0 /\ claims' = claims + 1
    BY ModelOpsAssumption DEF Claim, MayClaim, TypeOK, Claims
<1>2. j \in 0 .. MaxRows
    BY RowNumbers, ModelOpsAssumption DEF Rows
<1>3. PICK e : e = [at |-> "preparing", job |-> j, claim |-> claims + 1, bytes |-> 0,
                    cancel |-> FALSE]
    OBVIOUS
<1>4. e \in Stages /\ e.at = "preparing" /\ e.job = j /\ e.claim = claims + 1
    BY <1>1, <1>2, <1>3, ModelOpsAssumption DEF Stages, Claims
<1>5. exec' = [exec EXCEPT ![w] = e]
    BY <1>3 DEF Claim
<1> QED  BY <1>1, <1>4, <1>5 DEF TypeOK

(* A worker that reads the file back.                                      *)
LEMMA WorkerReads ==
    ASSUME TypeOK, NEW w \in Workers, exec[w].job \in DOMAIN jobs, ReadBack(w)
    PROVE  /\ exec' \in [Workers -> Stages] /\ RunsOn
           /\ exec'[w].at = "trained" /\ exec'[w].job = exec[w].job
           /\ exec'[w].bytes = files[exec[w].job]
           /\ \A v \in Workers \ {w} : exec'[v] = exec[v]
<1>1. PICK b : b = files[exec[w].job]
    OBVIOUS
<1>2. b \in Claims
    BY <1>1, RowNumbers DEF TypeOK
<1>3. PICK e : e = [exec[w] EXCEPT !.at = "trained", !.bytes = b]
    OBVIOUS
<1>4. e \in Stages /\ e.at = "trained" /\ e.job = exec[w].job /\ e.claim = exec[w].claim
      /\ e.bytes = b
    BY <1>2, <1>3 DEF TypeOK, Stages
<1>5. exec' = [exec EXCEPT ![w] = e] /\ exec[w].at # "idle"
    BY <1>1, <1>3 DEF ReadBack
<1> QED  BY <1>1, <1>4, <1>5 DEF TypeOK, RunsOn

(* A worker that runs keeps a job and a claim.                             *)
LEMMA WorkersKeepJobs ==
    ASSUME WorkersHaveJobs, RunsOn, DOMAIN jobs \subseteq DOMAIN jobs'
    PROVE  WorkersHaveJobs'
BY DEF WorkersHaveJobs, HasJob, RunsOn

-----------------------------------------------------------------------------
(* The registry. *)

(* A step that leaves the registry alone keeps what is said of it.         *)
LEMMA RegistryAlone ==
    ASSUME Registry, TypeOK', WorkersHaveJobs', UNCHANGED <<evals, models, tx>>
    PROVE  Registry'
BY DEF Registry, ActivationsFit, Activating, SeedsStay, OneActivePerPurpose, ActiveFor,
       Evaluated

(* Ending a transaction that holds no model, or any.                       *)
LEMMA TxEnds ==
    ASSUME TypeOK, NEW r \in Requests, End(r)
    PROVE  /\ tx' \in [Requests -> TxRows] /\ tx'[r].op = "none"
           /\ \A s \in Requests \ {r} : tx'[s] = tx[s]
<1>1. Idle \in TxRows /\ Idle.op = "none"
    BY DEF Idle, TxRows
<1>2. tx' = [tx EXCEPT ![r] = Idle]
    BY DEF End
<1> QED  BY <1>1, <1>2 DEF TypeOK

(* A transaction ends and the rest of the registry stays.                  *)
LEMMA RegistryReleased ==
    ASSUME Registry, TypeOK', WorkersHaveJobs', UNCHANGED <<evals, models>>,
           NEW r \in Requests, End(r)
    PROVE  Registry'
<1>1. /\ tx'[r].op = "none" /\ \A s \in Requests \ {r} : tx'[s] = tx[s]
    BY TxEnds DEF Registry
<1>2. ActivationsFit'
    BY <1>1 DEF Registry, ActivationsFit, Activating, Evaluated
<1> QED  BY <1>2 DEF Registry, SeedsStay, OneActivePerPurpose, ActiveFor, Evaluated

(* Datasets and versions.                                                  *)
LEMMA DatasetSteps ==
    ASSUME Registry,
           \/ \E d \in Datasets : CreateDataset(d) \/ DeleteDataset(d)
           \/ \E d \in Datasets, ready \in BOOLEAN : CreateVersion(d, ready)
           \/ \E v \in DOMAIN versions : Freeze(v)
    PROVE  Registry'
<1>1. TypeOK /\ WorkersHaveJobs
    BY DEF Registry
<1>2. UNCHANGED <<jobs, files, exec, claims, shared, evals, models, tx>>
    BY DEF CreateDataset, DeleteDataset, CreateVersion, Freeze
<1>3. /\ datasets' \in [Datasets -> {"none", "live", "deleted"}]
      /\ versions' \in Seq(VersionRows) /\ Len(versions') <= MaxRows
    <2>1. ASSUME NEW d \in Datasets, CreateDataset(d) \/ DeleteDataset(d)
          PROVE  <1>3!:
        BY <1>1, <2>1 DEF TypeOK, CreateDataset, DeleteDataset
    <2>2. ASSUME NEW d \in Datasets, NEW ready \in BOOLEAN, CreateVersion(d, ready)
          PROVE  <1>3!:
        <3>1. PICK e : e = [dataset |-> d, ready |-> ready, frozen |-> FALSE]
            OBVIOUS
        <3>2. e \in VersionRows /\ versions \in Seq(VersionRows)
            BY <1>1, <3>1 DEF VersionRows, TypeOK
        <3>3. versions' = Append(versions, e) /\ MayAdd(versions, MaxVersions) /\ datasets' = datasets
            BY <2>2, <3>1 DEF CreateVersion
        <3>4. versions' \in Seq(VersionRows) /\ Len(versions') <= MaxVersions
            BY <3>2, <3>3, RowAdded, ModelOpsAssumption
        <3>5. Len(versions') \in Nat
            BY <3>4, LenProperties
        <3> QED  BY <1>1, <3>3, <3>4, <3>5, ModelOpsAssumption DEF TypeOK
    <2>3. ASSUME NEW v \in DOMAIN versions, Freeze(v)
          PROVE  <1>3!:
        <3>1. PICK e : e = [versions[v] EXCEPT !.frozen = TRUE]
            OBVIOUS
        <3>2. e \in VersionRows /\ versions \in Seq(VersionRows)
            BY <1>1, <3>1, RowNumbers DEF VersionRows, TypeOK
        <3>3. versions' = [versions EXCEPT ![v] = e] /\ datasets' = datasets
            BY <2>3, <3>1 DEF Freeze
        <3> QED  BY <1>1, <3>2, <3>3, RowRewritten DEF TypeOK
    <2> QED  BY <2>1, <2>2, <2>3
<1>4. TypeOK'
    BY <1>1, <1>2, <1>3 DEF TypeOK
<1> QED  BY <1>1, <1>2, <1>4, RegistryAlone DEF WorkersHaveJobs, HasJob

(* The requests about training jobs.                                       *)
LEMMA JobSteps ==
    ASSUME Registry,
           \/ \E r \in Requests, v \in DOMAIN versions : ReadVersion(r, v)
           \/ \E r \in Requests : CreateJob(r) \/ Rollback(r)
           \/ \E j \in DOMAIN jobs : Cancel(j) \/ GoesStale(j)
    PROVE  Registry'
<1>1. TypeOK /\ WorkersHaveJobs /\ ActivationsFit
    BY DEF Registry
<1>2. ASSUME NEW r \in Requests, NEW v \in DOMAIN versions, ReadVersion(r, v)
      PROVE  Registry'
    <2>1. PICK t : t = [op |-> "train", version |-> v]
        OBVIOUS
    <2>2. t \in TxRows /\ t.op = "train"
        BY <1>1, <2>1, RowNumbers DEF TxRows
    <2>3. tx' = [tx EXCEPT ![r] = t]
          /\ UNCHANGED <<datasets, versions, jobs, files, exec, claims, shared, evals, models>>
        BY <1>2, <2>1 DEF ReadVersion
    <2>4. TypeOK'
        BY <1>1, <2>2, <2>3 DEF TypeOK
    <2>5. ActivationsFit'
        BY <1>1, <2>2, <2>3 DEF ActivationsFit, Activating, Evaluated, TypeOK
    <2> QED  BY <1>1, <2>3, <2>4, <2>5
             DEF Registry, WorkersHaveJobs, HasJob, SeedsStay, OneActivePerPurpose, ActiveFor,
                 Evaluated
<1>3. ASSUME NEW r \in Requests, CreateJob(r)
      PROVE  Registry'
    <2>1. PICK e : e = [version |-> tx[r].version, st |-> "queued",
                        stale |-> FALSE, digest |-> 0]
        OBVIOUS
    <2>2. tx[r].version \in Rows
        BY <1>1, <1>3 DEF CreateJob, TypeOK, TxRows
    <2>3. e \in JobRows /\ jobs \in Seq(JobRows)
        BY <1>1, <2>1, <2>2, ModelOpsAssumption DEF JobRows, ActiveTraining, Claims, TypeOK
    <2>4. /\ jobs' = Append(jobs, e) /\ MayAdd(jobs, MaxRows) /\ End(r)
          /\ UNCHANGED <<datasets, versions, files, exec, claims, shared, evals, models>>
        BY <1>3, <2>1 DEF CreateJob
    <2>5. jobs' \in Seq(JobRows) /\ Len(jobs') <= MaxRows /\ DOMAIN jobs \subseteq DOMAIN jobs'
        BY <1>1, <2>3, <2>4, RowAdded, ModelOpsAssumption
    <2>6. TypeOK'
        BY <1>1, <2>4, <2>5, TxEnds DEF TypeOK
    <2>7. WorkersHaveJobs'
        BY <1>1, <2>4, <2>5, WorkersKeepJobs DEF RunsOn
    <2> QED  BY <2>4, <2>6, <2>7, RegistryReleased
<1>4. ASSUME NEW r \in Requests, Rollback(r)
      PROVE  Registry'
    <2>1. End(r) /\ UNCHANGED <<datasets, versions, jobs, files, exec, claims, shared, evals, models>>
        BY <1>4 DEF Rollback
    <2>2. TypeOK' /\ WorkersHaveJobs'
        BY <1>1, <2>1, TxEnds DEF TypeOK, WorkersHaveJobs, HasJob
    <2> QED  BY <2>1, <2>2, RegistryReleased
<1>5. ASSUME NEW j \in DOMAIN jobs, Cancel(j) \/ GoesStale(j)
      PROVE  Registry'
    <2>1. UNCHANGED <<datasets, versions, files, exec, claims, shared, evals, models, tx>>
        BY <1>5 DEF Cancel, GoesStale
    <2>2. jobs' \in Seq(JobRows) /\ DOMAIN jobs' = DOMAIN jobs /\ Len(jobs') = Len(jobs)
        <3>1. CASE Cancel(j)
            <4>1. jobs' = Persisted(j, "cancelled") /\ "cancelled" \in ActiveTraining \cup Ended
                BY <3>1 DEF Cancel, Persisted, Ended
            <4> QED  BY <1>1, <4>1, StateRecorded
        <3>2. CASE GoesStale(j)
            BY <1>1, <3>2, TimeRecorded DEF GoesStale
        <3> QED  BY <1>5, <3>1, <3>2
    <2>3. TypeOK'
        BY <1>1, <2>1, <2>2 DEF TypeOK
    <2>4. WorkersHaveJobs'
        BY <1>1, <2>1, <2>2 DEF WorkersHaveJobs, HasJob
    <2> QED  BY <2>1, <2>3, <2>4, RegistryAlone
<1> QED  BY <1>2, <1>3, <1>4, <1>5

(* The steps of a worker.                                                  *)
LEMMA WorkerSteps ==
    ASSUME Registry, NEW w \in Workers, Stage(w) \/ Watch(w) \/ Report(w) \/ Crash(w)
    PROVE  Registry'
<1>1. TypeOK /\ WorkersHaveJobs
    BY DEF Registry
<1>2. ASSUME NEW j \in DOMAIN jobs, Claim(w, j)
      PROVE  Registry'
    <2>1. UNCHANGED <<datasets, versions, files, evals, models, tx>>
          /\ jobs' = [Requeued EXCEPT ![j].st = "preparing"]
        BY <1>2 DEF Claim
    <2>2. jobs' \in Seq(JobRows) /\ DOMAIN jobs' = DOMAIN jobs /\ Len(jobs') = Len(jobs)
        BY <1>1, <2>1, ClaimedRows
    <2>5. shared' \subseteq Rows
        BY <1>1, <1>2, RowNumbers DEF Claim, TypeOK
    <2>3. TypeOK'
        BY <1>1, <1>2, <2>1, <2>2, <2>5, WorkerClaims DEF TypeOK
    <2>4. WorkersHaveJobs'
        BY <1>1, <1>2, <2>2, WorkerClaims DEF WorkersHaveJobs, HasJob
    <2> QED  BY <2>1, <2>3, <2>4, RegistryAlone
<1>3. ASSUME exec[w].at # "idle", UNCHANGED <<datasets, versions, claims, shared, evals, models, tx>>,
             jobs' \in Seq(JobRows), DOMAIN jobs' = DOMAIN jobs, Len(jobs') = Len(jobs),
             files' \in [Rows -> Claims], exec' \in [Workers -> Stages], RunsOn
      PROVE  Registry'
    <2>1. TypeOK' /\ WorkersHaveJobs'
        BY <1>1, <1>3, WorkersKeepJobs DEF TypeOK
    <2> QED  BY <1>3, <2>1, RegistryAlone
<1>4. jobs \in Seq(JobRows) /\ files \in [Rows -> Claims]
    BY <1>1 DEF TypeOK
<1>5. CASE Start(w)
    <2>1. /\ exec[w].at # "idle" /\ exec[w].job \in DOMAIN jobs
          /\ jobs' = Persisted(exec[w].job, "training") /\ Moves(w, "training")
          /\ UNCHANGED <<datasets, versions, files, claims, shared, evals, models, tx>>
        BY <1>1, <1>5 DEF Start, WorkersHaveJobs, HasJob
    <2>2. jobs' \in Seq(JobRows) /\ DOMAIN jobs' = DOMAIN jobs /\ Len(jobs') = Len(jobs)
        <3>1. "training" \in ActiveTraining \cup Ended
            BY DEF ActiveTraining
        <3> QED  BY <1>1, <2>1, <3>1, StateRecorded
    <2>3. exec' \in [Workers -> Stages] /\ RunsOn
        BY <1>1, <2>1, WorkerMoves
    <2> QED  BY <1>3, <1>4, <2>1, <2>2, <2>3
<1>6. CASE StopTraining(w) \/ FailJob(w)
    <2>1. PICK st \in {"cancelled", "failed"} :
              /\ exec[w].at # "idle" /\ exec[w].job \in DOMAIN jobs
              /\ jobs' = Persisted(exec[w].job, st) /\ Leaves(w)
              /\ UNCHANGED <<datasets, versions, files, claims, shared, evals, models, tx>>
        BY <1>1, <1>6 DEF StopTraining, FailJob, WorkersHaveJobs, HasJob
    <2>2. jobs' \in Seq(JobRows) /\ DOMAIN jobs' = DOMAIN jobs /\ Len(jobs') = Len(jobs)
        <3>1. st \in ActiveTraining \cup Ended
            BY DEF Ended
        <3> QED  BY <1>1, <2>1, <3>1, StateRecorded
    <2>3. exec' \in [Workers -> Stages] /\ RunsOn
        BY <1>1, <2>1, WorkerLeaves
    <2> QED  BY <1>3, <1>4, <2>1, <2>2, <2>3
<1>7. CASE Train(w) \/ WriteArtifact(w)
    <2>1. PICK at \in {"saved", "written"}, b \in {exec[w].claim, exec[w].bytes} :
              /\ exec[w].at # "idle" /\ exec[w].job \in DOMAIN jobs
              /\ files' = [files EXCEPT ![exec[w].job] = b] /\ Moves(w, at)
              /\ UNCHANGED <<datasets, versions, jobs, claims, shared, evals, models, tx>>
        BY <1>1, <1>7 DEF Train, WriteArtifact, WorkersHaveJobs, HasJob
    <2>2. files' \in [Rows -> Claims]
        BY <1>1, <1>4, <2>1 DEF TypeOK, Stages
    <2>3. exec' \in [Workers -> Stages] /\ RunsOn
        BY <1>1, <2>1, WorkerMoves
    <2> QED  BY <1>3, <1>4, <2>1, <2>2, <2>3
<1>8. CASE Succeed(w)
    <2>1. /\ exec[w].at # "idle" /\ exec[w].job \in DOMAIN jobs
          /\ jobs' = Succeeded(w) /\ Leaves(w)
          /\ UNCHANGED <<datasets, versions, files, claims, shared, evals, models, tx>>
        BY <1>1, <1>8 DEF Succeed, WorkersHaveJobs, HasJob
    <2>2. jobs' \in Seq(JobRows) /\ DOMAIN jobs' = DOMAIN jobs /\ Len(jobs') = Len(jobs)
        BY <1>1, <2>1, DigestRecorded
    <2>3. exec' \in [Workers -> Stages] /\ RunsOn
        BY <1>1, <2>1, WorkerLeaves
    <2> QED  BY <1>3, <1>4, <2>1, <2>2, <2>3
<1>9. CASE Watch(w)
    <2>1. exec[w].at # "idle"
          /\ UNCHANGED <<datasets, versions, jobs, files, claims, shared, evals, models, tx>>
        BY <1>9 DEF Watch
    <2>2. exec' \in [Workers -> Stages] /\ RunsOn
        BY <1>1, <1>9, WorkerWarned
    <2> QED  BY <1>3, <1>4, <2>1, <2>2
<1>10. CASE Crash(w)
    <2>1. exec[w].at # "idle" /\ Leaves(w)
          /\ UNCHANGED <<datasets, versions, jobs, files, claims, shared, evals, models, tx>>
        BY <1>10 DEF Crash
    <2>2. exec' \in [Workers -> Stages] /\ RunsOn
        BY <1>1, <2>1, WorkerLeaves
    <2> QED  BY <1>3, <1>4, <2>1, <2>2
<1>11. CASE ReadBack(w)
    <2>1. exec[w].at # "idle" /\ exec[w].job \in DOMAIN jobs
          /\ UNCHANGED <<datasets, versions, jobs, files, claims, shared, evals, models, tx>>
        BY <1>1, <1>11 DEF ReadBack, WorkersHaveJobs, HasJob
    <2>2. exec' \in [Workers -> Stages] /\ RunsOn
        BY <1>1, <1>11, <2>1, WorkerReads
    <2> QED  BY <1>3, <1>4, <2>1, <2>2
<1>12. CASE Report(w)
    <2>1. /\ exec[w].at # "idle" /\ RunsOn /\ exec' = exec
          /\ UNCHANGED <<datasets, versions, files, claims, shared, evals, models, tx>>
        BY <1>12 DEF Report, RunsOn
    <2>2. PICK j \in DOMAIN jobs : j = exec[w].job
        BY <1>1, <2>1 DEF WorkersHaveJobs, HasJob
    <2>3. jobs' \in Seq(JobRows) /\ DOMAIN jobs' = DOMAIN jobs /\ Len(jobs') = Len(jobs)
        BY <1>1, <1>12, <2>2, TimeRecorded DEF Report
    <2> QED  BY <1>1, <1>3, <1>4, <2>1, <2>3 DEF TypeOK
<1> QED  BY <1>2, <1>5, <1>6, <1>7, <1>8, <1>9, <1>10, <1>11, <1>12 DEF Stage

(* Evaluations: what was evaluated stays so.                               *)
LEMMA EvaluationSteps ==
    ASSUME Registry,
           \/ \E m \in DOMAIN models : CreateEvaluation(m)
           \/ \E e \in DOMAIN evals : Evaluate(e)
    PROVE  Registry'
<1>1. TypeOK /\ WorkersHaveJobs /\ ActivationsFit /\ SeedsStay /\ OneActivePerPurpose
    BY DEF Registry
<1>2. UNCHANGED <<datasets, versions, jobs, files, exec, claims, shared, models, tx>>
    BY DEF CreateEvaluation, Evaluate
<1>3. /\ evals' \in Seq(EvalRows) /\ Len(evals') <= MaxRows /\ DOMAIN evals \subseteq DOMAIN evals'
      /\ \A k \in DOMAIN evals : evals[k].st = "succeeded" => evals'[k] = evals[k]
    <2>1. ASSUME NEW m \in DOMAIN models, CreateEvaluation(m)
          PROVE  <1>3!:
        <3>1. PICK e : e = [model |-> m, st |-> "queued"]
            OBVIOUS
        <3>2. e \in EvalRows /\ evals \in Seq(EvalRows)
            BY <1>1, <3>1, RowNumbers DEF EvalRows, TypeOK
        <3>3. evals' = Append(evals, e) /\ MayAdd(evals, MaxRows)
            BY <2>1, <3>1 DEF CreateEvaluation
        <3> QED  BY <1>1, <3>2, <3>3, RowAdded, ModelOpsAssumption
    <2>2. ASSUME NEW k \in DOMAIN evals, Evaluate(k)
          PROVE  <1>3!:
        <3>1. PICK st \in {"succeeded", "failed"} : evals' = [evals EXCEPT ![k].st = st]
            BY <2>2 DEF Evaluate, Verdicts
        <3>2. PICK e : e = [evals[k] EXCEPT !.st = st]
            OBVIOUS
        <3>3. e \in EvalRows /\ evals \in Seq(EvalRows) /\ Len(evals) <= MaxRows
            BY <1>1, <3>2, RowNumbers DEF EvalRows, TypeOK
        <3>4. evals' = [evals EXCEPT ![k] = e] /\ evals[k].st # "succeeded"
            BY <2>2, <3>1, <3>2 DEF Evaluate
        <3>5. /\ evals' \in Seq(EvalRows) /\ DOMAIN evals' = DOMAIN evals
              /\ Len(evals') = Len(evals) /\ \A i \in DOMAIN evals \ {k} : evals'[i] = evals[i]
            BY <3>3, <3>4, RowRewritten
        <3> QED  BY <3>3, <3>4, <3>5
    <2> QED  BY <2>1, <2>2
<1>4. TypeOK'
    BY <1>1, <1>2, <1>3 DEF TypeOK
<1>5. \A m : Evaluated(m) => Evaluated(m)'
    BY <1>3 DEF Evaluated
<1>6. WorkersHaveJobs' /\ ActivationsFit' /\ SeedsStay' /\ OneActivePerPurpose'
    BY <1>1, <1>2, <1>5
    DEF WorkersHaveJobs, HasJob, ActivationsFit, Activating, SeedsStay, OneActivePerPurpose,
        ActiveFor
<1> QED  BY <1>4, <1>6 DEF Registry

(* A model is registered: nobody uses it yet.                              *)
LEMMA RegisterStep ==
    ASSUME Registry, NEW p \in Purposes, NEW q \in Providers, NEW j \in 0 .. Len(jobs),
           Register(p, q, j)
    PROVE  /\ Registry' /\ DOMAIN models \subseteq DOMAIN models'
           /\ \A m \in DOMAIN models : models'[m] = models[m]
           /\ \A m \in DOMAIN models' \ DOMAIN models :
                  /\ models'[m].provider = q /\ models'[m].job = j
                  /\ q = "local" /\ j # 0 => models'[m].digest = files[j]
<1>1. TypeOK /\ WorkersHaveJobs /\ ActivationsFit /\ SeedsStay /\ OneActivePerPurpose
    BY DEF Registry
<1>2. PICK e : e = [purpose |-> p, provider |-> q, st |-> "candidate", job |-> j,
                    digest |-> IF q = "local" /\ j # 0 THEN files[j] ELSE 0]
    OBVIOUS
<1>3. Len(jobs) \in Nat /\ Len(jobs) <= MaxRows /\ models \in Seq(ModelRows)
      /\ files \in [Rows -> Claims] /\ 0 \in Claims
    BY <1>1, RowNumbers, ModelOpsAssumption DEF TypeOK, Claims
<1>4. j \in 0 .. MaxRows /\ (j # 0 => j \in Rows)
    BY <1>3, ModelOpsAssumption DEF Rows
<1>5. (IF q = "local" /\ j # 0 THEN files[j] ELSE 0) \in Claims
    BY <1>3, <1>4
<1>6. e \in ModelRows
    BY <1>2, <1>4, <1>5 DEF ModelRows
<1>7. /\ models' = Append(models, e) /\ MayAdd(models, MaxModels)
      /\ UNCHANGED <<datasets, versions, jobs, files, exec, claims, shared, evals, tx>>
    BY <1>2 DEF Register
<1>8. /\ models' \in Seq(ModelRows) /\ Len(models') <= MaxModels
      /\ DOMAIN models' = DOMAIN models \cup {Len(models) + 1}
      /\ Len(models) + 1 \notin DOMAIN models /\ models'[Len(models) + 1] = e
      /\ \A m \in DOMAIN models : models'[m] = models[m]
    BY <1>1, <1>3, <1>6, <1>7, RowAdded, ModelOpsAssumption
<1>9. TypeOK' /\ WorkersHaveJobs'
    BY <1>1, <1>7, <1>8 DEF TypeOK, WorkersHaveJobs, HasJob
<1>12. ActivationsFit' /\ SeedsStay'
    BY <1>1, <1>7, <1>8 DEF ActivationsFit, Activating, SeedsStay, Seeded, Evaluated
<1>10. e.st # "active" /\ e.provider = q /\ e.job = j
       /\ (q = "local" /\ j # 0 => e.digest = files[j])
    BY <1>2
<1>11. OneActivePerPurpose'
    BY <1>1, <1>7, <1>8, <1>10 DEF OneActivePerPurpose, ActiveFor, Evaluated
<1> QED  BY <1>8, <1>9, <1>10, <1>11, <1>12 DEF Registry

(* Each seeded model has a purpose of its own.                             *)
LEMMA SeedPurposes ==
    ASSUME NEW m \in DOMAIN Seeded, NEW n \in DOMAIN Seeded,
           Seeded[m].purpose = Seeded[n].purpose
    PROVE  m = n
<1>1. m \in {1, 2, 3, 4} /\ n \in {1, 2, 3, 4}
    BY ModelOpsAssumption DEF Seeded
<1>2. ModelSeeds[m].purpose = ModelSeeds[n].purpose
    BY DEF Seeded
<1>3. /\ ModelSeeds[1].purpose = "complex_generation"
      /\ ModelSeeds[2].purpose = "agent_router"
      /\ ModelSeeds[3].purpose = "rag_reranker" /\ ModelSeeds[4].purpose = "embedding"
    BY DEF ModelSeeds, SeededRow
<1> QED  BY <1>1, <1>2, <1>3

(* What an activation or a deactivation leaves of the models.              *)
SameModels ==
    /\ DOMAIN models' = DOMAIN models
    /\ \A m \in DOMAIN models :
           /\ models'[m].provider = models[m].provider /\ models'[m].job = models[m].job
           /\ models'[m].digest = models[m].digest

(* Models change their state only, and none of two for a purpose is in     *)
(* use, nor is the last generator taken out of use.                        *)
LEMMA ModelsChanged ==
    ASSUME Registry, UNCHANGED <<datasets, versions, jobs, files, exec, claims, shared, evals>>,
           tx' \in [Requests -> TxRows],
           \A r \in Requests : tx'[r].op = "activate" => tx'[r] = tx[r],
           models' \in Seq(ModelRows), Len(models') = Len(models), SameModels,
           \A m \in DOMAIN models : models'[m].purpose = models[m].purpose,
           \A m \in DOMAIN models : models'[m].st = "active" =>
               models[m].st = "active" \/ Evaluated(m) \/ m \in DOMAIN Seeded,
           \A m, n \in DOMAIN models :
               /\ models'[m].st = "active" /\ models'[n].st = "active"
               /\ models[m].purpose = models[n].purpose
               => m = n,
           \E m \in DOMAIN models :
               /\ models'[m].st = "active" /\ models[m].purpose = "complex_generation"
               /\ models[m].provider = "deepseek"
    PROVE  Registry'
<1>1. TypeOK /\ WorkersHaveJobs /\ ActivationsFit /\ SeedsStay /\ OneActivePerPurpose
    BY DEF Registry
<1>2. TypeOK' /\ WorkersHaveJobs'
    BY <1>1 DEF TypeOK, WorkersHaveJobs, HasJob
<1>3. ActivationsFit'
    BY <1>1 DEF ActivationsFit, Activating, SameModels, Evaluated
<1>4. SeedsStay'
    BY <1>1 DEF SeedsStay, SameModels, Seeded
<1>5. ASSUME NEW m \in DOMAIN models, models'[m].st = "active"
      PROVE  Evaluated(m)' \/ m \in DOMAIN Seeded
    BY <1>1, <1>5 DEF OneActivePerPurpose, Evaluated
<1>6. DOMAIN Seeded = (DOMAIN Seeded)'
    BY DEF Seeded
<1>7. OneActivePerPurpose'
    BY <1>5, <1>6 DEF OneActivePerPurpose, ActiveFor, SameModels
<1> QED  BY <1>1, <1>2, <1>3, <1>4, <1>7 DEF Registry

(* Models are put to use and taken out of use.                             *)
LEMMA ActivationSteps ==
    ASSUME Registry,
           \/ \E r \in Requests, m \in DOMAIN models : ReadActive(r, m)
           \/ \E r \in Requests : Activate(r)
           \/ \E m \in DOMAIN models : Deactivate(m)
           \/ Reseed
    PROVE  Registry' /\ SameModels
<1>1. TypeOK /\ WorkersHaveJobs /\ ActivationsFit /\ SeedsStay /\ OneActivePerPurpose
    BY DEF Registry
<1>2. ASSUME NEW r \in Requests, NEW m \in DOMAIN models, ReadActive(r, m)
      PROVE  Registry' /\ SameModels
    <2>1. PICK t : t = [op |-> "activate", model |-> m, seen |-> ActiveFor(models[m].purpose)]
        OBVIOUS
    <2>2. /\ t \in TxRows /\ t.op = "activate" /\ t.model = m
          /\ \A n \in t.seen : n \in DOMAIN models /\ models[n].purpose = models[m].purpose
        BY <1>1, <2>1, RowNumbers DEF TxRows, ActiveFor
    <2>3. /\ tx' = [tx EXCEPT ![r] = t] /\ Evaluated(m)
          /\ models[m].purpose = "complex_generation" => models[m].provider = "deepseek"
          /\ UNCHANGED <<datasets, versions, jobs, files, exec, claims, shared, evals, models>>
        BY <1>2, <2>1 DEF ReadActive
    <2>4. TypeOK'
        BY <1>1, <2>2, <2>3 DEF TypeOK
    <2>5. ActivationsFit'
        BY <1>1, <2>2, <2>3 DEF ActivationsFit, Activating, Evaluated, TypeOK
    <2> QED  BY <1>1, <2>3, <2>4, <2>5
             DEF Registry, WorkersHaveJobs, HasJob, SeedsStay, OneActivePerPurpose, ActiveFor,
                 Evaluated, SameModels
<1>3. ASSUME NEW r \in Requests, Activate(r)
      PROVE  Registry' /\ SameModels
    <2>1. PICK m : m = tx[r].model
        OBVIOUS
    <2>2. /\ m \in DOMAIN models /\ Evaluated(m)
          /\ models[m].purpose = "complex_generation" => models[m].provider = "deepseek"
          /\ \A n \in tx[r].seen : n \in DOMAIN models => models[n].purpose = models[m].purpose
        BY <1>1, <1>3, <2>1 DEF Activate, ActivationsFit, Activating
    <2>3. End(r) /\ UNCHANGED <<datasets, versions, jobs, files, exec, claims, shared, evals>>
        BY <1>3 DEF Activate
    <2>4. /\ tx' \in [Requests -> TxRows]
          /\ \A s \in Requests : tx'[s].op = "activate" => tx'[s] = tx[s]
        BY <1>1, <2>3, TxEnds
    <2>5. CASE models' = models
        <3>1. TypeOK' /\ WorkersHaveJobs'
            BY <1>1, <2>3, <2>4, <2>5 DEF TypeOK, WorkersHaveJobs, HasJob
        <3> QED  BY <2>3, <2>5, <3>1, RegistryReleased DEF SameModels
    <2>6. CASE models' # models
        <3> PICK S : S = tx[r].seen
            OBVIOUS
        <3>1. /\ models' = Exchanged(S, m)
              /\ ActiveFor(models[m].purpose) \subseteq S
            BY <1>3, <2>1, <2>6 DEF Activate, Exchanged
        <3>2. /\ models' \in Seq(ModelRows) /\ DOMAIN models' = DOMAIN models
              /\ Len(models') = Len(models)
              /\ \A n \in DOMAIN models :
                     /\ models'[n].purpose = models[n].purpose
                     /\ models'[n].provider = models[n].provider
                     /\ models'[n].job = models[n].job /\ models'[n].digest = models[n].digest
                     /\ (models'[n].st = "active")
                            <=> n = m \/ (models[n].st = "active" /\ n \notin S)
            BY <1>1, <2>2, <3>1, ActivatedRows
        <3>3. ASSUME NEW n \in DOMAIN models, models'[n].st = "active",
                     models[n].purpose = models[m].purpose
              PROVE  n = m
            BY <3>1, <3>2, <3>3 DEF ActiveFor
        <3>4. ASSUME NEW n \in DOMAIN models, NEW k \in DOMAIN models,
                     models'[n].st = "active", models'[k].st = "active",
                     models[n].purpose = models[k].purpose
              PROVE  n = k
            BY <1>1, <3>2, <3>3, <3>4 DEF OneActivePerPurpose
        <3>5. PICK n \in DOMAIN models :
                  /\ models[n].st = "active" /\ models[n].purpose = "complex_generation"
                  /\ models[n].provider = "deepseek"
            BY <1>1 DEF OneActivePerPurpose, ActiveFor
        <3>6. \E k \in DOMAIN models :
                  /\ models'[k].st = "active" /\ models[k].purpose = "complex_generation"
                  /\ models[k].provider = "deepseek"
            <4>1. CASE models[m].purpose = "complex_generation"
                BY <2>2, <3>2, <4>1
            <4>2. CASE models[m].purpose # "complex_generation"
                BY <2>2, <3>2, <3>5, <4>2
            <4> QED  BY <4>1, <4>2
        <3>7. SameModels
            BY <3>2 DEF SameModels
        <3> QED  BY <2>2, <2>3, <2>4, <3>2, <3>4, <3>6, <3>7, ModelsChanged
    <2> QED  BY <2>5, <2>6
<1>4. ASSUME NEW m \in DOMAIN models, Deactivate(m)
      PROVE  Registry' /\ SameModels
    <2>1. /\ models' = Deactivated({m}) /\ models[m].purpose # "complex_generation"
          /\ UNCHANGED <<datasets, versions, jobs, files, exec, claims, shared, evals, tx>>
        BY <1>4 DEF Deactivate
    <2>2. /\ models' \in Seq(ModelRows) /\ DOMAIN models' = DOMAIN models
          /\ Len(models') = Len(models)
          /\ \A n \in DOMAIN models :
                 /\ models'[n].purpose = models[n].purpose
                 /\ models'[n].provider = models[n].provider
                 /\ models'[n].job = models[n].job /\ models'[n].digest = models[n].digest
                 /\ models'[n].st = "active" <=> models[n].st = "active" /\ n # m
        BY <1>1, <2>1, DeactivatedRows
    <2>3. SameModels /\ tx' \in [Requests -> TxRows] /\ tx' = tx
        BY <1>1, <2>1, <2>2 DEF SameModels, TypeOK
    <2>4. \E k \in DOMAIN models :
              /\ models'[k].st = "active" /\ models[k].purpose = "complex_generation"
              /\ models[k].provider = "deepseek"
        BY <1>1, <2>1, <2>2 DEF OneActivePerPurpose, ActiveFor
    <2>5. \A n, k \in DOMAIN models :
              /\ models'[n].st = "active" /\ models'[k].st = "active"
              /\ models[n].purpose = models[k].purpose
              => n = k
        BY <1>1, <2>2 DEF OneActivePerPurpose
    <2> QED  BY <2>1, <2>2, <2>3, <2>4, <2>5, ModelsChanged
<1>5. ASSUME Reseed
      PROVE  Registry' /\ SameModels
    <2>1. /\ models' = [m \in DOMAIN models |->
                           IF m \in DOMAIN Seeded THEN [models[m] EXCEPT !.st = "active"]
                           ELSE models[m]]
          /\ \A m \in DOMAIN Seeded : ActiveFor(models[m].purpose) \subseteq {m}
          /\ UNCHANGED <<datasets, versions, jobs, files, exec, claims, shared, evals, tx>>
        BY <1>5 DEF Reseed
    <2>2. ASSUME NEW m \in DOMAIN models
          PROVE  LET e == [models[m] EXCEPT !.st = "active"] IN
                 /\ e \in ModelRows /\ e.st = "active" /\ e.purpose = models[m].purpose
                 /\ e.provider = models[m].provider /\ e.job = models[m].job
                 /\ e.digest = models[m].digest
        BY <1>1, RowNumbers DEF ModelRows
    <2>3. models' \in [DOMAIN models -> ModelRows] /\ models \in Seq(ModelRows)
        BY <1>1, <2>1, <2>2, RowNumbers DEF TypeOK
    <2>4. /\ models' \in Seq(ModelRows) /\ DOMAIN models' = DOMAIN models
          /\ Len(models') = Len(models)
        BY <2>3, RowsMapped
    <2>5. \A m \in DOMAIN models :
              /\ models'[m].purpose = models[m].purpose
              /\ models'[m].provider = models[m].provider
              /\ models'[m].job = models[m].job /\ models'[m].digest = models[m].digest
              /\ models'[m].st = "active" <=> models[m].st = "active" \/ m \in DOMAIN Seeded
        BY <2>1, <2>2
    <2>6. ASSUME NEW n \in DOMAIN models, NEW k \in DOMAIN models,
                 models'[n].st = "active", models'[k].st = "active",
                 models[n].purpose = models[k].purpose
          PROVE  n = k
        <3>1. CASE n \in DOMAIN Seeded /\ k \in DOMAIN Seeded
            <4>1. Seeded[n].purpose = Seeded[k].purpose
                BY <1>1, <2>6, <3>1 DEF SeedsStay
            <4> QED  BY <3>1, <4>1, SeedPurposes
        <3>2. CASE n \notin DOMAIN Seeded /\ k \notin DOMAIN Seeded
            BY <1>1, <2>5, <2>6, <3>2 DEF OneActivePerPurpose
        <3>3. CASE n \in DOMAIN Seeded /\ k \notin DOMAIN Seeded
            BY <2>1, <2>5, <2>6, <3>3 DEF ActiveFor
        <3>4. CASE n \notin DOMAIN Seeded /\ k \in DOMAIN Seeded
            BY <2>1, <2>5, <2>6, <3>4 DEF ActiveFor
        <3> QED  BY <3>1, <3>2, <3>3, <3>4
    <2>7. SameModels /\ tx' \in [Requests -> TxRows] /\ tx' = tx
        BY <1>1, <2>1, <2>4, <2>5 DEF SameModels, TypeOK
    <2>8. \E k \in DOMAIN models :
              /\ models'[k].st = "active" /\ models[k].purpose = "complex_generation"
              /\ models[k].provider = "deepseek"
        BY <1>1, <2>5 DEF OneActivePerPurpose, ActiveFor
    <2> QED  BY <2>1, <2>4, <2>5, <2>6, <2>7, <2>8, ModelsChanged
<1> QED  BY <1>2, <1>3, <1>4, <1>5

(* Every step keeps the registry.                                          *)
LEMMA RegistryKept == Registry /\ [Next]_vars => Registry'
<1> SUFFICES ASSUME Registry, [Next]_vars PROVE Registry'
    OBVIOUS
<1>1. CASE UNCHANGED vars
    <2>1. TypeOK' /\ WorkersHaveJobs'
        BY <1>1 DEF vars, Registry, TypeOK, WorkersHaveJobs, HasJob
    <2> QED  BY <1>1, <2>1, RegistryAlone DEF vars
<1>6. CASE Reseed
    BY <1>6, ActivationSteps
<1>2. CASE Ask
    <2>1. ASSUME NEW kind \in Kinds, NEW j \in 0 .. Len(jobs), Register(kind[1], kind[2], j)
          PROVE  Registry'
        <3>1. kind[1] \in Purposes /\ kind[2] \in Providers
            BY ModelOpsAssumption
        <3> QED  BY <2>1, <3>1, RegisterStep
    <2> QED  BY <1>2, <2>1, DatasetSteps, JobSteps, EvaluationSteps, ActivationSteps DEF Ask
<1>3. CASE \E w \in Workers : Stage(w) \/ Watch(w) \/ Report(w) \/ Crash(w)
    BY <1>3, WorkerSteps
<1>4. CASE \E j \in DOMAIN jobs : GoesStale(j)
    BY <1>4, JobSteps
<1>5. CASE \E e \in DOMAIN evals : Evaluate(e)
    BY <1>5, EvaluationSteps
<1> QED  BY <1>1, <1>2, <1>3, <1>4, <1>5, <1>6 DEF Next

LEMMA RegistryFirst == Init => Registry
<1> SUFFICES ASSUME Init PROVE Registry
    OBVIOUS
<1>1. /\ \A S : <<>> \in Seq(S) /\ Len(<<>>) = 0 /\ DOMAIN <<>> = {}
      /\ 0 \in Claims /\ 0 <= MaxRows
    BY EmptySeq, ModelOpsAssumption DEF Claims
<1>2. Done \in Stages /\ Done.at = "idle" /\ Idle \in TxRows /\ Idle.op = "none"
    BY <1>1, ModelOpsAssumption DEF Done, Stages, Idle, TxRows
<1>3. ASSUME NEW m \in 1 .. Seeds
      PROVE  Seeded[m] \in ModelRows /\ Seeded[m].st = "active"
    <2>1. ASSUME NEW p \in Purposes, NEW q \in Providers
          PROVE  SeededRow(p, q) \in ModelRows /\ SeededRow(p, q).st = "active"
        BY <1>1, ModelOpsAssumption DEF SeededRow, ModelRows
    <2>2. m \in {1, 2, 3, 4}
        BY ModelOpsAssumption
    <2>3. \A k \in {1, 2, 3, 4} : ModelSeeds[k] \in ModelRows /\ ModelSeeds[k].st = "active"
        BY <2>1 DEF ModelSeeds, Purposes, Providers
    <2> QED  BY <2>2, <2>3 DEF Seeded
<1>4. /\ Seeded \in Seq(ModelRows) /\ DOMAIN Seeded = 1 .. Seeds
      /\ Len(Seeded) = Seeds /\ Seeds <= MaxModels
    <2>1. Seeded \in [1 .. Seeds -> ModelRows]
        BY <1>3 DEF Seeded
    <2>2. Seeds \in Nat /\ Seeds <= MaxModels
        BY ModelOpsAssumption
    <2>3. Seeded \in Seq(ModelRows)
        BY <2>1, <2>2, SeqDef
    <2>4. DOMAIN Seeded = 1 .. Len(Seeded) /\ Len(Seeded) \in Nat
        BY <2>3, LenProperties
    <2> QED  BY <2>1, <2>2, <2>3, <2>4
<1>5. TypeOK
    BY <1>1, <1>2, <1>4 DEF Init, TypeOK
<1>6. WorkersHaveJobs /\ ActivationsFit /\ SeedsStay
    BY <1>1, <1>2, <1>4
    DEF Init, WorkersHaveJobs, HasJob, ActivationsFit, Activating, SeedsStay
<1>7. \A m, n \in DOMAIN models : models[m].purpose = models[n].purpose => m = n
    BY SeedPurposes DEF Init
<1>8. 1 \in ActiveFor("complex_generation") /\ models[1].provider = "deepseek"
    <2>1. 1 \in DOMAIN models /\ models[1] = ModelSeeds[1] /\ models[1].st = "active"
        BY <1>3, <1>4, ModelOpsAssumption DEF Init, Seeded
    <2> QED  BY <2>1 DEF ActiveFor, ModelSeeds, SeededRow
<1>9. OneActivePerPurpose
    BY <1>7, <1>8 DEF OneActivePerPurpose, Init
<1> QED  BY <1>5, <1>6, <1>9 DEF Registry

LEMMA RegistryHolds == Spec => []Registry
BY RegistryFirst, RegistryKept, PTL DEF Spec

(* The tables of models, jobs and datasets stay within their columns, and  *)
(* the requests and workers within what they read.                         *)
THEOREM ModelTypeCorrect == Spec => []TypeOK
<1>1. Registry => TypeOK
    BY DEF Registry
<1> QED  BY <1>1, RegistryHolds, PTL

(* At most one model is active for a purpose, whatever activations race    *)
(* with each other and with a start; what is active was evaluated or is of *)
(* the seed; and a model of DeepSeek always generates complex answers.     *)
THEOREM OneActive == Spec => []OneActivePerPurpose
<1>1. Registry => OneActivePerPurpose
    BY DEF Registry
<1> QED  BY <1>1, RegistryHolds, PTL

-----------------------------------------------------------------------------
(* The adapters.  A job that no worker took from another that still ran it *)
(* is in the hands of one worker until it ends.                            *)

(* A worker that goes on holding what it held.                             *)
HoldsOn == \A w \in Workers :
    exec'[w].at \in {"saved", "trained", "written"} =>
        exec[w].at = exec'[w].at /\ exec[w].bytes = exec'[w].bytes

(* What neither a job nor a file nor a model shows leaves the adapters.    *)
LEMMA AdaptersAlone ==
    ASSUME Registry, Adapters, RunsOn, HoldsOn, SameModels, UNCHANGED <<jobs, files, shared>>
    PROVE  Adapters'
<1>1. OwnsItsJob' /\ OneRunner'
    BY DEF Adapters, OwnsItsJob, Owns, OneRunner, RunsOn, HoldsOn
<1>2. JobDigests' /\ ModelDigests'
    BY DEF Adapters, JobDigests, ModelDigests, ModelDigest, SameModels
<1> QED  BY <1>1, <1>2 DEF Adapters

(* A job that had not succeeded, or was taken from a worker, is rewritten. *)
LEMMA JobRewritten ==
    ASSUME Registry, Adapters, RunsOn, HoldsOn, UNCHANGED <<files, models, shared>>,
           NEW j \in DOMAIN jobs, j \notin shared => jobs[j].st # "succeeded",
           DOMAIN jobs' = DOMAIN jobs, \A i \in DOMAIN jobs \ {j} : jobs'[i] = jobs[i],
           jobs'[j].st = "succeeded" =>
               jobs'[j].digest # 0 /\ (j \notin shared => jobs'[j].digest = files[j]),
           \A w \in Workers :
               exec'[w].at # "idle" /\ exec'[w].job = j /\ j \notin shared =>
                   jobs'[j].st \in ActiveTraining \cup {"cancelled"}
    PROVE  Adapters'
<1>1. WorkersHaveJobs /\ OwnsItsJob /\ OneRunner /\ JobDigests /\ ModelDigests
    BY DEF Registry, Adapters
<1>2. ASSUME NEW w \in Workers, exec'[w].at # "idle"
      PROVE  Owns(w)'
    <2>1. PICK k \in DOMAIN jobs : k = exec[w].job
        BY <1>1, <1>2 DEF RunsOn, WorkersHaveJobs, HasJob
    <2>2. exec[w].at # "idle" /\ exec'[w].job = k
        BY <1>2, <2>1 DEF RunsOn
    <2>3. /\ exec[w].at = "saved" => files[k] # 0
          /\ exec[w].at \in {"trained", "written"} => exec[w].bytes # 0
          /\ k \notin shared => jobs[k].st \in ActiveTraining \cup {"cancelled"}
          /\ k \notin shared /\ exec[w].at = "written" => files[k] = exec[w].bytes
        BY <1>1, <2>1, <2>2 DEF OwnsItsJob, Owns
    <2>4. k \notin shared => jobs'[k].st \in ActiveTraining \cup {"cancelled"}
        BY <1>2, <2>2, <2>3
    <2> QED  BY <2>2, <2>3, <2>4 DEF Owns, HoldsOn
<1>3. OwnsItsJob'
    BY <1>2 DEF OwnsItsJob, Owns
<1>4. OneRunner'
    BY <1>1 DEF OneRunner, RunsOn
<1>5. JobDigests' /\ ModelDigests'
    BY <1>1 DEF JobDigests, ModelDigests, ModelDigest
<1> QED  BY <1>3, <1>4, <1>5 DEF Adapters

(* The worker that runs a job writes its file.                             *)
LEMMA FileWritten ==
    ASSUME Registry, Adapters, NEW w \in Workers, Train(w) \/ WriteArtifact(w)
    PROVE  Adapters'
<1>1. /\ WorkersHaveJobs /\ OwnsItsJob /\ OneRunner /\ JobDigests /\ ModelDigests /\ TypeOK
    BY DEF Registry, Adapters
<1>2. PICK j \in DOMAIN jobs : j = exec[w].job /\ exec[w].claim # 0
    BY <1>1 DEF WorkersHaveJobs, HasJob, Train, WriteArtifact
<1>3. PICK at \in {"saved", "written"}, b \in {exec[w].claim, exec[w].bytes} :
          /\ exec[w].at # "idle" /\ Moves(w, at) /\ UNCHANGED <<jobs, models, shared>>
          /\ files' = [files EXCEPT ![j] = b] /\ b # 0
          /\ at = "written" => b = exec[w].bytes
    <2>1. CASE Train(w)
        BY <1>2, <2>1 DEF Train
    <2>2. CASE WriteArtifact(w)
        <3>1. exec[w].bytes # 0
            BY <1>1, <2>2 DEF OwnsItsJob, Owns, WriteArtifact
        <3> QED  BY <1>2, <2>2, <3>1 DEF WriteArtifact
    <2> QED  BY <2>1, <2>2
<1>4. /\ RunsOn /\ exec'[w].at = at /\ exec'[w].job = j /\ exec'[w].bytes = exec[w].bytes
      /\ \A v \in Workers \ {w} : exec'[v] = exec[v]
    BY <1>1, <1>2, <1>3, WorkerMoves
<1>5. /\ files'[j] = b /\ \A i \in Rows \ {j} : files'[i] = files[i]
      /\ DOMAIN jobs \subseteq Rows
    BY <1>1, <1>3, RowNumbers DEF TypeOK
<1>6. j \notin shared =>
          jobs[j].st \in ActiveTraining \cup {"cancelled"} /\ jobs[j].st # "succeeded"
    BY <1>1, <1>2, <1>3 DEF OwnsItsJob, Owns, ActiveTraining
<1>7. ASSUME NEW v \in Workers, exec'[v].at # "idle"
      PROVE  Owns(v)'
    <2>1. CASE v = w
        BY <1>3, <1>4, <1>5, <1>6, <2>1 DEF Owns
    <2>2. CASE v # w
        <3>1. PICK k \in DOMAIN jobs : k = exec[v].job
            BY <1>1, <1>4, <1>7, <2>2 DEF WorkersHaveJobs, HasJob
        <3>2. exec'[v] = exec[v] /\ Owns(v) /\ (k \notin shared => k # j)
            BY <1>1, <1>2, <1>3, <1>4, <1>7, <2>2, <3>1 DEF OneRunner, OwnsItsJob
        <3>3. k # j => files'[k] = files[k]
            BY <1>5, <3>1
        <3>4. files[k] # 0 => files'[k] # 0
            BY <1>3, <1>5, <3>1, <3>3
        <3> QED  BY <1>3, <1>7, <3>1, <3>2, <3>3, <3>4 DEF Owns
    <2> QED  BY <2>1, <2>2
<1>8. OwnsItsJob' /\ OneRunner'
    BY <1>1, <1>3, <1>4, <1>7 DEF OwnsItsJob, Owns, OneRunner, RunsOn
<1>9. JobDigests' /\ ModelDigests'
    BY <1>1, <1>3, <1>5, <1>6 DEF JobDigests, ModelDigests, ModelDigest
<1> QED  BY <1>8, <1>9 DEF Adapters

(* A worker reads back the file that it, or another, wrote.                *)
LEMMA FileRead ==
    ASSUME Registry, Adapters, NEW w \in Workers, ReadBack(w)
    PROVE  Adapters'
<1>1. WorkersHaveJobs /\ OwnsItsJob /\ OneRunner /\ JobDigests /\ ModelDigests /\ TypeOK
    BY DEF Registry, Adapters
<1>2. PICK j \in DOMAIN jobs :
          j = exec[w].job /\ exec[w].at = "saved" /\ UNCHANGED <<jobs, files, models, shared>>
    BY <1>1 DEF WorkersHaveJobs, HasJob, ReadBack
<1>3. /\ RunsOn /\ exec'[w].at = "trained" /\ exec'[w].job = j /\ exec'[w].bytes = files[j]
      /\ \A v \in Workers \ {w} : exec'[v] = exec[v]
    BY <1>1, <1>2, WorkerReads
<1>4. files[j] # 0 /\ (j \notin shared => jobs[j].st \in ActiveTraining \cup {"cancelled"})
    BY <1>1, <1>2 DEF OwnsItsJob, Owns
<1>5. Owns(w)'
    BY <1>2, <1>3, <1>4 DEF Owns
<1>6. OwnsItsJob' /\ OneRunner'
    BY <1>1, <1>2, <1>3, <1>5 DEF OwnsItsJob, Owns, OneRunner, RunsOn
<1>7. JobDigests' /\ ModelDigests'
    BY <1>1, <1>2 DEF JobDigests, ModelDigests, ModelDigest
<1> QED  BY <1>6, <1>7 DEF Adapters

(* A job that is taken was queued, or nothing was recorded of it for ten   *)
(* minutes; if another worker still runs it, it is shared from here on.    *)
LEMMA JobTaken ==
    ASSUME Registry, Adapters, NEW w \in Workers, NEW j \in DOMAIN jobs, Claim(w, j)
    PROVE  Adapters'
<1>1. /\ WorkersHaveJobs /\ OwnsItsJob /\ OneRunner /\ JobDigests /\ ModelDigests /\ TypeOK
    BY DEF Registry, Adapters
<1>2. /\ jobs' = [Requeued EXCEPT ![j].st = "preparing"] /\ Requeued[j].st = "queued"
      /\ UNCHANGED <<files, models>> /\ exec[w].at = "idle"
      /\ shared \subseteq shared' /\ shared' \subseteq shared \cup {j}
      /\ (\E v \in Workers : RunsJob(v, j)) => j \in shared'
    BY DEF Claim, Oldest
<1>3. \A i \in DOMAIN jobs :
          /\ Requeued[i] = jobs[i] \/ (jobs[i].st \in Running /\ jobs[i].stale)
          /\ jobs[i].st \in Running /\ jobs[i].stale => Requeued[i].st = "queued"
    BY <1>1, RequeuedRows
<1>4. /\ DOMAIN jobs' = DOMAIN jobs /\ jobs'[j].st = "preparing"
      /\ \A i \in DOMAIN jobs \ {j} : jobs'[i] = Requeued[i]
    BY <1>1, <1>2, ClaimedRows
<1>5. /\ exec'[w].at = "preparing" /\ exec'[w].job = j
      /\ \A v \in Workers \ {w} : exec'[v] = exec[v]
    BY <1>1, WorkerClaims
<1>6. ASSUME NEW i \in DOMAIN jobs
      PROVE  /\ jobs'[i].st = "succeeded" => jobs'[i] = jobs[i]
             /\ jobs[i].st = "succeeded" => jobs'[i] = jobs[i]
             /\ jobs[i].st \in ActiveTraining \cup {"cancelled"} =>
                    jobs'[i].st \in ActiveTraining \cup {"cancelled"}
    <2>1. CASE i = j
        BY <1>2, <1>3, <1>4, <2>1 DEF Running, ActiveTraining
    <2>2. CASE i # j
        BY <1>3, <1>4, <2>2 DEF Running, ActiveTraining
    <2> QED  BY <2>1, <2>2
<1>7. ASSUME NEW v \in Workers \ {w}, exec'[v].at # "idle"
      PROVE  Owns(v)' /\ (exec[v].job \notin shared' => exec[v].job # j)
    <2>1. PICK k \in DOMAIN jobs : k = exec[v].job /\ exec'[v] = exec[v]
        BY <1>1, <1>5, <1>7 DEF WorkersHaveJobs, HasJob
    <2>2. Owns(v) /\ (k \notin shared' => k \notin shared /\ k # j)
        BY <1>1, <1>2, <1>7, <2>1 DEF OwnsItsJob, RunsJob
    <2> QED  BY <1>2, <1>6, <1>7, <2>1, <2>2 DEF Owns
<1>8. OwnsItsJob'
    BY <1>4, <1>5, <1>7 DEF OwnsItsJob, Owns, ActiveTraining
<1>9. OneRunner'
    BY <1>1, <1>2, <1>5, <1>7 DEF OneRunner
<1>10. JobDigests'
    BY <1>1, <1>2, <1>4, <1>6 DEF JobDigests
<1>11. ModelDigests'
    <2>1. ASSUME NEW m \in DOMAIN models, models[m].provider = "local",
                 models[m].job \notin shared' \cup {0}
          PROVE  /\ models[m].job \in DOMAIN jobs' /\ jobs'[models[m].job].st = "succeeded"
                 /\ models[m].digest = files[models[m].job]
        <3>1. models[m].job \notin shared \cup {0}
            BY <1>2, <2>1
        <3>2. PICK i \in DOMAIN jobs :
                  i = models[m].job /\ jobs[i].st = "succeeded" /\ models[m].digest = files[i]
            BY <1>1, <2>1, <3>1 DEF ModelDigests, ModelDigest
        <3>3. jobs'[i] = jobs[i] /\ i \in DOMAIN jobs'
            BY <1>4, <1>6, <3>2
        <3> QED  BY <3>2, <3>3
    <2> QED  BY <1>2, <2>1 DEF ModelDigests, ModelDigest
<1> QED  BY <1>8, <1>9, <1>10, <1>11 DEF Adapters

(* A new job is nobody's.                                                  *)
LEMMA JobAdded ==
    ASSUME Registry, Adapters, NEW r \in Requests, CreateJob(r)
    PROVE  Adapters'
<1>1. /\ WorkersHaveJobs /\ OwnsItsJob /\ OneRunner /\ JobDigests /\ ModelDigests /\ TypeOK
    BY DEF Registry, Adapters
<1>2. PICK e : e = [version |-> tx[r].version, st |-> "queued",
                    stale |-> FALSE, digest |-> 0]
    OBVIOUS
<1>3. e \in JobRows /\ jobs \in Seq(JobRows) /\ e.st = "queued"
    BY <1>1, <1>2, ModelOpsAssumption, SMTT(20)
    DEF CreateJob, JobRows, ActiveTraining, Claims, TypeOK, TxRows
<1>4. /\ jobs' = Append(jobs, e) /\ MayAdd(jobs, MaxRows) /\ MaxRows \in Nat
      /\ UNCHANGED <<files, exec, shared, models>>
    BY <1>2, ModelOpsAssumption DEF CreateJob
<1>5. /\ DOMAIN jobs' = DOMAIN jobs \cup {Len(jobs) + 1} /\ jobs'[Len(jobs) + 1] = e
      /\ \A i \in DOMAIN jobs : jobs'[i] = jobs[i]
    BY <1>3, <1>4, RowAdded
<1>6. OwnsItsJob' /\ OneRunner'
    BY <1>1, <1>4, <1>5 DEF OwnsItsJob, Owns, OneRunner, WorkersHaveJobs, HasJob
<1>7. JobDigests'
    BY <1>1, <1>3, <1>4, <1>5 DEF JobDigests
<1>8. ModelDigests'
    BY <1>1, <1>4, <1>5 DEF ModelDigests, ModelDigest
<1> QED  BY <1>6, <1>7, <1>8 DEF Adapters

(* Requests and time do not disturb an adapter.                            *)
LEMMA AdaptersAsked ==
    ASSUME Registry, Adapters, NEW j \in DOMAIN jobs, Cancel(j) \/ GoesStale(j)
    PROVE  Adapters'
<1>1. TypeOK /\ OwnsItsJob
    BY DEF Registry, Adapters
<1>2. UNCHANGED <<files, exec, shared, models>> /\ RunsOn /\ HoldsOn
    BY DEF Cancel, GoesStale, RunsOn, HoldsOn
<1>3. CASE Cancel(j)
    <2>1. jobs' = Persisted(j, "cancelled") /\ "cancelled" \in ActiveTraining \cup Ended
        BY <1>3 DEF Cancel, Persisted, Ended
    <2>2. /\ DOMAIN jobs' = DOMAIN jobs /\ jobs'[j].st = "cancelled"
          /\ \A i \in DOMAIN jobs \ {j} : jobs'[i] = jobs[i]
        BY <1>1, <2>1, StateRecorded
    <2>3. jobs[j].st # "succeeded"
        BY <1>3 DEF Cancel, ActiveTraining
    <2> QED  BY <1>2, <2>2, <2>3, JobRewritten
<1>4. CASE GoesStale(j)
    <2>1. /\ DOMAIN jobs' = DOMAIN jobs /\ jobs'[j].st = jobs[j].st
          /\ \A i \in DOMAIN jobs \ {j} : jobs'[i] = jobs[i]
        BY <1>1, <1>4, TimeRecorded DEF GoesStale
    <2>2. jobs[j].st \in Running /\ Running \subseteq ActiveTraining
          /\ "succeeded" \notin Running
        BY <1>4 DEF GoesStale, Running, ActiveTraining
    <2> QED  BY <1>2, <2>1, <2>2, JobRewritten
<1> QED  BY <1>3, <1>4

(* A worker ends or goes on with a job.                                    *)
LEMMA AdaptersWorked ==
    ASSUME Registry, Adapters, NEW w \in Workers,
           Stage(w) \/ Watch(w) \/ Report(w) \/ Crash(w)
    PROVE  Adapters'
<1>1. TypeOK /\ WorkersHaveJobs /\ OwnsItsJob /\ OneRunner /\ JobDigests
    BY DEF Registry, Adapters
<1>2. ASSUME NEW j \in DOMAIN jobs, j = exec[w].job, exec[w].at # "idle"
      PROVE  /\ j \notin shared =>
                    jobs[j].st \in ActiveTraining \cup {"cancelled"} /\ jobs[j].st # "succeeded"
             /\ exec[w].at = "written" =>
                    exec[w].bytes # 0 /\ (j \notin shared => files[j] = exec[w].bytes)
    BY <1>1, <1>2 DEF OwnsItsJob, Owns, ActiveTraining
<1>3. CASE Start(w)
    <2>1. PICK j \in DOMAIN jobs : j = exec[w].job
        BY <1>1, <1>3 DEF Start, WorkersHaveJobs, HasJob
    <2>2. /\ exec[w].at # "idle" /\ jobs' = Persisted(j, "training") /\ Moves(w, "training")
          /\ UNCHANGED <<files, models, shared>>
          /\ "training" \in ActiveTraining \cup Ended /\ "training" \in ActiveTraining
        BY <1>3, <2>1 DEF Start, ActiveTraining
    <2>3. /\ DOMAIN jobs' = DOMAIN jobs /\ jobs'[j].st = "training"
          /\ \A i \in DOMAIN jobs \ {j} : jobs'[i] = jobs[i]
        BY <1>1, <2>2, StateRecorded
    <2>4. /\ RunsOn /\ exec'[w].at = "training"
          /\ \A v \in Workers \ {w} : exec'[v] = exec[v]
        BY <1>1, <2>2, WorkerMoves
    <2>5. HoldsOn
        BY <2>4 DEF HoldsOn
    <2> QED  BY <1>2, <2>1, <2>2, <2>3, <2>4, <2>5, JobRewritten
<1>4. ASSUME exec[w].at # "idle", Leaves(w), UNCHANGED <<files, models, shared>>,
             NEW st \in {"cancelled", "failed", "succeeded"}, NEW j \in DOMAIN jobs,
             j = exec[w].job, DOMAIN jobs' = DOMAIN jobs, jobs'[j].st = st,
             \A i \in DOMAIN jobs \ {j} : jobs'[i] = jobs[i],
             st = "succeeded" =>
                 jobs'[j].digest # 0 /\ (j \notin shared => jobs'[j].digest = files[j])
      PROVE  Adapters'
    <2>1. j \notin shared => jobs[j].st # "succeeded"
        BY <1>2, <1>4
    <2>2. RunsOn /\ exec'[w].at = "idle" /\ \A v \in Workers \ {w} : exec'[v] = exec[v]
        BY <1>1, <1>4, WorkerLeaves
    <2>3. \A v \in Workers : ~(exec'[v].at # "idle" /\ exec'[v].job = j /\ j \notin shared)
        BY <1>1, <1>4, <2>2 DEF OneRunner
    <2>4. HoldsOn
        BY <2>2 DEF HoldsOn
    <2> QED  BY <1>4, <2>1, <2>2, <2>3, <2>4, JobRewritten
<1>5. CASE StopTraining(w) \/ FailJob(w)
    <2>1. PICK st \in {"cancelled", "failed"} :
              /\ exec[w].at # "idle" /\ jobs' = Persisted(exec[w].job, st) /\ Leaves(w)
              /\ UNCHANGED <<files, models, shared>>
        BY <1>5 DEF StopTraining, FailJob
    <2>2. PICK j \in DOMAIN jobs : j = exec[w].job
        BY <1>1, <2>1 DEF WorkersHaveJobs, HasJob
    <2>3. st \in ActiveTraining \cup Ended /\ jobs' = Persisted(j, st)
        BY <2>1, <2>2 DEF Ended
    <2>4. /\ DOMAIN jobs' = DOMAIN jobs /\ jobs'[j].st = st
          /\ \A i \in DOMAIN jobs \ {j} : jobs'[i] = jobs[i]
        BY <1>1, <2>3, StateRecorded
    <2> QED  BY <1>4, <2>1, <2>2, <2>4
<1>6. CASE Succeed(w)
    <2>1. /\ exec[w].at = "written" /\ jobs' = Succeeded(w) /\ Leaves(w)
          /\ UNCHANGED <<files, models, shared>>
        BY <1>6 DEF Succeed
    <2>2. PICK j \in DOMAIN jobs : j = exec[w].job
        BY <1>1, <2>1 DEF WorkersHaveJobs, HasJob
    <2>3. exec[w].bytes # 0 /\ (j \notin shared => files[j] = exec[w].bytes)
        BY <1>2, <2>1, <2>2
    <2>4. /\ DOMAIN jobs' = DOMAIN jobs /\ jobs'[j].st = "succeeded"
          /\ jobs'[j].digest = exec[w].bytes
          /\ \A i \in DOMAIN jobs \ {j} : jobs'[i] = jobs[i]
        BY <1>1, <2>1, <2>2, DigestRecorded
    <2> QED  BY <1>4, <2>1, <2>2, <2>3, <2>4
<1>7. CASE Watch(w)
    <2>1. RunsOn /\ \A v \in Workers : exec'[v].at = exec[v].at /\ exec'[v].bytes = exec[v].bytes
        BY <1>1, <1>7, WorkerWarned
    <2>2. UNCHANGED <<jobs, files, shared, models>> /\ HoldsOn
        BY <1>7, <2>1 DEF Watch, HoldsOn
    <2> QED  BY <2>1, <2>2, AdaptersAlone DEF SameModels
<1>8. CASE Crash(w)
    <2>1. Leaves(w) /\ UNCHANGED <<jobs, files, shared, models>>
        BY <1>8 DEF Crash
    <2>2. RunsOn /\ exec'[w].at = "idle" /\ \A v \in Workers \ {w} : exec'[v] = exec[v]
        BY <1>1, <2>1, WorkerLeaves
    <2>3. HoldsOn
        BY <2>2 DEF HoldsOn
    <2> QED  BY <2>1, <2>2, <2>3, AdaptersAlone DEF SameModels
<1>9. CASE Report(w)
    <2>1. exec[w].at # "idle" /\ UNCHANGED <<files, exec, shared, models>> /\ RunsOn /\ HoldsOn
        BY <1>9 DEF Report, RunsOn, HoldsOn
    <2>2. PICK j \in DOMAIN jobs : j = exec[w].job
        BY <1>1, <2>1 DEF WorkersHaveJobs, HasJob
    <2>3. /\ DOMAIN jobs' = DOMAIN jobs /\ jobs'[j].st = jobs[j].st
          /\ jobs'[j].digest = jobs[j].digest
          /\ \A i \in DOMAIN jobs \ {j} : jobs'[i] = jobs[i]
        BY <1>1, <1>9, <2>2, TimeRecorded DEF Report
    <2>4. /\ j \notin shared =>
                 jobs[j].st \in ActiveTraining \cup {"cancelled"} /\ jobs[j].st # "succeeded"
          /\ jobs[j].st = "succeeded" => jobs[j].digest # 0
        BY <1>1, <1>2, <2>1, <2>2 DEF JobDigests
    <2> QED  BY <2>1, <2>3, <2>4, JobRewritten
<1> QED  BY <1>3, <1>5, <1>6, <1>7, <1>8, <1>9, FileWritten, FileRead, JobTaken DEF Stage

(* Every step keeps the adapters.                                          *)
LEMMA AdaptersKept ==
    ASSUME Registry, Adapters, [Next]_vars
    PROVE  Adapters'
<1>1. ASSUME UNCHANGED <<jobs, files, exec, shared>>, SameModels
      PROVE  Adapters'
    BY <1>1, AdaptersAlone DEF RunsOn, HoldsOn
<1>2. CASE UNCHANGED vars
    BY <1>1, <1>2 DEF vars, SameModels
<1>3. CASE Ask
    <2>1. CASE \/ \E d \in Datasets : CreateDataset(d) \/ DeleteDataset(d)
               \/ \E d \in Datasets, ready \in BOOLEAN : CreateVersion(d, ready)
               \/ \E v \in DOMAIN versions : Freeze(v)
               \/ \E r \in Requests, v \in DOMAIN versions : ReadVersion(r, v)
               \/ \E r \in Requests : Rollback(r)
               \/ \E m \in DOMAIN models : CreateEvaluation(m)
        <3>1. UNCHANGED <<jobs, files, exec, shared, models>>
            BY <2>1 DEF CreateDataset, DeleteDataset, CreateVersion, Freeze, ReadVersion,
                        Rollback, CreateEvaluation
        <3> QED  BY <1>1, <3>1 DEF SameModels
    <2>2. CASE \/ \E r \in Requests, m \in DOMAIN models : ReadActive(r, m)
               \/ \E r \in Requests : Activate(r)
               \/ \E m \in DOMAIN models : Deactivate(m)
        <3>1. UNCHANGED <<jobs, files, exec, shared>>
            BY <2>2 DEF ReadActive, Activate, Deactivate
        <3> QED  BY <1>1, <2>2, <3>1, ActivationSteps
    <2>3. CASE \E r \in Requests : CreateJob(r)
        BY <2>3, JobAdded
    <2>4. CASE \E j \in DOMAIN jobs : Cancel(j)
        BY <2>4, AdaptersAsked
    <2>5. ASSUME NEW p \in Purposes, NEW q \in Providers, NEW j \in 0 .. Len(jobs),
                 Register(p, q, j)
          PROVE  Adapters'
        <3>1. /\ DOMAIN models \subseteq DOMAIN models'
              /\ \A m \in DOMAIN models : models'[m] = models[m]
              /\ \A m \in DOMAIN models' \ DOMAIN models :
                     /\ models'[m].provider = q /\ models'[m].job = j
                     /\ q = "local" /\ j # 0 => models'[m].digest = files[j]
            BY <2>5, RegisterStep
        <3>2. /\ UNCHANGED <<jobs, files, exec, shared>>
              /\ j # 0 => jobs[j].st = "succeeded"
            BY <2>5 DEF Register
        <3>3. j # 0 => j \in DOMAIN jobs
            BY RowNumbers DEF Registry
        <3>4. ModelDigests'
            BY <3>1, <3>2, <3>3 DEF Adapters, ModelDigests, ModelDigest
        <3> QED  BY <3>2, <3>4 DEF Adapters, OwnsItsJob, Owns, OneRunner, JobDigests
    <2>6. ASSUME NEW kind \in Kinds, NEW j \in 0 .. Len(jobs), Register(kind[1], kind[2], j)
          PROVE  Adapters'
        <3>1. kind[1] \in Purposes /\ kind[2] \in Providers
            BY ModelOpsAssumption
        <3> QED  BY <2>5, <2>6, <3>1
    <2> QED  BY <1>3, <2>1, <2>2, <2>3, <2>4, <2>6 DEF Ask
<1>4. CASE \E w \in Workers : Stage(w) \/ Watch(w) \/ Report(w) \/ Crash(w)
    BY <1>4, AdaptersWorked
<1>5. CASE \E j \in DOMAIN jobs : GoesStale(j)
    BY <1>5, AdaptersAsked
<1>6. CASE \E e \in DOMAIN evals : Evaluate(e)
    <2>1. UNCHANGED <<jobs, files, exec, shared, models>>
        BY <1>6 DEF Evaluate
    <2> QED  BY <1>1, <2>1 DEF SameModels
<1>7. CASE Reseed
    <2>1. UNCHANGED <<jobs, files, exec, shared>>
        BY <1>7 DEF Reseed
    <2> QED  BY <1>1, <1>7, <2>1, ActivationSteps
<1> QED  BY <1>2, <1>3, <1>4, <1>5, <1>6, <1>7 DEF Next

LEMMA AdaptersFirst == Init => Adapters
<1> SUFFICES ASSUME Init PROVE Adapters
    OBVIOUS
<1>1. Done.at = "idle" /\ DOMAIN jobs = {} /\ \A w \in Workers : exec[w] = Done
    BY EmptySeq DEF Init, Done
<1>2. \A m \in DOMAIN models : models[m].job = 0
    <2>1. \A m \in {1, 2, 3, 4} : ModelSeeds[m].job = 0
        BY DEF ModelSeeds, SeededRow
    <2>2. 1 .. Seeds \subseteq {1, 2, 3, 4}
        BY ModelOpsAssumption
    <2> QED  BY <2>1, <2>2 DEF Init, Seeded
<1> QED  BY <1>1, <1>2
         DEF Adapters, OwnsItsJob, Owns, OneRunner, JobDigests, ModelDigests, ModelDigest

(* The adapter on disk is the one its job and its model record, however    *)
(* often workers stop and jobs are claimed again and however slow they     *)
(* are, unless this very job was taken from a worker that still ran it;    *)
(* and a job that succeeded has a digest even then.                        *)
THEOREM DigestsKept == Spec => []DigestIsOfFile
<1>1. Registry /\ Adapters /\ [Next]_vars => Adapters'
    BY AdaptersKept
<1>2. Adapters => DigestIsOfFile
    BY DEF Adapters, JobDigests, ModelDigests, ModelDigest, DigestIsOfFile
<1> QED  BY <1>1, <1>2, AdaptersFirst, RegistryHolds, PTL DEF Spec
==============================================================================
