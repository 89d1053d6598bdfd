---------------------------- MODULE KnowledgeProofs ----------------------------
(***************************************************************************)
(* Machine-checked proofs about Knowledge, for any bases, documents,       *)
(* workers, requests and bounds.                                           *)
(***************************************************************************)
EXTENDS Knowledge, SequenceTheorems, TLAPS

(* A worker that runs has a job that is queued, a generation of its own    *)
(* and nobody beside it.                                                   *)
HasJob(w) == work[w].at # "idle" =>
    /\ work[w].job \in DOMAIN jobs /\ jobs[work[w].job].stage = "queued"
    /\ work[w].gen # 0
WorkersHaveJobs == \A w \in Workers : HasJob(w)
OneWorkerPerJob ==
    \A w, v \in Workers :
        work[w].at # "idle" /\ work[v].at # "idle" /\ work[w].job = work[v].job => w = v

(* A turn that is answered again is there; a stream has begun its turn.    *)
TurnFits(r) ==
    /\ tx[r].op \in {"ask", "answer", "stream"} => tx[r].turn \in 0 .. Len(answers)
    /\ tx[r].op = "stream" => tx[r].turn # 0
TurnsFit == \A r \in Requests : TurnFits(r)

Rows == TypeOK /\ WorkersHaveJobs /\ OneWorkerPerJob /\ TurnsFit

(* Who replaces the chunks of a document is alone with it, and no citation *)
(* points to them or is about to.                                          *)
Alone ==
    \A w \in Workers, d \in Docs :
        Rewrites(w, d) =>
            /\ ~Cited(d) /\ \A r \in Requests : ~HoldsChunks(r, d)
            /\ \A v \in Workers : Rewrites(v, d) => v = w

(* The chunks that an open transaction is about to cite.                   *)
HeldChunksStay ==
    \A r \in Requests : tx[r].op = "answer" =>
        \A c \in tx[r].cites : chunks[c[1]] = c[2]

Citing == Alone /\ HeldChunksStay /\ CitedChunksStay

(* An upload has its file and no document yet.                             *)
Uploading(r) == tx[r].op = "upload" => file[tx[r].doc] /\ docs[tx[r].doc].st = "none"
OneUpload ==
    \A r, s \in Requests :
        tx[r].op = "upload" /\ tx[s].op = "upload" /\ tx[r].doc = tx[s].doc => r = s
Uploads == OneUpload /\ \A r \in Requests : Uploading(r)

(* What is about to be deleted is there.                                   *)
Deletions == \A r \in Requests : tx[r].op = "delete" => docs[tx[r].doc].st # "none"

(* A document that is not deleted has one job, and waits for it.           *)
JobsFit ==
    \A j \in DOMAIN jobs :
        LET d == jobs[j].doc IN
        /\ docs[d].st # "none"
        /\ ~docs[d].deleted =>
               /\ \A i \in DOMAIN jobs : jobs[i].doc = d => i = j
               /\ jobs[j].stage = "queued" => docs[d].st = "pending"

(* What a worker has stored it finds when it ends, and what is ready can   *)
(* be searched.                                                            *)
StoredVectors ==
    \A w \in Workers : work[w].at = "upserted" => work[w].gen \in vectors[DocOf(w)] \cup lost
Searchable ==
    \A d \in Docs :
        /\ docs[d].st = "published" => ~docs[d].deleted
        /\ ~docs[d].deleted /\ docs[d].st \in {"ready", "published", "inactive"}
               => IndexComplete(d) /\ chunks[d] \in vectors[d] \cup lost

Indexing == Uploads /\ Deletions /\ JobsFit /\ StoredVectors /\ Searchable

-----------------------------------------------------------------------------
(* Tables. *)

(* A table in which one row is rewritten.                                  *)
LEMMA RowRewritten ==
    ASSUME NEW S, NEW s \in Seq(S), NEW i \in DOMAIN s, NEW e \in S
    PROVE  LET t == [s EXCEPT ![i] = e] IN
           /\ t \in Seq(S) /\ DOMAIN t = DOMAIN s /\ Len(t) = Len(s)
           /\ t[i] = e /\ \A k \in DOMAIN s \ {i} : t[k] = s[k]
<1>1. DOMAIN s = 1 .. Len(s) /\ Len(s) \in Nat
    BY LenProperties
<1>2. /\ [s EXCEPT ![i] = e] \in Seq(S)
      /\ Len([s EXCEPT ![i] = e]) = Len(s)
      /\ \A k \in 1 .. Len(s) : [s EXCEPT ![i] = e][k] = IF k = i THEN e ELSE s[k]
    BY <1>1, ExceptSeq
<1> QED  BY <1>1, <1>2

(* A table with a row for each row of another.                             *)
LEMMA RowsMapped ==
    ASSUME NEW S, NEW T, NEW s \in Seq(S), NEW t \in [DOMAIN s -> T]
    PROVE  t \in Seq(T) /\ DOMAIN t = DOMAIN s /\ Len(t) = Len(s)
<1>1. DOMAIN s = 1 .. Len(s) /\ Len(s) \in Nat
    BY LenProperties
<1>2. t \in Seq(T)
    BY <1>1, SeqDef
<1>3. DOMAIN t = 1 .. Len(t) /\ Len(t) \in Nat
    BY <1>2, LenProperties
<1> QED  BY <1>1, <1>2, <1>3

(* A table that grows by a row.                                            *)
LEMMA RowAdded ==
    ASSUME NEW S, NEW s \in Seq(S), NEW e \in S
    PROVE  LET t == Append(s, e) IN
           /\ t \in Seq(S) /\ Len(t) = Len(s) + 1
           /\ DOMAIN t = DOMAIN s \cup {Len(s) + 1} /\ Len(s) + 1 \notin DOMAIN s
           /\ t[Len(s) + 1] = e /\ \A k \in DOMAIN s : t[k] = s[k]
<1>1. DOMAIN s = 1 .. Len(s) /\ Len(s) \in Nat
    BY LenProperties
<1>2. /\ Append(s, e) \in Seq(S) /\ Len(Append(s, e)) = Len(s) + 1
      /\ \A k \in 1 .. Len(s) : Append(s, e)[k] = s[k]
      /\ Append(s, e)[Len(s) + 1] = e
    BY AppendProperties
<1>3. DOMAIN Append(s, e) = 1 .. Len(s) + 1
    BY <1>2, LenProperties
<1> QED  BY <1>1, <1>2, <1>3

(* The rows there are.                                                     *)
LEMMA RowsAre ==
    ASSUME TypeOK
    PROVE  /\ jobs \in Seq(JobRows) /\ DOMAIN jobs = 1 .. Len(jobs) /\ Len(jobs) \in Nat
           /\ answers \in Seq(AnswerRows) /\ DOMAIN answers = 1 .. Len(answers)
           /\ Len(answers) \in Nat
           /\ \A j \in DOMAIN jobs : jobs[j] \in JobRows /\ jobs[j].doc \in Docs
           /\ \A a \in DOMAIN answers : answers[a] \in AnswerRows
           /\ \A d \in Docs : docs[d] \in DocRows
           /\ \A r \in Requests : tx[r] \in TxRows
           /\ \A w \in Workers : work[w] \in Stages
<1>1. ASSUME NEW S, NEW s \in Seq(S), NEW i \in DOMAIN s
      PROVE  s[i] \in S
    BY LenProperties, ElementOfSeq
<1>2. jobs \in Seq(JobRows) /\ answers \in Seq(AnswerRows)
    BY DEF TypeOK
<1>3. /\ DOMAIN jobs = 1 .. Len(jobs) /\ Len(jobs) \in Nat
      /\ DOMAIN answers = 1 .. Len(answers) /\ Len(answers) \in Nat
    BY <1>2, LenProperties
<1>4. \A j \in DOMAIN jobs : jobs[j] \in JobRows
    BY <1>1, <1>2
<1>5. \A a \in DOMAIN answers : answers[a] \in AnswerRows
    BY <1>1, <1>2
<1>6. \A j \in DOMAIN jobs : jobs[j].doc \in Docs
    BY <1>4 DEF JobRows
<1> QED  BY <1>2, <1>3, <1>4, <1>5, <1>6 DEF TypeOK

-----------------------------------------------------------------------------
(* What a step leaves of documents, jobs, workers, answers and requests. *)

(* A document is given another state.                                      *)
LEMMA DocWritten ==
    ASSUME TypeOK, NEW d \in Docs, NEW st \in DocStates,
           docs' = [docs EXCEPT ![d].st = st]
    PROVE  /\ docs' \in [Docs -> DocRows]
           /\ docs'[d].st = st /\ docs'[d].deleted = docs[d].deleted
           /\ \A e \in Docs \ {d} : docs'[e] = docs[e]
<1>1. PICK e : e = [docs[d] EXCEPT !.st = st]
    OBVIOUS
<1>2. e \in DocRows /\ e.st = st /\ e.deleted = docs[d].deleted
    BY <1>1 DEF TypeOK, DocRows
<1>3. docs' = [docs EXCEPT ![d] = e]
    BY <1>1
<1> QED  BY <1>2, <1>3 DEF TypeOK

(* Each job there was is there, for the same document.                     *)
JobsStand ==
    /\ jobs' \in Seq(JobRows) /\ Len(jobs) <= Len(jobs')
    /\ DOMAIN jobs \subseteq DOMAIN jobs' /\ DOMAIN jobs' = 1 .. Len(jobs')
    /\ Len(jobs') \in Nat /\ \A j \in DOMAIN jobs : jobs'[j].doc = jobs[j].doc

(* A job is given another stage.                                           *)
LEMMA JobWritten ==
    ASSUME TypeOK, NEW j \in DOMAIN jobs, NEW stage \in {"queued"} \cup Ended,
           jobs' = [jobs EXCEPT ![j].stage = stage]
    PROVE  /\ JobsStand /\ DOMAIN jobs' = DOMAIN jobs
           /\ jobs'[j].stage = stage /\ \A i \in DOMAIN jobs \ {j} : jobs'[i] = jobs[i]
<1>1. jobs \in Seq(JobRows) /\ jobs[j] \in JobRows
      /\ DOMAIN jobs = 1 .. Len(jobs) /\ Len(jobs) \in Nat
    BY RowsAre
<1>2. PICK e : e = [jobs[j] EXCEPT !.stage = stage]
    OBVIOUS
<1>3. e \in JobRows /\ e.stage = stage /\ e.doc = jobs[j].doc
    BY <1>1, <1>2 DEF JobRows
<1>4. jobs' = [jobs EXCEPT ![j] = e]
    BY <1>2
<1>5. /\ jobs' \in Seq(JobRows) /\ DOMAIN jobs' = DOMAIN jobs /\ Len(jobs') = Len(jobs)
      /\ jobs'[j] = e /\ \A i \in DOMAIN jobs \ {j} : jobs'[i] = jobs[i]
    BY <1>1, <1>3, <1>4, RowRewritten
<1> QED  BY <1>1, <1>3, <1>5 DEF JobsStand

(* A job is added.                                                         *)
LEMMA JobAdded ==
    ASSUME TypeOK, NEW d \in Docs, NEW cleanup \in BOOLEAN,
           jobs' = Append(jobs, [doc |-> d, stage |-> "queued", attempt |-> 1,
                                 cleanup |-> cleanup])
    PROVE  LET n == Len(jobs) + 1 IN
           /\ JobsStand /\ DOMAIN jobs' = DOMAIN jobs \cup {n} /\ n \notin DOMAIN jobs
           /\ jobs'[n].doc = d /\ jobs'[n].stage = "queued"
           /\ \A i \in DOMAIN jobs : jobs'[i] = jobs[i]
<1>1. jobs \in Seq(JobRows) /\ DOMAIN jobs = 1 .. Len(jobs) /\ Len(jobs) \in Nat
    BY RowsAre
<1>2. PICK e : e = [doc |-> d, stage |-> "queued", attempt |-> 1, cleanup |-> cleanup]
    OBVIOUS
<1>3. 1 \in 1 .. MaxAttempts
    BY KnowledgeAssumption
<1>4. e \in JobRows /\ e.doc = d /\ e.stage = "queued"
    BY <1>2, <1>3 DEF JobRows
<1>5. jobs' = Append(jobs, e)
    BY <1>2
<1>6. /\ jobs' \in Seq(JobRows) /\ Len(jobs') = Len(jobs) + 1
      /\ DOMAIN jobs' = DOMAIN jobs \cup {Len(jobs) + 1} /\ Len(jobs) + 1 \notin DOMAIN jobs
      /\ jobs'[Len(jobs) + 1] = e /\ \A i \in DOMAIN jobs : jobs'[i] = jobs[i]
    BY <1>1, <1>4, <1>5, RowAdded
<1>7. DOMAIN jobs' = 1 .. Len(jobs') /\ Len(jobs') \in Nat
    BY <1>6, LenProperties
<1> QED  BY <1>1, <1>4, <1>6, <1>7 DEF JobsStand

(* The jobs of a deleted document fail, and one is added.                  *)
LEMMA JobsFailed ==
    ASSUME TypeOK, NEW d \in Docs,
           jobs' = Append([j \in DOMAIN jobs |->
                              IF j \in Pending(d) THEN [jobs[j] EXCEPT !.stage = "failed"]
                                                  ELSE jobs[j]],
                          [doc |-> d, stage |-> "queued", attempt |-> 1, cleanup |-> TRUE])
    PROVE  LET n == Len(jobs) + 1 IN
           /\ JobsStand /\ DOMAIN jobs' = DOMAIN jobs \cup {n} /\ n \notin DOMAIN jobs
           /\ jobs'[n].doc = d
           /\ \A i \in DOMAIN jobs \ Pending(d) : jobs'[i] = jobs[i]
<1>1. jobs \in Seq(JobRows) /\ DOMAIN jobs = 1 .. Len(jobs) /\ Len(jobs) \in Nat
      /\ \A j \in DOMAIN jobs : jobs[j] \in JobRows
    BY RowsAre
<1>2. PICK q : q = [j \in DOMAIN jobs |->
                       IF j \in Pending(d) THEN [jobs[j] EXCEPT !.stage = "failed"]
                                           ELSE jobs[j]]
    OBVIOUS
<1>3. ASSUME NEW j \in DOMAIN jobs
      PROVE  LET e == [jobs[j] EXCEPT !.stage = "failed"] IN
             e \in JobRows /\ e.doc = jobs[j].doc
    BY <1>1 DEF JobRows, Ended
<1>4. q \in [DOMAIN jobs -> JobRows] /\ \A j \in DOMAIN jobs : q[j].doc = jobs[j].doc
    BY <1>1, <1>2, <1>3
<1>5. q \in Seq(JobRows) /\ DOMAIN q = DOMAIN jobs /\ Len(q) = Len(jobs)
    BY <1>1, <1>4, RowsMapped
<1>6. PICK e : e = [doc |-> d, stage |-> "queued", attempt |-> 1, cleanup |-> TRUE]
    OBVIOUS
<1>7. 1 \in 1 .. MaxAttempts
    BY KnowledgeAssumption
<1>8. e \in JobRows /\ e.doc = d
    BY <1>6, <1>7 DEF JobRows
<1>9. jobs' = Append(q, e)
    BY <1>2, <1>6
<1>10. /\ jobs' \in Seq(JobRows) /\ Len(jobs') = Len(q) + 1
       /\ DOMAIN jobs' = DOMAIN q \cup {Len(q) + 1} /\ Len(q) + 1 \notin DOMAIN q
       /\ jobs'[Len(q) + 1] = e /\ \A i \in DOMAIN q : jobs'[i] = q[i]
    <2>1. PICK t : t = Append(q, e)
        OBVIOUS
    <2>2. /\ t \in Seq(JobRows) /\ Len(t) = Len(q) + 1
          /\ DOMAIN t = DOMAIN q \cup {Len(q) + 1} /\ Len(q) + 1 \notin DOMAIN q
          /\ t[Len(q) + 1] = e /\ \A i \in DOMAIN q : t[i] = q[i]
        BY <1>5, <1>8, <2>1, RowAdded
    <2> QED  BY <1>9, <2>1, <2>2
<1>11. DOMAIN jobs' = 1 .. Len(jobs') /\ Len(jobs') \in Nat
    BY <1>10, LenProperties
<1>12. JobsStand
    BY <1>1, <1>4, <1>5, <1>10, <1>11 DEF JobsStand
<1>13. \A i \in DOMAIN jobs \ Pending(d) : q[i] = jobs[i]
    BY <1>2
<1> QED  BY <1>5, <1>8, <1>10, <1>12, <1>13

(* The rows of workers stay in place when jobs are added.                  *)
LEMMA StagesStand ==
    ASSUME TypeOK, JobsStand
    PROVE  \A e \in Stages : e \in Stages'
BY RowsAre DEF JobsStand, Stages

(* Each worker that runs after the step ran its job before.                *)
RunsOn == \A w \in Workers : work'[w].at # "idle" =>
    work[w].at # "idle" /\ work'[w].job = work[w].job /\ work'[w].gen = work[w].gen

(* A worker that goes on with its job.                                     *)
LEMMA WorkerMoves ==
    ASSUME TypeOK, NEW w \in Workers, NEW stage \in {"flushed", "dropped", "upserted"},
           work[w].at # "idle", Goto(w, stage)
    PROVE  /\ work' \in [Workers -> Stages] /\ RunsOn
           /\ work'[w].at = stage /\ work'[w].job = work[w].job /\ work'[w].gen = work[w].gen
           /\ \A v \in Workers \ {w} : work'[v] = work[v]
<1>1. PICK e : e = [work[w] EXCEPT !.at = stage]
    OBVIOUS
<1>2. e \in Stages /\ e.at = stage /\ e.job = work[w].job /\ e.gen = work[w].gen
    BY <1>1 DEF TypeOK, Stages
<1>3. work' = [work EXCEPT ![w] = e]
    BY <1>1 DEF Goto
<1> QED  BY <1>2, <1>3 DEF TypeOK, RunsOn

(* A worker that ends.                                                     *)
LEMMA WorkerLeaves ==
    ASSUME TypeOK, NEW w \in Workers, work' = [work EXCEPT ![w] = Off]
    PROVE  /\ work' \in [Workers -> Stages] /\ RunsOn
           /\ work'[w].at = "idle" /\ \A v \in Workers \ {w} : work'[v] = work[v]
<1>1. Off \in Stages /\ Off.at = "idle"
    BY RowsAre, KnowledgeAssumption DEF Off, Stages
<1> QED  BY <1>1 DEF TypeOK, RunsOn

(* A worker that takes a job.                                              *)
LEMMA WorkerClaims ==
    ASSUME TypeOK, NEW w \in Workers, Claim(w)
    PROVE  \E j \in DOMAIN jobs :
           /\ jobs[j].stage = "queued" /\ JobFree(j)
           /\ work' \in [Workers -> Stages] /\ runs' \in 0 .. MaxRuns
           /\ work'[w].at = "claimed" /\ work'[w].job = j /\ work'[w].gen # 0
           /\ \A v \in Workers \ {w} : work'[v] = work[v]
<1>1. PICK j \in DOMAIN jobs :
          /\ Oldest(j)
          /\ work' = [work EXCEPT ![w] = [at |-> "claimed", job |-> j, gen |-> runs + 1]]
    BY DEF Claim
<1>2. runs + 1 \in 0 .. MaxRuns /\ runs + 1 # 0 /\ runs' = runs + 1 /\ j \in 0 .. Len(jobs)
    BY RowsAre, KnowledgeAssumption DEF Claim, TypeOK
<1>3. PICK e : e = [at |-> "claimed", job |-> j, gen |-> runs + 1]
    OBVIOUS
<1>4. e \in Stages /\ e.at = "claimed" /\ e.job = j /\ e.gen # 0
    BY <1>2, <1>3 DEF Stages
<1>5. work' = [work EXCEPT ![w] = e]
    BY <1>1, <1>3
<1> QED  BY <1>1, <1>2, <1>4, <1>5 DEF TypeOK, Oldest

(* A request that ends, and one that begins or goes on.                    *)
LEMMA TxEnds ==
    ASSUME TypeOK, NEW r \in Requests, End(r)
    PROVE  /\ tx' \in [Requests -> TxRows] /\ tx'[r].op = "none"
           /\ \A s \in Requests \ {r} : tx'[s] = tx[s]
<1>1. Idle \in TxRows /\ Idle.op = "none"
    BY DEF Idle, TxRows
<1> QED  BY <1>1 DEF TypeOK, End

LEMMA TxGoes ==
    ASSUME TypeOK, NEW r \in Requests, NEW t \in TxRows, tx' = [tx EXCEPT ![r] = t]
    PROVE  /\ tx' \in [Requests -> TxRows] /\ tx'[r] = t
           /\ \A s \in Requests \ {r} : tx'[s] = tx[s]
BY DEF TypeOK

(* An answer is written: its citations are added to those of the turn.     *)
LEMMA AnswerPut ==
    ASSUME TypeOK, NEW turn \in 0 .. Len(answers), NEW st \in AnswerStates,
           NEW cites \in Citations, answers' = Put(turn, st, cites)
    PROVE  /\ answers' \in Seq(AnswerRows) /\ Len(answers') \in Nat
           /\ Len(answers') = IF turn = 0 THEN Len(answers) + 1 ELSE Len(answers)
           /\ \A a \in DOMAIN answers' : \A c \in answers'[a].cites :
                  c \in cites \/ (a \in DOMAIN answers /\ c \in answers[a].cites)
<1>1. /\ answers \in Seq(AnswerRows) /\ DOMAIN answers = 1 .. Len(answers)
      /\ Len(answers) \in Nat
    BY RowsAre
<1>2. CASE turn = 0
    <2>1. PICK e : e = [st |-> st, cites |-> cites]
        OBVIOUS
    <2>2. e \in AnswerRows /\ e.cites = cites /\ answers' = Append(answers, e)
        BY <1>2, <2>1 DEF AnswerRows, Put
    <2>3. /\ answers' \in Seq(AnswerRows) /\ Len(answers') = Len(answers) + 1
          /\ DOMAIN answers' = DOMAIN answers \cup {Len(answers) + 1}
          /\ answers'[Len(answers) + 1] = e
          /\ \A a \in DOMAIN answers : answers'[a] = answers[a]
        BY <1>1, <2>2, RowAdded
    <2> QED  BY <1>1, <1>2, <2>2, <2>3
<1>3. CASE turn # 0
    <2>1. turn \in DOMAIN answers /\ answers[turn] \in AnswerRows
        BY <1>1, <1>3, RowsAre
    <2>2. PICK e : e = [st |-> st, cites |-> answers[turn].cites \cup cites]
        OBVIOUS
    <2>3. e \in AnswerRows /\ e.cites = answers[turn].cites \cup cites
        BY <2>1, <2>2 DEF AnswerRows, Citations
    <2>4. answers' = [answers EXCEPT ![turn] = e]
        BY <1>3, <2>1, <2>2 DEF Put
    <2>5. /\ answers' \in Seq(AnswerRows) /\ DOMAIN answers' = DOMAIN answers
          /\ Len(answers') = Len(answers) /\ answers'[turn] = e
          /\ \A a \in DOMAIN answers \ {turn} : answers'[a] = answers[a]
        BY <1>1, <2>1, <2>3, <2>4, RowRewritten
    <2> QED  BY <1>1, <1>3, <2>3, <2>5
<1> QED  BY <1>2, <1>3

(* A turn is given another state, and keeps its citations.                 *)
LEMMA AnswerEnds ==
    ASSUME TypeOK, NEW turn \in DOMAIN answers, NEW st \in AnswerStates,
           answers' = [answers EXCEPT ![turn].st = st]
    PROVE  /\ answers' \in Seq(AnswerRows) /\ Len(answers') = Len(answers)
           /\ DOMAIN answers' = DOMAIN answers
           /\ \A a \in DOMAIN answers : answers'[a].cites = answers[a].cites
<1>1. answers \in Seq(AnswerRows) /\ answers[turn] \in AnswerRows
    BY RowsAre
<1>2. PICK e : e = [answers[turn] EXCEPT !.st = st]
    OBVIOUS
<1>3. e \in AnswerRows /\ e.cites = answers[turn].cites
    BY <1>1, <1>2 DEF AnswerRows
<1>4. answers' = [answers EXCEPT ![turn] = e]
    BY <1>2
<1>5. /\ answers' \in Seq(AnswerRows) /\ DOMAIN answers' = DOMAIN answers
      /\ Len(answers') = Len(answers) /\ answers'[turn] = e
      /\ \A a \in DOMAIN answers \ {turn} : answers'[a] = answers[a]
    BY <1>1, <1>3, <1>4, RowRewritten
<1> QED  BY <1>3, <1>5

-----------------------------------------------------------------------------
(* Rows: the types, and what workers and requests hold of the tables. *)

(* A request that goes on goes on with its own turn.                       *)
LEMMA TurnsKept ==
    ASSUME TypeOK, TurnsFit, Len(answers') \in Nat, Len(answers) <= Len(answers'),
           \A r \in Requests :
               tx'[r] = tx[r] \/ tx'[r].op \notin {"ask", "answer", "stream"}
    PROVE  TurnsFit'
<1>1. Len(answers) \in Nat
    BY RowsAre
<1> QED  BY <1>1 DEF TurnsFit, TurnFits

(* A step after which no worker has more than it had.                      *)
LEMMA WorkersKept ==
    ASSUME Rows, JobsStand, RunsOn,
           \A w \in Workers : work'[w].at # "idle" => jobs'[work[w].job].stage = "queued"
    PROVE  WorkersHaveJobs' /\ OneWorkerPerJob'
BY DEF Rows, WorkersHaveJobs, HasJob, OneWorkerPerJob, RunsOn, JobsStand

(* A step that leaves jobs, workers, answers and requests alone.           *)
LEMMA RowsAlone ==
    ASSUME Rows, UNCHANGED <<jobs, work, runs, answers>>,
           bases' \in [Bases -> {"none", "shared", "private", "deleted"}],
           docs' \in [Docs -> DocRows], file' \in [Docs -> BOOLEAN],
           indexed' \in [Docs -> BOOLEAN], chunks' \in [Docs -> 0 .. MaxRuns],
           vectors' \in [Docs -> SUBSET Gens], lost' \subseteq Gens, conv' \in BOOLEAN,
           tx' \in [Requests -> TxRows],
           \A r \in Requests :
               tx'[r] = tx[r] \/ tx'[r].op \notin {"ask", "answer", "stream"}
    PROVE  Rows' /\ JobsStand /\ RunsOn
<1>1. TypeOK /\ TurnsFit /\ WorkersHaveJobs /\ OneWorkerPerJob
    BY DEF Rows
<1>2. JobsStand /\ RunsOn
    BY <1>1, RowsAre DEF JobsStand, RunsOn
<1>3. TypeOK'
    BY <1>1, <1>2, StagesStand DEF TypeOK
<1>4. TurnsFit'
    BY <1>1, RowsAre, TurnsKept
<1>5. WorkersHaveJobs' /\ OneWorkerPerJob'
    BY <1>1 DEF WorkersHaveJobs, HasJob, OneWorkerPerJob
<1> QED  BY <1>2, <1>3, <1>4, <1>5 DEF Rows

(* Requests about bases and documents, and the clock.                      *)
LEMMA DocumentRows ==
    ASSUME Rows,
           \/ UNCHANGED vars
           \/ BaseStep
           \/ \E d \in Docs : Publish(d) \/ Deactivate(d) \/ Expire(d)
           \/ DeleteConversation
    PROVE  Rows' /\ JobsStand /\ RunsOn
<1>1. TypeOK
    BY DEF Rows
<1>2. UNCHANGED <<file, chunks, indexed, vectors, lost, jobs, work, runs, answers, tx>>
    BY DEF vars, BaseStep, CreateBase, UpdateBase, DeleteBase, Publish, Deactivate, Expire,
           DeleteConversation, storeVars, workerVars, chatVars
<1>3. bases' \in [Bases -> {"none", "shared", "private", "deleted"}]
    BY <1>1 DEF vars, BaseStep, CreateBase, UpdateBase, DeleteBase, Publish, Deactivate,
                Expire, DeleteConversation, Granted, TypeOK
<1>4. conv' \in BOOLEAN
    BY <1>1 DEF vars, BaseStep, CreateBase, UpdateBase, DeleteBase, Publish, Deactivate,
                Expire, DeleteConversation, chatVars, TypeOK
<1>5. docs' \in [Docs -> DocRows]
    <2>1. ASSUME NEW d \in Docs, Publish(d) \/ Deactivate(d)
          PROVE  docs' \in [Docs -> DocRows]
        BY <1>1, <2>1, DocWritten DEF Publish, Deactivate, DocStates
    <2>2. ASSUME NEW d \in Docs, Expire(d)
          PROVE  docs' \in [Docs -> DocRows]
        <3>1. PICK e : e = [docs[d] EXCEPT !.expired = TRUE]
            OBVIOUS
        <3>2. e \in DocRows /\ docs' = [docs EXCEPT ![d] = e]
            BY <1>1, <2>2, <3>1 DEF TypeOK, DocRows, Expire
        <3> QED  BY <1>1, <3>2 DEF TypeOK
    <2>3. CASE UNCHANGED docs
        BY <1>1, <2>3 DEF TypeOK
    <2> QED  BY <2>1, <2>2, <2>3
             DEF vars, BaseStep, CreateBase, UpdateBase, DeleteBase, DeleteConversation
<1> QED  BY <1>1, <1>2, <1>3, <1>4, <1>5, RowsAlone DEF TypeOK

(* Uploads and deletions begin, and requests give up.                      *)
LEMMA RequestRows ==
    ASSUME Rows, NEW r \in Requests,
           \/ \E d \in Docs, b \in Bases : SaveUpload(r, d, b)
           \/ FailUpload(r) \/ LoseUpload(r)
           \/ \E d \in Docs : LockDelete(r, d)
           \/ GiveUp(r)
    PROVE  Rows' /\ JobsStand /\ RunsOn
<1>1. TypeOK
    BY DEF Rows
<1>2. UNCHANGED <<bases, docs, chunks, indexed, vectors, lost, jobs, work, runs, conv, answers>>
    BY DEF SaveUpload, FailUpload, LoseUpload, LockDelete, GiveUp, storeVars, workerVars,
           chatVars
<1>3. file' \in [Docs -> BOOLEAN]
    BY <1>1 DEF SaveUpload, FailUpload, LoseUpload, LockDelete, GiveUp, storeVars, TypeOK,
                Stored, Erased
<1>4. /\ tx' \in [Requests -> TxRows]
      /\ \A s \in Requests : tx'[s] = tx[s] \/ tx'[s].op \notin {"ask", "answer", "stream"}
    <2>1. CASE FailUpload(r) \/ LoseUpload(r) \/ GiveUp(r)
        BY <1>1, <2>1, TxEnds DEF FailUpload, LoseUpload, GiveUp
    <2>2. ASSUME NEW d \in Docs, NEW b \in Bases, SaveUpload(r, d, b)
          PROVE  <1>4!:
        <3>1. PICK t : t = [op |-> "upload", doc |-> d, base |-> b]
            OBVIOUS
        <3>2. t \in TxRows /\ t.op = "upload" /\ tx' = [tx EXCEPT ![r] = t]
            BY <2>2, <3>1 DEF TxRows, SaveUpload
        <3> QED  BY <1>1, <3>2, TxGoes
    <2>3. ASSUME NEW d \in Docs, LockDelete(r, d)
          PROVE  <1>4!:
        <3>1. PICK t : t = [op |-> "delete", doc |-> d]
            OBVIOUS
        <3>2. t \in TxRows /\ t.op = "delete" /\ tx' = [tx EXCEPT ![r] = t]
            BY <2>3, <3>1 DEF TxRows, LockDelete
        <3> QED  BY <1>1, <3>2, TxGoes
    <2> QED  BY <2>1, <2>2, <2>3
<1> QED  BY <1>1, <1>2, <1>3, <1>4, RowsAlone DEF TypeOK

(* A document and its first job are there; a deletion leaves no job in the *)
(* queue but its own, and takes none from a worker; a failed job is queued *)
(* again.                                                                  *)
LEMMA JobRowsKept ==
    ASSUME Rows,
           \/ \E r \in Requests : CommitUpload(r) \/ Delete(r)
           \/ \E j \in DOMAIN jobs : Retry(j)
    PROVE  Rows' /\ JobsStand /\ RunsOn
<1>1. TypeOK /\ TurnsFit /\ WorkersHaveJobs
    BY DEF Rows
<1>2. UNCHANGED <<bases, file, chunks, indexed, vectors, lost, work, runs, conv, answers>>
    BY DEF CommitUpload, Delete, Retry, storeVars, workerVars, chatVars
<1>3. RunsOn
    BY <1>2 DEF RunsOn
<1>4. /\ JobsStand /\ docs' \in [Docs -> DocRows]
      /\ \A w \in Workers : work'[w].at # "idle" => jobs'[work[w].job].stage = "queued"
    <2>1. ASSUME NEW r \in Requests, CommitUpload(r)
          PROVE  <1>4!:
        <3>1. PICK d \in Docs : d = tx[r].doc
            BY <1>1, <2>1 DEF CommitUpload, TypeOK, TxRows
        <3>2. PICK e \in DocRows : e = Doc(tx[r].base, "pending")
            BY <1>1, <2>1 DEF CommitUpload, TypeOK, TxRows, Doc, DocRows, DocStates
        <3>3. /\ docs' = [docs EXCEPT ![d] = e]
              /\ jobs' = Append(jobs, [doc |-> d, stage |-> "queued", attempt |-> 1,
                                       cleanup |-> FALSE])
            BY <2>1, <3>1, <3>2 DEF CommitUpload
        <3>4. JobsStand /\ \A i \in DOMAIN jobs : jobs'[i] = jobs[i]
            BY <1>1, <3>3, JobAdded
        <3> QED  BY <1>1, <1>2, <3>3, <3>4 DEF TypeOK, WorkersHaveJobs, HasJob
    <2>2. ASSUME NEW r \in Requests, Delete(r)
          PROVE  <1>4!:
        <3>1. PICK d \in Docs : d = tx[r].doc
            BY <1>1, <2>2 DEF Delete, TypeOK, TxRows
        <3>2. PICK e : e = [docs[d] EXCEPT !.st = "deleted", !.deleted = TRUE]
            OBVIOUS
        <3>3. e \in DocRows /\ docs' = [docs EXCEPT ![d] = e]
            <4>1. docs \in [Docs -> DocRows] /\ docs[d] \in DocRows
                BY <1>1 DEF TypeOK
            <4>2. e \in DocRows
                BY <3>2, <4>1 DEF DocRows, DocStates
            <4>3. docs' = [docs EXCEPT ![d].st = "deleted", ![d].deleted = TRUE]
                BY <2>2, <3>1 DEF Delete
            <4> QED  BY <3>2, <4>1, <4>2, <4>3
        <3>4. JobsStand /\ \A i \in DOMAIN jobs \ Pending(d) : jobs'[i] = jobs[i]
            BY <1>1, <2>2, <3>1, JobsFailed DEF Delete
        <3>5. \A w \in Workers : work[w].job \notin Pending(d)
            BY <2>2, <3>1 DEF Delete, JobFree
        <3> QED  BY <1>1, <1>2, <3>3, <3>4, <3>5 DEF TypeOK, WorkersHaveJobs, HasJob
    <2>3. ASSUME NEW j \in DOMAIN jobs, Retry(j)
          PROVE  <1>4!:
        <3>1. PICK d \in Docs : d = jobs[j].doc
            BY <1>1, RowsAre
        <3>2. docs' \in [Docs -> DocRows]
            BY <1>1, <2>3, <3>1, DocWritten DEF Retry, DocStates
        <3>3. jobs[j] \in JobRows /\ jobs[j].attempt < MaxAttempts /\ jobs \in Seq(JobRows)
              /\ DOMAIN jobs = 1 .. Len(jobs) /\ Len(jobs) \in Nat
            BY <1>1, <2>3, RowsAre DEF Retry
        <3>4. PICK e : e = [jobs[j] EXCEPT !.stage = "queued", !.attempt = jobs[j].attempt + 1]
            OBVIOUS
        <3>5. jobs[j].attempt + 1 \in 1 .. MaxAttempts
            BY <3>3, KnowledgeAssumption DEF JobRows
        <3>6. e \in JobRows /\ e.stage = "queued" /\ e.doc = jobs[j].doc
            BY <3>3, <3>4, <3>5 DEF JobRows
        <3>7. jobs' = [jobs EXCEPT ![j] = e]
            BY <2>3, <3>3, <3>4 DEF Retry
        <3>8. /\ jobs' \in Seq(JobRows) /\ DOMAIN jobs' = DOMAIN jobs
              /\ Len(jobs') = Len(jobs) /\ jobs'[j] = e
              /\ \A i \in DOMAIN jobs \ {j} : jobs'[i] = jobs[i]
            BY <3>3, <3>6, <3>7, RowRewritten
        <3>9. JobsStand
            BY <3>3, <3>6, <3>8 DEF JobsStand
        <3> QED  BY <1>1, <1>2, <3>2, <3>6, <3>8, <3>9 DEF WorkersHaveJobs, HasJob
    <2> QED  BY <2>1, <2>2, <2>3
<1>5. /\ tx' \in [Requests -> TxRows]
      /\ \A s \in Requests : tx'[s] = tx[s] \/ tx'[s].op \notin {"ask", "answer", "stream"}
    BY <1>1, TxEnds DEF CommitUpload, Delete, Retry, TypeOK
<1>6. TypeOK'
    <2>1. jobs' \in Seq(JobRows) /\ \A e \in Stages : e \in Stages'
        BY <1>1, <1>4, StagesStand DEF JobsStand
    <2> QED  BY <1>1, <1>2, <1>4, <1>5, <2>1 DEF TypeOK
<1>7. WorkersHaveJobs' /\ OneWorkerPerJob'
    BY <1>3, <1>4, WorkersKept
<1>8. TurnsFit'
    BY <1>1, <1>2, <1>5, RowsAre, TurnsKept
<1> QED  BY <1>3, <1>4, <1>6, <1>7, <1>8 DEF Rows

(* A worker takes a job, replaces chunks and vectors, and ends.            *)
LEMMA WorkerRows ==
    ASSUME Rows, NEW w \in Workers, Worker(w)
    PROVE  Rows' /\ JobsStand
<1>1. TypeOK /\ TurnsFit /\ WorkersHaveJobs /\ OneWorkerPerJob
    BY DEF Rows
<1>2. UNCHANGED <<bases, file, conv, answers, tx>>
    BY DEF Worker, Claim, Flush, RefusedByCitation, DropVectors, Upsert, Finish, Fail, Crash,
           storeVars, chatVars
<1>3. ASSUME work[w].at # "idle"
      PROVE  /\ work[w].job \in DOMAIN jobs /\ DocOf(w) \in Docs /\ work[w].gen \in Gens
             /\ jobs[work[w].job].stage = "queued"
    BY <1>1, <1>3, RowsAre, KnowledgeAssumption
    DEF WorkersHaveJobs, HasJob, DocOf, TypeOK, Stages, Gens
<1>4. TurnsFit'
    BY <1>1, <1>2, RowsAre, TurnsKept
<1>5. CASE Claim(w)
    <2>1. PICK j \in DOMAIN jobs :
              /\ jobs[j].stage = "queued" /\ JobFree(j)
              /\ work' \in [Workers -> Stages] /\ runs' \in 0 .. MaxRuns
              /\ work'[w].at = "claimed" /\ work'[w].job = j /\ work'[w].gen # 0
              /\ \A v \in Workers \ {w} : work'[v] = work[v]
        BY <1>1, <1>5, WorkerClaims
    <2>2. UNCHANGED <<docs, chunks, indexed, vectors, lost, jobs>>
        BY <1>5 DEF Claim, storeVars
    <2>3. JobsStand
        BY <1>1, <2>2, RowsAre DEF JobsStand
    <2>4. TypeOK'
        BY <1>1, <1>2, <2>1, <2>2, <2>3, StagesStand DEF TypeOK
    <2>5. WorkersHaveJobs'
        BY <1>1, <2>1, <2>2 DEF WorkersHaveJobs, HasJob
    <2>6. OneWorkerPerJob'
        BY <1>1, <2>1 DEF OneWorkerPerJob, JobFree
    <2> QED  BY <1>4, <2>3, <2>4, <2>5, <2>6 DEF Rows
<1>6. ASSUME JobsStand, docs' \in [Docs -> DocRows], indexed' \in [Docs -> BOOLEAN],
             chunks' \in [Docs -> 0 .. MaxRuns], vectors' \in [Docs -> SUBSET Gens],
             lost' \subseteq Gens, work' \in [Workers -> Stages], RunsOn, UNCHANGED runs,
             \A v \in Workers : work'[v].at # "idle" => jobs'[work[v].job].stage = "queued"
      PROVE  Rows' /\ JobsStand
    <2>1. jobs' \in Seq(JobRows) /\ \A e \in Stages : e \in Stages'
        BY <1>1, <1>6, StagesStand DEF JobsStand
    <2>2. TypeOK'
        BY <1>1, <1>2, <1>6, <2>1 DEF TypeOK
    <2> QED  BY <1>4, <1>6, <2>2, WorkersKept DEF Rows
<1>7. ASSUME UNCHANGED <<docs, chunks, indexed, jobs, runs>>, vectors' \in [Docs -> SUBSET Gens],
             lost' \subseteq Gens, work' \in [Workers -> Stages], RunsOn
      PROVE  Rows' /\ JobsStand
    <2>1. JobsStand
        BY <1>1, <1>7, RowsAre DEF JobsStand
    <2>2. \A v \in Workers : work'[v].at # "idle" => jobs'[work[v].job].stage = "queued"
        BY <1>1, <1>7 DEF RunsOn, WorkersHaveJobs, HasJob
    <2> QED  BY <1>1, <1>6, <1>7, <2>1, <2>2 DEF TypeOK
<1>8. CASE Flush(w) \/ DropVectors(w) \/ Upsert(w)
    <2>1. PICK stage \in {"flushed", "dropped", "upserted"} : Goto(w, stage)
        BY <1>8 DEF Flush, DropVectors, Upsert
    <2>2. work[w].at # "idle" /\ UNCHANGED <<docs, chunks, indexed, jobs, runs>>
        BY <1>8 DEF Flush, DropVectors, Upsert, storeVars
    <2>3. work' \in [Workers -> Stages] /\ RunsOn
        BY <1>1, <2>1, <2>2, WorkerMoves
    <2>4. vectors' \in [Docs -> SUBSET Gens] /\ lost' \subseteq Gens
        <3>1. CASE Flush(w)
            BY <1>1, <3>1 DEF Flush, storeVars, TypeOK
        <3>2. CASE DropVectors(w)
            <4>1. PICK kept \in SUBSET vectors[DocOf(w)] :
                      vectors' = [vectors EXCEPT ![DocOf(w)] = kept]
                BY <3>2 DEF DropVectors
            <4>2. lost' = lost
                BY <3>2 DEF DropVectors
            <4> QED  BY <1>1, <1>3, <2>2, <4>1, <4>2 DEF TypeOK
        <3>3. CASE Upsert(w)
            <4>1. PICK refused \in SUBSET {work[w].gen} :
                      /\ vectors' = [vectors EXCEPT ![DocOf(w)] =
                                        vectors[DocOf(w)] \cup ({work[w].gen} \ refused)]
                      /\ lost' = lost \cup refused
                BY <3>3 DEF Upsert
            <4> QED  BY <1>1, <1>3, <2>2, <4>1 DEF TypeOK
        <3> QED  BY <1>8, <3>1, <3>2, <3>3
    <2> QED  BY <1>7, <2>2, <2>3, <2>4
<1>9. CASE RefusedByCitation(w) \/ Crash(w)
    <2>1. /\ work' = [work EXCEPT ![w] = Off]
          /\ UNCHANGED <<docs, chunks, indexed, vectors, lost, jobs, runs>>
        BY <1>9 DEF RefusedByCitation, Crash, storeVars
    <2>2. work' \in [Workers -> Stages] /\ RunsOn
        BY <1>1, <2>1, WorkerLeaves
    <2> QED  BY <1>1, <1>7, <2>1, <2>2 DEF TypeOK
<1>10. CASE Finish(w) \/ Fail(w)
    <2>1. PICK st \in {"ready", "failed"}, stage \in Ended :
              /\ work[w].at # "idle" /\ work' = [work EXCEPT ![w] = Off]
              /\ docs' = [docs EXCEPT ![DocOf(w)].st = st]
              /\ jobs' = [jobs EXCEPT ![work[w].job].stage = stage]
              /\ UNCHANGED <<vectors, lost, runs>>
        BY <1>10 DEF Finish, Fail, Ended
    <2>2. /\ work' \in [Workers -> Stages] /\ RunsOn /\ work'[w].at = "idle"
          /\ \A v \in Workers \ {w} : work'[v] = work[v]
        BY <1>1, <2>1, WorkerLeaves
    <2>3. PICK d \in Docs, j \in DOMAIN jobs : d = DocOf(w) /\ j = work[w].job
        BY <1>3, <2>1
    <2>4. docs' \in [Docs -> DocRows]
        BY <1>1, <2>1, <2>3, DocWritten DEF DocStates
    <2>5. JobsStand /\ \A i \in DOMAIN jobs \ {j} : jobs'[i] = jobs[i]
        BY <1>1, <2>1, <2>3, JobWritten
    <2>6. \A v \in Workers : work'[v].at # "idle" => jobs'[work[v].job].stage = "queued"
        BY <1>1, <2>1, <2>2, <2>3, <2>5 DEF OneWorkerPerJob, WorkersHaveJobs, HasJob
    <2>7. indexed' \in [Docs -> BOOLEAN]
        BY <1>1, <1>10 DEF Finish, Fail, TypeOK
    <2>8. chunks' \in [Docs -> 0 .. MaxRuns]
        <3>1. PICK c \in {chunks[d], work[w].gen} : chunks' = [chunks EXCEPT ![d] = c]
            BY <1>1, <1>10, <2>3 DEF Finish, Fail, TypeOK
        <3>2. c \in 0 .. MaxRuns
            BY <1>1, <3>1 DEF TypeOK, Stages
        <3> QED  BY <1>1, <3>1, <3>2 DEF TypeOK
    <2> QED  BY <1>1, <1>6, <2>1, <2>2, <2>4, <2>5, <2>6, <2>7, <2>8 DEF TypeOK
<1> QED  BY <1>5, <1>8, <1>9, <1>10 DEF Worker

(* A deletion and a worker that wait for each other: one of them ends.     *)
LEMMA DeadlockRows ==
    ASSUME Rows, NEW r \in Requests, NEW w \in Workers, BreakDeadlock(r, w)
    PROVE  Rows' /\ JobsStand /\ RunsOn
<1>1. TypeOK /\ TurnsFit /\ WorkersHaveJobs
    BY DEF Rows
<1>2. UNCHANGED <<bases, docs, file, chunks, indexed, vectors, lost, jobs, runs, conv, answers>>
    BY DEF BreakDeadlock, storeVars, chatVars
<1>3. work' \in [Workers -> Stages] /\ RunsOn
    BY <1>1, WorkerLeaves DEF BreakDeadlock, RunsOn, TypeOK
<1>4. /\ tx' \in [Requests -> TxRows]
      /\ \A s \in Requests : tx'[s] = tx[s] \/ tx'[s].op \notin {"ask", "answer", "stream"}
    BY <1>1, TxEnds DEF BreakDeadlock, TypeOK
<1>5. JobsStand
    BY <1>1, <1>2, RowsAre DEF JobsStand
<1>6. TypeOK'
    BY <1>1, <1>2, <1>3, <1>4, <1>5, StagesStand DEF TypeOK
<1>7. WorkersHaveJobs' /\ OneWorkerPerJob'
    BY <1>1, <1>2, <1>3, <1>5, WorkersKept DEF RunsOn, WorkersHaveJobs, HasJob
<1>8. TurnsFit'
    BY <1>1, <1>2, <1>4, RowsAre, TurnsKept
<1> QED  BY <1>3, <1>5, <1>6, <1>7, <1>8 DEF Rows

(* Questions and answers.                                                  *)
LEMMA ChatRows ==
    ASSUME Rows, NEW r \in Requests,
           \/ \E turn \in 0 .. Len(answers), found \in SUBSET Docs : Ask(r, turn, found)
           \/ Cite(r) \/ Answer(r) \/ StartStream(r) \/ EndStream(r)
    PROVE  Rows' /\ JobsStand /\ RunsOn
<1>1. TypeOK /\ TurnsFit /\ WorkersHaveJobs /\ OneWorkerPerJob /\ Len(answers) \in Nat
    BY RowsAre DEF Rows
<1>2. UNCHANGED <<bases, docs, file, chunks, indexed, vectors, lost, jobs, work, runs, conv>>
    BY DEF Ask, Cite, Answer, StartStream, EndStream, storeVars, workerVars, chatVars
<1>3. ASSUME answers' \in Seq(AnswerRows), Len(answers') \in Nat, Len(answers) <= Len(answers'),
             tx' \in [Requests -> TxRows], TurnFits(r)',
             \A s \in Requests \ {r} : tx'[s] = tx[s]
      PROVE  Rows' /\ JobsStand /\ RunsOn
    <2>1. JobsStand /\ RunsOn
        BY <1>1, <1>2, RowsAre DEF JobsStand, RunsOn
    <2>2. TypeOK'
        BY <1>1, <1>2, <1>3, <2>1, StagesStand DEF TypeOK
    <2>3. WorkersHaveJobs' /\ OneWorkerPerJob'
        BY <1>1, <1>2 DEF WorkersHaveJobs, HasJob, OneWorkerPerJob
    <2>4. TurnsFit'
        <3>1. ASSUME NEW s \in Requests \ {r}
              PROVE  TurnFits(s)'
            BY <1>1, <1>3 DEF TurnsFit, TurnFits
        <3> QED  BY <1>3, <3>1 DEF TurnsFit
    <2> QED  BY <2>1, <2>2, <2>3, <2>4 DEF Rows
<1>4. ASSUME tx[r].op \in {"ask", "answer", "stream"}
      PROVE  /\ tx[r].turn \in 0 .. Len(answers) /\ tx[r].cites \in Citations
             /\ tx[r].op = "stream" => tx[r].turn \in DOMAIN answers
    BY <1>1, <1>4, RowsAre DEF TurnsFit, TurnFits, TxRows
<1>5. ASSUME NEW turn \in 0 .. Len(answers), NEW found \in SUBSET Docs, Ask(r, turn, found)
      PROVE  Rows' /\ JobsStand /\ RunsOn
    <2>1. PICK t : t = [op |-> "ask", turn |-> turn,
                        cites |-> {<<d, chunks[d]>> : d \in found}]
        OBVIOUS
    <2>2. \A d \in found : chunks[d] \in Gens
        BY <1>1, <1>5 DEF Ask, Hits, InIndex, TypeOK
    <2>3. t \in TxRows /\ t.op = "ask" /\ t.turn = turn
        BY <1>1, <2>1, <2>2 DEF TxRows, Citations
    <2>4. tx' = [tx EXCEPT ![r] = t] /\ answers' = answers
        BY <1>5, <2>1 DEF Ask, chatVars
    <2>5. tx' \in [Requests -> TxRows] /\ tx'[r] = t /\ \A s \in Requests \ {r} : tx'[s] = tx[s]
        BY <1>1, <2>3, <2>4, TxGoes
    <2>6. TurnFits(r)'
        BY <2>3, <2>4, <2>5 DEF TurnFits
    <2> QED  BY <1>1, <1>3, <2>4, <2>5, <2>6 DEF TypeOK
<1>6. CASE Cite(r)
    <2>1. PICK t : t = [tx[r] EXCEPT !.op = "answer"]
        OBVIOUS
    <2>2. tx[r] \in TxRows /\ tx[r].op = "ask"
        BY <1>1, <1>6 DEF Cite, TypeOK
    <2>3. t \in TxRows /\ t.op = "answer" /\ t.turn = tx[r].turn
        BY <2>1, <2>2 DEF TxRows
    <2>4. tx' = [tx EXCEPT ![r] = t] /\ answers' = answers
        BY <1>6, <2>1 DEF Cite, chatVars
    <2>5. tx' \in [Requests -> TxRows] /\ tx'[r] = t /\ \A s \in Requests \ {r} : tx'[s] = tx[s]
        BY <1>1, <2>3, <2>4, TxGoes
    <2>6. TurnFits(r)'
        BY <1>4, <2>2, <2>3, <2>4, <2>5 DEF TurnFits
    <2> QED  BY <1>1, <1>3, <2>4, <2>5, <2>6 DEF TypeOK
<1>7. CASE Answer(r)
    <2>1. PICK st \in {"fallback", "completed"} :
              answers' = Put(tx[r].turn, st, tx[r].cites) /\ End(r)
        BY <1>7 DEF Answer, Outcome
    <2>2. st \in AnswerStates /\ tx[r].op = "answer"
        BY <1>7 DEF AnswerStates, Answer
    <2>3. answers' \in Seq(AnswerRows) /\ Len(answers') \in Nat
          /\ Len(answers') = IF tx[r].turn = 0 THEN Len(answers) + 1 ELSE Len(answers)
        BY <1>1, <1>4, <2>1, <2>2, AnswerPut
    <2>4. /\ tx' \in [Requests -> TxRows] /\ tx'[r].op = "none"
          /\ \A s \in Requests \ {r} : tx'[s] = tx[s]
        BY <1>1, <2>1, TxEnds
    <2>5. TurnFits(r)'
        BY <2>4 DEF TurnFits
    <2> QED  BY <1>1, <1>3, <2>3, <2>4, <2>5
<1>8. CASE StartStream(r)
    <2>1. tx[r].op = "ask" /\ tx[r].turn \in 0 .. Len(answers) /\ tx[r].cites \in Citations
        BY <1>4, <1>8 DEF StartStream
    <2>2. PICK st : st = IF tx[r].turn = 0 THEN "pending" ELSE answers[tx[r].turn].st
        OBVIOUS
    <2>3. st \in AnswerStates
        BY <1>1, <2>1, <2>2, RowsAre DEF AnswerStates, AnswerRows
    <2>4. answers' = Put(tx[r].turn, st, tx[r].cites)
        BY <1>8, <2>2 DEF StartStream
    <2>5. answers' \in Seq(AnswerRows) /\ Len(answers') \in Nat
          /\ Len(answers') = IF tx[r].turn = 0 THEN Len(answers) + 1 ELSE Len(answers)
        BY <1>1, <2>1, <2>3, <2>4, AnswerPut
    <2>6. PICK t : t = [op |-> "stream", turn |-> IF tx[r].turn = 0 THEN Len(answers) + 1
                                                                   ELSE tx[r].turn,
                        cites |-> tx[r].cites]
        OBVIOUS
    <2>7. t \in TxRows /\ t.op = "stream" /\ t.turn \in 1 .. Len(answers')
        BY <1>1, <2>1, <2>5, <2>6 DEF TxRows
    <2>8. tx' = [tx EXCEPT ![r] = t]
        BY <1>8, <2>6 DEF StartStream
    <2>9. tx' \in [Requests -> TxRows] /\ tx'[r] = t /\ \A s \in Requests \ {r} : tx'[s] = tx[s]
        BY <1>1, <2>7, <2>8, TxGoes
    <2>10. TurnFits(r)'
        BY <2>5, <2>7, <2>9 DEF TurnFits
    <2> QED  BY <1>1, <1>3, <2>5, <2>9, <2>10
<1>9. CASE EndStream(r)
    <2>1. PICK st \in {"fallback", "completed", "failed"} :
              answers' = [answers EXCEPT ![tx[r].turn].st = st] /\ End(r)
        BY <1>9 DEF EndStream, Outcome
    <2>2. st \in AnswerStates /\ tx[r].turn \in DOMAIN answers
        BY <1>4, <1>9 DEF AnswerStates, EndStream
    <2>3. answers' \in Seq(AnswerRows) /\ Len(answers') = Len(answers)
        BY <1>1, <2>1, <2>2, AnswerEnds
    <2>4. /\ tx' \in [Requests -> TxRows] /\ tx'[r].op = "none"
          /\ \A s \in Requests \ {r} : tx'[s] = tx[s]
        BY <1>1, <2>1, TxEnds
    <2>5. TurnFits(r)'
        BY <2>4 DEF TurnFits
    <2> QED  BY <1>1, <1>3, <2>3, <2>4, <2>5
<1> QED  BY <1>5, <1>6, <1>7, <1>8, <1>9

(* Every step keeps the rows, and the jobs that are there.                 *)
LEMMA RowsKept ==
    ASSUME Rows, [Next]_vars
    PROVE  Rows' /\ JobsStand
<1>1. CASE UNCHANGED vars \/ BaseStep \/ DeleteConversation
    BY <1>1, DocumentRows
<1>2. CASE DocumentStep
    BY <1>2, DocumentRows, JobRowsKept DEF DocumentStep
<1>3. ASSUME NEW r \in Requests, Request(r)
      PROVE  Rows' /\ JobsStand
    BY <1>3, RequestRows, JobRowsKept, ChatRows DEF Request
<1>4. CASE \E w \in Workers : Worker(w)
    BY <1>4, WorkerRows
<1>5. CASE \E r \in Requests, w \in Workers : BreakDeadlock(r, w)
    BY <1>5, DeadlockRows
<1> QED  BY <1>1, <1>2, <1>3, <1>4, <1>5 DEF Next

LEMMA RowsFirst == Init => Rows
<1> SUFFICES ASSUME Init PROVE Rows
    OBVIOUS
<1>1. \A S : <<>> \in Seq(S) /\ Len(<<>>) = 0 /\ DOMAIN <<>> = {}
    BY EmptySeq
<1>2. Off \in Stages /\ Off.at = "idle" /\ Idle \in TxRows /\ Idle.op = "none"
    BY <1>1, KnowledgeAssumption DEF Init, Off, Stages, Idle, TxRows
<1>3. Doc(CHOOSE b \in Bases : TRUE, "none") \in DocRows
    BY KnowledgeAssumption DEF Doc, DocRows, DocStates
<1>4. 0 \in 0 .. MaxRuns
    BY KnowledgeAssumption
<1>5. TypeOK
    BY <1>1, <1>2, <1>3, <1>4 DEF Init, TypeOK
<1>6. WorkersHaveJobs /\ OneWorkerPerJob /\ TurnsFit
    BY <1>2 DEF Init, WorkersHaveJobs, HasJob, OneWorkerPerJob, TurnsFit, TurnFits
<1> QED  BY <1>5, <1>6 DEF Rows

LEMMA RowsHold == Spec => []Rows
<1>1. Rows /\ [Next]_vars => Rows'
    BY RowsKept
<1> QED  BY <1>1, RowsFirst, PTL DEF Spec

(* Every table, the vector store, the workers and the requests in flight   *)
(* hold what their columns and the code admit.                             *)
THEOREM KnowledgeTypeCorrect == Spec => []TypeOK
<1>1. Rows => TypeOK
    BY DEF Rows
<1> QED  BY <1>1, RowsHold, PTL

-----------------------------------------------------------------------------
(* Citations.  Chunks are replaced under the lock of the document, which   *)
(* is not taken while a citation points to them; a citation is inserted    *)
(* while nobody replaces the chunks, and only if they are still there.     *)

Writing == {"flushed", "dropped", "upserted"}

(* A step after which nobody else replaces chunks.                         *)
LEMMA NobodyElseRewrites ==
    ASSUME Rows, JobsStand, RunsOn,
           \A w \in Workers : work'[w].at \in Writing => work[w].at \in Writing
    PROVE  \A w \in Workers, d \in Docs : Rewrites(w, d)' => Rewrites(w, d)
<1> SUFFICES ASSUME NEW w \in Workers, NEW d \in Docs, Rewrites(w, d)'
             PROVE  Rewrites(w, d)
    OBVIOUS
<1>1. work'[w].at \in Writing /\ jobs'[work'[w].job].doc = d
    BY DEF Rewrites, Writing
<1>2. work[w].at \in Writing /\ work[w].at # "idle" /\ work'[w].job = work[w].job
    BY <1>1 DEF RunsOn, Writing
<1>3. work[w].job \in DOMAIN jobs
    BY <1>2 DEF Rows, WorkersHaveJobs, HasJob
<1> QED  BY <1>1, <1>2, <1>3 DEF JobsStand, Rewrites, Writing

(* A step that writes no chunks and no citation.                           *)
LEMMA CitingAlone ==
    ASSUME Citing, UNCHANGED chunks,
           \A w \in Workers, d \in Docs : Rewrites(w, d)' => Rewrites(w, d),
           \A a \in DOMAIN answers' : \A c \in answers'[a].cites :
               a \in DOMAIN answers /\ c \in answers[a].cites,
           \A r \in Requests : tx'[r].op = "answer" => tx'[r] = tx[r]
    PROVE  Citing'
<1>1. Alone /\ HeldChunksStay /\ CitedChunksStay
    BY DEF Citing
<1>2. \A d : Cited(d)' => Cited(d)
    BY DEF Cited
<1>3. \A r \in Requests : \A d : HoldsChunks(r, d)' => HoldsChunks(r, d)
    BY DEF HoldsChunks
<1>4. Alone'
    BY <1>1, <1>2, <1>3 DEF Alone
<1>5. HeldChunksStay' /\ CitedChunksStay'
    BY <1>1 DEF HeldChunksStay, CitedChunksStay
<1> QED  BY <1>4, <1>5 DEF Citing

(* A step that leaves chunks, workers and answers alone.                   *)
LEMMA CitingElsewhere ==
    ASSUME Rows, Citing, JobsStand, UNCHANGED <<chunks, work, answers>>,
           \A r \in Requests : tx'[r].op = "answer" => tx'[r] = tx[r]
    PROVE  Citing'
<1>1. \A w \in Workers, d \in Docs : Rewrites(w, d)' => Rewrites(w, d)
    BY NobodyElseRewrites DEF RunsOn
<1> QED  BY <1>1, CitingAlone

(* A worker begins to replace the chunks of a document.                    *)
LEMMA FlushCiting ==
    ASSUME Rows, Citing, NEW w \in Workers, Flush(w)
    PROVE  Citing'
<1>1. TypeOK /\ Alone /\ HeldChunksStay /\ CitedChunksStay
    BY DEF Citing, Rows
<1>2. PICK d \in Docs : d = DocOf(w)
    BY <1>1, RowsAre DEF Flush, Rows, WorkersHaveJobs, HasJob, DocOf
<1>3. /\ DocFree(d) /\ ~Cited(d) /\ \A r \in Requests : ~HoldsChunks(r, d)
      /\ UNCHANGED <<chunks, jobs, answers, tx>> /\ work[w].at # "idle" /\ Goto(w, "flushed")
    BY <1>2 DEF Flush, storeVars, chatVars
<1>4. /\ work'[w].job = work[w].job /\ \A v \in Workers \ {w} : work'[v] = work[v]
    BY <1>1, <1>3, WorkerMoves
<1>5. \A v \in Workers, e \in Docs : Rewrites(v, e)' => Rewrites(v, e) \/ (v = w /\ e = d)
    BY <1>2, <1>3, <1>4 DEF Rewrites, DocOf
<1>6. \A v \in Workers : ~Rewrites(v, d)
    BY <1>3 DEF DocFree
<1>7. \A e : (Cited(e)' <=> Cited(e)) /\ \A r \in Requests : HoldsChunks(r, e)' <=> HoldsChunks(r, e)
    BY <1>3 DEF Cited, HoldsChunks
<1>8. Alone'
    <2> SUFFICES ASSUME NEW v \in Workers, NEW e \in Docs, Rewrites(v, e)'
                 PROVE  /\ ~Cited(e)' /\ \A r \in Requests : ~HoldsChunks(r, e)'
                        /\ \A u \in Workers : Rewrites(u, e)' => u = v
        BY DEF Alone
    <2>1. CASE v = w /\ e = d
        BY <1>3, <1>5, <1>6, <1>7, <2>1
    <2>2. CASE Rewrites(v, e)
        <3>1. e # d
            BY <1>6, <2>2
        <3> QED  BY <1>1, <1>5, <1>7, <2>2, <3>1 DEF Alone
    <2> QED  BY <1>5, <2>1, <2>2
<1> QED  BY <1>1, <1>3, <1>8 DEF Citing, HeldChunksStay, CitedChunksStay

(* A worker ends, with the chunks it replaced or as it was.                *)
LEMMA ChunksReplaced ==
    ASSUME Rows, Citing, NEW w \in Workers, Finish(w) \/ Fail(w), Rows', JobsStand
    PROVE  Citing'
<1>1. TypeOK /\ Alone /\ HeldChunksStay /\ CitedChunksStay
    BY DEF Citing, Rows
<1>2. work[w].at # "idle" /\ work' = [work EXCEPT ![w] = Off] /\ UNCHANGED <<answers, tx>>
    BY DEF Finish, Fail, chatVars
<1>3. RunsOn /\ work'[w].at = "idle" /\ \A v \in Workers \ {w} : work'[v] = work[v]
    BY <1>1, <1>2, WorkerLeaves
<1>4. \A v \in Workers, d \in Docs : Rewrites(v, d)' => Rewrites(v, d)
    BY <1>3, NobodyElseRewrites DEF Writing
<1>5. PICK d \in Docs : d = DocOf(w)
    BY <1>1, <1>2, RowsAre DEF Rows, WorkersHaveJobs, HasJob, DocOf
<1>6. CASE work[w].at = "claimed"
    <2>1. UNCHANGED chunks
        BY <1>1, <1>5, <1>6 DEF Finish, Fail, TypeOK
    <2> QED  BY <1>2, <1>4, <2>1, CitingAlone
<1>7. CASE work[w].at # "claimed"
    <2>1. Rewrites(w, d) /\ \A e \in Docs \ {d} : chunks'[e] = chunks[e]
        <3>1. work[w].at \in {"flushed", "dropped", "upserted"}
            BY <1>1, <1>2, <1>7, RowsAre DEF Stages
        <3>2. Rewrites(w, d)
            BY <1>5, <3>1 DEF Rewrites, DocOf
        <3>3. \A e \in Docs \ {d} : chunks'[e] = chunks[e]
            BY <1>1, <1>5, <1>7 DEF Finish, Fail, DocOf, TypeOK
        <3> QED  BY <3>2, <3>3
    <2>2. ~Cited(d) /\ \A r \in Requests : ~HoldsChunks(r, d)
        BY <1>1, <2>1 DEF Alone
    <2>3. ASSUME NEW a \in DOMAIN answers, NEW c \in answers[a].cites
          PROVE  chunks'[c[1]] = c[2]
        <3>1. c[1] \in Docs /\ c[1] # d
            BY <1>1, <2>2, <2>3, RowsAre DEF AnswerRows, Citations, Cited
        <3> QED  BY <1>1, <2>1, <2>3, <3>1 DEF CitedChunksStay
    <2>4. ASSUME NEW r \in Requests, tx[r].op = "answer", NEW c \in tx[r].cites
          PROVE  chunks'[c[1]] = c[2]
        <3>1. c[1] \in Docs /\ c[1] # d
            BY <1>1, <2>2, <2>4, RowsAre DEF TxRows, Citations, HoldsChunks
        <3> QED  BY <1>1, <2>1, <2>4, <3>1 DEF HeldChunksStay
    <2>5. \A e : (Cited(e)' <=> Cited(e)) /\ \A r \in Requests : HoldsChunks(r, e)' <=> HoldsChunks(r, e)
        BY <1>2 DEF Cited, HoldsChunks
    <2>6. Alone'
        BY <1>1, <1>4, <2>5 DEF Alone
    <2> QED  BY <1>2, <2>3, <2>4, <2>6 DEF Citing, HeldChunksStay, CitedChunksStay
<1> QED  BY <1>6, <1>7

(* The citations of an answer are inserted, and committed.                 *)
LEMMA AnswerCiting ==
    ASSUME Rows, Citing, NEW r \in Requests, Cite(r) \/ Answer(r) \/ StartStream(r)
    PROVE  Citing'
<1>1. TypeOK /\ Alone /\ HeldChunksStay /\ CitedChunksStay /\ TurnsFit
    BY DEF Citing, Rows
<1>2. /\ tx[r].op \in {"ask", "answer"} /\ tx[r].turn \in 0 .. Len(answers)
      /\ tx[r].cites \in Citations
    BY <1>1, RowsAre DEF Cite, Answer, StartStream, TurnsFit, TurnFits, TxRows
<1>3. /\ \A c \in tx[r].cites : chunks[c[1]] = c[2] /\ c[1] \in Docs
      /\ \A w \in Workers, d \in Docs : Rewrites(w, d) => ~\E c \in tx[r].cites : c[1] = d
    <2>1. CASE tx[r].op = "ask"
        BY <1>2, <2>1 DEF Cite, Answer, StartStream, MayCite, Waits, Citations
    <2>2. CASE tx[r].op = "answer"
        BY <1>1, <1>2, <2>2 DEF Alone, HoldsChunks, HeldChunksStay, Citations
    <2> QED  BY <1>2, <2>1, <2>2
<1>4. UNCHANGED <<chunks, jobs, work>>
    BY DEF Cite, Answer, StartStream, storeVars, workerVars
<1>5. \A w \in Workers, d \in Docs : Rewrites(w, d)' <=> Rewrites(w, d)
    BY <1>4 DEF Rewrites
<1>6. \A a \in DOMAIN answers' : \A c \in answers'[a].cites :
          c \in tx[r].cites \/ (a \in DOMAIN answers /\ c \in answers[a].cites)
    <2>1. CASE Cite(r)
        BY <2>1 DEF Cite, chatVars
    <2>2. CASE Answer(r)
        <3>1. PICK st \in AnswerStates : answers' = Put(tx[r].turn, st, tx[r].cites)
            BY <2>2 DEF Answer, Outcome, AnswerStates
        <3> QED  BY <1>1, <1>2, <3>1, AnswerPut
    <2>3. CASE StartStream(r)
        <3>1. PICK st : st = IF tx[r].turn = 0 THEN "pending" ELSE answers[tx[r].turn].st
            OBVIOUS
        <3>2. st \in AnswerStates /\ answers' = Put(tx[r].turn, st, tx[r].cites)
            BY <1>1, <1>2, <2>3, <3>1, RowsAre DEF StartStream, AnswerStates, AnswerRows
        <3> QED  BY <1>1, <1>2, <3>2, AnswerPut
    <2> QED  BY <2>1, <2>2, <2>3
<1>7. \A s \in Requests : tx'[s].op = "answer" =>
          tx'[s] = tx[s] \/ tx'[s].cites = tx[r].cites
    <2>1. CASE Cite(r)
        <3>1. tx'[r].cites = tx[r].cites /\ \A s \in Requests \ {r} : tx'[s] = tx[s]
            BY <1>1, <2>1, RowsAre DEF Cite, TypeOK, TxRows
        <3> QED  BY <3>1
    <2>2. CASE Answer(r) \/ StartStream(r)
        BY <1>1, <2>2 DEF Answer, StartStream, End, Idle, TypeOK
    <2> QED  BY <2>1, <2>2
<1>8. Alone'
    <2> SUFFICES ASSUME NEW w \in Workers, NEW d \in Docs, Rewrites(w, d)'
                 PROVE  /\ ~Cited(d)' /\ \A s \in Requests : ~HoldsChunks(s, d)'
                        /\ \A u \in Workers : Rewrites(u, d)' => u = w
        BY DEF Alone
    <2>1. /\ Rewrites(w, d) /\ ~Cited(d) /\ \A s \in Requests : ~HoldsChunks(s, d)
          /\ \A u \in Workers : Rewrites(u, d)' => u = w
        BY <1>1, <1>5 DEF Alone
    <2>2. ~Cited(d)'
        BY <1>3, <1>6, <2>1 DEF Cited
    <2>3. \A s \in Requests : ~HoldsChunks(s, d)'
        BY <1>3, <1>7, <2>1 DEF HoldsChunks
    <2> QED  BY <2>1, <2>2, <2>3
<1>9. HeldChunksStay' /\ CitedChunksStay'
    BY <1>1, <1>3, <1>4, <1>6, <1>7 DEF HeldChunksStay, CitedChunksStay
<1> QED  BY <1>8, <1>9 DEF Citing

(* Every other step writes no chunks and no citation.                      *)
LEMMA CitingKept ==
    ASSUME Rows, Citing, [Next]_vars
    PROVE  Citing'
<1>1. TypeOK /\ Rows' /\ JobsStand
    BY RowsKept DEF Rows
<1>2. CASE UNCHANGED vars \/ BaseStep \/ DocumentStep \/ DeleteConversation
    <2>1. UNCHANGED <<chunks, work, answers, tx>>
        BY <1>2 DEF vars, BaseStep, CreateBase, UpdateBase, DeleteBase, DocumentStep, Publish,
                    Deactivate, Expire, Retry, DeleteConversation, storeVars, workerVars,
                    chatVars
    <2> QED  BY <1>1, <2>1, CitingElsewhere
<1>3. ASSUME NEW r \in Requests, Request(r)
      PROVE  Citing'
    <2>1. CASE Cite(r) \/ Answer(r) \/ StartStream(r)
        BY <2>1, AnswerCiting
    <2>2. CASE EndStream(r)
        <3>1. PICK st \in AnswerStates :
                  answers' = [answers EXCEPT ![tx[r].turn].st = st] /\ End(r)
            BY <2>2 DEF EndStream, Outcome, AnswerStates
        <3>2. tx[r].turn \in DOMAIN answers
            BY <1>1, <2>2, RowsAre DEF EndStream, Rows, TurnsFit, TurnFits
        <3>3. /\ DOMAIN answers' = DOMAIN answers
              /\ \A a \in DOMAIN answers : answers'[a].cites = answers[a].cites
            BY <1>1, <3>1, <3>2, AnswerEnds
        <3>4. \A s \in Requests : tx'[s].op = "answer" => tx'[s] = tx[s]
            BY <1>1, <3>1, TxEnds
        <3>5. UNCHANGED <<chunks, work>>
            BY <2>2 DEF EndStream, storeVars, workerVars
        <3>6. \A w \in Workers, d \in Docs : Rewrites(w, d)' => Rewrites(w, d)
            BY <1>1, <3>5, NobodyElseRewrites DEF RunsOn
        <3> QED  BY <3>3, <3>4, <3>5, <3>6, CitingAlone
    <2>3. CASE \/ \E d \in Docs, b \in Bases : SaveUpload(r, d, b)
               \/ \E d \in Docs : LockDelete(r, d)
               \/ \E turn \in 0 .. Len(answers), found \in SUBSET Docs : Ask(r, turn, found)
        <3>1. PICK t : tx' = [tx EXCEPT ![r] = t] /\ t.op # "answer"
            <4>1. ASSUME NEW d \in Docs, NEW b \in Bases, SaveUpload(r, d, b)
                  PROVE  \E t : tx' = [tx EXCEPT ![r] = t] /\ t.op # "answer"
                <5>1. PICK t : t = [op |-> "upload", doc |-> d, base |-> b]
                    OBVIOUS
                <5>2. tx' = [tx EXCEPT ![r] = t] /\ t.op = "upload"
                    BY <4>1, <5>1 DEF SaveUpload
                <5> QED  BY <5>2
            <4>2. ASSUME NEW d \in Docs, LockDelete(r, d)
                  PROVE  \E t : tx' = [tx EXCEPT ![r] = t] /\ t.op # "answer"
                <5>1. PICK t : t = [op |-> "delete", doc |-> d]
                    OBVIOUS
                <5>2. tx' = [tx EXCEPT ![r] = t] /\ t.op = "delete"
                    BY <4>2, <5>1 DEF LockDelete
                <5> QED  BY <5>2
            <4>3. ASSUME NEW turn, NEW found, Ask(r, turn, found)
                  PROVE  \E t : tx' = [tx EXCEPT ![r] = t] /\ t.op # "answer"
                <5>1. PICK t : t = [op |-> "ask", turn |-> turn,
                                    cites |-> {<<d, chunks[d]>> : d \in found}]
                    OBVIOUS
                <5>2. tx' = [tx EXCEPT ![r] = t] /\ t.op = "ask"
                    BY <4>3, <5>1 DEF Ask
                <5> QED  BY <5>2
            <4> QED  BY <2>3, <4>1, <4>2, <4>3
        <3>2. UNCHANGED <<chunks, work, answers>>
            BY <2>3 DEF SaveUpload, LockDelete, Ask, storeVars, workerVars, chatVars
        <3>3. \A s \in Requests : tx'[s].op = "answer" => tx'[s] = tx[s]
            BY <1>1, <3>1 DEF TypeOK
        <3> QED  BY <1>1, <3>2, <3>3, CitingElsewhere
    <2>4. CASE CommitUpload(r) \/ FailUpload(r) \/ LoseUpload(r) \/ Delete(r) \/ GiveUp(r)
        <3>1. End(r) /\ UNCHANGED <<chunks, work, answers>>
            BY <2>4 DEF CommitUpload, FailUpload, LoseUpload, Delete, GiveUp, storeVars,
                        workerVars, chatVars
        <3>2. \A s \in Requests : tx'[s].op = "answer" => tx'[s] = tx[s]
            BY <1>1, <3>1, TxEnds
        <3> QED  BY <1>1, <3>1, <3>2, CitingElsewhere
    <2> QED  BY <1>3, <2>1, <2>2, <2>3, <2>4 DEF Request
<1>4. ASSUME NEW w \in Workers, Worker(w)
      PROVE  Citing'
    <2>1. ASSUME UNCHANGED <<chunks, answers, tx>>, NEW v \in Workers,
                 \A u \in Workers \ {v} : work'[u] = work[u],
                 work'[v].at \in Writing => work[v].at \in Writing /\ work'[v].job = work[v].job
          PROVE  Citing'
        <3>1. \A u \in Workers, d \in Docs : Rewrites(u, d)' => Rewrites(u, d)
            <4> SUFFICES ASSUME NEW u \in Workers, NEW d \in Docs, Rewrites(u, d)'
                         PROVE  Rewrites(u, d)
                OBVIOUS
            <4>1. work'[u].at \in Writing /\ jobs'[work'[u].job].doc = d
                BY DEF Rewrites, Writing
            <4>2. work[u].at \in Writing /\ work'[u].job = work[u].job
                BY <2>1, <4>1
            <4>3. work[u].job \in DOMAIN jobs
                BY <4>2 DEF Rows, WorkersHaveJobs, HasJob, Writing
            <4> QED  BY <1>1, <4>1, <4>2, <4>3 DEF JobsStand, Rewrites, Writing
        <3> QED  BY <2>1, <3>1, CitingAlone
    <2>2. CASE Claim(w)
        <3>1. work'[w].at = "claimed" /\ \A v \in Workers \ {w} : work'[v] = work[v]
            BY <1>1, <2>2, WorkerClaims
        <3>2. UNCHANGED <<chunks, answers, tx>>
            BY <2>2 DEF Claim, storeVars, chatVars
        <3> QED  BY <2>1, <3>1, <3>2 DEF Writing
    <2>3. CASE Flush(w)
        BY <2>3, FlushCiting
    <2>4. CASE RefusedByCitation(w) \/ Crash(w)
        <3>1. work' = [work EXCEPT ![w] = Off] /\ UNCHANGED <<chunks, answers, tx>>
            BY <2>4 DEF RefusedByCitation, Crash, storeVars, chatVars
        <3>2. work'[w].at = "idle" /\ \A v \in Workers \ {w} : work'[v] = work[v]
            BY <1>1, <3>1, WorkerLeaves
        <3> QED  BY <2>1, <3>1, <3>2 DEF Writing
    <2>5. CASE DropVectors(w) \/ Upsert(w)
        <3>1. PICK stage \in {"dropped", "upserted"} : Goto(w, stage)
            BY <2>5 DEF DropVectors, Upsert
        <3>2. work[w].at \in Writing /\ work[w].at # "idle" /\ UNCHANGED <<chunks, answers, tx>>
            BY <2>5 DEF DropVectors, Upsert, Writing, chatVars
        <3>3. work'[w].job = work[w].job /\ \A v \in Workers \ {w} : work'[v] = work[v]
            BY <1>1, <3>1, <3>2, WorkerMoves
        <3> QED  BY <2>1, <3>2, <3>3
    <2>6. CASE Finish(w) \/ Fail(w)
        BY <1>1, <2>6, ChunksReplaced
    <2> QED  BY <1>4, <2>2, <2>3, <2>4, <2>5, <2>6 DEF Worker
<1>5. ASSUME NEW r \in Requests, NEW w \in Workers, BreakDeadlock(r, w)
      PROVE  Citing'
    <2>1. UNCHANGED <<chunks, answers>> /\ RunsOn
        BY <1>5, DeadlockRows DEF BreakDeadlock, storeVars, chatVars
    <2>2. \A v \in Workers : work'[v].at \in Writing => work[v].at \in Writing
        BY <1>1, <1>5, WorkerLeaves DEF BreakDeadlock, Writing
    <2>3. \A s \in Requests : tx'[s].op = "answer" => tx'[s] = tx[s]
        BY <1>1, <1>5, TxEnds DEF BreakDeadlock
    <2>4. \A v \in Workers, d \in Docs : Rewrites(v, d)' => Rewrites(v, d)
        BY <1>1, <2>1, <2>2, NobodyElseRewrites
    <2> QED  BY <2>1, <2>3, <2>4, CitingAlone
<1> QED  BY <1>2, <1>3, <1>4, <1>5 DEF Next

LEMMA CitingFirst == Init => Citing
<1> SUFFICES ASSUME Init PROVE Citing
    OBVIOUS
<1>1. /\ DOMAIN answers = {} /\ \A w \in Workers : work[w].at = "idle"
      /\ \A r \in Requests : tx[r].op = "none"
    BY EmptySeq DEF Init, Off, Idle
<1> QED  BY <1>1 DEF Citing, Alone, HeldChunksStay, CitedChunksStay, Rewrites

(* The chunks an answer cites stay in the database, for any documents,     *)
(* workers and requests, and whatever the vector store does.               *)
THEOREM CitationsKept == Spec => []CitedChunksStay
<1>1. Rows /\ Citing /\ [Next]_vars => Citing'
    BY CitingKept
<1>2. Citing => CitedChunksStay
    BY DEF Citing
<1> QED  BY <1>1, <1>2, CitingFirst, RowsHold, PTL DEF Spec

-----------------------------------------------------------------------------
(* The index.  A document has one job until it is deleted, and is pending  *)
(* while that job is queued: who publishes it finds what the job stored.   *)

(* A step that leaves documents, jobs, chunks and vectors alone, and gives *)
(* no worker more than it had stored.                                      *)
LEMMA IndexAlone ==
    ASSUME Rows, JobsFit, StoredVectors, Searchable,
           UNCHANGED <<docs, jobs, chunks, indexed, vectors, lost>>,
           \A w \in Workers : work'[w].at = "upserted" => work'[w] = work[w]
    PROVE  JobsFit' /\ StoredVectors' /\ Searchable'
<1>1. JobsFit' /\ Searchable'
    BY DEF JobsFit, Searchable, IndexComplete
<1>2. StoredVectors'
    BY DEF StoredVectors, DocOf
<1> QED  BY <1>1, <1>2

(* A step that begins no upload and no deletion, and makes no document.    *)
LEMMA UploadsKept ==
    ASSUME TypeOK, Uploads, Deletions, UNCHANGED file,
           \A r \in Requests : tx'[r].op \in {"upload", "delete"} => tx'[r] = tx[r],
           \A d \in Docs : docs'[d].st = "none" <=> docs[d].st = "none"
    PROVE  Uploads' /\ Deletions'
<1>1. \A r \in Requests : tx[r].op \in {"upload", "delete"} => tx[r].doc \in Docs
    BY RowsAre DEF TxRows
<1> QED  BY <1>1 DEF Uploads, OneUpload, Uploading, Deletions

(* A request that saves, commits, fails or loses an upload.                *)
LEMMA UploadSteps ==
    ASSUME Rows, Indexing, NEW r \in Requests,
           \/ \E d \in Docs, b \in Bases : SaveUpload(r, d, b)
           \/ CommitUpload(r) \/ FailUpload(r) \/ LoseUpload(r)
    PROVE  Indexing'
<1>1. TypeOK /\ Uploads /\ Deletions /\ JobsFit /\ StoredVectors /\ Searchable
    BY DEF Rows, Indexing
<1>2. ASSUME NEW d \in Docs, NEW b \in Bases, SaveUpload(r, d, b)
      PROVE  Indexing'
    <2>1. PICK t : t = [op |-> "upload", doc |-> d, base |-> b]
        OBVIOUS
    <2>2. /\ tx' = [tx EXCEPT ![r] = t] /\ docs[d].st = "none" /\ ~file[d]
          /\ file' = [file EXCEPT ![d] = TRUE]
          /\ UNCHANGED <<docs, jobs, work, chunks, indexed, vectors, lost>>
        BY <1>2, <2>1 DEF SaveUpload, Stored, workerVars
    <2>3. t \in TxRows /\ t.op = "upload" /\ t.doc = d
        BY <2>1 DEF TxRows
    <2>4. tx'[r] = t /\ \A s \in Requests \ {r} : tx'[s] = tx[s]
        BY <1>1, <2>2, <2>3, TxGoes
    <2>5. \A e \in Docs : file'[e] <=> file[e] \/ e = d
        BY <1>1, <2>2 DEF TypeOK
    <2>6. ASSUME NEW s \in Requests \ {r}, tx[s].op = "upload"
          PROVE  tx[s].doc \in Docs \ {d} /\ file[tx[s].doc] /\ docs[tx[s].doc].st = "none"
        BY <1>1, <2>2, <2>6 DEF Uploads, Uploading, TypeOK, TxRows
    <2>7. Uploads' /\ Deletions'
        BY <1>1, <2>2, <2>3, <2>4, <2>5, <2>6
        DEF Uploads, OneUpload, Uploading, Deletions
    <2> QED  BY <1>1, <2>2, <2>7, IndexAlone DEF Indexing
<1>3. CASE FailUpload(r) \/ LoseUpload(r)
    <2>1. End(r) /\ UNCHANGED <<docs, jobs, work, chunks, indexed, vectors, lost>>
        BY <1>3 DEF FailUpload, LoseUpload, storeVars, workerVars
    <2>2. tx'[r].op = "none" /\ \A s \in Requests \ {r} : tx'[s] = tx[s]
        BY <1>1, <2>1, TxEnds
    <2>3. ASSUME NEW s \in Requests \ {r}, tx[s].op = "upload"
          PROVE  file'[tx[s].doc]
        <3>1. tx[r].op = "upload" /\ tx[r].doc # tx[s].doc /\ file[tx[s].doc]
            BY <1>1, <1>3, <2>3 DEF FailUpload, LoseUpload, Uploads, OneUpload, Uploading
        <3>2. PICK d \in Docs : d = tx[s].doc
            BY <1>1, <2>3, RowsAre DEF TxRows
        <3>3. file' = file \/ file' = [file EXCEPT ![tx[r].doc] = FALSE]
            BY <1>3 DEF FailUpload, LoseUpload, Erased, storeVars
        <3> QED  BY <1>1, <3>1, <3>2, <3>3 DEF TypeOK
    <2>4. Uploads' /\ Deletions'
        BY <1>1, <2>1, <2>2, <2>3 DEF Uploads, OneUpload, Uploading, Deletions
    <2> QED  BY <1>1, <2>1, <2>4, IndexAlone DEF Indexing
<1>4. CASE CommitUpload(r)
    <2>1. PICK d \in Docs : d = tx[r].doc
        BY <1>1, <1>4 DEF CommitUpload, TypeOK, TxRows
    <2>2. PICK e : e = Doc(tx[r].base, "pending")
        OBVIOUS
    <2>3. e.st = "pending" /\ ~e.deleted
        BY <2>2 DEF Doc
    <2>4. /\ docs' = [docs EXCEPT ![d] = e] /\ End(r) /\ docs[d].st = "none"
          /\ jobs' = Append(jobs, [doc |-> d, stage |-> "queued", attempt |-> 1,
                                   cleanup |-> FALSE])
          /\ UNCHANGED <<file, work, chunks, indexed, vectors, lost>>
        BY <1>1, <1>4, <2>1, <2>2
        DEF CommitUpload, storeVars, workerVars, Uploads, Uploading
    <2>5. docs'[d] = e /\ \A f \in Docs \ {d} : docs'[f] = docs[f]
        BY <1>1, <2>4 DEF TypeOK
    <2>6. tx'[r].op = "none" /\ \A s \in Requests \ {r} : tx'[s] = tx[s]
        BY <1>1, <2>4, TxEnds
    <2>7. PICK n : n = Len(jobs) + 1
        OBVIOUS
    <2>8. /\ JobsStand /\ DOMAIN jobs' = DOMAIN jobs \cup {n} /\ n \notin DOMAIN jobs
          /\ jobs'[n].doc = d /\ jobs'[n].stage = "queued"
          /\ \A i \in DOMAIN jobs : jobs'[i] = jobs[i]
        BY <1>1, <2>4, <2>7, JobAdded
    <2>9. \A i \in DOMAIN jobs : jobs[i].doc \in Docs \ {d}
        BY <1>1, <2>4, RowsAre DEF JobsFit
    <2>10. Uploads' /\ Deletions'
        <3>1. ASSUME NEW s \in Requests \ {r}, tx[s].op = "upload"
              PROVE  tx[s].doc \in Docs \ {d}
            BY <1>1, <1>4, <2>1, <3>1, RowsAre
            DEF CommitUpload, Uploads, OneUpload, TxRows
        <3>2. Uploads'
            BY <1>1, <2>4, <2>5, <2>6, <3>1 DEF Uploads, OneUpload, Uploading
        <3>3. \A s \in Requests \ {r} : tx[s].op = "delete" => tx[s].doc \in Docs
            BY <1>1, RowsAre DEF TxRows
        <3>4. Deletions'
            BY <1>1, <2>3, <2>5, <2>6, <3>3 DEF Deletions
        <3> QED  BY <3>2, <3>4
    <2>11. JobsFit'
        <3>1. ASSUME NEW j \in DOMAIN jobs'
              PROVE  /\ docs'[jobs'[j].doc].st # "none"
                     /\ ~docs'[jobs'[j].doc].deleted =>
                            /\ \A i \in DOMAIN jobs' : jobs'[i].doc = jobs'[j].doc => i = j
                            /\ jobs'[j].stage = "queued" => docs'[jobs'[j].doc].st = "pending"
            <4>1. CASE j = n
                BY <2>3, <2>5, <2>8, <2>9, <4>1
            <4>2. CASE j # n
                BY <1>1, <2>5, <2>8, <2>9, <4>2 DEF JobsFit
            <4> QED  BY <4>1, <4>2
        <3> QED  BY <3>1 DEF JobsFit
    <2>12. StoredVectors'
        BY <1>1, <2>4, <2>8 DEF StoredVectors, DocOf, Rows, WorkersHaveJobs, HasJob
    <2>13. Searchable'
        BY <1>1, <2>3, <2>4, <2>5 DEF Searchable, IndexComplete
    <2> QED  BY <2>10, <2>11, <2>12, <2>13 DEF Indexing
<1> QED  BY <1>2, <1>3, <1>4

(* A request that touches neither documents nor jobs.                      *)
LEMMA OtherRequests ==
    ASSUME Rows, Indexing, NEW r \in Requests,
           \/ \E d \in Docs : LockDelete(r, d)
           \/ \E turn \in 0 .. Len(answers), found \in SUBSET Docs : Ask(r, turn, found)
           \/ Cite(r) \/ Answer(r) \/ StartStream(r) \/ EndStream(r) \/ GiveUp(r)
    PROVE  Indexing'
<1>1. TypeOK /\ Uploads /\ Deletions /\ JobsFit /\ StoredVectors /\ Searchable
    BY DEF Rows, Indexing
<1>2. UNCHANGED <<docs, file, chunks, indexed, vectors, lost, jobs, work>>
    BY DEF LockDelete, Ask, Cite, Answer, StartStream, EndStream, GiveUp, storeVars, workerVars
<1>3. CASE \E d \in Docs : LockDelete(r, d)
    <2>1. PICK d \in Docs : LockDelete(r, d)
        BY <1>3
    <2>2. PICK t : t = [op |-> "delete", doc |-> d]
        OBVIOUS
    <2>3. t \in TxRows /\ t.op = "delete" /\ t.doc = d /\ docs[d].st # "none"
          /\ tx' = [tx EXCEPT ![r] = t]
        BY <2>1, <2>2 DEF LockDelete, TxRows, Owned
    <2>4. tx'[r] = t /\ \A s \in Requests \ {r} : tx'[s] = tx[s]
        BY <1>1, <2>3, TxGoes
    <2> QED  BY <1>1, <1>2, <2>3, <2>4, IndexAlone
             DEF Indexing, Uploads, OneUpload, Uploading, Deletions
<1>4. CASE ~\E d \in Docs : LockDelete(r, d)
    <2>1. \A s \in Requests : tx'[s].op \in {"upload", "delete"} => tx'[s] = tx[s]
        <3>1. CASE Answer(r) \/ EndStream(r) \/ GiveUp(r)
            BY <1>1, <3>1, TxEnds DEF Answer, EndStream, GiveUp
        <3>2. ASSUME NEW turn, NEW found, Ask(r, turn, found)
              PROVE  <2>1!:
            BY <1>1, <3>2 DEF Ask, TypeOK
        <3>3. CASE Cite(r)
            <4>1. PICK t : t = [tx[r] EXCEPT !.op = "answer"]
                OBVIOUS
            <4>2. t.op = "answer" /\ tx' = [tx EXCEPT ![r] = t]
                BY <1>1, <3>3, <4>1, RowsAre DEF Cite, TxRows
            <4> QED  BY <1>1, <4>2 DEF TypeOK
        <3>4. CASE StartStream(r)
            BY <1>1, <3>4 DEF StartStream, TypeOK
        <3> QED  BY <1>4, <3>1, <3>2, <3>3, <3>4
    <2>2. Uploads' /\ Deletions'
        BY <1>1, <1>2, <2>1, UploadsKept
    <2> QED  BY <1>1, <1>2, <2>2, IndexAlone DEF Indexing
<1> QED  BY <1>3, <1>4

(* A deletion: whatever its jobs do, nothing is said of the document.      *)
LEMMA DeleteStep ==
    ASSUME Rows, Indexing, NEW r \in Requests, Delete(r)
    PROVE  Indexing'
<1>1. TypeOK /\ Uploads /\ Deletions /\ JobsFit /\ StoredVectors /\ Searchable
    BY DEF Rows, Indexing
<1>2. PICK d \in Docs : d = tx[r].doc
    BY <1>1 DEF Delete, TypeOK, TxRows
<1>3. PICK e : e = [docs[d] EXCEPT !.st = "deleted", !.deleted = TRUE]
    OBVIOUS
<1>4. e.st = "deleted" /\ e.deleted
    BY <1>1, <1>3, RowsAre DEF DocRows
<1>5. /\ docs' = [docs EXCEPT ![d] = e] /\ End(r) /\ docs[d].st # "none"
      /\ UNCHANGED <<file, work, chunks, indexed, vectors, lost>>
    BY <1>1, <1>2, <1>3 DEF Delete, Deletions, storeVars, workerVars
<1>6. docs'[d] = e /\ \A f \in Docs \ {d} : docs'[f] = docs[f]
    BY <1>1, <1>5 DEF TypeOK
<1>7. PICK n : n = Len(jobs) + 1
    OBVIOUS
<1>8. /\ JobsStand /\ DOMAIN jobs' = DOMAIN jobs \cup {n} /\ jobs'[n].doc = d
      /\ \A i \in DOMAIN jobs \ Pending(d) : jobs'[i] = jobs[i]
    BY <1>1, <1>2, <1>7, JobsFailed DEF Delete
<1>9. \A i \in DOMAIN jobs : jobs'[i].doc = jobs[i].doc /\ jobs[i].doc \in Docs
    BY <1>1, <1>8, RowsAre DEF JobsStand
<1>10. Uploads' /\ Deletions'
    <2>1. \A s \in Requests : tx'[s].op \in {"upload", "delete"} => tx'[s] = tx[s]
        BY <1>1, <1>5, TxEnds
    <2> QED  BY <1>1, <1>4, <1>5, <1>6, <2>1, UploadsKept
<1>11. JobsFit'
    <2>1. ASSUME NEW j \in DOMAIN jobs'
          PROVE  /\ docs'[jobs'[j].doc].st # "none"
                 /\ ~docs'[jobs'[j].doc].deleted =>
                        /\ \A i \in DOMAIN jobs' : jobs'[i].doc = jobs'[j].doc => i = j
                        /\ jobs'[j].stage = "queued" => docs'[jobs'[j].doc].st = "pending"
        <3>1. CASE jobs'[j].doc = d
            BY <1>4, <1>6, <3>1
        <3>2. CASE jobs'[j].doc # d
            <4>1. j \in DOMAIN jobs \ Pending(d) /\ jobs[j].doc # d
                BY <1>8, <1>9, <3>2 DEF Pending
            <4>2. \A i \in DOMAIN jobs' : jobs'[i].doc = jobs'[j].doc => i \in DOMAIN jobs
                BY <1>8, <3>2
            <4> QED  BY <1>1, <1>6, <1>8, <1>9, <4>1, <4>2 DEF JobsFit
        <3> QED  BY <3>1, <3>2
    <2> QED  BY <2>1 DEF JobsFit
<1>12. StoredVectors'
    BY <1>1, <1>5, <1>9 DEF StoredVectors, DocOf, Rows, WorkersHaveJobs, HasJob
<1>13. Searchable'
    BY <1>1, <1>4, <1>5, <1>6 DEF Searchable, IndexComplete
<1> QED  BY <1>10, <1>11, <1>12, <1>13 DEF Indexing

(* A document is published, taken back, or expires; what is ready or       *)
(* published has no job in the queue.                                      *)
LEMMA DocumentSteps ==
    ASSUME Rows, Indexing, NEW d \in Docs, Publish(d) \/ Deactivate(d) \/ Expire(d)
    PROVE  Indexing'
<1>1. TypeOK /\ Uploads /\ Deletions /\ JobsFit /\ StoredVectors /\ Searchable
    BY DEF Rows, Indexing
<1>2. UNCHANGED <<file, chunks, indexed, vectors, lost, jobs, work, tx>>
    BY DEF Publish, Deactivate, Expire, storeVars, workerVars
<1>3. /\ docs'[d].deleted = docs[d].deleted /\ \A e \in Docs \ {d} : docs'[e] = docs[e]
      /\ \/ docs'[d].st = docs[d].st
         \/ /\ docs[d].st \in {"ready", "inactive", "published"} /\ ~docs[d].deleted
            /\ docs'[d].st \in {"inactive", "published"}
    <2>1. CASE Publish(d) \/ Deactivate(d)
        <3>1. PICK st \in {"inactive", "published"} :
                  /\ docs' = [docs EXCEPT ![d].st = st] /\ ~docs[d].deleted
                  /\ docs[d].st \in {"ready", "inactive", "published"}
            BY <2>1 DEF Publish, Deactivate, Owned
        <3>2. st \in DocStates
            BY DEF DocStates
        <3> QED  BY <1>1, <3>1, <3>2, DocWritten
    <2>2. CASE Expire(d)
        <3>1. PICK e : e = [docs[d] EXCEPT !.expired = TRUE]
            OBVIOUS
        <3>2. e.st = docs[d].st /\ e.deleted = docs[d].deleted /\ docs' = [docs EXCEPT ![d] = e]
            BY <1>1, <2>2, <3>1, RowsAre DEF DocRows, Expire
        <3> QED  BY <1>1, <3>2 DEF TypeOK
    <2> QED  BY <2>1, <2>2
<1>4. Uploads' /\ Deletions'
    BY <1>1, <1>2, <1>3, UploadsKept
<1>5. JobsFit'
    <2>1. ASSUME NEW j \in DOMAIN jobs
          PROVE  /\ docs'[jobs[j].doc].st # "none"
                 /\ ~docs'[jobs[j].doc].deleted =>
                        /\ \A i \in DOMAIN jobs : jobs[i].doc = jobs[j].doc => i = j
                        /\ jobs[j].stage = "queued" => docs'[jobs[j].doc].st = "pending"
        <3>1. jobs[j].doc \in Docs
            BY <1>1, RowsAre
        <3> QED  BY <1>1, <1>3, <3>1 DEF JobsFit
    <2> QED  BY <1>2, <2>1 DEF JobsFit
<1>6. StoredVectors'
    BY <1>1, <1>2 DEF StoredVectors, DocOf
<1>7. Searchable'
    BY <1>1, <1>2, <1>3 DEF Searchable, IndexComplete
<1> QED  BY <1>4, <1>5, <1>6, <1>7 DEF Indexing

(* A failed job is queued again, and its document waits for it.            *)
LEMMA RetryStep ==
    ASSUME Rows, Indexing, NEW j \in DOMAIN jobs, Retry(j), JobsStand
    PROVE  Indexing'
<1>1. TypeOK /\ Uploads /\ Deletions /\ JobsFit /\ StoredVectors /\ Searchable
    BY DEF Rows, Indexing
<1>2. PICK d \in Docs : d = jobs[j].doc
    BY <1>1, RowsAre
<1>3. /\ docs' = [docs EXCEPT ![d].st = "pending"] /\ ~docs[d].deleted /\ docs[d].st # "none"
      /\ UNCHANGED <<file, chunks, indexed, vectors, lost, work, tx>>
    BY <1>2 DEF Retry, Owned, storeVars, workerVars
<1>4. /\ docs'[d].st = "pending" /\ docs'[d].deleted = docs[d].deleted
      /\ \A e \in Docs \ {d} : docs'[e] = docs[e]
    BY <1>1, <1>3, DocWritten DEF DocStates
<1>5. DOMAIN jobs' = DOMAIN jobs /\ \A i \in DOMAIN jobs \ {j} : jobs'[i] = jobs[i]
    BY DEF Retry
<1>6. \A i \in DOMAIN jobs : jobs'[i].doc = jobs[i].doc /\ jobs[i].doc \in Docs
    BY <1>1, RowsAre DEF JobsStand
<1>7. Uploads' /\ Deletions'
    BY <1>1, <1>3, <1>4, UploadsKept
<1>8. JobsFit'
    <2>1. ASSUME NEW i \in DOMAIN jobs
          PROVE  /\ docs'[jobs[i].doc].st # "none"
                 /\ ~docs'[jobs[i].doc].deleted =>
                        /\ \A k \in DOMAIN jobs : jobs[k].doc = jobs[i].doc => k = i
                        /\ jobs'[i].stage = "queued" => docs'[jobs[i].doc].st = "pending"
        BY <1>1, <1>2, <1>3, <1>4, <1>5, <1>6 DEF JobsFit
    <2> QED  BY <1>5, <1>6, <2>1 DEF JobsFit
<1>9. StoredVectors'
    BY <1>1, <1>3, <1>6 DEF StoredVectors, DocOf, Rows, WorkersHaveJobs, HasJob
<1>10. Searchable'
    BY <1>1, <1>3, <1>4 DEF Searchable, IndexComplete
<1> QED  BY <1>7, <1>8, <1>9, <1>10 DEF Indexing

(* A worker stores what it indexes, and ends; nobody else has touched the  *)
(* vectors since, and the document was not to be found meanwhile.          *)
LEMMA WorkerSteps ==
    ASSUME Rows, Alone, Indexing, NEW w \in Workers, Worker(w)
    PROVE  Indexing'
<1>1. TypeOK /\ Uploads /\ Deletions /\ JobsFit /\ StoredVectors /\ Searchable
    BY DEF Rows, Indexing
<1>2. JobsStand /\ UNCHANGED <<file, tx>>
    BY WorkerRows DEF Worker, Claim, Flush, RefusedByCitation, DropVectors, Upsert, Finish, Fail,
                      Crash, storeVars
<1>3. ASSUME work[w].at # "idle"
      PROVE  \E d \in Docs, j \in DOMAIN jobs :
                 /\ d = DocOf(w) /\ j = work[w].job /\ jobs[j].doc = d
                 /\ jobs[j].stage = "queued" /\ work[w].gen \in Gens
    BY <1>1, <1>3, RowsAre, KnowledgeAssumption
    DEF Rows, WorkersHaveJobs, HasJob, DocOf, TypeOK, Stages, Gens
<1>4. ASSUME UNCHANGED <<docs, jobs, chunks, indexed, vectors, lost>>,
             \A v \in Workers : work'[v].at = "upserted" => work'[v] = work[v]
      PROVE  Indexing'
    <2>1. Uploads' /\ Deletions'
        BY <1>1, <1>2, <1>4, UploadsKept
    <2> QED  BY <1>1, <1>4, <2>1, IndexAlone DEF Indexing
<1>5. CASE Claim(w)
    <2>1. work'[w].at = "claimed" /\ \A v \in Workers \ {w} : work'[v] = work[v]
        BY <1>1, <1>5, WorkerClaims
    <2> QED  BY <1>4, <1>5, <2>1 DEF Claim, storeVars
<1>6. CASE Flush(w)
    <2>1. work'[w].at = "flushed" /\ \A v \in Workers \ {w} : work'[v] = work[v]
        BY <1>1, <1>6, WorkerMoves DEF Flush
    <2> QED  BY <1>4, <1>6, <2>1 DEF Flush, storeVars
<1>7. CASE RefusedByCitation(w) \/ Crash(w)
    <2>1. work'[w].at = "idle" /\ \A v \in Workers \ {w} : work'[v] = work[v]
        BY <1>1, <1>7, WorkerLeaves DEF RefusedByCitation, Crash
    <2> QED  BY <1>4, <1>7, <2>1 DEF RefusedByCitation, Crash, storeVars
<1>8. ASSUME NEW d \in Docs, d = DocOf(w), work[w].at \in Writing,
             NEW v \in Workers \ {w}, work[v].at = "upserted"
      PROVE  DocOf(v) # d
    BY <1>8 DEF Alone, Rewrites, DocOf, Writing
<1>9. CASE DropVectors(w) \/ Upsert(w)
    <2>1. work[w].at # "idle" /\ work[w].at \in Writing /\ UNCHANGED <<docs, jobs, chunks, indexed>>
        BY <1>9 DEF DropVectors, Upsert, Writing
    <2>2. PICK d \in Docs, j \in DOMAIN jobs :
              /\ d = DocOf(w) /\ j = work[w].job /\ jobs[j].doc = d /\ jobs[j].stage = "queued"
        BY <1>3, <2>1
    <2>3. PICK stage \in {"dropped", "upserted"} :
              /\ Goto(w, stage) /\ (stage = "upserted" <=> Upsert(w))
        BY <1>9 DEF DropVectors, Upsert
    <2>4. /\ work'[w].at = stage /\ work'[w].job = j /\ work'[w].gen = work[w].gen
          /\ \A v \in Workers \ {w} : work'[v] = work[v]
        BY <1>1, <2>1, <2>2, <2>3, WorkerMoves
    <2>5. /\ \A e \in Docs \ {d} : vectors'[e] = vectors[e]
          /\ lost \subseteq lost'
          /\ Upsert(w) => work[w].gen \in vectors'[d] \cup lost'
        <3>1. CASE DropVectors(w)
            <4>1. PICK kept \in SUBSET vectors[d] : vectors' = [vectors EXCEPT ![d] = kept]
                BY <2>2, <3>1 DEF DropVectors
            <4>2. lost' = lost /\ ~Upsert(w)
                BY <3>1 DEF DropVectors, Upsert
            <4> QED  BY <1>1, <4>1, <4>2 DEF TypeOK
        <3>2. CASE Upsert(w)
            <4>1. PICK refused \in SUBSET {work[w].gen} :
                      /\ vectors' = [vectors EXCEPT ![d] =
                                        vectors[d] \cup ({work[w].gen} \ refused)]
                      /\ lost' = lost \cup refused
                BY <2>2, <3>2 DEF Upsert
            <4> QED  BY <1>1, <4>1 DEF TypeOK
        <3> QED  BY <1>9, <3>1, <3>2
    <2>6. Uploads' /\ Deletions'
        BY <1>1, <1>2, <2>1, UploadsKept
    <2>7. JobsFit'
        BY <1>1, <2>1 DEF JobsFit
    <2>8. StoredVectors'
        <3> SUFFICES ASSUME NEW v \in Workers, work'[v].at = "upserted"
                     PROVE  work'[v].gen \in vectors'[DocOf(v)'] \cup lost'
            BY DEF StoredVectors
        <3>1. CASE v = w
            <4>1. DocOf(w)' = d
                BY <2>1, <2>2, <2>4 DEF DocOf
            <4> QED  BY <2>3, <2>4, <2>5, <3>1, <4>1
        <3>2. CASE v # w
            <4>1. DocOf(v)' = DocOf(v) /\ work[v].at = "upserted" /\ work'[v].gen = work[v].gen
                BY <2>1, <2>4, <3>2 DEF DocOf
            <4>2. DocOf(v) \in Docs \ {d}
                BY <1>1, <1>8, <2>1, <2>2, <3>2, <4>1, RowsAre
                DEF Rows, WorkersHaveJobs, HasJob, DocOf
            <4> QED  BY <1>1, <2>5, <4>1, <4>2 DEF StoredVectors
        <3> QED  BY <3>1, <3>2
    <2>9. docs[d].deleted \/ docs[d].st = "pending"
        BY <1>1, <2>2, RowsAre DEF JobsFit, DocRows
    <2>10. Searchable'
        BY <1>1, <2>1, <2>5, <2>9 DEF Searchable, IndexComplete
    <2> QED  BY <2>6, <2>7, <2>8, <2>10 DEF Indexing
<1>10. CASE Finish(w) \/ Fail(w)
    <2>1. PICK d \in Docs, j \in DOMAIN jobs :
              /\ d = DocOf(w) /\ j = work[w].job /\ jobs[j].doc = d /\ work[w].gen \in Gens
        BY <1>3, <1>10 DEF Finish, Fail
    <2>2. PICK st \in {"ready", "failed"}, stage \in Ended :
              /\ work' = [work EXCEPT ![w] = Off] /\ docs' = [docs EXCEPT ![d].st = st]
              /\ jobs' = [jobs EXCEPT ![j].stage = stage] /\ UNCHANGED <<vectors, lost>>
              /\ st = "ready" => Finish(w)
        BY <1>10, <2>1 DEF Finish, Fail, Ended
    <2>3. work'[w].at = "idle" /\ \A v \in Workers \ {w} : work'[v] = work[v]
        BY <1>1, <2>2, WorkerLeaves
    <2>4. /\ docs'[d].st = st /\ docs'[d].deleted = docs[d].deleted
          /\ \A e \in Docs \ {d} : docs'[e] = docs[e]
        BY <1>1, <2>2, DocWritten DEF DocStates
    <2>5. /\ DOMAIN jobs' = DOMAIN jobs /\ jobs'[j].stage # "queued"
          /\ \A i \in DOMAIN jobs \ {j} : jobs'[i] = jobs[i]
        BY <1>1, <2>2, JobWritten DEF Ended
    <2>6. \A i \in DOMAIN jobs : jobs'[i].doc = jobs[i].doc /\ jobs[i].doc \in Docs
        BY <1>1, <1>2, RowsAre DEF JobsStand
    <2>7. docs[d].st # "none" /\ st # "none"
        BY <1>1, <2>1 DEF JobsFit
    <2>8. Uploads' /\ Deletions'
        BY <1>1, <1>2, <2>4, <2>7, UploadsKept
    <2>9. JobsFit'
        <3>1. ASSUME NEW i \in DOMAIN jobs
              PROVE  /\ docs'[jobs[i].doc].st # "none"
                     /\ ~docs'[jobs[i].doc].deleted =>
                            /\ \A k \in DOMAIN jobs : jobs[k].doc = jobs[i].doc => k = i
                            /\ jobs'[i].stage = "queued" => docs'[jobs[i].doc].st = "pending"
            <4>1. CASE jobs[i].doc = d
                BY <1>1, <2>1, <2>4, <2>5, <2>7, <4>1 DEF JobsFit
            <4>2. CASE jobs[i].doc # d
                BY <1>1, <2>1, <2>4, <2>5, <2>6, <4>2 DEF JobsFit
            <4> QED  BY <4>1, <4>2
        <3> QED  BY <2>5, <2>6, <3>1 DEF JobsFit
    <2>10. StoredVectors'
        <3> SUFFICES ASSUME NEW v \in Workers, work'[v].at = "upserted"
                     PROVE  work'[v].gen \in vectors'[DocOf(v)'] \cup lost'
            BY DEF StoredVectors
        <3>1. work'[v] = work[v]
            BY <2>3
        <3>2. DocOf(v)' = DocOf(v)
            BY <2>6, <3>1 DEF DocOf, Rows, WorkersHaveJobs, HasJob
        <3> QED  BY <1>1, <2>2, <3>1, <3>2 DEF StoredVectors
    <2>11. \A e \in Docs \ {d} : chunks'[e] = chunks[e] /\ indexed'[e] = indexed[e]
        BY <1>1, <1>10, <2>1 DEF Finish, Fail, TypeOK
    <2>12. st = "ready" => indexed'[d] /\ chunks'[d] # 0 /\ chunks'[d] \in vectors[d] \cup lost
        BY <1>1, <2>1, <2>2, KnowledgeAssumption DEF Finish, StoredVectors, TypeOK, Gens
    <2>13. Searchable'
        BY <1>1, <2>2, <2>4, <2>11, <2>12 DEF Searchable, IndexComplete
    <2> QED  BY <2>8, <2>9, <2>10, <2>13 DEF Indexing
<1> QED  BY <1>5, <1>6, <1>7, <1>9, <1>10 DEF Worker

(* Every step keeps the index.                                             *)
LEMMA IndexingKept ==
    ASSUME Rows, Alone, Indexing, [Next]_vars
    PROVE  Indexing'
<1>1. TypeOK /\ Uploads /\ Deletions /\ JobsFit /\ StoredVectors /\ Searchable /\ JobsStand
    BY RowsKept DEF Rows, Indexing
<1>2. ASSUME UNCHANGED <<docs, file, jobs, chunks, indexed, vectors, lost>>,
             \A r \in Requests : tx'[r].op \in {"upload", "delete"} => tx'[r] = tx[r],
             \A w \in Workers : work'[w].at = "upserted" => work'[w] = work[w]
      PROVE  Indexing'
    <2>1. Uploads' /\ Deletions'
        BY <1>1, <1>2, UploadsKept
    <2> QED  BY <1>1, <1>2, <2>1, IndexAlone DEF Indexing
<1>3. CASE UNCHANGED vars \/ BaseStep \/ DeleteConversation
    <2>1. UNCHANGED <<docs, file, jobs, chunks, indexed, vectors, lost, work, tx>>
        BY <1>3 DEF vars, BaseStep, CreateBase, UpdateBase, DeleteBase, DeleteConversation,
                    storeVars, workerVars
    <2> QED  BY <1>2, <2>1
<1>4. CASE DocumentStep
    BY <1>1, <1>4, DocumentSteps, RetryStep DEF DocumentStep
<1>5. ASSUME NEW r \in Requests, Request(r)
      PROVE  Indexing'
    BY <1>5, UploadSteps, OtherRequests, DeleteStep DEF Request
<1>6. CASE \E w \in Workers : Worker(w)
    BY <1>6, WorkerSteps
<1>7. ASSUME NEW r \in Requests, NEW w \in Workers, BreakDeadlock(r, w)
      PROVE  Indexing'
    <2>1. UNCHANGED <<docs, file, jobs, chunks, indexed, vectors, lost>>
        BY <1>7 DEF BreakDeadlock, storeVars
    <2>2. \A s \in Requests : tx'[s].op \in {"upload", "delete"} => tx'[s] = tx[s]
        BY <1>1, <1>7, TxEnds DEF BreakDeadlock
    <2>3. \A v \in Workers : work'[v].at = "upserted" => work'[v] = work[v]
        BY <1>1, <1>7, WorkerLeaves DEF BreakDeadlock
    <2> QED  BY <1>2, <2>1, <2>2, <2>3
<1> QED  BY <1>3, <1>4, <1>5, <1>6, <1>7 DEF Next

LEMMA IndexingFirst == Init => Indexing
<1> SUFFICES ASSUME Init PROVE Indexing
    OBVIOUS
<1>1. /\ DOMAIN jobs = {} /\ \A w \in Workers : work[w].at = "idle"
      /\ \A r \in Requests : tx[r].op = "none"
      /\ \A d \in Docs : docs[d].st = "none"
    BY EmptySeq DEF Init, Off, Idle, Doc
<1> QED  BY <1>1 DEF Indexing, Uploads, OneUpload, Uploading, Deletions, JobsFit, StoredVectors,
                     Searchable

(* What is published can be found, for any documents, workers and requests *)
(* and with workers that fail or stop between the store and the database,  *)
(* but for what the store refused without an error.                        *)
THEOREM PublishedIsFound == Spec => []PublishedIsSearchable
<1>1. Rows /\ Citing /\ [Next]_vars => Citing'
    BY CitingKept
<1>2. Rows /\ Citing /\ Indexing /\ [Next]_vars => Indexing'
    BY IndexingKept DEF Citing
<1>3. ASSUME Rows, Indexing, NEW d \in Docs, docs[d].st = "published",
             NEW w \in Workers, Rewrites(w, d)
      PROVE  FALSE
    <2>1. work[w].job \in DOMAIN jobs /\ jobs[work[w].job].stage = "queued"
        BY <1>3 DEF Rewrites, Rows, WorkersHaveJobs, HasJob
    <2>2. docs[d].deleted \/ docs[d].st = "pending"
        BY <1>3, <2>1, RowsAre DEF Indexing, JobsFit, Rewrites, Rows, TypeOK, DocRows
    <2> QED  BY <1>3, <2>2 DEF Indexing, Searchable
<1>4. Rows /\ Indexing => PublishedIsSearchable
    BY <1>3 DEF Rows, TypeOK, DocRows, Indexing, Searchable, PublishedIsSearchable
<1> QED  BY <1>1, <1>2, <1>4, CitingFirst, IndexingFirst, RowsHold, PTL DEF Spec
==============================================================================
