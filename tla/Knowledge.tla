------------------------------- MODULE Knowledge -------------------------------
(***************************************************************************)
(* Knowledge bases, their documents and the workers that index them, and   *)
(* the answers that cite them.                                             *)
(*                                                                         *)
(* A document has three copies: its file, its chunks in the database and   *)
(* its vectors in a store of its own.  Only the chunks take part in        *)
(* transactions.  An indexing replaces the chunks, so each one is counted  *)
(* as a generation of the document; citations point to chunks.             *)
(* Requests and workers lock rows; a step that waits for a lock is not     *)
(* enabled, and two that wait for each other are broken by the database.   *)
(***************************************************************************)
EXTENDS Integers, Sequences, FiniteSets

CONSTANTS
    Bases,
    Docs,
    Workers,     \* ingestion workers
    Requests,    \* requests in flight
    MaxAttempts, \* attempts of an indexing (code: 3)
    MaxRuns,     \* bound: indexings
    MaxAnswers,  \* bound: answers
    MaxWork      \* bound: jobs, indexings and answers together

ASSUME KnowledgeAssumption ==
    /\ Bases # {}
    /\ {MaxAttempts, MaxRuns, MaxAnswers, MaxWork} \subseteq Nat
    /\ MaxAttempts # 0

VARIABLES
    bases,    \* bases[b]: none, shared, private (to others than the asker), deleted
    docs,     \* docs[d]: base, st, deleted (deleted_at is set), expired
    file,     \* file[d]: the source artifact exists
    chunks,   \* chunks[d]: the generation in the database, or 0
    indexed,  \* indexed[d]: index_version is the document's version
    vectors,  \* vectors[d]: the generations in the vector store
    lost,     \* generations stored in part or not at all, without an error
    jobs,     \* ingestion jobs: doc, stage, attempt, cleanup
    work,     \* work[w]: where worker w is, its job and generation
    runs,     \* indexings so far
    conv,     \* the conversation is not deleted
    answers,  \* assistant messages: st, cites (pairs of document, generation)
    tx        \* tx[r]: what request r has read and holds

vars == <<bases, docs, file, chunks, indexed, vectors, lost, jobs, work, runs,
          conv, answers, tx>>

Idle == [op |-> "none"]
Off == [at |-> "idle", job |-> 0, gen |-> 0]
Gens == 1 .. MaxRuns
DocStates == {"none", "pending", "ready", "published", "inactive", "failed", "deleted"}
AnswerStates == {"pending", "completed", "failed", "fallback"}
Doc(b, st) == [base |-> b, st |-> st, deleted |-> FALSE, expired |-> FALSE]

Init ==
    /\ bases = [b \in Bases |-> "none"]
    /\ docs = [d \in Docs |-> Doc(CHOOSE b \in Bases : TRUE, "none")]
    /\ file = [d \in Docs |-> FALSE]
    /\ chunks = [d \in Docs |-> 0]
    /\ indexed = [d \in Docs |-> FALSE]
    /\ vectors = [d \in Docs |-> {}] /\ lost = {}
    /\ jobs = <<>> /\ answers = <<>>
    /\ work = [w \in Workers |-> Off]
    /\ runs = 0
    /\ conv = TRUE
    /\ tx = [r \in Requests |-> Idle]

storeVars == <<file, chunks, indexed, vectors, lost>>
workerVars == <<work, runs>>
chatVars == <<conv, answers>>

MayWork == Len(jobs) + runs + Len(answers) < MaxWork
MayAnswer(turn) == turn = 0 => Len(answers) < MaxAnswers /\ MayWork
End(r) == tx' = [tx EXCEPT ![r] = Idle]

-----------------------------------------------------------------------------
(* Row locks. *)

Deleting(r, d) == tx[r].op = "delete" /\ tx[r].doc = d
Rewrites(w, d) == work[w].at \in {"flushed", "dropped", "upserted"} /\ jobs[work[w].job].doc = d
DocFree(d) ==
    /\ \A r \in Requests : ~Deleting(r, d)
    /\ \A w \in Workers : ~Rewrites(w, d)
JobFree(j) == \A w \in Workers : work[w].job # j

(* The citations of an answer are inserted before the model is called, and *)
(* hold the chunks they point to until the transaction ends.               *)
HoldsChunks(r, d) == tx[r].op = "answer" /\ \E c \in tx[r].cites : c[1] = d
Cited(d) == \E a \in DOMAIN answers : \E c \in answers[a].cites : c[1] = d

-----------------------------------------------------------------------------
(* Knowledge bases. *)

Live(b) == bases[b] \in {"shared", "private"}
Readable(b) == bases[b] = "shared"
(* The owner keeps a base; its visibility and its members say who else may *)
(* read it.                                                                *)
Granted(b, access) == bases' = [bases EXCEPT ![b] = access]
HasDependents(b) == \E d \in Docs :
    docs[d].base = b /\ docs[d].st \notin {"none", "deleted"} /\ ~docs[d].deleted

CreateBase(b, access) ==
    /\ bases[b] = "none"
    /\ Granted(b, access)
    /\ UNCHANGED <<docs, storeVars, jobs, workerVars, chatVars, tx>>

UpdateBase(b, access) ==
    /\ Live(b) /\ bases[b] # access
    /\ Granted(b, access)
    /\ UNCHANGED <<docs, storeVars, jobs, workerVars, chatVars, tx>>

DeleteBase(b) ==
    /\ Live(b) /\ ~HasDependents(b)
    /\ bases' = [bases EXCEPT ![b] = "deleted"]
    /\ UNCHANGED <<docs, storeVars, jobs, workerVars, chatVars, tx>>

-----------------------------------------------------------------------------
(* Documents: the requests. *)

(* The artifact store never overwrites: a name that exists, an empty, a    *)
(* long or an unreadable file is refused and leaves nothing behind.        *)
Stored(d) == ~file[d] /\ file' = [file EXCEPT ![d] = TRUE]
Erased(d) == file' = [file EXCEPT ![d] = FALSE]

(* The base is read and not held; the file is written under a new name.    *)
SaveUpload(r, d, b) ==
    /\ tx[r] = Idle /\ Live(b)
    /\ docs[d].st = "none" /\ Stored(d)
    /\ tx' = [tx EXCEPT ![r] = [op |-> "upload", doc |-> d, base |-> b]]
    /\ UNCHANGED <<bases, docs, chunks, indexed, vectors, lost, jobs, workerVars, chatVars>>

CommitUpload(r) ==
    /\ tx[r].op = "upload" /\ MayWork
    /\ docs' = [docs EXCEPT ![tx[r].doc] = Doc(tx[r].base, "pending")]
    /\ jobs' = Append(jobs, [doc |-> tx[r].doc, stage |-> "queued",
                             attempt |-> 1, cleanup |-> FALSE])
    /\ End(r)
    /\ UNCHANGED <<bases, storeVars, workerVars, chatVars>>

(* A replayed, duplicate or failing upload takes its files back.           *)
FailUpload(r) ==
    /\ tx[r].op = "upload"
    /\ Erased(tx[r].doc)
    /\ End(r)
    /\ UNCHANGED <<bases, docs, chunks, indexed, vectors, lost, jobs, workerVars, chatVars>>

(* The process stops, or the commit itself fails: the file stays.          *)
LoseUpload(r) ==
    /\ tx[r].op = "upload"
    /\ End(r)
    /\ UNCHANGED <<bases, docs, storeVars, jobs, workerVars, chatVars>>

(* Rows that a request finds: neither deleted nor taken by another one.    *)
Owned(d) ==
    /\ docs[d].st \notin {"none", "deleted"} /\ ~docs[d].deleted
    /\ Live(docs[d].base)

LockDelete(r, d) ==
    /\ tx[r] = Idle
    /\ Owned(d) /\ DocFree(d)
    /\ tx' = [tx EXCEPT ![r] = [op |-> "delete", doc |-> d]]
    /\ UNCHANGED <<bases, docs, storeVars, jobs, workerVars, chatVars>>

Ended == {"succeeded", "failed"}
Pending(d) == {j \in DOMAIN jobs : jobs[j].doc = d /\ jobs[j].stage \notin Ended}

(* The document is deleted, its jobs fail, and a job to clean it up is     *)
(* queued.                                                                 *)
Delete(r) ==
    LET d == tx[r].doc IN
    /\ tx[r].op = "delete" /\ MayWork
    /\ \A j \in Pending(d) : JobFree(j)
    /\ docs' = [docs EXCEPT ![d].st = "deleted", ![d].deleted = TRUE]
    /\ jobs' = Append([j \in DOMAIN jobs |->
                          IF j \in Pending(d) THEN [jobs[j] EXCEPT !.stage = "failed"]
                                              ELSE jobs[j]],
                      [doc |-> d, stage |-> "queued", attempt |-> 1, cleanup |-> TRUE])
    /\ End(r)
    /\ UNCHANGED <<bases, storeVars, workerVars, chatVars>>

IndexComplete(d) == indexed[d] /\ chunks[d] # 0

Publish(d) ==
    /\ Owned(d) /\ DocFree(d)
    /\ docs[d].st \in {"ready", "inactive"}
    /\ ~docs[d].expired /\ IndexComplete(d)
    /\ docs' = [docs EXCEPT ![d].st = "published"]
    /\ UNCHANGED <<bases, storeVars, jobs, workerVars, chatVars, tx>>

Deactivate(d) ==
    /\ Owned(d) /\ DocFree(d)
    /\ docs[d].st = "published"
    /\ docs' = [docs EXCEPT ![d].st = "inactive"]
    /\ UNCHANGED <<bases, storeVars, jobs, workerVars, chatVars, tx>>

(* The time set in expires_at passes: only a publication asks for it, so   *)
(* it may as well pass when the document could be published.               *)
Expire(d) ==
    /\ docs[d].st \in {"ready", "inactive"} /\ ~docs[d].expired
    /\ docs' = [docs EXCEPT ![d].expired = TRUE]
    /\ UNCHANGED <<bases, storeVars, jobs, workerVars, chatVars, tx>>

Retry(j) ==
    LET d == jobs[j].doc IN
    /\ JobFree(j) /\ Owned(d) /\ DocFree(d)
    /\ jobs[j].stage = "failed" /\ jobs[j].attempt < MaxAttempts
    /\ jobs' = [jobs EXCEPT ![j].stage = "queued", ![j].attempt = @ + 1]
    /\ docs' = [docs EXCEPT ![d].st = "pending"]
    /\ UNCHANGED <<bases, storeVars, workerVars, chatVars, tx>>

-----------------------------------------------------------------------------
(* The worker: one job, one transaction. *)

Oldest(j) ==
    /\ jobs[j].stage = "queued" /\ JobFree(j)
    /\ \A i \in 1 .. j - 1 : ~(jobs[i].stage = "queued" /\ JobFree(i))

Claim(w) ==
    /\ work[w].at = "idle" /\ runs < MaxRuns /\ MayWork
    /\ \E j \in DOMAIN jobs :
          /\ Oldest(j)
          /\ work' = [work EXCEPT ![w] = [at |-> "claimed", job |-> j, gen |-> runs + 1]]
    /\ runs' = runs + 1
    /\ UNCHANGED <<bases, docs, storeVars, jobs, chatVars, tx>>

DocOf(w) == jobs[work[w].job].doc
Goto(w, stage) == work' = [work EXCEPT ![w].at = stage]

(* The chunks are replaced, not yet committed: the document and the chunks *)
(* are held from here, unless a citation keeps the chunks.                 *)
Flush(w) ==
    /\ work[w].at = "claimed" /\ file[DocOf(w)]
    /\ DocFree(DocOf(w)) /\ \A r \in Requests : ~HoldsChunks(r, DocOf(w))
    /\ ~Cited(DocOf(w))
    /\ Goto(w, "flushed")
    /\ UNCHANGED <<bases, docs, storeVars, jobs, runs, chatVars, tx>>

(* A citation keeps the chunks: the transaction is aborted, the error is   *)
(* caught but nothing can be committed any more, and the worker ends.      *)
RefusedByCitation(w) ==
    /\ work[w].at = "claimed" /\ DocFree(DocOf(w)) /\ Cited(DocOf(w))
    /\ work' = [work EXCEPT ![w] = Off]
    /\ UNCHANGED <<bases, docs, storeVars, jobs, runs, chatVars, tx>>

(* OpenSearch's errors are swallowed here: some vectors may stay.          *)
DropVectors(w) ==
    /\ work[w].at = "flushed"
    /\ \E kept \in SUBSET vectors[DocOf(w)] :
          vectors' = [vectors EXCEPT ![DocOf(w)] = kept]
    /\ Goto(w, "dropped")
    /\ UNCHANGED <<bases, docs, file, chunks, indexed, lost, jobs, runs, chatVars, tx>>

(* What OpenSearch answers to bulk() is not read: it may have refused some *)
(* of the chunks, or all.                                                  *)
Upsert(w) ==
    /\ work[w].at = "dropped"
    /\ \E refused \in SUBSET {work[w].gen} :
          /\ vectors' = [vectors EXCEPT ![DocOf(w)] = @ \cup ({work[w].gen} \ refused)]
          /\ lost' = lost \cup refused
    /\ Goto(w, "upserted")
    /\ UNCHANGED <<bases, docs, file, chunks, indexed, jobs, runs, chatVars, tx>>

(* Mutant: the document is ready before its vectors are stored.            *)
FinishEarly(w) ==
    /\ work[w].at \in {"flushed", "dropped", "upserted"}
    /\ chunks' = [chunks EXCEPT ![DocOf(w)] = work[w].gen]
    /\ indexed' = [indexed EXCEPT ![DocOf(w)] = TRUE]
    /\ docs' = [docs EXCEPT ![DocOf(w)].st = "ready"]
    /\ jobs' = [jobs EXCEPT ![work[w].job].stage = "succeeded"]
    /\ work' = [work EXCEPT ![w] = Off]
    /\ UNCHANGED <<bases, file, vectors, lost, runs, chatVars, tx>>

(* Whatever the job is for, and whether or not the document is deleted.    *)
Finish(w) ==
    /\ work[w].at = "upserted"
    /\ chunks' = [chunks EXCEPT ![DocOf(w)] = work[w].gen]
    /\ indexed' = [indexed EXCEPT ![DocOf(w)] = TRUE]
    /\ docs' = [docs EXCEPT ![DocOf(w)].st = "ready"]
    /\ jobs' = [jobs EXCEPT ![work[w].job].stage = "succeeded"]
    /\ work' = [work EXCEPT ![w] = Off]
    /\ UNCHANGED <<bases, file, vectors, lost, runs, chatVars, tx>>

(* A file that cannot be read or parsed, a model that fails, a store that  *)
(* raises an error, before or after it has stored: what was flushed is     *)
(* committed with the failure.                                             *)
Fail(w) ==
    LET d == DocOf(w) IN
    /\ work[w].at # "idle"
    /\ work[w].at = "claimed" => DocFree(d)
    /\ chunks' = [chunks EXCEPT ![d] = IF work[w].at = "claimed" THEN @ ELSE work[w].gen]
    /\ docs' = [docs EXCEPT ![d].st = "failed"]
    /\ jobs' = [jobs EXCEPT ![work[w].job].stage = "failed"]
    /\ work' = [work EXCEPT ![w] = Off]
    /\ UNCHANGED <<bases, file, indexed, vectors, lost, runs, chatVars, tx>>

(* The worker stops: its transaction is undone, the vectors stay as it     *)
(* left them.                                                              *)
Crash(w) ==
    /\ work[w].at # "idle"
    /\ work' = [work EXCEPT ![w] = Off]
    /\ UNCHANGED <<bases, docs, storeVars, jobs, runs, chatVars, tx>>

(* A deletion that holds the document waits for the job, the worker that   *)
(* holds the job waits for the document: the database ends one of them.    *)
BreakDeadlock(r, w) ==
    /\ work[w].at = "claimed" /\ Deleting(r, DocOf(w)) /\ work[w].job \in Pending(DocOf(w))
    /\ \/ End(r) /\ UNCHANGED work
       \/ work' = [work EXCEPT ![w] = Off] /\ UNCHANGED tx
    /\ UNCHANGED <<bases, docs, storeVars, jobs, runs, chatVars>>

-----------------------------------------------------------------------------
(* Answers. *)

ConvFree == \A r \in Requests : tx[r].op \notin {"ask", "answer"}

(* The index knows generations, and still returns those of deleted and     *)
(* inactive documents and what it has of those stored in part; a missing   *)
(* index or an error returns nothing.                                      *)
InIndex == {d \in Docs : chunks[d] \in vectors[d] \cup lost}

(* What a search returns: published documents of bases the asker may read. *)
Hits == {d \in InIndex : /\ docs[d].st = "published" /\ ~docs[d].deleted
                         /\ Readable(docs[d].base) /\ indexed[d]}

(* The turn is appended, or found by its request id, and the documents are *)
(* searched; nothing is written yet.                                       *)
Ask(r, turn, found) ==
    /\ tx[r] = Idle /\ conv /\ ConvFree
    /\ found \subseteq Hits
    /\ tx' = [tx EXCEPT ![r] = [op |-> "ask", turn |-> turn,
                                cites |-> {<<d, chunks[d]>> : d \in found}]]
    /\ UNCHANGED <<bases, docs, storeVars, jobs, workerVars, chatVars>>

(* Mutant: the citations of an answer are kept without their chunks.       *)
MayCiteAnything(r) == TRUE

(* The chunks are there to be cited, and the turn has no citations yet.    *)
MayCite(r) ==
    /\ \A c \in tx[r].cites : chunks[c[1]] = c[2]
    /\ tx[r].turn # 0 /\ tx[r].cites # {} => answers[tx[r].turn].cites = {}
Waits(r) == \E c \in tx[r].cites : \E w \in Workers : Rewrites(w, c[1])

(* createChatCompletion: the model is called with the transaction open.    *)
Cite(r) ==
    /\ tx[r].op = "ask" /\ ~Waits(r) /\ MayCite(r)
    /\ tx' = [tx EXCEPT ![r].op = "answer"]
    /\ UNCHANGED <<bases, docs, storeVars, jobs, workerVars, chatVars>>

Put(turn, st, cites) ==
    IF turn = 0 THEN Append(answers, [st |-> st, cites |-> cites])
    ELSE [answers EXCEPT ![turn] = [st |-> st, cites |-> @.cites \cup cites]]

(* Without citations the answer is a fallback, or general knowledge.       *)
Answered(turn) == turn # 0 /\ answers[turn].st \in {"completed", "failed", "fallback"}
Outcome(cites) == IF cites = {} THEN {"fallback", "completed"} ELSE {"completed"}

Answer(r) ==
    /\ tx[r].op = "answer"
    /\ MayAnswer(tx[r].turn)
    /\ \E st \in Outcome(tx[r].cites) :
          /\ ~(st = "completed" /\ Answered(tx[r].turn))
          /\ answers' = Put(tx[r].turn, st, tx[r].cites)
    /\ End(r)
    /\ UNCHANGED <<bases, docs, storeVars, jobs, workerVars, conv>>

(* streamChatCompletion: the turn and its citations are committed first.   *)
StartStream(r) ==
    /\ tx[r].op = "ask" /\ ~Waits(r) /\ MayCite(r)
    /\ MayAnswer(tx[r].turn)
    /\ answers' = Put(tx[r].turn, IF tx[r].turn = 0 THEN "pending" ELSE answers[tx[r].turn].st,
                      tx[r].cites)
    /\ tx' = [tx EXCEPT ![r] =
                 [op |-> "stream", turn |-> IF tx[r].turn = 0 THEN Len(answers) + 1
                                                             ELSE tx[r].turn,
                  cites |-> tx[r].cites]]
    /\ UNCHANGED <<bases, docs, storeVars, jobs, workerVars, conv>>

EndStream(r) ==
    /\ tx[r].op = "stream"
    /\ \E st \in Outcome(tx[r].cites) \cup {"failed"} :
          answers' = [answers EXCEPT ![tx[r].turn].st = st]
    /\ End(r)
    /\ UNCHANGED <<bases, docs, storeVars, jobs, workerVars, conv>>

(* A model that fails, a citation that is refused, a client that leaves:   *)
(* nothing more is committed.                                              *)
GiveUp(r) ==
    /\ tx[r].op \in {"ask", "answer", "stream"}
    /\ End(r)
    /\ UNCHANGED <<bases, docs, storeVars, jobs, workerVars, chatVars>>

DeleteConversation ==
    /\ conv /\ ConvFree
    /\ conv' = FALSE
    /\ UNCHANGED <<bases, docs, storeVars, jobs, workerVars, answers, tx>>

-----------------------------------------------------------------------------

BaseStep == \E b \in Bases :
    \/ \E access \in {"shared", "private"} : CreateBase(b, access) \/ UpdateBase(b, access)
    \/ DeleteBase(b)

DocumentStep ==
    \/ \E d \in Docs : Publish(d) \/ Deactivate(d) \/ Expire(d)
    \/ \E j \in DOMAIN jobs : Retry(j)

Request(r) ==
    \/ \E d \in Docs, b \in Bases : SaveUpload(r, d, b)
    \/ CommitUpload(r) \/ FailUpload(r) \/ LoseUpload(r)
    \/ \E d \in Docs : LockDelete(r, d)
    \/ Delete(r)
    \/ \E turn \in 0 .. Len(answers), found \in SUBSET Docs : Ask(r, turn, found)
    \/ Cite(r) \/ Answer(r) \/ StartStream(r) \/ EndStream(r) \/ GiveUp(r)

Worker(w) ==
    \/ Claim(w) \/ Flush(w) \/ RefusedByCitation(w) \/ DropVectors(w) \/ Upsert(w)
    \/ Finish(w) \/ Fail(w) \/ Crash(w)

Next ==
    \/ BaseStep
    \/ DocumentStep
    \/ DeleteConversation
    \/ \E r \in Requests : Request(r)
    \/ \E w \in Workers : Worker(w)
    \/ \E r \in Requests, w \in Workers : BreakDeadlock(r, w)

Spec == Init /\ [][Next]_vars

-----------------------------------------------------------------------------
(* Properties. *)

DocRows == [base : Bases, st : DocStates, deleted : BOOLEAN, expired : BOOLEAN]
JobRows == [doc : Docs, stage : {"queued"} \cup Ended, attempt : 1 .. MaxAttempts,
            cleanup : BOOLEAN]
Stages == [at : {"idle", "claimed", "flushed", "dropped", "upserted"},
           job : 0 .. Len(jobs), gen : 0 .. MaxRuns]
Citations == SUBSET (Docs \X Gens)
AnswerRows == [st : AnswerStates, cites : Citations]
TxRows ==
    [op : {"none"}] \cup [op : {"upload"}, doc : Docs, base : Bases]
    \cup [op : {"delete"}, doc : Docs]
    \cup [op : {"ask", "answer", "stream"}, turn : Nat, cites : Citations]

(* Every variable has the values its table or store admits.                *)
TypeOK ==
    /\ bases \in [Bases -> {"none", "shared", "private", "deleted"}]
    /\ docs \in [Docs -> DocRows]
    /\ file \in [Docs -> BOOLEAN] /\ indexed \in [Docs -> BOOLEAN]
    /\ chunks \in [Docs -> 0 .. MaxRuns]
    /\ vectors \in [Docs -> SUBSET Gens] /\ lost \subseteq Gens
    /\ jobs \in Seq(JobRows)
    /\ work \in [Workers -> Stages]
    /\ runs \in 0 .. MaxRuns /\ conv \in BOOLEAN
    /\ answers \in Seq(AnswerRows)
    /\ tx \in [Requests -> TxRows]

(* The chunks an answer cites stay in the database: no indexing, retry,    *)
(* deletion or cleaning takes them away, whatever was in flight when the   *)
(* answer was committed.                                                   *)
CitedChunksStay ==
    \A a \in DOMAIN answers : \A c \in answers[a].cites : chunks[c[1]] = c[2]

(* A published document can be found: the chunks of its last indexing are  *)
(* in the database, complete, and no worker replaces them or their         *)
(* vectors; the same generation is in the store, although a worker may     *)
(* stop or fail between the two, and old vectors may stay behind.  Only an *)
(* error that the store hid from that very indexing makes it unfindable.   *)
PublishedIsSearchable ==
    \A d \in Docs : docs[d].st = "published" =>
        /\ IndexComplete(d)
        /\ chunks[d] \in vectors[d] \cup lost
        /\ \A w \in Workers : ~Rewrites(w, d)

=============================================================================
