------------------------------ MODULE PostThread ------------------------------
(***************************************************************************)
(* A post with its comments, reactions and reports, the topics it can be   *)
(* in, and the requests that change them.  A request is one transaction of *)
(* PostgreSQL (READ COMMITTED): it takes the row locks of its statements   *)
(* one after the other, waits for the rows others hold, and its writes and *)
(* the release of its locks are one step, the commit.  Content 0 is the    *)
(* post, the others are comments; see ModeratedContent for their cases.    *)
(*                                                                         *)
(* A foreign key makes an insert (or the change of the column) lock the    *)
(* row it refers to FOR KEY SHARE, which waits for FOR UPDATE; with one    *)
(* post nothing tells the two strengths apart.                             *)
(***************************************************************************)
EXTENDS ModeratedContent, FiniteSets

CONSTANTS Topics, Sessions,
          Comments,     \* a set of positive integers
          MaxWork       \* bound on the requests served
ASSUME CommentsAssumption == Comments \subseteq Nat \ {0}

VARIABLES topic,        \* topic[t]: its status, or "deleted"
          body,         \* body[x]: the moderated content x
          place,        \* the topic of the post
          count,        \* comment_count of the post
          likes, likeCount,
          reports,      \* the pairs <<user, content>> of the reports
          reportCount,  \* report_count of the post
          tx,           \* tx[s]: the request a session serves
          work          \* requests begun so far
threadVars == <<topic, body, place, count, likes, likeCount, reports,
                reportCount, tx, work>>
counters == <<likes, likeCount, reports, reportCount>>

Contents == {0} \cup Comments
Nothing == [st |-> "none", case |-> 0, cases |-> <<>>, ver |-> 1]

TopicRow(t) == <<"topic", t, 0>>
Row(x) == <<"content", x, 0>>
CaseRow(x, k) == <<"case", x, k>>

Operations == {"post_create", "post_update", "post_delete", "topic_archive",
               "topic_delete", "comment_create", "comment_update",
               "comment_delete", "reaction_put", "reaction_delete", "report",
               "decide"}
Idle == [op |-> "idle", x |-> 0, t |-> 0, k |-> 0, u |-> 0, d |-> "none",
         seen |-> 0, held |-> {}]

Exists(x) == body[x].st \notin {"none", "deleted"}
Published(x) == body[x].st = "published"

ThreadInit ==
    /\ topic = [t \in Topics |-> "active"]
    /\ body = [x \in Contents |-> Nothing]
    /\ place \in Topics
    /\ count = 0 /\ likes = {} /\ likeCount = 0
    /\ reports = {} /\ reportCount = 0
    /\ tx = [s \in Sessions |-> Idle]
    /\ work = 0

-------------------------------------------------------------------------------
(* What a request that arrives asks for: fields over those of Idle.        *)
Asks(s, op, x, t, k, u, d, seen) ==
    /\ tx[s].op = "idle" /\ work < MaxWork
    /\ tx' = [tx EXCEPT ![s] = [op |-> op, x |-> x, t |-> t, k |-> k, u |-> u,
                                d |-> d, seen |-> seen, held |-> {}]]
    /\ work' = work + 1
    /\ UNCHANGED <<topic, body, place, count, counters>>

(* The topic of a new post is read without a lock.                         *)
BeginPost(s) ==
    \E t \in Topics : /\ body[0].st = "none" /\ topic[t] = "active"
                      /\ \A r \in Sessions : tx[r].op # "post_create"
                      /\ Asks(s, "post_create", 0, t, 0, 0, "none", 0)
(* An edit carries the version its author saw.                             *)
BeginPostChange(s) ==
    \/ \E t \in Topics : /\ Exists(0)
                         /\ Asks(s, "post_update", 0, t, 0, 0, "none", body[0].ver)
    \/ Exists(0) /\ Asks(s, "post_delete", 0, 0, 0, 0, "none", 0)
BeginTopic(s) ==
    \E t \in Topics, op \in {"topic_archive", "topic_delete"} :
        topic[t] # "deleted" /\ Asks(s, op, 0, t, 0, 0, "none", 0)
(* A new comment, the first number not in use, perhaps a reply (k) to a    *)
(* published one.                                                          *)
BeginComment(s) ==
    \E x \in Comments, k \in Contents :
        /\ body[x].st = "none"
        /\ \A y \in Comments : y < x => body[y].st # "none"
        /\ \A r \in Sessions : ~(tx[r].op = "comment_create" /\ tx[r].x = x)
        /\ k # 0 => Published(k)
        /\ Asks(s, "comment_create", x, 0, k, 0, "none", 0)
BeginCommentChange(s) ==
    \E x \in Comments, op \in {"comment_update", "comment_delete"} :
        Exists(x) /\ Asks(s, op, x, 0, 0, 0, "none", body[x].ver)
BeginReaction(s) ==
    \E u \in Users, op \in {"reaction_put", "reaction_delete"} :
        Published(0) /\ Asks(s, op, 0, 0, 0, u, "none", 0)
BeginReport(s) ==
    \E u \in Users, x \in Contents :
        Exists(x) /\ Asks(s, "report", x, 0, 0, u, "none", 0)
BeginDecision(s) ==
    \E x \in Contents, d \in Decisions :
        \E k \in OpenCases(body[x]) : Asks(s, "decide", x, 0, k, 0, d, 0)

Begin(s) ==
    \/ BeginPost(s) \/ BeginPostChange(s) \/ BeginTopic(s)
    \/ BeginComment(s) \/ BeginCommentChange(s) \/ BeginReaction(s)
    \/ BeginReport(s) \/ BeginDecision(s)
-------------------------------------------------------------------------------
(* The rows each request locks, in the order of its statements.            *)

(* Mutant: the check for posts of the topic locks what it looks at.        *)
TopicRowsAndPosts(q) ==
    IF q.op = "topic_delete" THEN <<TopicRow(q.t), Row(0)>>
                             ELSE <<TopicRow(q.t)>>
TopicRows(q) == <<TopicRow(q.t)>>

(* The insert, and an edit that moves the post, touch the topic last.      *)
PostRows(q) ==
    IF q.op = "post_create" THEN <<TopicRow(q.t)>>
    ELSE IF q.op = "post_update" /\ q.t # place THEN <<Row(0), TopicRow(q.t)>>
    ELSE <<Row(0)>>

(* A new comment locks the post and, by its foreign key, the comment it    *)
(* replies to.                                                             *)
CreateRows(q) == IF q.k = 0 THEN <<Row(0)>> ELSE <<Row(0), Row(q.k)>>
(* Edit and removal lock the comment first; the removal of a comment that  *)
(* is not published leaves the post alone.                                 *)
ChangeRows(q) ==
    IF q.op = "comment_update" \/ Published(q.x)
    THEN <<Row(q.x), Row(0)>> ELSE <<Row(q.x)>>

(* A report locks the content, then the oldest open case of it.            *)
ReportRows(q) ==
    IF <<q.u, q.x>> \in reports \/ OpenCases(body[q.x]) = {} THEN <<Row(q.x)>>
    ELSE <<Row(q.x), CaseRow(q.x, FirstOf(OpenCases(body[q.x])))>>

(* A decision locks the case, then the content, then the post whose        *)
(* counter changes.                                                        *)
Republishes(q) ==
    /\ q.x # 0 /\ q.d # "escalated" /\ body[q.x].st # "deleted"
    /\ Published(q.x) # (q.d = "approved")
DecideRows(q) ==
    <<CaseRow(q.x, q.k), Row(q.x)>> \o
        (IF Republishes(q) THEN <<Row(0)>> ELSE <<>>)

Rows(q) ==
    CASE q.op \in {"topic_archive", "topic_delete"} -> TopicRows(q)
      [] q.op \in {"post_create", "post_update", "post_delete"} -> PostRows(q)
      [] q.op = "comment_create" -> CreateRows(q)
      [] q.op \in {"comment_update", "comment_delete"} -> ChangeRows(q)
      [] q.op \in {"reaction_put", "reaction_delete"} -> <<Row(0)>>
      [] q.op = "report" -> ReportRows(q)
      [] q.op = "decide" -> DecideRows(q)
      [] OTHER -> <<>>

Missing(s) == {i \in DOMAIN Rows(tx[s]) : Rows(tx[s])[i] \notin tx[s].held}
Wanted(s) == Rows(tx[s])[FirstOf(Missing(s))]
Holder(row) == {r \in Sessions : row \in tx[r].held}

(* What the statement that locks a row requires of it; a request whose     *)
(* row is not there any more, or is not what it expects, is refused.       *)
Answers(q, row) ==
    CASE row[1] = "case" -> q.op = "decide" => q.k \in OpenCases(body[q.x])
      [] row = Row(0) /\ q.x = 0 /\ q.op = "post_update" ->
            Exists(0) /\ body[0].ver = q.seen /\ topic[q.t] = "active"
      [] row = Row(0) /\ q.op \in {"comment_create", "comment_update",
                                   "reaction_put", "reaction_delete"} ->
            Published(0) /\ (q.op = "comment_create" => topic[place] # "deleted")
                         /\ (q.op = "comment_create" /\ q.k # 0 => Published(q.k))
      [] row = Row(q.x) /\ q.op \in {"comment_update", "comment_delete"} ->
            Exists(q.x) /\ (q.op = "comment_update" => body[q.x].ver = q.seen)
      [] row = Row(q.x) /\ q.op = "decide" -> body[q.x].case = q.k
      [] row = Row(q.x) /\ q.op \in {"post_delete", "report"} -> Exists(q.x)
      [] row[1] = "topic" /\ q.op \in {"topic_archive", "topic_delete"} ->
            topic[q.t] # "deleted"
      [] OTHER -> TRUE

Ends(s) == tx' = [tx EXCEPT ![s] = Idle]

Lock(s) ==
    /\ tx[s].op # "idle" /\ Missing(s) # {}
    /\ Holder(Wanted(s)) \subseteq {s}
    /\ IF Answers(tx[s], Wanted(s))
       THEN tx' = [tx EXCEPT ![s].held = @ \cup {Wanted(s)}]
       ELSE Ends(s)
    /\ UNCHANGED <<topic, body, place, count, counters, work>>

Waits(s) ==
    /\ tx[s].op # "idle" /\ Missing(s) # {}
    /\ Holder(Wanted(s)) \ {s} # {}
WaitsFor(s, r) == r # s /\ Waits(s) /\ Wanted(s) \in tx[r].held
Deadlocked(s, r) == WaitsFor(s, r) /\ WaitsFor(r, s)

(* PostgreSQL finds two requests that wait for each other and rolls one    *)
(* back; its client gets an error.                                         *)
Abort(s) ==
    /\ \E r \in Sessions : Deadlocked(s, r)
    /\ Ends(s)
    /\ UNCHANGED <<topic, body, place, count, counters, work>>
-------------------------------------------------------------------------------
(* The writes of each request, and its commit.                             *)
Ready(s, op) == tx[s].op = op /\ Missing(s) = {} /\ Ends(s)
One(b) == IF b THEN 1 ELSE 0
Newer(c) == [c EXCEPT !.ver = @ + 1]

(* Mutant: the response is built from the topic read at first.             *)
TopicThereOnce(t) == TRUE
(* The response is built from the stored post: a topic deleted meanwhile   *)
(* ends the request with an error, and nothing is stored.                  *)
TopicThere(t) == topic[t] # "deleted"

PostCreate(s) ==
    LET q == tx[s] IN
    /\ Ready(s, "post_create")
    /\ IF TopicThere(q.t)
       THEN /\ \E r \in ScanResults :
                  body' = [body EXCEPT ![0] = Scanned(@, r)]
            /\ place' = q.t
       ELSE UNCHANGED <<body, place>>
    /\ UNCHANGED <<topic, count, counters, work>>

PostUpdate(s) ==
    LET q == tx[s] IN
    /\ Ready(s, "post_update")
    /\ IF TopicThere(q.t)
       THEN /\ \E r \in ScanResults :
                  body' = [body EXCEPT ![0] = Newer(Scanned(@, r))]
            /\ place' = q.t
       ELSE UNCHANGED <<body, place>>
    /\ UNCHANGED <<topic, count, counters, work>>

PostDelete(s) ==
    /\ Ready(s, "post_delete")
    /\ body' = [body EXCEPT ![0] = Newer([@ EXCEPT !.st = "deleted"])]
    /\ UNCHANGED <<topic, place, count, counters, work>>

TopicArchive(s) ==
    /\ Ready(s, "topic_archive")
    /\ topic' = [topic EXCEPT ![tx[s].t] = "archived"]
    /\ UNCHANGED <<body, place, count, counters, work>>

TopicDelete(s) ==
    /\ Ready(s, "topic_delete")
    /\ topic' = IF Exists(0) /\ place = tx[s].t THEN topic
                ELSE [topic EXCEPT ![tx[s].t] = "deleted"]
    /\ UNCHANGED <<body, place, count, counters, work>>

CommentCreate(s) ==
    LET x == tx[s].x IN
    /\ Ready(s, "comment_create")
    /\ \E r \in ScanResults :
          /\ body' = [body EXCEPT ![x] = Scanned(@, r)]
          /\ count' = count + One(r = "published")
    /\ UNCHANGED <<topic, place, counters, work>>

(* Mutant: the counter follows the new status only.                        *)
CommentUpdateRecount(s) ==
    LET x == tx[s].x IN
    /\ Ready(s, "comment_update")
    /\ \E r \in ScanResults :
          /\ body' = [body EXCEPT ![x] = Newer(Scanned(@, r))]
          /\ count' = count + One(r = "published")
    /\ UNCHANGED <<topic, place, counters, work>>

CommentUpdate(s) ==
    LET x == tx[s].x IN
    /\ Ready(s, "comment_update")
    /\ \E r \in ScanResults :
          /\ body' = [body EXCEPT ![x] = Newer(Scanned(@, r))]
          /\ count' = count + One(r = "published") - One(Published(x))
    /\ UNCHANGED <<topic, place, counters, work>>

CommentDelete(s) ==
    LET x == tx[s].x IN
    /\ Ready(s, "comment_delete")
    /\ body' = [body EXCEPT ![x] = Newer([@ EXCEPT !.st = "deleted"])]
    /\ count' = count - One(Published(x))
    /\ UNCHANGED <<topic, place, counters, work>>

ReactionPut(s) ==
    /\ Ready(s, "reaction_put")
    /\ likes' = likes \cup {tx[s].u}
    /\ likeCount' = likeCount + One(tx[s].u \notin likes)
    /\ UNCHANGED <<topic, body, place, count, reports, reportCount, work>>

ReactionDelete(s) ==
    /\ Ready(s, "reaction_delete")
    /\ likes' = likes \ {tx[s].u}
    /\ likeCount' = likeCount - One(tx[s].u \in likes)
    /\ UNCHANGED <<topic, body, place, count, reports, reportCount, work>>

(* A second report of the same user is answered with the first one.        *)
ReportContent(s) ==
    LET q == tx[s] IN
    /\ Ready(s, "report")
    /\ IF <<q.u, q.x>> \in reports THEN UNCHANGED <<body, reports, reportCount>>
       ELSE /\ body' = [body EXCEPT ![q.x] = Reported(@)]
            /\ reports' = reports \cup {<<q.u, q.x>>}
            /\ reportCount' = reportCount + One(q.x = 0)
    /\ UNCHANGED <<topic, place, count, likes, likeCount, work>>

DecideContent(s) ==
    LET q == tx[s] IN
    /\ Ready(s, "decide")
    /\ body' = [body EXCEPT ![q.x] = Decided(@, q.k, q.d)]
    /\ count' = IF ~Republishes(q) THEN count
                ELSE IF q.d = "approved" THEN count + 1 ELSE count - 1
    /\ UNCHANGED <<topic, place, counters, work>>

Serve(s) ==
    \/ PostCreate(s) \/ PostUpdate(s) \/ PostDelete(s)
    \/ TopicArchive(s) \/ TopicDelete(s)
    \/ CommentCreate(s) \/ CommentUpdate(s) \/ CommentDelete(s)
    \/ ReactionPut(s) \/ ReactionDelete(s) \/ ReportContent(s) \/ DecideContent(s)

ThreadNext == \E s \in Sessions : Begin(s) \/ Lock(s) \/ Serve(s) \/ Abort(s)
ThreadSpec == ThreadInit /\ [][ThreadNext]_threadVars
-------------------------------------------------------------------------------
TxFields == [op : Operations \cup {"idle"}, x : Contents, t : Topics \cup {0},
             k : Nat, u : Users \cup {0}, d : Decisions \cup {"none"},
             seen : Nat, held : SUBSET ({"topic", "content", "case"} \X
                                        (Topics \cup Contents) \X Nat)]
ThreadTypeOK ==
    /\ topic \in [Topics -> {"active", "archived", "deleted"}]
    /\ body \in [Contents -> [st : ScanResults \cup {"none", "deleted"},
                              case : Nat, cases : Seq(CaseStatus), ver : Nat]]
    /\ place \in Topics
    /\ count \in Nat /\ likeCount \in Nat /\ reportCount \in Nat
    /\ likes \subseteq Users /\ reports \subseteq Users \X Contents
    /\ tx \in [Sessions -> TxFields]
    /\ work \in Nat

(* The three counters of the post are those of its rows after every        *)
(* commit, whatever the comments go through: scan, edit, removal and the   *)
(* decisions of moderators, in any order and also under a removed post     *)
(* (adjust_post_comment_count(), adjust_count(), _apply()).                *)
CountsAreExact ==
    /\ count = Cardinality({x \in Comments : Published(x)})
    /\ likeCount = Cardinality(likes)
    /\ reportCount = Cardinality({u \in Users : <<u, 0>> \in reports})

(* A post that is not removed is in a topic that is not: else every page   *)
(* of posts that holds it would be an error (_hydrate()).  The topic is    *)
(* read without a lock and the posts of a topic are, too; the foreign key  *)
(* and the read of the topic after the insert make up for it.              *)
NoPostInDeletedTopic == Exists(0) => topic[place] # "deleted"

(* The pairs of requests that may wait for each other: a reply with an     *)
(* edit, a removal or a decision of the comment it replies to, and a       *)
(* report with a decision.  No other request is ever rolled back for       *)
(* another's sake.                                                         *)
Pair(s, r) == {tx[s].op, tx[r].op}
OnlyThesePairsDeadlock ==
    \A s, r \in Sessions :
        Deadlocked(s, r) =>
            \/ Pair(s, r) = {"report", "decide"}
            \/ /\ "comment_create" \in Pair(s, r)
               /\ Pair(s, r) \cap {"comment_update", "comment_delete",
                                   "decide"} # {}
===============================================================================
