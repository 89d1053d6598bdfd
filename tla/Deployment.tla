------------------------------ MODULE Deployment ------------------------------
(***************************************************************************)
(* The stack as an operator runs it: every start runs a job that migrates  *)
(* the schema and writes the demonstration rows again, and only then the   *)
(* API, whose users meanwhile change those rows.                           *)
(*                                                                         *)
(* alembic upgrades or downgrades in one transaction; each of the three    *)
(* seed commands is one transaction, whose upserts overwrite the columns   *)
(* they list in rows found by one key and fail on any other unique index.  *)
(* One demonstration row of each kind stands for all; of the operations of *)
(* the users only what they change in these rows is modelled.              *)
(***************************************************************************)
EXTENDS Integers, Sequences, FiniteSets

CONSTANTS
    Attendees,
    DemoUser,   \* holds the seeded registration
    Capacity,   \* of the seeded event
    Path,       \* the states the seeded order has been through
    MaxOperations     \* bound: operations of users

OrderStatus ==
    {"submitted", "accepted", "processing", "completed", "cancelled", "rejected"}

ASSUME DeploymentAssumption ==
    /\ IsFiniteSet(Attendees) /\ DemoUser \in Attendees
    /\ Capacity \in Nat \ {0}
    /\ Path \in Seq(OrderStatus) /\ Path # <<>>
    /\ MaxOperations \in Nat

VARIABLES
    api,      \* "down" or "up"
    job,      \* what the job does next; "none", or how it ended
    schema,   \* version of the schema
    groups,   \* the groups of seeded rows that are complete
    kinds,    \* the kinds of rows that only a newer schema admits
    admin,    \* edited: what administrators changed; taken: the mail address
              \* of a seeded account is that of another one
    order,    \* st, ver, log (its events), rated
    event,    \* open, count, seats
    lost,     \* item, claims (the seeded and another of that claimant), match
    topics,   \* the seeded topic and another
    models,   \* the seeded router model and another
    clean,    \* how many seed commands ran since the last operation
    work      \* operations of users so far

rows == <<groups, kinds, admin, order, event, lost, topics, models>>
stackVars == <<api, job, schema, rows, clean, work>>

-----------------------------------------------------------------------------
(* The schema *)

Newest == 11

PlatformGroups == {"permissions", "roles", "configs", "role_permissions",
                   "users", "scopes", "user_roles", "rag_configs"}
CampusGroups == {"campuses", "departments", "contacts", "categories", "guides",
                 "applicabilities", "materials", "steps", "orders",
                 "order_events", "ratings"}
ElectricityGroups == {"rooms", "members"}
AgentGroups == {"agents", "tools", "models"}
CommunityGroups == {"topics", "events", "registrations", "items"}
KnowledgeGroups == {"bases"}

(* The fourth migration adds permissions, roles and configurations to the  *)
(* seeded ones; its downgrade deletes them.                                *)
CompatGroups == {"permissions", "roles", "configs", "role_permissions",
                 "user_roles"}

(* What the downgrade of each migration takes away: whole tables, or rows. *)
Gone == <<PlatformGroups, CampusGroups, ElectricityGroups, CompatGroups,
          AgentGroups, {}, CommunityGroups, KnowledgeGroups, {},
          {"role_permissions"}, {}>>

(* The version whose CHECK constraint or column first admits a row.        *)
Since == [word |-> 4, case |-> 4, step |-> 9, run |-> 11, command |-> 11, input |-> 11]
Kinds == DOMAIN Since

(* Mutant: runs that wait for an answer are left as they are.              *)
ClearedLess == <<{}, {}, {}, {"word", "case"}, {"run", "step"}, {"command", "input"},
                 {}, {}, {"step"}, {}, {"command", "input"}>>

(* The rows a downgrade deletes or rewrites before it narrows what a       *)
(* column admits, or with their tables.                                    *)
Cleared == <<{}, {}, {}, {"word", "case"}, {"run", "step"}, {"command", "input"},
             {}, {}, {"step"}, {}, {"run", "command", "input"}>>

Left(v) == kinds \ UNION {Cleared[w] : w \in v .. schema}
Fits(v) == \A w \in v + 1 .. schema : \A k \in Left(w) : Since[k] # w

-----------------------------------------------------------------------------
(* The seeds *)

(* Mutant: the guides come before their categories.                        *)
DemoOrderSwapped == <<"permissions", "roles", "configs", "role_permissions", "users",
    "scopes", "user_roles", "campuses", "departments", "contacts", "guides",
    "categories", "applicabilities", "materials", "steps", "rooms", "members", "orders",
    "order_events", "ratings", "topics", "events", "registrations", "items">>

(* The statements of seed_demo, in their order.                            *)
DemoOrder == <<"permissions", "roles", "configs", "role_permissions", "users",
    "scopes", "user_roles", "campuses", "departments", "contacts", "categories",
    "guides", "applicabilities", "materials", "steps", "rooms", "members", "orders",
    "order_events", "ratings", "topics", "events", "registrations", "items">>

(* INSERT ... SELECT and subselects take the rows of earlier groups; what  *)
(* is not there yet is silently left out.                                  *)
AccountNeeds == [role_permissions |-> {"roles", "permissions"},
                 user_roles |-> {"users", "roles"}]
CampusNeeds == [scopes |-> {"users"}, contacts |-> {"departments"}]
GuideNeeds == [guides |-> {"categories", "departments"},
               applicabilities |-> {"guides"}, materials |-> {"guides"},
               steps |-> {"guides"}]
OwnerNeeds == [members |-> {"rooms", "users"}, orders |-> {"users", "departments"},
               order_events |-> {"orders", "users"}, ratings |-> {"orders", "users"},
               topics |-> {"users"}, events |-> {"users"},
               registrations |-> {"events", "users"}, items |-> {"users"}]

Needs(g) ==
    IF g \in DOMAIN AccountNeeds THEN AccountNeeds[g]
    ELSE IF g \in DOMAIN CampusNeeds THEN CampusNeeds[g]
    ELSE IF g \in DOMAIN GuideNeeds THEN GuideNeeds[g]
    ELSE IF g \in DOMAIN OwnerNeeds THEN OwnerNeeds[g] ELSE {}

Installed(S) ==
    LET Statement(written, g) == IF Needs(g) \subseteq written THEN written \cup {g}
                                 ELSE written
        after[i \in 0 .. Len(DemoOrder)] ==
            IF i = 0 THEN S ELSE Statement(after[i - 1], DemoOrder[i])
    IN after[Len(DemoOrder)]

AllGroups == PlatformGroups \cup CampusGroups \cup ElectricityGroups \cup AgentGroups
             \cup CommunityGroups \cup KnowledgeGroups

(* What administrators and users change, by the command whose upsert takes *)
(* it back, and what none of them writes.                                  *)
ByDemo == {"grants", "roles", "config", "status", "mail", "balance"}
ByKnowledge == {"rag_config", "visibility"}
ByCatalog == {"agent", "tool"}
Kept == {"custom_grants", "base_name"}
Settings == ByDemo \cup ByKnowledge \cup ByCatalog \cup Kept

SeededLog == [i \in 1 .. Len(Path) |->
    [from |-> IF i = 1 THEN "none" ELSE Path[i - 1], to |-> Path[i]]]

(* Mutant: the events are deleted before the seeded ones are written.      *)
SeededOrderReset(o) ==
    [st |-> Path[Len(Path)], ver |-> Len(Path), log |-> SeededLog,
     rated |-> o.rated \/ Path[Len(Path)] = "completed"]

(* Mutant: the events get new ids every time.                              *)
SeededOrderAgain(o) ==
    [st |-> Path[Len(Path)], ver |-> Len(Path), log |-> o.log \o SeededLog,
     rated |-> o.rated \/ Path[Len(Path)] = "completed"]

(* Events under the seeded ids are overwritten, later ones stay, and so    *)
(* does a rating.                                                          *)
SeededOrder(o) ==
    [st |-> Path[Len(Path)], ver |-> Len(Path),
     log |-> SeededLog \o SubSeq(o.log, Len(Path) + 1, Len(o.log)),
     rated |-> o.rated \/ Path[Len(Path)] = "completed"]

(* Mutant: the event is reset, the seeded registration is not.             *)
SeededEventAlone(e) == [e EXCEPT !.open = TRUE, !.count = 1]

(* The event counts the seeded registration, whoever else has a seat.      *)
SeededEvent(e) ==
    [open |-> TRUE, count |-> 1,
     seats |-> [e.seats EXCEPT ![DemoUser] = "registered"]]

SeededLost(l) ==
    [item |-> "claiming", claims |-> [l.claims EXCEPT !.seed = "pending"],
     match |-> "seed"]

EmptyOrder == [st |-> "none", ver |-> 0, log |-> <<>>, rated |-> FALSE]
EmptyEvent == [open |-> FALSE, count |-> 0, seats |-> [u \in Attendees |-> "none"]]
EmptyLost == [item |-> "none", claims |-> [seed |-> "none", own |-> "none"],
              match |-> "none"]
EmptyTopics == [seed |-> "none", own |-> "none"]
EmptyModels == [seed |-> "none", own |-> "none"]

(* An empty database.                                                      *)
StackInit ==
    /\ api = "down" /\ job = "none" /\ schema = 0
    /\ groups = {} /\ kinds = {}
    /\ admin = [edited |-> {}, taken |-> FALSE]
    /\ order = EmptyOrder /\ event = EmptyEvent /\ lost = EmptyLost
    /\ topics = EmptyTopics /\ models = EmptyModels
    /\ clean = 0 /\ work = 0

-----------------------------------------------------------------------------
(* The operator *)

(* docker compose up: the job runs again, beside an API that still runs.   *)
ComposeUp ==
    /\ job \in {"none", "refused", "unfit"}
    /\ job' = "migrate"
    /\ UNCHANGED <<api, schema, rows, clean, work>>

(* docker compose down, a crash of the machine: what has not committed is  *)
(* rolled back.                                                            *)
ComposeDown ==
    /\ api = "up" \/ job \notin {"none", "refused", "unfit"}
    /\ api' = "down" /\ job' = "none"
    /\ UNCHANGED <<schema, rows, clean, work>>

Stopped == api = "down" /\ job = "none"

(* What the downgrade to version v takes from the rows that users changed. *)
EditsLost(v) ==
    (IF v < 8 THEN {"visibility", "base_name"} ELSE {})
    \cup (IF v < 5 THEN ByCatalog ELSE {})
    \cup (IF v < 3 THEN {"balance"} ELSE {})
    \cup (IF v < 1 THEN Settings ELSE {})

Downgraded(v) ==
    /\ schema' = v
    /\ kinds' = Left(v + 1)
    /\ groups' = groups \ UNION {Gone[w] : w \in v + 1 .. schema}
    /\ admin' = [edited |-> admin.edited \ EditsLost(v), taken |-> admin.taken /\ v >= 1]
    /\ order' = IF v < 2 THEN EmptyOrder ELSE order
    /\ event' = IF v < 7 THEN EmptyEvent ELSE event
    /\ lost' = IF v < 7 THEN EmptyLost ELSE lost
    /\ topics' = IF v < 7 THEN EmptyTopics ELSE topics
    /\ models' = IF v < 5 THEN EmptyModels ELSE models
    /\ clean' = 0
    /\ UNCHANGED <<api, job, work>>

(* The transaction fails.                                                  *)
Unfit ==
    /\ job' = "unfit"
    /\ UNCHANGED <<api, schema, rows, clean, work>>

(* alembic downgrade v, with the API stopped.                              *)
Downgrade(v) ==
    /\ Stopped /\ v < schema
    /\ IF Fits(v) THEN Downgraded(v) ELSE Unfit

-----------------------------------------------------------------------------
(* The job *)

(* alembic upgrade head: every constraint it replaces admits more.         *)
Migrate ==
    /\ job = "migrate"
    /\ schema' = Newest /\ job' = "demo"
    /\ UNCHANGED <<api, rows, clean, work>>

(* The unique indexes that the upserts of seed_demo do not name: the mail  *)
(* of live accounts, the names of live topics, the active claims of a      *)
(* claimant on an item, the matches of a pair of items.                    *)
DemoFits ==
    /\ ~admin.taken
    /\ topics.own # "demo"
    /\ lost.claims.own \notin {"pending", "verified"}
    /\ lost.match # "own"

Demo ==
    /\ job = "demo" /\ DemoFits
    /\ job' = "knowledge"
    /\ groups' = Installed(groups)
    /\ admin' = [admin EXCEPT !.edited = @ \ ByDemo]
    /\ order' = SeededOrder(order)
    /\ event' = SeededEvent(event)
    /\ lost' = SeededLost(lost)
    /\ topics' = [topics EXCEPT !.seed = "demo"]
    /\ clean' = IF clean = 0 THEN 1 ELSE clean
    /\ UNCHANGED <<api, schema, kinds, models, work>>

(* The public knowledge base; its name is written only once.               *)
Knowledge ==
    /\ job = "knowledge"
    /\ job' = "catalog"
    /\ groups' = groups \cup {"rag_configs"}
                 \cup (IF "users" \in groups THEN KnowledgeGroups ELSE {})
    /\ admin' = [admin EXCEPT !.edited = @ \ ByKnowledge]
    /\ clean' = IF clean = 1 THEN 2 ELSE clean
    /\ UNCHANGED <<api, schema, kinds, order, event, lost, topics, models, work>>

(* One active model per purpose.                                           *)
CatalogFits == models.own # "active"

(* The catalogue is written, the job has ended, and the API starts.        *)
Catalog ==
    /\ job = "catalog" /\ CatalogFits
    /\ job' = "none" /\ api' = "up"
    /\ groups' = groups \cup AgentGroups
    /\ admin' = [admin EXCEPT !.edited = @ \ ByCatalog]
    /\ models' = [models EXCEPT !.seed = "active"]
    /\ clean' = IF clean = 2 THEN 3 ELSE clean
    /\ UNCHANGED <<schema, kinds, order, event, lost, topics, work>>

(* A command fails: the job exits, what it wrote before stays, and an API  *)
(* that is not running is not started.                                     *)
JobRefused ==
    /\ \/ job = "demo" /\ ~DemoFits
       \/ job = "catalog" /\ ~CatalogFits
    /\ job' = "refused"
    /\ UNCHANGED <<api, schema, rows, clean, work>>

-----------------------------------------------------------------------------
(* Users and administrators *)

Work == api = "up" /\ work < MaxOperations /\ work' = work + 1 /\ clean' = 0

Edit ==
    /\ Work
    /\ \E s \in Settings \ admin.edited : admin' = [admin EXCEPT !.edited = @ \cup {s}]
    /\ UNCHANGED <<api, job, schema, groups, kinds, order, event, lost, topics, models>>

(* An account is created with a mail address that is free.                 *)
TakeMail ==
    /\ Work
    /\ "mail" \in admin.edited
    /\ admin' = [admin EXCEPT !.taken = TRUE]
    /\ UNCHANGED <<api, job, schema, groups, kinds, order, event, lost, topics, models>>

(* A run asks and is answered, a tool waits for its approval, a word or a  *)
(* case concerns the agents.                                               *)
NewRow ==
    /\ Work
    /\ \E ks \in {{"word"}, {"case"}, {"run", "input"}, {"step"}, {"command"}} :
        kinds' = kinds \cup ks
    /\ UNCHANGED <<api, job, schema, groups, admin, order, event, lost, topics, models>>

Legal == { <<"submitted", "accepted">>, <<"submitted", "rejected">>,
           <<"submitted", "cancelled">>, <<"accepted", "processing">>,
           <<"processing", "completed">> }

MoveOrder ==
    /\ Work
    /\ \E move \in Legal :
        /\ order.st = move[1]
        /\ order' = [order EXCEPT !.st = move[2], !.ver = @ + 1,
                        !.log = Append(@, [from |-> move[1], to |-> move[2]])]
    /\ UNCHANGED <<api, job, schema, groups, kinds, admin, event, lost, topics, models>>

RateOrder ==
    /\ Work
    /\ order.st = "completed" /\ ~order.rated
    /\ order' = [order EXCEPT !.rated = TRUE]
    /\ UNCHANGED <<api, job, schema, groups, kinds, admin, event, lost, topics, models>>

Register(u) ==
    /\ Work
    /\ event.open /\ event.seats[u] # "registered" /\ event.count < Capacity
    /\ event' = [event EXCEPT !.count = @ + 1, !.seats[u] = "registered"]
    /\ UNCHANGED <<api, job, schema, groups, kinds, admin, order, lost, topics, models>>

CancelSeat(u) ==
    /\ Work
    /\ event.seats[u] = "registered"
    /\ event' = [event EXCEPT !.count = IF @ > 0 THEN @ - 1 ELSE 0,
                              !.seats[u] = "cancelled"]
    /\ UNCHANGED <<api, job, schema, groups, kinds, admin, order, lost, topics, models>>

CancelEvent ==
    /\ Work
    /\ event.open
    /\ event' = [event EXCEPT !.open = FALSE]
    /\ UNCHANGED <<api, job, schema, groups, kinds, admin, order, lost, topics, models>>

ActiveClaims == {k \in {"seed", "own"} : lost.claims[k] \in {"pending", "verified"}}

(* The claimant of the seeded claim claims the item again.                 *)
NewClaim ==
    /\ Work
    /\ lost.item \in {"published", "claiming"} /\ ActiveClaims = {}
    /\ lost' = [lost EXCEPT !.item = "claiming", !.claims.own = "pending"]
    /\ UNCHANGED <<api, job, schema, groups, kinds, admin, order, event, topics, models>>

DecideClaim(k) ==
    /\ Work
    /\ lost.claims[k] = "pending" /\ lost.item # "deleted"
    /\ \E verdict \in {"verified", "rejected"} :
        lost' = [lost EXCEPT !.claims[k] = verdict,
            !.item = IF verdict = "rejected" /\ ActiveClaims = {k} THEN "published" ELSE @]
    /\ UNCHANGED <<api, job, schema, groups, kinds, admin, order, event, topics, models>>

(* Both sides have confirmed.                                              *)
CompleteClaim(k) ==
    /\ Work
    /\ lost.claims[k] = "verified"
    /\ lost' = [lost EXCEPT !.claims[k] = "completed", !.item = "completed"]
    /\ UNCHANGED <<api, job, schema, groups, kinds, admin, order, event, topics, models>>

DeleteItem ==
    /\ Work
    /\ lost.item # "deleted" /\ ActiveClaims = {}
    /\ lost' = [lost EXCEPT !.item = "deleted"]
    /\ UNCHANGED <<api, job, schema, groups, kinds, admin, order, event, topics, models>>

(* The matches of an item are computed again: a pair that stays keeps its  *)
(* row, one that comes back gets a new one.                                *)
Recomputed(m, similar) ==
    IF similar THEN IF m = "none" THEN "own" ELSE m ELSE "none"

(* A new text is published; its matches are computed again, as they are    *)
(* whenever somebody looks at them.                                        *)
ReviseItem ==
    /\ Work
    /\ lost.item \in {"published", "claiming"}
    /\ \E similar \in BOOLEAN :
        lost' = [lost EXCEPT !.item = "published", !.match = Recomputed(@, similar)]
    /\ UNCHANGED <<api, job, schema, groups, kinds, admin, order, event, topics, models>>

ListMatches ==
    /\ Work
    /\ lost.item # "deleted"
    /\ \E similar \in BOOLEAN : lost' = [lost EXCEPT !.match = Recomputed(@, similar)]
    /\ UNCHANGED <<api, job, schema, groups, kinds, admin, order, event, topics, models>>

(* The seeded topic gets another name or is deleted.                       *)
ChangeTopic ==
    /\ Work
    /\ topics.seed # "deleted"
    /\ topics' \in {[topics EXCEPT !.seed = "renamed"], [topics EXCEPT !.seed = "deleted"]}
    /\ UNCHANGED <<api, job, schema, groups, kinds, admin, order, event, lost, models>>

(* A topic is created under a name that no live topic has.                 *)
CreateTopic ==
    /\ Work
    /\ topics.own = "none"
    /\ \E name \in {"demo", "other"} \ {topics.seed} :
        topics' = [topics EXCEPT !.own = name]
    /\ UNCHANGED <<api, job, schema, groups, kinds, admin, order, event, lost, models>>

(* A trained router is registered and evaluated.                           *)
AddModel ==
    /\ Work
    /\ models.own = "none"
    /\ models' = [models EXCEPT !.own = "candidate"]
    /\ UNCHANGED <<api, job, schema, groups, kinds, admin, order, event, lost, topics>>

(* Activation deactivates the other model of the purpose.                  *)
ActivateModel(m) ==
    /\ Work
    /\ models[m] \in {"candidate", "inactive"}
    /\ models' = [k \in DOMAIN models |->
                     IF k = m THEN "active"
                     ELSE IF models[k] = "active" THEN "inactive" ELSE models[k]]
    /\ UNCHANGED <<api, job, schema, groups, kinds, admin, order, event, lost, topics>>

DeactivateModel(m) ==
    /\ Work
    /\ models[m] = "active"
    /\ models' = [models EXCEPT ![m] = "inactive"]
    /\ UNCHANGED <<api, job, schema, groups, kinds, admin, order, event, lost, topics>>

JobStep == Migrate \/ Demo \/ Knowledge \/ Catalog \/ JobRefused

StackNext ==
    \/ ComposeUp \/ ComposeDown
    \/ \E v \in 0 .. Newest - 1 : Downgrade(v)
    \/ Migrate \/ Demo \/ Knowledge \/ Catalog \/ JobRefused
    \/ Edit \/ TakeMail \/ NewRow
    \/ MoveOrder \/ RateOrder
    \/ CancelEvent \/ \E u \in Attendees : Register(u) \/ CancelSeat(u)
    \/ NewClaim \/ DeleteItem \/ ReviseItem \/ ListMatches
    \/ \E k \in {"seed", "own"} : DecideClaim(k) \/ CompleteClaim(k)
    \/ ChangeTopic \/ CreateTopic
    \/ AddModel \/ \E m \in {"seed", "own"} : ActivateModel(m) \/ DeactivateModel(m)

StackSpec == StackInit /\ [][StackNext]_stackVars

-----------------------------------------------------------------------------
(* Properties *)

ClaimStatus == {"none", "pending", "verified", "rejected", "completed"}
ModelStatus == {"none", "candidate", "active", "inactive"}
OrderEvents == [from : OrderStatus \cup {"none"}, to : OrderStatus]
Orders ==
    [st : OrderStatus \cup {"none"}, ver : Nat, log : Seq(OrderEvents), rated : BOOLEAN]
Events ==
    [open : BOOLEAN, count : Nat,
     seats : [Attendees -> {"none", "registered", "cancelled"}]]
Items ==
    [item : {"none", "published", "claiming", "completed", "deleted"},
     claims : [seed : ClaimStatus, own : ClaimStatus], match : {"none", "seed", "own"}]
TopicPairs ==
    [seed : {"none", "demo", "renamed", "deleted"}, own : {"none", "demo", "other"}]
ModelPairs == [seed : ModelStatus, own : ModelStatus]

StackTypeOK ==
    /\ api \in {"down", "up"}
    /\ job \in {"none", "migrate", "demo", "knowledge", "catalog", "refused", "unfit"}
    /\ schema \in 0 .. Newest
    /\ groups \subseteq AllGroups /\ kinds \subseteq Kinds
    /\ admin \in [edited : SUBSET Settings, taken : BOOLEAN]
    /\ order \in Orders /\ event \in Events /\ lost \in Items
    /\ topics \in TopicPairs /\ models \in ModelPairs
    /\ clean \in 0 .. 3 /\ work \in 0 .. MaxOperations

(* Whoever reaches the API finds every group of rows that the seeds write, *)
(* in whatever order restarts, crashes and downgrades happened: no         *)
(* statement that silently leaves out what is not there yet (INSERT ...    *)
(* SELECT, subselects) comes before the rows it takes.                     *)
CompleteWhenUp == api = "up" => groups = AllGroups

(* The counter of the seeded event never exceeds the seats that are taken, *)
(* though every start sets it to one whoever is registered: the last seat  *)
(* is never refused.                                                       *)
CountNeverTooHigh ==
    event.count <= Cardinality({u \in Attendees : event.seats[u] = "registered"})

(* No row that the newer schema admits keeps a database from going back to *)
(* an older one: each downgrade removes or rewrites what the CHECK it      *)
(* restores refuses.                                                       *)
RowsFitOlderSchema == job # "unfit"

SubmittedLater(log) == SubSeq(log, Len(Path) + 1, Len(log))

(* The job of a start, run over a database that is in use, leaves what     *)
(* users wrote and no seed owns: seats of others, later events and the     *)
(* rating of the order, their claims, topics and models, custom grants.    *)
OwnRowsStay ==
    [][JobStep =>
        /\ \A u \in Attendees \ {DemoUser} : event'.seats[u] = event.seats[u]
        /\ SubmittedLater(order'.log) = SubmittedLater(order.log)
        /\ order.rated => order'.rated
        /\ lost'.claims.own = lost.claims.own
        /\ topics'.own = topics.own /\ models'.own = models.own
        /\ admin'.edited \cap Kept = admin.edited \cap Kept]_stackVars

(* Once its three seed commands have run without an operation in between,  *)
(* the job may be started again as often as one likes, stopped anywhere:   *)
(* nothing changes.                                                        *)
RepeatIsIdle == [][clean = 3 /\ JobStep => UNCHANGED rows]_stackVars

=============================================================================
