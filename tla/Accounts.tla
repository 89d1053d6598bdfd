------------------------------- MODULE Accounts -------------------------------
(***************************************************************************)
(* Accounts of the platform: sessions (login, rotation of refresh tokens,  *)
(* logout), accounts (creation, status, roles) and roles (creation,        *)
(* permissions, deletion).                                                 *)
(*                                                                         *)
(* A request is a transaction of PostgreSQL under READ COMMITTED.  It is   *)
(* one step when it decides on rows it holds; it is two when it decides on *)
(* rows it has only read, or may wait for a row while it holds another.    *)
(* Inserting a token takes a key share lock on its account, which a        *)
(* request that holds the account FOR UPDATE makes wait.                   *)
(***************************************************************************)
EXTENDS Integers, Sequences, FiniteSets

CONSTANTS
    Users,
    SuperAdmin,   \* the role whose holders must not be disabled to the last
    Roles,        \* codes of the other roles
    Requests,     \* requests in flight
    MaxFailures,  \* auth.max_failed_logins; more failures act like these
    MaxTokens,    \* bound: refresh tokens issued
    MaxEdits,     \* bound: requests of administrators
    MaxWork       \* bound: the two together

ASSUME AccountsAssumption ==
    /\ SuperAdmin \notin Roles
    /\ MaxFailures \in Nat \ {0}
    /\ {MaxTokens, MaxEdits, MaxWork} \subseteq Nat

AllRoles == Roles \cup {SuperAdmin}
UserStatus == {"active", "disabled", "locked"}
TokenStatus == {"active", "rotated", "revoked"}

VARIABLES
    users,   \* users[u]: st, locked (locked_until is ahead), fails, roles,
             \* ver; version 0 before the account exists
    roles,   \* roles[c]: manage (its permissions include those of an
             \* administrator), ver; version 0 when there is no such role
    tokens,  \* refresh tokens: owner, st, from (the token it replaces or 0);
             \* one that expired counts as revoked
    tx,      \* tx[r]: what the request r has read and holds
    edits    \* requests of administrators so far

vars == <<users, roles, tokens, tx, edits>>

Idle == [op |-> "none"]
Tokens == 1 .. MaxTokens

UserRows ==
    [st : UserStatus, locked : BOOLEAN, fails : 0 .. MaxFailures,
     roles : SUBSET AllRoles, ver : Nat]
RoleRows == [manage : BOOLEAN, ver : Nat]
TokenRows == [owner : Users, st : TokenStatus, from : 0 .. MaxTokens]

(* The seeded roles, and accounts of administrators.                       *)
Init ==
    /\ users \in [Users -> {[st |-> "active", locked |-> FALSE, fails |-> 0,
                             roles |-> {SuperAdmin}, ver |-> v] : v \in {0, 1}}]
    /\ \E u \in Users : users[u].ver = 1
    /\ roles = [c \in AllRoles |->
                  [manage |-> c = SuperAdmin, ver |-> 1]]
    /\ tokens = <<>>
    /\ tx = [r \in Requests |-> Idle]
    /\ edits = 0

Exists(u) == users[u].ver > 0
RoleExists(c) == roles[c].ver > 0
MayIssue == Len(tokens) < MaxTokens /\ Len(tokens) + edits < MaxWork
MayEdit == edits < MaxEdits /\ Len(tokens) + edits < MaxWork
End(r) == tx' = [tx EXCEPT ![r] = Idle]

(* A request holds an account FOR UPDATE while it revokes its tokens ...   *)
HoldsUser(r, u) == tx[r].op = "disable" /\ tx[r].user = u
(* ... and a token while it decides on it.                                 *)
HoldsToken(r, t) == tx[r].op \in {"rotate", "sweep"} /\ tx[r].token = t
UserFree(r, u) == \A q \in Requests \ {r} : ~HoldsUser(q, u)
TokenFree(r, t) == \A q \in Requests \ {r} : ~HoldsToken(q, t)

-----------------------------------------------------------------------------
(* Sessions *)

ActiveOf(u) == {t \in DOMAIN tokens : tokens[t].owner = u /\ tokens[t].st = "active"}

Revoked(S) == [t \in DOMAIN tokens |->
    IF t \in S /\ tokens[t].st = "active"
    THEN [tokens[t] EXCEPT !.st = "revoked"] ELSE tokens[t]]

Issued(toks, u, t) ==
    Append(toks, [owner |-> u, st |-> "active", from |-> t])

(* record_failed_login(): one UPDATE counts and locks.                     *)
Failed(u) ==
    IF u.st = "disabled" THEN u
    ELSE IF u.fails + 1 >= MaxFailures
    THEN [u EXCEPT !.fails = MaxFailures, !.st = "locked", !.locked = TRUE]
    ELSE [u EXCEPT !.fails = @ + 1]

(* record_successful_login(): nothing happens to a disabled account.       *)
LoggedIn(u) ==
    IF u.st = "disabled" THEN u
    ELSE [u EXCEPT !.fails = 0, !.st = "active", !.locked = FALSE]

(* login(): the account is read and the password compared.                 *)
LoginRead(r, u) ==
    /\ tx[r] = Idle
    /\ Exists(u) /\ users[u].st # "disabled" /\ ~users[u].locked
    /\ \E op \in {"login", "guess"} :
        /\ op = "login" => MayIssue
        /\ tx' = [tx EXCEPT ![r] = [op |-> op, user |-> u]]
    /\ UNCHANGED <<users, roles, tokens, edits>>

(* Whatever the update of the account matched, the session is issued.      *)
Login(r) ==
    LET u == tx[r].user IN
    /\ tx[r].op = "login"
    /\ UserFree(r, u)
    /\ MayIssue
    /\ users' = [users EXCEPT ![u] = LoggedIn(@)]
    /\ tokens' = Issued(tokens, u, 0)
    /\ End(r)
    /\ UNCHANGED <<roles, edits>>

Guess(r) ==
    LET u == tx[r].user IN
    /\ tx[r].op = "guess"
    /\ UserFree(r, u)
    /\ users' = [users EXCEPT ![u] = Failed(@)]
    /\ End(r)
    /\ UNCHANGED <<roles, tokens, edits>>

LockLapses(u) ==
    /\ users[u].locked
    /\ users' = [users EXCEPT ![u].locked = FALSE]
    /\ UNCHANGED <<roles, tokens, tx, edits>>

Expire(t) ==
    /\ tokens[t].st = "active"
    /\ \A r \in Requests : ~HoldsToken(r, t)
    /\ tokens' = Revoked({t})
    /\ UNCHANGED <<users, roles, tx, edits>>

(* refresh(): the token is locked, then its account is read.  A token that *)
(* was exchanged before, or an account that is not active, has all tokens  *)
(* revoked: those the UPDATE sees, once nobody holds them.                 *)
RefreshLock(r, t) ==
    LET u == tokens[t].owner IN
    /\ tx[r] = Idle
    /\ TokenFree(r, t)
    /\ tokens[t].st # "revoked"
    /\ tx' = [tx EXCEPT ![r] =
         IF tokens[t].st = "active" /\ users[u].st = "active"
         THEN [op |-> "rotate", token |-> t]
         ELSE [op |-> "sweep", token |-> t, seen |-> ActiveOf(u)]]
    /\ UNCHANGED <<users, roles, tokens, edits>>

(* Mutant: the old token stays valid.                                      *)
KeptToken(t) == tokens

(* mark_rotated()                                                          *)
RotatedToken(t) == [tokens EXCEPT ![t].st = "rotated"]

Rotate(r) ==
    LET t == tx[r].token IN
    /\ tx[r].op = "rotate"
    /\ tokens[t].st = "active"
    /\ UserFree(r, tokens[t].owner)
    /\ MayIssue
    /\ tokens' = Issued(RotatedToken(t), tokens[t].owner, t)
    /\ End(r)
    /\ UNCHANGED <<users, roles, edits>>

(* An UPDATE waits for every row it has to change.                         *)
Swept(r) == \A t \in tx[r].seen : tokens[t].st = "active" => TokenFree(r, t)

RefuseAll(r) ==
    /\ tx[r].op = "sweep"
    /\ Swept(r)
    /\ tokens' = Revoked(tx[r].seen)
    /\ End(r)
    /\ UNCHANGED <<users, roles, edits>>

Logout(t) ==
    /\ \A r \in Requests : ~HoldsToken(r, t)
    /\ tokens[t].st = "active"
    /\ tokens' = Revoked({t})
    /\ UNCHANGED <<users, roles, tx, edits>>

(* The transaction fails, or is chosen to end a deadlock.                  *)
Rollback(r) ==
    /\ tx[r] # Idle
    /\ End(r)
    /\ UNCHANGED <<users, roles, tokens, edits>>

-----------------------------------------------------------------------------
(* Administration: requests carry the version their client has read *)

(* get_current_user(): an access token counts while its account is open.   *)
Authenticated(u) == Exists(u) /\ users[u].st = "active"

(* The permissions of an account are those of its roles at that moment.    *)
Permitted(u) == \E c \in users[u].roles : roles[c].manage

(* require_permissions()                                                   *)
MayManage(u) == Authenticated(u) /\ Permitted(u)

Begin(r, request) ==
    /\ tx[r] = Idle
    /\ MayEdit
    /\ edits' = edits + 1
    /\ \E a \in Users : MayManage(a)
    /\ tx' = [tx EXCEPT ![r] = request]
    /\ UNCHANGED <<users, roles, tokens>>

BeginUser(r, u) ==
    /\ Exists(u)
    /\ \/ \E st \in {"active", "disabled"} : Begin(r,
             [op |-> "update", user |-> u, ver |-> users[u].ver, st |-> st])
       \/ \E S \in SUBSET AllRoles : Begin(r,
             [op |-> "roles", user |-> u, ver |-> users[u].ver,
              had |-> users[u].roles, roles |-> S])

BeginRole(r, c) ==
    /\ RoleExists(c)
    /\ \/ Begin(r, [op |-> "rename", role |-> c, ver |-> roles[c].ver])
       \/ \E b \in BOOLEAN : Begin(r,
             [op |-> "permissions", role |-> c, ver |-> roles[c].ver,
              had |-> roles[c].manage, manage |-> b])

(* create_user() with a new idempotency key.                               *)
CreateUser(u) ==
    /\ ~Exists(u)
    /\ MayEdit
    /\ \E a \in Users : MayManage(a)
    /\ \E S \in SUBSET {c \in AllRoles : RoleExists(c)} :
        users' = [users EXCEPT ![u] =
            [st |-> "active", locked |-> FALSE, fails |-> 0, roles |-> S, ver |-> 1]]
    /\ edits' = edits + 1
    /\ UNCHANGED <<roles, tokens, tx>>

ActiveSuperAdmins ==
    {u \in Users : Exists(u) /\ users[u].st = "active" /\ SuperAdmin \in users[u].roles}

(* Rows of other accounts are counted as they are committed, unlocked.     *)
MayDisable(u) ==
    users[u].st # "disabled" /\ SuperAdmin \in users[u].roles
        => Cardinality(ActiveSuperAdmins) > 1

Reactivated(u) ==
    [u EXCEPT !.st = "active", !.ver = @ + 1, !.fails = 0, !.locked = FALSE]

(* update_user() to active.                                                *)
Activate(r) ==
    LET u == tx[r].user IN
    /\ tx[r].op = "update" /\ tx[r].st = "active"
    /\ UserFree(r, u)
    /\ users[u].ver = tx[r].ver
    /\ users' = [users EXCEPT ![u] = Reactivated(@)]
    /\ End(r)
    /\ UNCHANGED <<roles, tokens, edits>>

(* update_user() to disabled: the account is locked and its tokens are     *)
(* read ...                                                                *)
DisableLock(r) ==
    LET u == tx[r].user IN
    /\ tx[r].op = "update" /\ tx[r].st = "disabled"
    /\ UserFree(r, u)
    /\ users[u].ver = tx[r].ver
    /\ MayDisable(u)
    /\ tx' = [tx EXCEPT ![r] =
                [op |-> "disable", user |-> u, seen |-> ActiveOf(u)]]
    /\ UNCHANGED <<users, roles, tokens, edits>>

(* Mutant: the tokens stay.                                                *)
DisableAlone(r) ==
    /\ tx[r].op = "disable"
    /\ users' = [users EXCEPT ![tx[r].user].st = "disabled",
                             ![tx[r].user].ver = @ + 1]
    /\ End(r)
    /\ UNCHANGED <<roles, tokens, edits>>

(* ... and revoked once nobody else holds one.                             *)
Disable(r) ==
    LET u == tx[r].user IN
    /\ tx[r].op = "disable"
    /\ Swept(r)
    /\ tokens' = Revoked(tx[r].seen)
    /\ users' = [users EXCEPT ![u].st = "disabled", ![u].ver = @ + 1]
    /\ End(r)
    /\ UNCHANGED <<roles, edits>>

(* Mutant: the version is compared and not raised.                         *)
AssignedQuietly(u, S) == [u EXCEPT !.roles = S]

Assigned(u, S) == [u EXCEPT !.roles = S, !.ver = @ + 1]

(* replace_user_roles()                                                    *)
ReplaceRoles(r) ==
    LET u == tx[r].user IN
    /\ tx[r].op = "roles"
    /\ UserFree(r, u)
    /\ users[u].ver = tx[r].ver
    /\ \A c \in tx[r].roles : RoleExists(c)
    /\ users' = [users EXCEPT ![u] = Assigned(@, tx[r].roles)]
    /\ End(r)
    /\ UNCHANGED <<roles, tokens, edits>>

CreateRole(c) ==
    /\ ~RoleExists(c)
    /\ MayEdit
    /\ \E a \in Users : MayManage(a)
    /\ \E b \in BOOLEAN : roles' = [roles EXCEPT ![c] = [manage |-> b, ver |-> 1]]
    /\ edits' = edits + 1
    /\ UNCHANGED <<users, tokens, tx>>

(* update_role_if_version(): the row is the client's or nothing changes.   *)
RoleUnchanged(r) == roles[tx[r].role].ver = tx[r].ver

RenameRole(r) ==
    /\ tx[r].op = "rename"
    /\ RoleUnchanged(r)
    /\ roles' = [roles EXCEPT ![tx[r].role].ver = @ + 1]
    /\ End(r)
    /\ UNCHANGED <<users, tokens, edits>>

ReplacePermissions(r) ==
    /\ tx[r].op = "permissions"
    /\ RoleUnchanged(r)
    /\ roles' = [roles EXCEPT ![tx[r].role] =
                   [manage |-> tx[r].manage, ver |-> @.ver + 1]]
    /\ End(r)
    /\ UNCHANGED <<users, tokens, edits>>

(* A system role, or one that is assigned, stays.  A role created again is *)
(* another row: requests about the deleted one find nothing.               *)
DeleteRole(c) ==
    /\ RoleExists(c) /\ c # SuperAdmin
    /\ MayEdit
    /\ \E a \in Users : MayManage(a)
    /\ \A u \in Users : Exists(u) => c \notin users[u].roles
    /\ roles' = [roles EXCEPT ![c] = [manage |-> FALSE, ver |-> 0]]
    /\ edits' = edits + 1
    /\ tx' = [r \in Requests |->
                IF \/ tx[r].op \in {"rename", "permissions"} /\ tx[r].role = c
                   \/ tx[r].op = "roles" /\ c \in tx[r].roles
                THEN Idle ELSE tx[r]]
    /\ UNCHANGED <<users, tokens>>

-----------------------------------------------------------------------------
Next ==
    \/ \E r \in Requests :
        \/ \E u \in Users : LoginRead(r, u) \/ BeginUser(r, u)
        \/ \E t \in DOMAIN tokens : RefreshLock(r, t)
        \/ \E c \in AllRoles : BeginRole(r, c)
        \/ Login(r) \/ Guess(r) \/ Rotate(r) \/ RefuseAll(r) \/ Rollback(r)
        \/ Activate(r) \/ DisableLock(r) \/ Disable(r) \/ ReplaceRoles(r)
        \/ RenameRole(r) \/ ReplacePermissions(r)
    \/ \E u \in Users : LockLapses(u) \/ CreateUser(u)
    \/ \E t \in DOMAIN tokens : Expire(t) \/ Logout(t)
    \/ \E c \in AllRoles : CreateRole(c) \/ DeleteRole(c)

Spec == Init /\ [][Next]_vars

-----------------------------------------------------------------------------
(* Safety *)

Transaction ==
    {Idle}
    \cup [op : {"login", "guess"}, user : Users]
    \cup [op : {"rotate"}, token : Tokens]
    \cup [op : {"sweep"}, token : Tokens, seen : SUBSET Tokens]
    \cup [op : {"update"}, user : Users, ver : Nat, st : UserStatus]
    \cup [op : {"disable"}, user : Users, seen : SUBSET Tokens]
    \cup [op : {"roles"}, user : Users, ver : Nat,
          had : SUBSET AllRoles, roles : SUBSET AllRoles]
    \cup [op : {"rename"}, role : AllRoles, ver : Nat]
    \cup [op : {"permissions"}, role : AllRoles, ver : Nat,
          had : BOOLEAN, manage : BOOLEAN]

(* Rows and requests hold what their columns and their guards admit, and a *)
(* role that is assigned exists.                                           *)
TypeOK ==
    /\ users \in [Users -> UserRows]
    /\ roles \in [AllRoles -> RoleRows]
    /\ tokens \in Seq(TokenRows) /\ Len(tokens) <= MaxTokens
    /\ tx \in [Requests -> Transaction]
    /\ edits \in 0 .. MaxEdits
    /\ \A u \in Users : \A c \in users[u].roles : RoleExists(c)

(* A refresh token is exchanged for one other at most, of the same account,*)
(* however often and by whoever it is presented.                           *)
OneSuccessor == \A s \in DOMAIN tokens : tokens[s].from # 0 =>
    /\ tokens[s].from < s
    /\ tokens[tokens[s].from].st = "rotated"
    /\ tokens[tokens[s].from].owner = tokens[s].owner
    /\ \A t \in DOMAIN tokens : tokens[t].from = tokens[s].from => t = s

(* An account with all its failures used up is not open: neither the login *)
(* that was under way, nor the administrator, leaves the counter behind.   *)
LockedAtLimit == \A u \in Users :
    users[u].fails = MaxFailures => users[u].st # "active"

(* No session of a disabled account is prolonged, not even by a request    *)
(* that had read the account before: the token it holds makes the          *)
(* administrator wait.                                                     *)
RefreshOfEnabled == [][\A t \in DOMAIN tokens :
    tokens[t].st # "rotated" /\ tokens'[t].st = "rotated"
        => users[tokens[t].owner].st # "disabled"]_vars

(* Roles and permissions are replaced only as the client had seen them.    *)
NoLostUpdate == [][\A r \in Requests :
    /\ tx[r].op = "roles" /\ users' # users /\ tx'[r] = Idle
        => tx[r].had = users[tx[r].user].roles
    /\ tx[r].op = "permissions" /\ roles' # roles /\ tx'[r] = Idle
                                /\ roles'[tx[r].role].ver > 0
        => tx[r].had = roles[tx[r].role].manage]_vars

=============================================================================
