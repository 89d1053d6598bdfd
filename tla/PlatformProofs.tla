---------------------------- MODULE PlatformProofs ----------------------------
(***************************************************************************)
(* Machine-checked proofs about Accounts, for any set of users, roles and  *)
(* requests, any number of tokens and any interleaving, and (at the end)   *)
(* about Deployment, for any attendees, seats, path of the seeded order    *)
(* and number of operations between two starts.                            *)
(***************************************************************************)
EXTENDS Accounts, Deployment, FiniteSetTheorems, SequenceTheorems,
        WellFoundedInduction, TLAPS

(* A token is held by one request.  One that is being exchanged is active, *)
(* and its account not disabled.                                           *)
Held(r) ==
    tx[r].op \in {"rotate", "sweep"} =>
        /\ tx[r].token \in DOMAIN tokens
        /\ \A q \in Requests \ {r} : ~HoldsToken(q, tx[r].token)
        /\ tx[r].op = "rotate" =>
              /\ tokens[tx[r].token].st = "active"
              /\ users[tokens[tx[r].token].owner].st # "disabled"

(* Whoever disables an account has seen all its active tokens.             *)
SeesAll(r) == tx[r].op = "disable" => ActiveOf(tx[r].user) \subseteq tx[r].seen

Sessions == \A r \in Requests : Held(r) /\ SeesAll(r)

(* What a client had seen is what the row holds while its version stays.   *)
AsSeen(r) ==
    /\ tx[r].op = "roles" =>
          /\ 0 < tx[r].ver /\ tx[r].ver <= users[tx[r].user].ver
          /\ tx[r].ver = users[tx[r].user].ver => tx[r].had = users[tx[r].user].roles
    /\ tx[r].op = "permissions" =>
          /\ 0 < tx[r].ver /\ tx[r].ver <= roles[tx[r].role].ver
          /\ tx[r].ver = roles[tx[r].role].ver => tx[r].had = roles[tx[r].role].manage

Versions == \A r \in Requests : AsSeen(r)

(* The role of the administrators stays, and an account that does not      *)
(* exist has no other.                                                     *)
Seeded ==
    /\ RoleExists(SuperAdmin)
    /\ \A u \in Users : ~Exists(u) => users[u].roles = {SuperAdmin}

IInv == TypeOK /\ OneSuccessor /\ Sessions /\ Versions /\ Seeded /\ LockedAtLimit

-----------------------------------------------------------------------------
(* What the operators say. *)

LEMMA TxOf ==
  ASSUME NEW t \in Transaction
  PROVE  /\ t.op \in {"none", "login", "guess", "rotate", "sweep", "update", "disable",
                      "roles", "rename", "permissions"}
         /\ t.op \in {"login", "guess", "update", "disable", "roles"} => t.user \in Users
         /\ t.op \in {"rotate", "sweep"} => t.token \in Tokens
         /\ t.op \in {"sweep", "disable"} => t.seen \subseteq Tokens
         /\ t.op \in {"update", "roles", "rename", "permissions"} => t.ver \in Nat
         /\ t.op \in {"rename", "permissions"} => t.role \in AllRoles
         /\ t.op = "roles" => t.roles \subseteq AllRoles
         /\ t.op = "permissions" => t.manage \in BOOLEAN
         /\ t.op = "none" => t = Idle
<1>1. t = Idle \/ t \in [op : {"login", "guess"}, user : Users]
      \/ t \in [op : {"rotate"}, token : Tokens]
      \/ t \in [op : {"sweep"}, token : Tokens, seen : SUBSET Tokens]
      \/ t \in [op : {"update"}, user : Users, ver : Nat, st : UserStatus]
      \/ t \in [op : {"disable"}, user : Users, seen : SUBSET Tokens]
      \/ t \in [op : {"roles"}, user : Users, ver : Nat,
                had : SUBSET AllRoles, roles : SUBSET AllRoles]
      \/ t \in [op : {"rename"}, role : AllRoles, ver : Nat]
      \/ t \in [op : {"permissions"}, role : AllRoles, ver : Nat,
                had : BOOLEAN, manage : BOOLEAN]
  BY DEF Transaction
<1> QED
  BY <1>1 DEF Idle

LEMMA IdleTyped == Idle \in Transaction /\ Idle.op = "none"
BY DEF Transaction, Idle

(* The rows an account can be rewritten to.                                *)
LEMMA UserRowsKept ==
  ASSUME NEW u \in UserRows, NEW S \in SUBSET AllRoles
  PROVE  /\ Failed(u) \in UserRows /\ Failed(u).roles = u.roles /\ Failed(u).ver = u.ver
         /\ Failed(u).st = "disabled" => u.st = "disabled"
         /\ Failed(u).fails = MaxFailures => Failed(u).st # "active" \/ Failed(u) = u
         /\ LoggedIn(u) \in UserRows /\ LoggedIn(u).roles = u.roles
         /\ LoggedIn(u).ver = u.ver /\ (LoggedIn(u).st = "disabled" => u.st = "disabled")
         /\ LoggedIn(u).fails = MaxFailures => LoggedIn(u) = u
         /\ Reactivated(u) \in UserRows /\ Reactivated(u).roles = u.roles
         /\ Reactivated(u).ver = u.ver + 1 /\ Reactivated(u).st = "active"
         /\ Reactivated(u).fails = 0
         /\ Assigned(u, S) \in UserRows /\ Assigned(u, S).roles = S
         /\ Assigned(u, S).ver = u.ver + 1 /\ Assigned(u, S).st = u.st
         /\ Assigned(u, S).fails = u.fails
<1> USE AccountsAssumption DEF UserRows, UserStatus
<1>1. /\ Failed(u) \in UserRows /\ Failed(u).roles = u.roles /\ Failed(u).ver = u.ver
      /\ Failed(u).st = "disabled" => u.st = "disabled"
      /\ Failed(u).fails = MaxFailures => Failed(u).st # "active" \/ Failed(u) = u
  <2>1. CASE u.st = "disabled"
    BY <2>1 DEF Failed
  <2>2. CASE u.st # "disabled" /\ u.fails + 1 >= MaxFailures
    <3> DEFINE a == [u EXCEPT !.fails = MaxFailures]
               b == [a EXCEPT !.st = "locked"]
               c == [b EXCEPT !.locked = TRUE]
    <3>1. a \in UserRows /\ a.roles = u.roles /\ a.ver = u.ver
      OBVIOUS
    <3> HIDE DEF a
    <3>2. b \in UserRows /\ b.roles = u.roles /\ b.ver = u.ver /\ b.st = "locked"
      BY <3>1
    <3> HIDE DEF b
    <3>3. c \in UserRows /\ c.roles = u.roles /\ c.ver = u.ver /\ c.st = "locked"
      BY <3>2
    <3>4. Failed(u) = c
      BY <2>2 DEF Failed, c, b, a
    <3> QED
      BY <3>3, <3>4
  <2>3. CASE u.st # "disabled" /\ ~(u.fails + 1 >= MaxFailures)
    <3>1. u.fails + 1 \in 0 .. MaxFailures /\ u.fails + 1 # MaxFailures
      BY <2>3
    <3>2. Failed(u) = [u EXCEPT !.fails = u.fails + 1]
      BY <2>3 DEF Failed
    <3> QED
      BY <3>1, <3>2
  <2> QED
    BY <2>1, <2>2, <2>3
<1>2. /\ LoggedIn(u) \in UserRows /\ LoggedIn(u).roles = u.roles
      /\ LoggedIn(u).ver = u.ver /\ (LoggedIn(u).st = "disabled" => u.st = "disabled")
      /\ LoggedIn(u).fails = MaxFailures => LoggedIn(u) = u
  <2> DEFINE a == [u EXCEPT !.fails = 0]
             b == [a EXCEPT !.st = "active"]
             c == [b EXCEPT !.locked = FALSE]
  <2>1. a \in UserRows /\ a.roles = u.roles /\ a.ver = u.ver /\ a.fails = 0
    OBVIOUS
  <2> HIDE DEF a
  <2>2. b \in UserRows /\ b.roles = u.roles /\ b.ver = u.ver /\ b.fails = 0 /\ b.st = "active"
    BY <2>1
  <2> HIDE DEF b
  <2>3. c \in UserRows /\ c.roles = u.roles /\ c.ver = u.ver /\ c.fails = 0 /\ c.st = "active"
    BY <2>2
  <2>4. LoggedIn(u) = IF u.st = "disabled" THEN u ELSE c
    BY DEF LoggedIn, c, b, a
  <2> HIDE DEF c
  <2> QED
    BY <2>3, <2>4
<1>3. /\ Reactivated(u) \in UserRows /\ Reactivated(u).roles = u.roles
      /\ Reactivated(u).ver = u.ver + 1 /\ Reactivated(u).st = "active"
      /\ Reactivated(u).fails = 0
  <2> DEFINE a == [u EXCEPT !.st = "active"]
             b == [a EXCEPT !.ver = @ + 1]
             c == [b EXCEPT !.fails = 0]
             d == [c EXCEPT !.locked = FALSE]
  <2>1. a \in UserRows /\ a.roles = u.roles /\ a.ver = u.ver /\ a.st = "active"
    OBVIOUS
  <2> HIDE DEF a
  <2>2. b \in UserRows /\ b.roles = u.roles /\ b.ver = u.ver + 1 /\ b.st = "active"
    BY <2>1
  <2> HIDE DEF b
  <2>3. c \in UserRows /\ c.roles = u.roles /\ c.ver = u.ver + 1 /\ c.fails = 0 /\ c.st = "active"
    BY <2>2
  <2> HIDE DEF c
  <2>4. d \in UserRows /\ d.roles = u.roles /\ d.ver = u.ver + 1 /\ d.fails = 0 /\ d.st = "active"
    BY <2>3
  <2>5. Reactivated(u) = d
    BY DEF Reactivated, d, c, b, a
  <2> QED
    BY <2>4, <2>5
<1>4. /\ Assigned(u, S) \in UserRows /\ Assigned(u, S).roles = S
      /\ Assigned(u, S).ver = u.ver + 1 /\ Assigned(u, S).st = u.st
      /\ Assigned(u, S).fails = u.fails
  <2> DEFINE a == [u EXCEPT !.roles = S]
             b == [a EXCEPT !.ver = @ + 1]
  <2>1. a \in UserRows /\ a.roles = S /\ a.ver = u.ver /\ a.st = u.st /\ a.fails = u.fails
    OBVIOUS
  <2> HIDE DEF a
  <2>2. b \in UserRows /\ b.roles = S /\ b.ver = u.ver + 1 /\ b.st = u.st /\ b.fails = u.fails
    BY <2>1
  <2>3. Assigned(u, S) = b
    BY DEF Assigned, b, a
  <2> QED
    BY <2>2, <2>3
<1> QED
  BY <1>1, <1>2, <1>3, <1>4

LEMMA RevokedFacts ==
  ASSUME tokens \in Seq(TokenRows), NEW S
  PROVE  /\ Revoked(S) \in Seq(TokenRows) /\ Len(Revoked(S)) = Len(tokens)
         /\ DOMAIN Revoked(S) = DOMAIN tokens
         /\ \A t \in DOMAIN tokens :
               /\ Revoked(S)[t].owner = tokens[t].owner
               /\ Revoked(S)[t].from = tokens[t].from
               /\ Revoked(S)[t].st =
                     IF t \in S /\ tokens[t].st = "active" THEN "revoked" ELSE tokens[t].st
<1> DEFINE row(t) == IF t \in S /\ tokens[t].st = "active"
                     THEN [tokens[t] EXCEPT !.st = "revoked"] ELSE tokens[t]
<1>1. Revoked(S) = [t \in DOMAIN tokens |-> row(t)]
  BY DEF Revoked
<1>2. ASSUME NEW t \in DOMAIN tokens
      PROVE  /\ row(t) \in TokenRows
             /\ row(t).owner = tokens[t].owner /\ row(t).from = tokens[t].from
             /\ row(t).st = IF t \in S /\ tokens[t].st = "active" THEN "revoked"
                            ELSE tokens[t].st
  <2>1. tokens[t] \in TokenRows
    OBVIOUS
  <2>2. CASE t \in S /\ tokens[t].st = "active"
    BY <2>1, <2>2 DEF TokenRows, TokenStatus
  <2>3. CASE ~(t \in S /\ tokens[t].st = "active")
    BY <2>1, <2>3
  <2> QED
    BY <2>2, <2>3
<1> HIDE DEF row
<1>3. DOMAIN tokens = 1 .. Len(tokens) /\ Len(tokens) \in Nat
  OBVIOUS
<1>4. Revoked(S) \in Seq(TokenRows) /\ Len(Revoked(S)) = Len(tokens)
  BY <1>1, <1>2, <1>3
<1> QED
  BY <1>1, <1>2, <1>4

LEMMA RotatedFacts ==
  ASSUME tokens \in Seq(TokenRows), NEW t \in DOMAIN tokens
  PROVE  /\ RotatedToken(t) \in Seq(TokenRows) /\ Len(RotatedToken(t)) = Len(tokens)
         /\ DOMAIN RotatedToken(t) = DOMAIN tokens
         /\ \A s \in DOMAIN tokens :
               /\ RotatedToken(t)[s].owner = tokens[s].owner
               /\ RotatedToken(t)[s].from = tokens[s].from
               /\ RotatedToken(t)[s].st = IF s = t THEN "rotated" ELSE tokens[s].st
<1> DEFINE row == [tokens[t] EXCEPT !.st = "rotated"]
<1>1. /\ row \in TokenRows /\ row.owner = tokens[t].owner /\ row.from = tokens[t].from
      /\ row.st = "rotated"
  <2>1. tokens[t] \in TokenRows
    OBVIOUS
  <2> QED
    BY <2>1 DEF TokenRows, TokenStatus
<1>2. RotatedToken(t) = [tokens EXCEPT ![t] = row]
  BY DEF RotatedToken
<1> HIDE DEF row
<1> QED
  BY <1>1, <1>2

-----------------------------------------------------------------------------
(* How a step leaves the tokens and the requests that hold them. *)

(* No request takes a token or an account.                                 *)
NoNewLocks ==
    /\ tx' \in [Requests -> Transaction]
    /\ \A q \in Requests :
          tx'[q] = tx[q] \/ tx'[q].op \notin {"rotate", "sweep", "disable"}

(* No client sees anything but what the rows hold.                         *)
SeenStays == \A q \in Requests : tx'[q] = tx[q] \/ AsSeen(q)'

(* No account whose token is being exchanged gets disabled.                *)
NoneDisabled == \A q \in Requests :
    tx'[q].op = "rotate" => users'[tokens[tx'[q].token].owner].st # "disabled"

LEMMA EndTyped ==
  ASSUME IInv, NEW r \in Requests, End(r)
  PROVE  NoNewLocks /\ SeenStays /\ tx'[r] = Idle /\ \A q \in Requests \ {r} : tx'[q] = tx[q]
<1>1. /\ tx' \in [Requests -> Transaction]
      /\ tx'[r] = Idle /\ \A q \in Requests \ {r} : tx'[q] = tx[q]
  BY IdleTyped DEF IInv, TypeOK, End
<1>2. NoNewLocks
  BY <1>1, IdleTyped DEF NoNewLocks
<1>3. AsSeen(r)'
  BY <1>1, IdleTyped DEF AsSeen
<1> QED
  BY <1>1, <1>2, <1>3 DEF SeenStays

(* What a request holds stays its own while no request takes anything.     *)
LEMMA StillAlone ==
  ASSUME NoNewLocks, NEW r \in Requests, Held(r), tx[r].op \in {"rotate", "sweep"}, tx'[r] = tx[r]
  PROVE  \A q \in Requests \ {r} : ~HoldsToken(q, tx[r].token)'
<1> SUFFICES ASSUME NEW q \in Requests \ {r}, tx'[q].op \in {"rotate", "sweep"},
                    tx'[q].token = tx[r].token
             PROVE  FALSE
  BY DEF HoldsToken
<1>1. tx'[q] = tx[q]
  BY IdleTyped DEF NoNewLocks
<1> QED
  BY <1>1 DEF Held, HoldsToken

LEMMA SuccessorsStay ==
  ASSUME IInv, DOMAIN tokens' = DOMAIN tokens,
         \A t \in DOMAIN tokens :
            /\ tokens'[t].owner = tokens[t].owner /\ tokens'[t].from = tokens[t].from
            /\ tokens[t].st = "rotated" => tokens'[t].st = "rotated"
  PROVE  OneSuccessor'
<1> SUFFICES ASSUME NEW s \in DOMAIN tokens, tokens[s].from # 0
             PROVE  /\ tokens[s].from < s
                    /\ tokens'[tokens[s].from].st = "rotated"
                    /\ tokens'[tokens[s].from].owner = tokens[s].owner
                    /\ \A t \in DOMAIN tokens : tokens[t].from = tokens[s].from => t = s
  BY DEF OneSuccessor
<1>1. /\ tokens[s].from < s
      /\ tokens[tokens[s].from].st = "rotated"
      /\ tokens[tokens[s].from].owner = tokens[s].owner
      /\ \A t \in DOMAIN tokens : tokens[t].from = tokens[s].from => t = s
  BY DEF IInv, OneSuccessor
<1>2. tokens[s].from \in DOMAIN tokens
  <2>1. tokens[s] \in TokenRows /\ DOMAIN tokens = 1 .. Len(tokens)
    BY DEF IInv, TypeOK
  <2>2. tokens[s].from \in Nat /\ s \in 1 .. Len(tokens) /\ Len(tokens) \in Nat
    BY <2>1, AccountsAssumption DEF TokenRows, IInv, TypeOK
  <2> QED
    BY <1>1, <2>1, <2>2
<1> QED
  BY <1>1, <1>2

LEMMA TokensSame ==
  ASSUME IInv, NoNewLocks, NoneDisabled, tokens' = tokens
  PROVE  OneSuccessor' /\ Sessions'
<1>1. OneSuccessor'
  BY DEF IInv, OneSuccessor
<1> SUFFICES ASSUME NEW r \in Requests PROVE Held(r)' /\ SeesAll(r)'
  BY <1>1 DEF Sessions
<1>2. Held(r) /\ SeesAll(r)
  BY DEF IInv, Sessions
<1>3. CASE tx'[r].op \notin {"rotate", "sweep", "disable"}
  BY <1>3, IdleTyped DEF Held, SeesAll
<1>4. CASE tx'[r] = tx[r]
  <2>1. Held(r)'
    BY <1>2, <1>4, IdleTyped DEF Held, HoldsToken, NoNewLocks, NoneDisabled
  <2> QED
    BY <1>2, <1>4, <2>1 DEF SeesAll, ActiveOf
<1> QED
  BY <1>3, <1>4 DEF NoNewLocks

(* Tokens nobody is exchanging are revoked.                                *)
LEMMA TokensRevoked ==
  ASSUME IInv, NEW S, tokens' = Revoked(S), NoNewLocks, NoneDisabled,
         \A q \in Requests : tx'[q].op = "rotate" => tx'[q].token \notin S
  PROVE  /\ OneSuccessor' /\ Sessions'
         /\ tokens' \in Seq(TokenRows) /\ Len(tokens') = Len(tokens)
<1>1. /\ tokens' \in Seq(TokenRows) /\ Len(tokens') = Len(tokens)
      /\ DOMAIN tokens' = DOMAIN tokens
      /\ \A t \in DOMAIN tokens :
            /\ tokens'[t].owner = tokens[t].owner
            /\ tokens'[t].from = tokens[t].from
            /\ tokens'[t].st =
                  IF t \in S /\ tokens[t].st = "active" THEN "revoked" ELSE tokens[t].st
  BY RevokedFacts DEF IInv, TypeOK
<1>2. OneSuccessor'
  BY <1>1, SuccessorsStay
<1>3. \A u : ActiveOf(u)' \subseteq ActiveOf(u)
  BY <1>1 DEF ActiveOf
<1> SUFFICES ASSUME NEW r \in Requests PROVE Held(r)' /\ SeesAll(r)'
  BY <1>1, <1>2 DEF Sessions
<1>4. Held(r) /\ SeesAll(r)
  BY DEF IInv, Sessions
<1>5. CASE tx'[r].op \notin {"rotate", "sweep", "disable"}
  BY <1>5, IdleTyped DEF Held, SeesAll
<1>6. CASE tx'[r] = tx[r]
  <2>1. Held(r)'
    <3> SUFFICES ASSUME tx[r].op \in {"rotate", "sweep"} PROVE Held(r)'
      BY <1>6 DEF Held
    <3>1. tx[r].token \in DOMAIN tokens'
      BY <1>1, <1>4 DEF Held
    <3>2. \A q \in Requests \ {r} : ~HoldsToken(q, tx[r].token)'
      BY <1>4, <1>6, StillAlone
    <3>3. tx[r].op = "rotate" =>
              /\ tokens'[tx[r].token].st = "active"
              /\ users'[tokens'[tx[r].token].owner].st # "disabled"
      BY <1>1, <1>4, <1>6 DEF Held, NoneDisabled
    <3> QED
      BY <1>6, <3>1, <3>2, <3>3 DEF Held
  <2> QED
    BY <1>3, <1>4, <1>6, <2>1 DEF SeesAll
<1> QED
  BY <1>5, <1>6 DEF NoNewLocks

(* A token is issued, to an account nobody is disabling; the one it        *)
(* replaces was active and is rotated.                                     *)
LEMMA TokenIssued ==
  ASSUME IInv, NEW r \in Requests, End(r), NoneDisabled,
         NEW toks \in Seq(TokenRows), DOMAIN toks = DOMAIN tokens,
         NEW u \in Users, NEW f \in 0 .. MaxTokens,
         UserFree(r, u), MayIssue,
         tokens' = Issued(toks, u, f),
         \A t \in DOMAIN tokens :
            /\ toks[t].owner = tokens[t].owner /\ toks[t].from = tokens[t].from
            /\ toks[t].st = IF t = f THEN "rotated" ELSE tokens[t].st,
         f # 0 => /\ f \in DOMAIN tokens /\ tokens[f].st = "active"
                  /\ tokens[f].owner = u
                  /\ tx[r].op = "rotate" /\ tx[r].token = f
  PROVE  /\ OneSuccessor' /\ Sessions'
         /\ tokens' \in Seq(TokenRows) /\ Len(tokens') <= MaxTokens
<1> DEFINE n == Len(toks) + 1
<1>0. /\ Len(toks) \in Nat /\ Len(toks) = Len(tokens) /\ DOMAIN toks = 1 .. Len(toks)
      /\ n \in Nat /\ \A t \in DOMAIN toks : t < n
  BY DEF IInv, TypeOK
<1>1. /\ tokens' \in Seq(TokenRows) /\ Len(tokens') = n
      /\ DOMAIN tokens' = DOMAIN tokens \cup {n} /\ n \notin DOMAIN tokens
      /\ \A t \in DOMAIN tokens : tokens'[t] = toks[t]
      /\ tokens'[n].owner = u /\ tokens'[n].st = "active" /\ tokens'[n].from = f
  <2> DEFINE row == [owner |-> u, st |-> "active", from |-> f]
  <2>1. row \in TokenRows /\ row.owner = u /\ row.st = "active" /\ row.from = f
    BY DEF TokenRows, TokenStatus
  <2>2. tokens' = Append(toks, row)
    BY DEF Issued
  <2> HIDE DEF row
  <2>3. /\ Append(toks, row) \in Seq(TokenRows) /\ Len(Append(toks, row)) = n
        /\ \A t \in DOMAIN toks : Append(toks, row)[t] = toks[t]
        /\ Append(toks, row)[n] = row
        /\ DOMAIN Append(toks, row) = DOMAIN toks \cup {n} /\ n \notin DOMAIN toks
    BY <1>0, <2>1
  <2> QED
    BY <2>1, <2>2, <2>3
<1>2. Len(tokens') <= MaxTokens
  BY <1>0, <1>1, AccountsAssumption DEF MayIssue
<1>a. \A t \in DOMAIN tokens : t < n
  BY <1>0
<1> HIDE DEF n
<1>3. \A t \in DOMAIN tokens :
         /\ tokens'[t].owner = tokens[t].owner /\ tokens'[t].from = tokens[t].from
         /\ tokens'[t].st = IF t = f THEN "rotated" ELSE tokens[t].st
  BY <1>1
<1>4. \A s \in DOMAIN tokens : tokens[s].from # 0 =>
         /\ tokens[s].from \in DOMAIN tokens
         /\ tokens[s].from < s
         /\ tokens[tokens[s].from].st = "rotated"
         /\ tokens[tokens[s].from].owner = tokens[s].owner
         /\ \A t \in DOMAIN tokens : tokens[t].from = tokens[s].from => t = s
  <2> SUFFICES ASSUME NEW s \in DOMAIN tokens, tokens[s].from # 0
               PROVE  tokens[s].from \in DOMAIN tokens
    BY DEF IInv, OneSuccessor
  <2>1. tokens[s].from < s
    BY DEF IInv, OneSuccessor
  <2>2. tokens[s] \in TokenRows /\ s \in 1 .. Len(tokens) /\ Len(tokens) \in Nat
        /\ DOMAIN tokens = 1 .. Len(tokens)
    BY DEF IInv, TypeOK
  <2>3. tokens[s].from \in Nat
    BY <2>2, AccountsAssumption DEF TokenRows
  <2> QED
    BY <2>1, <2>2, <2>3
<1>5. OneSuccessor'
  <2> SUFFICES ASSUME NEW s \in DOMAIN tokens', tokens'[s].from # 0
               PROVE  /\ tokens'[s].from < s
                      /\ tokens'[tokens'[s].from].st = "rotated"
                      /\ tokens'[tokens'[s].from].owner = tokens'[s].owner
                      /\ \A t \in DOMAIN tokens' : tokens'[t].from = tokens'[s].from => t = s
    BY DEF OneSuccessor
  <2>1. CASE s = n
    <3>1. f # 0 /\ f \in DOMAIN tokens /\ tokens[f].st = "active" /\ tokens[f].owner = u
      BY <1>1, <2>1
    <3>2. \A t \in DOMAIN tokens : tokens[t].from # f
      BY <1>4, <3>1
    <3> QED
      BY <1>1, <1>a, <1>3, <2>1, <3>1, <3>2
  <2>2. CASE s \in DOMAIN tokens
    <3>1. tokens[s].from \in DOMAIN tokens /\ tokens[tokens[s].from].st = "rotated"
      BY <1>3, <1>4, <2>2
    <3>2. f # tokens[s].from
      BY <3>1
    <3> QED
      BY <1>1, <1>3, <1>4, <2>2, <3>1, <3>2
  <2> QED
    BY <1>1, <2>1, <2>2
<1>6. /\ tx'[r] = Idle /\ \A q \in Requests \ {r} : tx'[q] = tx[q]
      /\ NoNewLocks
  BY EndTyped
<1> SUFFICES ASSUME NEW q \in Requests PROVE Held(q)' /\ SeesAll(q)'
  BY <1>1, <1>2, <1>5 DEF Sessions
<1>7. Held(q) /\ SeesAll(q)
  BY DEF IInv, Sessions
<1>8. CASE q = r
  BY <1>6, <1>8, IdleTyped DEF Held, SeesAll
<1>9. CASE q # r
  <2>1. tx'[q] = tx[q]
    BY <1>6, <1>9
  <2>2. Held(q)'
    <3> SUFFICES ASSUME tx[q].op \in {"rotate", "sweep"} PROVE Held(q)'
      BY <2>1 DEF Held
    <3>1. tx[q].token \in DOMAIN tokens /\ tx[q].token \in DOMAIN tokens'
      BY <1>1, <1>7 DEF Held
    <3>2. tx[q].token # f
      BY <1>7, <1>9, <1>0, <3>1 DEF Held, HoldsToken
    <3>3. \A o \in Requests \ {q} : ~HoldsToken(o, tx[q].token)'
      BY <1>6, <1>7, <2>1, StillAlone
    <3>4. tx[q].op = "rotate" =>
              /\ tokens'[tx[q].token].st = "active"
              /\ users'[tokens'[tx[q].token].owner].st # "disabled"
      BY <1>3, <1>7, <2>1, <3>1, <3>2 DEF Held, NoneDisabled
    <3> QED
      BY <2>1, <3>1, <3>3, <3>4 DEF Held
  <2>3. SeesAll(q)'
    <3> SUFFICES ASSUME tx[q].op = "disable" PROVE ActiveOf(tx[q].user)' \subseteq tx[q].seen
      BY <2>1 DEF SeesAll, ActiveOf
    <3>1. tx[q].user # u
      BY <1>9 DEF UserFree, HoldsUser
    <3>2. ActiveOf(tx[q].user)' \subseteq ActiveOf(tx[q].user)
      BY <1>1, <1>3, <2>1, <3>1 DEF ActiveOf
    <3> QED
      BY <1>7, <3>2 DEF SeesAll
  <2> QED
    BY <2>2, <2>3
<1> QED
  BY <1>8, <1>9

LEMMA NobodyDisabled ==
  ASSUME IInv, NoNewLocks, \A u \in Users : users'[u].st = "disabled" => users[u].st = "disabled"
  PROVE  NoneDisabled
<1> SUFFICES ASSUME NEW q \in Requests, tx'[q].op = "rotate"
             PROVE  users'[tokens[tx'[q].token].owner].st # "disabled"
  BY DEF NoneDisabled
<1>1. tx'[q] = tx[q]
  BY DEF NoNewLocks
<1>2. /\ tx[q].token \in DOMAIN tokens
      /\ users[tokens[tx[q].token].owner].st # "disabled"
  BY <1>1 DEF IInv, Sessions, Held
<1>3. tokens[tx[q].token].owner \in Users
  <2>1. tokens[tx[q].token] \in TokenRows
    BY <1>2 DEF IInv, TypeOK
  <2> QED
    BY <2>1 DEF TokenRows
<1> QED
  BY <1>1, <1>2, <1>3

-----------------------------------------------------------------------------
(* How a step leaves the rows of accounts and roles. *)

(* What the rows of accounts and roles promise.                            *)
RowsOK == TypeOK /\ Versions /\ Seeded /\ LockedAtLimit

LEMMA UserStep ==
  ASSUME IInv, NoNewLocks, SeenStays, NEW u \in Users, NEW row \in UserRows,
         users' = [users EXCEPT ![u] = row], roles' = roles, edits' \in 0 .. MaxEdits,
         tokens' \in Seq(TokenRows), Len(tokens') <= MaxTokens,
         row.ver \in {users[u].ver, users[u].ver + 1},
         row.ver = users[u].ver => row.roles = users[u].roles,
         \A c \in row.roles : RoleExists(c),
         row.fails = MaxFailures
            => row.st # "active" \/ (row.st = users[u].st /\ row.fails = users[u].fails)
  PROVE  RowsOK'
<1>1. /\ users' \in [Users -> UserRows] /\ users'[u] = row
      /\ \A v \in Users \ {u} : users'[v] = users[v]
  BY DEF IInv, TypeOK
<1>2. users[u].ver \in Nat /\ row.ver \in Nat
  BY DEF IInv, TypeOK, UserRows
<1>3. TypeOK'
  <2>1. \A v \in Users : \A c \in users'[v].roles : RoleExists(c)'
    BY <1>1 DEF IInv, TypeOK, RoleExists
  <2> QED
    BY <1>1, <2>1 DEF TypeOK, IInv, NoNewLocks
<1>4. Seeded'
  <2>1. RoleExists(SuperAdmin)'
    BY DEF IInv, Seeded, RoleExists
  <2>2. ASSUME NEW v \in Users, ~Exists(v)' PROVE users'[v].roles = {SuperAdmin}
    <3>1. CASE v = u
      <4>1. row.ver = users[u].ver /\ ~Exists(u)
        BY <1>1, <1>2, <2>2, <3>1 DEF Exists
      <4> QED
        BY <1>1, <3>1, <4>1 DEF IInv, Seeded
    <3>2. CASE v # u
      BY <1>1, <2>2, <3>2 DEF IInv, Seeded, Exists
    <3> QED
      BY <3>1, <3>2
  <2> QED
    BY <2>1, <2>2 DEF Seeded
<1>5. LockedAtLimit'
  BY <1>1 DEF IInv, LockedAtLimit
<1>6. Versions'
  <2> SUFFICES ASSUME NEW q \in Requests, tx'[q] = tx[q] PROVE AsSeen(q)'
    BY DEF Versions, SeenStays
  <2>1. AsSeen(q)
    BY DEF IInv, Versions
  <2>2. tx[q].op = "roles" => tx[q].user \in Users /\ tx[q].ver \in Nat
    BY TxOf DEF IInv, TypeOK
  <2>3. tx[q].op = "roles" =>
          /\ 0 < tx[q].ver /\ tx[q].ver <= users'[tx[q].user].ver
          /\ tx[q].ver = users'[tx[q].user].ver => tx[q].had = users'[tx[q].user].roles
    <3> SUFFICES ASSUME tx[q].op = "roles"
                 PROVE  /\ 0 < tx[q].ver /\ tx[q].ver <= users'[tx[q].user].ver
                        /\ tx[q].ver = users'[tx[q].user].ver
                              => tx[q].had = users'[tx[q].user].roles
      OBVIOUS
    <3>1. CASE tx[q].user = u
      <4>1. /\ 0 < tx[q].ver /\ tx[q].ver <= users[u].ver
            /\ tx[q].ver = users[u].ver => tx[q].had = users[u].roles
        BY <2>1, <3>1 DEF AsSeen
      <4>2. tx[q].ver <= row.ver /\ (tx[q].ver = row.ver => row.ver = users[u].ver)
        BY <1>2, <2>2, <4>1
      <4> QED
        BY <1>1, <3>1, <4>1, <4>2
    <3>2. CASE tx[q].user # u
      BY <1>1, <2>1, <2>2, <3>2 DEF AsSeen
    <3> QED
      BY <3>1, <3>2
  <2> QED
    BY <2>1, <2>3 DEF AsSeen
<1> QED
  BY <1>3, <1>4, <1>5, <1>6 DEF RowsOK

LEMMA RowsSame ==
  ASSUME IInv, tx' \in [Requests -> Transaction], SeenStays, users' = users, roles' = roles,
         edits' \in 0 .. MaxEdits, tokens' \in Seq(TokenRows), Len(tokens') <= MaxTokens
  PROVE  RowsOK'
<1>1. TypeOK'
  BY DEF IInv, TypeOK, RoleExists
<1>2. Seeded' /\ LockedAtLimit'
  BY DEF IInv, Seeded, LockedAtLimit, RoleExists, Exists
<1>3. Versions'
  <2> SUFFICES ASSUME NEW q \in Requests, tx'[q] = tx[q] PROVE AsSeen(q)'
    BY DEF Versions, SeenStays
  <2>1. AsSeen(q)
    BY DEF IInv, Versions
  <2> QED
    BY <2>1 DEF AsSeen
<1> QED
  BY <1>1, <1>2, <1>3 DEF RowsOK

LEMMA RoleStep ==
  ASSUME IInv, NoNewLocks, SeenStays, NEW c \in AllRoles, NEW row \in RoleRows,
         roles' = [roles EXCEPT ![c] = row], users' = users, tokens' = tokens,
         edits' \in 0 .. MaxEdits, row.ver = roles[c].ver + 1
  PROVE  IInv'
<1>1. /\ roles' \in [AllRoles -> RoleRows] /\ roles'[c] = row
      /\ \A d \in AllRoles \ {c} : roles'[d] = roles[d]
  BY DEF IInv, TypeOK
<1>2. roles[c].ver \in Nat
  BY DEF IInv, TypeOK, RoleRows
<1>3. \A d \in AllRoles : RoleExists(d) => RoleExists(d)'
  BY <1>1, <1>2 DEF RoleExists
<1>4. TypeOK'
  <2>1. \A v \in Users : users[v].roles \subseteq AllRoles
    BY DEF IInv, TypeOK, UserRows
  <2>2. \A v \in Users : \A d \in users'[v].roles : RoleExists(d)'
    BY <1>3, <2>1 DEF IInv, TypeOK
  <2> QED
    BY <1>1, <2>2 DEF TypeOK, IInv, NoNewLocks
<1>5. Seeded' /\ LockedAtLimit'
  BY <1>3 DEF IInv, Seeded, LockedAtLimit, Exists, AllRoles
<1>6. Versions'
  <2> SUFFICES ASSUME NEW q \in Requests, tx'[q] = tx[q] PROVE AsSeen(q)'
    BY DEF Versions, SeenStays
  <2>1. AsSeen(q)
    BY DEF IInv, Versions
  <2>2. tx[q].op = "permissions" => tx[q].role \in AllRoles /\ tx[q].ver \in Nat
    BY TxOf DEF IInv, TypeOK
  <2>3. tx[q].op = "permissions" =>
          /\ 0 < tx[q].ver /\ tx[q].ver <= roles'[tx[q].role].ver
          /\ tx[q].ver = roles'[tx[q].role].ver => tx[q].had = roles'[tx[q].role].manage
    <3>1. CASE tx[q].role = c
      BY <1>1, <1>2, <2>1, <2>2, <3>1 DEF AsSeen
    <3>2. CASE tx[q].role # c
      BY <1>1, <2>1, <2>2, <3>2 DEF AsSeen
    <3> QED
      BY <3>1, <3>2
  <2> QED
    BY <2>1, <2>3 DEF AsSeen
<1>7. NoneDisabled
  BY NobodyDisabled
<1>8. OneSuccessor' /\ Sessions'
  BY <1>7, TokensSame
<1> QED
  BY <1>4, <1>5, <1>6, <1>8 DEF IInv

-----------------------------------------------------------------------------
(* Each action keeps the invariant: sessions. *)

LEMMA TokensTyped ==
  ASSUME IInv
  PROVE  /\ tokens \in Seq(TokenRows) /\ Len(tokens) \in Nat /\ Len(tokens) <= MaxTokens
         /\ DOMAIN tokens = 1 .. Len(tokens) /\ DOMAIN tokens \subseteq Tokens
         /\ \A t \in DOMAIN tokens : tokens[t].owner \in Users
         /\ edits \in 0 .. MaxEdits
<1>1. tokens \in Seq(TokenRows) /\ Len(tokens) <= MaxTokens /\ edits \in 0 .. MaxEdits
  BY DEF IInv, TypeOK
<1>2. Len(tokens) \in Nat /\ DOMAIN tokens = 1 .. Len(tokens)
  BY <1>1
<1>3. \A t \in DOMAIN tokens : tokens[t] \in TokenRows
  BY <1>1
<1>4. DOMAIN tokens \subseteq Tokens
  BY <1>1, <1>2, AccountsAssumption DEF Tokens
<1> QED
  BY <1>1, <1>2, <1>3, <1>4 DEF TokenRows

(* Only tx changes, and no lock is taken.                                  *)
LEMMA TxStep ==
  ASSUME IInv, NoNewLocks, SeenStays, users' = users, roles' = roles, tokens' = tokens,
         edits' \in 0 .. MaxEdits
  PROVE  IInv'
<1>1. RowsOK'
  BY RowsSame, TokensTyped DEF NoNewLocks
<1>2. NoneDisabled
  BY NobodyDisabled
<1>3. OneSuccessor' /\ Sessions'
  BY <1>2, TokensSame
<1> QED
  BY <1>1, <1>3 DEF IInv, RowsOK

LEMMA LoginReadStep ==
  ASSUME IInv, NEW r \in Requests, NEW u \in Users, LoginRead(r, u)
  PROVE  IInv'
<1>1. PICK op \in {"login", "guess"} : tx' = [tx EXCEPT ![r] = [op |-> op, user |-> u]]
  BY DEF LoginRead
<1>2. [op |-> op, user |-> u] \in Transaction
  BY DEF Transaction
<1>3. /\ tx' \in [Requests -> Transaction] /\ tx'[r].op \in {"login", "guess"}
      /\ \A q \in Requests \ {r} : tx'[q] = tx[q]
  BY <1>1, <1>2 DEF IInv, TypeOK
<1>4. NoNewLocks
  BY <1>3 DEF NoNewLocks
<1>5. SeenStays
  BY <1>3 DEF SeenStays, AsSeen
<1> QED
  BY <1>4, <1>5, TxStep, TokensTyped DEF LoginRead

LEMMA GuessStep ==
  ASSUME IInv, NEW r \in Requests, Guess(r)
  PROVE  IInv'
<1> DEFINE u == tx[r].user
<1>1. u \in Users
  BY TxOf DEF IInv, TypeOK, Guess
<1>2. users[u] \in UserRows /\ \A c \in users[u].roles : RoleExists(c)
  BY <1>1 DEF IInv, TypeOK
<1>3. /\ Failed(users[u]) \in UserRows /\ Failed(users[u]).roles = users[u].roles
      /\ Failed(users[u]).ver = users[u].ver
      /\ Failed(users[u]).st = "disabled" => users[u].st = "disabled"
      /\ Failed(users[u]).fails = MaxFailures
            => Failed(users[u]).st # "active" \/ Failed(users[u]) = users[u]
  BY <1>2, UserRowsKept
<1>4. NoNewLocks /\ SeenStays
  BY EndTyped DEF Guess
<1> HIDE DEF u
<1>5. users' = [users EXCEPT ![u] = Failed(users[u])]
  BY DEF Guess, u
<1>6. RowsOK'
  <2>1. PICK row : row = Failed(users[u])
    OBVIOUS
  <2>2. /\ row \in UserRows /\ row.roles = users[u].roles /\ row.ver = users[u].ver
        /\ row.fails = MaxFailures
              => row.st # "active" \/ (row.st = users[u].st /\ row.fails = users[u].fails)
    <3>1. row = users[u] => row.st = users[u].st /\ row.fails = users[u].fails
      OBVIOUS
    <3> QED
      BY <1>3, <2>1, <3>1
  <2>3. /\ users' = [users EXCEPT ![u] = row] /\ roles' = roles /\ tokens' = tokens
        /\ edits' = edits
    BY <1>5, <2>1 DEF Guess
  <2> QED
    BY <1>1, <1>2, <1>4, <2>2, <2>3, UserStep, TokensTyped
<1>7. \A v \in Users : users'[v].st = "disabled" => users[v].st = "disabled"
  BY <1>1, <1>3, <1>5 DEF IInv, TypeOK
<1>8. OneSuccessor' /\ Sessions'
  BY <1>4, <1>7, NobodyDisabled, TokensSame DEF Guess
<1> QED
  BY <1>6, <1>8 DEF IInv, RowsOK

LEMMA LoginStep ==
  ASSUME IInv, NEW r \in Requests, Login(r)
  PROVE  IInv'
<1> DEFINE u == tx[r].user
<1>1. u \in Users
  BY TxOf DEF IInv, TypeOK, Login
<1>2. users[u] \in UserRows /\ \A c \in users[u].roles : RoleExists(c)
  BY <1>1 DEF IInv, TypeOK
<1>3. /\ LoggedIn(users[u]) \in UserRows /\ LoggedIn(users[u]).roles = users[u].roles
      /\ LoggedIn(users[u]).ver = users[u].ver
      /\ LoggedIn(users[u]).st = "disabled" => users[u].st = "disabled"
      /\ LoggedIn(users[u]).fails = MaxFailures => LoggedIn(users[u]) = users[u]
  BY <1>2, UserRowsKept
<1>4. NoNewLocks /\ SeenStays
  BY EndTyped DEF Login
<1>5. /\ users' = [users EXCEPT ![u] = LoggedIn(users[u])] /\ UserFree(r, u) /\ MayIssue
      /\ End(r) /\ tokens' = Issued(tokens, u, 0)
  BY DEF Login
<1> HIDE DEF u
<1>6. \A v \in Users : users'[v].st = "disabled" => users[v].st = "disabled"
  BY <1>1, <1>3, <1>5 DEF IInv, TypeOK
<1>7. NoneDisabled
  BY <1>4, <1>6, NobodyDisabled
<1>8. 0 \in 0 .. MaxTokens /\ \A t \in DOMAIN tokens : t # 0
  BY TokensTyped, AccountsAssumption
<1>9. /\ OneSuccessor' /\ Sessions'
      /\ tokens' \in Seq(TokenRows) /\ Len(tokens') <= MaxTokens
  BY <1>1, <1>5, <1>7, <1>8, TokenIssued, TokensTyped
<1>10. RowsOK'
  BY <1>1, <1>2, <1>3, <1>4, <1>5, <1>9, UserStep, TokensTyped DEF Login
<1> QED
  BY <1>9, <1>10 DEF IInv, RowsOK

LEMMA LockLapsesStep ==
  ASSUME IInv, NEW u \in Users, LockLapses(u)
  PROVE  IInv'
<1>1. users[u] \in UserRows /\ \A c \in users[u].roles : RoleExists(c)
  BY DEF IInv, TypeOK
<1> DEFINE row == [users[u] EXCEPT !.locked = FALSE]
<1>2. /\ row \in UserRows /\ row.st = users[u].st /\ row.fails = users[u].fails
      /\ row.roles = users[u].roles /\ row.ver = users[u].ver
  BY <1>1 DEF UserRows
<1>3. users' = [users EXCEPT ![u] = row]
  BY DEF LockLapses
<1> HIDE DEF row
<1>4. NoNewLocks /\ SeenStays
  BY DEF LockLapses, NoNewLocks, SeenStays, IInv, TypeOK
<1>5. RowsOK'
  BY <1>1, <1>2, <1>3, <1>4, UserStep, TokensTyped DEF LockLapses
<1>6. \A v \in Users : users'[v].st = "disabled" => users[v].st = "disabled"
  BY <1>2, <1>3 DEF IInv, TypeOK
<1>7. OneSuccessor' /\ Sessions'
  BY <1>4, <1>6, NobodyDisabled, TokensSame DEF LockLapses
<1> QED
  BY <1>5, <1>7 DEF IInv, RowsOK

(* A token nobody holds is revoked: Expire and Logout.                     *)
LEMMA RevokeStep ==
  ASSUME IInv, NEW t \in DOMAIN tokens, Expire(t) \/ Logout(t)
  PROVE  IInv'
<1>1. /\ tokens' = Revoked({t}) /\ users' = users /\ roles' = roles /\ tx' = tx
      /\ edits' = edits /\ \A r \in Requests : ~HoldsToken(r, t)
  BY DEF Expire, Logout
<1>2. NoNewLocks /\ SeenStays
  BY <1>1 DEF NoNewLocks, SeenStays, IInv, TypeOK
<1>3. \A q \in Requests : tx'[q].op = "rotate" => tx'[q].token \notin {t}
  BY <1>1 DEF HoldsToken
<1>4. NoneDisabled
  BY <1>1, <1>2, NobodyDisabled
<1>5. /\ OneSuccessor' /\ Sessions'
      /\ tokens' \in Seq(TokenRows) /\ Len(tokens') = Len(tokens)
  BY <1>1, <1>2, <1>3, <1>4, TokensRevoked
<1>6. RowsOK'
  BY <1>1, <1>2, <1>5, RowsSame, TokensTyped DEF NoNewLocks
<1> QED
  BY <1>5, <1>6 DEF IInv, RowsOK

LEMMA RollbackStep ==
  ASSUME IInv, NEW r \in Requests, Rollback(r)
  PROVE  IInv'
BY EndTyped, TxStep, TokensTyped DEF Rollback

LEMMA RefreshLockStep ==
  ASSUME IInv, NEW r \in Requests, NEW t \in DOMAIN tokens, RefreshLock(r, t)
  PROVE  IInv'
<1> DEFINE u == tokens[t].owner
           go == tokens[t].st = "active" /\ users[u].st = "active"
           request == IF go THEN [op |-> "rotate", token |-> t]
                      ELSE [op |-> "sweep", token |-> t, seen |-> ActiveOf(u)]
<1>1. /\ tx' = [tx EXCEPT ![r] = request] /\ TokenFree(r, t)
      /\ users' = users /\ roles' = roles /\ tokens' = tokens /\ edits' = edits
  BY DEF RefreshLock
<1>2. /\ request \in Transaction /\ request.op \in {"rotate", "sweep"} /\ request.token = t
      /\ request.op = "rotate" => tokens[t].st = "active" /\ users[u].st = "active"
  <2>1. t \in Tokens /\ ActiveOf(u) \subseteq Tokens
    BY TokensTyped DEF ActiveOf
  <2>2. CASE go
    BY <2>1, <2>2 DEF Transaction
  <2>3. CASE ~go
    BY <2>1, <2>3 DEF Transaction
  <2> QED
    BY <2>2, <2>3
<1> HIDE DEF request
<1>3. /\ tx' \in [Requests -> Transaction] /\ tx'[r] = request
      /\ \A q \in Requests \ {r} : tx'[q] = tx[q]
  BY <1>1, <1>2 DEF IInv, TypeOK
<1>4. SeenStays
  BY <1>2, <1>3 DEF SeenStays, AsSeen
<1>5. RowsOK'
  BY <1>1, <1>3, <1>4, RowsSame, TokensTyped
<1>6. OneSuccessor'
  BY <1>1 DEF IInv, OneSuccessor
<1>7. ASSUME NEW q \in Requests PROVE Held(q)' /\ SeesAll(q)'
  <2>1. CASE q = r
    <3>1. \A o \in Requests \ {r} : ~HoldsToken(o, t)
      BY <1>1 DEF TokenFree
    <3>2. SeesAll(r)'
      BY <1>2, <1>3 DEF SeesAll
    <3>3. Held(r)'
      <4>1. ASSUME NEW o \in Requests \ {r}, tx'[o].op \in {"rotate", "sweep"},
                   tx'[o].token = t
            PROVE  FALSE
        BY <1>3, <3>1, <4>1 DEF HoldsToken
      <4>2. tx'[r].op = "rotate" =>
              tokens'[t].st = "active" /\ users'[tokens'[t].owner].st # "disabled"
        BY <1>1, <1>2, <1>3
      <4> QED
        BY <1>1, <1>2, <1>3, <4>1, <4>2 DEF Held, HoldsToken
    <3> QED
      BY <2>1, <3>2, <3>3
  <2>2. CASE q # r
    <3>1. Held(q) /\ SeesAll(q) /\ tx'[q] = tx[q] /\ ~HoldsToken(q, t)
      BY <1>1, <1>3, <2>2 DEF IInv, Sessions, TokenFree
    <3>2. SeesAll(q)'
      BY <1>1, <3>1 DEF SeesAll, ActiveOf
    <3>3. Held(q)'
      <4> SUFFICES ASSUME tx[q].op \in {"rotate", "sweep"} PROVE Held(q)'
        BY <3>1 DEF Held
      <4>1. ASSUME NEW o \in Requests \ {q}, tx'[o].op \in {"rotate", "sweep"},
                   tx'[o].token = tx[q].token
            PROVE  FALSE
        <5>1. CASE o = r
          BY <1>2, <1>3, <3>1, <4>1, <5>1 DEF HoldsToken
        <5>2. CASE o # r
          BY <1>3, <3>1, <4>1, <5>2 DEF Held, HoldsToken
        <5> QED
          BY <5>1, <5>2
      <4> QED
        BY <1>1, <3>1, <4>1 DEF Held, HoldsToken
    <3> QED
      BY <3>2, <3>3
  <2> QED
    BY <2>1, <2>2
<1> QED
  BY <1>5, <1>6, <1>7 DEF IInv, RowsOK, Sessions

LEMMA RotateStep ==
  ASSUME IInv, NEW r \in Requests, Rotate(r)
  PROVE  IInv'
<1> DEFINE t == tx[r].token
           u == tokens[t].owner
<1>1. /\ tx[r].op = "rotate" /\ tokens[t].st = "active" /\ UserFree(r, u) /\ MayIssue
      /\ tokens' = Issued(RotatedToken(t), u, t) /\ End(r)
      /\ users' = users /\ roles' = roles /\ edits' = edits
  BY DEF Rotate
<1>2. t \in DOMAIN tokens
  BY <1>1 DEF IInv, Sessions, Held
<1>3. u \in Users /\ t \in 0 .. MaxTokens
  BY <1>2, TokensTyped DEF Tokens
<1>4. NoNewLocks /\ SeenStays
  BY <1>1, EndTyped
<1>5. NoneDisabled
  BY <1>1, <1>4, NobodyDisabled
<1> HIDE DEF t, u
<1>6. PICK toks : toks = RotatedToken(t)
  OBVIOUS
<1>7. /\ toks \in Seq(TokenRows) /\ DOMAIN toks = DOMAIN tokens
      /\ \A s \in DOMAIN tokens :
            /\ toks[s].owner = tokens[s].owner /\ toks[s].from = tokens[s].from
            /\ toks[s].st = IF s = t THEN "rotated" ELSE tokens[s].st
  BY <1>2, <1>6, RotatedFacts, TokensTyped
<1>8. tokens[t].owner = u /\ tx[r].token = t
  BY DEF u, t
<1>9. /\ OneSuccessor' /\ Sessions'
      /\ tokens' \in Seq(TokenRows) /\ Len(tokens') <= MaxTokens
  BY <1>1, <1>2, <1>3, <1>5, <1>6, <1>7, <1>8, TokenIssued
<1>10. RowsOK'
  BY <1>1, <1>4, <1>9, RowsSame, TokensTyped DEF NoNewLocks
<1> QED
  BY <1>9, <1>10 DEF IInv, RowsOK

(* An UPDATE that waited for the tokens it changes takes none that is      *)
(* being exchanged.                                                        *)
LEMMA SweptFree ==
  ASSUME IInv, NEW r \in Requests, End(r), Swept(r)
  PROVE  /\ \A q \in Requests : tx'[q].op = "rotate" => tx'[q].token \notin tx[r].seen
         /\ \A q \in Requests \ {r} : \A t \in tx[r].seen :
               tokens[t].st = "active" => ~HoldsToken(q, t)
<1>1. \A q \in Requests \ {r} : \A t \in tx[r].seen :
         tokens[t].st = "active" => ~HoldsToken(q, t)
  BY DEF Swept, TokenFree
<1>2. ASSUME NEW q \in Requests, tx'[q].op = "rotate", tx'[q].token \in tx[r].seen
      PROVE  FALSE
  <2>1. q # r /\ tx'[q] = tx[q]
    BY <1>2, EndTyped, IdleTyped
  <2>2. tokens[tx[q].token].st = "active"
    BY <1>2, <2>1 DEF IInv, Sessions, Held
  <2> QED
    BY <1>1, <1>2, <2>1, <2>2 DEF HoldsToken
<1> QED
  BY <1>1, <1>2

LEMMA RefuseAllStep ==
  ASSUME IInv, NEW r \in Requests, RefuseAll(r)
  PROVE  IInv'
<1>1. /\ tokens' = Revoked(tx[r].seen) /\ users' = users /\ roles' = roles
      /\ edits' = edits /\ End(r) /\ Swept(r)
  BY DEF RefuseAll
<1>2. NoNewLocks /\ SeenStays
  BY <1>1, EndTyped
<1>3. \A q \in Requests : tx'[q].op = "rotate" => tx'[q].token \notin tx[r].seen
  BY <1>1, SweptFree
<1>4. NoneDisabled
  BY <1>1, <1>2, NobodyDisabled
<1>5. PICK S : S = tx[r].seen
  OBVIOUS
<1>6. /\ OneSuccessor' /\ Sessions'
      /\ tokens' \in Seq(TokenRows) /\ Len(tokens') = Len(tokens)
  BY <1>1, <1>2, <1>3, <1>4, <1>5, TokensRevoked
<1>7. RowsOK'
  BY <1>1, <1>2, <1>6, RowsSame, TokensTyped DEF NoNewLocks
<1> QED
  BY <1>6, <1>7 DEF IInv, RowsOK

-----------------------------------------------------------------------------
(* Each action keeps the invariant: administration. *)

LEMMA ActivateStep ==
  ASSUME IInv, NEW r \in Requests, Activate(r)
  PROVE  IInv'
<1> DEFINE u == tx[r].user
<1>1. u \in Users
  BY TxOf DEF IInv, TypeOK, Activate
<1>2. users[u] \in UserRows /\ \A c \in users[u].roles : RoleExists(c)
  BY <1>1 DEF IInv, TypeOK
<1>3. NoNewLocks /\ SeenStays
  BY EndTyped DEF Activate
<1>4. PICK row : row = Reactivated(users[u])
  OBVIOUS
<1>5. /\ users' = [users EXCEPT ![u] = row] /\ roles' = roles /\ tokens' = tokens
      /\ edits' = edits
  BY <1>4 DEF Activate
<1> HIDE DEF u
<1>6. /\ row \in UserRows /\ row.roles = users[u].roles /\ row.ver = users[u].ver + 1
      /\ row.st = "active" /\ row.fails = 0
  BY <1>2, <1>4, UserRowsKept
<1>7. users[u].ver \in Nat /\ MaxFailures # 0
  BY <1>2, AccountsAssumption DEF UserRows
<1>8. RowsOK'
  BY <1>1, <1>2, <1>3, <1>5, <1>6, <1>7, UserStep, TokensTyped
<1>9. \A v \in Users : users'[v].st = "disabled" => users[v].st = "disabled"
  BY <1>1, <1>5, <1>6 DEF IInv, TypeOK
<1>10. OneSuccessor' /\ Sessions'
  BY <1>3, <1>5, <1>9, NobodyDisabled, TokensSame
<1> QED
  BY <1>8, <1>10 DEF IInv, RowsOK

LEMMA ReplaceRolesStep ==
  ASSUME IInv, NEW r \in Requests, ReplaceRoles(r)
  PROVE  IInv'
<1> DEFINE u == tx[r].user
<1>1. u \in Users /\ tx[r].roles \subseteq AllRoles
  BY TxOf DEF IInv, TypeOK, ReplaceRoles
<1>2. users[u] \in UserRows /\ \A c \in tx[r].roles : RoleExists(c)
  BY <1>1 DEF IInv, TypeOK, ReplaceRoles
<1>3. NoNewLocks /\ SeenStays
  BY EndTyped DEF ReplaceRoles
<1>4. PICK row : row = Assigned(users[u], tx[r].roles)
  OBVIOUS
<1>5. /\ users' = [users EXCEPT ![u] = row] /\ roles' = roles /\ tokens' = tokens
      /\ edits' = edits
  BY <1>4 DEF ReplaceRoles
<1> HIDE DEF u
<1>6. /\ row \in UserRows /\ row.roles = tx[r].roles /\ row.ver = users[u].ver + 1
      /\ row.st = users[u].st /\ row.fails = users[u].fails
  BY <1>1, <1>2, <1>4, UserRowsKept
<1>7. users[u].ver \in Nat
  BY <1>2 DEF UserRows
<1>8. RowsOK'
  <2>1. /\ row.ver # users[u].ver /\ \A c \in row.roles : RoleExists(c)
        /\ row.fails = MaxFailures => row.st = users[u].st /\ row.fails = users[u].fails
    BY <1>2, <1>6, <1>7
  <2> QED
    BY <1>1, <1>3, <1>5, <1>6, <2>1, UserStep, TokensTyped
<1>9. \A v \in Users : users'[v].st = "disabled" => users[v].st = "disabled"
  BY <1>1, <1>5, <1>6 DEF IInv, TypeOK
<1>10. OneSuccessor' /\ Sessions'
  BY <1>3, <1>5, <1>9, NobodyDisabled, TokensSame
<1> QED
  BY <1>8, <1>10 DEF IInv, RowsOK

LEMMA CreateUserStep ==
  ASSUME IInv, NEW u \in Users, CreateUser(u)
  PROVE  IInv'
<1>1. PICK S \in SUBSET {c \in AllRoles : RoleExists(c)} :
        users' = [users EXCEPT ![u] =
            [st |-> "active", locked |-> FALSE, fails |-> 0, roles |-> S, ver |-> 1]]
  BY DEF CreateUser
<1> DEFINE row == [st |-> "active", locked |-> FALSE, fails |-> 0, roles |-> S, ver |-> 1]
<1>2. /\ row \in UserRows /\ row.roles = S /\ row.ver = 1 /\ row.st = "active"
      /\ row.fails = 0 /\ MaxFailures # 0
  BY AccountsAssumption DEF UserRows, UserStatus
<1>3. users' = [users EXCEPT ![u] = row]
  BY <1>1
<1> HIDE DEF row
<1>4. users[u] \in UserRows
  BY DEF IInv, TypeOK
<1>5. users[u].ver = 0
  BY <1>4 DEF UserRows, CreateUser, Exists
<1>6. /\ roles' = roles /\ tokens' = tokens /\ tx' = tx /\ edits' \in 0 .. MaxEdits
  BY TokensTyped, AccountsAssumption DEF CreateUser, MayEdit
<1>7. NoNewLocks /\ SeenStays
  BY <1>6 DEF NoNewLocks, SeenStays, IInv, TypeOK
<1>8. RowsOK'
  <2>1. /\ row.ver = users[u].ver + 1 /\ row.ver # users[u].ver
        /\ \A c \in row.roles : RoleExists(c) /\ row.fails # MaxFailures
    BY <1>2, <1>5
  <2> QED
    BY <1>2, <1>3, <1>6, <1>7, <2>1, UserStep, TokensTyped
<1>9. \A v \in Users : users'[v].st = "disabled" => users[v].st = "disabled"
  BY <1>2, <1>3 DEF IInv, TypeOK
<1>10. OneSuccessor' /\ Sessions'
  BY <1>6, <1>7, <1>9, NobodyDisabled, TokensSame
<1> QED
  BY <1>8, <1>10 DEF IInv, RowsOK

LEMMA DisableLockStep ==
  ASSUME IInv, NEW r \in Requests, DisableLock(r)
  PROVE  IInv'
<1> DEFINE u == tx[r].user
           request == [op |-> "disable", user |-> u, seen |-> ActiveOf(u)]
<1>1. /\ tx' = [tx EXCEPT ![r] = request] /\ tx[r].op = "update"
      /\ users' = users /\ roles' = roles /\ tokens' = tokens /\ edits' = edits
  BY DEF DisableLock
<1>2. u \in Users
  BY <1>1, TxOf DEF IInv, TypeOK
<1>3. ActiveOf(u) \subseteq Tokens
  BY TokensTyped DEF ActiveOf
<1>4. /\ request \in Transaction /\ request.op = "disable" /\ request.user = u
      /\ request.seen = ActiveOf(u)
  BY <1>2, <1>3 DEF Transaction
<1> HIDE DEF request
<1>5. /\ tx' \in [Requests -> Transaction] /\ tx'[r] = request
      /\ \A q \in Requests \ {r} : tx'[q] = tx[q]
  BY <1>1, <1>4 DEF IInv, TypeOK
<1>6. SeenStays
  BY <1>4, <1>5 DEF SeenStays, AsSeen
<1>7. RowsOK'
  BY <1>1, <1>5, <1>6, RowsSame, TokensTyped
<1>8. OneSuccessor'
  BY <1>1 DEF IInv, OneSuccessor
<1>9. ASSUME NEW q \in Requests PROVE Held(q)' /\ SeesAll(q)'
  <2>1. CASE q = r
    BY <1>1, <1>4, <1>5, <2>1 DEF Held, SeesAll, ActiveOf
  <2>2. CASE q # r
    <3>1. Held(q) /\ SeesAll(q) /\ tx'[q] = tx[q]
      BY <1>5, <2>2 DEF IInv, Sessions
    <3>2. SeesAll(q)'
      BY <1>1, <3>1 DEF SeesAll, ActiveOf
    <3>3. Held(q)'
      <4> SUFFICES ASSUME tx[q].op \in {"rotate", "sweep"} PROVE Held(q)'
        BY <3>1 DEF Held
      <4>1. ASSUME NEW o \in Requests \ {q}, tx'[o].op \in {"rotate", "sweep"},
                   tx'[o].token = tx[q].token
            PROVE  FALSE
        <5>1. o # r
          BY <1>4, <1>5, <4>1
        <5> QED
          BY <1>5, <3>1, <4>1, <5>1 DEF Held, HoldsToken
      <4> QED
        BY <1>1, <3>1, <4>1 DEF Held, HoldsToken
    <3> QED
      BY <3>2, <3>3
  <2> QED
    BY <2>1, <2>2
<1> QED
  BY <1>7, <1>8, <1>9 DEF IInv, RowsOK, Sessions

LEMMA DisableStep ==
  ASSUME IInv, NEW r \in Requests, Disable(r)
  PROVE  IInv'
<1> DEFINE u == tx[r].user
<1>1. /\ tx[r].op = "disable" /\ tokens' = Revoked(tx[r].seen) /\ roles' = roles
      /\ edits' = edits /\ End(r) /\ Swept(r)
      /\ users' = [users EXCEPT ![u].st = "disabled", ![u].ver = @ + 1]
  BY DEF Disable
<1>2. u \in Users
  BY <1>1, TxOf DEF IInv, TypeOK
<1>3. users[u] \in UserRows /\ \A c \in users[u].roles : RoleExists(c)
  BY <1>2 DEF IInv, TypeOK
<1> DEFINE a == [users[u] EXCEPT !.st = "disabled"]
           row == [a EXCEPT !.ver = @ + 1]
<1>4. /\ row \in UserRows /\ row.st = "disabled" /\ row.roles = users[u].roles
      /\ row.ver = users[u].ver + 1 /\ users[u].ver \in Nat
  <2>1. a \in UserRows /\ a.st = "disabled" /\ a.roles = users[u].roles /\ a.ver = users[u].ver
    BY <1>3 DEF UserRows, UserStatus
  <2> HIDE DEF a
  <2> QED
    BY <2>1 DEF UserRows
<1>5. users' = [users EXCEPT ![u] = row]
  BY <1>1, <1>2 DEF IInv, TypeOK
<1> HIDE DEF row, u
<1>6. /\ NoNewLocks /\ SeenStays /\ tx'[r] = Idle
      /\ \A q \in Requests \ {r} : tx'[q] = tx[q]
  BY <1>1, EndTyped
<1>7. NoneDisabled
  <2> SUFFICES ASSUME NEW q \in Requests, tx'[q].op = "rotate"
               PROVE  users'[tokens[tx'[q].token].owner].st # "disabled"
    BY DEF NoneDisabled
  <2>1. q # r /\ tx'[q] = tx[q]
    BY <1>6, IdleTyped
  <2>2. /\ tx[q].token \in DOMAIN tokens /\ tokens[tx[q].token].st = "active"
        /\ users[tokens[tx[q].token].owner].st # "disabled"
    BY <2>1 DEF IInv, Sessions, Held
  <2>3. ASSUME tokens[tx[q].token].owner = u PROVE FALSE
    <3>1. tx[q].token \in ActiveOf(u)
      BY <2>2, <2>3 DEF ActiveOf
    <3>2. tx[q].token \in tx[r].seen
      BY <1>1, <3>1 DEF IInv, Sessions, SeesAll, u
    <3>3. ~HoldsToken(q, tx[q].token)
      BY <1>1, <2>1, <2>2, <3>2, SweptFree
    <3> QED
      BY <2>1, <3>3 DEF HoldsToken
  <2>4. tokens[tx[q].token].owner \in Users
    BY <2>2, TokensTyped
  <2> QED
    BY <1>2, <1>5, <2>1, <2>2, <2>3, <2>4 DEF IInv, TypeOK
<1>8. \A q \in Requests : tx'[q].op = "rotate" => tx'[q].token \notin tx[r].seen
  BY <1>1, SweptFree
<1>9. /\ OneSuccessor' /\ Sessions'
      /\ tokens' \in Seq(TokenRows) /\ Len(tokens') = Len(tokens)
  BY <1>1, <1>6, <1>7, <1>8, TokensRevoked
<1>10. RowsOK'
  <2>1. /\ row.ver # users[u].ver /\ row.st # "active"
        /\ \A c \in row.roles : RoleExists(c)
    BY <1>3, <1>4
  <2>2. Len(tokens') <= MaxTokens /\ edits' \in 0 .. MaxEdits
    BY <1>1, <1>9, TokensTyped
  <2> QED
    BY <1>1, <1>2, <1>4, <1>5, <1>6, <1>9, <2>1, <2>2, UserStep
<1> QED
  BY <1>9, <1>10 DEF IInv, RowsOK

(* A request of an administrator: it holds what its client has just read.  *)
LEMMA BeginStep ==
  ASSUME IInv, NEW r \in Requests, NEW request \in Transaction, Begin(r, request),
         request.op \in {"update", "roles", "rename", "permissions"},
         request.op = "roles" =>
            /\ 0 < request.ver /\ request.ver = users[request.user].ver
            /\ request.ver \in Nat /\ request.had = users[request.user].roles,
         request.op = "permissions" =>
            /\ 0 < request.ver /\ request.ver = roles[request.role].ver
            /\ request.ver \in Nat /\ request.had = roles[request.role].manage
  PROVE  IInv'
<1>1. /\ tx' = [tx EXCEPT ![r] = request] /\ users' = users /\ roles' = roles
      /\ tokens' = tokens /\ edits' \in 0 .. MaxEdits
  BY TokensTyped, AccountsAssumption DEF Begin, MayEdit
<1>2. /\ tx' \in [Requests -> Transaction] /\ tx'[r] = request
      /\ \A q \in Requests \ {r} : tx'[q] = tx[q]
  BY <1>1 DEF IInv, TypeOK
<1>3. NoNewLocks
  BY <1>2 DEF NoNewLocks
<1>4. AsSeen(r)'
  BY <1>1, <1>2 DEF AsSeen
<1>5. SeenStays
  BY <1>2, <1>4 DEF SeenStays
<1> QED
  BY <1>1, <1>3, <1>5, TxStep

LEMMA BeginUserStep ==
  ASSUME IInv, NEW r \in Requests, NEW u \in Users, BeginUser(r, u)
  PROVE  IInv'
<1>1. users[u] \in UserRows
  BY DEF IInv, TypeOK
<1>2. /\ users[u].ver \in Nat /\ 0 < users[u].ver /\ users[u].roles \in SUBSET AllRoles
  BY <1>1 DEF UserRows, BeginUser, Exists
<1>3. CASE \E st \in {"active", "disabled"} : Begin(r,
             [op |-> "update", user |-> u, ver |-> users[u].ver, st |-> st])
  <2>1. PICK st \in {"active", "disabled"} : Begin(r,
             [op |-> "update", user |-> u, ver |-> users[u].ver, st |-> st])
    BY <1>3
  <2>2. PICK request :
          request = [op |-> "update", user |-> u, ver |-> users[u].ver, st |-> st]
    OBVIOUS
  <2>3. request \in Transaction /\ request.op = "update" /\ Begin(r, request)
    BY <1>2, <2>1, <2>2 DEF Transaction, UserStatus
  <2> QED
    BY <2>3, BeginStep
<1>4. CASE \E S \in SUBSET AllRoles : Begin(r,
             [op |-> "roles", user |-> u, ver |-> users[u].ver,
              had |-> users[u].roles, roles |-> S])
  <2>1. PICK S \in SUBSET AllRoles : Begin(r,
             [op |-> "roles", user |-> u, ver |-> users[u].ver,
              had |-> users[u].roles, roles |-> S])
    BY <1>4
  <2>2. PICK request : request = [op |-> "roles", user |-> u, ver |-> users[u].ver,
                                  had |-> users[u].roles, roles |-> S]
    OBVIOUS
  <2>3. /\ request \in Transaction /\ request.op = "roles" /\ Begin(r, request)
        /\ request.ver = users[u].ver /\ request.user = u /\ request.had = users[u].roles
    BY <1>2, <2>1, <2>2 DEF Transaction
  <2> QED
    BY <1>2, <2>3, BeginStep
<1> QED
  BY <1>3, <1>4 DEF BeginUser

LEMMA BeginRoleStep ==
  ASSUME IInv, NEW r \in Requests, NEW c \in AllRoles, BeginRole(r, c)
  PROVE  IInv'
<1>1. roles[c] \in RoleRows
  BY DEF IInv, TypeOK
<1>2. roles[c].ver \in Nat /\ 0 < roles[c].ver /\ roles[c].manage \in BOOLEAN
  BY <1>1 DEF RoleRows, BeginRole, RoleExists
<1>3. CASE Begin(r, [op |-> "rename", role |-> c, ver |-> roles[c].ver])
  <2>1. PICK request : request = [op |-> "rename", role |-> c, ver |-> roles[c].ver]
    OBVIOUS
  <2>2. request \in Transaction /\ request.op = "rename" /\ Begin(r, request)
    BY <1>2, <1>3, <2>1 DEF Transaction
  <2> QED
    BY <2>2, BeginStep
<1>4. CASE \E b \in BOOLEAN : Begin(r,
             [op |-> "permissions", role |-> c, ver |-> roles[c].ver,
              had |-> roles[c].manage, manage |-> b])
  <2>1. PICK b \in BOOLEAN : Begin(r,
             [op |-> "permissions", role |-> c, ver |-> roles[c].ver,
              had |-> roles[c].manage, manage |-> b])
    BY <1>4
  <2>2. PICK request : request = [op |-> "permissions", role |-> c, ver |-> roles[c].ver,
                                  had |-> roles[c].manage, manage |-> b]
    OBVIOUS
  <2>3. /\ request \in Transaction /\ request.op = "permissions" /\ Begin(r, request)
        /\ request.ver = roles[c].ver /\ request.role = c /\ request.had = roles[c].manage
    BY <1>2, <2>1, <2>2 DEF Transaction
  <2> QED
    BY <1>2, <2>3, BeginStep
<1> QED
  BY <1>3, <1>4 DEF BeginRole

LEMMA RenameRoleStep ==
  ASSUME IInv, NEW r \in Requests, RenameRole(r)
  PROVE  IInv'
<1> DEFINE c == tx[r].role
           row == [roles[c] EXCEPT !.ver = @ + 1]
<1>1. c \in AllRoles
  BY TxOf DEF IInv, TypeOK, RenameRole
<1>2. roles[c] \in RoleRows
  BY <1>1 DEF IInv, TypeOK
<1>3. row \in RoleRows /\ row.ver = roles[c].ver + 1
  BY <1>2 DEF RoleRows
<1>4. /\ roles' = [roles EXCEPT ![c] = row] /\ users' = users /\ tokens' = tokens
      /\ edits' = edits /\ End(r)
  BY <1>1 DEF RenameRole, IInv, TypeOK
<1> HIDE DEF row, c
<1> QED
  BY <1>1, <1>3, <1>4, EndTyped, RoleStep, TokensTyped

LEMMA ReplacePermissionsStep ==
  ASSUME IInv, NEW r \in Requests, ReplacePermissions(r)
  PROVE  IInv'
<1> DEFINE c == tx[r].role
           row == [manage |-> tx[r].manage, ver |-> roles[c].ver + 1]
<1>1. c \in AllRoles /\ tx[r].manage \in BOOLEAN
  BY TxOf DEF IInv, TypeOK, ReplacePermissions
<1>2. roles[c] \in RoleRows
  BY <1>1 DEF IInv, TypeOK
<1>3. row \in RoleRows /\ row.ver = roles[c].ver + 1
  BY <1>1, <1>2 DEF RoleRows
<1>4. /\ roles' = [roles EXCEPT ![c] = row] /\ users' = users /\ tokens' = tokens
      /\ edits' = edits /\ End(r)
  BY <1>1 DEF ReplacePermissions, IInv, TypeOK
<1> HIDE DEF row, c
<1> QED
  BY <1>1, <1>3, <1>4, EndTyped, RoleStep, TokensTyped

LEMMA CreateRoleStep ==
  ASSUME IInv, NEW c \in AllRoles, CreateRole(c)
  PROVE  IInv'
<1>1. PICK b \in BOOLEAN : roles' = [roles EXCEPT ![c] = [manage |-> b, ver |-> 1]]
  BY DEF CreateRole
<1>2. PICK row : row = [manage |-> b, ver |-> 1]
  OBVIOUS
<1>3. row \in RoleRows /\ row.ver = 1 /\ roles[c] \in RoleRows
  BY <1>2 DEF RoleRows, IInv, TypeOK
<1>4. row.ver = roles[c].ver + 1
  BY <1>3 DEF RoleRows, CreateRole, RoleExists
<1>5. /\ users' = users /\ tokens' = tokens /\ tx' = tx /\ edits' \in 0 .. MaxEdits
  BY TokensTyped, AccountsAssumption DEF CreateRole, MayEdit
<1>6. NoNewLocks /\ SeenStays
  BY <1>5 DEF NoNewLocks, SeenStays, IInv, TypeOK
<1> QED
  BY <1>1, <1>2, <1>3, <1>4, <1>5, <1>6, RoleStep

LEMMA DeleteRoleStep ==
  ASSUME IInv, NEW c \in AllRoles, DeleteRole(c)
  PROVE  IInv'
<1> DEFINE drops(r) == \/ tx[r].op \in {"rename", "permissions"} /\ tx[r].role = c
                       \/ tx[r].op = "roles" /\ c \in tx[r].roles
<1>1. /\ RoleExists(c) /\ c # SuperAdmin
      /\ \A u \in Users : Exists(u) => c \notin users[u].roles
      /\ roles' = [roles EXCEPT ![c] = [manage |-> FALSE, ver |-> 0]]
      /\ tx' = [r \in Requests |-> IF drops(r) THEN Idle ELSE tx[r]]
      /\ users' = users /\ tokens' = tokens /\ edits' \in 0 .. MaxEdits
  BY TokensTyped, AccountsAssumption DEF DeleteRole, MayEdit
<1>2. /\ tx' \in [Requests -> Transaction]
      /\ \A r \in Requests : IF drops(r) THEN tx'[r] = Idle ELSE tx'[r] = tx[r]
  BY <1>1, IdleTyped DEF IInv, TypeOK
<1>3. /\ roles' \in [AllRoles -> RoleRows]
      /\ \A d \in AllRoles \ {c} : roles'[d] = roles[d]
  <2>1. [manage |-> FALSE, ver |-> 0] \in RoleRows
    BY DEF RoleRows
  <2> QED
    BY <1>1, <2>1 DEF IInv, TypeOK
<1>4. NoNewLocks
  BY <1>2, IdleTyped DEF NoNewLocks
<1>5. \A u \in Users : \A d \in users[u].roles : d \in AllRoles /\ d # c
  <2> SUFFICES ASSUME NEW u \in Users, NEW d \in users[u].roles
               PROVE  d \in AllRoles /\ d # c
    OBVIOUS
  <2>1. users[u] \in UserRows
    BY DEF IInv, TypeOK
  <2>2. d \in AllRoles
    BY <2>1 DEF UserRows
  <2>3. CASE Exists(u)
    BY <1>1, <2>2, <2>3
  <2>4. CASE ~Exists(u)
    BY <1>1, <2>2, <2>4 DEF IInv, Seeded
  <2> QED
    BY <2>3, <2>4
<1>6. TypeOK'
  <2>1. \A u \in Users : \A d \in users'[u].roles : RoleExists(d)'
    BY <1>1, <1>3, <1>5 DEF IInv, TypeOK, RoleExists
  <2> QED
    BY <1>1, <1>2, <1>3, <2>1 DEF IInv, TypeOK
<1>7. Seeded' /\ LockedAtLimit'
  BY <1>1, <1>3 DEF IInv, Seeded, LockedAtLimit, RoleExists, Exists, AllRoles
<1>8. Versions'
  <2> SUFFICES ASSUME NEW q \in Requests PROVE AsSeen(q)'
    BY DEF Versions
  <2>1. CASE drops(q)
    BY <1>2, <2>1, IdleTyped DEF AsSeen
  <2>2. CASE ~drops(q)
    <3>1. AsSeen(q) /\ tx'[q] = tx[q]
      BY <1>2, <2>2 DEF IInv, Versions
    <3>2. tx[q].op = "permissions" => tx[q].role \in AllRoles /\ tx[q].role # c
      BY <2>2, TxOf DEF IInv, TypeOK
    <3> QED
      BY <1>1, <1>3, <3>1, <3>2 DEF AsSeen
  <2> QED
    BY <2>1, <2>2
<1>9. OneSuccessor' /\ Sessions'
  BY <1>1, <1>4, NobodyDisabled, TokensSame
<1> QED
  BY <1>6, <1>7, <1>8, <1>9 DEF IInv

-----------------------------------------------------------------------------
LEMMA InitIInv == Init => IInv
<1> SUFFICES ASSUME Init PROVE IInv
  OBVIOUS
<1>1. \A u \in Users : \E v \in {0, 1} :
         users[u] = [st |-> "active", locked |-> FALSE, fails |-> 0,
                     roles |-> {SuperAdmin}, ver |-> v]
  BY DEF Init
<1>2. \A u \in Users : users[u] \in UserRows /\ users[u].roles = {SuperAdmin}
                        /\ users[u].fails = 0
  <2> SUFFICES ASSUME NEW u \in Users
               PROVE  users[u] \in UserRows /\ users[u].roles = {SuperAdmin}
                      /\ users[u].fails = 0
    OBVIOUS
  <2>1. PICK v \in {0, 1} :
           users[u] = [st |-> "active", locked |-> FALSE, fails |-> 0,
                       roles |-> {SuperAdmin}, ver |-> v]
    BY <1>1
  <2>2. {SuperAdmin} \in SUBSET AllRoles /\ 0 \in 0 .. MaxFailures /\ v \in Nat
    BY AccountsAssumption DEF AllRoles
  <2> QED
    BY <2>1, <2>2 DEF UserRows, UserStatus
<1>3. users = [u \in Users |-> users[u]]
  BY DEF Init
<1>4. users \in [Users -> UserRows]
  BY <1>2, <1>3
<1>5. roles \in [AllRoles -> RoleRows] /\ RoleExists(SuperAdmin)
  BY DEF Init, RoleRows, RoleExists, AllRoles
<1>6. /\ tokens = <<>> /\ tokens \in Seq(TokenRows) /\ Len(tokens) = 0
      /\ DOMAIN tokens = {}
  BY DEF Init
<1>7. tx \in [Requests -> Transaction] /\ \A r \in Requests : tx[r].op = "none"
  BY IdleTyped DEF Init
<1>8. edits \in 0 .. MaxEdits /\ 0 <= MaxTokens
  BY AccountsAssumption DEF Init
<1>9. TypeOK
  BY <1>2, <1>4, <1>5, <1>6, <1>7, <1>8 DEF TypeOK
<1>10. OneSuccessor
  BY <1>6 DEF OneSuccessor
<1>11. Sessions /\ Versions
  BY <1>7 DEF Sessions, Held, SeesAll, Versions, AsSeen
<1>12. Seeded /\ LockedAtLimit
  BY <1>2, <1>5, AccountsAssumption DEF Seeded, LockedAtLimit
<1> QED
  BY <1>9, <1>10, <1>11, <1>12 DEF IInv

LEMMA NextIInv == IInv /\ [Next]_vars => IInv'
<1> SUFFICES ASSUME IInv, [Next]_vars PROVE IInv'
  OBVIOUS
<1>1. CASE UNCHANGED vars
  <2>1. NoNewLocks /\ SeenStays
    BY <1>1 DEF vars, NoNewLocks, SeenStays, IInv, TypeOK
  <2> QED
    BY <1>1, <2>1, TxStep, TokensTyped DEF vars
<1>2. ASSUME NEW r \in Requests, NEW u \in Users, LoginRead(r, u) \/ BeginUser(r, u)
      PROVE  IInv'
  BY <1>2, LoginReadStep, BeginUserStep
<1>3. ASSUME NEW r \in Requests, NEW t \in DOMAIN tokens, RefreshLock(r, t) PROVE IInv'
  BY <1>3, RefreshLockStep
<1>4. ASSUME NEW r \in Requests, NEW c \in AllRoles, BeginRole(r, c) PROVE IInv'
  BY <1>4, BeginRoleStep
<1>5. ASSUME NEW r \in Requests,
             \/ Login(r) \/ Guess(r) \/ Rotate(r) \/ RefuseAll(r) \/ Rollback(r)
             \/ Activate(r) \/ DisableLock(r) \/ Disable(r) \/ ReplaceRoles(r)
             \/ RenameRole(r) \/ ReplacePermissions(r)
      PROVE  IInv'
  BY <1>5, LoginStep, GuessStep, RotateStep, RefuseAllStep, RollbackStep, ActivateStep,
     DisableLockStep, DisableStep, ReplaceRolesStep, RenameRoleStep, ReplacePermissionsStep
<1>6. ASSUME NEW u \in Users, LockLapses(u) \/ CreateUser(u) PROVE IInv'
  BY <1>6, LockLapsesStep, CreateUserStep
<1>7. ASSUME NEW t \in DOMAIN tokens, Expire(t) \/ Logout(t) PROVE IInv'
  BY <1>7, RevokeStep
<1>8. ASSUME NEW c \in AllRoles, CreateRole(c) \/ DeleteRole(c) PROVE IInv'
  BY <1>8, CreateRoleStep, DeleteRoleStep
<1> QED
  BY <1>1, <1>2, <1>3, <1>4, <1>5, <1>6, <1>7, <1>8 DEF Next

LEMMA Invariance == Spec => []IInv
BY InitIInv, NextIInv, PTL DEF Spec

-----------------------------------------------------------------------------
(* Rows and requests hold what their columns and guards admit; a role that *)
(* is assigned exists.                                                     *)
THEOREM TypeCorrect == Spec => []TypeOK
BY Invariance, PTL DEF IInv

(* A refresh token is exchanged for one other at most, of the same         *)
(* account: the row lock of refresh() keeps every other request away from  *)
(* the token between its reading and its rotation.                         *)
THEOREM ExchangedOnce == Spec => []OneSuccessor
BY Invariance, PTL DEF IInv

(* An account whose failures are used up is locked or disabled, in         *)
(* whatever order logins, failures and administrators write to it.         *)
THEOREM LimitLocks == Spec => []LockedAtLimit
BY Invariance, PTL DEF IInv

-----------------------------------------------------------------------------
(* A step of one request leaves those of the others as they are.           *)
LEMMA OthersStay ==
  ASSUME IInv, NEW q \in Requests, NEW r \in Requests, End(q), q # r, tx'[r] = Idle
  PROVE  tx[r] = Idle
BY EndTyped

LEMMA RolesAsSeen ==
  ASSUME IInv, Next, NEW r \in Requests, tx[r].op = "roles", users' # users, tx'[r] = Idle
  PROVE  tx[r].had = users[tx[r].user].roles
<1> USE IdleTyped
<1>1. CASE ReplaceRoles(r)
  BY <1>1 DEF ReplaceRoles, IInv, Versions, AsSeen
<1>2. tx[r] # Idle
  OBVIOUS
<1>3. ASSUME NEW q \in Requests,
             Login(q) \/ Guess(q) \/ Activate(q) \/ Disable(q) \/ ReplaceRoles(q), ~ReplaceRoles(r)
      PROVE  FALSE
  <2>1. End(q)
    BY <1>3 DEF Login, Guess, Activate, Disable, ReplaceRoles
  <2>2. q = r
    BY <1>2, <2>1, OthersStay
  <2> QED
    BY <1>3, <2>2 DEF Login, Guess, Activate, Disable
<1>4. ASSUME NEW u \in Users, LockLapses(u) \/ CreateUser(u) PROVE FALSE
  BY <1>2, <1>4 DEF LockLapses, CreateUser
<1>5. \/ \E q \in Requests :
           Login(q) \/ Guess(q) \/ Activate(q) \/ Disable(q) \/ ReplaceRoles(q)
      \/ \E u \in Users : LockLapses(u) \/ CreateUser(u)
  BY DEF Next, LoginRead, BeginUser, Begin, RefreshLock, BeginRole, Rotate, RefuseAll,
     Rollback, DisableLock, RenameRole, ReplacePermissions, Expire, Logout, CreateRole, DeleteRole
<1> QED
  BY <1>1, <1>3, <1>4, <1>5

LEMMA PermissionsAsSeen ==
  ASSUME IInv, Next, NEW r \in Requests, tx[r].op = "permissions", roles' # roles,
         tx'[r] = Idle, roles'[tx[r].role].ver > 0
  PROVE  tx[r].had = roles[tx[r].role].manage
<1> USE IdleTyped
<1>1. CASE ReplacePermissions(r)
  BY <1>1 DEF ReplacePermissions, RoleUnchanged, IInv, Versions, AsSeen
<1>2. tx[r] # Idle
  OBVIOUS
<1>3. ASSUME NEW q \in Requests, RenameRole(q) \/ ReplacePermissions(q), ~ReplacePermissions(r)
      PROVE  FALSE
  <2>1. End(q)
    BY <1>3 DEF RenameRole, ReplacePermissions
  <2>2. q = r
    BY <1>2, <2>1, OthersStay
  <2> QED
    BY <1>3, <2>2 DEF RenameRole
<1>4. ASSUME NEW c \in AllRoles, CreateRole(c) PROVE FALSE
  BY <1>2, <1>4 DEF CreateRole
<1>5. ASSUME NEW c \in AllRoles, DeleteRole(c) PROVE FALSE
  <2>1. tx[r].role # c
    BY <1>5 DEF DeleteRole, IInv, TypeOK
  <2> QED
    BY <1>2, <1>5, <2>1 DEF DeleteRole
<1>6. \/ \E q \in Requests : RenameRole(q) \/ ReplacePermissions(q)
      \/ \E c \in AllRoles : CreateRole(c) \/ DeleteRole(c)
  BY DEF Next, LoginRead, BeginUser, Begin, RefreshLock, BeginRole, Rotate, RefuseAll,
     Rollback, DisableLock, Login, Guess, Activate, Disable, ReplaceRoles, LockLapses,
     CreateUser, Expire, Logout
<1> QED
  BY <1>1, <1>3, <1>4, <1>5, <1>6

(* replace_user_roles() and replace_role_permissions() overwrite exactly   *)
(* what their client had seen: every writer of those columns raises the    *)
(* version they compare.                                                   *)
THEOREM ReplacedAsSeen == Spec => NoLostUpdate
<1>1. IInv /\ [Next]_vars => [\A r \in Requests :
         /\ tx[r].op = "roles" /\ users' # users /\ tx'[r] = Idle
             => tx[r].had = users[tx[r].user].roles
         /\ tx[r].op = "permissions" /\ roles' # roles /\ tx'[r] = Idle
                                     /\ roles'[tx[r].role].ver > 0
             => tx[r].had = roles[tx[r].role].manage]_vars
  BY RolesAsSeen, PermissionsAsSeen
<1> QED
  BY <1>1, Invariance, PTL DEF Spec, NoLostUpdate

(* Only Rotate makes a token a rotated one.                                *)
LEMMA OnlyRotate ==
  ASSUME IInv, Next, NEW t \in DOMAIN tokens,
         tokens[t].st # "rotated", tokens'[t].st = "rotated"
  PROVE  \E r \in Requests : Rotate(r) /\ tx[r].token = t
<1>1. ASSUME NEW S, tokens' = Revoked(S) PROVE FALSE
  BY <1>1, RevokedFacts, TokensTyped
<1>2. ASSUME tokens' = tokens PROVE FALSE
  BY <1>2
<1>3. ASSUME NEW r \in Requests, Login(r) PROVE FALSE
  <2>1. \A row : Append(tokens, row)[t] = tokens[t]
    BY TokensTyped
  <2> QED
    BY <1>3, <2>1 DEF Login, Issued
<1>4. ASSUME NEW r \in Requests, Rotate(r) PROVE tx[r].token = t
  <2>1. tx[r].token \in DOMAIN tokens
    BY <1>4 DEF Rotate, IInv, Sessions, Held
  <2>2. PICK toks : toks = RotatedToken(tx[r].token)
    OBVIOUS
  <2>3. /\ toks \in Seq(TokenRows) /\ DOMAIN toks = DOMAIN tokens
        /\ toks[t].st = IF t = tx[r].token THEN "rotated" ELSE tokens[t].st
    BY <2>1, <2>2, RotatedFacts, TokensTyped
  <2>4. PICK row : tokens' = Append(toks, row)
    BY <1>4, <2>2 DEF Rotate, Issued
  <2>5. tokens'[t] = toks[t]
    BY <2>3, <2>4
  <2> QED
    BY <2>3, <2>5
<1>5. \/ tokens' = tokens
      \/ \E S : tokens' = Revoked(S)
      \/ \E r \in Requests : Login(r) \/ Rotate(r)
  BY DEF Next, LoginRead, BeginUser, Begin, RefreshLock, BeginRole, Guess, RefuseAll,
     Rollback, Activate, DisableLock, Disable, ReplaceRoles, RenameRole, ReplacePermissions,
     LockLapses, CreateUser, Expire, Logout, CreateRole, DeleteRole
<1> QED
  BY <1>1, <1>2, <1>3, <1>4, <1>5

(* No session of a disabled account is prolonged: the token a refresh      *)
(* holds makes the request that disables its account wait.                 *)
THEOREM DisabledStaysOut == Spec => RefreshOfEnabled
<1>1. ASSUME IInv, [Next]_vars
      PROVE  [\A t \in DOMAIN tokens :
                tokens[t].st # "rotated" /\ tokens'[t].st = "rotated"
                    => users[tokens[t].owner].st # "disabled"]_vars
  <2> SUFFICES ASSUME Next, NEW t \in DOMAIN tokens,
                      tokens[t].st # "rotated", tokens'[t].st = "rotated"
               PROVE  users[tokens[t].owner].st # "disabled"
    BY <1>1
  <2>1. PICK r \in Requests : Rotate(r) /\ tx[r].token = t
    BY <1>1, OnlyRotate
  <2> QED
    BY <1>1, <2>1 DEF Rotate, IInv, Sessions, Held
<1> QED
  BY <1>1, Invariance, PTL DEF Spec, RefreshOfEnabled

-----------------------------------------------------------------------------
(* The stack.  Its invariant, StackIInv, says how complete the seeded rows *)
(* are at each command of the job, and what is as the seeds write it while *)
(* nobody changes anything.                                                *)

(* A nonempty set of natural numbers has a least one.                      *)
LEMMA LeastOf ==
  ASSUME NEW T \in SUBSET Nat, T # {}
  PROVE  \E x \in T : \A y \in T : x <= y
<1> DEFINE R == {p \in Nat \X Nat : p[1] < p[2]}
<1>1. IsWellFoundedOn(R, Nat)
  BY NatLessThanWellFounded DEF OpToRel
<1> HIDE DEF R
<1>2. PICK x \in T : \A y \in T : ~ (<<y, x>> \in R)
  BY <1>1, WFMin
<1>3. \A y \in T : ~ (y < x)
  BY <1>2 DEF R
<1> QED
  BY <1>2, <1>3

DemoGroups == {DemoOrder[i] : i \in 1 .. Len(DemoOrder)}

LEMMA DemoStatements ==
  /\ Len(DemoOrder) = 24
  /\ DemoOrder[1] = "permissions" /\ DemoOrder[2] = "roles" /\ DemoOrder[3] = "configs"
  /\ DemoOrder[4] = "role_permissions" /\ DemoOrder[5] = "users"
  /\ DemoOrder[6] = "scopes" /\ DemoOrder[7] = "user_roles"
  /\ DemoOrder[8] = "campuses" /\ DemoOrder[9] = "departments"
  /\ DemoOrder[10] = "contacts" /\ DemoOrder[11] = "categories"
  /\ DemoOrder[12] = "guides" /\ DemoOrder[13] = "applicabilities"
  /\ DemoOrder[14] = "materials" /\ DemoOrder[15] = "steps"
  /\ DemoOrder[16] = "rooms" /\ DemoOrder[17] = "members" /\ DemoOrder[18] = "orders"
  /\ DemoOrder[19] = "order_events" /\ DemoOrder[20] = "ratings"
  /\ DemoOrder[21] = "topics" /\ DemoOrder[22] = "events"
  /\ DemoOrder[23] = "registrations" /\ DemoOrder[24] = "items"
BY DEF DemoOrder

LEMMA DemoGroupsAre ==
  DemoGroups = (PlatformGroups \ {"rag_configs"}) \cup CampusGroups
               \cup ElectricityGroups \cup CommunityGroups
<1>1. 1 .. 24 = {1, 2, 3, 4, 5, 6, 7, 8, 9, 10, 11, 12, 13, 14, 15, 16, 17, 18, 19, 20,
                 21, 22, 23, 24}
  OBVIOUS
<1>2. DemoGroups = {DemoOrder[i] : i \in 1 .. 24}
  BY DemoStatements DEF DemoGroups
<1> QED
  BY <1>1, <1>2, DemoStatements
     DEF PlatformGroups, CampusGroups, ElectricityGroups, CommunityGroups

(* No statement of seed_demo needs a row that a later one writes.          *)
LEMMA NeedsComeFirst ==
  ASSUME NEW i \in 1 .. Len(DemoOrder)
  PROVE  Needs(DemoOrder[i]) \subseteq {DemoOrder[j] : j \in 1 .. i - 1}
<1> DEFINE g == DemoOrder[i]
<1>1. /\ g \notin {"role_permissions", "user_roles"} => g \notin DOMAIN AccountNeeds
      /\ g \notin {"scopes", "contacts"} => g \notin DOMAIN CampusNeeds
      /\ g \notin {"guides", "applicabilities", "materials", "steps"}
            => g \notin DOMAIN GuideNeeds
      /\ g \notin {"members", "orders", "order_events", "ratings", "topics", "events",
                    "registrations", "items"} => g \notin DOMAIN OwnerNeeds
  BY DEF AccountNeeds, CampusNeeds, GuideNeeds, OwnerNeeds
<1> USE <1>1, DemoStatements DEF Needs, AccountNeeds, CampusNeeds, GuideNeeds, OwnerNeeds
<1>2. CASE i < 8
  BY <1>2
<1>3. CASE i \in 8 .. 15
  BY <1>3
<1>4. CASE i > 15
  BY <1>4
<1> QED
  BY <1>2, <1>3, <1>4

(* So every statement finds what it takes: the command leaves nothing out. *)
LEMMA InstalledIs ==
  ASSUME NEW S
  PROVE  Installed(S) = S \cup DemoGroups
<1> DEFINE n == Len(DemoOrder)
           Statement(written, g) ==
              IF Needs(g) \subseteq written THEN written \cup {g} ELSE written
           Run(f) == [i \in 0 .. n |->
                        IF i = 0 THEN S ELSE Statement(f[i - 1], DemoOrder[i])]
           First(i) == {DemoOrder[j] : j \in 1 .. i}
           after == CHOOSE f : f = Run(f)
           all == [i \in 0 .. n |-> S \cup First(i)]
<1>1. n \in Nat
  BY DemoStatements
<1>2. ASSUME NEW i \in 1 .. n
      PROVE  Statement(S \cup First(i - 1), DemoOrder[i]) = S \cup First(i)
  <2>1. First(i) = First(i - 1) \cup {DemoOrder[i]}
    <3>1. 1 .. i = (1 .. i - 1) \cup {i}
      BY <1>1
    <3> QED
      BY <3>1
  <2>2. Needs(DemoOrder[i]) \subseteq First(i - 1)
    BY NeedsComeFirst
  <2> HIDE DEF First, n
  <2> QED
    BY <2>1, <2>2
<1>3. all = Run(all)
  <2>1. First(0) = {}
    OBVIOUS
  <2>2. \A i \in 1 .. n : i - 1 \in 0 .. n
    BY <1>1
  <2> HIDE DEF First, n, Statement
  <2>3. \A i \in 0 .. n : all[i] = S \cup First(i)
    OBVIOUS
  <2> HIDE DEF all
  <2>4. all[0] = S
    BY <1>1, <2>1, <2>3
  <2>5. ASSUME NEW i \in 1 .. n PROVE all[i] = Statement(all[i - 1], DemoOrder[i])
    <3>1. i \in 0 .. n /\ i - 1 \in 0 .. n
      BY <2>2, <1>1
    <3> QED
      BY <1>2, <2>3, <3>1
  <2>6. \A i \in 0 .. n : i = 0 \/ i \in 1 .. n
    BY <1>1
  <2>7. [i \in 0 .. n |-> all[i]] = Run(all)
    BY <2>4, <2>5, <2>6
  <2> QED
    BY <2>7 DEF all
<1>4. after = Run(after)
  <2> HIDE DEF all, Run
  <2> QED
    BY <1>3
<1>5. ASSUME NEW i \in 0 .. n
      PROVE  after[i] = IF i = 0 THEN S ELSE Statement(after[i - 1], DemoOrder[i])
  <2> HIDE DEF after, n, Statement
  <2> QED
    BY <1>4
<1>6. ASSUME NEW i \in 0 .. n
      PROVE  all[i] = IF i = 0 THEN S ELSE Statement(all[i - 1], DemoOrder[i])
  <2> HIDE DEF n, Statement, First
  <2>1. \A k \in 0 .. n : Run(all)[k] = IF k = 0 THEN S ELSE Statement(all[k - 1], DemoOrder[k])
    BY DEF Run
  <2> QED
    BY <1>3, <2>1
<1>7. after[n] = all[n]
  <2> HIDE DEF after, all, n, Statement
  <2> DEFINE Differ == {i \in 0 .. n : after[i] # all[i]}
  <2> SUFFICES ASSUME Differ # {} PROVE FALSE
    BY <1>1
  <2>0. Differ \in SUBSET Nat
    BY <1>1
  <2>1. PICK i \in Differ : \A k \in Differ : i <= k
    BY <2>0, LeastOf
  <2>2. i \in 1 .. n /\ i - 1 \in 0 .. n /\ i - 1 \notin Differ
    BY <1>1, <1>5, <1>6, <2>1
  <2>3. after[i - 1] = all[i - 1]
    BY <2>2
  <2> QED
    BY <1>1, <1>5, <1>6, <2>1, <2>2, <2>3
<1>8. all[n] = S \cup DemoGroups
  BY <1>1 DEF DemoGroups
<1>9. Installed(S) = after[n]
  BY DEF Installed
<1> QED
  BY <1>7, <1>8, <1>9

-----------------------------------------------------------------------------
(* The groups a command of the job leaves complete stay so until it has    *)
(* ended: nothing is downgraded while it runs or the API is up.            *)
Completing ==
    /\ job \in {"knowledge", "catalog"} => DemoGroups \subseteq groups
    /\ job = "catalog" => KnowledgeGroups \cup {"rag_configs"} \subseteq groups
    /\ CompleteWhenUp

(* As long as nobody has changed anything, what the commands that ran      *)
(* would write is what is there.                                           *)
AsDemo ==
    /\ DemoGroups \subseteq groups /\ admin.edited \cap ByDemo = {}
    /\ order = SeededOrder(order) /\ event = SeededEvent(event)
    /\ lost = SeededLost(lost) /\ topics.seed = "demo"
AsKnowledge ==
    /\ KnowledgeGroups \cup {"rag_configs"} \subseteq groups
    /\ admin.edited \cap ByKnowledge = {}
AsCatalog ==
    /\ AgentGroups \subseteq groups /\ admin.edited \cap ByCatalog = {}
    /\ models.seed = "active"
Repeated ==
    /\ clean >= 1 => AsDemo
    /\ clean >= 2 => AsKnowledge
    /\ clean = 3 => AsCatalog

StackIInv ==
    StackTypeOK /\ Completing /\ Repeated /\ CountNeverTooHigh /\ RowsFitOlderSchema


LEMMA GroupsAre ==
  /\ AllGroups = DemoGroups \cup KnowledgeGroups \cup {"rag_configs"} \cup AgentGroups
  /\ "users" \in DemoGroups
BY DemoGroupsAre DEF AllGroups, PlatformGroups

(* Each downgrade deletes or rewrites the rows that its migration admits.  *)
LEMMA ClearsItsKinds ==
  ASSUME NEW k \in Kinds
  PROVE  k \in Cleared[Since[k]]
BY DEF Kinds, Since, Cleared

LEMMA AlwaysFits ==
  ASSUME kinds \subseteq Kinds, schema \in Nat, NEW v \in Nat
  PROVE  Fits(v)
<1> SUFFICES ASSUME NEW w \in v + 1 .. schema, NEW k \in Left(w), Since[k] = w PROVE FALSE
  BY DEF Fits
<1>1. k \in Kinds /\ k \in Cleared[w]
  BY ClearsItsKinds DEF Left
<1>2. w \in w .. schema
  OBVIOUS
<1> QED
  BY <1>1, <1>2 DEF Left

-----------------------------------------------------------------------------
(* What the upserts write. *)

LEMMA SeededLogTyped == SeededLog \in Seq(OrderEvents) /\ Len(SeededLog) = Len(Path)
<1>1. Len(Path) \in Nat /\ \A i \in 1 .. Len(Path) : Path[i] \in OrderStatus
  BY DeploymentAssumption
<1>2. ASSUME NEW i \in 1 .. Len(Path)
      PROVE  [from |-> IF i = 1 THEN "none" ELSE Path[i - 1], to |-> Path[i]] \in OrderEvents
  <2>1. CASE i = 1
    BY <1>1, <2>1 DEF OrderEvents
  <2>2. CASE i # 1
    <3>1. i - 1 \in 1 .. Len(Path)
      BY <1>1, <2>2
    <3> QED
      BY <1>1, <2>2, <3>1 DEF OrderEvents
  <2> QED
    BY <2>1, <2>2
<1> QED
  BY <1>1, <1>2, IsASeq DEF SeededLog

LEMMA TailOfConcat ==
  ASSUME NEW T, NEW a \in Seq(T), NEW b \in Seq(T)
  PROVE  SubSeq(a \o b, Len(a) + 1, Len(a \o b)) = b
<1>1. /\ a \o b \in Seq(T) /\ Len(a \o b) = Len(a) + Len(b)
      /\ Len(a) \in Nat /\ Len(b) \in Nat
  BY ConcatProperties
<1>2. CASE b = <<>>
  BY <1>1, <1>2, SubSeqEmpty
<1>3. CASE b # <<>>
  <2>1. Len(b) > 0
    BY <1>1, <1>3, EmptySeq
  <2>2. SubSeq(a \o b, Len(a) + 1, Len(a) + Len(b)) = SubSeq(b, 1, Len(b))
    <3>1. /\ Len(a) + 1 \in Len(a) + 1 .. Len(a) + Len(b)
          /\ Len(a) + Len(b) \in Len(a) + 1 .. Len(a) + Len(b)
          /\ Len(a) + 1 - Len(a) = 1 /\ Len(a) + Len(b) - Len(a) = Len(b)
      BY <1>1, <2>1
    <3> QED
      BY <3>1, SubSeqOfConcat2
  <2> QED
    BY <1>1, <2>2, SubSeqFull
<1> QED
  BY <1>2, <1>3

LEMMA LaterTyped ==
  ASSUME NEW l \in Seq(OrderEvents)
  PROVE  SubmittedLater(l) \in Seq(OrderEvents)
<1>1. Len(l) \in Nat /\ Len(Path) \in Nat
  BY DeploymentAssumption
<1>2. \A i \in Len(Path) + 1 .. Len(l) : l[i] \in OrderEvents
  BY <1>1, ElementOfSeq
<1> QED
  BY <1>1, <1>2, SubSeqProperties DEF SubmittedLater

(* Written twice, the seeded order is as it was after the first time; what *)
(* users added to its log stays.                                           *)
LEMMA SeededOrderFacts ==
  ASSUME NEW o \in Orders
  PROVE  /\ SeededOrder(o) \in Orders
         /\ SeededOrder(SeededOrder(o)) = SeededOrder(o)
         /\ SubmittedLater(SeededOrder(o).log) = SubmittedLater(o.log)
         /\ o.rated => SeededOrder(o).rated
<1> DEFINE later == SubmittedLater(o.log)
           log == SeededLog \o later
<1>1. o.log \in Seq(OrderEvents) /\ o.rated \in BOOLEAN
  BY DEF Orders
<1>2. later \in Seq(OrderEvents) /\ SeededLog \in Seq(OrderEvents) /\ Len(SeededLog) = Len(Path)
  BY <1>1, LaterTyped, SeededLogTyped
<1>3. Path[Len(Path)] \in OrderStatus /\ Len(Path) \in Nat
  BY DeploymentAssumption
<1>4. \A p \in Orders :
         SeededOrder(p) = [st |-> Path[Len(Path)], ver |-> Len(Path),
                           log |-> SeededLog \o SubmittedLater(p.log),
                           rated |-> p.rated \/ Path[Len(Path)] = "completed"]
  BY DEF SeededOrder, SubmittedLater
<1> HIDE DEF later
<1>5. log \in Seq(OrderEvents) /\ SubmittedLater(log) = later
  BY <1>2, ConcatProperties, TailOfConcat DEF SubmittedLater
<1>6. SeededOrder(o) = [st |-> Path[Len(Path)], ver |-> Len(Path), log |-> log,
                        rated |-> o.rated \/ Path[Len(Path)] = "completed"]
  BY <1>4 DEF later
<1>7. SeededOrder(o) \in Orders
  BY <1>1, <1>3, <1>5, <1>6 DEF Orders
<1>8. /\ SeededOrder(o).log = log
      /\ SeededOrder(o).rated = (o.rated \/ Path[Len(Path)] = "completed")
  BY <1>6
<1>9. SeededOrder(SeededOrder(o)) =
         [st |-> Path[Len(Path)], ver |-> Len(Path), log |-> SeededLog \o later,
          rated |-> SeededOrder(o).rated \/ Path[Len(Path)] = "completed"]
  BY <1>4, <1>5, <1>7, <1>8
<1>10. (SeededOrder(o).rated \/ Path[Len(Path)] = "completed")
          = (o.rated \/ Path[Len(Path)] = "completed")
  BY <1>8, Zenon
<1> QED
  BY <1>1, <1>5, <1>6, <1>7, <1>8, <1>9, <1>10 DEF later

LEMMA SeededEventFacts ==
  ASSUME NEW e \in Events
  PROVE  /\ SeededEvent(e) \in Events
         /\ SeededEvent(SeededEvent(e)) = SeededEvent(e)
         /\ SeededEvent(e).count = 1
         /\ SeededEvent(e).seats[DemoUser] = "registered"
         /\ \A u \in Attendees \ {DemoUser} : SeededEvent(e).seats[u] = e.seats[u]
<1> DEFINE seats == [e.seats EXCEPT ![DemoUser] = "registered"]
<1>1. /\ seats \in [Attendees -> {"none", "registered", "cancelled"}]
      /\ [seats EXCEPT ![DemoUser] = "registered"] = seats
      /\ seats[DemoUser] = "registered"
      /\ \A u \in Attendees \ {DemoUser} : seats[u] = e.seats[u]
  BY DeploymentAssumption DEF Events
<1>2. SeededEvent(e) = [open |-> TRUE, count |-> 1, seats |-> seats]
  BY DEF SeededEvent
<1> HIDE DEF seats
<1>3. SeededEvent(SeededEvent(e)) =
         [open |-> TRUE, count |-> 1, seats |-> [seats EXCEPT ![DemoUser] = "registered"]]
  BY <1>2 DEF SeededEvent
<1>4. SeededEvent(e) \in Events
  BY <1>1, <1>2 DEF Events
<1>5. SeededEvent(SeededEvent(e)) = SeededEvent(e)
  BY <1>1, <1>2, <1>3
<1> QED
  BY <1>1, <1>2, <1>4, <1>5

LEMMA SeededLostFacts ==
  ASSUME NEW l \in Items
  PROVE  /\ SeededLost(l) \in Items
         /\ SeededLost(SeededLost(l)) = SeededLost(l)
         /\ SeededLost(l).claims.own = l.claims.own
<1> DEFINE claims == [l.claims EXCEPT !.seed = "pending"]
<1>1. /\ claims \in [seed : ClaimStatus, own : ClaimStatus]
      /\ claims.own = l.claims.own
      /\ [claims EXCEPT !.seed = "pending"] = claims
  BY DEF Items, ClaimStatus
<1>2. SeededLost(l) = [item |-> "claiming", claims |-> claims, match |-> "seed"]
  BY DEF SeededLost
<1> HIDE DEF claims
<1>3. SeededLost(SeededLost(l)) =
         [item |-> "claiming", claims |-> [claims EXCEPT !.seed = "pending"],
          match |-> "seed"]
  BY <1>2 DEF SeededLost
<1> QED
  BY <1>1, <1>2, <1>3 DEF Items

-----------------------------------------------------------------------------
(* Every step keeps the types. *)

LEMMA EmptyTyped ==
  /\ EmptyOrder \in Orders /\ EmptyEvent \in Events /\ EmptyLost \in Items
  /\ EmptyTopics \in TopicPairs /\ EmptyModels \in ModelPairs
BY DEF Orders, Events, Items, TopicPairs, ModelPairs, EmptyOrder, EmptyEvent, EmptyLost,
   EmptyTopics, EmptyModels, ClaimStatus, ModelStatus

LEMMA StackTypeInit == StackInit => StackTypeOK
BY EmptyTyped, DeploymentAssumption DEF StackInit, StackTypeOK, Newest

(* Operations of users, but for what they write.                           *)
LEMMA WorkTyped ==
  ASSUME StackTypeOK, Work
  PROVE  work' \in 0 .. MaxOperations /\ clean' \in 0 .. 3
BY DeploymentAssumption DEF Work, StackTypeOK

LEMMA DowngradeTyped ==
  ASSUME StackTypeOK, NEW v \in 0 .. Newest - 1, Downgrade(v)
  PROVE  StackTypeOK'
<1>1. Downgraded(v)
  BY AlwaysFits DEF Downgrade, StackTypeOK, Newest
<1>2. v \in 0 .. Newest
  BY DEF Newest
<1>3. (admin.taken /\ v >= 1) \in BOOLEAN
  OBVIOUS
<1>4. admin' \in [edited : SUBSET Settings, taken : BOOLEAN]
  <2>1. admin.edited \ EditsLost(v) \in SUBSET Settings
    BY DEF StackTypeOK
  <2> QED
    BY <1>1, <1>3, <2>1 DEF Downgraded
<1>5. /\ order' \in Orders /\ event' \in Events /\ lost' \in Items
      /\ topics' \in TopicPairs /\ models' \in ModelPairs
  BY <1>1, EmptyTyped DEF Downgraded, StackTypeOK
<1>6. groups' \subseteq AllGroups /\ kinds' \subseteq Kinds
  BY <1>1 DEF Downgraded, StackTypeOK, Left
<1> QED
  BY <1>1, <1>2, <1>4, <1>5, <1>6 DEF Downgraded, StackTypeOK

LEMMA JobTyped ==
  ASSUME StackTypeOK, JobStep
  PROVE  StackTypeOK'
<1> USE DEF StackTypeOK
<1>1. CASE Migrate
  BY <1>1 DEF Migrate, rows, Newest
<1>2. CASE Demo
  <2>1. groups' \subseteq AllGroups
    BY <1>2, InstalledIs, GroupsAre DEF Demo
  <2>2. admin' \in [edited : SUBSET Settings, taken : BOOLEAN]
    BY <1>2 DEF Demo
  <2>3. order' \in Orders /\ event' \in Events /\ lost' \in Items
    BY <1>2, SeededOrderFacts, SeededEventFacts, SeededLostFacts DEF Demo
  <2>4. topics' \in TopicPairs
    BY <1>2 DEF Demo, TopicPairs
  <2> QED
    BY <1>2, <2>1, <2>2, <2>3, <2>4 DEF Demo
<1>3. CASE Knowledge
  <2>1. groups' \subseteq AllGroups
    BY <1>3, GroupsAre DEF Knowledge
  <2>2. admin' \in [edited : SUBSET Settings, taken : BOOLEAN]
    BY <1>3 DEF Knowledge
  <2> QED
    BY <1>3, <2>1, <2>2 DEF Knowledge
<1>4. CASE Catalog
  <2>1. groups' \subseteq AllGroups
    BY <1>4, GroupsAre DEF Catalog
  <2>2. admin' \in [edited : SUBSET Settings, taken : BOOLEAN]
    BY <1>4 DEF Catalog
  <2>3. models' \in ModelPairs
    BY <1>4 DEF Catalog, ModelPairs, ModelStatus
  <2> QED
    BY <1>4, <2>1, <2>2, <2>3 DEF Catalog
<1>5. CASE JobRefused
  BY <1>5 DEF JobRefused, rows
<1> QED
  BY <1>1, <1>2, <1>3, <1>4, <1>5 DEF JobStep

(* What a user's operation leaves alone.                                   *)
Operation ==
    \/ Edit \/ TakeMail \/ NewRow
    \/ MoveOrder \/ RateOrder
    \/ CancelEvent \/ \E u \in Attendees : Register(u) \/ CancelSeat(u)
    \/ NewClaim \/ DeleteItem \/ ReviseItem \/ ListMatches
    \/ \E k \in {"seed", "own"} : DecideClaim(k) \/ CompleteClaim(k)
    \/ ChangeTopic \/ CreateTopic
    \/ AddModel \/ \E m \in {"seed", "own"} : ActivateModel(m) \/ DeactivateModel(m)

LEMMA UsersKeep ==
  ASSUME Operation
  PROVE  Work /\ UNCHANGED <<api, job, schema, groups>>
BY DEF Operation, Edit, TakeMail, NewRow, MoveOrder, RateOrder, CancelEvent, Register,
   CancelSeat, NewClaim, DeleteItem, ReviseItem, ListMatches, DecideClaim, CompleteClaim,
   ChangeTopic, CreateTopic, AddModel, ActivateModel, DeactivateModel

LEMMA Steps ==
  ASSUME StackNext
  PROVE  \/ ComposeUp \/ ComposeDown \/ JobStep \/ Operation
         \/ \E v \in 0 .. Newest - 1 : Downgrade(v)
BY DEF StackNext, JobStep, Operation

LEMMA OrderMoves ==
  ASSUME order \in Orders, MoveOrder \/ RateOrder
  PROVE  order' \in Orders
<1>1. CASE MoveOrder
  <2>1. PICK move \in Legal :
           order' = [order EXCEPT !.st = move[2], !.ver = @ + 1,
                        !.log = Append(@, [from |-> move[1], to |-> move[2]])]
    BY <1>1 DEF MoveOrder
  <2>2. move[1] \in OrderStatus /\ move[2] \in OrderStatus
    BY DEF Legal, OrderStatus
  <2>3. [from |-> move[1], to |-> move[2]] \in OrderEvents
    BY <2>2 DEF OrderEvents
  <2>4. PICK l : l = Append(order.log, [from |-> move[1], to |-> move[2]])
    OBVIOUS
  <2>5. l \in Seq(OrderEvents)
    BY <2>3, <2>4 DEF Orders
  <2>6. PICK st, n : st = move[2] /\ n = order.ver + 1
    OBVIOUS
  <2>7. st \in OrderStatus /\ n \in Nat
    BY <2>2, <2>6 DEF Orders
  <2>8. order' = [order EXCEPT !.st = st, !.ver = n, !.log = l]
    BY <2>1, <2>4, <2>6
  <2> QED
    BY <2>5, <2>7, <2>8 DEF Orders
<1>2. CASE RateOrder
  BY <1>2 DEF RateOrder, Orders
<1> QED
  BY <1>1, <1>2

SeatStep == CancelEvent \/ \E u \in Attendees : Register(u) \/ CancelSeat(u)

(* A seat more or less, and the counter with it.                           *)
LEMMA SeatMoves ==
  ASSUME event \in Events, SeatStep
  PROVE  /\ event' \in Events
         /\ \/ event'.count = event.count /\ event'.seats = event.seats
            \/ \E u \in Attendees :
                 /\ event.seats[u] # "registered" /\ event'.count = event.count + 1
                 /\ event'.seats = [event.seats EXCEPT ![u] = "registered"]
            \/ \E u \in Attendees :
                 /\ event'.count = (IF event.count > 0 THEN event.count - 1 ELSE 0)
                 /\ event'.seats = [event.seats EXCEPT ![u] = "cancelled"]
<1> USE DEF Events
<1>1. CASE CancelEvent
  BY <1>1 DEF CancelEvent
<1>2. ASSUME NEW u \in Attendees, Register(u)
      PROVE  /\ event' \in Events
             /\ event.seats[u] # "registered" /\ event'.count = event.count + 1
             /\ event'.seats = [event.seats EXCEPT ![u] = "registered"]
  <2>1. PICK s : s = [event.seats EXCEPT ![u] = "registered"]
    OBVIOUS
  <2>2. s \in [Attendees -> {"none", "registered", "cancelled"}]
    BY <2>1
  <2>3. PICK c \in Nat : c = event.count + 1
    OBVIOUS
  <2>4. event' = [event EXCEPT !.count = c, !.seats = s]
    BY <1>2, <2>1, <2>3 DEF Register
  <2>5. event' \in Events /\ event'.count = c /\ event'.seats = s
    BY <2>2, <2>4
  <2> QED
    BY <1>2, <2>1, <2>3, <2>5 DEF Register
<1>3. ASSUME NEW u \in Attendees, CancelSeat(u)
      PROVE  /\ event' \in Events
             /\ event'.count = (IF event.count > 0 THEN event.count - 1 ELSE 0)
             /\ event'.seats = [event.seats EXCEPT ![u] = "cancelled"]
  <2>1. PICK s : s = [event.seats EXCEPT ![u] = "cancelled"]
    OBVIOUS
  <2>2. s \in [Attendees -> {"none", "registered", "cancelled"}]
    BY <2>1
  <2>3. PICK c \in Nat : c = IF event.count > 0 THEN event.count - 1 ELSE 0
    OBVIOUS
  <2>4. event' = [event EXCEPT !.count = c, !.seats = s]
    BY <1>3, <2>1, <2>3 DEF CancelSeat
  <2> QED
    BY <2>1, <2>2, <2>3, <2>4
<1> QED
  BY <1>1, <1>2, <1>3 DEF SeatStep

ItemStep ==
    \/ NewClaim \/ DeleteItem \/ ReviseItem \/ ListMatches
    \/ \E k \in {"seed", "own"} : DecideClaim(k) \/ CompleteClaim(k)

LEMMA ItemMoves ==
  ASSUME lost \in Items, ItemStep
  PROVE  lost' \in Items
<1> USE DEF Items, ClaimStatus
<1>1. CASE NewClaim
  <2>1. PICK c : c = [lost.claims EXCEPT !.own = "pending"]
    OBVIOUS
  <2>2. c \in [seed : ClaimStatus, own : ClaimStatus]
    BY <2>1
  <2>3. lost' = [lost EXCEPT !.item = "claiming", !.claims = c]
    BY <1>1, <2>1 DEF NewClaim
  <2> QED
    BY <2>2, <2>3
<1>2. CASE DeleteItem
  BY <1>2 DEF DeleteItem
<1>3. CASE ReviseItem \/ ListMatches
  <2>1. \A similar \in BOOLEAN : Recomputed(lost.match, similar) \in {"none", "seed", "own"}
    BY DEF Recomputed
  <2>2. PICK similar \in BOOLEAN :
           \/ lost' = [lost EXCEPT !.item = "published",
                                   !.match = Recomputed(lost.match, similar)]
           \/ lost' = [lost EXCEPT !.match = Recomputed(lost.match, similar)]
    BY <1>3 DEF ReviseItem, ListMatches
  <2> QED
    BY <2>1, <2>2
<1>4. ASSUME NEW k \in {"seed", "own"}, DecideClaim(k) PROVE lost' \in Items
  <2>1. PICK verdict \in {"verified", "rejected"} :
           lost' = [lost EXCEPT !.claims[k] = verdict,
                      !.item = IF verdict = "rejected" /\ ActiveClaims = {k}
                               THEN "published" ELSE @]
    BY <1>4 DEF DecideClaim
  <2>2. PICK c : c = [lost.claims EXCEPT ![k] = verdict]
    OBVIOUS
  <2>3. c \in [seed : ClaimStatus, own : ClaimStatus]
    BY <2>2
  <2>4. PICK i : i = IF verdict = "rejected" /\ ActiveClaims = {k}
                     THEN "published" ELSE lost.item
    OBVIOUS
  <2>5. lost' = [lost EXCEPT !.claims = c, !.item = i]
    BY <2>1, <2>2, <2>4
  <2> QED
    BY <2>3, <2>4, <2>5
<1>5. ASSUME NEW k \in {"seed", "own"}, CompleteClaim(k) PROVE lost' \in Items
  <2>1. PICK c : c = [lost.claims EXCEPT ![k] = "completed"]
    OBVIOUS
  <2>2. c \in [seed : ClaimStatus, own : ClaimStatus]
    BY <2>1
  <2>3. lost' = [lost EXCEPT !.claims = c, !.item = "completed"]
    BY <1>5, <2>1 DEF CompleteClaim
  <2> QED
    BY <2>2, <2>3
<1> QED
  BY <1>1, <1>2, <1>3, <1>4, <1>5 DEF ItemStep

LEMMA UsersTyped ==
  ASSUME StackTypeOK, Operation
  PROVE  StackTypeOK'
<1> USE DEF StackTypeOK
<1>1. /\ api' \in {"down", "up"} /\ schema' \in 0 .. Newest /\ groups' \subseteq AllGroups
      /\ job' \in {"none", "migrate", "demo", "knowledge", "catalog", "refused", "unfit"}
      /\ work' \in 0 .. MaxOperations /\ clean' \in 0 .. 3
  BY UsersKeep, WorkTyped
<1>2. CASE Edit \/ TakeMail
  <2>1. admin' \in [edited : SUBSET Settings, taken : BOOLEAN]
    <3>1. CASE Edit
      <4>1. PICK s \in Settings : admin' = [admin EXCEPT !.edited = @ \cup {s}]
        BY <3>1 DEF Edit
      <4> QED
        BY <4>1
    <3>2. CASE TakeMail
      BY <3>2 DEF TakeMail
    <3> QED
      BY <1>2, <3>1, <3>2
  <2> QED
    BY <1>1, <1>2, <2>1 DEF Edit, TakeMail
<1>3. CASE NewRow
  <2>1. kinds' \subseteq Kinds
    BY <1>3 DEF NewRow, Kinds, Since
  <2> QED
    BY <1>1, <1>3, <2>1 DEF NewRow
<1>4. CASE MoveOrder \/ RateOrder
  BY <1>1, <1>4, OrderMoves DEF MoveOrder, RateOrder
<1>5. CASE SeatStep
  BY <1>1, <1>5, SeatMoves DEF SeatStep, CancelEvent, Register, CancelSeat
<1>6. CASE ItemStep
  BY <1>1, <1>6, ItemMoves
     DEF ItemStep, NewClaim, DeleteItem, ReviseItem, ListMatches, DecideClaim, CompleteClaim
<1>7. CASE ChangeTopic \/ CreateTopic
  <2>1. topics' \in TopicPairs
    BY <1>7 DEF ChangeTopic, CreateTopic, TopicPairs
  <2> QED
    BY <1>1, <1>7, <2>1 DEF ChangeTopic, CreateTopic
<1>8. CASE AddModel \/ \E m \in {"seed", "own"} : ActivateModel(m) \/ DeactivateModel(m)
  <2>1. models' \in ModelPairs
    <3>1. DOMAIN models = {"seed", "own"}
      BY DEF ModelPairs
    <3>2. ASSUME NEW m \in {"seed", "own"}, ActivateModel(m) PROVE models' \in ModelPairs
      BY <3>1, <3>2 DEF ActivateModel, ModelPairs, ModelStatus
    <3> QED
      BY <1>8, <3>2 DEF AddModel, DeactivateModel, ModelPairs, ModelStatus
  <2> QED
    BY <1>1, <1>8, <2>1 DEF AddModel, ActivateModel, DeactivateModel
<1> QED
  BY <1>2, <1>3, <1>4, <1>5, <1>6, <1>7, <1>8 DEF Operation, SeatStep, ItemStep

LEMMA StackTypeStep ==
  ASSUME StackTypeOK, [StackNext]_stackVars
  PROVE  StackTypeOK'
<1>1. CASE ComposeUp \/ ComposeDown
  BY <1>1 DEF ComposeUp, ComposeDown, rows, StackTypeOK
<1>2. CASE UNCHANGED stackVars
  BY <1>2 DEF stackVars, rows, StackTypeOK
<1> QED
  BY <1>1, <1>2, Steps, JobTyped, UsersTyped, DowngradeTyped

-----------------------------------------------------------------------------
(* Every step keeps the rest of the invariant. *)

LEMMA CompletingStep ==
  ASSUME StackIInv, [StackNext]_stackVars
  PROVE  Completing'
<1> USE DEF StackIInv, Completing, CompleteWhenUp
<1>1. CASE ComposeUp \/ ComposeDown
  BY <1>1 DEF ComposeUp, ComposeDown, rows
<1>2. ASSUME NEW v \in 0 .. Newest - 1, Downgrade(v) PROVE Completing'
  BY <1>2 DEF Downgrade, Stopped, Downgraded, Unfit, rows
<1>3. CASE JobStep
  <2>1. CASE Migrate
    BY <2>1 DEF Migrate, rows
  <2>2. CASE Demo
    BY <2>2, InstalledIs, GroupsAre DEF Demo
  <2>3. CASE Knowledge
    BY <2>3, GroupsAre DEF Knowledge
  <2>4. CASE Catalog
    BY <2>4, GroupsAre DEF Catalog, StackTypeOK
  <2>5. CASE JobRefused
    BY <2>5 DEF JobRefused, rows
  <2> QED
    BY <1>3, <2>1, <2>2, <2>3, <2>4, <2>5 DEF JobStep
<1>4. CASE Operation
  BY <1>4, UsersKeep
<1>5. CASE UNCHANGED stackVars
  BY <1>5 DEF stackVars, rows
<1> QED
  BY <1>1, <1>2, <1>3, <1>4, <1>5, Steps

(* What a command of the job writes is what it would write again; it       *)
(* changes nothing that a command before it or after it writes.            *)
LEMMA DemoRepeats ==
  ASSUME StackTypeOK, Demo
  PROVE  /\ AsDemo'
         /\ AsKnowledge => AsKnowledge'
         /\ AsCatalog => AsCatalog'
<1>1. /\ order' = SeededOrder(order) /\ event' = SeededEvent(event)
      /\ lost' = SeededLost(lost)
  BY DEF Demo
<1>2. /\ order' = SeededOrder(order') /\ event' = SeededEvent(event')
      /\ lost' = SeededLost(lost')
  BY <1>1, SeededOrderFacts, SeededEventFacts, SeededLostFacts DEF StackTypeOK
<1>3. groups' = groups \cup DemoGroups /\ admin'.edited = admin.edited \ ByDemo
  BY InstalledIs DEF Demo, StackTypeOK
<1>4. topics'.seed = "demo" /\ models' = models
  BY DEF Demo, StackTypeOK, TopicPairs
<1> QED
  BY <1>2, <1>3, <1>4 DEF AsDemo, AsKnowledge, AsCatalog, SeededOrder, SeededEvent, SeededLost

LEMMA KnowledgeRepeats ==
  ASSUME StackTypeOK, Knowledge
  PROVE  /\ AsDemo => AsDemo' /\ AsKnowledge'
         /\ AsCatalog => AsCatalog'
<1>1. /\ order' = order /\ event' = event /\ lost' = lost /\ topics' = topics
      /\ models' = models /\ groups \cup {"rag_configs"} \subseteq groups'
      /\ "users" \in groups => KnowledgeGroups \subseteq groups'
      /\ admin'.edited = admin.edited \ ByKnowledge
  BY DEF Knowledge, StackTypeOK
<1> QED
  BY <1>1, GroupsAre DEF AsDemo, AsKnowledge, AsCatalog, SeededOrder, SeededEvent, SeededLost

LEMMA CatalogRepeats ==
  ASSUME StackTypeOK, Catalog
  PROVE  /\ AsDemo => AsDemo'
         /\ AsKnowledge => AsKnowledge'
         /\ AsCatalog'
<1>1. /\ order' = order /\ event' = event /\ lost' = lost /\ topics' = topics
      /\ models'.seed = "active" /\ groups' = groups \cup AgentGroups
      /\ admin'.edited = admin.edited \ ByCatalog
  BY DEF Catalog, StackTypeOK, ModelPairs
<1> QED
  BY <1>1 DEF AsDemo, AsKnowledge, AsCatalog, SeededOrder, SeededEvent, SeededLost

LEMMA RowsStay ==
  ASSUME UNCHANGED rows
  PROVE  (AsDemo => AsDemo') /\ (AsKnowledge => AsKnowledge') /\ (AsCatalog => AsCatalog')
BY DEF rows, AsDemo, AsKnowledge, AsCatalog, SeededOrder, SeededEvent, SeededLost

LEMMA RepeatedStep ==
  ASSUME StackIInv, [StackNext]_stackVars
  PROVE  Repeated'
<1> USE DEF StackIInv, Repeated
<1>1. CASE clean' = clean /\ UNCHANGED rows
  BY <1>1, RowsStay
<1>2. CASE clean' = 0
  BY <1>2
<1>3. CASE Demo
  <2>1. clean \in 0 .. 3 /\ clean' = IF clean = 0 THEN 1 ELSE clean
    BY <1>3 DEF Demo, StackTypeOK
  <2> QED
    BY <1>3, <2>1, DemoRepeats
<1>4. CASE Knowledge
  <2>1. clean \in 0 .. 3 /\ clean' = IF clean = 1 THEN 2 ELSE clean
    BY <1>4 DEF Knowledge, StackTypeOK
  <2> QED
    BY <1>4, <2>1, KnowledgeRepeats
<1>5. CASE Catalog
  <2>1. clean \in 0 .. 3 /\ clean' = IF clean = 2 THEN 3 ELSE clean
    BY <1>5 DEF Catalog, StackTypeOK
  <2> QED
    BY <1>5, <2>1, CatalogRepeats
<1>6. CASE Operation
  BY <1>2, <1>6, UsersKeep DEF Work
<1>7. CASE ComposeUp \/ ComposeDown \/ Migrate \/ JobRefused \/ UNCHANGED stackVars
  BY <1>1, <1>7 DEF ComposeUp, ComposeDown, Migrate, JobRefused, stackVars
<1>8. ASSUME NEW v \in 0 .. Newest - 1, Downgrade(v) PROVE Repeated'
  BY <1>1, <1>2, <1>8 DEF Downgrade, Downgraded, Unfit
<1> QED
  BY <1>3, <1>4, <1>5, <1>6, <1>7, <1>8, Steps DEF JobStep

Seated(e) == {u \in Attendees : e.seats[u] = "registered"}

LEMMA CountStep ==
  ASSUME StackIInv, [StackNext]_stackVars
  PROVE  CountNeverTooHigh'
<1>1. /\ event \in Events /\ event' \in Events
      /\ event.count <= Cardinality(Seated(event))
  BY StackTypeStep DEF StackIInv, StackTypeOK, CountNeverTooHigh, Seated
<1>2. \A e : IsFiniteSet(Seated(e)) /\ Cardinality(Seated(e)) \in Nat
  BY DeploymentAssumption, FS_Subset, FS_CardinalityType DEF Seated
<1>3. event.count \in Nat /\ event'.count \in Nat
  BY <1>1 DEF Events
<1> SUFFICES event'.count <= Cardinality(Seated(event'))
  BY DEF CountNeverTooHigh, Seated
<1>4. CASE event' = event
  BY <1>1, <1>4
<1>5. CASE Demo
  <2>1. event'.count = 1 /\ event'.seats[DemoUser] = "registered"
    BY <1>1, <1>5, SeededEventFacts DEF Demo
  <2>2. {DemoUser} \in SUBSET Seated(event')
    BY <2>1, DeploymentAssumption DEF Seated
  <2>3. Cardinality({DemoUser}) <= Cardinality(Seated(event')) /\ Cardinality({DemoUser}) = 1
    BY <1>2, <2>2, FS_Subset, FS_Singleton
  <2> QED
    BY <2>1, <2>3
<1>6. CASE SeatStep
  <2>1. CASE event'.count = event.count /\ event'.seats = event.seats
    BY <1>1, <2>1 DEF Seated
  <2>2. ASSUME NEW u \in Attendees,
               event.seats[u] # "registered", event'.count = event.count + 1,
               event'.seats = [event.seats EXCEPT ![u] = "registered"]
        PROVE  event'.count <= Cardinality(Seated(event'))
    <3>1. Seated(event') = Seated(event) \cup {u} /\ u \notin Seated(event)
      BY <1>1, <2>2 DEF Seated, Events
    <3>2. Cardinality(Seated(event')) = Cardinality(Seated(event)) + 1
      BY <1>2, <3>1, FS_AddElement
    <3> QED
      BY <1>1, <1>2, <1>3, <2>2, <3>2
  <2>3. ASSUME NEW u \in Attendees,
               event'.count = (IF event.count > 0 THEN event.count - 1 ELSE 0),
               event'.seats = [event.seats EXCEPT ![u] = "cancelled"]
        PROVE  event'.count <= Cardinality(Seated(event'))
    <3>1. Seated(event') = Seated(event) \ {u}
      BY <1>1, <2>3 DEF Seated, Events
    <3>2. Cardinality(Seated(event')) \in Nat /\ Cardinality(Seated(event)) \in Nat
      BY <1>2
    <3>3. \/ Cardinality(Seated(event')) = Cardinality(Seated(event)) - 1
          \/ Cardinality(Seated(event')) = Cardinality(Seated(event))
      <4>1. IsFiniteSet(Seated(event))
        BY <1>2
      <4> QED
        BY <3>1, <4>1, FS_RemoveElement
    <3> QED
      BY <1>1, <1>3, <2>3, <3>2, <3>3
  <2> QED
    BY <1>1, <1>6, <2>1, <2>2, <2>3, SeatMoves
<1>7. ASSUME NEW v \in 0 .. Newest - 1, Downgrade(v)
      PROVE  event'.count <= Cardinality(Seated(event'))
  <2>1. event' = event \/ event'.count = 0
    BY <1>7 DEF Downgrade, Downgraded, Unfit, rows, EmptyEvent
  <2> QED
    BY <1>2, <1>4, <2>1
<1>8. \/ event' = event \/ Demo \/ SeatStep
      \/ \E v \in 0 .. Newest - 1 : Downgrade(v)
  <2>1. CASE Operation
    BY <2>1 DEF Operation, SeatStep, Edit, TakeMail, NewRow, MoveOrder, RateOrder, NewClaim,
       DeleteItem, ReviseItem, ListMatches, DecideClaim, CompleteClaim, ChangeTopic,
       CreateTopic, AddModel, ActivateModel, DeactivateModel
  <2>2. CASE ~Operation
    BY <2>2, Steps
       DEF JobStep, Migrate, Knowledge, Catalog, JobRefused, ComposeUp, ComposeDown,
           stackVars, rows
  <2> QED
    BY <2>1, <2>2
<1> QED
  BY <1>4, <1>5, <1>6, <1>7, <1>8

(* A downgrade always fits: whichever rows the newer versions brought, the *)
(* migration that admits them clears them.                                 *)
LEMMA FitsStep ==
  ASSUME StackIInv, [StackNext]_stackVars
  PROVE  RowsFitOlderSchema'
<1> USE DEF StackIInv, RowsFitOlderSchema
<1>1. ASSUME NEW v \in 0 .. Newest - 1, Downgrade(v) PROVE RowsFitOlderSchema'
  <2>1. Downgraded(v)
    BY <1>1, AlwaysFits DEF Downgrade, StackTypeOK, Newest
  <2> QED
    BY <2>1 DEF Downgraded
<1> QED
  BY <1>1, Steps, UsersKeep
     DEF ComposeUp, ComposeDown, JobStep, Migrate, Demo, Knowledge, Catalog, JobRefused,
         stackVars

LEMMA StackInitInv == StackInit => StackIInv
<1> SUFFICES ASSUME StackInit PROVE StackIInv
  OBVIOUS
<1>1. {u \in Attendees : event.seats[u] = "registered"} = {} /\ event.count = 0
  BY DEF StackInit, EmptyEvent
<1>2. CountNeverTooHigh
  BY <1>1, FS_EmptySet DEF CountNeverTooHigh
<1>3. Completing /\ Repeated /\ RowsFitOlderSchema
  BY DEF StackInit, Completing, CompleteWhenUp, Repeated, RowsFitOlderSchema
<1> QED
  BY <1>2, <1>3, StackTypeInit DEF StackIInv

LEMMA StackInvariance == StackSpec => []StackIInv
<1>1. ASSUME StackIInv, [StackNext]_stackVars PROVE StackIInv'
  <2>1. StackTypeOK
    BY <1>1 DEF StackIInv
  <2> QED
    BY <1>1, <2>1, StackTypeStep, CompletingStep, RepeatedStep, CountStep, FitsStep
       DEF StackIInv
<1> QED
  BY <1>1, StackInitInv, PTL DEF StackSpec

-----------------------------------------------------------------------------
(* The theorems about the stack. *)

(* Schema, job, seeded rows and what users make of them hold what their    *)
(* columns admit.                                                          *)
THEOREM StackTypeCorrect == StackSpec => []StackTypeOK
<1>1. StackIInv => StackTypeOK
  BY DEF StackIInv
<1> QED
  BY <1>1, StackInvariance, PTL

(* An API that serves has every group of demonstration rows beneath it.    *)
THEOREM CompleteStart == StackSpec => []CompleteWhenUp
<1>1. StackIInv => CompleteWhenUp
  BY DEF StackIInv, Completing
<1> QED
  BY <1>1, StackInvariance, PTL

(* The counter of the seeded event is never above its registrations.       *)
THEOREM SeatsNotLost == StackSpec => []CountNeverTooHigh
<1>1. StackIInv => CountNeverTooHigh
  BY DEF StackIInv
<1> QED
  BY <1>1, StackInvariance, PTL

(* No row stands in the way of a downgrade, from any version to any other. *)
THEOREM AnyDowngradeFits == StackSpec => []RowsFitOlderSchema
<1>1. StackIInv => RowsFitOlderSchema
  BY DEF StackIInv
<1> QED
  BY <1>1, StackInvariance, PTL

(* The job of a start leaves the rows of the users alone.                  *)
THEOREM JobLeavesUsers == StackSpec => OwnRowsStay
<1> DEFINE Stays ==
       /\ \A u \in Attendees \ {DemoUser} : event'.seats[u] = event.seats[u]
       /\ SubmittedLater(order'.log) = SubmittedLater(order.log)
       /\ order.rated => order'.rated
       /\ lost'.claims.own = lost.claims.own
       /\ topics'.own = topics.own /\ models'.own = models.own
       /\ admin'.edited \cap Kept = admin.edited \cap Kept
<1>1. ASSUME StackIInv, [StackNext]_stackVars
      PROVE  [JobStep => Stays]_stackVars
  <2> SUFFICES ASSUME JobStep PROVE Stays
    OBVIOUS
  <2>1. StackTypeOK
    BY <1>1 DEF StackIInv
  <2>2. (ByDemo \cup ByKnowledge \cup ByCatalog) \cap Kept = {}
    BY DEF ByDemo, ByKnowledge, ByCatalog, Kept
  <2>3. CASE Demo
    <3>1. /\ \A u \in Attendees \ {DemoUser} : event'.seats[u] = event.seats[u]
          /\ SubmittedLater(order'.log) = SubmittedLater(order.log)
          /\ order.rated => order'.rated
          /\ lost'.claims.own = lost.claims.own
      BY <2>1, <2>3, SeededOrderFacts, SeededEventFacts, SeededLostFacts
         DEF Demo, StackTypeOK
    <3>2. topics'.own = topics.own /\ models' = models
      BY <2>1, <2>3 DEF Demo, StackTypeOK, TopicPairs
    <3>3. admin'.edited = admin.edited \ ByDemo
      BY <2>1, <2>3 DEF Demo, StackTypeOK
    <3> QED
      BY <2>2, <3>1, <3>2, <3>3
  <2>4. CASE Knowledge \/ Catalog
    <3>1. order' = order /\ event' = event /\ lost' = lost /\ topics' = topics
      BY <2>4 DEF Knowledge, Catalog
    <3>2. models'.own = models.own
      BY <2>1, <2>4 DEF Knowledge, Catalog, StackTypeOK, ModelPairs
    <3>3. \/ admin'.edited = admin.edited \ ByKnowledge
          \/ admin'.edited = admin.edited \ ByCatalog
      BY <2>1, <2>4 DEF Knowledge, Catalog, StackTypeOK
    <3> QED
      BY <2>2, <3>1, <3>2, <3>3
  <2>5. CASE Migrate \/ JobRefused
    BY <2>5 DEF Migrate, JobRefused, rows
  <2> QED
    BY <2>3, <2>4, <2>5 DEF JobStep
<1> QED
  BY <1>1, StackInvariance, PTL DEF StackSpec, OwnRowsStay

(* A job over a database nobody has touched since the last one finds every *)
(* row as it would write it.                                               *)
THEOREM JobRepeats == StackSpec => RepeatIsIdle
<1>1. ASSUME StackIInv, [StackNext]_stackVars
      PROVE  [clean = 3 /\ JobStep => UNCHANGED rows]_stackVars
  <2> SUFFICES ASSUME clean = 3, JobStep PROVE UNCHANGED rows
    OBVIOUS
  <2>1. StackTypeOK /\ AsDemo /\ AsKnowledge /\ AsCatalog
    BY <1>1 DEF StackIInv, Repeated
  <2>2. CASE Demo
    <3>1. groups' = groups
      BY <2>1, <2>2, InstalledIs DEF Demo, AsDemo
    <3>2. admin' = admin
      BY <2>1, <2>2 DEF Demo, AsDemo, StackTypeOK
    <3>3. topics' = topics
      BY <2>1, <2>2 DEF Demo, AsDemo, StackTypeOK, TopicPairs
    <3>4. order' = order /\ event' = event /\ lost' = lost
      BY <2>1, <2>2 DEF Demo, AsDemo
    <3> QED
      BY <2>2, <3>1, <3>2, <3>3, <3>4 DEF Demo, rows
  <2>3. CASE Knowledge
    <3>1. groups' = groups
      BY <2>1, <2>3 DEF Knowledge, AsKnowledge
    <3>2. admin' = admin
      BY <2>1, <2>3 DEF Knowledge, AsKnowledge, StackTypeOK
    <3> QED
      BY <2>3, <3>1, <3>2 DEF Knowledge, rows
  <2>4. CASE Catalog
    <3>1. groups' = groups
      BY <2>1, <2>4 DEF Catalog, AsCatalog
    <3>2. admin' = admin
      BY <2>1, <2>4 DEF Catalog, AsCatalog, StackTypeOK
    <3>3. models' = models
      BY <2>1, <2>4 DEF Catalog, AsCatalog, StackTypeOK, ModelPairs
    <3> QED
      BY <2>4, <3>1, <3>2, <3>3 DEF Catalog, rows
  <2>5. CASE Migrate \/ JobRefused
    BY <2>5 DEF Migrate, JobRefused
  <2> QED
    BY <2>2, <2>3, <2>4, <2>5 DEF JobStep
<1> QED
  BY <1>1, StackInvariance, PTL DEF StackSpec, RepeatIsIdle

=============================================================================
