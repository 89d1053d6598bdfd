---------------------------- MODULE LostFoundClaims ----------------------------
(***************************************************************************)
(* Lost and found: users post items, edit and delete them, claim each      *)
(* other's items, and both sides confirm that a claim is done, while the   *)
(* items are reported and moderated.                                       *)
(*                                                                         *)
(* Every operation is a transaction that locks the items it changes, so it *)
(* is one step taken while nobody holds them.  A new claim is two: the     *)
(* target is locked and everything checked, the claimant's own item by a   *)
(* plain read, and later the claim is written.                             *)
(***************************************************************************)
EXTENDS ModeratedContent, FiniteSets

CONSTANTS
    Items,        \* rows that may be posted
    NoItem,       \* claimant_item_id is NULL
    MaxClaims,    \* bound: claims
    MaxItemCases, \* bound: moderation cases opened for an item
    MaxItemEdits  \* bound: updates of items

ASSUME LostFoundAssumption ==
    /\ NoItem \notin Items
    /\ {MaxClaims, MaxItemCases, MaxItemEdits} \subseteq Nat

Kinds == {"lost", "found"}
PublicStatus == {"published", "claiming"}
ItemStatus == ScanResults \cup {"absent", "claiming", "completed", "deleted"}
ActiveClaim == {"pending", "verified"}
FinalClaim == {"rejected", "completed"}

VARIABLES
    items,    \* content with owner, kind, deleted (deleted_at is set) and
              \* dated (published_at is set)
    claims,   \* claims[k]: target, own item, by, st, the two confirmations
    claimTx,  \* claimTx[u]: what the claim u is about to write has found
    itemEdits \* updates so far

itemVars == <<items, claims, claimTx, itemEdits>>

NoClaimTx == [target |-> NoItem]
ItemRows ==
    [st : ItemStatus, case : Nat, cases : Seq(CaseStatus),
     owner : Users, kind : Kinds, deleted : BOOLEAN, dated : BOOLEAN]
Claims ==
    [target : Items, own : Items \cup {NoItem}, by : Users,
     st : ActiveClaim \cup FinalClaim,
     byClaimant : BOOLEAN, byOwner : BOOLEAN]

ItemInit ==
    /\ \E u \in Users :
        items = [i \in Items |->
                   [st |-> "absent", case |-> 0, cases |-> <<>>, owner |-> u,
                    kind |-> "lost", deleted |-> FALSE, dated |-> FALSE]]
    /\ claims = <<>>
    /\ claimTx = [u \in Users |-> NoClaimTx]
    /\ itemEdits = 0

Live(i) == items[i].st # "absent" /\ ~items[i].deleted
Free(i) == \A u \in Users : claimTx[u].target # i
Active(i) == {k \in DOMAIN claims :
                 claims[k].target = i /\ claims[k].st \in ActiveClaim}
ClaimItems(c) == {c.target, c.own} \ {NoItem}

(* published_at is set with the status published and cleared otherwise.    *)
Dated(c) == [c EXCEPT !.dated = c.st = "published"]

-----------------------------------------------------------------------------
(* Owners *)

PostItem(i) ==
    /\ items[i].st = "absent"
    /\ \E result \in ScanResults, u \in Users, kind \in Kinds :
        /\ result # "published" => MaxItemCases > 0
        /\ items' = [items EXCEPT ![i] =
             Dated([Scanned(@, result) EXCEPT !.owner = u, !.kind = kind])]
    /\ UNCHANGED <<claims, claimTx, itemEdits>>

(* A new text is scanned; claims in progress do not keep the status.       *)
UpdateItem(i) ==
    /\ Live(i) /\ Free(i)
    /\ items[i].st # "completed"
    /\ itemEdits < MaxItemEdits
    /\ itemEdits' = itemEdits + 1
    /\ \E result \in ScanResults :
        /\ result # "published" => Len(items[i].cases) < MaxItemCases
        /\ items' = [items EXCEPT ![i] = Dated(Scanned(@, result))]
    /\ UNCHANGED <<claims, claimTx>>

(* Mutant: claims in progress are not looked at.                           *)
DeleteUnchecked(i) ==
    /\ Live(i) /\ Free(i)
    /\ items' = [items EXCEPT ![i].st = "deleted", ![i].deleted = TRUE]
    /\ UNCHANGED <<claims, claimTx, itemEdits>>

DeleteItem(i) ==
    /\ Live(i) /\ Free(i)
    /\ Active(i) = {}
    /\ items' = [items EXCEPT ![i].st = "deleted", ![i].deleted = TRUE]
    /\ UNCHANGED <<claims, claimTx, itemEdits>>

-----------------------------------------------------------------------------
(* Reports and moderation *)

ReportItem(i) ==
    /\ Live(i) /\ Free(i)
    /\ OpenCases(items[i]) = {} => Len(items[i].cases) < MaxItemCases
    /\ items' = [items EXCEPT ![i] = Reported(@)]
    /\ UNCHANGED <<claims, claimTx, itemEdits>>

(* The case of a deleted item is decided without effect on the item.       *)
DecideItem(i) ==
    /\ Free(i)
    /\ \E k \in DOMAIN items[i].cases, decision \in Decisions :
        /\ Decidable(items[i], k)
        /\ items' = [items EXCEPT ![i] =
             IF @.deleted \/ decision = "escalated"
             THEN [@ EXCEPT !.cases[k] = decision]
             ELSE Dated(Decided(@, k, decision))]
    /\ UNCHANGED <<claims, claimTx, itemEdits>>

-----------------------------------------------------------------------------
(* Claims *)

ValidOwn(u, target, own) ==
    /\ own # target
    /\ Live(own)
    /\ items[own].owner = u
    /\ items[own].kind # items[target].kind
    /\ items[own].st \in PublicStatus

Claimable(u, i) ==
    /\ Live(i) /\ Free(i)
    /\ items[i].st \in PublicStatus
    /\ items[i].owner # u
    /\ \A k \in Active(i) : claims[k].by # u

(* create(): the target is locked, its claims and the own item are read.   *)
Check(u) ==
    /\ claimTx[u] = NoClaimTx
    /\ Len(claims) + Cardinality({v \in Users : claimTx[v] # NoClaimTx}) < MaxClaims
    /\ \E i \in Items, own \in Items \cup {NoItem} :
        /\ Claimable(u, i)
        /\ own # NoItem => ValidOwn(u, i, own)
        /\ claimTx' = [claimTx EXCEPT ![u] = [target |-> i, own |-> own]]
    /\ UNCHANGED <<items, claims, itemEdits>>

(* The insert also takes a share lock on the own item (a foreign key), so  *)
(* it waits for whoever holds that one.                                    *)
Submit(u) ==
    /\ claimTx[u] # NoClaimTx
    /\ claimTx[u].own # NoItem => Free(claimTx[u].own)
    /\ claims' = Append(claims,
         [target |-> claimTx[u].target, own |-> claimTx[u].own, by |-> u,
          st |-> "pending", byClaimant |-> FALSE, byOwner |-> FALSE])
    /\ items' = [items EXCEPT ![claimTx[u].target].st = "claiming"]
    /\ claimTx' = [claimTx EXCEPT ![u] = NoClaimTx]
    /\ UNCHANGED itemEdits

(* The transaction fails, or is chosen to end a deadlock.                  *)
Rollback(u) ==
    /\ claimTx[u] # NoClaimTx
    /\ claimTx' = [claimTx EXCEPT ![u] = NoClaimTx]
    /\ UNCHANGED <<items, claims, itemEdits>>

Verify(k) ==
    /\ claims[k].st = "pending"
    /\ Live(claims[k].target) /\ Free(claims[k].target)
    /\ claims' = [claims EXCEPT ![k].st = "verified"]
    /\ UNCHANGED <<items, claimTx, itemEdits>>

(* Without another active claim the target goes back to published: a row   *)
(* that has no published_at fails the CHECK constraint and the rejection   *)
(* is rolled back.                                                         *)
Rejectable(k) ==
    Active(claims[k].target) = {k} => items[claims[k].target].dated

Reject(k) ==
    LET target == claims[k].target IN
    /\ claims[k].st = "pending"
    /\ Live(target) /\ Free(target)
    /\ Rejectable(k)
    /\ claims' = [claims EXCEPT ![k].st = "rejected"]
    /\ items' = IF Active(target) = {k}
                THEN [items EXCEPT ![target].st = "published"]
                ELSE items
    /\ UNCHANGED <<claimTx, itemEdits>>

Confirmed(c) == c.byClaimant /\ c.byOwner

(* complete(): u confirms as claimant or as owner of the target; with both *)
(* confirmations the claim and its items, deleted ones included, are done. *)
Complete(u, k) ==
    LET c == claims[k]
        confirmed == [c EXCEPT !.byClaimant = @ \/ u = c.by,
                               !.byOwner = @ \/ u = items[c.target].owner]
    IN
    /\ c.st = "verified"
    /\ u \in {c.by, items[c.target].owner}
    /\ \A i \in ClaimItems(c) : Free(i)
    /\ IF Confirmed(confirmed)
       THEN /\ claims' = [claims EXCEPT ![k] =
                            [confirmed EXCEPT !.st = "completed"]]
            /\ items' = [i \in Items |->
                 IF i \in ClaimItems(c)
                 THEN [items[i] EXCEPT !.st = "completed"] ELSE items[i]]
       ELSE /\ claims' = [claims EXCEPT ![k] = confirmed]
            /\ UNCHANGED items
    /\ UNCHANGED <<claimTx, itemEdits>>

-----------------------------------------------------------------------------
ItemNext ==
    \/ \E i \in Items :
        \/ PostItem(i) \/ UpdateItem(i) \/ DeleteItem(i)
        \/ ReportItem(i) \/ DecideItem(i)
    \/ \E u \in Users : Check(u) \/ Submit(u) \/ Rollback(u)
    \/ \E k \in DOMAIN claims :
        \/ Verify(k)
        \/ Reject(k)
        \/ \E u \in Users : Complete(u, k)

ItemSpec == ItemInit /\ [][ItemNext]_itemVars

-----------------------------------------------------------------------------
(* Safety *)

(* What the CHECK constraints of an item admit: what is public has a       *)
(* publication date, what waits for review has a case.                     *)
Admitted(c) ==
    /\ c \in ItemRows
    /\ c.case <= Len(c.cases) /\ Len(c.cases) <= MaxItemCases
    /\ c.st \in PublicStatus => c.dated
    /\ c.st = "pending_review" => c.case # 0

(* Rows hold what their constraints admit.                                 *)
ItemTypeOK ==
    /\ items \in [Items -> ItemRows]
    /\ \A i \in Items : Admitted(items[i])
    /\ claims \in Seq(Claims)
    /\ claimTx \in [Users -> {NoClaimTx} \cup
                          [target : Items, own : Items \cup {NoItem}]]
    /\ itemEdits \in 0 .. MaxItemEdits

(* Nobody's claim in progress loses its item: the owner cannot delete it   *)
(* before, between or after the two steps of a claim.                      *)
ActiveClaimKeepsItem ==
    \A k \in DOMAIN claims :
        claims[k].st \in ActiveClaim => Live(claims[k].target)

(* An item that was refused comes back into public view only with a new    *)
(* text or the approval of a moderator, whatever happens to its claims.    *)
RefusedReturnsByReview == [][\A i \in Items :
    /\ items[i].st \in {"rejected", "pending_review"}
    /\ items'[i].st \in PublicStatus
    => \/ itemEdits' > itemEdits
       \/ \E k \in OpenCases(items[i]) : items'[i].cases[k] = "approved"]_itemVars

(* An item is completed only by a claim that both sides have confirmed.    *)
CompletedByBoth == \A i \in Items : items[i].st = "completed" =>
    \E k \in DOMAIN claims :
        /\ i \in ClaimItems(claims[k])
        /\ claims[k].st = "completed"
        /\ claims[k].byClaimant /\ claims[k].byOwner

=============================================================================
