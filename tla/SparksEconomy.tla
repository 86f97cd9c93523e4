--------------------------- MODULE SparksEconomy ---------------------------
(***************************************************************************)
(* Sparks of one stakeholder in one project: how contributions earn them   *)
(* and how the stakeholder spends them.                                    *)
(*   - The contribution RPCs (evidence, verify, accept, score, certify,    *)
(*     mint) read their row without a lock and write it later, so each is  *)
(*     a read step and a write step; reviewers act at the same time.       *)
(*   - A redemption request reads the catalog and looks its key up before  *)
(*     it locks the accounts, and takes the hold afterwards.  Cancel and   *)
(*     fulfil lock their row first and are one action each.                *)
(* An RPC that raises, or returns what an earlier call made, leaves the    *)
(* state alone.  public.spark_ledger_entries is append-only and a balance  *)
(* is the sum of an account's entries: spendable and locked are these sums *)
(* for the project and the locked account.                                 *)
(***************************************************************************)
EXTENDS Naturals, Sequences, FiniteSets, Functions

CONSTANTS
    Work,         \* the stakeholder's contributions
    Reviewer,     \* sessions of owners and admins, one RPC at a time each
    NoWork,       \* what an idle reviewer works on
    Worth,        \* Sparks a score may be worth, possibly none
    MaxScores,    \* bound on the score versions of a contribution
    Redemption,   \* request calls; a redemption bears the name of its call
    RequestKey,   \* client-generated request keys
    NoRequestKey, \* the key of a call not made
    MaxServices,  \* bound on the published versions of the service
    Price,        \* Price[s]: Sparks for one unit of version s
    Quantity      \* quantities requested

ASSUME WorkAssumption == NoWork \notin Work /\ NoRequestKey \notin RequestKey
ASSUME AmountAssumption ==
    /\ Worth \subseteq Nat /\ Quantity \subseteq Nat \ {0}
    /\ MaxScores \in Nat /\ MaxServices \in Nat
    /\ Price \in [1 .. MaxServices -> Nat \ {0}]
ASSUME FiniteSparks == IsFiniteSet(Work) /\ IsFiniteSet(Redemption)

VARIABLES
    work,        \* work[w]: the contribution_ledger row
    score,       \* score[w]: its score versions; the last one is the final one
    award,       \* award[w]: its contribution_award entries
    review,      \* review[v]: the RPC reviewer v is executing
    spendable,   \* balance of the project account
    locked,      \* balance of the locked account
    catalog,     \* statuses of the service's versions, in order
    redemption   \* redemption[q]: the call and the row it inserted

sparkVars == <<work, score, award, review, spendable, locked, catalog, redemption>>

-----------------------------------------------------------------------------

WorkRow == [lifecycle : {"submitted", "staged", "verified", "accepted",
                         "scored", "certified", "minted"},
            evidence  : BOOLEAN,
            accepted  : BOOLEAN,                            \* contribution_state
            scored    : BOOLEAN,                            \* scoring_state
            certified : BOOLEAN,                            \* certification_state
            minting   : {"not_eligible", "eligible", "minted"}]

NewWork == [lifecycle |-> "submitted", evidence |-> FALSE, accepted |-> FALSE,
            scored |-> FALSE, certified |-> FALSE, minting |-> "not_eligible"]

ReviewRpc == {"evidence", "verify", "accept", "score", "certify", "mint"}

(* An RPC that has read the row of on.  first: evidence found it submitted; *)
(* version: the score mint has read, 0 before.                              *)
Reviewing == [rpc : ReviewRpc, on : Work \cup {NoWork}, first : BOOLEAN, version : Nat]

IdleReviewer == [rpc |-> "mint", on |-> NoWork, first |-> FALSE, version |-> 0]

Award == [version : Nat, amount : Nat]

RedemptionRow == [status  : {"none", "asked", "refused", "held",
                             "fulfilled", "cancelled", "rejected"},
                  key     : RequestKey \cup {NoRequestKey},
                  total   : Nat]

NoRedemption == [status |-> "none", key |-> NoRequestKey, total |-> 0]

SparksTypeOK ==
    /\ work \in [Work -> WorkRow]
    /\ score \in [Work -> Seq(Worth)]
    /\ award \in [Work -> Seq(Award)]
    /\ review \in [Reviewer -> Reviewing]
    /\ spendable \in Nat /\ locked \in Nat
    /\ catalog \in Seq({"active", "paused", "retired"})
    /\ redemption \in [Redemption -> RedemptionRow]

SparksInit ==
    /\ work = [w \in Work |-> NewWork]
    /\ score = [w \in Work |-> << >>]
    /\ award = [w \in Work |-> << >>]
    /\ review = [v \in Reviewer |-> IdleReviewer]
    /\ spendable = 0 /\ locked = 0
    /\ catalog = << >>
    /\ redemption = [q \in Redemption |-> NoRedemption]

-----------------------------------------------------------------------------
(* Contribution RPCs: what each finds in the row before it goes on ... *)

Admits(w, rpc) ==
    CASE rpc = "evidence" -> TRUE
      [] rpc = "verify"   -> work[w].evidence
      [] rpc = "accept"   -> work[w].lifecycle = "verified"
      [] rpc = "score"    -> work[w].accepted /\ work[w].lifecycle = "accepted"
      [] rpc = "certify"  -> work[w].accepted /\ work[w].scored
                             /\ work[w].lifecycle = "scored" /\ score[w] # << >>
      [] rpc = "mint"     -> work[w].certified /\ work[w].minting = "eligible"

StartReview(v, w, rpc) ==
    /\ review[v].on = NoWork
    /\ Admits(w, rpc)
    /\ review' = [review EXCEPT ![v] =
           [rpc |-> rpc, on |-> w, first |-> work[w].lifecycle = "submitted", version |-> 0]]
    /\ UNCHANGED <<work, score, award, spendable, locked, catalog, redemption>>

(* ... and what it writes, whatever the row has become.                     *)

Executing(v, rpc) == review[v].on \in Work /\ review[v].rpc = rpc
EndReview(v) == review' = [review EXCEPT ![v] = IdleReviewer]

SubmitEvidence(v) ==
    /\ Executing(v, "evidence")
    /\ work' = [work EXCEPT ![review[v].on].evidence  = TRUE,
                            ![review[v].on].lifecycle = IF review[v].first THEN "staged" ELSE @]
    /\ EndReview(v)
    /\ UNCHANGED <<score, award, spendable, locked, catalog, redemption>>

Verify(v) ==
    /\ Executing(v, "verify")
    /\ work' = [work EXCEPT ![review[v].on].lifecycle = "verified"]
    /\ EndReview(v)
    /\ UNCHANGED <<score, award, spendable, locked, catalog, redemption>>

Accept(v) ==
    /\ Executing(v, "accept")
    /\ work' = [work EXCEPT ![review[v].on] =
           [@ EXCEPT !.accepted = TRUE, !.lifecycle = "accepted", !.scored = FALSE]]
    /\ EndReview(v)
    /\ UNCHANGED <<score, award, spendable, locked, catalog, redemption>>

(* A new version supersedes the final one; of two scorings that found the   *)
(* same latest version, one violates its uniqueness and raises.             *)
Score(v, n) ==
    /\ Executing(v, "score")
    /\ Len(score[review[v].on]) < MaxScores
    /\ score' = [score EXCEPT ![review[v].on] = Append(@, n)]
    /\ work' = [work EXCEPT ![review[v].on] =
           [@ EXCEPT !.scored = TRUE, !.lifecycle = "scored"]]
    /\ EndReview(v)
    /\ UNCHANGED <<award, spendable, locked, catalog, redemption>>

Certify(v) ==
    /\ Executing(v, "certify")
    /\ work' = [work EXCEPT ![review[v].on] =
           [@ EXCEPT !.certified = TRUE, !.minting = "eligible", !.lifecycle = "certified"]]
    /\ EndReview(v)
    /\ UNCHANGED <<score, award, spendable, locked, catalog, redemption>>

ReadFinalScore(v) ==
    /\ Executing(v, "mint")
    /\ review[v].version = 0
    /\ review' = [review EXCEPT ![v].version = Len(score[review[v].on])]
    /\ UNCHANGED <<work, score, award, spendable, locked, catalog, redemption>>

(* Mutant: the award has no unique trace key. *)
AwardedUnkeyed(w) == FALSE

(* The trace key of an award is made from its contribution. *)
AwardedAlready(w) == award[w] # << >>

Mint(v) ==
    LET w == review[v].on
        n == review[v].version
    IN  /\ Executing(v, "mint") /\ n # 0 /\ score[w][n] # 0
        /\ IF AwardedAlready(w)
           THEN UNCHANGED <<award, spendable>>
           ELSE /\ award' = [award EXCEPT ![w] =
                       Append(@, [version |-> n, amount |-> score[w][n]])]
                /\ spendable' = spendable + score[w][n]
        /\ work' = [work EXCEPT ![w] = [@ EXCEPT !.minting = "minted", !.lifecycle = "minted"]]
        /\ EndReview(v)
        /\ UNCHANGED <<score, locked, catalog, redemption>>

(* An RPC that raises after all, or loses its connection, has done nothing:  *)
(* an award of nothing, the version of another score, a deadlock.           *)
RollBack(v) ==
    /\ review[v].on \in Work
    /\ EndReview(v)
    /\ UNCHANGED <<work, score, award, spendable, locked, catalog, redemption>>

-----------------------------------------------------------------------------
(* The catalog: publishing retires the active version. *)

Publish ==
    /\ Len(catalog) < MaxServices
    /\ catalog' = Append([s \in DOMAIN catalog |->
                             IF catalog[s] = "active" THEN "retired" ELSE catalog[s]], "active")
    /\ UNCHANGED <<work, score, award, review, spendable, locked, redemption>>

SetServiceStatus(s, status) ==
    /\ catalog[s] # "retired" /\ catalog[s] # status
    /\ catalog' = [catalog EXCEPT ![s] = status]
    /\ UNCHANGED <<work, score, award, review, spendable, locked, redemption>>

-----------------------------------------------------------------------------
(* Redemptions *)

Inserted == {q \in Redemption :
                redemption[q].status \in {"held", "fulfilled", "cancelled", "rejected"}}

KeyTaken(k) == \E q \in Inserted : redemption[q].key = k

(* request_spark_redemption_v1 up to the account locks. *)
AskRedemption(q, k, s, n) ==
    /\ redemption[q].status = "none"
    /\ catalog[s] = "active"
    /\ ~ KeyTaken(k)
    /\ redemption' = [redemption EXCEPT ![q] =
           [status |-> "asked", key |-> k, total |-> Price[s] * n]]
    /\ UNCHANGED <<work, score, award, review, spendable, locked, catalog>>

(* Mutant: the request key is not unique, only looked up first. *)
CoveredIfFunded(q) == spendable >= redemption[q].total

(* Mutant: the balance is not read again under the locks. *)
CoveredIfNew(q) == ~ KeyTaken(redemption[q].key)

(* What the request finds under the locks: enough Sparks and, by the unique *)
(* constraint, no redemption of its key.                                    *)
Covered(q) ==
    /\ spendable >= redemption[q].total
    /\ ~ KeyTaken(redemption[q].key)

Hold(q) ==
    /\ redemption[q].status = "asked"
    /\ Covered(q)
    /\ redemption' = [redemption EXCEPT ![q].status = "held"]
    /\ spendable' = spendable - redemption[q].total
    /\ locked' = locked + redemption[q].total
    /\ UNCHANGED <<work, score, award, review, catalog>>

RefuseHold(q) ==
    /\ redemption[q].status = "asked"
    /\ ~ Covered(q)
    /\ redemption' = [redemption EXCEPT ![q].status = "refused"]
    /\ UNCHANGED <<work, score, award, review, spendable, locked, catalog>>

(* Mutant: a cancelled redemption leaves its hold in place. *)
CancelWithoutRelease(q, as) ==
    /\ redemption[q].status = "held"
    /\ redemption' = [redemption EXCEPT ![q].status = as]
    /\ UNCHANGED <<work, score, award, review, spendable, locked, catalog>>

(* Mutant: only the refund looks at the status. *)
CancelRepeatedly(q, as) ==
    LET refund == IF redemption[q].status = "held" THEN redemption[q].total ELSE 0
    IN  /\ q \in Inserted
        /\ redemption' = [redemption EXCEPT ![q].status = as]
        /\ locked' = locked - refund
        /\ spendable' = spendable + refund
        /\ UNCHANGED <<work, score, award, review, catalog>>

(* cancel_spark_redemption_v1, by the requester or by an operator. *)
CancelRedemption(q, as) ==
    /\ redemption[q].status = "held"
    /\ locked >= redemption[q].total
    /\ redemption' = [redemption EXCEPT ![q].status = as]
    /\ locked' = locked - redemption[q].total
    /\ spendable' = spendable + redemption[q].total
    /\ UNCHANGED <<work, score, award, review, catalog>>

(* Mutant: a fulfilled redemption leaves its hold in place. *)
FulfillWithoutSpend(q) ==
    /\ redemption[q].status = "held"
    /\ redemption' = [redemption EXCEPT ![q].status = "fulfilled"]
    /\ UNCHANGED <<work, score, award, review, spendable, locked, catalog>>

Fulfill(q) ==
    /\ redemption[q].status = "held"
    /\ locked >= redemption[q].total
    /\ redemption' = [redemption EXCEPT ![q].status = "fulfilled"]
    /\ locked' = locked - redemption[q].total
    /\ UNCHANGED <<work, score, award, review, spendable, catalog>>

-----------------------------------------------------------------------------

ReviewStep(v) ==
    \/ \E w \in Work, rpc \in ReviewRpc : StartReview(v, w, rpc)
    \/ SubmitEvidence(v) \/ Verify(v) \/ Accept(v)
    \/ \E n \in Worth : Score(v, n)
    \/ Certify(v) \/ ReadFinalScore(v) \/ Mint(v) \/ RollBack(v)

CatalogStep ==
    \/ Publish
    \/ \E s \in DOMAIN catalog, status \in {"paused", "retired"} : SetServiceStatus(s, status)

RedemptionStep(q) ==
    \/ \E k \in RequestKey, s \in DOMAIN catalog, n \in Quantity : AskRedemption(q, k, s, n)
    \/ Hold(q) \/ RefuseHold(q)
    \/ \E as \in {"cancelled", "rejected"} : CancelRedemption(q, as)
    \/ Fulfill(q)

SparksNext ==
    \/ \E v \in Reviewer : ReviewStep(v)
    \/ CatalogStep
    \/ \E q \in Redemption : RedemptionStep(q)

SparksSpec == SparksInit /\ [][SparksNext]_sparkVars

-----------------------------------------------------------------------------
(* However reviewers overlap, and however often a contribution is reviewed  *)
(* again, it is awarded Sparks once, for one of its scores, and it counts   *)
(* as minted only if it was.                                                *)
AwardedOnce ==
    \A w \in Work :
        /\ Len(award[w]) <= 1
        /\ \A i \in DOMAIN award[w] :
               /\ award[w][i].version \in DOMAIN score[w]
               /\ award[w][i].amount = score[w][award[w][i].version]
        /\ work[w].minting = "minted" => award[w] # << >>

(* A request key buys at most once, although retries of one request run at  *)
(* the same time and each looked its key up in vain.                        *)
ChargedOnce ==
    \A p, q \in Inserted : redemption[p].key = redemption[q].key => p = q

(* What the redemptions with a status come to. *)
Share(q, status) == IF redemption[q].status = status THEN redemption[q].total ELSE 0
Redeemed(status) == FoldFunction(+, 0, [q \in Redemption |-> Share(q, status)])

(* The locked account holds exactly what the held redemptions reserved: the *)
(* consistency check of cancel and fulfil never stops either of them.       *)
HoldsAreBacked == locked = Redeemed("held")

(* What the awards of w come to. *)
Awarded(w) == FoldFunction(+, 0, [i \in DOMAIN award[w] |-> award[w][i].amount])

(* Sparks come from awards only and leave by fulfilment only. *)
SparksConserved ==
    FoldFunction(+, 0, [w \in Work |-> Awarded(w)]) = spendable + locked + Redeemed("fulfilled")

(* A redemption is resolved once: fulfilment, cancellation and rejection    *)
(* exclude each other, in whichever order their calls come.                 *)
ResolutionIsFinal ==
    [][ \A q \in Redemption :
          redemption[q].status \in {"fulfilled", "cancelled", "rejected"} =>
              redemption'[q] = redemption[q] ]_sparkVars

=============================================================================
