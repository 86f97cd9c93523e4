-------------------------- MODULE SparksEconomyProofs --------------------------
(***************************************************************************)
(* Proofs about the Sparks economy, for any contributions, reviewers,      *)
(* redemption calls, request keys, prices and quantities.                  *)
(***************************************************************************)
EXTENDS SparksEconomy, SumTheorems, TLAPS

(* The score a minting has read is one of its contribution's. *)
ReviewsSeeScores ==
    \A v \in Reviewer : review[v].on \in Work =>
        review[v].version <= Len(score[review[v].on])

CatalogBounded == Len(catalog) <= MaxServices

SparksInv ==
    SparksTypeOK /\ ReviewsSeeScores /\ CatalogBounded /\ AwardedOnce /\ ChargedOnce

contributionVars == <<work, score, award, review>>

-----------------------------------------------------------------------------
LEMMA ProductIsNat ==
    ASSUME NEW a \in Nat, NEW b \in Nat
    PROVE  a * b \in Nat
OBVIOUS

LEMMA SparksInitial == SparksInit => SparksInv
<1> SUFFICES ASSUME SparksInit PROVE SparksInv
  OBVIOUS
<1>1. NewWork \in WorkRow /\ IdleReviewer \in Reviewing /\ NoRedemption \in RedemptionRow
  BY DEF NewWork, WorkRow, IdleReviewer, Reviewing, ReviewRpc, NoRedemption, RedemptionRow
<1>2. SparksTypeOK
  BY <1>1 DEF SparksInit, SparksTypeOK
<1>3. ReviewsSeeScores
  BY WorkAssumption DEF SparksInit, ReviewsSeeScores, IdleReviewer
<1>4. AwardedOnce
  BY DEF SparksInit, AwardedOnce, NewWork
<1>5. ChargedOnce
  BY DEF SparksInit, ChargedOnce, Inserted, NoRedemption
<1>6. CatalogBounded
  BY AmountAssumption DEF SparksInit, CatalogBounded
<1> QED
  BY <1>2, <1>3, <1>4, <1>5, <1>6 DEF SparksInv

-----------------------------------------------------------------------------
(* A review step that neither scores nor awards and makes no row minted. *)
LEMMA ReviewOnly ==
    ASSUME SparksInv, NEW v \in Reviewer, NEW row \in Reviewing,
           review' = [review EXCEPT ![v] = row],
           row.on \in Work => row.version <= Len(score[row.on]),
           work' \in [Work -> WorkRow],
           \A w \in Work : work'[w].minting = "minted" => work[w].minting = "minted",
           UNCHANGED <<score, award, spendable, locked, catalog, redemption>>
    PROVE  SparksInv'
<1>1. SparksTypeOK'
  BY DEF SparksInv, SparksTypeOK
<1>2. review'[v] = row /\ \A u \in Reviewer \ {v} : review'[u] = review[u]
  BY DEF SparksInv, SparksTypeOK
<1>3. ReviewsSeeScores'
  BY <1>2 DEF SparksInv, ReviewsSeeScores
<1>4. AwardedOnce'
  BY DEF SparksInv, AwardedOnce
<1>5. ChargedOnce'
  BY DEF SparksInv, ChargedOnce, Inserted
<1> QED
  BY <1>1, <1>3, <1>4, <1>5 DEF SparksInv, CatalogBounded

LEMMA IdleReviewerRow ==
    IdleReviewer \in Reviewing /\ IdleReviewer.on \notin Work
BY WorkAssumption DEF IdleReviewer, Reviewing, ReviewRpc

LEMMA StartReviewStep ==
    ASSUME SparksInv, NEW v \in Reviewer, NEW w \in Work, NEW rpc \in ReviewRpc,
           StartReview(v, w, rpc)
    PROVE  SparksInv'
<1> DEFINE row == [rpc |-> rpc, on |-> w, first |-> work[w].lifecycle = "submitted",
                   version |-> 0]
<1>1. row \in Reviewing
  BY DEF Reviewing
<1>2. row.version <= Len(score[w])
  BY DEF SparksInv, SparksTypeOK
<1>3. work' \in [Work -> WorkRow]
  BY DEF SparksInv, SparksTypeOK, StartReview
<1>4. review' = [review EXCEPT ![v] = row] /\ work' = work
        /\ UNCHANGED <<score, award, spendable, locked, catalog, redemption>>
  BY DEF StartReview
<1> QED
  BY <1>1, <1>2, <1>3, <1>4, ReviewOnly

(* The contribution RPCs that only move their row on. *)
LEMMA RowStep ==
    ASSUME SparksInv, NEW v \in Reviewer,
           SubmitEvidence(v) \/ Verify(v) \/ Accept(v) \/ Certify(v) \/ RollBack(v)
    PROVE  SparksInv'
<1> DEFINE w == review[v].on
<1>1. /\ w \in Work
      /\ review' = [review EXCEPT ![v] = IdleReviewer]
      /\ UNCHANGED <<score, award, spendable, locked, catalog, redemption>>
  BY DEF SubmitEvidence, Verify, Accept, Certify, RollBack, Executing, EndReview
<1>2. /\ work \in [Work -> WorkRow]
      /\ work[w] \in WorkRow /\ review[v].first \in BOOLEAN
  BY <1>1 DEF SparksInv, SparksTypeOK, Reviewing
<1>3. \E row \in WorkRow : /\ work' = [work EXCEPT ![w] = row]
                           /\ row.minting = "minted" => work[w].minting = "minted"
  <2>1. CASE SubmitEvidence(v)
    <3> DEFINE row == [work[w] EXCEPT !.evidence  = TRUE,
                                      !.lifecycle = IF review[v].first THEN "staged" ELSE @]
    <3>1. row \in WorkRow /\ row.minting = work[w].minting
      BY <1>2 DEF WorkRow
    <3>2. work' = [work EXCEPT ![w] = row]
      BY <2>1, <1>1, <1>2 DEF SubmitEvidence, WorkRow
    <3> QED
      BY <3>1, <3>2
  <2>2. CASE Verify(v)
    <3> DEFINE row == [work[w] EXCEPT !.lifecycle = "verified"]
    <3>1. row \in WorkRow /\ row.minting = work[w].minting
      BY <1>2 DEF WorkRow
    <3>2. work' = [work EXCEPT ![w] = row]
      BY <2>2, <1>2 DEF Verify
    <3> QED
      BY <3>1, <3>2
  <2>3. CASE Accept(v)
    <3> DEFINE row == [work[w] EXCEPT !.accepted = TRUE, !.lifecycle = "accepted",
                                      !.scored = FALSE]
    <3>1. row \in WorkRow /\ row.minting = work[w].minting
      BY <1>2 DEF WorkRow
    <3>2. work' = [work EXCEPT ![w] = row]
      BY <2>3, <1>2 DEF Accept
    <3> QED
      BY <3>1, <3>2
  <2>4. CASE Certify(v)
    <3> DEFINE row == [work[w] EXCEPT !.certified = TRUE, !.minting = "eligible",
                                      !.lifecycle = "certified"]
    <3>1. row \in WorkRow /\ row.minting = "eligible"
      BY <1>2 DEF WorkRow
    <3>2. work' = [work EXCEPT ![w] = row]
      BY <2>4, <1>2 DEF Certify
    <3> QED
      BY <3>1, <3>2
  <2>5. CASE RollBack(v)
    <3>1. work' = [work EXCEPT ![w] = work[w]]
      BY <2>5, <1>2 DEF RollBack
    <3> QED
      BY <1>2, <3>1
  <2> QED
    BY <2>1, <2>2, <2>3, <2>4, <2>5
<1>4. work' \in [Work -> WorkRow]
  BY <1>2, <1>3
<1>5. \A x \in Work : work'[x].minting = "minted" => work[x].minting = "minted"
  BY <1>2, <1>3
<1> QED
  BY <1>1, <1>4, <1>5, IdleReviewerRow, ReviewOnly

LEMMA ReadFinalScoreStep ==
    ASSUME SparksInv, NEW v \in Reviewer, ReadFinalScore(v)
    PROVE  SparksInv'
<1> DEFINE row == [review[v] EXCEPT !.version = Len(score[review[v].on])]
<1>1. review[v] \in Reviewing /\ review[v].on \in Work
  BY DEF ReadFinalScore, Executing, SparksInv, SparksTypeOK
<1>2. score[review[v].on] \in Seq(Worth)
  BY <1>1 DEF SparksInv, SparksTypeOK
<1>3. Len(score[review[v].on]) \in Nat
  BY <1>2
<1>4. row \in Reviewing /\ row.version = Len(score[row.on])
  BY <1>1, <1>3 DEF Reviewing
<1>5. /\ review' = [review EXCEPT ![v] = row]
      /\ work' = work
      /\ UNCHANGED <<score, award, spendable, locked, catalog, redemption>>
  BY DEF ReadFinalScore, SparksInv, SparksTypeOK
<1>6. work' \in [Work -> WorkRow] /\ row.version <= Len(score[row.on])
  BY <1>1, <1>3, <1>4, <1>5 DEF SparksInv, SparksTypeOK
<1> HIDE DEF row
<1> QED
  BY <1>4, <1>5, <1>6, ReviewOnly

(* Scores are only added: what was read or awarded stays one of them. *)
LEMMA ScoreStep ==
    ASSUME SparksInv, NEW v \in Reviewer, NEW n \in Worth, Score(v, n)
    PROVE  SparksInv'
<1> DEFINE w == review[v].on
           row == [work[w] EXCEPT !.scored = TRUE, !.lifecycle = "scored"]
<1>1. /\ w \in Work
      /\ score' = [score EXCEPT ![w] = Append(score[w], n)]
      /\ work' = [work EXCEPT ![w] = row]
      /\ review' = [review EXCEPT ![v] = IdleReviewer]
      /\ UNCHANGED <<award, spendable, locked, catalog, redemption>>
  BY DEF Score, Executing, EndReview, SparksInv, SparksTypeOK
<1>2. row \in WorkRow /\ row.minting = work[w].minting
  <2>1. work[w] \in WorkRow
    BY <1>1 DEF SparksInv, SparksTypeOK
  <2> QED
    BY <2>1 DEF WorkRow
<1>3. /\ score \in [Work -> Seq(Worth)] /\ Append(score[w], n) \in Seq(Worth)
  BY <1>1 DEF SparksInv, SparksTypeOK
<1>4. SparksTypeOK'
  <2>1. work' \in [Work -> WorkRow]
    BY <1>1, <1>2 DEF SparksInv, SparksTypeOK
  <2>2. score' \in [Work -> Seq(Worth)]
    BY <1>1, <1>3
  <2>3. review' \in [Reviewer -> Reviewing]
    BY <1>1, IdleReviewerRow DEF SparksInv, SparksTypeOK
  <2> QED
    BY <1>1, <2>1, <2>2, <2>3 DEF SparksInv, SparksTypeOK
<1>5. \A x \in Work : /\ Len(score[x]) \in Nat /\ DOMAIN score[x] = 1 .. Len(score[x])
                      /\ Len(score'[x]) >= Len(score[x])
                      /\ DOMAIN score[x] \subseteq DOMAIN score'[x]
                      /\ \A i \in DOMAIN score[x] : score'[x][i] = score[x][i]
  <2> SUFFICES ASSUME NEW x \in Work
               PROVE  /\ Len(score[x]) \in Nat /\ DOMAIN score[x] = 1 .. Len(score[x])
                      /\ Len(score'[x]) >= Len(score[x])
                      /\ DOMAIN score[x] \subseteq DOMAIN score'[x]
                      /\ \A i \in DOMAIN score[x] : score'[x][i] = score[x][i]
    OBVIOUS
  <2>1. score[x] \in Seq(Worth)
    BY <1>3
  <2>2. CASE x = w
    BY <1>1, <1>3, <2>1, <2>2
  <2>3. CASE x # w
    BY <1>1, <1>3, <2>1, <2>3
  <2> QED
    BY <2>2, <2>3
<1>6. ReviewsSeeScores'
  <2> SUFFICES ASSUME NEW u \in Reviewer, review'[u].on \in Work
               PROVE  review'[u].version <= Len(score'[review'[u].on])
    BY DEF ReviewsSeeScores
  <2>1. u # v /\ review'[u] = review[u]
    BY <1>1, IdleReviewerRow DEF SparksInv, SparksTypeOK
  <2>2. review[u].version \in Nat /\ review[u].version <= Len(score[review[u].on])
    BY <2>1 DEF SparksInv, SparksTypeOK, ReviewsSeeScores, Reviewing
  <2>3. Len(score'[review[u].on]) \in Nat
    BY <1>4, <2>1 DEF SparksTypeOK
  <2> QED
    BY <1>5, <2>1, <2>2, <2>3
<1>7. \A x \in Work : work'[x].minting = work[x].minting
  BY <1>1, <1>2 DEF SparksInv, SparksTypeOK
<1>8. AwardedOnce'
  <2>1. award' = award /\ AwardedOnce
    BY <1>1 DEF SparksInv
  <2> QED
    BY <1>5, <1>7, <2>1 DEF AwardedOnce
<1>9. ChargedOnce'
  BY <1>1 DEF SparksInv, ChargedOnce, Inserted
<1> QED
  BY <1>1, <1>4, <1>6, <1>8, <1>9 DEF SparksInv, CatalogBounded

LEMMA ScoreIsNat ==
    ASSUME NEW s \in Seq(Worth), NEW n \in 1 .. Len(s)
    PROVE  s[n] \in Nat /\ n \in DOMAIN s /\ n \in Nat
<1>1. n \in DOMAIN s /\ n \in Nat
  OBVIOUS
<1>2. s[n] \in Worth
  OBVIOUS
<1> QED
  BY <1>1, <1>2, AmountAssumption

LEMMA MintStep ==
    ASSUME SparksInv, NEW v \in Reviewer, Mint(v)
    PROVE  SparksInv'
<1> DEFINE w == review[v].on
           n == review[v].version
           entry == [version |-> n, amount |-> score[w][n]]
           row == [work[w] EXCEPT !.minting = "minted", !.lifecycle = "minted"]
<1>1. /\ w \in Work /\ n # 0
      /\ work' = [work EXCEPT ![w] = row]
      /\ review' = [review EXCEPT ![v] = IdleReviewer]
      /\ UNCHANGED <<score, locked, catalog, redemption>>
  BY DEF Mint, Executing, EndReview, SparksInv, SparksTypeOK
<1>2. score[w] \in Seq(Worth) /\ n \in 1 .. Len(score[w])
  <2>1. n \in Nat /\ n <= Len(score[w]) /\ score[w] \in Seq(Worth)
    BY <1>1 DEF SparksInv, SparksTypeOK, ReviewsSeeScores, Reviewing
  <2> QED
    BY <1>1, <2>1
<1>3. score[w][n] \in Nat /\ n \in DOMAIN score[w] /\ n \in Nat
  <2> HIDE DEF w, n
  <2> QED
    BY <1>2, ScoreIsNat
<1>4. entry \in Award
  BY <1>3 DEF Award
<1>5. row \in WorkRow
  <2>1. work[w] \in WorkRow
    BY <1>1 DEF SparksInv, SparksTypeOK
  <2> QED
    BY <2>1 DEF WorkRow
<1>6. award \in [Work -> Seq(Award)] /\ spendable \in Nat
  BY DEF SparksInv, SparksTypeOK
<1>7. /\ award' \in [Work -> Seq(Award)] /\ spendable' \in Nat
      /\ \A x \in Work \ {w} : award'[x] = award[x]
      /\ award'[w] = IF award[w] # << >> THEN award[w] ELSE <<entry>>
  <2>1. CASE award[w] # << >>
    BY <2>1, <1>6 DEF Mint, AwardedAlready
  <2>2. CASE award[w] = << >>
    <3>1. award' = [award EXCEPT ![w] = Append(award[w], entry)]
            /\ spendable' = spendable + score[w][n]
      BY <2>2, <1>6 DEF Mint, AwardedAlready
    <3>2. Append(award[w], entry) = <<entry>> /\ <<entry>> \in Seq(Award)
      BY <1>4, <2>2
    <3> HIDE DEF entry
    <3> QED
      BY <1>1, <1>3, <1>6, <2>2, <3>1, <3>2
  <2> QED
    BY <2>1, <2>2
<1>8. SparksTypeOK'
  <2>1. work' \in [Work -> WorkRow]
    BY <1>1, <1>5 DEF SparksInv, SparksTypeOK
  <2>2. review' \in [Reviewer -> Reviewing]
    BY <1>1, IdleReviewerRow DEF SparksInv, SparksTypeOK
  <2> QED
    BY <1>1, <1>7, <2>1, <2>2 DEF SparksInv, SparksTypeOK
<1>9. ReviewsSeeScores'
  <2>1. review'[v] = IdleReviewer /\ \A u \in Reviewer \ {v} : review'[u] = review[u]
    BY <1>1 DEF SparksInv, SparksTypeOK
  <2> QED
    BY <1>1, <2>1, IdleReviewerRow DEF SparksInv, ReviewsSeeScores
<1>10. AwardedOnce'
  <2> SUFFICES ASSUME NEW x \in Work
               PROVE  /\ Len(award'[x]) <= 1
                      /\ \A i \in DOMAIN award'[x] :
                            /\ award'[x][i].version \in DOMAIN score[x]
                            /\ award'[x][i].amount = score[x][award'[x][i].version]
                      /\ work'[x].minting = "minted" => award'[x] # << >>
    BY <1>1 DEF AwardedOnce
  <2>0. /\ Len(award[x]) <= 1
        /\ \A i \in DOMAIN award[x] :
              /\ award[x][i].version \in DOMAIN score[x]
              /\ award[x][i].amount = score[x][award[x][i].version]
        /\ work[x].minting = "minted" => award[x] # << >>
    BY DEF SparksInv, AwardedOnce
  <2>1. CASE x # w
    <3>1. award'[x] = award[x] /\ work'[x] = work[x]
      BY <1>1, <1>7, <2>1 DEF SparksInv, SparksTypeOK
    <3> QED
      BY <2>0, <3>1
  <2>2. CASE x = w /\ award[w] # << >>
    <3>1. award'[x] = award[x] /\ award[x] # << >>
      BY <1>7, <2>2
    <3> QED
      BY <2>0, <3>1
  <2>3. CASE x = w /\ award[w] = << >>
    <3>1. award'[x] = <<entry>>
      BY <1>7, <2>3
    <3>2. entry.version = n /\ entry.amount = score[w][n]
      OBVIOUS
    <3> HIDE DEF entry
    <3>3. Len(<<entry>>) = 1 /\ DOMAIN <<entry>> = {1} /\ <<entry>>[1] = entry
      OBVIOUS
    <3> QED
      BY <1>3, <2>3, <3>1, <3>2, <3>3
  <2> QED
    BY <2>1, <2>2, <2>3
<1>11. ChargedOnce'
  BY <1>1 DEF SparksInv, ChargedOnce, Inserted
<1> QED
  BY <1>1, <1>8, <1>9, <1>10, <1>11 DEF SparksInv, CatalogBounded

-----------------------------------------------------------------------------
(* Steps that leave the contributions alone. *)
LEMMA ContributionsKept ==
    ASSUME SparksInv, UNCHANGED contributionVars, SparksTypeOK', CatalogBounded', ChargedOnce'
    PROVE  SparksInv'
<1>1. ReviewsSeeScores' /\ AwardedOnce'
  BY DEF contributionVars, SparksInv, ReviewsSeeScores, AwardedOnce
<1> QED
  BY <1>1 DEF SparksInv

LEMMA CatalogStepKeeps ==
    ASSUME SparksInv, CatalogStep
    PROVE  SparksInv'
<1>1. catalog' \in Seq({"active", "paused", "retired"})
  <2>1. CASE Publish
    <3> DEFINE out == [s \in DOMAIN catalog |->
                         IF catalog[s] = "active" THEN "retired" ELSE catalog[s]]
    <3>1. catalog \in Seq({"active", "paused", "retired"})
      BY DEF SparksInv, SparksTypeOK
    <3>2. out \in Seq({"active", "paused", "retired"})
      BY <3>1
    <3> HIDE DEF out
    <3>3. Append(out, "active") \in Seq({"active", "paused", "retired"})
      BY <3>2
    <3> QED
      BY <2>1, <3>3 DEF Publish, out
  <2>2. CASE \E s \in DOMAIN catalog, status \in {"paused", "retired"} :
                 SetServiceStatus(s, status)
    BY <2>2 DEF SetServiceStatus, SparksInv, SparksTypeOK
  <2> QED
    BY <2>1, <2>2 DEF CatalogStep
<1>2. UNCHANGED <<work, score, award, review, spendable, locked, redemption>>
  BY DEF CatalogStep, Publish, SetServiceStatus
<1>3. SparksTypeOK'
  BY <1>1, <1>2 DEF SparksInv, SparksTypeOK
<1>4. ChargedOnce'
  BY <1>2 DEF SparksInv, ChargedOnce, Inserted
<1>5. CatalogBounded'
  <2>1. catalog \in Seq({"active", "paused", "retired"}) /\ MaxServices \in Nat
    BY AmountAssumption DEF SparksInv, SparksTypeOK
  <2>2. CASE Publish
    BY <2>1, <2>2 DEF Publish, CatalogBounded
  <2>3. CASE \E s \in DOMAIN catalog, status \in {"paused", "retired"} :
                 SetServiceStatus(s, status)
    BY <2>1, <2>3 DEF SetServiceStatus, SparksInv, CatalogBounded
  <2> QED
    BY <2>2, <2>3 DEF CatalogStep
<1> QED
  BY <1>2, <1>3, <1>4, <1>5, ContributionsKept DEF contributionVars

LEMMA AskRedemptionStep ==
    ASSUME SparksInv, NEW q \in Redemption, NEW k \in RequestKey,
           NEW s \in DOMAIN catalog, NEW n \in Quantity, AskRedemption(q, k, s, n)
    PROVE  SparksInv'
<1> DEFINE row == [status |-> "asked", key |-> k, total |-> Price[s] * n]
<1>1. /\ redemption' = [redemption EXCEPT ![q] = row]
      /\ redemption[q].status = "none"
      /\ UNCHANGED <<work, score, award, review, spendable, locked, catalog>>
  BY DEF AskRedemption
<1>2. row \in RedemptionRow \/ row.total \notin Nat
  BY DEF RedemptionRow
<1>3. CASE row.total \in Nat
  <2>1. SparksTypeOK'
    BY <1>1, <1>2, <1>3 DEF SparksInv, SparksTypeOK
  <2>2. Inserted' = Inserted /\ \A p \in Inserted : redemption'[p] = redemption[p]
    BY <1>1 DEF Inserted, SparksInv, SparksTypeOK
  <2>3. ChargedOnce'
    BY <2>2 DEF SparksInv, ChargedOnce
  <2> QED
    BY <1>1, <2>1, <2>3, ContributionsKept DEF contributionVars, SparksInv, CatalogBounded
<1>4. row.total \in Nat
  <2>1. n \in Nat
    BY AmountAssumption
  <2>2. s \in 1 .. MaxServices
    BY AmountAssumption DEF SparksInv, SparksTypeOK, CatalogBounded
  <2>3. Price[s] \in Nat
    BY <2>2, AmountAssumption
  <2> QED
    BY <2>1, <2>3, ProductIsNat
<1> QED
  BY <1>3, <1>4

(* Holding inserts a row, whose key the unique constraint finds free. *)
LEMMA HoldStep ==
    ASSUME SparksInv, NEW q \in Redemption, Hold(q)
    PROVE  SparksInv'
<1> DEFINE row == [redemption[q] EXCEPT !.status = "held"]
<1>1. redemption[q] \in RedemptionRow /\ redemption[q].total \in Nat
  BY DEF SparksInv, SparksTypeOK, RedemptionRow
<1>2. row \in RedemptionRow /\ row.key = redemption[q].key
  BY <1>1 DEF RedemptionRow
<1>3. /\ redemption' = [redemption EXCEPT ![q] = row]
      /\ spendable >= redemption[q].total /\ ~ KeyTaken(redemption[q].key)
      /\ spendable' = spendable - redemption[q].total
      /\ locked' = locked + redemption[q].total
      /\ UNCHANGED <<work, score, award, review, catalog>>
  BY DEF Hold, Covered, SparksInv, SparksTypeOK
<1>4. SparksTypeOK'
  <2>1. spendable' \in Nat /\ locked' \in Nat
    BY <1>1, <1>3 DEF SparksInv, SparksTypeOK
  <2> QED
    BY <1>2, <1>3, <2>1 DEF SparksInv, SparksTypeOK
<1>5. redemption'[q] = row /\ \A p \in Redemption \ {q} : redemption'[p] = redemption[p]
  BY <1>3 DEF SparksInv, SparksTypeOK
<1>6. ChargedOnce'
  <2>1. \A p \in Inserted' : p = q \/ (p \in Inserted /\ p # q)
    BY <1>5 DEF Inserted
  <2>2. \A p \in Inserted : redemption[p].key # redemption[q].key
    BY <1>3 DEF KeyTaken
  <2>3. \A p \in Inserted : p \in Redemption
    BY DEF Inserted
  <2>4. \A p \in Redemption \ {q} : redemption'[p].key = redemption[p].key
    BY <1>5
  <2>5. redemption'[q].key = redemption[q].key
    BY <1>2, <1>5
  <2> HIDE DEF row
  <2> QED
    BY <2>1, <2>2, <2>3, <2>4, <2>5 DEF SparksInv, ChargedOnce
<1> QED
  BY <1>3, <1>4, <1>6, ContributionsKept DEF contributionVars, SparksInv, CatalogBounded

(* A redemption whose status alone changes, and not to or from inserted.    *)
LEMMA StatusOnly ==
    ASSUME SparksInv, NEW q \in Redemption,
           NEW status \in {"refused", "fulfilled", "cancelled", "rejected"},
           redemption' = [redemption EXCEPT ![q].status = status],
           q \in Inserted <=> status # "refused",
           spendable' \in Nat, locked' \in Nat,
           UNCHANGED <<work, score, award, review, catalog>>
    PROVE  SparksInv'
<1> DEFINE row == [redemption[q] EXCEPT !.status = status]
<1>1. row \in RedemptionRow /\ row.key = redemption[q].key /\ row.status = status
  BY DEF SparksInv, SparksTypeOK, RedemptionRow
<1>2. redemption' = [redemption EXCEPT ![q] = row]
  BY DEF SparksInv, SparksTypeOK
<1>3. SparksTypeOK'
  BY <1>1, <1>2 DEF SparksInv, SparksTypeOK
<1>4. redemption'[q] = row /\ \A p \in Redemption \ {q} : redemption'[p] = redemption[p]
  BY <1>2 DEF SparksInv, SparksTypeOK
<1> HIDE DEF row
<1>5. Inserted' = Inserted
  <2>1. \A p \in Redemption : p \in Inserted' <=> p \in Inserted
    BY <1>1, <1>4 DEF Inserted
  <2> QED
    BY <2>1 DEF Inserted
<1>6. \A p \in Redemption : redemption'[p].key = redemption[p].key
  BY <1>1, <1>4
<1>7. ChargedOnce'
  BY <1>5, <1>6 DEF SparksInv, ChargedOnce, Inserted
<1> QED
  BY <1>3, <1>7, ContributionsKept DEF contributionVars, SparksInv, CatalogBounded

LEMMA SettleStep ==
    ASSUME SparksInv, NEW q \in Redemption,
           RefuseHold(q) \/ Fulfill(q)
             \/ \E as \in {"cancelled", "rejected"} : CancelRedemption(q, as)
    PROVE  SparksInv'
<1>1. spendable \in Nat /\ locked \in Nat /\ redemption[q].total \in Nat
  BY DEF SparksInv, SparksTypeOK, RedemptionRow
<1>2. CASE RefuseHold(q)
  <2>1. q \notin Inserted
    BY <1>2 DEF RefuseHold, Inserted
  <2> QED
    BY <1>1, <1>2, <2>1, StatusOnly DEF RefuseHold
<1>3. CASE Fulfill(q)
  <2>1. q \in Inserted
    BY <1>3 DEF Fulfill, Inserted
  <2>2. locked' \in Nat /\ spendable' \in Nat
    BY <1>1, <1>3 DEF Fulfill
  <2> QED
    BY <1>3, <2>1, <2>2, StatusOnly DEF Fulfill
<1>4. ASSUME NEW as \in {"cancelled", "rejected"}, CancelRedemption(q, as)
      PROVE  SparksInv'
  <2>1. q \in Inserted
    BY <1>4 DEF CancelRedemption, Inserted
  <2>2. locked' \in Nat /\ spendable' \in Nat
    BY <1>1, <1>4 DEF CancelRedemption
  <2> QED
    BY <1>4, <2>1, <2>2, StatusOnly DEF CancelRedemption
<1> QED
  BY <1>2, <1>3, <1>4

-----------------------------------------------------------------------------
LEMMA SparksStep == SparksInv /\ [SparksNext]_sparkVars => SparksInv'
<1> SUFFICES ASSUME SparksInv, [SparksNext]_sparkVars PROVE SparksInv'
  OBVIOUS
<1>1. CASE \E v \in Reviewer : ReviewStep(v)
  BY <1>1, StartReviewStep, RowStep, ScoreStep, ReadFinalScoreStep, MintStep DEF ReviewStep
<1>2. CASE CatalogStep
  BY <1>2, CatalogStepKeeps
<1>3. CASE \E q \in Redemption : RedemptionStep(q)
  BY <1>3, AskRedemptionStep, HoldStep, SettleStep DEF RedemptionStep
<1>4. CASE UNCHANGED sparkVars
  <2>1. SparksTypeOK'
    BY <1>4 DEF sparkVars, SparksInv, SparksTypeOK
  <2>2. ChargedOnce'
    BY <1>4 DEF sparkVars, SparksInv, ChargedOnce, Inserted
  <2> QED
    BY <1>4, <2>1, <2>2, ContributionsKept
       DEF sparkVars, contributionVars, SparksInv, CatalogBounded
<1> QED
  BY <1>1, <1>2, <1>3, <1>4 DEF SparksNext

(* The inductive invariant: the score a minting has read exists, awards and *)
(* redemptions are keyed.                                                   *)
THEOREM SparksInvariance == SparksSpec => []SparksInv
<1> QED
  BY SparksInitial, SparksStep, PTL DEF SparksSpec

(* Contributions, redemptions and balances stay well formed; no balance is  *)
(* ever negative, because a hold reads it again under the account locks.    *)
THEOREM SparksTypeInvariance == SparksSpec => []SparksTypeOK
<1>1. SparksInv => SparksTypeOK
  BY DEF SparksInv
<1> QED
  BY <1>1, SparksInvariance, PTL

(* However many reviewers mint at once, a contribution is awarded once, for *)
(* a score it has: the award's trace key is made from the contribution.     *)
THEOREM AlwaysAwardedOnce == SparksSpec => []AwardedOnce
<1>1. SparksInv => AwardedOnce
  BY DEF SparksInv
<1> QED
  BY <1>1, SparksInvariance, PTL

(* However many retries of one request run at once, one of them inserts a   *)
(* redemption: the unique constraint on the request key.                    *)
THEOREM AlwaysChargedOnce == SparksSpec => []ChargedOnce
<1>1. SparksInv => ChargedOnce
  BY DEF SparksInv
<1> QED
  BY <1>1, SparksInvariance, PTL

(* Fulfilment and cancellation find the redemption held under its lock; of  *)
(* several of them the first one counts.                                    *)
THEOREM ResolutionsAreFinal == SparksSpec => ResolutionIsFinal
<1> DEFINE Resolved(q) == redemption[q].status \in {"fulfilled", "cancelled", "rejected"}
<1>1. ASSUME SparksTypeOK, [SparksNext]_sparkVars, NEW q \in Redemption, Resolved(q)
      PROVE  redemption'[q] = redemption[q]
  <2>1. CASE \E v \in Reviewer : ReviewStep(v)
    BY <2>1 DEF ReviewStep, StartReview, SubmitEvidence, Verify, Accept, Score, Certify,
                ReadFinalScore, Mint, RollBack
  <2>2. CASE CatalogStep
    BY <2>2 DEF CatalogStep, Publish, SetServiceStatus
  <2>3. CASE \E p \in Redemption : RedemptionStep(p)
    <3> PICK p \in Redemption : RedemptionStep(p)
      BY <2>3
    <3>1. p # q
      BY <1>1 DEF RedemptionStep, AskRedemption, Hold, RefuseHold, CancelRedemption, Fulfill
    <3>2. \A r \in Redemption \ {p} : redemption'[r] = redemption[r]
      BY <1>1 DEF SparksTypeOK, RedemptionStep, AskRedemption, Hold, RefuseHold,
                  CancelRedemption, Fulfill
    <3> QED
      BY <3>1, <3>2
  <2>4. CASE UNCHANGED sparkVars
    BY <2>4 DEF sparkVars
  <2> QED
    BY <1>1, <2>1, <2>2, <2>3, <2>4 DEF SparksNext
<1>2. SparksTypeOK /\ [SparksNext]_sparkVars =>
        [ \A q \in Redemption :
            redemption[q].status \in {"fulfilled", "cancelled", "rejected"} =>
                redemption'[q] = redemption[q] ]_sparkVars
  BY <1>1
<1> QED
  BY <1>2, SparksTypeInvariance, PTL DEF SparksSpec, ResolutionIsFinal

-----------------------------------------------------------------------------
(* The balances *)

HeldShares == [q \in Redemption |-> Share(q, "held")]
SpentShares == [q \in Redemption |-> Share(q, "fulfilled")]

(* What the entries of an award come to. *)
Entries(s) == SumOver([i \in DOMAIN s |-> s[i].amount], DOMAIN s)
AwardedSparks == [w \in Work |-> Entries(award[w])]

Balanced == HoldsAreBacked /\ SparksConserved

LEMMA SumsOfSparks ==
    Balanced <=>
        /\ locked = SumOver(HeldShares, Redemption)
        /\ SumOver(AwardedSparks, Work)
               = spendable + locked + SumOver(SpentShares, Redemption)
<1>1. \A w \in Work : Awarded(w) = Entries(award[w])
  BY DEF Awarded, Entries, SumOver, FoldFunction
<1>2. AwardedSparks = [w \in Work |-> Awarded(w)]
  BY <1>1 DEF AwardedSparks
<1> QED
  BY <1>2 DEF Balanced, HoldsAreBacked, SparksConserved, Redeemed, SumOver, FoldFunction,
              HeldShares, SpentShares

(* A step that changes the row of one redemption changes both sums by what  *)
(* that row adds to them.                                                   *)
LEMMA SharesMove ==
    ASSUME SparksTypeOK, SparksTypeOK', NEW q \in Redemption,
           \A p \in Redemption \ {q} : redemption'[p] = redemption[p]
    PROVE  /\ SumOver(HeldShares, Redemption) \in Int
           /\ SumOver(SpentShares, Redemption) \in Int
           /\ SumOver(HeldShares', Redemption)
                  = SumOver(HeldShares, Redemption) - Share(q, "held") + Share(q, "held")'
           /\ SumOver(SpentShares', Redemption)
                  = SumOver(SpentShares, Redemption) - Share(q, "fulfilled")
                      + Share(q, "fulfilled")'
<1> DEFINE f == HeldShares
           h == HeldShares'
           x == SpentShares
           y == SpentShares'
<1>1. \A p \in Redemption : redemption[p].total \in Int /\ redemption'[p].total \in Int
  BY DEF SparksTypeOK, RedemptionRow
<1>2. /\ \A p \in Redemption : f[p] \in Int /\ h[p] \in Int
      /\ \A p \in Redemption \ {q} : h[p] = f[p]
      /\ f[q] = Share(q, "held") /\ h[q] = Share(q, "held")'
  BY <1>1 DEF HeldShares, Share
<1>3. /\ \A p \in Redemption : x[p] \in Int /\ y[p] \in Int
      /\ \A p \in Redemption \ {q} : y[p] = x[p]
      /\ x[q] = Share(q, "fulfilled") /\ y[q] = Share(q, "fulfilled")'
  BY <1>1 DEF SpentShares, Share
<1> HIDE DEF f, h, x, y
<1>4. SumOver(h, Redemption) = SumOver(f, Redemption) - f[q] + h[q]
  BY <1>2, FiniteSparks, SumUpdate
<1>5. SumOver(y, Redemption) = SumOver(x, Redemption) - x[q] + y[q]
  <2>1. /\ \A p \in Redemption : x[p] \in Int /\ y[p] \in Int
        /\ \A p \in Redemption \ {q} : y[p] = x[p]
    BY <1>3
  <2> QED
    BY <2>1, FiniteSparks, SumUpdate
<1>6. SumOver(f, Redemption) \in Int /\ SumOver(x, Redemption) \in Int
  BY <1>2, <1>3, FiniteSparks, SumInteger
<1> QED
  BY <1>2, <1>3, <1>4, <1>5, <1>6 DEF f, h, x, y

LEMMA SumsOfSparksNext ==
    Balanced' <=>
        /\ locked' = SumOver(HeldShares', Redemption)
        /\ SumOver(AwardedSparks', Work)
               = spendable' + locked' + SumOver(SpentShares', Redemption)
<1>1. (Balanced <=>
        /\ locked = SumOver(HeldShares, Redemption)
        /\ SumOver(AwardedSparks, Work)
               = spendable + locked + SumOver(SpentShares, Redemption))'
  BY SumsOfSparks, PTL
<1> QED
  BY <1>1

LEMMA BalancesKept ==
    ASSUME Balanced, UNCHANGED <<award, spendable, locked, redemption>>
    PROVE  Balanced'
<1>1. /\ HeldShares' = HeldShares /\ SpentShares' = SpentShares
      /\ AwardedSparks' = AwardedSparks
  <2>1. HeldShares' = HeldShares /\ SpentShares' = SpentShares
    BY DEF HeldShares, SpentShares, Share
  <2>2. AwardedSparks' = AwardedSparks
    BY DEF AwardedSparks
  <2> QED
    BY <2>1, <2>2
<1> QED
  BY <1>1, SumsOfSparks, SumsOfSparksNext

(* What leaves the spendable and the locked account together is what the    *)
(* redemption adds to the Sparks spent.                                     *)
LEMMA RedemptionMoves ==
    ASSUME Balanced, SparksTypeOK, SparksTypeOK', NEW q \in Redemption,
           \A p \in Redemption \ {q} : redemption'[p] = redemption[p],
           award' = award,
           locked' = locked - Share(q, "held") + Share(q, "held")',
           spendable' + locked' + Share(q, "fulfilled")'
               = spendable + locked + Share(q, "fulfilled")
    PROVE  Balanced'
<1>1. AwardedSparks' = AwardedSparks
  BY DEF AwardedSparks
<1>2. /\ spendable \in Nat /\ locked \in Nat /\ spendable' \in Nat /\ locked' \in Nat
      /\ redemption[q].total \in Nat /\ redemption'[q].total \in Nat
  BY DEF SparksTypeOK, RedemptionRow
<1>3. Share(q, "fulfilled") \in Nat /\ Share(q, "fulfilled")' \in Nat
  BY <1>2 DEF Share
<1> QED
  BY <1>1, <1>2, <1>3, SharesMove, SumsOfSparks, SumsOfSparksNext

LEMMA AskKeepsBalance ==
    ASSUME SparksInv, Balanced, SparksTypeOK', NEW q \in Redemption, NEW k \in RequestKey,
           NEW s \in DOMAIN catalog, NEW n \in Quantity, AskRedemption(q, k, s, n)
    PROVE  Balanced'
<1>1. /\ redemption[q].status = "none" /\ redemption'[q].status = "asked"
      /\ \A p \in Redemption \ {q} : redemption'[p] = redemption[p]
      /\ UNCHANGED <<award, spendable, locked>>
  BY DEF AskRedemption, SparksInv, SparksTypeOK
<1>2. /\ Share(q, "held") = 0 /\ Share(q, "held")' = 0
      /\ Share(q, "fulfilled") = 0 /\ Share(q, "fulfilled")' = 0
  BY <1>1 DEF Share
<1>3. spendable \in Nat /\ locked \in Nat
  BY DEF SparksInv, SparksTypeOK
<1> QED
  BY <1>1, <1>2, <1>3, RedemptionMoves DEF SparksInv

(* Every other redemption call changes the status only. *)
LEMMA StatusMoves ==
    ASSUME SparksInv, SparksTypeOK', NEW q \in Redemption,
           NEW status \in {"held", "refused", "fulfilled", "cancelled", "rejected"},
           redemption' = [redemption EXCEPT ![q].status = status]
    PROVE  /\ redemption'[q].status = status /\ redemption'[q].total = redemption[q].total
           /\ redemption[q].total \in Nat
           /\ \A p \in Redemption \ {q} : redemption'[p] = redemption[p]
BY DEF SparksInv, SparksTypeOK, RedemptionRow

LEMMA HoldKeepsBalance ==
    ASSUME SparksInv, Balanced, SparksTypeOK', NEW q \in Redemption, Hold(q)
    PROVE  Balanced'
<1>1. /\ redemption'[q].status = "held" /\ redemption'[q].total = redemption[q].total
      /\ redemption[q].total \in Nat
      /\ \A p \in Redemption \ {q} : redemption'[p] = redemption[p]
  BY StatusMoves DEF Hold
<1>2. /\ redemption[q].status = "asked" /\ award' = award
      /\ spendable' = spendable - redemption[q].total
      /\ locked' = locked + redemption[q].total
  BY DEF Hold
<1>3. /\ Share(q, "held") = 0 /\ Share(q, "held")' = redemption[q].total
      /\ Share(q, "fulfilled") = 0 /\ Share(q, "fulfilled")' = 0
  BY <1>1, <1>2 DEF Share
<1>4. spendable \in Nat /\ locked \in Nat
  BY DEF SparksInv, SparksTypeOK
<1> QED
  BY <1>1, <1>2, <1>3, <1>4, RedemptionMoves DEF SparksInv

LEMMA SettleKeepsBalance ==
    ASSUME SparksInv, Balanced, SparksTypeOK', NEW q \in Redemption,
           RefuseHold(q) \/ Fulfill(q)
             \/ \E as \in {"cancelled", "rejected"} : CancelRedemption(q, as)
    PROVE  Balanced'
<1>1. spendable \in Nat /\ locked \in Nat
  BY DEF SparksInv, SparksTypeOK
<1>2. CASE RefuseHold(q)
  <2>1. /\ redemption'[q].status = "refused"
        /\ \A p \in Redemption \ {q} : redemption'[p] = redemption[p]
    BY <1>2, StatusMoves DEF RefuseHold
  <2>2. redemption[q].status = "asked" /\ UNCHANGED <<award, spendable, locked>>
    BY <1>2 DEF RefuseHold
  <2>3. /\ Share(q, "held") = 0 /\ Share(q, "held")' = 0
        /\ Share(q, "fulfilled") = 0 /\ Share(q, "fulfilled")' = 0
    BY <2>1, <2>2 DEF Share
  <2> QED
    BY <1>1, <2>1, <2>2, <2>3, RedemptionMoves DEF SparksInv
<1>3. CASE Fulfill(q)
  <2>1. /\ redemption'[q].status = "fulfilled" /\ redemption'[q].total = redemption[q].total
        /\ redemption[q].total \in Nat
        /\ \A p \in Redemption \ {q} : redemption'[p] = redemption[p]
    BY <1>3, StatusMoves DEF Fulfill
  <2>2. /\ redemption[q].status = "held" /\ UNCHANGED <<award, spendable>>
        /\ locked' = locked - redemption[q].total
    BY <1>3 DEF Fulfill
  <2>3. /\ Share(q, "held") = redemption[q].total /\ Share(q, "held")' = 0
        /\ Share(q, "fulfilled") = 0 /\ Share(q, "fulfilled")' = redemption[q].total
    BY <2>1, <2>2 DEF Share
  <2> QED
    BY <1>1, <2>1, <2>2, <2>3, RedemptionMoves DEF SparksInv
<1>4. ASSUME NEW as \in {"cancelled", "rejected"}, CancelRedemption(q, as)
      PROVE  Balanced'
  <2>1. /\ redemption'[q].status = as /\ redemption'[q].total = redemption[q].total
        /\ redemption[q].total \in Nat
        /\ \A p \in Redemption \ {q} : redemption'[p] = redemption[p]
    BY <1>4, StatusMoves DEF CancelRedemption
  <2>2. /\ redemption[q].status = "held" /\ award' = award
        /\ locked' = locked - redemption[q].total
        /\ spendable' = spendable + redemption[q].total
    BY <1>4 DEF CancelRedemption
  <2>3. /\ Share(q, "held") = redemption[q].total /\ Share(q, "held")' = 0
        /\ Share(q, "fulfilled") = 0 /\ Share(q, "fulfilled")' = 0
    BY <2>1, <2>2 DEF Share
  <2> QED
    BY <1>1, <2>1, <2>2, <2>3, RedemptionMoves DEF SparksInv
<1> QED
  BY <1>2, <1>3, <1>4

(* A contribution has an award of one entry or of none. *)
LEMMA EntriesOf ==
    /\ Entries(<< >>) = 0
    /\ \A e : e.amount \in Int => Entries(<<e>>) = e.amount
<1>1. Entries(<< >>) = 0
  <2>1. DOMAIN << >> = {}
    OBVIOUS
  <2> QED
    BY <2>1, SumEmpty DEF Entries
<1>2. ASSUME NEW e, e.amount \in Int PROVE Entries(<<e>>) = e.amount
  <2> DEFINE s == <<e>>
             f == [i \in DOMAIN s |-> s[i].amount]
  <2>1. DOMAIN s = {1} /\ f[1] = e.amount
    OBVIOUS
  <2>2. IsFiniteSet({1}) /\ {1} \ {1} = {}
    BY FS_Singleton
  <2>3. Entries(s) = SumOver(f, {1})
    BY <2>1 DEF Entries
  <2> HIDE DEF f, s
  <2>4. \A i \in {1} : f[i] \in Int
    BY <1>2, <2>1
  <2>5. SumOver(f, {1}) = f[1] + SumOver(f, {1} \ {1})
    BY <2>2, <2>4, SumRemove
  <2>6. SumOver(f, {1} \ {1}) = 0
    BY <2>2, SumEmpty
  <2>7. Entries(s) = e.amount
    BY <1>2, <2>1, <2>3, <2>5, <2>6
  <2> QED
    BY <2>7 DEF s
<1> QED
  BY <1>1, <1>2

(* The first minting adds to the awards what it adds to the account. *)
LEMMA MintKeepsBalance ==
    ASSUME SparksInv, Balanced, SparksInv', NEW v \in Reviewer, Mint(v)
    PROVE  Balanced'
<1> DEFINE w == review[v].on
           n == review[v].version
           entry == [version |-> n, amount |-> score[w][n]]
<1>1. w \in Work /\ UNCHANGED <<locked, redemption>>
  BY DEF Mint, Executing
<1>2. CASE award[w] # << >>
  <2>1. UNCHANGED <<award, spendable>>
    BY <1>2 DEF Mint, AwardedAlready
  <2> QED
    BY <1>1, <2>1, BalancesKept
<1>3. CASE award[w] = << >>
  <2>1. /\ award' = [award EXCEPT ![w] = Append(@, entry)]
        /\ spendable' = spendable + score[w][n]
    BY <1>3 DEF Mint, AwardedAlready
  <2>2. award'[w] = <<entry>> /\ \A x \in Work \ {w} : award'[x] = award[x]
    <3>1. Append(<< >>, entry) = <<entry>>
      OBVIOUS
    <3> HIDE DEF entry, w, n
    <3> QED
      BY <1>1, <1>3, <2>1, <3>1 DEF SparksInv, SparksTypeOK
  <2>3. entry.amount = score[w][n]
    OBVIOUS
  <2>4. entry.amount \in Int
    <3>1. award'[w][1] = entry /\ award'[w] \in Seq(Award) /\ 1 \in DOMAIN award'[w]
      <4> HIDE DEF entry, w, n
      <4>1. award'[w] \in Seq(Award)
        BY <1>1 DEF SparksInv, SparksTypeOK
      <4>2. <<entry>>[1] = entry /\ 1 \in DOMAIN <<entry>>
        OBVIOUS
      <4> QED
        BY <2>2, <4>1, <4>2
    <3> HIDE DEF entry, w, n
    <3>2. entry \in Award
      BY <3>1
    <3> QED
      BY <3>2 DEF Award
  <2> HIDE DEF entry, w, n
  <2> DEFINE f == AwardedSparks
             h == AwardedSparks'
  <2>5. \A x \in Work : f[x] \in Int /\ h[x] \in Int
    <3>1. \A x \in Work : Entries(award[x]) \in Int
      <4> SUFFICES ASSUME NEW x \in Work PROVE Entries(award[x]) \in Int
        OBVIOUS
      <4>1. award[x] \in Seq(Award) /\ Len(award[x]) <= 1
        BY DEF SparksInv, SparksTypeOK, AwardedOnce
      <4>2. award[x] = << >> \/ \E e \in Award : award[x] = <<e>>
        BY <4>1
      <4>3. CASE award[x] = << >>
        BY <4>3, EntriesOf
      <4>4. ASSUME NEW e \in Award, award[x] = <<e>> PROVE Entries(award[x]) \in Int
        <5>1. e.amount \in Int
          BY DEF Award
        <5>2. Entries(<<e>>) = e.amount
          BY <5>1, EntriesOf
        <5> QED
          BY <4>4, <5>1, <5>2
      <4> QED
        BY <4>2, <4>3, <4>4
    <3>2. \A x \in Work : h[x] = IF x = w THEN Entries(<<entry>>) ELSE f[x]
      BY <2>2 DEF AwardedSparks
    <3>3. \A x \in Work : f[x] = Entries(award[x])
      BY DEF AwardedSparks
    <3> HIDE DEF f, h
    <3> QED
      BY <2>4, <3>1, <3>2, <3>3, EntriesOf
  <2>6. \A x \in Work \ {w} : h[x] = f[x]
    BY <2>2 DEF AwardedSparks
  <2>7. f[w] = 0 /\ h[w] = score[w][n]
    <3>1. f[w] = Entries(<< >>) /\ h[w] = Entries(<<entry>>)
      BY <1>1, <1>3, <2>2 DEF AwardedSparks
    <3> HIDE DEF f, h
    <3> QED
      BY <2>3, <2>4, <3>1, EntriesOf
  <2> HIDE DEF f, h
  <2>8. SumOver(h, Work) = SumOver(f, Work) - f[w] + h[w]
    <3>1. w \in Work /\ IsFiniteSet(Work)
      BY <1>1, FiniteSparks
    <3> QED
      BY <2>5, <2>6, <3>1, SumUpdate
  <2>9. SumOver(f, Work) \in Int
    BY <2>5, FiniteSparks, SumInteger
  <2>10. SpentShares' = SpentShares /\ HeldShares' = HeldShares
    BY <1>1 DEF SpentShares, HeldShares, Share
  <2>11. score[w][n] \in Int /\ spendable \in Int /\ locked \in Int
           /\ SumOver(SpentShares, Redemption) \in Int
    <3>1. spendable \in Int /\ locked \in Int
      BY DEF SparksInv, SparksTypeOK
    <3>2. \A p \in Redemption : SpentShares[p] \in Int
      BY DEF SpentShares, Share, SparksInv, SparksTypeOK, RedemptionRow
    <3> QED
      BY <2>3, <2>4, <3>1, <3>2, FiniteSparks, SumInteger
  <2>12. SumOver(f, Work) = spendable + locked + SumOver(SpentShares, Redemption)
           /\ locked = SumOver(HeldShares, Redemption)
    BY SumsOfSparks DEF f
  <2>13. SumOver(h, Work) = spendable' + locked' + SumOver(SpentShares, Redemption)
    <3>1. locked' = locked /\ spendable' = spendable + score[w][n]
      BY <1>1, <2>1
    <3>2. SumOver(h, Work) = SumOver(f, Work) + score[w][n]
      BY <2>7, <2>8, <2>9, <2>11
    <3> DEFINE a == score[w][n]
               b == SumOver(SpentShares, Redemption)
               c == SumOver(f, Work)
    <3>3. a \in Int /\ b \in Int /\ spendable \in Int /\ locked \in Int
      BY <2>11
    <3>4. c = spendable + locked + b
      BY <2>12
    <3>5. SumOver(h, Work) = c + a /\ spendable' = spendable + a
      BY <3>1, <3>2
    <3> HIDE DEF a, b, c
    <3>6. SumOver(h, Work) = spendable' + locked' + b
      BY <3>1, <3>3, <3>4, <3>5
    <3> QED
      BY <3>6 DEF b
  <2> QED
    BY <1>1, <2>10, <2>12, <2>13, SumsOfSparksNext DEF h
<1> QED
  BY <1>2, <1>3

LEMMA BalanceStep == SparksInv /\ Balanced /\ [SparksNext]_sparkVars => Balanced'
<1> SUFFICES ASSUME SparksInv, Balanced, [SparksNext]_sparkVars PROVE Balanced'
  OBVIOUS
<1>1. SparksInv' /\ SparksTypeOK'
  BY SparksStep DEF SparksInv
<1>2. ASSUME NEW v \in Reviewer, ReviewStep(v) PROVE Balanced'
  <2>1. CASE Mint(v)
    BY <1>1, <2>1, MintKeepsBalance
  <2>2. CASE ~ Mint(v)
    <3>1. UNCHANGED <<award, spendable, locked, redemption>>
      BY <1>2, <2>2 DEF ReviewStep, StartReview, SubmitEvidence, Verify, Accept, Score, Certify,
                        ReadFinalScore, RollBack
    <3> QED
      BY <3>1, BalancesKept
  <2> QED
    BY <2>1, <2>2
<1>3. CASE CatalogStep
  <2>1. UNCHANGED <<award, spendable, locked, redemption>>
    BY <1>3 DEF CatalogStep, Publish, SetServiceStatus
  <2> QED
    BY <2>1, BalancesKept
<1>4. CASE \E q \in Redemption : RedemptionStep(q)
  BY <1>1, <1>4, AskKeepsBalance, HoldKeepsBalance, SettleKeepsBalance DEF RedemptionStep
<1>5. CASE UNCHANGED sparkVars
  BY <1>5, BalancesKept DEF sparkVars
<1> QED
  BY <1>2, <1>3, <1>4, <1>5 DEF SparksNext

LEMMA BalanceInitial == SparksInit => Balanced
<1> SUFFICES ASSUME SparksInit PROVE Balanced
  OBVIOUS
<1>1. /\ \A q \in Redemption : HeldShares[q] = 0 /\ SpentShares[q] = 0
      /\ \A w \in Work : AwardedSparks[w] = 0
  BY EntriesOf DEF SparksInit, HeldShares, SpentShares, AwardedSparks, Share, NoRedemption
<1>2. /\ SumOver(HeldShares, Redemption) = 0 /\ SumOver(SpentShares, Redemption) = 0
      /\ SumOver(AwardedSparks, Work) = 0
  BY <1>1, FiniteSparks, SumZero
<1>3. spendable = 0 /\ locked = 0
  BY DEF SparksInit
<1> QED
  BY <1>2, <1>3, SumsOfSparks

LEMMA BalanceInvariance == SparksSpec => []Balanced
<1> QED
  BY BalanceInitial, BalanceStep, SparksInvariance, PTL DEF SparksSpec

(* The locked account is the sum of the held redemptions, whatever reviews  *)
(* and redemption calls interleave: a hold is taken and released by the     *)
(* amount its redemption bears (request, cancel and fulfil RPCs).           *)
THEOREM HoldsAreAlwaysBacked == SparksSpec => []HoldsAreBacked
<1>1. Balanced => HoldsAreBacked
  BY DEF Balanced
<1> QED
  BY <1>1, BalanceInvariance, PTL

(* No Sparks are made or lost: what was awarded is spendable, locked or     *)
(* spent by a fulfilled redemption.                                         *)
THEOREM SparksAreConserved == SparksSpec => []SparksConserved
<1>1. Balanced => SparksConserved
  BY DEF Balanced
<1> QED
  BY <1>1, BalanceInvariance, PTL

=============================================================================
