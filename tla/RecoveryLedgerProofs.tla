------------------------ MODULE RecoveryLedgerProofs ------------------------
(***************************************************************************)
(* Proofs about the database side for arbitrary callers: types, one        *)
(* unresolved identity per scope, one record per identity, and the         *)
(* immutability of history, for every set of identities and payloads.      *)
(***************************************************************************)
EXTENDS RecoveryLedger, TLAPS

LedgerInv == LedgerTypeOK /\ OneUnresolvedPerScope /\ OneRecordPerIdentity

-----------------------------------------------------------------------------
(* Every call keeps the rows and the records well-typed. *)
LEMMA NoRowType == NoRow \in Row
BY DEF NoRow, Row, Verification

LEMMA RegisterType ==
    ASSUME LedgerTypeOK, NEW k \in Key, NEW p \in Payload, Register(k, p)
    PROVE  LedgerTypeOK'
<1>1. [status |-> "open", payload |-> p, verification |-> "unverified"] \in Row
  BY DEF Row, Verification
<1> QED
  BY <1>1 DEF LedgerTypeOK, Register

LEMMA MarkType ==
    ASSUME LedgerTypeOK, NEW k \in Key, NEW v \in Verification, Mark(k, v)
    PROVE  LedgerTypeOK'
<1>1. [ledger[k] EXCEPT !.verification = v] \in Row
  BY DEF LedgerTypeOK, Row
<1> QED
  BY <1>1 DEF LedgerTypeOK, Mark

LEMMA ResolveType ==
    ASSUME LedgerTypeOK, NEW k \in Key, NEW r \in Resolution, Resolve(k, r)
    PROVE  LedgerTypeOK'
<1>1. [ledger[k] EXCEPT !.status = r] \in Row
  BY DEF LedgerTypeOK, Row
<1> QED
  BY <1>1 DEF LedgerTypeOK, Resolve

LEMMA WriteType ==
    ASSUME LedgerTypeOK, NEW k \in Key, NEW p \in Payload, Write(k, p)
    PROVE  LedgerTypeOK'
<1>1. [key |-> k, payload |-> p] \in Manifest
  BY DEF Manifest
<1> QED
  BY <1>1 DEF LedgerTypeOK, Write

-----------------------------------------------------------------------------
(* A row that is open after a call was open before it, except the row of a *)
(* registration that found no open row.                                    *)
LEMMA RegisterUnresolved ==
    ASSUME LedgerTypeOK, OneUnresolvedPerScope,
           NEW k \in Key, NEW p \in Payload, Register(k, p)
    PROVE  OneUnresolvedPerScope'
<1>1. CASE RegisterOutcome(k, p) = "active"
  <2>1. Unresolved(k) \/ \A j \in Key : ~ Unresolved(j)
    BY <1>1 DEF RegisterOutcome, Resolved, Unresolved, LedgerTypeOK, Row, Resolution
  <2>2. \A j \in Key \ {k} : ledger'[j] = ledger[j]
    BY <1>1 DEF Register, LedgerTypeOK
  <2> QED
    BY <2>1, <2>2 DEF OneUnresolvedPerScope, Unresolved
<1>2. CASE RegisterOutcome(k, p) # "active"
  BY <1>2 DEF Register, OneUnresolvedPerScope, Unresolved
<1> QED
  BY <1>1, <1>2

LEMMA MarkStatus ==
    ASSUME LedgerTypeOK, NEW k \in Key, NEW v, Mark(k, v)
    PROVE  \A j \in Key : /\ ledger'[j].status = ledger[j].status
                          /\ ledger'[j].payload = ledger[j].payload
BY DEF Mark, LedgerTypeOK, Row

LEMMA ResolveUnresolved ==
    ASSUME LedgerTypeOK, NEW k \in Key, NEW r \in Resolution, Resolve(k, r)
    PROVE  \A j \in Key : Unresolved(j)' => Unresolved(j)
BY DEF Resolve, MayResolve, Unresolved, LedgerTypeOK, Row, Resolution

(* The domain write appends a record of an identity that had none. *)
LEMMA WriteRecords ==
    ASSUME LedgerTypeOK, OneRecordPerIdentity,
           NEW k \in Key, NEW p \in Payload, Write(k, p)
    PROVE  OneRecordPerIdentity'
<1>1. CASE Recorded(k)
  BY <1>1 DEF Write, OneRecordPerIdentity
<1>2. CASE ~ Recorded(k)
  <2> DEFINE m == [key |-> k, payload |-> p]
             n == Len(manifests)
  <2>1. manifests' = Append(manifests, m) /\ m \in Manifest /\ manifests \in Seq(Manifest)
    BY <1>2 DEF Write, LedgerTypeOK, Manifest
  <2>2. /\ n \in Nat /\ DOMAIN manifests = 1 .. n /\ DOMAIN manifests' = 1 .. n + 1
        /\ \A i \in 1 .. n : manifests'[i] = manifests[i]
        /\ manifests'[n + 1] = m
    BY <2>1
  <2>3. \A i \in 1 .. n : manifests[i].key # k
    BY <1>2, <2>2 DEF Recorded
  <2> QED
    BY <2>2, <2>3 DEF OneRecordPerIdentity
<1> QED
  BY <1>1, <1>2

-----------------------------------------------------------------------------
(* Whatever the callers do, the ledger stays well-typed, at most one       *)
(* identity of the scope is unresolved, and an identity has one record.    *)
THEOREM LedgerInvariance == LedgerSpec => []LedgerInv
<1>1. LedgerInit => LedgerInv
  BY NoRowType
     DEF LedgerInit, LedgerInv, LedgerTypeOK, OneUnresolvedPerScope, Unresolved,
         OneRecordPerIdentity, NoRow
<1>2. LedgerInv /\ [LedgerNext]_dbVars => LedgerInv'
  <2> SUFFICES ASSUME LedgerInv, [LedgerNext]_dbVars
               PROVE  LedgerInv'
    OBVIOUS
  <2> USE DEF LedgerInv
  <2>1. ASSUME NEW k \in Key, NEW p \in Payload, Register(k, p)
        PROVE  LedgerInv'
    <3>1. OneRecordPerIdentity'
      BY <2>1 DEF Register, OneRecordPerIdentity
    <3> QED
      BY <2>1, <3>1, RegisterType, RegisterUnresolved
  <2>2. ASSUME NEW k \in Key, NEW v \in Verification, Mark(k, v)
        PROVE  LedgerInv'
    <3>1. OneUnresolvedPerScope'
      BY <2>2, MarkStatus DEF OneUnresolvedPerScope, Unresolved
    <3>2. OneRecordPerIdentity'
      BY <2>2 DEF Mark, OneRecordPerIdentity
    <3> QED
      BY <2>2, <3>1, <3>2, MarkType
  <2>3. ASSUME NEW k \in Key, NEW r \in Resolution, Resolve(k, r)
        PROVE  LedgerInv'
    <3>1. OneUnresolvedPerScope'
      BY <2>3, ResolveUnresolved DEF OneUnresolvedPerScope
    <3>2. OneRecordPerIdentity'
      BY <2>3 DEF Resolve, OneRecordPerIdentity
    <3> QED
      BY <2>3, <3>1, <3>2, ResolveType
  <2>4. ASSUME NEW k \in Key, NEW p \in Payload, Write(k, p)
        PROVE  LedgerInv'
    <3>1. OneUnresolvedPerScope'
      BY <2>4 DEF Write, OneUnresolvedPerScope, Unresolved
    <3> QED
      BY <2>4, <3>1, WriteType, WriteRecords
  <2>5. CASE UNCHANGED dbVars
    BY <2>5 DEF dbVars, LedgerTypeOK, OneUnresolvedPerScope, Unresolved,
                OneRecordPerIdentity
  <2> QED
    BY <2>1, <2>2, <2>3, <2>4, <2>5 DEF LedgerNext
<1> QED
  BY <1>1, <1>2, PTL DEF LedgerSpec

(* At most one identity of the scope is unresolved, whatever callers do. *)
THEOREM OneUnresolved == LedgerSpec => []OneUnresolvedPerScope
<1>1. LedgerInv => OneUnresolvedPerScope
  BY DEF LedgerInv
<1> QED
  BY <1>1, LedgerInvariance, PTL

(* No sequence of calls records an identity twice. *)
THEOREM OneRecord == LedgerSpec => []OneRecordPerIdentity
<1>1. LedgerInv => OneRecordPerIdentity
  BY DEF LedgerInv
<1> QED
  BY <1>1, LedgerInvariance, PTL

-----------------------------------------------------------------------------
(* A call leaves resolved rows and committed records as they are. *)
HistoryKept ==
    /\ \A k \in Key : Resolved(k) => ledger'[k] = ledger[k]
    /\ \A i \in DOMAIN manifests :
           i \in DOMAIN manifests' /\ manifests'[i] = manifests[i]

LEMMA RegisterHistory ==
    ASSUME LedgerTypeOK, NEW k \in Key, NEW p \in Payload, Register(k, p)
    PROVE  HistoryKept
<1>1. Resolved(k) => RegisterOutcome(k, p) # "active"
  BY DEF RegisterOutcome, Resolved, Resolution, Unresolved
<1> QED
  BY <1>1 DEF HistoryKept, Register, LedgerTypeOK

LEMMA WriteHistory ==
    ASSUME LedgerTypeOK, NEW k \in Key, NEW p \in Payload, Write(k, p)
    PROVE  HistoryKept
<1>1. CASE Recorded(k)
  BY <1>1 DEF HistoryKept, Write
<1>2. CASE ~ Recorded(k)
  <2>1. /\ manifests' = Append(manifests, [key |-> k, payload |-> p])
        /\ manifests \in Seq(Manifest)
        /\ [key |-> k, payload |-> p] \in Manifest
    BY <1>2 DEF Write, LedgerTypeOK, Manifest
  <2> QED
    BY <2>1 DEF HistoryKept, Write
<1> QED
  BY <1>1, <1>2

LEMMA CallHistory ==
    ASSUME LedgerTypeOK, LedgerNext
    PROVE  HistoryKept
<1>1. ASSUME NEW k \in Key, NEW v \in Verification, Mark(k, v)
      PROVE  HistoryKept
  BY <1>1 DEF Mark, MarkOutcome, HistoryKept, Resolved, Resolution, Unresolved,
              LedgerTypeOK
<1>2. ASSUME NEW k \in Key, NEW r \in Resolution, Resolve(k, r)
      PROVE  HistoryKept
  BY <1>2 DEF Resolve, MayResolve, HistoryKept, Resolved, Resolution, Unresolved,
              LedgerTypeOK
<1> QED
  BY <1>1, <1>2, RegisterHistory, WriteHistory DEF LedgerNext

(* Resolved rows and committed records are history: no call, in any order, *)
(* changes or removes one.                                                 *)
THEOREM HistoryImmutable == LedgerSpec => HistoryIsImmutable
<1>1. LedgerInv /\ [LedgerNext]_dbVars => [HistoryKept]_dbVars
  BY CallHistory DEF LedgerInv
<1> QED
  BY <1>1, LedgerInvariance, PTL DEF LedgerSpec, HistoryIsImmutable, HistoryKept

=============================================================================
