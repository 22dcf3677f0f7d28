------------------------ MODULE CapacityReserveProofs ------------------------
(***************************************************************************)
(* Proofs about CapacityReserve, for every set of callers, keys and        *)
(* buckets: the statements of concurrent reservations interleave, and the  *)
(* committed rows still implement CapacityLedger.                          *)
(***************************************************************************)
EXTENDS CapacityReserve, FunctionTheorems, FiniteSetTheorems, TLAPS

Inv == TypeOK /\ PoolIsHeld /\ PendingFits /\ CommittedFits

-------------------------------------------------------------------------------
\* Sets of units.

\* The units of a key are finite, and as many as the key asks for.
LEMMA UnitSlotsFinite ==
  ASSUME NEW k \in Key
  PROVE  IsFiniteSet(UnitSlots(k)) /\ Cardinality(UnitSlots(k)) = UnitsOf[k]
<1>1. UnitsOf[k] \in Nat
  BY ReserveAssumption
<1>2. IsFiniteSet(1 .. UnitsOf[k]) /\ Cardinality(1 .. UnitsOf[k]) = UnitsOf[k]
  BY <1>1, FS_Interval
<1>3. IsFiniteSet({k}) /\ Cardinality({k}) = 1
  BY FS_Singleton
<1>4. /\ IsFiniteSet(UnitSlots(k))
      /\ Cardinality(UnitSlots(k))
           = Cardinality({k}) * Cardinality(1 .. UnitsOf[k])
  BY <1>2, <1>3, FS_Product DEF UnitSlots
<1>5. 1 * UnitsOf[k] = UnitsOf[k]
  BY <1>1
<1> QED BY <1>2, <1>3, <1>4, <1>5

\* There are finitely many units in all.
LEMMA AllSlotsFinite == IsFiniteSet(AllSlots)
<1> DEFINE f == [k \in Key |-> UnitSlots(k)]
           T == {UnitSlots(k) : k \in Key}
<1>1. f \in Surjection(Key, T)
  BY DEF Surjection
<1>2. IsFiniteSet(T)
  BY <1>1, ReserveAssumption, FS_Surjection
<1>3. \A S \in T : IsFiniteSet(S)
  BY UnitSlotsFinite
<1>4. IsFiniteSet(UNION T)
  BY <1>2, <1>3, FS_UNION
<1> QED BY <1>4 DEF AllSlots

\* So the units a bucket has debited can be counted.
LEMMA UsedFinite ==
  ASSUME NEW b
  PROVE  IsFiniteSet(UsedUnits(b)) /\ Cardinality(UsedUnits(b)) \in Nat
<1>1. UsedUnits(b) \subseteq AllSlots
  BY DEF UsedUnits, Debited, AllSlots
<1> QED BY <1>1, AllSlotsFinite, FS_Subset, FS_CardinalityType

\* A bucket that debits fewer keys than before has no fewer units left.
LEMMA FewerUnits ==
  ASSUME NEW b, Debited(b)' \subseteq Debited(b)
  PROVE  Cardinality(UsedUnits(b)') <= Cardinality(UsedUnits(b))
         /\ Cardinality(UsedUnits(b)') \in Nat
<1>1. UsedUnits(b)' \subseteq UsedUnits(b)
  BY DEF UsedUnits
<1> QED BY <1>1, UsedFinite, FS_Subset, FS_CardinalityType

\* One key more uses no more than its own units.
LEMMA MoreUnits ==
  ASSUME NEW b, NEW k \in Key, Debited(b)' \subseteq Debited(b) \cup {k}
  PROVE  Cardinality(UsedUnits(b)') <= Cardinality(UsedUnits(b)) + UnitsOf[k]
         /\ Cardinality(UsedUnits(b)') \in Nat
<1>1. UsedUnits(b)' \subseteq UsedUnits(b) \cup UnitSlots(k)
  BY DEF UsedUnits
<1>2. /\ IsFiniteSet(UsedUnits(b) \cup UnitSlots(k))
      /\ Cardinality(UsedUnits(b) \cup UnitSlots(k)) =
           Cardinality(UsedUnits(b)) + Cardinality(UnitSlots(k))
             - Cardinality(UsedUnits(b) \cap UnitSlots(k))
  BY UsedFinite, UnitSlotsFinite, FS_Union
<1>3. Cardinality(UsedUnits(b) \cap UnitSlots(k)) \in Nat
  BY UsedFinite, FS_Intersection, FS_CardinalityType
<1>4. /\ Cardinality(UsedUnits(b)')
             <= Cardinality(UsedUnits(b) \cup UnitSlots(k))
      /\ Cardinality(UsedUnits(b)') \in Nat
  BY <1>1, <1>2, FS_Subset, FS_CardinalityType
<1>5. Cardinality(UnitSlots(k)) = UnitsOf[k] /\ UnitsOf[k] \in Nat
  BY UnitSlotsFinite, ReserveAssumption
<1> QED BY <1>2, <1>3, <1>4, <1>5, UsedFinite

-------------------------------------------------------------------------------
\* The invariant holds at first: nothing is allocated, nobody holds the pool.
LEMMA InvInit == Init => Inv
<1> SUFFICES ASSUME Init PROVE Inv
  OBVIOUS
<1>1. TypeOK /\ PoolIsHeld /\ PendingFits
  BY ReserveAssumption DEF Init, TypeOK, PoolIsHeld, PendingFits, Allocation,
     Disposition, Steps
<1>2. ASSUME NEW b \in Bucket PROVE Cardinality(UsedUnits(b)) <= TotalOf[b]
  <2>1. UsedUnits(b) = {}
    BY DEF Init, UsedUnits, Debited
  <2> QED BY <2>1, FS_EmptySet, ReserveAssumption
<1> QED BY <1>1, <1>2 DEF Inv, CommittedFits

\* Every step keeps the types.
LEMMA TypeNext == TypeOK /\ [Next]_vars => TypeOK'
<1> SUFFICES ASSUME TypeOK, [Next]_vars PROVE TypeOK'
  OBVIOUS
<1> USE ReserveAssumption DEF TypeOK, Allocation, Disposition, Steps
<1>1. ASSUME NEW c \in Caller, CallerStep(c) PROVE TypeOK'
  <2> USE DEF EndsWith, Goto
  <2>1. CASE LookUp(c)
    BY <2>1 DEF LookUp
  <2>2. CASE LockPool(c)
    BY <2>2 DEF LockPool
  <2>3. CASE LookUpAgain(c)
    BY <2>3 DEF LookUpAgain
  <2>4. CASE Insert(c)
    BY <2>4 DEF Insert
  <2>5. CASE Unavailable(c)
    BY <2>5 DEF Unavailable
  <2>6. CASE Commit(c)
    <3>1. PICK debit \in {"HELD", "SPENT"} :
            allocation' = [allocation EXCEPT ![KeyOf[c]] =
                             [debit |-> debit, bucket |-> pending[c]]]
      BY <2>6 DEF Commit
    <3>2. [debit |-> debit, bucket |-> pending[c]] \in Allocation
      OBVIOUS
    <3>3. allocation' \in [Key -> Allocation]
      BY <3>1, <3>2
    <3> QED BY <2>6, <3>3 DEF Commit
  <2>7. CASE Rollback(c)
    BY <2>7 DEF Rollback
  <2>8. CASE Again(c)
    BY <2>8 DEF Again
  <2> QED BY <1>1, <2>1, <2>2, <2>3, <2>4, <2>5, <2>6, <2>7, <2>8 DEF CallerStep
<1>2. ASSUME NEW k \in Key, Spend(k) \/ Return(k) PROVE TypeOK'
  <2>1. CASE Spend(k)
    <3>1. allocation' \in [Key -> Allocation]
      BY <2>1 DEF Spend
    <3> QED BY <2>1, <3>1 DEF Spend
  <2>2. CASE Return(k)
    <3>1. allocation' \in [Key -> Allocation]
      BY <2>2 DEF Return
    <3> QED BY <2>2, <3>1 DEF Return
  <2> QED BY <1>2, <2>1, <2>2
<1>3. CASE NextBucket
  BY <1>3 DEF NextBucket
<1>4. CASE UNCHANGED vars
  BY <1>4 DEF vars
<1> QED BY <1>1, <1>2, <1>3, <1>4 DEF Next

\* The pool row is handed over only between transactions.
LEMMA PoolNext == Inv /\ [Next]_vars => PoolIsHeld'
<1> SUFFICES ASSUME Inv, [Next]_vars PROVE PoolIsHeld'
  OBVIOUS
<1> USE ReserveAssumption DEF Inv, TypeOK, Allocation, Disposition, Steps,
        PoolIsHeld, Exists
<1>1. ASSUME NEW c \in Caller, CallerStep(c) PROVE PoolIsHeld'
  BY <1>1 DEF CallerStep, LookUp, LockPool, LookUpAgain, Insert, Unavailable,
     Commit, Rollback, Again, EndsWith, Goto
<1>2. ASSUME NEW k \in Key, Spend(k) \/ Return(k) PROVE PoolIsHeld'
  BY <1>2 DEF Spend, Return
<1>3. CASE NextBucket
  BY <1>3 DEF NextBucket
<1>4. CASE UNCHANGED vars
  BY <1>4 DEF vars
<1> QED BY <1>1, <1>2, <1>3, <1>4 DEF Next

\* A bucket debits another key only when its insert commits.
LEMMA DebitedNext ==
  ASSUME Inv, [Next]_vars, NEW b \in Bucket,
         ~\E c \in Caller : Commit(c)
  PROVE  Debited(b)' \subseteq Debited(b)
<1> USE DEF Inv, TypeOK, Allocation, Disposition, Debited
<1>1. ASSUME NEW c \in Caller, CallerStep(c), ~Commit(c)
      PROVE  Debited(b)' \subseteq Debited(b)
  BY <1>1 DEF CallerStep, LookUp, LockPool, LookUpAgain, Insert, Unavailable,
     Rollback, Again
<1>2. ASSUME NEW k \in Key, Spend(k) \/ Return(k)
      PROVE  Debited(b)' \subseteq Debited(b)
  BY <1>2 DEF Spend, Return
<1>3. CASE NextBucket
  BY <1>3 DEF NextBucket
<1>4. CASE UNCHANGED vars
  BY <1>4 DEF vars
<1> QED BY <1>1, <1>2, <1>3, <1>4 DEF Next

\* Then a row pending stays within its bucket, and so do the committed ones.
LEMMA QuietFits ==
  ASSUME Inv, [Next]_vars, ~\E c \in Caller : Commit(c)
  PROVE  PendingFits' /\ CommittedFits'
<1> USE ReserveAssumption DEF Inv
<1>1. ASSUME NEW b \in Bucket
      PROVE  /\ Cardinality(UsedUnits(b)') <= Cardinality(UsedUnits(b))
             /\ Cardinality(UsedUnits(b)') \in Nat
             /\ Cardinality(UsedUnits(b)) \in Nat
  BY DebitedNext, FewerUnits, UsedFinite
<1>2. CommittedFits'
  BY <1>1 DEF CommittedFits
<1>3. ASSUME NEW c \in Caller, pc'[c] = "INSERTED"
      PROVE  pending'[c] \in Bucket /\ Room(pending'[c], KeyOf[c])
  <2>1. CASE pc[c] = "INSERTED" /\ pending'[c] = pending[c]
    BY <2>1 DEF PendingFits
  <2>2. CASE Insert(c)
    BY <2>2 DEF Insert, TypeOK
  <2>3. \/ pc[c] = "INSERTED" /\ pending'[c] = pending[c]
        \/ Insert(c)
    <3> USE DEF TypeOK
    <3>1. ASSUME NEW d \in Caller, CallerStep(d)
          PROVE  \/ pc[c] = "INSERTED" /\ pending'[c] = pending[c]
                 \/ Insert(c)
      BY <1>3, <3>1 DEF CallerStep, LookUp, LockPool, LookUpAgain, Insert,
         Unavailable, Rollback, Again, Goto, EndsWith
    <3>2. ASSUME NEW k \in Key, Spend(k) \/ Return(k)
          PROVE  pc[c] = "INSERTED" /\ pending'[c] = pending[c]
      BY <1>3, <3>2 DEF Spend, Return
    <3>3. CASE NextBucket \/ UNCHANGED vars
      BY <1>3, <3>3 DEF NextBucket, vars
    <3> QED BY <3>1, <3>2, <3>3 DEF Next
  <2> QED BY <2>1, <2>2, <2>3
<1>4. ASSUME NEW c \in Caller, pc'[c] = "INSERTED",
             NEW b \in Bucket, b = pending'[c]
      PROVE  Cardinality(UsedUnits(b)') + UnitsOf[KeyOf[c]] <= TotalOf[b]
  <2>1. KeyOf[c] \in Key /\ UnitsOf[KeyOf[c]] \in Nat /\ TotalOf[b] \in Nat
    OBVIOUS
  <2>2. Cardinality(UsedUnits(b)) + UnitsOf[KeyOf[c]] <= TotalOf[b]
    BY <1>3, <1>4 DEF Room
  <2> QED BY <1>1, <2>1, <2>2
<1>5. PendingFits'
  BY <1>3, <1>4 DEF PendingFits, Room, UsedUnits, Debited
<1> QED BY <1>2, <1>5

\* A commit adds the row that was found to fit, and no other row is pending.
LEMMA CommitFits ==
  ASSUME Inv, NEW c \in Caller, Commit(c)
  PROVE  PendingFits' /\ CommittedFits'
<1> USE ReserveAssumption DEF Inv
<1> DEFINE k == KeyOf[c]
<1>1. pc[c] = "INSERTED" /\ pending[c] \in Bucket /\ Room(pending[c], k)
  BY DEF Commit, PendingFits
<1>2. /\ allocation'[k].bucket = pending[c]
      /\ \A other \in Key \ {k} : allocation'[other] = allocation[other]
  <2>1. PICK debit \in {"HELD", "SPENT"} :
          allocation' = [allocation EXCEPT ![k] =
                           [debit |-> debit, bucket |-> pending[c]]]
    BY DEF Commit
  <2> QED BY <2>1 DEF TypeOK
<1>3. ASSUME NEW b \in Bucket PROVE Cardinality(UsedUnits(b)') <= TotalOf[b]
  <2>1. CASE b = pending[c]
    <3>1. Debited(b)' \subseteq Debited(b) \cup {k}
      BY <1>2 DEF Debited
    <3>2. Cardinality(UsedUnits(b)') <= Cardinality(UsedUnits(b)) + UnitsOf[k]
          /\ Cardinality(UsedUnits(b)') \in Nat
      BY <3>1, MoreUnits
    <3> QED BY <1>1, <2>1, <3>2, UsedFinite DEF Room
  <2>2. CASE b # pending[c]
    <3>1. Debited(b)' \subseteq Debited(b)
      BY <1>2, <2>2 DEF Debited
    <3> QED BY <3>1, FewerUnits, UsedFinite DEF CommittedFits
  <2> QED BY <2>1, <2>2
<1>4. ASSUME NEW d \in Caller PROVE pc'[d] # "INSERTED"
  BY <1>1 DEF Commit, EndsWith, Goto, TypeOK, PoolIsHeld
<1> QED BY <1>3, <1>4 DEF CommittedFits, PendingFits

\* Every step keeps the invariant.
LEMMA InvNext == Inv /\ [Next]_vars => Inv'
BY TypeNext, PoolNext, QuietFits, CommitFits DEF Inv

\* The pool row is held through count and insert, a counted row keeps fitting
\* and no bucket is oversold, in every interleaving.
THEOREM Invariance == Spec => []Inv
BY InvInit, InvNext, PTL DEF Spec
-------------------------------------------------------------------------------
\* The rows keep their types,
THEOREM TypeCorrect == Spec => []TypeOK
BY Invariance, PTL DEF Inv

\* and a caller about to insert holds the pool row and has found its key free.
THEOREM HoldsPool == Spec => []PoolIsHeld
BY Invariance, PTL DEF Inv

\* No bucket is oversold by the rows that committed, whatever the order in which
\* concurrent transactions look up, wait, count, insert and commit.
THEOREM NoOversell == Spec => []CommittedFits
BY Invariance, PTL DEF Inv

\* And a row inserted keeps the room that was found for it until it commits.
THEOREM RoomStaysTrue == Spec => []PendingFits
BY Invariance, PTL DEF Inv

\* The instance has its own copy of the standard operator.
LEMMA SameCardinality == \A S : Ledger!Cardinality(S) = Cardinality(S)
BY DEF Ledger!Cardinality, Cardinality

\* The slots of a key are its own.
LEMMA SlotKey ==
  ASSUME NEW s \in AllSlots
  PROVE  s[1] \in Key /\ s \in UnitSlots(s[1])
BY DEF AllSlots, UnitSlots

\* The ledger counts the units the committed rows debit.
LEMMA LedgerFits == CommittedFits => Ledger!Fits
<1> SUFFICES ASSUME CommittedFits PROVE Ledger!Fits
  OBVIOUS
<1>1. ASSUME NEW b \in Bucket
      PROVE  Ledger!Cardinality(Ledger!Used(b)) <= TotalOf[b]
  <2>1. Ledger!Used(b) \subseteq UsedUnits(b)
    BY SlotKey DEF Ledger!Used, Slots, SlotState, Exists, UsedUnits, Debited
  <2>2. /\ Cardinality(Ledger!Used(b)) <= Cardinality(UsedUnits(b))
        /\ Cardinality(Ledger!Used(b)) \in Nat
    BY <2>1, UsedFinite, FS_Subset, FS_CardinalityType
  <2> QED BY <2>2, UsedFinite, SameCardinality, ReserveAssumption
          DEF CommittedFits
<1> QED BY <1>1 DEF Ledger!Fits

\* What a step may do to the row of a key.
RowAdvances(k) ==
  \/ allocation'[k] = allocation[k]
  \/ /\ ~Exists(k)
     /\ allocation'[k].debit \in {"HELD", "SPENT"}
     /\ allocation'[k].bucket \in Bucket
  \/ /\ allocation[k].debit = "HELD"
     /\ \E debit \in {"SPENT", "RETURNED"} :
          allocation'[k] = [allocation[k] EXCEPT !.debit = debit]

\* A row that does not exist names no bucket.
AbsentNowhere ==
  \A k \in Key : ~Exists(k) => allocation[k].bucket = None

\* Every step moves every row so.
LEMMA StepAdvances ==
  ASSUME Inv, AbsentNowhere, Next
  PROVE  \A k \in Key : RowAdvances(k)
<1> USE DEF Inv, TypeOK, Allocation, RowAdvances
<1>1. ASSUME NEW c \in Caller, Commit(c)
      PROVE  \A k \in Key : RowAdvances(k)
  <2>1. PICK debit \in {"HELD", "SPENT"} :
          allocation' = [allocation EXCEPT ![KeyOf[c]] =
                           [debit |-> debit, bucket |-> pending[c]]]
    BY <1>1 DEF Commit
  <2>2. pending[c] \in Bucket /\ ~Exists(KeyOf[c])
    BY <1>1 DEF Commit, PendingFits, PoolIsHeld
  <2> QED BY <2>1, <2>2
<1>2. ASSUME NEW c \in Caller, CallerStep(c), ~Commit(c)
      PROVE  allocation' = allocation
  BY <1>2 DEF CallerStep, LookUp, LockPool, LookUpAgain, Insert, Unavailable,
     Rollback, Again
<1>3. ASSUME NEW k \in Key, Spend(k)
      PROVE  \A other \in Key : RowAdvances(other)
  BY <1>3 DEF Spend
<1>4. ASSUME NEW k \in Key, Return(k)
      PROVE  \A other \in Key : RowAdvances(other)
  BY <1>4 DEF Return
<1>5. CASE NextBucket
  BY <1>5 DEF NextBucket
<1> QED BY <1>1, <1>2, <1>3, <1>4, <1>5 DEF Next

\* So it keeps absent rows nowhere.
LEMMA AbsentNext ==
  ASSUME Inv, AbsentNowhere, [Next]_vars
  PROVE  AbsentNowhere'
<1>1. CASE UNCHANGED vars
  BY <1>1 DEF vars, AbsentNowhere, Exists
<1>2. CASE Next
  BY <1>2, StepAdvances DEF RowAdvances, AbsentNowhere, Exists, Inv, TypeOK,
     Allocation
<1> QED BY <1>1, <1>2

\* And that is what the ledger allows its slots.
LEMMA AdvancesKeepLedger ==
  ASSUME TypeOK, TypeOK', CommittedFits', AbsentNowhere,
         \A k \in Key : RowAdvances(k)
  PROVE  Ledger!Next
<1>1. Slots' \in [AllSlots -> Ledger!UnitState]
  <2>1. ASSUME NEW s \in AllSlots PROVE SlotState(s[1])' \in Ledger!UnitState
    BY SlotKey DEF SlotState, Exists, TypeOK, Allocation, Disposition,
       Ledger!UnitState, Ledger!Status
  <2> QED BY <2>1 DEF Slots
<1>2. ASSUME NEW s \in AllSlots
      PROVE  Ledger!Debit(s) \/ Ledger!Spend(s) \/ Ledger!Return(s)
             \/ Slots'[s] = Slots[s]
  <2> DEFINE k == s[1]
  <2>1. k \in Key /\ Slots[s] = SlotState(k) /\ Slots'[s] = SlotState(k)'
    BY SlotKey DEF Slots
  <2>2. CASE allocation'[k] = allocation[k]
    BY <2>1, <2>2 DEF SlotState, Exists
  <2>3. CASE /\ ~Exists(k)
             /\ allocation'[k].debit \in {"HELD", "SPENT"}
             /\ allocation'[k].bucket \in Bucket
    BY <2>1, <2>3 DEF SlotState, Exists, AbsentNowhere, Ledger!Debit,
       Ledger!Unasked
  <2>4. ASSUME allocation[k].debit = "HELD",
               NEW debit \in {"SPENT", "RETURNED"},
               allocation'[k] = [allocation[k] EXCEPT !.debit = debit]
        PROVE  Ledger!Spend(s) \/ Ledger!Return(s)
    BY <2>1, <2>4 DEF SlotState, Exists, TypeOK, Allocation, Ledger!Spend,
       Ledger!Return
  <2> QED BY <2>1, <2>2, <2>3, <2>4 DEF RowAdvances
<1>3. Ledger!Fits'
  BY LedgerFits, CommittedFits', PTL
<1> QED BY <1>1, <1>2, <1>3 DEF Ledger!Next

\* Concurrent reservations implement CapacityLedger.
THEOREM ImplementsLedger == Spec => KeepsLedger
<1>1. Init => Ledger!Init /\ AbsentNowhere
  BY SlotKey DEF Init, Ledger!Init, Ledger!Unasked, Slots, SlotState, Exists,
     AbsentNowhere
<1>2. Inv /\ AbsentNowhere /\ [Next]_vars => AbsentNowhere'
  BY AbsentNext
<1>3. Inv /\ AbsentNowhere /\ [Next]_vars => [Ledger!Next]_Slots
  <2> SUFFICES ASSUME Inv, AbsentNowhere, [Next]_vars
               PROVE  [Ledger!Next]_Slots
    OBVIOUS
  <2>1. TypeOK /\ TypeOK' /\ CommittedFits'
    BY InvNext DEF Inv
  <2>2. CASE UNCHANGED vars
    BY <2>2 DEF vars, Slots, SlotState, Exists
  <2>3. CASE Next
    BY <2>1, <2>3, StepAdvances, AdvancesKeepLedger
  <2> QED BY <2>2, <2>3
<1> QED BY <1>1, <1>2, <1>3, Invariance, PTL
        DEF Spec, KeepsLedger, Ledger!Spec

===============================================================================
