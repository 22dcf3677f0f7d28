--------------------------- MODULE CapacityReserve ---------------------------
(***************************************************************************)
(* Concurrent calls of ap_reserve_capacity on one pool, statement by       *)
(* statement.  Each call is made by a transaction of its own, which reads  *)
(* at every statement the rows committed by then (READ COMMITTED), may     *)
(* have to wait for the pool row, and holds it until it commits or rolls   *)
(* back.  Holds are spent and returned by transactions that do not take    *)
(* the pool row.                                                           *)
(***************************************************************************)
EXTENDS Naturals, FiniteSets

CONSTANTS
  Caller,       \* transactions calling the function
  Key,          \* request keys
  KeyOf,        \* the key a caller passes; callers may share one
  UnitsOf,      \* the units asked for under a key
  Bucket,       \* the pool's buckets, numbered in time; gaps have no units
  TotalOf,      \* total_units of a bucket
  None

ASSUME ReserveAssumption ==
  /\ KeyOf \in [Caller -> Key]
  /\ IsFiniteSet(Key)
  /\ UnitsOf \in [Key -> Nat \ {0}]
  /\ Bucket \subseteq Nat
  /\ TotalOf \in [Bucket -> Nat]
  /\ None \notin Caller
  /\ None \notin Bucket

VARIABLES
  allocation,   \* the committed ap_capacity_allocations row of a key
  open,         \* the bucket that covers the present: buckets never overlap
  pool,         \* the caller that holds the pool row
  pending,      \* the bucket of the row a caller inserted and not committed
  pc            \* where a caller is

vars == <<allocation, open, pool, pending, pc>>

Disposition == {"ABSENT", "HELD", "SPENT", "RETURNED"}
Allocation  == [debit : Disposition, bucket : Bucket \cup {None}]
Steps       == {"CALL", "LOCK", "RECHECK", "PICK", "INSERTED", "ANSWERED",
                "FAILED"}

Exists(k) == allocation[k].debit # "ABSENT"

\* The units a key's allocation debits.
UnitSlots(k) == {k} \X (1 .. UnitsOf[k])

Debited(b) == {k \in Key : /\ allocation[k].bucket = b
                           /\ allocation[k].debit \in {"HELD", "SPENT"}}

UsedUnits(b) == UNION {UnitSlots(k) : k \in Debited(b)}

Room(b, k) == Cardinality(UsedUnits(b)) + UnitsOf[k] <= TotalOf[b]

Goto(c, step) == pc' = [pc EXCEPT ![c] = step]

\* Fault: the lock outlives the transaction.
EndsLocked(c, step) == Goto(c, step) /\ UNCHANGED pool

\* The transaction ends and lets go of the pool row if it holds it.
EndsWith(c, step) ==
  /\ Goto(c, step)
  /\ pool' = IF pool = c THEN None ELSE pool

-------------------------------------------------------------------------------
\* Look the key up before waiting for the pool.
LookUp(c) ==
  /\ pc[c] = "CALL"
  /\ Goto(c, IF Exists(KeyOf[c]) THEN "ANSWERED" ELSE "LOCK")
  /\ UNCHANGED <<allocation, open, pool, pending>>

\* Fault: the pool row is read without waiting for it.
LockPoolNoWait(c) ==
  /\ pc[c] = "LOCK"
  /\ pool' = c
  /\ Goto(c, "RECHECK")
  /\ UNCHANGED <<allocation, open, pending>>

LockPool(c) ==
  /\ pc[c] = "LOCK"
  /\ pool = None
  /\ pool' = c
  /\ Goto(c, "RECHECK")
  /\ UNCHANGED <<allocation, open, pending>>

\* Fault: the key is not looked up a second time.
NoLookUpAgain(c) ==
  /\ pc[c] = "RECHECK"
  /\ Goto(c, "PICK")
  /\ UNCHANGED <<allocation, open, pool, pending>>

\* A concurrent first request may have committed while this one waited.
LookUpAgain(c) ==
  /\ pc[c] = "RECHECK"
  /\ IF Exists(KeyOf[c])
       THEN EndsWith(c, "ANSWERED")
       ELSE Goto(c, "PICK") /\ UNCHANGED pool
  /\ UNCHANGED <<allocation, open, pending>>

Insert(c) ==
  /\ pc[c] = "PICK"
  /\ Room(open, KeyOf[c])
  /\ pending' = [pending EXCEPT ![c] = open]
  /\ Goto(c, "INSERTED")
  /\ UNCHANGED <<allocation, open, pool>>

Unavailable(c) ==
  /\ pc[c] = "PICK"
  /\ ~Room(open, KeyOf[c])
  /\ EndsWith(c, "FAILED")
  /\ UNCHANGED <<allocation, open, pending>>

\* The calling function goes on and commits: a checkout leaves the unit held, a
\* payment that reserved late spends it at once.
Commit(c) ==
  /\ pc[c] = "INSERTED"
  /\ \E debit \in {"HELD", "SPENT"} :
       allocation' = [allocation EXCEPT ![KeyOf[c]] =
                        [debit |-> debit, bucket |-> pending[c]]]
  /\ pending' = [pending EXCEPT ![c] = None]
  /\ EndsWith(c, "ANSWERED")
  /\ UNCHANGED open

\* It raises, or its connection is lost, at any point of the call.
Rollback(c) ==
  /\ pc[c] \in {"CALL", "LOCK", "RECHECK", "PICK", "INSERTED"}
  /\ pending' = [pending EXCEPT ![c] = None]
  /\ EndsWith(c, "FAILED")
  /\ UNCHANGED <<allocation, open>>

\* A failed request is sent again, and a request answered may be too.
Again(c) ==
  /\ pc[c] \in {"ANSWERED", "FAILED"}
  /\ Goto(c, "CALL")
  /\ UNCHANGED <<allocation, open, pool, pending>>

-------------------------------------------------------------------------------
\* Fault: the lifecycle is written where the debit state belongs.
SpendAsConsumed(k) ==
  /\ allocation[k].debit = "HELD"
  /\ allocation' = [allocation EXCEPT ![k].debit = "CONSUMED"]
  /\ UNCHANGED <<open, pool, pending, pc>>

\* ap_guard_state_transition: a hold is spent or returned, once.
Spend(k) ==
  /\ allocation[k].debit = "HELD"
  /\ allocation' = [allocation EXCEPT ![k].debit = "SPENT"]
  /\ UNCHANGED <<open, pool, pending, pc>>

Return(k) ==
  /\ allocation[k].debit = "HELD"
  /\ allocation' = [allocation EXCEPT ![k].debit = "RETURNED"]
  /\ UNCHANGED <<open, pool, pending, pc>>

\* Time passes.
NextBucket ==
  /\ \E b \in Bucket : b > open /\ open' = b
  /\ UNCHANGED <<allocation, pool, pending, pc>>

Init ==
  /\ allocation = [k \in Key |-> [debit |-> "ABSENT", bucket |-> None]]
  /\ open \in Bucket
  /\ pool = None
  /\ pending = [c \in Caller |-> None]
  /\ pc = [c \in Caller |-> "CALL"]

CallerStep(c) ==
  \/ LookUp(c)
  \/ LockPool(c)
  \/ LookUpAgain(c)
  \/ Insert(c)
  \/ Unavailable(c)
  \/ Commit(c)
  \/ Rollback(c)
  \/ Again(c)

Next ==
  \/ \E c \in Caller : CallerStep(c)
  \/ \E k \in Key : Spend(k) \/ Return(k)
  \/ NextBucket

Spec == Init /\ [][Next]_vars

\* A call in progress goes on, and the pool row is granted in turn.
Fairness ==
  \A c \in Caller :
    /\ WF_vars(LookUp(c) \/ LookUpAgain(c) \/ Insert(c) \/ Unavailable(c)
               \/ Commit(c))
    /\ SF_vars(LockPool(c))

FairSpec == Spec /\ Fairness

-------------------------------------------------------------------------------
\* Types of the state variables.
TypeOK ==
  /\ allocation \in [Key -> Allocation]
  /\ open \in Bucket
  /\ pool \in Caller \cup {None}
  /\ pending \in [Caller -> Bucket \cup {None}]
  /\ pc \in [Caller -> Steps]

\* A caller past the lock holds the pool row, and a row it is about to insert
\* under its key is not there yet.
PoolIsHeld ==
  \A c \in Caller :
    /\ pc[c] \in {"RECHECK", "PICK", "INSERTED"} => pool = c
    /\ pc[c] \in {"PICK", "INSERTED"} => ~Exists(KeyOf[c])

\* A row inserted and not yet committed still fits its bucket, whatever the
\* other transactions have done since: the check stays true until the commit.
PendingFits ==
  \A c \in Caller : pc[c] = "INSERTED" =>
    pending[c] \in Bucket /\ Room(pending[c], KeyOf[c])

\* The committed rows fit their buckets.
CommittedFits == \A b \in Bucket : Cardinality(UsedUnits(b)) <= TotalOf[b]

\* A call waiting for the pool row gets it, or gives up.
WaitEnds == \A c \in Caller : pc[c] = "LOCK" ~> pc[c] # "LOCK"

\* A call implements the ledger, a slot being one unit of a key's allocation.
AllSlots == UNION {UnitSlots(k) : k \in Key}

SlotState(k) ==
  [status |-> IF Exists(k) THEN allocation[k].debit ELSE "FREE",
   bucket |-> allocation[k].bucket]

Slots == [s \in AllSlots |-> SlotState(s[1])]

Ledger == INSTANCE CapacityLedger WITH
  Slot  <- AllSlots,
  Total <- TotalOf,
  unit  <- Slots

\* No bucket is oversold and no allocation debited twice or moved, although the
\* lookup, the pool row, the count and the insert are separate statements.
KeepsLedger == Ledger!Spec
===============================================================================
