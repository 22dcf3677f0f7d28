---------------------------- MODULE MatchSelection ----------------------------
(***************************************************************************)
(* Which of the deliverable jobs a customer receives: the listings that    *)
(* say the same are reduced to independent ones, the rest is ranked, and   *)
(* a slot may go to a near equal of the best one left, for the variety of  *)
(* employers, titles and sources.                                          *)
(*                                                                         *)
(* Jobs to select from are numbers, in the order of their ids; scores are  *)
(* integers (preference in hundredths); Missing is one that is not known.  *)
(***************************************************************************)
EXTENDS Integers, FiniteSets, Sequences

Missing == -1

-------------------------------------------------------------------------------
(* Independent listings, numbered in the order they arrive. A listing has an  *)
(* employer, a reliable requisition number, a page to apply at and a page of  *)
(* the employer (each may be Missing) and a fingerprint; it is official when  *)
(* it is active and the employer's own. The rest says how good a record it    *)
(* is: when it was verified, how complete it is, when it was first seen.      *)

Urls(job)   == {job.application, job.listing} \ {Missing}
Strong(job) == job.requisition # Missing \/ Urls(job) # {}

\* stableNormalizedJobId: the kind of the id, in the order of their names, and what
\* it is made of.
StableId(job) ==
  CASE job.requisition # Missing -> <<4, job.employer, job.requisition>>
    [] job.requisition = Missing /\ job.application # Missing -> <<1, job.application, 0>>
    [] ~Strong(job) -> <<3, job.employer, job.fingerprint>>
    [] OTHER -> <<2, job.listing, 0>>

\* duplicateEdgeReason
Duplicates(a, b) ==
  \/ a.employer = b.employer /\ a.requisition # Missing /\ a.requisition = b.requisition
  \/ Urls(a) \cap Urls(b) # {}
  \/ (~Strong(a) \/ ~Strong(b)) /\ a.fingerprint = b.fingerprint

\* The first place where two sequences of one length differ decides.
Precedes(a, b) ==
  \E n \in DOMAIN a : a[n] < b[n] /\ \A m \in DOMAIN a : m < n => a[m] = b[m]

\* compareRecordQuality: identifiers, the official source, the scores, then the id.
Quality(job) ==
  LET id == StableId(job)
  IN <<IF Strong(job) THEN 0 ELSE 1, IF job.official THEN 0 ELSE 1,
       -job.verified, -job.complete, -job.seen, id[1], id[2], id[3]>>
BetterRecord(a, b) == Precedes(Quality(a), Quality(b))

\* One listing for every id, the first to arrive whatever its quality.
FirstArrivals(jobs) ==
  {i \in DOMAIN jobs :
     \A j \in DOMAIN jobs : j < i => StableId(jobs[j]) # StableId(jobs[i])}

\* Of these the best one left is kept unless it doubles one that was kept.
Independent(jobs, records) ==
  LET kept[rest \in SUBSET records] ==   \* of the records outside rest
        IF rest = records THEN {}
        ELSE LET last   == CHOOSE i \in records \ rest :
                             \A j \in (records \ rest) \ {i} : BetterRecord(jobs[j], jobs[i])
                 before == kept[rest \cup {last}]
             IN IF \E k \in before : Duplicates(jobs[last], jobs[k])
                THEN before ELSE before \cup {last}
  IN kept[{}]

\* selectIndependentInventory
IndependentInventory(jobs) == Independent(jobs, FirstArrivals(jobs))

-------------------------------------------------------------------------------
(* Rank and bounded diversity.                                                *)

\* baseCompare; jobs of one confidence label and score, and of one date, go by id.
RanksBefore(jobs, i, j) ==
  LET a == jobs[i]
      b == jobs[j]
  IN \/ a.fit > b.fit
     \/ a.fit = b.fit /\ a.preference > b.preference
     \/ a.fit = b.fit /\ a.preference = b.preference /\ a.label > b.label
     \/ a.fit = b.fit /\ a.preference = b.preference /\ a.label = b.label /\ i < j

\* The jobs that may take the slot of the best one left.
NearEquals(jobs, anchor, rest, preferences) ==
  {i \in rest : /\ jobs[anchor].fit - jobs[i].fit <= 5
                /\ jobs[i].label >= jobs[anchor].label
                /\ preferences => /\ jobs[anchor].preference # Missing /\ jobs[i].preference # Missing
                                  /\ jobs[anchor].preference - jobs[i].preference <= 5}

\* How often the employer, the title, then the source, of a job have been taken; jobs
\* that are alike in this go by id.
Crowded(jobs, i, selected) ==
  <<Cardinality({s \in selected : jobs[s].employer = jobs[i].employer}),
    Cardinality({s \in selected : jobs[s].family = jobs[i].family}),
    Cardinality({s \in selected : jobs[s].source = jobs[i].source})>>
LessCrowded(jobs, i, j, selected) ==
  LET a == Crowded(jobs, i, selected)
      b == Crowded(jobs, j, selected)
  IN Precedes(<<a[1], a[2], a[3], i>>, <<b[1], b[2], b[3], j>>)

\* selectWithBoundedDiversity: the jobs in the order they are selected, each with
\* the anchor whose slot it took.
BoundedDiversity(jobs, count) ==
  LET preferences == \E i \in DOMAIN jobs : jobs[i].preference # Missing
      taken(slots)  == {slots[k].job : k \in DOMAIN slots}
      slots[n \in 0..count] ==
        IF n = 0 THEN <<>>
        ELSE LET before == slots[n - 1]
                 rest   == DOMAIN jobs \ taken(before)
                 anchor == CHOOSE i \in rest : \A j \in rest \ {i} : RanksBefore(jobs, i, j)
                 near   == NearEquals(jobs, anchor, rest, preferences)
                 chosen == IF near = {} THEN anchor
                           ELSE CHOOSE i \in near : \A j \in near \ {i} :
                                  LessCrowded(jobs, i, j, taken(before))
             IN IF rest = {} THEN before ELSE Append(before, [job |-> chosen, anchor |-> anchor])
  IN slots[count]

-------------------------------------------------------------------------------
(* Properties, over bounded inputs: three listings; three jobs for two slots.   *)

Record ==
  {job \in [employer : 1..2, requisition : {Missing, 1}, application : {Missing, 1},
            listing : {Missing, 1, 2}, fingerprint : 1..3, official : BOOLEAN,
            verified : {0}, complete : {0}, seen : {0}] :
     /\ job.official => job.application # Missing /\ job.employer = 1
     /\ job.application = 1 => job.listing # 1
     /\ job.employer = 2 <=> job.fingerprint = 3}

\* No two listings of the inventory double each other, and none is given up for
\* nothing: the first to arrive under its id is kept, or doubles one that is kept
\* and is the better record. (The first, not the best: a later record of one id is
\* dropped even where it is the official one.)
InventoryHolds(jobs) ==
  LET kept == IndependentInventory(jobs)
  IN /\ \A i, j \in kept : i # j => ~Duplicates(jobs[i], jobs[j])
     /\ \A i \in DOMAIN jobs : \E f \in FirstArrivals(jobs) :
          /\ f <= i /\ StableId(jobs[f]) = StableId(jobs[i])
          /\ \/ f \in kept
             \/ \E k \in kept : /\ Duplicates(jobs[f], jobs[k])
                                /\ BetterRecord(jobs[k], jobs[f])

\* The same listings are kept in whatever order p they arrive, as long as those of
\* one id keep theirs.
OrderHolds(jobs, p) ==
  LET moved == [i \in DOMAIN jobs |-> jobs[p[i]]]
      kept  == IndependentInventory(jobs)
  IN (\A i, j \in DOMAIN jobs : i < j /\ StableId(moved[i]) = StableId(moved[j]) => p[i] < p[j])
       => IndependentInventory(moved) = {i \in DOMAIN jobs : p[i] \in kept}

\* Two neighbours change places: enough of these make every order.
Swaps == {<<2, 1, 3>>, <<1, 3, 2>>}

InventorySound ==
  \A jobs \in [1..3 -> Record] :
    InventoryHolds(jobs) /\ \A p \in Swaps : OrderHolds(jobs, p)

Ranked ==
  [fit : {0, 4, 8}, preference : {Missing, 0, 8}, label : {0, 2}, employer : 1..2,
   family : {1}, source : {1}]

\* A selection fills the slots it can, with no job twice. Whoever is passed over in
\* favour of a later rank is at most five points fitter than the one selected, has
\* no better confidence label or is not the best one left, and is not from a less
\* crowded employer; a job nobody comes near to keeps its slot.
SlotHolds(jobs, slots, k) ==
  LET before == {slots[m].job : m \in 1..(k - 1)}
      job    == jobs[slots[k].job]
      best   == jobs[slots[k].anchor]
  IN /\ \A i \in DOMAIN jobs \ before :
          /\ jobs[i].fit - job.fit <= 5
          /\ (\A j \in DOMAIN jobs \ before : j # i => jobs[i].fit - jobs[j].fit > 5)
               => slots[k].job = i
     /\ job.label >= best.label
     /\ best.preference # Missing => best.preference - job.preference <= 5
     /\ Crowded(jobs, slots[k].job, before)[1] <= Crowded(jobs, slots[k].anchor, before)[1]

SelectionHolds(jobs, count) ==
  LET slots == BoundedDiversity(jobs, count)
      taken == {slots[k].job : k \in 1..count}
  IN /\ Len(slots) = count /\ Cardinality(taken) = count
     /\ \A k \in 1..count : SlotHolds(jobs, slots, k)

SelectionSound == \A jobs \in [1..3 -> Ranked] : SelectionHolds(jobs, 2)

===============================================================================
