---------------------------- MODULE RequirementTree ----------------------------
(***************************************************************************)
(* The hard requirements of a listing: a tree of ALL_OF and ANY_OF over    *)
(* criteria, each decided PASS, FAIL or UNKNOWN from the candidate's       *)
(* confirmed facts, its three-valued result, the satisfaction path and the *)
(* unknowns that can decide it alone.                                      *)
(***************************************************************************)
EXTENDS Integers, FiniteSets, FiniteSetsExt

CONSTANTS
  Inner,   \* operators, 0 is the root; a parent is smaller than its children
  Leaf     \* criteria; larger than the operators, in the order of the listing

Three == {"PASS", "FAIL", "UNKNOWN"}
Node  == Inner \cup Leaf

\* A tree: parents of the nodes in use, kinds of the operators.
Children(t, n) == {c \in DOMAIN t.parent : t.parent[c] = n}
Leaves(t) == DOMAIN t.parent \ Inner

\* validateRequirementTree and reconstructPersistedRequirementTree: one root, no
\* cycle, no shared or empty operator.
Trees ==
  UNION {{t \in [parent : [used -> Inner], kind : [Inner -> {"ALL_OF", "ANY_OF"}]] :
            /\ \A c \in used : t.parent[c] < c /\ (t.parent[c] = 0 \/ t.parent[c] \in used)
            /\ \A n \in (used \cap Inner) \cup {0} : Children(t, n) # {}
            /\ \A n \in Inner \ (used \cup {0}) : t.kind[n] = "ALL_OF"} :
         used \in SUBSET (Node \ {0})}

\* Fault: an alternative that is not known yet spoils one that passes.
JoinInOrder(kind, results) ==
  CASE "FAIL" \in results /\ kind = "ALL_OF" -> "FAIL"
    [] "UNKNOWN" \in results                 -> "UNKNOWN"
    [] "PASS" \in results                    -> "PASS"
    [] OTHER                                 -> "FAIL"

Join(kind, results) ==
  CASE kind = "ALL_OF" -> IF "FAIL" \in results THEN "FAIL"
                          ELSE IF results \subseteq {"PASS"} THEN "PASS" ELSE "UNKNOWN"
    [] kind = "ANY_OF" -> IF "PASS" \in results THEN "PASS"
                          ELSE IF results \subseteq {"FAIL"} THEN "FAIL" ELSE "UNKNOWN"

\* The result of every node under the decisions d on the leaves.
Results(t, d) ==
  LET result[n \in Node] ==
        IF n \in Inner THEN Join(t.kind[n], {result[c] : c \in Children(t, n)}) ELSE d[n]
  IN result
Root(t, d) == Results(t, d)[0]

\* Importance and confidence (in tenths) of a leaf; the value of an operator
\* counts all leaves of its children, for ANY_OF of the one it selects.
Importance(l) == 1 + (l % 3)
Confidence(l) == IF l % 2 = 0 THEN 10 ELSE 8
LeavesUnder(t) ==
  LET under[n \in Node] ==
        IF n \in Inner THEN UNION {under[c] : c \in Children(t, n)} ELSE {n}
  IN under
Sum(f(_), set) == MapThenSumSet(f, set)
Better(a, qa, b, qb) ==
  LET weight(q) == Sum(Importance, q)
      total(q)  == Sum(Confidence, q)
      mean      == total(qa) * Cardinality(qb) - total(qb) * Cardinality(qa)
  IN \/ weight(qa) > weight(qb)
     \/ weight(qa) = weight(qb) /\ (mean > 0 \/ (mean = 0 /\ a < b))

\* The leaves that speak for a node, and the child an ANY_OF is satisfied by.
Selection(t, d) ==
  LET results == Results(t, d)
      under   == LeavesUnder(t)
      best[n \in Node] ==
        IF n \in Leaf THEN [for |-> {n}, via |-> {n}]
        ELSE LET passing == {c \in Children(t, n) : results[c] = "PASS"}
                 chosen  == {c \in passing : \A o \in passing \ {c} :
                              Better(c, best[c].for, o, best[o].for)}
                 via == IF t.kind[n] = "ANY_OF" /\ passing # {} THEN chosen ELSE Children(t, n)
             IN [for |-> UNION {under[c] : c \in via}, via |-> via]
  IN best

\* selectedSatisfactionPath
Path(t, d) ==
  LET best == Selection(t, d)
      path[n \in Node] == IF n \in Leaf THEN {n} ELSE UNION {path[c] : c \in best[n].via}
  IN IF Root(t, d) = "PASS" THEN path[0] ELSE {}

\* outcomeDeterminativeUnknownNodeIds
Determinative(t, d) ==
  IF Root(t, d) # "UNKNOWN" THEN {}
  ELSE {l \in Leaves(t) : /\ d[l] = "UNKNOWN"
                          /\ \E r \in {"PASS", "FAIL"} : Root(t, [d EXCEPT ![l] = r]) # "UNKNOWN"}

\* The issue of an UNKNOWN tree is that of the first determinative leaf; leaves
\* that are only jointly determinative leave none, and a reviewer is asked.
Issue(t, d, issue) ==
  LET alone == Determinative(t, d)
  IN IF Root(t, d) # "UNKNOWN" THEN "NONE"
     ELSE IF alone = {} THEN "PARSER_UNCERTAIN" ELSE issue[Min(alone)]

-------------------------------------------------------------------------------
(* The reference: what the tree says of a candidate about whom all is known.  *)

Holds(t, facts) ==
  LET holds[n \in Node] ==
        CASE n \in Leaf -> n \in facts
          [] n \in Inner /\ t.kind[n] = "ALL_OF" -> \A c \in Children(t, n) : holds[c]
          [] OTHER -> \E c \in Children(t, n) : holds[c]
  IN holds[0]

\* The candidates the decisions leave possible: the criteria each satisfies.
Candidates(t, d) ==
  {facts \in SUBSET Leaves(t) :
     \A l \in Leaves(t) : (d[l] = "PASS" => l \in facts) /\ (d[l] = "FAIL" => l \notin facts)}

\* A tree passes exactly when every possible candidate satisfies it and fails
\* when none does.
ResultSound(t, d) ==
  /\ (Root(t, d) = "PASS") <=> \A facts \in Candidates(t, d) : Holds(t, facts)
  /\ (Root(t, d) = "FAIL") <=> \A facts \in Candidates(t, d) : ~Holds(t, facts)

\* The path of a tree that passes passes, and is enough whatever the rest is.
PathSound(t, d) ==
  Root(t, d) = "PASS" =>
    Path(t, d) # {} /\ Holds(t, Path(t, d)) /\ \A l \in Path(t, d) : d[l] = "PASS"

\* A leaf is called determinative exactly when one of its answers settles the tree
\* for every candidate; no answer to an unknown undoes a result.
DeterminativeSound(t, d) ==
  Determinative(t, d) =
    {l \in Leaves(t) : d[l] = "UNKNOWN" /\ Root(t, d) = "UNKNOWN" /\
       \E answer \in BOOLEAN : \E outcome \in BOOLEAN :
         \A facts \in Candidates(t, d) : (l \in facts) = answer => Holds(t, facts) = outcome}

TreeSoundFor(t, d) == ResultSound(t, d) /\ PathSound(t, d) /\ DeterminativeSound(t, d)

TreeSound == \A t \in Trees : \A d \in [Leaves(t) -> Three] : TreeSoundFor(t, d)

===============================================================================
