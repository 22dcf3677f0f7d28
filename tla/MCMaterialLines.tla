---------------------------- MODULE MCMaterialLines ----------------------------
(***************************************************************************)
(* Small instances of MaterialLines. Lines meet only in the claims of the  *)
(* matches, and the changes of a line in its revision, so the initial      *)
(* state picks one of two scenes: a line that is worked on and changed     *)
(* beside one that is only sold and settled, or one line with two          *)
(* proposals.                                                              *)
(***************************************************************************)
EXTENDS MaterialLines

CONSTANTS l1, l2, x1, x2, q1, q2

VARIABLE scene

sceneVars == <<scene, materialVars>>

SceneInit == scene \in {"LINES", "PROPOSALS"} /\ MaterialInit

SceneNext ==
  /\ UNCHANGED scene
  /\ \/ SellLine(l1) \/ SettleLine(l1) \/ WorkOnLine(l1) \/ DuePasses(l1)
     \/ ChangeLine(q1) /\ proposal'[q1].line = l1
     \/ scene = "LINES" /\ (SellLine(l2) \/ SettleLine(l2) \/ DuePasses(l2))
     \/ scene = "PROPOSALS" /\ ChangeLine(q2) /\ proposal'[q2].line = l1

SceneFairness ==
  \A l \in Line : /\ WF_sceneVars(UNCHANGED scene /\ DuePasses(l))
                 /\ WF_sceneVars(UNCHANGED scene /\ DeadlineJob(l))

SceneSpec == SceneInit /\ [][SceneNext]_sceneVars /\ SceneFairness

===============================================================================
