SPECIFICATION SceneSpec
CONSTANTS
  l1 = l1
  l2 = l2
  x1 = x1
  x2 = x2
  q1 = q1
  q2 = q2
  None = None
  Line = {l1, l2}
  Match = {x1, x2}
  Proposal = {q1, q2}
INVARIANT MaterialTypeOK
INVARIANT LineIsAnswered
INVARIANT ClaimFollowsLine
PROPERTY PaidLineEnds
CHECK_DEADLOCK FALSE
