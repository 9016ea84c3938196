SPECIFICATION Spec
CONSTANTS
  r1 = r1  r2 = r2  tight = tight  loose = loose  unbounded = unbounded
  Request <- MCRequest
  Policy <- MCPolicy
  Expressible <- MCExpressible
  Unreadable = Unreadable
  MaxVersion = 3
  None = None
SYMMETRY Symmetry
INVARIANTS
  RunningPolicyIsCurrent

