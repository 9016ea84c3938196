SPECIFICATION Spec
CONSTANTS
  Request = {r1, r2}
  MaxGeneration = 3
  None = None
INVARIANT TypeOK
           OldAuthorizationsDoNotLift
