SPECIFICATION Spec
CONSTANTS
  Names = {n1}
  Emails = {e1, e2}
  Passwords = {p1}
  Empty = Empty
  Nobody = Nobody
  NoProfile = NoProfile
  MaxAttempts = 2
INVARIANTS TypeOK FormGate PictureOfProfileStored ProfileOwner HUDFollowsAttempts
