\* Two requests, two users, a password that changes, a key that is rotated.
SPECIFICATION FairSpec
CONSTANTS
  Requests = {r1, r2}
  Users = {u1, u2}
  Emails = {e1, e2}
  Passwords = {p1, p2}
  Keys = {k1, k2, none}
  NoKey = none
  Nobody = nobody
  NoToken = notoken
  TokenLife = 1
  MaxClock = 2
  MaxWrites = 2
INVARIANTS
  RightAtSomeMoment
PROPERTY
  Answered
CHECK_DEADLOCK FALSE
