SPECIFICATION AccessSpec
CONSTANTS
  Handler = {h1, h2}
  Account = {p1, p2}
  Invite = {i1, i2, i3}
  Ask = {r1, r2}
  Nobody = Nobody
  MaxRequests = 6
  Client = {a, b}
  Confidential = {a}
  Organiser = {o1, o2}
  Coordinator = {o2}
  Code = {k1}
  Token = {t1, t2, t3, t4}
  Caller = {c1, c2}
  Nil = Nil
  MaxCalls = 6
  Request = {q1, q2}
  User = {u1, u2}
  NoOne = NoOne
  Key = {x1, x2}
  Window <- MCWindow
  Allowance = 2
  SweepInterval = 2
  Guesser = {g1, g2, g3}
  MaxGuesses = 2
  GuessWindow = 2
  MaxClients = 2
  MaxNow = 4
  MaxAsked = 4
SYMMETRY MCSymmetry
INVARIANTS HostingInv OAuthInv LimitsInv
PROPERTIES AccessAsDecided GrantsActRightly GivenToRoleless
CHECK_DEADLOCK FALSE
