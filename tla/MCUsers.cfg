SPECIFICATION Spec
CONSTANTS
  s1 = s1
  s2 = s2
  i1 = i1
  g1 = g1
  p1 = p1
  c1 = c1
  c2 = c2
  Sn = {s1, s2}
  NoUser = NoUser
  StartOf <- MCStartOf
  Ip = {i1, g1}
  Port = {p1}
  Client = {c1, c2}
  AddrOf <- MCAddrOf
  Gateway = {g1}
  Reported = {i1, p1}
  MaxList = 2
INVARIANTS
  UsersTypeOK
  RightUser
  ListsAgree
PROPERTIES
  ForbidCloses
  LoginBringsPolicy
CHECK_DEADLOCK FALSE
