\* Do refresh tokens rotate safely, under any clients and under the browser's?
CONSTANTS
  Request = {r1, r2}
  Token = {t1, t2, t3}
  Family = {legacy, f1, f2}
  Legacy = {legacy}
  Subject = {1, 2}
  Owner <- MCOwner
  Durable = FALSE
  None = None
  Tab = {ta, tb, tc}
  Activity = {a1, a2, b, c}
  TabOf <- MCTabOf
  CookieWorks = {TRUE, FALSE}
  MaxMishaps = 1
  MaxOthers = 1
  TabA = ta
  TabB = tb
  ActivityB = b
  ActivityC = c
  TabC = tc
  Earlier = f2
SPECIFICATION MCSpec
INVARIANTS
  OneHeir
  RevokedIsDead
  OnlyTroubleSignsOut
PROPERTIES
  EverybodyHears
CHECK_DEADLOCK FALSE
