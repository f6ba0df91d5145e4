SPECIFICATION MCSpec
CONSTANTS
  Tournaments = {t1, t2}
  Managed = {t1}
  Roles = {r1, r2, r3}
  NewRole = r3
  Users = {u1, u2}
  Ranks = {k1, k2}
  Guilds = {g1, g2}
  Codes = {code}
  Servers = {s1, s2}
  Options = {"7d", "1d"}
  Nil = Nil
  MaxJobs = 3
INVARIANTS
  PageIsCurrent
  FormGoesHome
  EditorNotBlank
  NoIdleSpinner
  RowsAreCurrent
  
PROPERTIES
  OthersWorkSurvives
CHECK_DEADLOCK FALSE
