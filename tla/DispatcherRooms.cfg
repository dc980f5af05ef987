SPECIFICATION Spec
CONSTANTS
  Users = {ann, bob, cy, dee}
  Threads = {t1, t2}
  nprocesses = 2
  MaxTotal = 1
  MaxVisits = 1
  Stray = TRUE
  NoUser = NoUser
  Free = Free
  Main = Main
SYMMETRY Symmetry
INVARIANTS TypeOK OneGrant NavailCounts TotalCovers Overbooked
