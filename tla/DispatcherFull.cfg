SPECIFICATION Spec
CONSTANTS
  Users = {ann, bob}
  Threads = {t1, t2}
  nprocesses = 1
  MaxTotal = 2
  MaxVisits = 2
  Stray = FALSE
  NoUser = NoUser
  Free = Free
  Main = Main
SYMMETRY Symmetry
PROPERTIES FullMeansFull
