SPECIFICATION LiveSpec
CONSTANTS
  Users = {ann, bob, cy}
  Threads = {t1, t2}
  nprocesses = 1
  MaxTotal = 1
  MaxVisits = 1
  Stray = TRUE
  NoUser = NoUser
  Free = Free
  Main = Main
PROPERTIES WorkersComeBack RoomsComeBack
