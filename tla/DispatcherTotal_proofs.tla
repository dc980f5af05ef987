------------------------ MODULE DispatcherTotal_proofs ------------------------
(***************************************************************************)
(* total never falls behind, for any number of users, workers and rooms:   *)
(* it counts every member, every connection on its way to the room and     *)
(* every departure still to be reported.  The argument is that the one     *)
(* worker inside its critical section is the only one who has passed a     *)
(* user on without counting him (TotalInv).  From it follows how far a     *)
(* room can be overbooked although total is read without the lock: those   *)
(* who have seen a seat free and those on their way share the seats with   *)
(* the members (SeatInv).                                                  *)
(***************************************************************************)
EXTENDS Dispatcher_proofs

\* The departures of room r on their way to the main thread.
Quits(r) == Cardinality({i \in DOMAIN up[r] : up[r][i] = "Q"})

\* Whom total has to cover.
Owed(r) == Cardinality(members[r]) + Len(down[r]) + stale[r] + Quits(r)

\* One who was passed to r and is not in total yet.
Uncounted(r) == IF \E t \in Threads : at[t] \in Critical /\ room[t] = r THEN 1 ELSE 0

TotalInv == \A r \in Rooms : Owed(r) <= total[r] + Uncounted(r)

----------------------------------------------------------------------------
\* There are finitely many of them.
LEMMA QuitsFinite ==
  ASSUME TypeOK, NEW r \in Rooms
  PROVE  IsFiniteSet({i \in DOMAIN up[r] : up[r][i] = "Q"}) /\ Quits(r) \in Nat
<1>1. up[r] \in Seq({"E", "Q"})
  BY DEF TypeOK, RoomsType
<1>2. DOMAIN up[r] = 1..Len(up[r]) /\ Len(up[r]) \in Nat
  BY <1>1
<1>3. IsFiniteSet(1..Len(up[r]))
  <2>1. 1 \in Int /\ Len(up[r]) \in Int
    BY <1>2
  <2> QED
    BY <2>1, FS_Interval
<1>4. IsFiniteSet({i \in DOMAIN up[r] : up[r][i] = "Q"})
  BY <1>2, <1>3, FS_Subset
<1> QED
  BY <1>4, FS_CardinalityType DEF Quits

\* What TotalInv adds up are numbers.
LEMMA OwedTypes ==
  ASSUME TypeOK, NEW r \in Rooms
  PROVE  /\ Cardinality(members[r]) \in Nat /\ Len(down[r]) \in Nat
         /\ stale[r] \in Nat /\ Quits(r) \in Nat
         /\ Owed(r) \in Nat /\ total[r] \in Int /\ Uncounted(r) \in {0, 1}
<1>1. Cardinality(members[r]) \in Nat
  <2>1. members[r] \subseteq Users
    BY DEF TypeOK, RoomsType
  <2> QED
    BY <2>1, DispatcherAssumption, FS_Subset, FS_CardinalityType
<1>2. Len(down[r]) \in Nat /\ stale[r] \in Nat /\ total[r] \in Int
  BY DEF TypeOK, RoomsType, TableType
<1>3. Quits(r) \in Nat
  BY QuitsFinite
<1>4. Uncounted(r) \in {0, 1}
  BY DEF Uncounted
<1> QED
  BY <1>1, <1>2, <1>3, <1>4 DEF Owed

\* A room that nothing was done to.
LEMMA OwedKept ==
  ASSUME NEW r \in Rooms, members'[r] = members[r], down'[r] = down[r],
         stale'[r] = stale[r], Quits(r)' = Quits(r)
  PROVE  Owed(r)' = Owed(r)
BY DEF Owed

\* A report put into a pipe.
LEMMA QuitsGrow ==
  ASSUME TypeOK, NEW r \in Rooms, NEW rc \in {"E", "Q"},
         up' = [up EXCEPT ![r] = Append(@, rc)]
  PROVE  /\ Quits(r)' <= Quits(r) + (IF rc = "Q" THEN 1 ELSE 0)
         /\ Quits(r)' \in Nat
         /\ \A q \in Rooms \ {r} : Quits(q)' = Quits(q)
<1>1. /\ up[r] \in Seq({"E", "Q"}) /\ up'[r] = Append(up[r], rc)
      /\ \A q \in Rooms \ {r} : up'[q] = up[q]
  BY DEF TypeOK, RoomsType
<1> DEFINE old  == {i \in DOMAIN up[r] : up[r][i] = "Q"}
           new  == {i \in DOMAIN up'[r] : up'[r][i] = "Q"}
           last == Len(up[r]) + 1
<1>2. /\ DOMAIN up'[r] = DOMAIN up[r] \cup {last} /\ up'[r][last] = rc
      /\ \A i \in DOMAIN up[r] : up'[r][i] = up[r][i]
  BY <1>1
<1>3. IsFiniteSet(old) /\ Cardinality(old) \in Nat
  BY QuitsFinite DEF Quits
<1>4. Quits(r) = Cardinality(old) /\ Quits(r)' = Cardinality(new)
  BY DEF Quits
<1>7. \A q \in Rooms \ {r} : Quits(q)' = Quits(q)
  BY <1>1 DEF Quits
<1>5. CASE rc = "Q"
  <2>1. new \in SUBSET (old \cup {last})
    BY <1>2
  <2>2. /\ IsFiniteSet(old \cup {last})
        /\ Cardinality(old \cup {last}) <= Cardinality(old) + 1
        /\ Cardinality(old \cup {last}) \in Nat
    <3> HIDE DEF old, last
    <3>1. /\ IsFiniteSet(old \cup {last})
          /\ Cardinality(old \cup {last}) =
               IF last \in old THEN Cardinality(old) ELSE Cardinality(old) + 1
      BY <1>3, FS_AddElement
    <3> QED
      BY <1>3, <3>1
  <2>3. Cardinality(new) <= Cardinality(old \cup {last}) /\ Cardinality(new) \in Nat
    <3> HIDE DEF old, last, new
    <3> QED
      BY <2>1, <2>2, FS_Subset, FS_CardinalityType
  <2>4. Cardinality(new) <= Cardinality(old) + 1
    <3> HIDE DEF old, last, new
    <3> QED
      BY <1>3, <2>2, <2>3
  <2> HIDE DEF old, new, last
  <2> QED
    BY <1>4, <1>5, <1>7, <2>3, <2>4
<1>6. CASE rc = "E"
  <2>1. new \in SUBSET old
    BY <1>2, <1>6
  <2>2. Cardinality(new) <= Cardinality(old) /\ Cardinality(new) \in Nat
    <3> HIDE DEF old, new
    <3> QED
      BY <1>3, <2>1, FS_Subset, FS_CardinalityType
  <2> HIDE DEF old, new
  <2> QED
    BY <1>3, <1>4, <1>6, <1>7, <2>2
<1> QED
  BY <1>5, <1>6

\* A report taken out of one.
LEMMA QuitsShrink ==
  ASSUME TypeOK, NEW r \in Rooms, NEW rc \in {"E", "Q"}, Report(r, rc)
  PROVE  /\ Quits(r)' <= Quits(r) - (IF rc = "Q" THEN 1 ELSE 0)
         /\ Quits(r)' \in Nat
         /\ \A q \in Rooms \ {r} : Quits(q)' = Quits(q)
<1>1. /\ up[r] \in Seq({"E", "Q"}) /\ up[r] # << >> /\ up'[r] = Tail(up[r])
      /\ Head(up[r]) = rc /\ \A q \in Rooms \ {r} : up'[q] = up[q]
  BY DEF TypeOK, RoomsType, Report
<1>2. /\ Len(up[r]) \in Nat \ {0} /\ DOMAIN up[r] = 1..Len(up[r]) /\ up[r][1] = rc
      /\ DOMAIN up'[r] = 1..Len(up[r]) - 1
      /\ \A i \in 1..Len(up[r]) - 1 : i + 1 \in 1..Len(up[r]) /\ up'[r][i] = up[r][i + 1]
  BY <1>1, HeadAndTail
<1> DEFINE old == {i \in DOMAIN up[r] : up[r][i] = "Q"}
           new == {i \in DOMAIN up'[r] : up'[r][i] = "Q"}
           f   == [i \in new |-> i + 1]
<1>3. IsFiniteSet(old) /\ Cardinality(old) \in Nat
  BY QuitsFinite DEF Quits
<1>4. Quits(r) = Cardinality(old) /\ Quits(r)' = Cardinality(new)
  BY DEF Quits
<1>5. /\ IsFiniteSet(old \ {1})
      /\ Cardinality(old \ {1}) = Cardinality(old) - (IF rc = "Q" THEN 1 ELSE 0)
  <2>1. 1 \in old <=> rc = "Q"
    BY <1>2
  <2> HIDE DEF old
  <2> QED
    BY <1>3, <2>1, FS_RemoveElement
<1>6. f \in Injection(new, old \ {1})
  <2>1. \A i \in new : i \in Nat \ {0} /\ i + 1 \in old \ {1}
    BY <1>2
  <2>2. f \in [new -> old \ {1}]
    BY <2>1
  <2>3. \A i, j \in new : f[i] = f[j] => i = j
    BY <2>1
  <2> QED
    BY <2>2, <2>3 DEF Injection, IsInjective
<1>7. Cardinality(new) <= Cardinality(old \ {1}) /\ Cardinality(new) \in Nat
  <2> HIDE DEF old, new, f
  <2> QED
    BY <1>5, <1>6, FS_Injection, FS_CardinalityType
<1>8. \A q \in Rooms \ {r} : Quits(q)' = Quits(q)
  BY <1>1 DEF Quits
<1> HIDE DEF old, new, f
<1> QED
  BY <1>3, <1>4, <1>5, <1>7, <1>8

----------------------------------------------------------------------------
\* No worker goes into its critical section, leaves it, or changes its room there.
CriticalKept ==
  \A t \in Threads : /\ at'[t] \in Critical <=> at[t] \in Critical
                     /\ at[t] \in Critical => room'[t] = room[t]

\* A step that does not touch what is added up.
LEMMA TotalFrame ==
  ASSUME TotalInv, CriticalKept, UNCHANGED <<total, pipes, members, stale>>
  PROVE  TotalInv'
BY DEF TotalInv, CriticalKept, Owed, Quits, Uncounted, pipes

\* Where no worker is critical, nobody is uncounted.
LEMMA NobodyUncounted ==
  ASSUME \A t \in Threads : at[t] \notin Critical, NEW r \in Rooms
  PROVE  Uncounted(r) = 0
BY DEF Uncounted

\* A worker passes a user on: he is uncounted now.
LEMMA PassOnTotal ==
  ASSUME TypeOK, TotalInv, NEW t \in Threads, NEW r \in Rooms, NEW cmd \in {"C", "J"},
         NEW place \in Critical, user[t] \in Users, Unlocked, PassOn(t, r, cmd),
         Goes(t, place), room'[t] = r, UNCHANGED <<total, up, members, stale>>
  PROVE  TotalInv'
<1>1. \A other \in Threads : at[other] \notin Critical
  BY DispatcherAssumption DEF TypeOK, LockType, Unlocked
<1>2. at'[t] \in Critical
  BY DEF Goes, TypeOK, WorkersType
<1>3. Uncounted(r)' = 1
  BY <1>2 DEF Uncounted
<1>4. Len(down'[r]) = Len(down[r]) + 1
  BY DEF PassOn, TypeOK, RoomsType
<1>5. \A q \in Rooms \ {r} : down'[q] = down[q]
  BY DEF PassOn, TypeOK, RoomsType
<1> SUFFICES ASSUME NEW q \in Rooms PROVE (Owed(q) <= total[q] + Uncounted(q))'
  BY DEF TotalInv
<1>6. Owed(q) <= total[q]
  BY <1>1, NobodyUncounted, OwedTypes DEF TotalInv, Owed
<1>7. Uncounted(q)' \in {0, 1} /\ UNCHANGED <<total, members, stale>> /\ Quits(q)' = Quits(q)
  BY DEF Uncounted, Quits
<1>8. CASE q = r
  <2>1. Quits(r)' = Quits(r) /\ members'[r] = members[r] /\ stale'[r] = stale[r]
    BY DEF Quits
  <2>2. /\ Owed(r)  = Cardinality(members[r]) + Len(down[r]) + stale[r] + Quits(r)
        /\ Owed(r)' = Cardinality(members'[r]) + Len(down'[r]) + stale'[r] + Quits(r)'
    BY DEF Owed
  <2>3. /\ Cardinality(members[r]) \in Nat /\ Len(down[r]) \in Nat
        /\ stale[r] \in Nat /\ Quits(r) \in Nat /\ Owed(r) \in Nat
    BY OwedTypes
  <2>4. Owed(r)' = Owed(r) + 1
    BY <1>4, <2>1, <2>2, <2>3
  <2> QED
    BY <1>3, <1>6, <1>7, <1>8, <2>4, OwedTypes
<1>9. CASE q # r
  <2>1. Owed(q)' = Owed(q)
    BY <1>5, <1>7, <1>9 DEF Owed
  <2> QED
    BY <1>6, <1>7, <2>1, OwedTypes DEF Owed
<1> QED
  BY <1>8, <1>9

\* A worker counts him, and is the only one who had one to count.
LEMMA CountTotal ==
  ASSUME TypeOK, TotalInv, NEW t \in Threads, at[t] \in Critical, Goes(t, "accept"),
         total' = [total EXCEPT ![room[t]] = @ + 1],
         UNCHANGED <<room, pipes, members, stale>>
  PROVE  TotalInv'
<1>1. room[t] \in Rooms /\ total \in [Rooms -> Int]
  BY DEF TypeOK, WorkersType, TableType
<1>2. \A other \in Threads : other # t => at[other] \notin Critical
  BY DEF TypeOK, LockType
<1>3. \A other \in Threads : at'[other] \notin Critical
  BY <1>2 DEF Goes, TypeOK, WorkersType, Critical
<1> SUFFICES ASSUME NEW q \in Rooms PROVE (Owed(q) <= total[q] + Uncounted(q))'
  BY DEF TotalInv
<1>4. Uncounted(q)' = 0
  BY <1>3 DEF Uncounted
<1>5. Owed(q)' = Owed(q)
  BY DEF Owed, Quits, pipes
<1>6. Owed(q) <= total[q] + Uncounted(q)
  BY DEF TotalInv
<1>7. CASE q = room[t]
  <2>1. total'[q] = total[q] + 1
    BY <1>1, <1>7
  <2> QED
    BY <1>4, <1>5, <1>6, <2>1, OwedTypes
<1>8. CASE q # room[t]
  <2>1. Uncounted(q) = 0
    BY <1>2, <1>8 DEF Uncounted
  <2>2. total'[q] = total[q]
    BY <1>1, <1>8
  <2> QED
    BY <1>4, <1>5, <1>6, <2>1, <2>2
<1> QED
  BY <1>7, <1>8

\* The workers.
LEMMA WorkerTotal ==
  ASSUME TypeOK, TotalInv, NEW t \in Threads, Worker(t)
  PROVE  TotalInv'
<1>1. /\ at \in [Threads -> Places] /\ room \in [Threads -> Rooms \cup {0}]
      /\ at[t] # "accept" => user[t] \in Users
      /\ at[t] = "lockJoin" => room[t] \in Rooms
  BY DEF TypeOK, WorkersType
<1> DEFINE Quiet == CriticalKept /\ UNCHANGED <<total, pipes, members, stale>>
<1>2. ASSUME NEW u \in Users, Accept(t, u) PROVE Quiet
  BY <1>1, <1>2 DEF Accept, Goes, CriticalKept, Critical, table, rooms
<1>3. ASSUME NEW r \in Rooms, ReadJoin(t, r) PROVE Quiet
  BY <1>1, <1>3 DEF ReadJoin, Goes, CriticalKept, Critical, table, rooms
<1>4. ASSUME ReadCreate(t) \/ ReadClosed(t) \/ TestAvail(t) \/ FindNone(t) \/ AnswerNoRoom(t)
      PROVE  Quiet
  BY <1>1, <1>4 DEF ReadCreate, ReadClosed, TestAvail, FindNone, AnswerNoRoom, Goes,
                    CriticalKept, Critical, table, rooms
<1>5. ASSUME LookUp(t) \/ AnswerNone(t) \/ TestFull(t) \/ AnswerFull(t) PROVE Quiet
  BY <1>1, <1>5 DEF LookUp, AnswerNone, TestFull, AnswerFull, Goes, CriticalKept, Critical,
                    table, rooms
<1>6. ASSUME Occupy(t) \/ AnswerJoin(t) \/ PassFails(t) PROVE Quiet
  BY <1>1, <1>6 DEF Occupy, AnswerJoin, PassFails, Goes, CriticalKept, Critical, table, rooms
<1>7. CASE PassCreate(t)
  <2>1. PICK r \in Rooms : /\ room' = [room EXCEPT ![t] = r] /\ PassOn(t, r, "C")
    BY <1>7 DEF PassCreate
  <2>2. /\ Goes(t, "occupy") /\ Unlocked /\ at[t] = "lockCreate"
        /\ UNCHANGED <<total, up, members, stale>>
    BY <1>7 DEF PassCreate, table, rooms
  <2>3. room'[t] = r /\ "occupy" \in Critical
    BY <1>1, <2>1 DEF Critical
  <2> QED
    BY <1>1, <2>1, <2>2, <2>3, PassOnTotal
<1>8. CASE PassJoin(t)
  <2>1. /\ PassOn(t, room[t], "J") /\ Goes(t, "answerJoin") /\ Unlocked /\ at[t] = "lockJoin"
        /\ UNCHANGED <<room, total, up, members, stale>>
    BY <1>8 DEF PassJoin, table, rooms
  <2> QED
    BY <1>1, <2>1, PassOnTotal DEF Critical
<1>9. CASE CountCreate(t) \/ CountJoin(t)
  <2>1. /\ at[t] \in Critical /\ Goes(t, "accept")
        /\ total' = [total EXCEPT ![room[t]] = @ + 1]
        /\ UNCHANGED <<room, pipes, members, stale>>
    BY <1>9 DEF CountCreate, CountJoin, Critical, rooms
  <2> QED
    BY <2>1, CountTotal
<1>10. ASSUME Quiet PROVE TotalInv'
  BY <1>10, TotalFrame
<1> QED
  BY <1>2, <1>3, <1>4, <1>5, <1>6, <1>7, <1>8, <1>9, <1>10 DEF Worker

\* The main thread: it takes off total what it takes out of the pipe.
LEMMA MainTotal ==
  ASSUME TypeOK, TotalInv, MainThread
  PROVE  TotalInv'
<1>1. UNCHANGED <<at, room, down, members, stale>>
  BY DEF MainThread, CountRoom, FreeRoom, CountQuit, workers, pipes, rooms
<1>2. CASE CountRoom
  BY <1>1, <1>2, TotalFrame DEF CountRoom, CriticalKept, pipes
<1>3. ASSUME NEW r \in Rooms, FreeRoom(r) \/ CountQuit(r) PROVE TotalInv'
  <2> SUFFICES ASSUME NEW q \in Rooms PROVE (Owed(q) <= total[q] + Uncounted(q))'
    BY DEF TotalInv
  <2>1. PICK rc \in {"E", "Q"} :
           /\ Report(r, rc)
           /\ total' = IF rc = "Q" THEN [total EXCEPT ![r] = @ - 1] ELSE total
    BY <1>3 DEF FreeRoom, CountQuit
  <2>2. /\ Quits(r)' <= Quits(r) - (IF rc = "Q" THEN 1 ELSE 0) /\ Quits(r)' \in Nat
        /\ q # r => Quits(q)' = Quits(q)
    BY <2>1, QuitsShrink
  <2>3. /\ total \in [Rooms -> Int]
        /\ total'[q] = total[q] - (IF rc = "Q" /\ q = r THEN 1 ELSE 0)
    BY <2>1 DEF TypeOK, TableType
  <2>4. /\ Uncounted(q)' = Uncounted(q)
        /\ UNCHANGED <<Cardinality(members[q]), Len(down[q]), stale[q]>>
    BY <1>1 DEF Uncounted
  <2>5. Owed(q) <= total[q] + Uncounted(q)
    BY DEF TotalInv
  <2>6. CASE q = r
    <3>1. /\ Owed(q)  = Cardinality(members[q]) + Len(down[q]) + stale[q] + Quits(q)
          /\ Owed(q)' = Cardinality(members[q]) + Len(down[q]) + stale[q] + Quits(q)'
      BY <1>1 DEF Owed
    <3>2. Quits(q)' <= Quits(q) - (IF rc = "Q" THEN 1 ELSE 0) /\ Quits(q)' \in Nat
      BY <2>1, <2>6, QuitsShrink
    <3>3. /\ Cardinality(members[q]) \in Nat /\ Len(down[q]) \in Nat
          /\ stale[q] \in Nat /\ Quits(q) \in Nat /\ Owed(q) \in Nat
      BY OwedTypes
    <3>4. Owed(q)' <= Owed(q) - (IF rc = "Q" THEN 1 ELSE 0) /\ Owed(q)' \in Nat
      BY <3>1, <3>2, <3>3
    <3> QED
      BY <2>3, <2>4, <2>5, <2>6, <3>4, OwedTypes
  <2>7. CASE q # r
    <3>1. Owed(q)' = Owed(q)
      BY <1>1, <2>2, <2>7, OwedKept
    <3> QED
      BY <2>3, <2>4, <2>5, <2>7, <3>1, OwedTypes
  <2> QED
    BY <2>6, <2>7
<1> QED
  BY <1>2, <1>3 DEF MainThread

\* The rooms: what leaves one place comes to another, or is let go.
LEMMA RoomTotal ==
  ASSUME TypeOK, TotalInv, NEW r \in Rooms, Room(r)
  PROVE  TotalInv'
<1>1. UNCHANGED <<at, room, total>>
  BY DEF Room, TakeCreate, MissOwner, TakeJoin, Refuse, Drop, End, EndLate, ClearRoom, QuitLate,
         Quit, table, workers
<1>2. SUFFICES /\ Owed(r)' <= Owed(r) /\ Owed(r)' \in Int
               /\ \A q \in Rooms \ {r} : Owed(q)' = Owed(q)
  <2> SUFFICES ASSUME NEW q \in Rooms PROVE (Owed(q) <= total[q] + Uncounted(q))'
    BY DEF TotalInv
  <2>1. Uncounted(q)' = Uncounted(q) /\ total'[q] = total[q]
    BY <1>1 DEF Uncounted
  <2>2. Owed(q) <= total[q] + Uncounted(q)
    BY DEF TotalInv
  <2>3. Owed(q)' <= Owed(q) /\ Owed(q)' \in Int
    <3>1. CASE q = r
      BY <1>2, <3>1
    <3>2. CASE q # r
      BY <1>2, <3>2, OwedTypes
    <3> QED
      BY <3>1, <3>2
  <2> QED
    BY <2>1, <2>2, <2>3, OwedTypes
<1>3. /\ down \in [Rooms -> Seq(Command)] /\ members \in [Rooms -> SUBSET Users]
      /\ stale \in [Rooms -> Nat] /\ IsFiniteSet(members[r])
  BY DispatcherAssumption, FS_Subset DEF TypeOK, RoomsType
<1>4. ASSUME NEW cmd, Take(r, cmd)
      PROVE  /\ Len(down'[r]) = Len(down[r]) - 1 /\ Len(down'[r]) \in Nat
             /\ \A q \in Rooms \ {r} : down'[q] = down[q]
  <2>1. /\ down[r] # << >> /\ down'[r] = Tail(down[r])
        /\ \A q \in Rooms \ {r} : down'[q] = down[q]
    BY <1>3, <1>4 DEF Take
  <2>2. down[r] \in Seq(Command)
    BY <1>3
  <2> QED
    BY <2>1, <2>2
<1>5. /\ Owed(r)  = Cardinality(members[r]) + Len(down[r]) + stale[r] + Quits(r)
      /\ Owed(r)' = Cardinality(members'[r]) + Len(down'[r]) + stale'[r] + Quits(r)'
  BY DEF Owed
<1>6. /\ Cardinality(members[r]) \in Nat /\ Len(down[r]) \in Nat
      /\ stale[r] \in Nat /\ Quits(r) \in Nat /\ Owed(r) \in Nat
  BY OwedTypes
<1>7. CASE TakeCreate(r) \/ TakeJoin(r)
  <2>1. PICK cmd, u : Take(r, cmd) /\ members' = [members EXCEPT ![r] = @ \cup {u}]
    BY <1>7 DEF TakeCreate, TakeJoin, Enter
  <2>2. UNCHANGED <<up, stale>>
    BY <1>7 DEF TakeCreate, TakeJoin
  <2>3. \A q \in Rooms : Quits(q)' = Quits(q) /\ stale'[q] = stale[q]
    BY <2>2 DEF Quits
  <2>4. /\ members'[r] = members[r] \cup {u}
        /\ \A q \in Rooms \ {r} : members'[q] = members[q]
    BY <1>3, <2>1
  <2>5. /\ Cardinality(members'[r]) <= Cardinality(members[r]) + 1
        /\ Cardinality(members'[r]) \in Nat
    <3>1. /\ IsFiniteSet(members[r] \cup {u})
          /\ Cardinality(members[r] \cup {u}) =
               IF u \in members[r] THEN Cardinality(members[r]) ELSE Cardinality(members[r]) + 1
      BY <1>3, FS_AddElement
    <3> QED
      BY <2>4, <3>1, OwedTypes
  <2>6. Owed(r)' <= Owed(r) /\ Owed(r)' \in Int
    BY <1>4, <1>5, <2>1, <2>3, <2>5, OwedTypes, SMTT(60)
  <2> QED
    BY <1>4, <2>1, <2>3, <2>4, <2>6, OwedKept
<1>8. CASE Refuse(r) \/ Drop(r)
  <2>1. PICK cmd : Take(r, cmd) /\ UNCHANGED <<up, stale, members>>
    BY <1>8 DEF Refuse, Drop, rooms
  <2>2. \A q \in Rooms : /\ Quits(q)' = Quits(q) /\ stale'[q] = stale[q]
                         /\ members'[q] = members[q]
    BY <2>1 DEF Quits
  <2>3. Owed(r)' <= Owed(r) /\ Owed(r)' \in Int
    <3>1. Quits(r)' = Quits(r) /\ stale'[r] = stale[r] /\ members'[r] = members[r]
      BY <2>1 DEF Quits
    <3>2. Len(down'[r]) = Len(down[r]) - 1 /\ Len(down'[r]) \in Nat
      BY <1>4, <2>1
    <3> QED
      BY <1>5, <3>1, <3>2, OwedTypes
  <2> QED
    BY <1>4, <2>1, <2>2, <2>3, OwedKept
<1>9. ASSUME NEW u \in Users, Quit(r, u)
      PROVE  /\ Owed(r)' <= Owed(r) /\ Owed(r)' \in Int
             /\ \A q \in Rooms \ {r} : Owed(q)' = Owed(q)
  <2>1. /\ u \in members[r] /\ up' = [up EXCEPT ![r] = Append(@, "Q")]
        /\ members' = [members EXCEPT ![r] = @ \ {u}] /\ UNCHANGED <<down, stale>>
    BY <1>9 DEF Quit
  <2>2. /\ Quits(r)' <= Quits(r) + 1 /\ Quits(r)' \in Nat
        /\ \A q \in Rooms \ {r} : Quits(q)' = Quits(q)
    BY <2>1, QuitsGrow
  <2>3. /\ members'[r] = members[r] \ {u}
        /\ \A q \in Rooms \ {r} : members'[q] = members[q]
    BY <1>3, <2>1
  <2>4. Cardinality(members'[r]) = Cardinality(members[r]) - 1
    BY <1>3, <2>1, <2>3, FS_RemoveElement
  <2>5. Owed(r)' <= Owed(r) /\ Owed(r)' \in Int
    <3>1. Len(down'[r]) = Len(down[r]) /\ stale'[r] = stale[r]
      BY <2>1
    <3>2. Quits(r)' <= Quits(r) + 1 /\ Quits(r)' \in Nat
      BY <2>2
    <3>3. Owed(r)' = (Cardinality(members[r]) - 1) + Len(down[r]) + stale[r] + Quits(r)'
      BY <1>5, <2>4, <3>1
    <3> QED
      BY <1>5, <1>6, <3>2, <3>3, SMTT(60)
  <2> QED
    BY <2>1, <2>2, <2>3, <2>5, OwedKept
<1>10. ASSUME NEW old \in Nat, old <= stale[r], ClearRoom(r, old)
       PROVE  /\ Owed(r)' <= Owed(r) /\ Owed(r)' \in Int
              /\ \A q \in Rooms \ {r} : Owed(q)' = Owed(q)
  <2>1. PICK late \in 0..Cardinality(members[r]) - 1 : stale' = [stale EXCEPT ![r] = old + late]
    BY <1>10 DEF ClearRoom
  <2>2. /\ up' = [up EXCEPT ![r] = Append(@, "E")] /\ UNCHANGED down
        /\ members' = [members EXCEPT ![r] = {}]
    BY <1>10 DEF ClearRoom
  <2>3. /\ Quits(r)' <= Quits(r) + 0 /\ Quits(r)' \in Nat
        /\ \A q \in Rooms \ {r} : Quits(q)' = Quits(q)
    BY <2>2, QuitsGrow
  <2>4. /\ members'[r] = {} /\ stale'[r] = old + late
        /\ \A q \in Rooms \ {r} : members'[q] = members[q] /\ stale'[q] = stale[q]
    BY <1>3, <2>1, <2>2
  <2>5. Cardinality(members'[r]) = 0
    BY <2>4, FS_EmptySet
  <2>6. late \in Nat /\ late <= Cardinality(members[r])
    BY <2>1, OwedTypes
  <2>7. Owed(r)' <= Owed(r) /\ Owed(r)' \in Int
    <3>1. Len(down'[r]) = Len(down[r])
      BY <2>2
    <3>2. stale'[r] = old + late
      BY <2>4
    <3>3. Quits(r)' <= Quits(r) + 0 /\ Quits(r)' \in Nat
      BY <2>3
    <3>4. Owed(r)' = 0 + Len(down[r]) + (old + late) + Quits(r)'
      BY <1>5, <2>5, <3>1, <3>2
    <3>5. /\ old \in Nat /\ old <= stale[r]
          /\ old + late <= stale[r] + Cardinality(members[r])
      BY <1>6, <1>10, <2>6
    <3>6. Owed(r) = Cardinality(members[r]) + Len(down[r]) + stale[r] + Quits(r)
      BY <1>5
    <3> QED
      <4>1. PICK c, d, s, q, o : /\ c = Cardinality(members[r]) /\ d = Len(down[r])
                                 /\ s = stale[r] /\ q = Quits(r) /\ o = Owed(r)
        OBVIOUS
      <4>2. PICK q2, o2 : q2 = Quits(r)' /\ o2 = Owed(r)'
        OBVIOUS
      <4>3. c \in Nat /\ d \in Nat /\ s \in Nat /\ q \in Nat
        BY <1>6, <4>1
      <4>4. o = c + d + s + q /\ old + late <= s + c
        BY <3>5, <3>6, <4>1
      <4>5. q2 \in Nat /\ q2 <= q + 0
        BY <3>3, <4>1, <4>2
      <4>6. o2 = 0 + d + (old + late) + q2
        BY <3>4, <4>1, <4>2
      <4>7. o2 <= o /\ o2 \in Int
        BY <2>6, <3>5, <4>3, <4>4, <4>5, <4>6
      <4> QED
        BY <4>1, <4>2, <4>7
  <2> QED
    BY <2>2, <2>3, <2>4, <2>7, OwedKept
<1>11. CASE End(r)
  BY <1>6, <1>10, <1>11 DEF End
<1>12. CASE EndLate(r)
  <2>1. stale[r] - 1 \in Nat /\ stale[r] - 1 <= stale[r] /\ ClearRoom(r, stale[r] - 1)
    BY <1>6, <1>12 DEF EndLate
  <2> QED
    BY <1>10, <2>1
<1>13. CASE MissOwner(r)
  <2>1. /\ Take(r, "C") /\ up' = [up EXCEPT ![r] = Append(@, "Q")] /\ UNCHANGED members
        /\ stale' = stale \/ (stale[r] > 0 /\ stale' = [stale EXCEPT ![r] = @ - 1])
    BY <1>13 DEF MissOwner
  <2>2. /\ Quits(r)' <= Quits(r) + 1 /\ Quits(r)' \in Nat
        /\ \A q \in Rooms \ {r} : Quits(q)' = Quits(q)
    BY <2>1, QuitsGrow
  <2>3. /\ stale'[r] <= stale[r] /\ stale'[r] \in Nat
        /\ \A q \in Rooms \ {r} : stale'[q] = stale[q]
    BY <1>3, <2>1
  <2>4. /\ Len(down'[r]) = Len(down[r]) - 1 /\ Len(down'[r]) \in Nat
        /\ \A q \in Rooms \ {r} : down'[q] = down[q]
    BY <1>4, <2>1
  <2>5. Owed(r)' <= Owed(r) /\ Owed(r)' \in Int
    <3>1. Owed(r)' = Cardinality(members[r]) + Len(down'[r]) + stale'[r] + Quits(r)'
      BY <1>5, <2>1
    <3> QED
      BY <1>5, <1>6, <2>2, <2>3, <2>4, <3>1, SMTT(60)
  <2> QED
    BY <2>1, <2>2, <2>3, <2>4, <2>5, OwedKept
<1>14. CASE QuitLate(r)
  <2>1. /\ stale[r] > 0 /\ stale' = [stale EXCEPT ![r] = @ - 1]
        /\ up' = [up EXCEPT ![r] = Append(@, "Q")] /\ UNCHANGED down
    BY <1>14 DEF QuitLate
  <2>2. PICK S : members' = [members EXCEPT ![r] = @ \ S]
    BY <1>14 DEF QuitLate
  <2>3. /\ Quits(r)' <= Quits(r) + 1 /\ Quits(r)' \in Nat
        /\ \A q \in Rooms \ {r} : Quits(q)' = Quits(q)
    BY <2>1, QuitsGrow
  <2>4. /\ stale'[r] = stale[r] - 1
        /\ \A q \in Rooms \ {r} : stale'[q] = stale[q] /\ members'[q] = members[q]
    BY <1>3, <2>1, <2>2
  <2>5. /\ Cardinality(members'[r]) <= Cardinality(members[r])
        /\ Cardinality(members'[r]) \in Nat
    <3>1. members'[r] \subseteq members[r]
      BY <1>3, <2>2
    <3> QED
      BY <1>3, <3>1, FS_Subset, FS_CardinalityType
  <2>6. Owed(r)' <= Owed(r) /\ Owed(r)' \in Int
    <3>1. Len(down'[r]) = Len(down[r])
      BY <2>1
    <3>2. Owed(r)' = Cardinality(members'[r]) + Len(down[r]) + (stale[r] - 1) + Quits(r)'
      BY <1>5, <2>4, <3>1
    <3> QED
      BY <1>5, <1>6, <2>1, <2>3, <2>5, <3>2, SMTT(60)
  <2> QED
    BY <2>1, <2>3, <2>4, <2>6, OwedKept
<1> QED
  BY <1>7, <1>8, <1>9, <1>11, <1>12, <1>13, <1>14 DEF Room

\* The inductive step of TotalInv.
LEMMA TotalStep == TypeOK /\ TotalInv /\ [Next]_vars => TotalInv'
<1> SUFFICES ASSUME TypeOK, TotalInv, [Next]_vars PROVE TotalInv'
  OBVIOUS
<1>1. CASE UNCHANGED <<table, workers, pipes, rooms>>
  BY <1>1, TotalFrame DEF CriticalKept, table, workers, rooms
<1>2. CASE UNCHANGED vars
  BY <1>1, <1>2 DEF vars
<1>3. CASE LoseRoom
  BY <1>1, <1>3 DEF LoseRoom
<1>4. ASSUME NEW u \in Users, User(u) PROVE TotalInv'
  BY <1>1, <1>4 DEF User, Connect, HangUp
<1>5. CASE Step
  BY <1>3, <1>4, <1>5, WorkerTotal, MainTotal, RoomTotal DEF Step
<1> QED
  BY <1>2, <1>5 DEF Next, Rest

\* At the start there is nobody to count.
LEMMA InitTotal == Init => TotalInv
<1> SUFFICES ASSUME Init, NEW r \in Rooms PROVE Owed(r) <= total[r] + Uncounted(r)
  BY DEF TotalInv
<1>1. /\ members[r] = {} /\ down[r] = << >> /\ stale[r] = 0 /\ up[r] = << >>
      /\ total[r] = 0 /\ \A t \in Threads : at[t] = "accept"
  BY DEF Init
<1>2. Uncounted(r) = 0 /\ {i \in DOMAIN up[r] : up[r][i] = "Q"} = {} /\ Len(down[r]) = 0
  BY <1>1 DEF Uncounted, Critical
<1> QED
  BY <1>1, <1>2, FS_EmptySet DEF Owed, Quits

\* Whatever the workers' tests and counts are made of (dowithuser) and however late
\* the reports come (main.cpp), total covers the members, those on their way and the
\* departures not yet reported.
THEOREM TotalNeverBehind == Spec => []TotalCovers
<1>1. TypeOK /\ TotalInv => TotalCovers
  <2> SUFFICES ASSUME TypeOK, TotalInv, NEW r \in Rooms
               PROVE  Owed(r) <= total[r] + Cardinality(Counting(r))
    BY DEF TotalCovers, Owed, Quits
  <2>1. Owed(r) <= total[r] + Uncounted(r)
    BY DEF TotalInv
  <2>2. CASE \E t \in Threads : at[t] \in Critical /\ room[t] = r
    <3>1. PICK t \in Threads : at[t] \in Critical /\ room[t] = r
      BY <2>2
    <3>2. Counting(r) = {t}
      BY <3>1 DEF Counting, Critical, TypeOK, LockType
    <3>3. Cardinality(Counting(r)) = 1
      BY <3>2, FS_Singleton
    <3> QED
      BY <2>1, <2>2, <3>3 DEF Uncounted
  <2>3. CASE ~ \E t \in Threads : at[t] \in Critical /\ room[t] = r
    <3>1. Counting(r) = {}
      BY <2>3 DEF Counting, Critical
    <3> QED
      BY <2>1, <2>3, <3>1, FS_EmptySet DEF Uncounted
  <2> QED
    BY <2>2, <2>3
<1> QED
  BY <1>1, InitTotal, TypeCorrect, TotalStep, PTL DEF Spec

----------------------------------------------------------------------------
\* A room is overbooked by the other workers at most

\* The workers who have seen a seat in r free and not passed their user on yet.
Joiners(r) == {t \in Threads : at[t] = "lockJoin" /\ room[t] = r}

Seats == MaxTotal + Cardinality(Threads) - 1

\* The members, those on their way to the meeting that is on, or about to be, and
\* those who are still to be passed on; what was passed on before the 'C' is refused.
\* A room whose 'C' was taken for nothing fills up in the same way.
SeatRoom(r) ==
  /\ on[r] \/ r \in dropped
       => Cardinality(members[r]) + Len(down[r]) + Cardinality(Joiners(r)) <= Seats
  /\ \A i \in DOMAIN down[r] :
       down[r][i].cmd = "C" => (Len(down[r]) - i + 1) + Cardinality(Joiners(r)) <= Seats
  /\ ~on[r] /\ r \notin dropped => members[r] = {}

SeatInv == \A r \in Rooms : SeatRoom(r)

\* The numbers in it.
LEMMA SeatTypes ==
  ASSUME TypeOK, NEW r \in Rooms
  PROVE  /\ Cardinality(Joiners(r)) \in Nat /\ IsFiniteSet(Joiners(r))
         /\ Seats \in Nat /\ Cardinality(Threads) \in Nat
<1>1. Joiners(r) \in SUBSET Threads /\ IsFiniteSet(Threads)
  BY DispatcherAssumption DEF Joiners
<1>2. IsFiniteSet(Joiners(r))
  BY <1>1, FS_Subset
<1>3. Cardinality(Joiners(r)) \in Nat /\ Cardinality(Threads) \in Nat
  BY <1>1, <1>2, FS_CardinalityType
<1>4. Seats \in Nat
  BY <1>3, DispatcherAssumption DEF Seats
<1> QED
  BY <1>2, <1>3, <1>4

\* The same of the next state.
LEMMA JoinersNext ==
  ASSUME NEW r \in Rooms
  PROVE  Cardinality(Joiners(r)') \in Nat /\ IsFiniteSet(Joiners(r)')
<1>1. Joiners(r)' \in SUBSET Threads /\ IsFiniteSet(Threads)
  BY DispatcherAssumption DEF Joiners
<1> QED
  BY <1>1, FS_Subset, FS_CardinalityType

\* A room whose members and pipe are as they were, and that has no new joiner.
LEMMA SeatFrame ==
  ASSUME TypeOK, NEW r \in Rooms, SeatRoom(r), Joiners(r)' \subseteq Joiners(r),
         on'[r] = on[r], members'[r] = members[r], down'[r] = down[r],
         r \in dropped' <=> r \in dropped
  PROVE  SeatRoom(r)'
<1>1. /\ Cardinality(Joiners(r)') <= Cardinality(Joiners(r))
      /\ Cardinality(Joiners(r)') \in Nat /\ Cardinality(Joiners(r)) \in Nat /\ Seats \in Nat
  BY SeatTypes, JoinersNext, FS_Subset
<1>2. /\ Cardinality(members[r]) \in Nat /\ Len(down[r]) \in Nat
      /\ DOMAIN down[r] = 1..Len(down[r])
  BY OwedTypes DEF TypeOK, RoomsType
<1>3. ASSUME on[r] \/ r \in dropped
      PROVE  Cardinality(members[r]) + Len(down[r]) + Cardinality(Joiners(r)') <= Seats
  <2>1. Cardinality(members[r]) + Len(down[r]) + Cardinality(Joiners(r)) <= Seats
    BY <1>3 DEF SeatRoom
  <2> QED
    BY <1>1, <1>2, <2>1
<1>4. ASSUME NEW i \in DOMAIN down[r], down[r][i].cmd = "C"
      PROVE  (Len(down[r]) - i + 1) + Cardinality(Joiners(r)') <= Seats
  <2>1. (Len(down[r]) - i + 1) + Cardinality(Joiners(r)) <= Seats /\ i \in Nat
    BY <1>2, <1>4 DEF SeatRoom
  <2> QED
    BY <1>1, <1>2, <2>1
<1> QED
  BY <1>3, <1>4 DEF SeatRoom

\* Who joins r from now on.
LEMMA JoinersMove ==
  ASSUME TypeOK, NEW t \in Threads, NEW place \in Places, Goes(t, place), NEW r \in Rooms,
         \A other \in Threads : other # t => room'[other] = room[other]
  PROVE  /\ place # "lockJoin" => Joiners(r)' = Joiners(r) \ {t}
         /\ place = "lockJoin" /\ room'[t] = r => Joiners(r)' = Joiners(r) \cup {t}
         /\ place = "lockJoin" /\ room'[t] # r => Joiners(r)' \subseteq Joiners(r)
BY DEF Joiners, Goes, TypeOK, WorkersType

\* The test lets a worker through: by TotalCovers there is a seat for him, if not
\* for the others who have passed it.
LEMMA TestSeats ==
  ASSUME TypeOK, TotalInv, SeatInv, NEW t \in Threads, TestFull(t)
  PROVE  SeatInv'
<1> SUFFICES ASSUME NEW r \in Rooms PROVE SeatRoom(r)'
  BY DEF SeatInv
<1>1. /\ at[t] = "testFull" /\ UNCHANGED <<room, on, members, down, dropped>> /\ SeatRoom(r)
      /\ Goes(t, IF HasSeat(room[t]) THEN "lockJoin" ELSE "answerFull")
  BY DEF TestFull, SeatInv, pipes, rooms
<1>2. CASE ~(HasSeat(room[t]) /\ room[t] = r)
  <2>1. Joiners(r)' \subseteq Joiners(r)
    BY <1>1, <1>2, JoinersMove DEF Places
  <2> QED
    BY <1>1, <2>1, SeatFrame
<1>3. CASE HasSeat(room[t]) /\ room[t] = r
  <2> DEFINE m == Cardinality(members[r])
             d == Len(down[r])
             j == Cardinality(Joiners(r)')
             u == Uncounted(r)
             T == Cardinality(Threads)
  <2>1. /\ m \in Nat /\ d \in Nat /\ j \in Nat /\ u \in {0, 1} /\ T \in Nat
        /\ total[r] \in Int /\ MaxTotal \in Nat /\ Owed(r) \in Nat
    BY OwedTypes, JoinersNext, SeatTypes, DispatcherAssumption
  <2>2. total[r] < MaxTotal
    BY <1>3 DEF HasSeat
  <2>3. m + d <= MaxTotal - 1 + u
    <3>1. Owed(r) <= total[r] + u
      BY DEF TotalInv
    <3>2. Owed(r) = m + d + stale[r] + Quits(r) /\ stale[r] \in Nat /\ Quits(r) \in Nat
      BY OwedTypes DEF Owed
    <3>3. m + d <= Owed(r)
      <4> HIDE DEF m, d
      <4> QED
        BY <2>1, <3>2
    <3> HIDE DEF m, d, u
    <3> QED
      BY <2>1, <2>2, <3>1, <3>3
  <2>4. j + u <= T
    <3>1. Joiners(r)' \subseteq Threads /\ IsFiniteSet(Threads)
      BY DispatcherAssumption DEF Joiners
    <3>2. CASE \E c \in Threads : at[c] \in Critical /\ room[c] = r
      <4>1. PICK c \in Threads : at[c] \in Critical
        BY <3>2
      <4>2. c # t /\ at'[c] = at[c]
        BY <1>1, <4>1 DEF Critical, Goes, TypeOK, WorkersType
      <4>3. Joiners(r)' \subseteq Threads \ {c}
        BY <3>1, <4>1, <4>2 DEF Joiners, Critical
      <4>4. IsFiniteSet(Threads \ {c}) /\ Cardinality(Threads \ {c}) = T - 1
        BY <3>1, FS_RemoveElement
      <4>5. j <= T - 1
        BY <4>3, <4>4, FS_Subset
      <4> HIDE DEF j, u, T
      <4> QED
        BY <2>1, <4>5
    <3>3. CASE ~ \E c \in Threads : at[c] \in Critical /\ room[c] = r
      <4>1. u = 0
        BY <3>3 DEF Uncounted
      <4>2. j <= T
        BY <3>1, FS_Subset
      <4> HIDE DEF j, u, T
      <4> QED
        BY <2>1, <4>1, <4>2
    <3> QED
      BY <3>2, <3>3
  <2>5. m + d + j <= Seats
    <3> HIDE DEF m, d, j, u, T
    <3>1. Seats = MaxTotal + T - 1
      BY DEF Seats, T
    <3> QED
      BY <2>1, <2>3, <2>4, <3>1
  <2>6. \A i \in DOMAIN down[r] : (d - i + 1) + j <= Seats
    <3>1. DOMAIN down[r] = 1..d
      BY DEF TypeOK, RoomsType
    <3>2. Seats \in Nat
      BY SeatTypes
    <3> HIDE DEF m, d, j
    <3> QED
      BY <2>1, <2>5, <3>1, <3>2
  <2> QED
    BY <1>1, <2>5, <2>6 DEF SeatRoom
<1> QED
  BY <1>2, <1>3

\* A room that has just been called: it is empty, and nobody else's 'C' is under way.
LEMMA PassCreateSeats ==
  ASSUME TypeOK, OneGrant, SeatInv, NEW t \in Threads, PassCreate(t)
  PROVE  SeatInv'
<1> SUFFICES ASSUME NEW q \in Rooms PROVE SeatRoom(q)'
  BY DEF SeatInv
<1>1. PICK r \in Rooms : /\ IsLowest(r, Vacant) /\ room' = [room EXCEPT ![t] = r]
                         /\ PassOn(t, r, "C")
  BY DEF PassCreate
<1>2. /\ at[t] = "lockCreate" /\ Unlocked /\ Goes(t, "occupy")
      /\ UNCHANGED <<on, members, dropped>> /\ SeatRoom(q)
  BY DEF PassCreate, rooms, SeatInv
<1>3. /\ at \in [Threads -> Places] /\ room \in [Threads -> Rooms \cup {0}]
      /\ down \in [Rooms -> Seq(Command)]
  BY DEF TypeOK, WorkersType, RoomsType
<1>4. Joiners(q)' = Joiners(q) \ {t}
  BY <1>1, <1>2, <1>3, JoinersMove DEF Places
<1>5. CASE q # r
  <2>1. down'[q] = down[q] /\ on'[q] = on[q] /\ members'[q] = members[q]
    BY <1>1, <1>2, <1>3, <1>5 DEF PassOn
  <2> QED
    BY <1>2, <1>4, <2>1, SeatFrame
<1>6. CASE q = r
  <2>1. Marked(r)
    <3>1. child_status[r] = 0
      BY <1>1 DEF IsLowest, Vacant
    <3>2. \A other \in Threads : at[other] # "occupy"
      BY <1>2, DispatcherAssumption DEF Unlocked, TypeOK, LockType, Critical
    <3> QED
      BY <3>1, <3>2 DEF Marked
  <2>2. ~Called(r) /\ ~on[r] /\ r \notin dropped
    BY <2>1 DEF OneGrant, Grant
  <2>3. /\ down[r] \in Seq(Command)
        /\ down'[r] = Append(down[r], [cmd |-> "C", user |-> user[t]])
    BY <1>1, <1>3 DEF PassOn
  <2>4. /\ DOMAIN down[r] = 1..Len(down[r]) /\ Len(down[r]) \in Nat
        /\ Len(down'[r]) = Len(down[r]) + 1 /\ DOMAIN down'[r] = 1..Len(down[r]) + 1
        /\ \A i \in 1..Len(down[r]) : down'[r][i] = down[r][i]
    BY <2>3
  <2>5. Cardinality(Joiners(r)') + 1 <= Seats /\ Cardinality(Joiners(r)') \in Nat
    <3>1. Joiners(r)' \subseteq Threads \ {t} /\ IsFiniteSet(Threads)
      BY <1>4, <1>6, DispatcherAssumption DEF Joiners
    <3>2. IsFiniteSet(Threads \ {t}) /\ Cardinality(Threads \ {t}) = Cardinality(Threads) - 1
      BY <3>1, FS_RemoveElement
    <3>3. Cardinality(Joiners(r)') <= Cardinality(Threads) - 1
      BY <3>1, <3>2, FS_Subset
    <3>4. /\ Cardinality(Joiners(r)') \in Nat /\ Cardinality(Threads) \in Nat
          /\ MaxTotal \in Nat \ {0} /\ Seats = MaxTotal + Cardinality(Threads) - 1
      BY JoinersNext, SeatTypes, DispatcherAssumption DEF Seats
    <3> QED
      BY <3>3, <3>4
  <2>6. ASSUME NEW i \in DOMAIN down'[r], down'[r][i].cmd = "C"
        PROVE  (Len(down'[r]) - i + 1) + Cardinality(Joiners(r)') <= Seats
    <3>1. i \notin 1..Len(down[r])
      BY <2>2, <2>4, <2>6 DEF Called
    <3>2. i = Len(down[r]) + 1
      BY <2>4, <3>1
    <3>3. Len(down'[r]) - i + 1 = 1
      BY <2>4, <3>2
    <3>4. Cardinality(Joiners(r)') + 1 <= Seats /\ Cardinality(Joiners(r)') \in Nat /\ Seats \in Nat
      BY <2>5, SeatTypes
    <3> QED
      BY <3>3, <3>4
  <2>7. ~on'[r] /\ r \notin dropped' /\ members'[r] = {}
    <3>1. members[r] = {}
      BY <1>2, <1>6, <2>2 DEF SeatRoom
    <3> QED
      BY <1>2, <2>2, <3>1
  <2> QED
    BY <1>6, <2>6, <2>7 DEF SeatRoom
<1> QED
  BY <1>5, <1>6

\* A joiner is passed on: he goes from the workers into the pipe.
LEMMA PassJoinSeats ==
  ASSUME TypeOK, SeatInv, NEW t \in Threads, PassJoin(t)
  PROVE  SeatInv'
<1> SUFFICES ASSUME NEW q \in Rooms PROVE SeatRoom(q)'
  BY DEF SeatInv
<1>1. /\ at[t] = "lockJoin" /\ Goes(t, "answerJoin") /\ PassOn(t, room[t], "J")
      /\ UNCHANGED <<room, on, members, dropped>> /\ SeatRoom(q)
  BY DEF PassJoin, rooms, SeatInv
<1>2. down \in [Rooms -> Seq(Command)]
  BY DEF TypeOK, RoomsType
<1>3. Joiners(q)' = Joiners(q) \ {t}
  BY <1>1, JoinersMove DEF Places
<1>4. CASE q # room[t]
  <2>1. down'[q] = down[q] /\ on'[q] = on[q] /\ members'[q] = members[q]
    BY <1>1, <1>2, <1>4 DEF PassOn
  <2> QED
    BY <1>1, <1>3, <2>1, SeatFrame
<1>5. CASE q = room[t]
  <2>1. /\ down[q] \in Seq(Command) /\ on'[q] = on[q] /\ members'[q] = members[q]
        /\ down'[q] = Append(down[q], [cmd |-> "J", user |-> user[t]])
    BY <1>1, <1>2, <1>5 DEF PassOn
  <2>2. /\ DOMAIN down[q] = 1..Len(down[q]) /\ Len(down[q]) \in Nat
        /\ Len(down'[q]) = Len(down[q]) + 1 /\ DOMAIN down'[q] = 1..Len(down[q]) + 1
        /\ \A i \in 1..Len(down[q]) : down'[q][i] = down[q][i]
        /\ down'[q][Len(down[q]) + 1].cmd = "J"
    BY <2>1
  <2>3. Cardinality(Joiners(q)') = Cardinality(Joiners(q)) - 1
    <3>1. t \in Joiners(q)
      BY <1>1, <1>5 DEF Joiners
    <3> QED
      BY <1>3, <3>1, SeatTypes, FS_RemoveElement
  <2>4. Cardinality(Joiners(q)) \in Nat /\ Cardinality(members[q]) \in Nat /\ Seats \in Nat
    BY SeatTypes, OwedTypes
  <2>5. ASSUME on'[q] \/ q \in dropped'
        PROVE  Cardinality(members'[q]) + Len(down'[q]) + Cardinality(Joiners(q)') <= Seats
    <3>1. Cardinality(members[q]) + Len(down[q]) + Cardinality(Joiners(q)) <= Seats
      BY <1>1, <2>1, <2>5 DEF SeatRoom
    <3>2. Cardinality(members'[q]) = Cardinality(members[q])
      BY <2>1
    <3>3. Len(down[q]) \in Nat /\ Len(down'[q]) = Len(down[q]) + 1
      BY <2>2
    <3> QED
      BY <2>3, <2>4, <3>1, <3>2, <3>3
  <2>6. ASSUME NEW i \in DOMAIN down'[q], down'[q][i].cmd = "C"
        PROVE  (Len(down'[q]) - i + 1) + Cardinality(Joiners(q)') <= Seats
    <3>1. i \in 1..Len(down[q])
      BY <2>2, <2>6
    <3>2. (Len(down[q]) - i + 1) + Cardinality(Joiners(q)) <= Seats
      BY <1>1, <2>2, <2>6, <3>1 DEF SeatRoom
    <3>3. Len(down[q]) \in Nat /\ Len(down'[q]) = Len(down[q]) + 1 /\ i \in Nat
      BY <2>2, <3>1
    <3> QED
      BY <2>3, <2>4, <3>2, <3>3
  <2>7. ~on'[q] /\ q \notin dropped' => members'[q] = {}
    BY <1>1, <2>1 DEF SeatRoom
  <2> QED
    BY <2>5, <2>6, <2>7 DEF SeatRoom
<1> QED
  BY <1>4, <1>5

\* A step in which nobody joins and no room does anything.
LEMMA SeatsKept ==
  ASSUME TypeOK, SeatInv, \A r \in Rooms : Joiners(r)' \subseteq Joiners(r),
         UNCHANGED <<on, members, down, dropped>>
  PROVE  SeatInv'
<1> SUFFICES ASSUME NEW r \in Rooms PROVE SeatRoom(r)'
  BY DEF SeatInv
<1>1. /\ SeatRoom(r) /\ Joiners(r)' \subseteq Joiners(r)
      /\ on'[r] = on[r] /\ members'[r] = members[r] /\ down'[r] = down[r]
      /\ r \in dropped' <=> r \in dropped
  BY DEF SeatInv
<1> QED
  BY <1>1, SeatFrame

\* The workers.
LEMMA WorkerSeats ==
  ASSUME TypeOK, OneGrant, TotalInv, SeatInv, NEW t \in Threads, Worker(t)
  PROVE  SeatInv'
<1>1. ASSUME NEW place \in Places \ {"lockJoin"}, Goes(t, place),
             \A other \in Threads : other # t => room'[other] = room[other],
             UNCHANGED <<on, members, down, dropped>>
      PROVE  SeatInv'
  <2>1. ASSUME NEW r \in Rooms PROVE Joiners(r)' \subseteq Joiners(r)
    BY <1>1, JoinersMove
  <2> QED
    BY <1>1, <2>1, SeatsKept
<1>2. \A other \in Threads : other # t => room'[other] = room[other]
  BY DEF Worker, Accept, ReadCreate, ReadClosed, ReadJoin, TestAvail, FindNone, AnswerNoRoom,
         PassCreate, Occupy, CountCreate, LookUp, AnswerNone, TestFull, AnswerFull, PassJoin,
         AnswerJoin, CountJoin, PassFails, TypeOK, WorkersType
<1>3. ASSUME \E u \in Users : Accept(t, u) PROVE SeatInv'
  BY <1>1, <1>2, <1>3 DEF Accept, Places, pipes, rooms
<1>4. ASSUME \E r \in Rooms : ReadJoin(t, r) PROVE SeatInv'
  BY <1>1, <1>2, <1>4 DEF ReadJoin, Places, pipes, rooms
<1>5. ASSUME ReadCreate(t) \/ ReadClosed(t) \/ FindNone(t) \/ AnswerNoRoom(t) PROVE SeatInv'
  BY <1>1, <1>2, <1>5 DEF ReadCreate, ReadClosed, FindNone, AnswerNoRoom, Places, pipes, rooms
<1>6. ASSUME TestAvail(t) PROVE SeatInv'
  <2>1. PICK place \in {"answerNoRoom", "lockCreate"} : Goes(t, place)
    BY <1>6 DEF TestAvail
  <2> QED
    BY <1>1, <1>2, <1>6, <2>1 DEF TestAvail, Places, pipes, rooms
<1>7. ASSUME LookUp(t) PROVE SeatInv'
  <2>1. PICK place \in {"testFull", "answerNone"} : Goes(t, place)
    BY <1>7 DEF LookUp
  <2> QED
    BY <1>1, <1>2, <1>7, <2>1 DEF LookUp, Places, pipes, rooms
<1>8. ASSUME Occupy(t) \/ CountCreate(t) \/ AnswerNone(t) \/ AnswerFull(t) PROVE SeatInv'
  BY <1>1, <1>2, <1>8 DEF Occupy, CountCreate, AnswerNone, AnswerFull, Places, pipes, rooms
<1>9. ASSUME AnswerJoin(t) \/ CountJoin(t) \/ PassFails(t) PROVE SeatInv'
  BY <1>1, <1>2, <1>9 DEF AnswerJoin, CountJoin, PassFails, Places, pipes, rooms
<1> QED
  BY <1>3, <1>4, <1>5, <1>6, <1>7, <1>8, <1>9, PassCreateSeats, PassJoinSeats, TestSeats
     DEF Worker

\* The rooms.  What is taken out of the pipe becomes a member, or is let go.
LEMMA RoomSeats ==
  ASSUME TypeOK, OneGrant, FirstInv, SeatInv, NEW r \in Rooms, Room(r)
  PROVE  SeatInv'
<1>1. ASSUME NEW q \in Rooms PROVE Joiners(q)' = Joiners(q)
  BY DEF Room, TakeCreate, MissOwner, TakeJoin, Refuse, Drop, End, EndLate, ClearRoom,
         QuitLate, Quit, workers, Joiners
<1>2. /\ down \in [Rooms -> Seq(Command)] /\ members \in [Rooms -> SUBSET Users]
      /\ on \in [Rooms -> BOOLEAN] /\ IsFiniteSet(members[r])
  BY DispatcherAssumption, FS_Subset DEF TypeOK, RoomsType
<1>3. ASSUME NEW q \in Rooms \ {r}
      PROVE  /\ on'[q] = on[q] /\ members'[q] = members[q] /\ down'[q] = down[q]
             /\ q \in dropped' <=> q \in dropped
  BY <1>2 DEF Room, TakeCreate, MissOwner, TakeJoin, Enter, Take, Refuse, Drop, End, EndLate,
              ClearRoom, QuitLate, Quit, rooms
<1> SUFFICES SeatRoom(r)'
  <2> SUFFICES ASSUME NEW q \in Rooms PROVE SeatRoom(q)'
    BY DEF SeatInv
  <2>1. CASE q = r
    BY <2>1
  <2>2. CASE q # r
    <3>1. /\ SeatRoom(q) /\ Joiners(q)' \subseteq Joiners(q)
          /\ on'[q] = on[q] /\ members'[q] = members[q] /\ down'[q] = down[q]
          /\ q \in dropped' <=> q \in dropped
      BY <1>1, <1>3, <2>2 DEF SeatInv
    <3> QED
      BY <3>1, SeatFrame
  <2> QED
    BY <2>1, <2>2
<1> DEFINE m == Cardinality(members[r])
           d == Len(down[r])
           j == Cardinality(Joiners(r))
<1>4. m \in Nat /\ d \in Nat /\ j \in Nat /\ Seats \in Nat
  BY OwedTypes, SeatTypes
<1>5. /\ Joiners(r)' = Joiners(r) /\ Cardinality(Joiners(r)') = j /\ SeatRoom(r)
  BY <1>1 DEF SeatInv
<1>6. Grant(r)
  BY DEF OneGrant
<1>7. ASSUME down[r] # << >>, down'[r] = Tail(down[r])
      PROVE  /\ Len(down'[r]) = d - 1 /\ d \in Nat \ {0} /\ DOMAIN down[r] = 1..d
             /\ DOMAIN down'[r] = 1..d - 1 /\ down[r][1] = Head(down[r])
             /\ \A i \in 1..d - 1 : i + 1 \in 1..d /\ down'[r][i] = down[r][i + 1]
  <2>1. down[r] \in Seq(Command)
    BY <1>2
  <2> QED
    BY <1>7, <2>1, HeadAndTail
\* A 'C' taken: the room was empty, and at most one is in it now.
<1>8. ASSUME Take(r, "C"), on'[r] \/ r \in dropped',
             Cardinality(members'[r]) \in {0, 1}
      PROVE  SeatRoom(r)'
  <2>1. down[r] # << >> /\ down'[r] = Tail(down[r]) /\ Head(down[r]).cmd = "C"
    BY <1>2, <1>8 DEF Take
  <2>2. Called(r) /\ down[r][1].cmd = "C" /\ 1 \in DOMAIN down[r] /\ Len(down'[r]) = d - 1
    BY <1>7, <2>1 DEF Called
  <2>3. (d - 1 + 1) + j <= Seats
    BY <1>5, <2>2 DEF SeatRoom
  <2>4. Cardinality(members'[r]) + Len(down'[r]) + Cardinality(Joiners(r)') <= Seats
    <3>1. d \in Nat \ {0}
      BY <1>7, <2>1
    <3> HIDE DEF d, j, m
    <3> QED
      BY <1>4, <1>5, <1>8, <2>2, <2>3, <3>1
  <2>5. \A i \in DOMAIN down'[r] : down'[r][i].cmd # "C"
    <3> SUFFICES ASSUME NEW i \in DOMAIN down'[r], down'[r][i].cmd = "C" PROVE FALSE
      OBVIOUS
    <3>1. /\ i \in Nat \ {0} /\ i + 1 \in DOMAIN down[r] /\ down[r][i + 1].cmd = "C"
      BY <1>7, <2>1
    <3>2. i + 1 = 1
      BY <1>6, <2>2, <3>1 DEF Grant, CalledOnce
    <3> QED
      BY <3>1, <3>2
  <2> QED
    BY <1>8, <2>4, <2>5 DEF SeatRoom
<1>9. ASSUME Take(r, "C") PROVE ~on[r] /\ r \notin dropped /\ members[r] = {}
  <2>1. down[r] # << >> /\ down'[r] = Tail(down[r]) /\ Head(down[r]).cmd = "C"
    BY <1>2, <1>9 DEF Take
  <2>2. Called(r)
    BY <1>7, <2>1 DEF Called
  <2>3. ~on[r] /\ r \notin dropped
    BY <1>6, <2>2 DEF Grant
  <2> QED
    BY <1>5, <2>3 DEF SeatRoom
<1>10. CASE TakeCreate(r)
  <2>1. Take(r, "C") /\ members'[r] = members[r] \cup {Head(down[r]).user} /\ on'[r]
    BY <1>2, <1>10 DEF TakeCreate, Enter
  <2>2. members'[r] = {Head(down[r]).user}
    BY <1>9, <2>1
  <2>3. Cardinality(members'[r]) = 1
    BY <2>2, FS_Singleton
  <2> QED
    BY <1>8, <2>1, <2>3
<1>11. CASE MissOwner(r)
  <2>1. Take(r, "C") /\ members'[r] = members[r] /\ on'[r]
    BY <1>2, <1>11 DEF MissOwner
  <2>2. Cardinality(members'[r]) = 0
    BY <1>9, <2>1, FS_EmptySet
  <2> QED
    BY <1>8, <2>1, <2>2
\* A 'J' taken, whatever becomes of it: at most one more is in the room.
<1>12. ASSUME Take(r, "J"), on'[r] = on[r], r \in dropped' <=> r \in dropped,
              Cardinality(members'[r]) \in Nat, Cardinality(members'[r]) <= m + 1,
              on[r] \/ r \in dropped \/ members'[r] = members[r]
       PROVE  SeatRoom(r)'
  <2>1. down[r] # << >> /\ down'[r] = Tail(down[r])
    BY <1>2, <1>12 DEF Take
  <2>2. ASSUME on[r] \/ r \in dropped
        PROVE  Cardinality(members'[r]) + Len(down'[r]) + Cardinality(Joiners(r)') <= Seats
    <3>1. m + d + j <= Seats
      BY <1>5, <2>2 DEF SeatRoom
    <3>2. Len(down'[r]) = d - 1
      BY <1>7, <2>1
    <3> HIDE DEF d, j, m
    <3> QED
      BY <1>4, <1>5, <1>12, <3>1, <3>2
  <2>3. ASSUME NEW i \in DOMAIN down'[r], down'[r][i].cmd = "C"
        PROVE  (Len(down'[r]) - i + 1) + Cardinality(Joiners(r)') <= Seats
    <3>1. /\ i \in Nat /\ i + 1 \in DOMAIN down[r] /\ down[r][i + 1].cmd = "C"
          /\ Len(down'[r]) = d - 1
      BY <1>7, <2>1, <2>3
    <3>2. (d - (i + 1) + 1) + j <= Seats
      BY <1>5, <3>1 DEF SeatRoom
    <3> HIDE DEF d, j, m
    <3> QED
      BY <1>4, <1>5, <3>1, <3>2
  <2>4. ~on'[r] /\ r \notin dropped' => members'[r] = {}
    BY <1>5, <1>12 DEF SeatRoom
  <2> QED
    BY <1>12, <2>2, <2>3, <2>4 DEF SeatRoom
<1>13. CASE TakeJoin(r)
  <2>1. /\ Take(r, "J") /\ on'[r] = on[r] /\ dropped' = dropped
        /\ members'[r] = members[r] \cup {Head(down[r]).user}
    BY <1>2, <1>13 DEF TakeJoin, Enter
  <2>2. on[r] \/ r \in dropped
    <3>1. roomstatus[r] = "ON" /\ down[r] # << >> /\ Head(down[r]).cmd = "J"
      BY <1>13 DEF TakeJoin, Take, TypeOK, RoomsType
    <3> QED
      BY <3>1 DEF FirstInv, Awaits
  <2>3. Cardinality(members'[r]) \in Nat /\ Cardinality(members'[r]) <= m + 1
    <3>1. /\ IsFiniteSet(members[r] \cup {Head(down[r]).user})
          /\ Cardinality(members[r] \cup {Head(down[r]).user}) =
               IF Head(down[r]).user \in members[r] THEN m ELSE m + 1
      BY <1>2, FS_AddElement
    <3> QED
      BY <1>4, <2>1, <3>1
  <2> QED
    BY <1>12, <2>1, <2>2, <2>3
<1>14. ASSUME UNCHANGED <<on, members, dropped>>, Take(r, "J") PROVE SeatRoom(r)'
  <2>1. Cardinality(members'[r]) \in Nat /\ Cardinality(members'[r]) <= m + 1
    BY <1>4, <1>14
  <2> QED
    BY <1>12, <1>14, <2>1
<1>15. CASE Refuse(r)
  BY <1>14, <1>15 DEF Refuse, rooms
<1>16. CASE Drop(r)
  <2>1. CASE Take(r, "J") /\ UNCHANGED dropped
    BY <1>14, <1>16, <2>1 DEF Drop
  <2>2. CASE Take(r, "C") /\ dropped' = dropped \cup {r}
    <3>1. Cardinality(members'[r]) = 0 /\ r \in dropped'
      BY <1>9, <1>16, <2>2, FS_EmptySet DEF Drop
    <3> QED
      BY <1>8, <2>2, <3>1
  <2> QED
    BY <1>16, <2>1, <2>2 DEF Drop
\* Members who go.
<1>17. ASSUME NEW S, members'[r] = members[r] \ S, down'[r] = down[r], on'[r] = on[r],
              dropped' = dropped
       PROVE  SeatRoom(r)'
  <2>1. Cardinality(members'[r]) \in Nat /\ Cardinality(members'[r]) <= m
    <3>1. members'[r] \subseteq members[r]
      BY <1>17
    <3> QED
      BY <1>2, <3>1, FS_Subset, FS_CardinalityType
  <2>2. ASSUME on[r] \/ r \in dropped PROVE Cardinality(members'[r]) + d + j <= Seats
    <3>1. m + d + j <= Seats
      BY <1>5, <2>2 DEF SeatRoom
    <3> HIDE DEF d, j, m
    <3> QED
      BY <1>4, <2>1, <3>1
  <2>3. \A i \in DOMAIN down[r] : down[r][i].cmd = "C" => (d - i + 1) + j <= Seats
    BY <1>5 DEF SeatRoom
  <2>4. ~on[r] /\ r \notin dropped => members'[r] = {}
    BY <1>5, <1>17 DEF SeatRoom
  <2> QED
    BY <1>5, <1>17, <2>2, <2>3, <2>4 DEF SeatRoom
<1>18. ASSUME NEW u \in Users, Quit(r, u) PROVE SeatRoom(r)'
  <2>1. /\ members'[r] = members[r] \ {u} /\ down'[r] = down[r] /\ on'[r] = on[r]
        /\ dropped' = dropped
    BY <1>2, <1>18 DEF Quit
  <2> QED
    BY <1>17, <2>1
<1>19. CASE QuitLate(r)
  <2>1. PICK S : members' = [members EXCEPT ![r] = @ \ S]
    BY <1>19 DEF QuitLate
  <2>2. /\ members'[r] = members[r] \ S /\ down'[r] = down[r] /\ on'[r] = on[r]
        /\ dropped' = dropped
    BY <1>2, <1>19, <2>1 DEF QuitLate
  <2> QED
    BY <1>17, <2>2
<1>20. CASE End(r) \/ EndLate(r)
  <2>1. /\ members'[r] = {} /\ down'[r] = down[r] /\ ~on'[r] /\ on[r] /\ dropped' = dropped
    BY <1>2, <1>20 DEF End, EndLate, ClearRoom
  <2>2. ~Called(r) /\ r \notin dropped
    BY <1>6, <2>1 DEF Grant
  <2>3. \A i \in DOMAIN down'[r] : down'[r][i].cmd # "C"
    BY <2>1, <2>2 DEF Called
  <2> QED
    BY <2>1, <2>2, <2>3 DEF SeatRoom
<1> QED
  BY <1>10, <1>11, <1>13, <1>15, <1>16, <1>18, <1>19, <1>20 DEF Room

\* The inductive step of SeatInv.
LEMMA SeatStep ==
  TypeOK /\ OneGrant /\ FirstInv /\ TotalInv /\ SeatInv /\ [Next]_vars => SeatInv'
<1> SUFFICES ASSUME TypeOK, OneGrant, FirstInv, TotalInv, SeatInv, [Next]_vars PROVE SeatInv'
  OBVIOUS
<1>1. ASSUME UNCHANGED <<at, room, on, members, down, dropped>> PROVE SeatInv'
  BY <1>1, SeatsKept DEF Joiners
<1>2. CASE UNCHANGED vars
  BY <1>1, <1>2 DEF vars, workers, pipes, rooms
<1>3. CASE MainThread
  BY <1>1, <1>3 DEF MainThread, CountRoom, FreeRoom, CountQuit, workers, pipes, rooms
<1>4. CASE LoseRoom
  BY <1>1, <1>4 DEF LoseRoom, workers, pipes, rooms
<1>5. ASSUME NEW u \in Users, User(u) PROVE SeatInv'
  BY <1>1, <1>5 DEF User, Connect, HangUp, workers, pipes, rooms
<1>6. CASE Step
  BY <1>3, <1>4, <1>5, <1>6, WorkerSeats, RoomSeats DEF Step
<1> QED
  BY <1>2, <1>6 DEF Next, Rest

\* A worker reads total without room->lock, and takes the lock later (dowithuser,
\* JOIN_MEETING); all the same the members are at most MaxTotal and one for every
\* other worker.
THEOREM SeatsAreFew == Spec => []Overbooked
<1>1. Init => SeatInv
  BY DEF Init, SeatInv, SeatRoom
<1>2. TypeOK /\ SeatInv => Overbooked
  <2> SUFFICES ASSUME TypeOK, SeatInv, NEW r \in Rooms PROVE Cardinality(members[r]) <= Seats
    BY DEF Overbooked, Seats
  <2>1. /\ Cardinality(members[r]) \in Nat /\ Len(down[r]) \in Nat
        /\ Cardinality(Joiners(r)) \in Nat /\ Seats \in Nat
    BY OwedTypes, SeatTypes
  <2>2. CASE on[r] \/ r \in dropped
    <3>1. Cardinality(members[r]) + Len(down[r]) + Cardinality(Joiners(r)) <= Seats
      BY <2>2 DEF SeatInv, SeatRoom
    <3> QED
      BY <2>1, <3>1
  <2>3. CASE ~(on[r] \/ r \in dropped)
    <3>1. Cardinality(members[r]) = 0
      BY <2>3, FS_EmptySet DEF SeatInv, SeatRoom
    <3> QED
      BY <2>1, <3>1
  <2> QED
    BY <2>2, <2>3
<1> QED
  BY <1>1, <1>2, InitTotal, TypeCorrect, GrantsAreExclusive, FirstHolds, TotalStep, SeatStep, PTL DEF Spec

===============================================================================
