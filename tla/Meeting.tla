------------------------------- MODULE Meeting -------------------------------
(***************************************************************************)
(* What a room promises its users, whatever its threads do: there is one   *)
(* meeting at a time, it is joined only while it is on, people leave it    *)
(* one by one, and its end puts everybody out at once; the next meeting    *)
(* starts from an empty room.                                              *)
(***************************************************************************)
CONSTANT People

VARIABLES on,       \* is a meeting on?
          members   \* who is in the room

Init == ~on /\ members = {}

\* The person who started the meeting may already have left.
Start ==
  /\ ~on /\ members = {}
  /\ on' = TRUE
  /\ members' = {} \/ \E p \in People : members' = {p}

Join(p) ==
  /\ on /\ p \notin members
  /\ members' = members \cup {p}
  /\ UNCHANGED on

Leave(p) ==
  /\ p \in members
  /\ members' = members \ {p}
  /\ UNCHANGED on

End == on /\ on' = FALSE /\ members' = {}

Next == Start \/ End \/ \E p \in People : Join(p) \/ Leave(p)

Spec == Init /\ [][Next]_<<on, members>>
=============================================================================
