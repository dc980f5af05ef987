---------------------------- MODULE MCRoomProcess ----------------------------
(* Small rooms.  Descriptors are the numbers 1.. ; the send threads are      *)
(* interchangeable.                                                          *)
EXTENDS RoomProcess, TLC

CONSTANTS Leavers,   \* those whose user may leave
          Talkers   \* those whose user may say something, once

\* Every connection comes from an address of its own.
OwnIp == [c \in Conns |-> c]

\* All but the creators' come from one address: a user who leaves and comes back.
SameIp == [c \in Conns |-> IF c \in Creators THEN "owner" ELSE "guest"]

Plan(leavers, speakers) ==
  [c \in Conns |-> [leave |-> c \in leavers, data |-> IF c \in speakers THEN 1 ELSE 0]]

LeaveAndSpeak == {Plan(Leavers, Talkers)}

\* Either nobody speaks and the owner may leave too, or he stays and they speak.
LeaveOrSpeak == {Plan(Leavers, {}), Plan(Leavers \ Creators, Talkers)}

Symmetry == Permutations(Senders)
=============================================================================
