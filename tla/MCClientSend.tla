---------------------------- MODULE MCClientSend ----------------------------
(* The scenarios TLC explores: each uses a part of the client, so that the   *)
(* state space is the sum of theirs and not their product.                   *)
EXTENDS ClientSend

Scenario(use, s, t, m) == [uses |-> use, sessions |-> s, texts |-> t, made |-> m]

SendScenarios == {
  Scenario({"texts"}, 2, 3, 0),
  Scenario({"texts", "partners"}, 1, 2, 0),
  Scenario({"texts", "RemoteHostClosedError"}, 1, 2, 0),
  Scenario({"texts", "OtherNetError"}, 1, 2, 0),
  Scenario({"texts", "camera", "partners"}, 1, 1, 1),
  Scenario({"camera", "closing", "partners"}, 1, 1, 2),
  Scenario({"camera", "microphone", "partners"}, 1, 0, 2),
  Scenario({"camera", "microphone", "RemoteHostClosedError"}, 2, 0, 2),
  Scenario({"microphone", "partners", "RemoteHostClosedError"}, 1, 0, 2),
  Scenario({"loudspeaker", "partners", "RemoteHostClosedError"}, 2, 0, 0),
  Scenario({"texts", "loudspeaker", "partners"}, 1, 1, 0),
  Scenario({"texts", "news", "RemoteHostClosedError"}, 1, 1, 0)}
=============================================================================
