---------------------------- MODULE MCEventIngest ----------------------------
(* EventIngest with two requests in flight, three events and one worker.      *)
EXTENDS EventIngest, TLC

CONSTANTS s1, s2, c1, e1, e2, e3

TwoSlots    == {s1, s2}
OneConsumer == {c1}
ThreeIds    == {e1, e2, e3}
Symmetry    == Permutations(TwoSlots) \cup Permutations(ThreeIds)

=============================================================================
