------------------------------ MODULE MCOutbox ------------------------------
(* Outbox with small sets: row ids are numbers, workers are model values.   *)
EXTENDS Outbox, TLC

CONSTANTS w1, w2

TwoRows    == {1, 2}
OneRow     == {1}
TwoWorkers == {w1, w2}
Symmetry   == Permutations(TwoWorkers)

=============================================================================
