--------------------------- MODULE MCStreamBridge ---------------------------
(* StreamBridge with the two workers of deploy/supervisor.conf.             *)
EXTENDS StreamBridge

CONSTANTS c1, c2, e1, e2

TwoConsumers == {c1, c2}
TwoIds       == {e1, e2}
OneStable    == {c1}
OneDeletable == {e2}

=============================================================================
