-------------------------- MODULE MCControllerTree --------------------------
(* What ObservationControl asks of its children.                             *)
EXTENDS ControllerTree

Observation == {CLAIMED, RESUMED, QUITED}

=============================================================================
