--------------------------- MODULE MCBlockCollector ---------------------------
(* Values for the constants of BlockCollector: two subbands, that come over  *)
(* one connection or over two.                                               *)
EXTENDS BlockCollector

CONSTANTS s1, s2, r1, r2

OneOwner == [s \in {s1, s2} |-> r1]
TwoOwners == [s \in {s1, s2} |-> IF s = s1 THEN r1 ELSE r2]

=============================================================================
