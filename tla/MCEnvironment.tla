--------------------------- MODULE MCEnvironment ---------------------------
(***************************************************************************)
(* Instances of the environment: one variable more than the table has      *)
(* buckets, the first two of which have the same path.                     *)
(***************************************************************************)
EXTENDS Environment

MCHash == [n \in Names |-> IF n < 3 THEN 1 ELSE 2]
MCDefault == [n \in Names |-> IF n \in {1, 3} THEN "a" ELSE None]
MCRefused == {<<2, "b">>, <<3, None>>}
MCBlock == [n \in Names |-> IF n < 3 THEN 1 ELSE 2]
=============================================================================
