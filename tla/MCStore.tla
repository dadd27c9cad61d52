------------------------------ MODULE MCStore ------------------------------
(***************************************************************************)
(* Finite instances of Store. Three requests: r1 carries two spans of two  *)
(* hours, r2 re-sends one of them (a retry), r3 carries another span of    *)
(* the first hour.                                                         *)
(***************************************************************************)
EXTENDS Store, TLC

CONSTANTS r1, r2, r3, a, b, c

MCSpans == {a, b, c}
MCHours == {1, 2}
MCHourOf == [s \in MCSpans |-> IF s = b THEN 2 ELSE 1]
MCRequests == {r1, r2, r3}
MCBatch == (r1 :> {a, b}) @@ (r2 :> {a}) @@ (r3 :> {c})
=============================================================================
