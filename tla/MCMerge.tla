------------------------------ MODULE MCMerge ------------------------------
(***************************************************************************)
(* Finite instances of Merge.                                              *)
(***************************************************************************)
EXTENDS Merge, TLC

CONSTANTS a, b, c, d, e, f, t1, t2

MCSpans == {a, b, c, d, e, f}
MCTraces == {t1, t2}
MCHours == {1, 2, 3}
MCHourOf == [s \in MCSpans |-> CASE s = b -> 2 [] s = d -> 3 [] OTHER -> 1]
MCTraceOf == [s \in MCSpans |-> IF s \in {a, b} THEN t1 ELSE t2]
MCDays == {1, 2}
MCDayOf == (1 :> 1) @@ (2 :> 1) @@ (3 :> 2)

\* Segment 1 spans two hours and segment 4 two days; segment 2 is in another
\* tier than its neighbours, and segment 4 brings a again, the retry of a
\* request that was already flushed.
MCSegments == <<{a, b}, {c, e}, {f}, {a, d}>>

\* A backfill: one segment over four hours of a day.
BackfillSpans == {a, b, c, d}
BackfillHours == {1, 2, 3, 4}
BackfillHourOf == (a :> 1) @@ (b :> 2) @@ (c :> 3) @@ (d :> 4)
BackfillTraceOf == [s \in BackfillSpans |-> t1]
BackfillDayOf == [h \in BackfillHours |-> 1]
BackfillSegments == <<BackfillSpans>>
=============================================================================
