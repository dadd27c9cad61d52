------------------------------ MODULE SpanLog ------------------------------
(***************************************************************************)
(* What evald's store promises to its clients, with no WAL, no tiers and   *)
(* no compactor: a set of spans that only grows while the process runs,    *)
(* shrinks only by retention, and after a restart holds at least every     *)
(* span whose request was acknowledged.                                    *)
(***************************************************************************)
CONSTANT Spans

VARIABLES
    up,         \* the store is open
    visible,    \* what a read of the whole store returns
    owed        \* acknowledged spans that retention has not expired

vars == <<up, visible, owed>>

Init == up = FALSE /\ visible = {} /\ owed = {}

\* A request becomes readable and its client is told so.
Accept(S) ==
    /\ up
    /\ visible' = visible \cup S
    /\ owed' = owed \cup S
    /\ UNCHANGED up

\* Retention: the store no longer owes S, and drops T, none of it still owed.
Expire(S, T) ==
    /\ up
    /\ owed' = owed \ S
    /\ visible' = visible \ T
    /\ T \cap owed' = {}
    /\ UNCHANGED up

Stop ==
    /\ up /\ up' = FALSE
    /\ visible' = {}
    /\ UNCHANGED owed

\* Besides what it owes, a restarted store may show spans it never
\* acknowledged: a request may be durable although its reply was lost.
Start ==
    /\ ~up /\ up' = TRUE
    /\ owed \subseteq visible' /\ visible' \subseteq Spans
    /\ UNCHANGED owed

Next ==
    \/ Stop \/ Start
    \/ \E S \in SUBSET Spans : Accept(S)
    \/ \E S \in SUBSET owed, T \in SUBSET visible : Expire(S, T)

Spec == Init /\ [][Next]_vars

\* A running store returns every span it owes.
PromiseKept == up => owed \subseteq visible
=============================================================================
