------------------------- MODULE MCRefreshScheduler -------------------------
(***************************************************************************)
(* Instances of RefreshScheduler for TLC.                                  *)
(***************************************************************************)
EXTENDS RefreshScheduler

CONSTANTS s1, s2

\* Growing backoffs and the shortest one; s1 is refreshed by interval,
\* s2 never.
GrowingBackoff == <<1, 2>>
OneBackoff == <<1>>
ShortInterval == [s \in Sources |-> IF s = s1 THEN 1 ELSE 0]
IntervalOfFirst == [s \in Sources |-> IF s = s1 THEN 2 ELSE 0]

=============================================================================
