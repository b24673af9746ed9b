------------------------- MODULE MCScraperTaskStore -------------------------
(***************************************************************************)
(* Instances of ScraperTaskStore for TLC.                                  *)
(***************************************************************************)
EXTENDS ScraperTaskStore, TLC

\* Workers and configs are interchangeable, and no property names one.
StoreSymmetry == Permutations(Workers) \cup Permutations(Configs)

=============================================================================
