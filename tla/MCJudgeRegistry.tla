--------------------------- MODULE MCJudgeRegistry ---------------------------
(* Two judges in order, two evaluations that overlap. *)
EXTENDS JudgeRegistry

CONSTANTS a, b, e1, e2

AThenB == <<a, b>>

\* Both judges, or the first one without a key.
MCConfigured == {{a, b}, {b}}
=============================================================================
