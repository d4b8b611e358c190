------------------------- MODULE MCEscalationControl -------------------------
(* A small instance of EscalationControl, with a ceiling of 8 for 99, a       *)
(* penalty of 3 for 15, scores up to 9 for 100 and a start of 10, above the   *)
(* ceiling, which weak routes bring down to 0: smart requests, judged ones    *)
(* with the highest score, whose route in strict mode depends on the          *)
(* threshold, ones that strict mode refuses for their impact, and one with a  *)
(* cycle.                                                                     *)
EXTENDS EscalationControl

CONSTANTS r1, r2

Ask(smart, cycle, score, impact) ==
    [smart |-> smart, cycle |-> cycle, score |-> score, impact |-> impact]

MCAsks == {Ask(TRUE, FALSE, 0, "LOW"), Ask(FALSE, FALSE, 6, "MEDIUM"),
           Ask(FALSE, FALSE, 9, "HIGH"), Ask(FALSE, TRUE, 3, "LOW")}
TwoGoroutines == {r1, r2}
=============================================================================
