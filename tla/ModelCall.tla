------------------------------ MODULE ModelCall ------------------------------
(***************************************************************************)
(* What a call of a provider client promises the router that makes it: the *)
(* provider is asked a few times at most and never again once it has begun *)
(* to answer; text is handed over while it answers, the usage once, after  *)
(* all text; and what is returned as the answer is what was handed over.   *)
(***************************************************************************)
EXTENDS Naturals

CONSTANT MaxAsks

VARIABLES
    streamed,   \* the router gave a handler for the pieces
    phase,      \* "asking", "heard", "ok" or "error"
    asked,      \* requests sent
    given,      \* pieces the handler took
    closed,     \* the handler took the usage
    cut,        \* the provider's answer was broken off
    answer      \* pieces in the answer that is returned

vars == <<streamed, phase, asked, given, closed, cut, answer>>

Init ==
    /\ streamed \in BOOLEAN
    /\ phase = "asking"
    /\ asked = 0 /\ given = 0 /\ answer = 0
    /\ closed = FALSE /\ cut = FALSE

Ask ==
    /\ phase = "asking" /\ asked < MaxAsks
    /\ asked' = asked + 1
    /\ UNCHANGED <<streamed, phase, given, closed, cut, answer>>

Hear ==
    /\ phase = "asking" /\ asked > 0
    /\ phase' = "heard"
    /\ UNCHANGED <<streamed, asked, given, closed, cut, answer>>

Give ==
    /\ phase = "heard" /\ streamed
    /\ given' = given + 1
    /\ UNCHANGED <<streamed, phase, asked, closed, cut, answer>>

Succeed ==
    /\ phase = "heard"
    /\ phase' = "ok"
    /\ closed' = streamed
    /\ IF streamed THEN answer' = given ELSE answer' \in Nat
    /\ UNCHANGED <<streamed, asked, given, cut>>

Fail ==
    /\ phase \in {"asking", "heard"}
    /\ phase' = "error"
    /\ cut' \in BOOLEAN
    /\ UNCHANGED <<streamed, asked, given, closed, answer>>

Next == Ask \/ Hear \/ Give \/ Succeed \/ Fail

Spec == Init /\ [][Next]_vars
=============================================================================
