--------------------------- MODULE MCModelCatalog ---------------------------
(* A small instance of ModelCatalog: two providers, the second without a    *)
(* key in the settings; an older file with three models, two of them of the *)
(* same order; a file with a disabled instance, a disabled model and a      *)
(* placeholder for a variable that is not set, and one where a key is       *)
(* missing.                                                                 *)
EXTENDS ModelCatalog

MCModels == 1..3
MCEnv == [v \in {"unset"} |-> NoValue]
MCEnvKeys == [p \in {"p", "q"} |-> IF p = "p" THEN "set" ELSE NoValue]

Old(p, strong, order) == [provider |-> p, active |-> TRUE, strong |-> strong, order |-> order]
MCLegacy ==
    {<<Old("p", FALSE, 1), Old("q", TRUE, 2), Old("p", FALSE, 1)>>,
     <<Old("p", FALSE, 1)>>}

Sentinel ==
    [keys |-> [k \in {"p", "q"} |-> [type |-> k, value |-> IF k = "p" THEN "set" ELSE "unset"]],
     instances |-> [i \in {"p", "p2", "q"} |->
                      IF i = "p2" THEN [key |-> "p", enabled |-> FALSE]
                      ELSE [key |-> i]],
     models |-> <<[provider |-> "p", inst |-> "p"],
                  [provider |-> "q", insts |-> <<"q">>],
                  [provider |-> "p", insts |-> <<"p", "p2">>, enabled |-> FALSE]>>,
     weak |-> <<1>>, strong |-> <<2>>, judging |-> TRUE, judges |-> <<1>>]
MCFiles ==
    {Absent, Broken, Sentinel,
     [Sentinel EXCEPT !.keys = [k \in {"p"} |-> @[k]]]}

MCNewModels == {[provider |-> "q", inst |-> "q"], [provider |-> "p", inst |-> "p2"]}
MCUpdates ==
    {[enabled |-> FALSE], [enabled |-> TRUE], [insts |-> <<"p2">>], [insts |-> <<"p", "p">>],
     [provider |-> "q", insts |-> <<"q">>], [inst |-> "q"]}
MCOrders == {[weak |-> <<3, 1>>], [weak |-> <<3>>], [strong |-> <<2, 1>>]}
MCJudges == {[judging |-> FALSE], [judges |-> <<2>>], [judges |-> <<>>]}

\* No key, two at once, a new one without a type, an empty value.
MCKeys ==
    {[k \in {} |-> k],
     [q |-> [value |-> "new", type |-> "p"], r |-> [value |-> "unset", type |-> "q"]],
     [q |-> [value |-> "new"]], [r |-> [value |-> "new"]],
     [p |-> [value |-> "unset"]], [p |-> [value |-> NoValue]]}
=============================================================================
