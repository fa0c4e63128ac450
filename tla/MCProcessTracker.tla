-------------------------- MODULE MCProcessTracker --------------------------
(* Instance of ProcessTracker: two threads, one pid, a log of two entries. *)
EXTENDS ProcessTracker, TLC

CONSTANTS t1, t2

Rule(pattern, read, write) ==
    [processName |-> pattern, allowRead |-> read, allowWrite |-> write, allowDelete |-> FALSE]

MCNames == {<<"a">>, <<"a", "b">>}
MCConfigRules == <<Rule(<<"*", "b">>, TRUE, FALSE), Rule(<<"a", "*">>, FALSE, TRUE)>>
MCRuleFiles == {MCConfigRules, <<Rule(<<"*", "a">>, FALSE, FALSE)>>}
MCSymmetry == Permutations({t1, t2})
=============================================================================
