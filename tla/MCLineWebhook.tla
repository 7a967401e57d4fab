---------------------------- MODULE MCLineWebhook ----------------------------
(***************************************************************************)
(* LineWebhook for TLC: a message e1, a message e2 and an event e3 that    *)
(* gets no answer; each may arrive before or behind another.               *)
(***************************************************************************)
EXTENDS LineWebhook, TLC

CONSTANTS e1, e2, e3

MCEvents == {e1, e2, e3}
MCAnswered == {e1, e2}
MCBatches == {<<e1, e2>>, <<e2, e3>>, <<e3, e1>>}

Symmetry == Permutations(Calls)

=============================================================================
