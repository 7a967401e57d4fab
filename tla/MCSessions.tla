------------------------------ MODULE MCSessions ------------------------------
(***************************************************************************)
(* Sessions and LineLogin for TLC.  A login is modelled up to the issue of *)
(* its tokens in LineLogin and from there in Sessions, and they share no   *)
(* state: a behaviour is one of the module that `part` names.  Tokens      *)
(* and calls are interchangeable.                                          *)
(***************************************************************************)
EXTENDS Sessions, LineLogin, TLC

VARIABLE part
mcVars == <<vars, loginVars, part>>

MCInit == part \in {"sessions", "login"} /\ Init /\ LoginInit

MCNext ==
    /\ UNCHANGED part
    /\ \/ part = "sessions" /\ Next /\ UNCHANGED loginVars
       \/ part = "login" /\ LoginNext /\ UNCHANGED vars

MCSpec == MCInit /\ [][MCNext]_mcVars

Symmetry == Permutations(Tokens) \cup Permutations(Calls)

=============================================================================
