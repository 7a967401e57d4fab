----------------------- MODULE MCMarketNotifications -----------------------
(***************************************************************************)
(* MarketNotifications for TLC: replicas and users are interchangeable.    *)
(***************************************************************************)
EXTENDS MarketNotifications, TLC

Symmetry == Permutations(Replicas) \cup Permutations(Users)

=============================================================================
