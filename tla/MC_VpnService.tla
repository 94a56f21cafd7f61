---------------------------- MODULE MC_VpnService ----------------------------
(* VpnService for TLC. *)
EXTENDS VpnService, TLC

CONSTANTS c1, c2, k1, k2

Configs == {c1, c2}
Instances == {k1, k2}
Swap == Permutations(Configs) \cup Permutations(Instances)

MaxNews == 3 \* bound: broadcasts a view has yet to hear when something is still asked for

\* Once something has met a core coming up, nothing is promised.
UntilCaught == ~caught /\ \A v \in View : Len(news[v]) <= MaxNews
=============================================================================
