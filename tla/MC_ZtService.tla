---------------------------- MODULE MC_ZtService ----------------------------
(* ZtService for TLC: the calls each run lets the application make. *)
EXTENDS ZtService, TLC

CONSTANTS a1, a2, n1, n2, n3

Apps == Permutations({a1, a2})

OneApp == {a1}
TwoApps == {a1, a2}
OneNet == {n1}
TwoNets == {n1, n2}
ThreeNets == {n1, n2, n3}
NoneSaved == {}
OneSaved == {n1}
Always == {TRUE}
Sometimes == {TRUE, FALSE}
\* What a careful application calls, and what two careless threads call.
Blocking == {"start", "startjoin", "join", "leave", "stop"}
Nonblocking == {"start_nonblocking", "join", "stop"}
JustStartJoin == {"startjoin"}
StartJoinStop == {"startjoin", "stop"}
=============================================================================
