---------------------------- MODULE MC_AngConfig ----------------------------
(* AngConfig with subscriptions that answer with no server, with one, with    *)
(* two, or with one after an entry that is turned away.                       *)
EXTENDS AngConfig, TLC

CONSTANTS home, work, bad, n1

Two == {home, work}
SomeReplies == {<< >>} \cup {<<r>> : r \in Two} \cup {<<bad, r>> : r \in Two}
                 \cup {<<home, work>>, <<work, home>>}
Swap == Permutations(Two)
OneThread == {n1}

\* Once a thread has used the list while another replaced it, nothing is
\* promised: behaviours are followed up to there.
UntilOverlap == ~overlap

\* Bound: the file is behind by at most one change.
Lag == stored.disk # stored.now => stored'.now \in {stored.now, stored.disk}
=============================================================================
