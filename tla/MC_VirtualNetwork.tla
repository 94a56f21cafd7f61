--------------------------- MODULE MC_VirtualNetwork ---------------------------
(***************************************************************************)
(* Three revisions, the first of two chunks; two ids, two slots and at     *)
(* most two updates under way, so that updates meet in the slots and evict *)
(* each other.  The first assigns three addresses of which two share a     *)
(* multicast group, and a global one, which the default settings refuse;   *)
(* the second keeps one of them and adds a link-local one; the third       *)
(* assigns one more than lwIP's table has entries.                         *)
(***************************************************************************)
EXTENDS VirtualNetwork

MCRev == 1..3
MCSize == <<2, 1, 1>>
MCUpdateId == 1..2
MCAddress == 1..6
MCKind == <<"private", "private", "private", "global", "local", "private">>
MCGroup == <<1, 1, 2, 3, 3, 2>>
MCAssigned == <<{1, 2, 3, 4}, {2, 5}, {1, 2, 3, 6}>>
MCSettings == [allowManaged |-> TRUE, whitelist |-> {},
               allowGlobal |-> FALSE, allowDefault |-> FALSE]

\* scanMulticastGroups finds a group in what std::unique left of a sorted vector
\* exactly when it is there, although the tail need not be in order.
ASSUME SearchFinds ==
  \A n \in 0..6 : \A s \in [1..n -> 1..4] :
    (\A i \in 1..(n - 1) : s[i] <= s[i + 1]) =>
      \A x \in 0..5 : binary_search(unique(s), x) <=> x \in Range(s)
=============================================================================
