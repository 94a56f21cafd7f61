----------------------------- MODULE TapAddresses -----------------------------
(***************************************************************************)
(* What a configuration does to libzt's tap: the service keeps the         *)
(* addresses of the tap those the configuration assigns                    *)
(* (src/libzt/ext/ZeroTierOne/service/OneService.cpp, syncManagedStuff),   *)
(* the tap registers each with lwIP and derives from them the multicast    *)
(* groups the node subscribes to (src/libzt/src/VirtualTap.cpp).           *)
(***************************************************************************)
EXTENDS Integers, Sequences, FiniteSets, Functions

CONSTANTS
  Address,    \* managed addresses, numbers in the order of InetAddress::operator<
  Kind,       \* of each: "private", "global", "default" or "local" (the scopes
              \* none, multicast, loopback and link local)
  Group,      \* the multicast group derived from each, a number; IPv6 addresses
              \* with the same last three bytes share one
  Settings,   \* of networks.d/<id>.local.conf; nothing the application calls
              \* writes that file, so in it they are the defaults
  NetifSlots  \* the length of lwipInterfaces

ASSUME TapAssumption ==
  /\ Address \subseteq Nat /\ IsFiniteSet(Address)
  /\ Kind \in [Address -> {"private", "global", "default", "local"}]
  /\ Group \in [Address -> Nat]
  /\ Settings \in [allowManaged : BOOLEAN, whitelist : SUBSET Address,
                   allowGlobal : BOOLEAN, allowDefault : BOOLEAN]
  /\ NetifSlots \in Nat

VARIABLES
  managedIps,  \* NetworkState.managedIps: what the service believes it added
  tapIps,      \* VirtualTap::_ips
  netifs,      \* lwipInterfacesCount: lwIP's interfaces, one for each address added
  groups,      \* VirtualTap::_multicastGroups
  changes,     \* mgChanges: <<added, removed>>, which the main loop has from
               \* the tap and has yet to tell the node; empty when there is none
  mine,        \* Network::_myMulticastGroups
  withdrawn,   \* an address has been removed since the process started
  broken       \* "no", or the undefined behaviour met: "erase" or "table"

tapvars == <<managedIps, tapIps, netifs, groups, changes, mine, withdrawn, broken>>

NoTap ==
  /\ managedIps = {} /\ tapIps = {} /\ netifs = 0
  /\ groups = << >> /\ changes = << >> /\ mine = {}
  /\ withdrawn = FALSE /\ broken = "no"

\* The process is gone, and lwIP with it.
TapDies ==
  /\ managedIps' = {} /\ tapIps' = {} /\ netifs' = 0
  /\ groups' = << >> /\ changes' = << >> /\ mine' = {}
  /\ withdrawn' = FALSE
  /\ UNCHANGED broken

checkIfManagedIsAllowed(a) ==
  /\ Settings.allowManaged
  /\ Settings.whitelist = {} \/ a \in Settings.whitelist
  /\ CASE Kind[a] = "default" -> Settings.allowDefault
       [] Kind[a] = "global" -> Settings.allowGlobal
       [] Kind[a] = "private" -> TRUE
       [] Kind[a] = "local" -> FALSE

Allowed(assigned) == {a \in assigned : checkIfManagedIsAllowed(a)}

RemoveNothing(ips, gone) == ips

\* removeIp erases what std::find returned: the address must be there.
removeIp(ips, gone) == ips \ gone

\* addIp registers an address with lwIP before it looks whether the tap has it,
\* and lwIP has no way to take an interface back.
addIp(ips, come) == ips \cup come
lwip_init_interface(ifs, come) == ifs + Cardinality(come)

SyncAddsAll(assigned) ==
  LET new == Allowed(assigned)
      gone == managedIps \ new
  IN /\ tapIps' = addIp(removeIp(tapIps, gone), new)
     /\ netifs' = lwip_init_interface(netifs, new)
     /\ managedIps' = new
     /\ withdrawn' = (withdrawn \/ gone # {})
     /\ broken' = IF netifs' > NetifSlots THEN "table" ELSE "no"
     /\ UNCHANGED <<groups, changes, mine>>

SyncForgetsGone(assigned) ==
  LET new == Allowed(assigned)
      gone == managedIps \ new
      come == new \ managedIps
  IN /\ tapIps' = addIp(removeIp(tapIps, gone), come)
     /\ netifs' = lwip_init_interface(netifs, come)
     /\ managedIps' = managedIps \cup new
     /\ withdrawn' = (withdrawn \/ gone # {})
     /\ broken' = IF ~(gone \subseteq tapIps) THEN "erase"
                  ELSE IF netifs' > NetifSlots THEN "table"
                  ELSE "no"
     /\ UNCHANGED <<groups, changes, mine>>

\* What the new configuration no longer has is removed from the tap, then what
\* the old one did not have is added.
syncManagedStuff(assigned) ==
  LET new == Allowed(assigned)
      gone == managedIps \ new
      come == new \ managedIps
  IN /\ tapIps' = addIp(removeIp(tapIps, gone), come)
     /\ netifs' = lwip_init_interface(netifs, come)
     /\ managedIps' = new
     /\ withdrawn' = (withdrawn \/ gone # {})
     /\ broken' = IF ~(gone \subseteq tapIps) THEN "erase"
                  ELSE IF netifs' > NetifSlots THEN "table"
                  ELSE "no"
     /\ UNCHANGED <<groups, changes, mine>>

-----------------------------------------------------------------------------
(* Multicast groups.                                                       *)

\* std::sort: the values of f, one for each argument, in ascending order.  Fewer
\* than i of them are less than the i-th, and at least i are not greater.
sort(f) ==
  [i \in 1..Cardinality(DOMAIN f) |->
     CHOOSE v \in Range(f) : /\ Cardinality({a \in DOMAIN f : f[a] < v}) < i
                             /\ i <= Cardinality({a \in DOMAIN f : f[a] <= v})]

\* std::unique without the erase that goes with it: the distinct elements of a
\* sorted sequence move to its front, and what was behind them stays.
unique(s) ==
  LET front == sort([i \in {j \in DOMAIN s : j = 1 \/ s[j - 1] # s[j]} |-> i])
  IN [i \in DOMAIN s |-> IF i <= Len(front) THEN s[front[i]] ELSE s[i]]

\* std::binary_search, on a sequence that need not be sorted.  lower is the loop
\* of std::lower_bound: where it ends when n elements from lo on are left.
binary_search(s, x) ==
  LET lower[n \in 0..Len(s)] ==
        [lo \in 0..Len(s) |->
           IF n = 0 THEN lo
           ELSE IF s[lo + (n \div 2) + 1] < x
                THEN lower[n - (n \div 2) - 1][lo + (n \div 2) + 1]
                ELSE lower[n \div 2][lo]]
      i == lower[Len(s)][0] + 1
  IN i <= Len(s) /\ ~(x < s[i])

\* The groups of the tap's addresses, sorted, one for each address.
GroupsOf(ips) == sort([a \in ips |-> Group[a]])

\* What scanMulticastGroups makes of each set of addresses, and what it finds
\* in that.
TapGroups == [ips \in SUBSET Address |-> unique(GroupsOf(ips))]
Found == {f \in Range(TapGroups) \X Range(Group) : binary_search(f[1], f[2])}

NotFoundIn(s, t) == {g \in Range(s) : <<t, g>> \notin Found}

ScanForgets ==
  LET newGroups == TapGroups[tapIps]
      added == NotFoundIn(newGroups, groups)
      removed == NotFoundIn(groups, newGroups)
  IN /\ changes = << >>
     /\ changes' = IF added \cup removed = {} THEN << >> ELSE <<added, removed>>
     /\ UNCHANGED <<managedIps, tapIps, netifs, groups, mine, withdrawn, broken>>

\* The main loop, under _nets_m: what has come and what has gone since the tap
\* was last asked.
scanMulticastGroups ==
  LET newGroups == TapGroups[tapIps]
      added == NotFoundIn(newGroups, groups)
      removed == NotFoundIn(groups, newGroups)
  IN /\ changes = << >>
     /\ changes' = IF added \cup removed = {} THEN << >> ELSE <<added, removed>>
     /\ groups' = newGroups
     /\ UNCHANGED <<managedIps, tapIps, netifs, mine, withdrawn, broken>>

\* The main loop, after it: multicastSubscribe and multicastUnsubscribe.
multicastSync ==
  /\ changes # << >> /\ changes' = << >>
  /\ mine' = (mine \cup changes[1]) \ changes[2]
  /\ UNCHANGED <<managedIps, tapIps, netifs, groups, withdrawn, broken>>
=============================================================================
