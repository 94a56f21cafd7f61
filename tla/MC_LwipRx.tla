----------------------------- MODULE MC_LwipRx -----------------------------
(* LwipRx for TLC: the kinds of frames each run lets arrive. *)
EXTENDS LwipRx

Ip(a) == [type |-> "ip", dest |-> a]
Other(t) == [type |-> t, dest |-> Broadcast]

\* Frames for one address, for all, for none, and ARP frames.
Mixed == {Ip(a) : a \in V4} \cup {Ip(Broadcast), Other("ipv6"), Other("arp")}
IPv6Only == {Other("ipv6")}
Unicast == {Ip(a) : a \in V4}
=============================================================================
