---------------------------- MODULE MCDataplane ----------------------------
(* Dataplane with a request for each dataplane, one that keeps it, DNS     *)
(* modes that every, some and no dataplane supports, and two CPU limits.   *)
EXTENDS Dataplane

Request(e, d, m, l) == [encap |-> e, dataplane |-> d, dnsMode |-> m, cpuLimit |-> l]

MCLimits == {"1", "2"}

MCRequests ==
  {Request(Unset, "bpf", "Inline", "1"), Request("ipip", "bpf", Unset, Unset),
   Request(Unset, "iptables", Unset, "1"), Request("none", "iptables", "Inline", Unset),
   Request(Unset, "nftables", "DelayDeniedPacket", Unset),
   Request("vxlan", "nftables", Unset, NoLimit),
   Request(Unset, Unset, "Inline", "2"), Request(Unset, Unset, Unset, Unset)}

=============================================================================
