----------------------------- MODULE MCDiscovery -----------------------------
(* A PF that enables two VFs, a GPU of an unknown model, and a network card    *)
(* with an address between them; three Gaudis, one without a network link and  *)
(* one with two, in slots that are not in the order of their addresses.        *)
EXTENDS Discovery

CONSTANTS pf, nic, vf0, vf1, old, g1, g2, g3

MCAddresses == <<pf, vf0, nic, vf1, old>>
MCIntelGpus == {pf, vf0, vf1, old}
MCKnown     == {pf, vf0, vf1}
MCVfsOf     == [p \in {pf} |-> <<vf0, vf1>>]
MCAutoProbe == {pf}

MCGaudis    == <<g1, g2, g3>>
MCModuleOf  == [d \in {g1, g2, g3} |-> CASE d = g1 -> 5 [] d = g2 -> 0 [] OTHER -> 3]
MCUverbsOf  == [d \in {g1, g2, g3} |-> CASE d = g1 -> {} [] d = g2 -> {1, 2} [] OTHER -> {0}]
=============================================================================
