---------------------------- MODULE LinkRegistry ----------------------------
(***************************************************************************)
(* What CtrlLinkTbl promises: a bounded register of links, one per client  *)
(* address and one per thread.                                             *)
(***************************************************************************)
EXTENDS Integers, FiniteSets

CONSTANTS Threads, Ips, MaxConnNum

VARIABLE links

TypeOK == links \subseteq Threads \X Ips

Init == links = {}

Register(t, ip) ==
    /\ Cardinality(links) < MaxConnNum
    /\ \A l \in links : l[1] # t /\ l[2] # ip
    /\ links' = links \cup {<<t, ip>>}

Unregister(l) ==
    /\ l \in links
    /\ links' = links \ {l}

Next ==
    \/ \E t \in Threads, ip \in Ips : Register(t, ip)
    \/ \E l \in links : Unregister(l)

Spec == Init /\ [][Next]_links
=============================================================================
