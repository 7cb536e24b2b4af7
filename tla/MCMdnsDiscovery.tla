--------------------------- MODULE MCMdnsDiscovery ---------------------------
(* Three records are enough to overflow two addresses and to put any record *)
(* between an SRV and an address record; two nodes mix in one packet.       *)
EXTENDS MdnsDiscovery, TLC

Symmetry == Permutations(Node) \cup Permutations(Resolver)

==============================================================================
