-------------------------- MODULE MCSwitchRegistry --------------------------
(* SwitchRegistry on a small instance; the connections and the addresses    *)
(* are interchangeable.                                                     *)
EXTENDS SwitchRegistry, TLC

CONSTANTS c1, c2, c3, mario, p, q

Symmetry == Permutations(Conns) \cup Permutations(Peers)
=============================================================================
