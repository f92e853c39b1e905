------------------------- MODULE MCGatewaySessions -------------------------
EXTENDS GatewaySessions, TLC

(* Ports, session ids and gateways are only compared, so they may be       *)
(* permuted; used by the run that checks invariants only.                  *)
Symmetry == Permutations(Ports) \cup Permutations(Sessions)
            \cup Permutations(Gateways)
=============================================================================
