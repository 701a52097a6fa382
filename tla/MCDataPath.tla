----------------------------- MODULE MCDataPath ------------------------------
(* The instance of DataPath that TLC checks.  Flows are interchangeable,   *)
(* as the run gives every class of flows (Unparsed, Unmatched, Plain) no   *)
(* member, and so are clients; the properties are invariants.              *)
EXTENDS DataPath, TLC

Symmetry == Permutations(Flows) \cup Permutations(Clients)
=============================================================================
