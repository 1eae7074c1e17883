------------------------- MODULE MCWorkspaceRequest -------------------------
(* Instances of WorkspaceRequest for TLC.                                  *)
EXTENDS WorkspaceRequest, TLC

CONSTANTS a1, a2, a3, b1

\* Bases a1, a2 and a3 are plans for one workspace, b1 for another.
MCScopeOf == [b \in {a1, a2, a3, b1} |-> IF b = b1 THEN "B" ELSE "A"]

\* Identifiers are random; clients, and plans for one workspace, are alike.
MCSymmetry ==
  Permutations(Ids) \cup Permutations(Clients) \cup Permutations({a1, a2, a3})

=============================================================================
