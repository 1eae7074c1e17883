---------------------------- MODULE MCMcpApproval ----------------------------
(* Instances of McpApproval for TLC.                                       *)
EXTENDS McpApproval, TLC

\* Random nonces are alike, and so are the threads of a server and the
\* terminals.
MCSymmetry ==
  Permutations(Nonces \ Legacy) \cup Permutations(Servers)
    \cup Permutations(Terminals)

=============================================================================
