-------------------------- MODULE MCWorkspaceApply --------------------------
(***************************************************************************)
(* Instances of WorkspaceApply for TLC.                                    *)
(***************************************************************************)
EXTENDS WorkspaceApply

\* The last target in sorted order is the dotenv file of every secret.
MCDotenv == [s \in Secrets |-> NFiles]

MCNested == {1}

MCNoNested == {}

=============================================================================
