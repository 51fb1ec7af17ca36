--------------------------- MODULE MCDataGovernance ---------------------------
(* Instances of DataGovernance for TLC.                                      *)
EXTENDS DataGovernance

\* Both records belong to the project.
Located == [i \in 1 .. Count |-> CHOOSE p \in Projects : TRUE]

NoRules == {}
=============================================================================
