------------------------------- MODULE MCDeploy -------------------------------
EXTENDS DeployProps, TLC
Symmetry == Permutations(Proc) \cup Permutations(Key)
=============================================================================
