----------------------------- MODULE MCRecovery -----------------------------
EXTENDS RecoveryInvariants, TLC

Symmetry == Permutations(Pid)
=============================================================================
