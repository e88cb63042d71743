---------------------------- MODULE MCGroupWrite ----------------------------
EXTENDS GroupWrite, TLC

DocSymmetry == Permutations(Docs)
=============================================================================
