--------------------------- MODULE MCPasswordReset ---------------------------
EXTENDS PasswordReset, TLC

Symmetry == Permutations(Requests) \cup Permutations(Passwords)
==============================================================================
