----------------------------- MODULE MCDevices -----------------------------
EXTENDS Devices, TLC
CONSTANTS d1, d2, k1, k2, w1
Perms == Permutations(Devices) \cup Permutations(Keys)
=============================================================================
