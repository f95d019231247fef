-------------------------- MODULE MCRemoteSession --------------------------
EXTENDS RemoteSession, TLC
CONSTANTS s1, s2
Perms == Permutations({s1, s2})
=============================================================================
