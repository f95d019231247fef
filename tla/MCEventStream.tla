--------------------------- MODULE MCEventStream ---------------------------
EXTENDS EventStream, TLC
CONSTANTS d1, k1, k2, t1, t2
Published == {[topic |-> t1, target |-> All], [topic |-> t2, target |-> All],
              [topic |-> NoTopic, target |-> Others]}
PublishedOne == {[topic |-> t1, target |-> All], [topic |-> NoTopic, target |-> Others]}
Perms == Permutations(Conns) \cup Permutations(Topics)
=============================================================================
