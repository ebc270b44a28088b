--------------------------- MODULE MCFileService -----------------------------
(* Two places with C clients, one with a Python client, two salts.         *)
EXTENDS FileService

CONSTANTS c1, c2, c3, ann, bob, nil, w1, w2, s1, s2, k1, k2, k3

T == INSTANCE TLC

\* Safety does not depend on which client, salt, password or connection is which.
Alike == T!Permutations(CClients) \cup T!Permutations(Salts)
         \cup T!Permutations(Passwords) \cup T!Permutations(Conns)
=============================================================================
