--------------------------- MODULE MCAssemblyTable ---------------------------
(* Addresses that share slots in the tables of sizes 4, 9 and 19.          *)
EXTENDS AssemblyTable

CONSTANTS t1, t2

\* Multiples of 19 fill five consecutive slots of a table of 9 and cannot all
\* be placed in one of 19; 9 falls on the slots they take in the table of 9.
Clash == {0, 9, 19, 38, 57, 76}
=============================================================================
