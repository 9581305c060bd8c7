------------------------------ MODULE MCServer ------------------------------
(* A bounded instance of Server: a pool of two connections, as many lookups as *)
(* can block it, and requests of the other kinds beside them.                  *)
EXTENDS Server

CONSTANTS r1, r2, r3, r4

MCKind == [r \in Request |->
    IF r \in {r1, r2} THEN "lookup" ELSE IF r = r3 THEN "query" ELSE "report"]
=============================================================================
