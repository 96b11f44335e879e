------------------------------ MODULE MCServer ------------------------------
(* Model values for the runs of Server.                                    *)
EXTENDS Server

CONSTANTS r1, r2

\* One request for an object in a namespace, one for a cluster-wide object.
MCNamespaceOf == [r \in {r1, r2} |-> IF r = r1 THEN "prod" ELSE ""]

MCRevisions == 0 .. 2

=============================================================================
