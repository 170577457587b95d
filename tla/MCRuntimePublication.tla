-------------------------- MODULE MCRuntimePublication --------------------------
(* Two packets of two fields, a generation that comes round after four,    *)
(* and one publication during a copy: as many as the assumption allows.    *)
EXTENDS RuntimePublication

CONSTANTS p, q, f1, f2

OneDuring == [s \in Shapes |-> 1]
=============================================================================
