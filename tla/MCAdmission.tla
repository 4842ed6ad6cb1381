----------------------------- MODULE MCAdmission -----------------------------
(* Model-checking instance of Admission: three requests for one key.  With *)
(* alpha 1 and beta 0 the limit moves between 1 and 2, so that it falls    *)
(* below the number of slots that are out.                                 *)
EXTENDS Admission

CONSTANTS r1, r2, r3, k1

OneKey == [r \in Requests |-> k1]
=============================================================================
