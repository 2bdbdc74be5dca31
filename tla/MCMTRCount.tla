----------------------------- MODULE MCMTRCount -----------------------------
(* Two calibrated zones of two areas and the total. *)
EXTENDS MTRCount

CONSTANTS z1, z2, kitchen, hall

MCAreaOf == [z \in {z1, z2} |-> IF z = z1 THEN kitchen ELSE hall]

=============================================================================
