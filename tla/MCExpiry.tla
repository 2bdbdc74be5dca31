------------------------------ MODULE MCExpiry ------------------------------
(***************************************************************************)
(* A people counter and a GPS tracker whose evidence expires, and a door   *)
(* sensor whose evidence does not.                                         *)
(***************************************************************************)
EXTENDS Expiry

MCSource == {"counter", "gps", "door"}
MCLifetime == [counter |-> 3, gps |-> 2]
MCCounting == {"counter"}
MCMeasured == {"gps"}
MCCoverage == {"counter", "door"}
=============================================================================
