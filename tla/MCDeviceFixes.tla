--------------------------- MODULE MCDeviceFixes ---------------------------
(***************************************************************************)
(* Two spots and two bindings, four updates of the tracker.                *)
(***************************************************************************)
EXTENDS DeviceFixes

CONSTANTS Here, There
MCSpot == {Here, There}
MCBinding == {"first", "changed"}
=============================================================================
