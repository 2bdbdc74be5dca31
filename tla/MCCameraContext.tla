-------------------------- MODULE MCCameraContext --------------------------
(***************************************************************************)
(* A camera with two profiles, one preset and two zones; measured intervals *)
(* of one profile, two of which start at the same instant.                 *)
(***************************************************************************)
EXTENDS CameraContext

MCTime == 1 .. 3
MCProfile == {"hall", "room"}
MCPreset == {"home"}
MCMoving == {"moving"}
MCStable == {"available"}
MCOther == {"unavailable"}
Measured(p, s, e) == [profile |-> p, from |-> s, until |-> e]
MCBatches == {<<Measured("hall", 1, 2)>>,
              <<Measured("room", 2, 3), Measured("hall", 2, 3)>>}
MCZone == {"door", "desk"}
MCZoneArea == [door |-> "hall", desk |-> "room"]
MCProfileArea == [hall |-> "hall"]
=============================================================================
