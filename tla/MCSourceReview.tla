--------------------------- MODULE MCSourceReview ---------------------------
(***************************************************************************)
(* A tracker and two radars: one on the device of the tracker, one without *)
(* a device.  The radars may be given each other's names, and the first    *)
(* may be disabled.                                                        *)
(***************************************************************************)
EXTENDS SourceReview

CONSTANTS tracker, radar, lone, hub, t1, b1, b2, b3

MCNameOf ==
    [e \in Entry |-> CASE e = tracker -> {t1} [] e = radar -> {b1, b2} [] OTHER -> {b1, b3}]

MCKindOf ==
    [e \in Entry |-> {"absent", "unready"} \cup
        (CASE e = tracker -> {"waiting"}
           [] e = radar -> {"ready", "other"}
           [] OTHER -> {"ready"})]

MCDeviceOf == [e \in Entry |-> IF e = lone THEN Missing ELSE hub]

Kinds(first, second, third) ==
    [e \in Entry |->
        CASE e = tracker -> [name |-> t1, kind |-> first]
          [] e = radar -> [name |-> b1, kind |-> second]
          [] OTHER -> [name |-> b3, kind |-> third]]

MCInitialRegistries ==
    {Kinds("absent", "absent", "absent"), Kinds("waiting", "ready", "absent"),
     Kinds("unready", "absent", "unready")}
=============================================================================
