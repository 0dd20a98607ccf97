----------------------------- MODULE RouteCache -----------------------------
(***************************************************************************)
(* What AudioHardware promises about mCurSndDevice, with no threads and no *)
(* lock: a route tells the driver a device and remembers it in one step,   *)
(* and the memory may be cleared between routes.  A route that fails is    *)
(* remembered all the same, and leaves the driver with either device.      *)
(***************************************************************************)
CONSTANTS Device, NoDevice

VARIABLES
  told,     \* the device the driver routes to
  known,    \* the device remembered
  sound     \* the last route succeeded

vars == <<told, known, sound>>

Init == told = NoDevice /\ known = NoDevice /\ sound = TRUE

Routed(d) == told' = d /\ known' = d /\ sound' = TRUE

Failed(d) == told' \in {told, d} /\ known' = d /\ sound' = FALSE

Forget == known' = NoDevice /\ UNCHANGED <<told, sound>>

Next == (\E d \in Device : Routed(d) \/ Failed(d)) \/ Forget

Spec == Init /\ [][Next]_vars
=============================================================================
