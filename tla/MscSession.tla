----------------------------- MODULE MscSession -----------------------------
(***************************************************************************)
(* What the USB host promises the mass-storage class about its sessions: a *)
(* session has a handle of its own, allocated while the device is there,   *)
(* and no handle outlives the device.  The host enters HOST_CLASS once for *)
(* each handle; a host that gave up leaves the handle behind, lost, until  *)
(* the next one is allocated or the device was unplugged.  The volume is   *)
(* unmounted after the handle was freed and before there is another.       *)
(***************************************************************************)
VARIABLES
  connected,  \* phost->device.is_connected
  session,    \* "none" without a class handle, "opened" when it was
              \* allocated, "class" in HOST_CLASS, "lost" when the host left
              \* it, "closing" when it is freed and the user is told
  mounted     \* the file system has a volume on the disk

sessionVars == <<connected, session, mounted>>

Init == connected = FALSE /\ session = "none" /\ mounted = FALSE

(* A device is noticed only when the last one is forgotten.                *)
Connect ==
  /\ ~connected /\ session \in {"none", "closing"} /\ connected' = TRUE
  /\ UNCHANGED <<session, mounted>>

Disconnect == connected /\ connected' = FALSE /\ UNCHANGED <<session, mounted>>

(* The handle of a lost session is leaked.                                 *)
Open ==
  /\ connected /\ session \in {"none", "lost"} /\ session' = "opened"
  /\ UNCHANGED <<connected, mounted>>

(* The class turned out not to be ours, or its Init failed.                *)
Forget ==
  /\ connected /\ session = "lost" /\ session' = "none"
  /\ UNCHANGED <<connected, mounted>>

Enter ==
  /\ connected /\ session = "opened" /\ session' = "class"
  /\ UNCHANGED <<connected, mounted>>

(* The user mounts the volume, which may fail.                             *)
Activate ==
  /\ connected /\ session = "class" /\ mounted' \in {mounted, TRUE}
  /\ UNCHANGED <<connected, session>>

(* A control request was given up.                                         *)
Lose ==
  /\ session \in {"opened", "class"} /\ session' = "lost"
  /\ UNCHANGED <<connected, mounted>>

Close ==
  /\ ~connected /\ session # "closing" /\ session' = "closing"
  /\ UNCHANGED <<connected, mounted>>

Unmount ==
  /\ session = "closing" /\ session' = "none" /\ mounted' = FALSE
  /\ UNCHANGED connected

Next ==
  \/ Connect \/ Disconnect \/ Open \/ Forget \/ Enter
  \/ Activate \/ Lose \/ Close \/ Unmount

Spec == Init /\ [][Next]_sessionVars

=============================================================================
