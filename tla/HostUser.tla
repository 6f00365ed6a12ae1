------------------------------ MODULE HostUser ------------------------------
(***************************************************************************)
(* What the user callbacks of the USB host promise the application: a      *)
(* medium becomes ready at most once for each connection announced, only   *)
(* after it, and the file system is never mounted after a disconnection    *)
(* was announced, until the next medium is ready.                          *)
(***************************************************************************)
VARIABLES
  appliState,   \* Appli_state of usb_host.c
  mounted       \* a work area is registered with the file system

userVars == <<appliState, mounted>>

Init == appliState = "IDLE" /\ mounted = FALSE

Connection == appliState' = "START" /\ UNCHANGED mounted

ClassActive ==
  /\ appliState = "START" /\ appliState' = "READY"
  /\ mounted' \in {mounted, TRUE}

Disconnection == appliState' = "DISCONNECT" /\ mounted' = FALSE

Next == Connection \/ ClassActive \/ Disconnection

Spec == Init /\ [][Next]_userVars

=============================================================================
