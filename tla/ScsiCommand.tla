---------------------------- MODULE ScsiCommand ----------------------------
(***************************************************************************)
(* What the bulk-only transport promises the mass-storage class: one       *)
(* command at a time is outstanding, and it ends only with the status      *)
(* block the device sent for this very command; a command reported as      *)
(* passed moved all its data.                                              *)
(***************************************************************************)
EXTENDS Naturals

CONSTANT Commands    \* what may be asked: records with the number of packets, len

VARIABLES
  busy,       \* a command is outstanding
  cmd,        \* the command
  moved,      \* the packets of data moved for it
  answer      \* the status block sent for it, or "none"

vars == <<busy, cmd, moved, answer>>

Init ==
  /\ ~busy /\ cmd \in Commands
  /\ moved = 0 /\ answer = "none"

Begin ==
  /\ ~busy /\ busy' = TRUE
  /\ cmd' \in Commands
  /\ moved' = 0 /\ answer' = "none"

Move ==
  /\ busy /\ answer = "none" /\ moved < cmd.len
  /\ moved' = moved + 1
  /\ UNCHANGED <<busy, cmd, answer>>

Answer ==
  /\ busy /\ answer = "none"
  /\ answer' \in {"failed", "phase"} \union (IF moved = cmd.len THEN {"passed"} ELSE {})
  /\ UNCHANGED <<busy, cmd, moved>>

End(passed) ==
  /\ busy /\ busy' = FALSE
  /\ answer # "none" /\ (passed <=> answer = "passed")
  /\ UNCHANGED <<cmd, moved, answer>>

Next == Begin \/ Move \/ Answer \/ (\E passed \in BOOLEAN : End(passed))

Spec == Init /\ [][Next]_vars

=============================================================================
