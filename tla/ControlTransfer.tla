-------------------------- MODULE ControlTransfer --------------------------
(***************************************************************************)
(* What the control endpoint of the USB host library promises its callers, *)
(* without URBs, channels or polling.  A request is outstanding or not;    *)
(* the device acknowledges stages of the transfer; the request ends well   *)
(* only when all of its stages are acknowledged, is refused only by a      *)
(* device that took its SETUP packet, is attempted again after a failure,  *)
(* and is given up only when MaxErrorCount failures came before.  The      *)
(* failures are counted across requests: a success does not forgive them.  *)
(***************************************************************************)
EXTENDS Naturals

CONSTANTS Requests, MaxErrorCount

VARIABLES
  busy,       \* a request is outstanding
  req,        \* the request
  acked,      \* the stages acknowledged since the request began or, if
              \* later, since the device took a SETUP packet
  failures    \* failed attempts that were forgiven so far

vars == <<busy, req, acked, failures>>

Stages == {"SETUP", "DATA_IN", "DATA_OUT", "STATUS_IN", "STATUS_OUT"}

Required(r) ==
  {"SETUP", IF r.dir = "D2H" THEN "STATUS_OUT" ELSE "STATUS_IN"}
    \union {s \in {"DATA_IN", "DATA_OUT"} : r.data /\ (s = "DATA_IN" <=> r.dir = "D2H")}

Init ==
  /\ ~busy /\ req \in Requests
  /\ acked = {} /\ failures = 0

Begin ==
  /\ ~busy /\ busy' = TRUE
  /\ req' \in Requests
  /\ acked' = {}
  /\ UNCHANGED failures

DeviceAcks ==
  /\ \/ acked' = {"SETUP"}
     \/ \E more \in SUBSET (Stages \ {"SETUP"}) : acked' = acked \union more
  /\ UNCHANGED <<busy, req, failures>>

End == busy /\ busy' = FALSE /\ UNCHANGED <<req, acked>>

Succeed == End /\ Required(req) \subseteq acked /\ UNCHANGED failures

Refuse == End /\ "SETUP" \in acked /\ UNCHANGED failures

TryAgain == End /\ failures < MaxErrorCount /\ failures' = failures + 1

GiveUp == End /\ failures = MaxErrorCount /\ failures' = 0

Next == Begin \/ DeviceAcks \/ Succeed \/ Refuse \/ TryAgain \/ GiveUp

Spec == Init /\ [][Next]_vars

=============================================================================
