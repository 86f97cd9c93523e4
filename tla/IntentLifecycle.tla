--------------------------- MODULE IntentLifecycle ---------------------------
(***************************************************************************)
(* What durable mutation recovery promises for one workflow scope, with    *)
(* browsers, requests and verification left out.  An intent is opened      *)
(* while no other intent of the scope is open, its effect is recorded at   *)
(* most once and never before it was opened, and it is closed once: as     *)
(* confirmed when its effect is recorded, or as superseded.                *)
(***************************************************************************)
CONSTANTS Key

VARIABLES
    status,    \* status[k] \in Status
    recorded   \* the intents whose effect is recorded

intentVars == <<status, recorded>>

Status == {"none", "open", "confirmed", "superseded_after_absence"}

Init ==
    /\ status = [k \in Key |-> "none"]
    /\ recorded = {}

Open(k) ==
    /\ status[k] = "none"
    /\ \A j \in Key : status[j] # "open"
    /\ status' = [status EXCEPT ![k] = "open"]
    /\ UNCHANGED recorded

Record(k) ==
    /\ status[k] # "none"
    /\ k \notin recorded
    /\ recorded' = recorded \cup {k}
    /\ UNCHANGED status

Confirm(k) ==
    /\ status[k] = "open"
    /\ k \in recorded
    /\ status' = [status EXCEPT ![k] = "confirmed"]
    /\ UNCHANGED recorded

Supersede(k) ==
    /\ status[k] = "open"
    /\ status' = [status EXCEPT ![k] = "superseded_after_absence"]
    /\ UNCHANGED recorded

Next == \E k \in Key : Open(k) \/ Record(k) \/ Confirm(k) \/ Supersede(k)

Spec == Init /\ [][Next]_intentVars

=============================================================================
