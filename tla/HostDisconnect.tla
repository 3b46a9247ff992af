---------------------------- MODULE HostDisconnect ----------------------------
(***************************************************************************)
(* What rhc disconnect promises, without its mechanics: it visits the     *)
(* services in a fixed order, once each; for each it either takes the     *)
(* connection down and says so, or leaves it and may record a failure;    *)
(* it never connects anything and never claims what did not happen; it    *)
(* ends with status 0, or 1 when it recorded a failure, or fails before   *)
(* visiting any service (start-up errors).                                *)
(***************************************************************************)
EXTENDS Sequences

CONSTANTS Order,       \* the services in the order disconnect visits them
          AbortCodes   \* the exit statuses of a start-up failure

Services == {Order[i] : i \in DOMAIN Order}

VARIABLES
    connected,   \* the services the host is still connected to
    claimed,     \* the services disconnect reported as disconnected
    failed,      \* the services with a recorded failure
    remaining,   \* the services still to visit, in order
    ended,       \* the process has exited
    status       \* its exit status, once ended

hdVars == <<connected, claimed, failed, remaining, ended, status>>

Init ==
    /\ connected \subseteq Services
    /\ claimed = {}
    /\ failed = {}
    /\ remaining = Order
    /\ ~ended
    /\ status = 0

(* Visit the next service: take it down (or find it down) and claim it, *)
(* or leave it, with or without a recorded failure.                      *)
Visit ==
    /\ ~ended
    /\ remaining /= <<>>
    /\ LET s == Head(remaining) IN
          \/ /\ connected' = connected \ {s}
             /\ claimed' = claimed \cup {s}
             /\ UNCHANGED failed
          \/ /\ failed' \in {failed, failed \cup {s}}
             /\ UNCHANGED <<connected, claimed>>
    /\ remaining' = Tail(remaining)
    /\ UNCHANGED <<ended, status>>

(* The end: exit 1 only with a recorded failure. *)
Finish ==
    /\ ~ended
    /\ remaining = <<>>
    /\ ended'
    /\ status' \in IF failed = {} THEN {0} ELSE {0, 1}
    /\ UNCHANGED <<connected, claimed, failed, remaining>>

(* Start-up fails before any service is visited. *)
Abort ==
    /\ ~ended
    /\ remaining = Order
    /\ ended'
    /\ status' \in AbortCodes
    /\ UNCHANGED <<connected, claimed, failed, remaining>>

Next == Visit \/ Finish \/ Abort

SafetySpec == Init /\ [][Next]_hdVars

Spec == SafetySpec /\ WF_hdVars(Next)

=============================================================================
