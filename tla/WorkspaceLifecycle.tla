------------------------- MODULE WorkspaceLifecycle -------------------------
(***************************************************************************)
(* What transition_workspace promises about a workspace: a status that     *)
(* follows TRANSITIONS, an approver who is named by approving and by       *)
(* nothing else, and "completed" and "delivered" each entered in one step, *)
(* with the validation that certifies it.                                  *)
(*                                                                         *)
(* Interrupt is the exception the code makes: a command that dies between  *)
(* the write of the status and its validation leaves the new status in     *)
(* force, uncertified.                                                     *)
(***************************************************************************)
EXTENDS ControlRules

CONSTANTS Approvers, Start

VARIABLES state, approver, certificate

lifecycleVars == <<state, approver, certificate>>

LifecycleInit ==
    /\ state = Start
    /\ approver \in Approvers \union {"pending"}
    /\ certificate = {}

Approve(a) ==
    /\ "approved" \in Targets(state)
    /\ state' = "approved"
    /\ approver' = a
    /\ UNCHANGED certificate

Advance(to) ==
    /\ to \in Targets(state) \ (Final \union {"approved"})
    /\ state' = to
    /\ UNCHANGED <<approver, certificate>>

Certify(to) ==
    /\ to \in Targets(state) \intersect Final
    /\ state' = to
    /\ certificate' = certificate \union {to}
    /\ UNCHANGED approver

Interrupt(to) ==
    /\ to \in Targets(state) \intersect Final
    /\ state' = to
    /\ UNCHANGED <<approver, certificate>>

LifecycleNext ==
    \/ \E a \in Approvers : Approve(a)
    \/ \E to \in Statuses : Advance(to) \/ Certify(to) \/ Interrupt(to)

LifecycleSpec == LifecycleInit /\ [][LifecycleNext]_lifecycleVars
=============================================================================
