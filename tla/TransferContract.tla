-------------------------- MODULE TransferContract --------------------------
(***************************************************************************)
(* What one transfer promises the two users, without the machinery: the    *)
(* callbacks each application receives about it, and how the incoming job  *)
(* ends.  The sender may be told of a failure although everything arrived  *)
(* (the acknowledgement was lost); it is never told of a success unless    *)
(* everything did.                                                         *)
(***************************************************************************)
EXTENDS Sequences

VARIABLES
    told,      \* callbacks of the sender's application, in order
    heard,     \* callbacks of the receiver's application, in order
    outcome    \* of the incoming job: "pending", "delivered" or "refused"

vars == <<told, heard, outcome>>

Init == told = <<>> /\ heard = <<>> /\ outcome = "pending"

Begin == told = <<>> /\ told' = <<"started">> /\ UNCHANGED <<heard, outcome>>

Arrive ==
    /\ told # <<>> /\ heard = <<>>
    /\ heard' = <<"started">>
    /\ UNCHANGED <<told, outcome>>

Deliver ==
    /\ outcome = "pending" /\ heard = <<"started">>
    /\ outcome' = "delivered"
    /\ UNCHANGED <<told, heard>>

\* The incoming job fails or is cancelled, and its user is told at once.
Refuse ==
    /\ outcome = "pending" /\ heard = <<"started">>
    /\ outcome' = "refused" /\ heard' = <<"started", "failed">>
    /\ UNCHANGED told

HearSuccess ==
    /\ outcome = "delivered" /\ heard = <<"started">>
    /\ heard' = <<"started", "completed">>
    /\ UNCHANGED <<told, outcome>>

TellSuccess ==
    /\ told = <<"started">> /\ outcome = "delivered"
    /\ told' = <<"started", "completed">>
    /\ UNCHANGED <<heard, outcome>>

TellFailure ==
    /\ told = <<"started">>
    /\ told' = <<"started", "failed">>
    /\ UNCHANGED <<heard, outcome>>

Next == \/ Begin \/ Arrive \/ Deliver \/ Refuse
        \/ HearSuccess \/ TellSuccess \/ TellFailure

Spec == Init /\ [][Next]_vars

\* The sender's user is always told, one way or the other.
Fairness == WF_told(Begin \/ TellSuccess \/ TellFailure)
FairSpec == Spec /\ Fairness
=============================================================================
