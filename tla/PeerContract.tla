---------------------------- MODULE PeerContract ----------------------------
(***************************************************************************)
(* What discovery and the table of peers promise together to the user: a   *)
(* failure detector that is told nothing when a node leaves. A node is     *)
(* shown only after it joined; it is hidden only when it is gone, or when  *)
(* the observer's clock was moved since the node was last heard.           *)
(***************************************************************************)
CONSTANTS Ids, Self

VARIABLES life, shown, disturbed

vars == <<life, shown, disturbed>>

Init ==
    /\ life = [i \in Ids |-> "unborn"]
    /\ shown = [i \in Ids |-> "unknown"]
    /\ disturbed = [i \in Ids |-> FALSE]

Join(i) ==
    /\ life[i] = "unborn"
    /\ life' = [life EXCEPT ![i] = "alive"]
    /\ UNCHANGED <<shown, disturbed>>

Leave(i) ==
    /\ life[i] = "alive" /\ i # Self
    /\ life' = [life EXCEPT ![i] = "gone"]
    /\ UNCHANGED <<shown, disturbed>>

\* An announcement may still arrive from a node that is gone, never from one
\* that did not join, and the observer does not list itself.
Show(i) ==
    /\ life[i] # "unborn" /\ i # Self
    /\ shown' = [shown EXCEPT ![i] = "online"]
    /\ disturbed' = [disturbed EXCEPT ![i] = FALSE]
    /\ UNCHANGED life

MayBeHidden(i) == life[i] = "gone" \/ disturbed[i]

Hide(S) ==
    /\ \A i \in S : shown[i] = "online" /\ MayBeHidden(i)
    /\ shown' = [i \in Ids |-> IF i \in S THEN "offline" ELSE shown[i]]
    /\ UNCHANGED <<life, disturbed>>

MoveClock ==
    /\ disturbed' = [i \in Ids |-> shown[i] # "unknown"]
    /\ UNCHANGED <<life, shown>>

Next ==
    \/ \E i \in Ids : Join(i) \/ Leave(i) \/ Show(i)
    \/ \E S \in SUBSET Ids : Hide(S)
    \/ MoveClock

Spec == Init /\ [][Next]_vars
=============================================================================
