-------------------------- MODULE SessionContract --------------------------
(***************************************************************************)
(* What AppManager.request_session and send_transfer rely on: a session is *)
(* decided at most once, by the callee, and the caller is told of what was *)
(* decided or of an error, never of a decision nobody took.                *)
(***************************************************************************)
CONSTANT Sessions
VARIABLES decided, told

vars == <<decided, told>>

Init == /\ decided = [s \in Sessions |-> "none"]
        /\ told = [s \in Sessions |-> "none"]

Decide(s) ==
    /\ decided[s] = "none"
    /\ \E d \in {"rejected", "granted", "denied"} :
          decided' = [decided EXCEPT ![s] = d]
    /\ UNCHANGED told

\* What may be said of each decision.
Truth(d) == CASE d = "granted" -> {"success", "error"}
              [] d = "denied" -> {"failed", "error"}
              [] d = "rejected" -> {"rejected", "error"}
              [] OTHER -> {"error"}

Tell(s) ==
    /\ told[s] = "none"
    /\ \E t \in Truth(decided[s]) : told' = [told EXCEPT ![s] = t]
    /\ UNCHANGED decided

Next == \E s \in Sessions : Decide(s) \/ Tell(s)

Spec == Init /\ [][Next]_vars
====
