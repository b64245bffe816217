----------------------------- MODULE MCSession -----------------------------
(* An instance of Session for TLC: one session from a to b. *)
EXTENDS SessionInvariant, TLC

CONSTANTS a, b, s1, p, pSpaced, q, blanks, none

FromA == [s \in Sessions |-> a]
ToB == [s \in Sessions |-> b]

\* pSpaced is typed with blanks around p.
Typed == {pSpaced, q, blanks}
Stripped == pSpaced :> p @@ q :> q @@ blanks :> blanks
SameSecret == a :> pSpaced @@ b :> pSpaced

AnyDecision == {"accept", "reject"}
AllSessionFaults == {"net", "timeout", "stop", "refused"}
====
