------------------------------ MODULE Consent ------------------------------
(* What the approval queue promises: an agent that asks goes on with what   *)
(* the user decided on that very prompt, once, or does not go on.           *)
CONSTANTS Prompt, Decision, None

VARIABLES asked, decided, taken

vars == <<asked, decided, taken>>

Init ==
    /\ asked = {}
    /\ decided = [p \in Prompt |-> None]
    /\ taken = [p \in Prompt |-> None]

Ask(p) ==
    /\ p \notin asked
    /\ asked' = asked \cup {p}
    /\ UNCHANGED <<decided, taken>>

Decide(p, d) ==
    /\ p \in asked
    /\ decided[p] = None
    /\ decided' = [decided EXCEPT ![p] = d]
    /\ UNCHANGED <<asked, taken>>

Take(p) ==
    /\ decided[p] # None
    /\ taken[p] = None
    /\ taken' = [taken EXCEPT ![p] = decided[p]]
    /\ UNCHANGED <<asked, decided>>

Next ==
    \E p \in Prompt : Ask(p) \/ Take(p) \/ \E d \in Decision : Decide(p, d)

Spec == Init /\ [][Next]_vars
=============================================================================
