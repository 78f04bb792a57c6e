--------------------------- MODULE SessionService -----------------------------
(***************************************************************************)
(* What a session of TeleportationApp or SwapApp promises: what it is for  *)
(* (a qubit at its destination as it was at the source, a pair |Phi+> at   *)
(* the ends of a path) is done after the session began, once, and stays.   *)
(***************************************************************************)
CONSTANT Session

VARIABLES begun, done

serviceVars == <<begun, done>>

Init == begun = {} /\ done = {}

Begin(s) == begun' = begun \cup {s} /\ UNCHANGED done
Complete(s) == s \in begun \ done /\ done' = done \cup {s} /\ UNCHANGED begun

Next == \E s \in Session : Begin(s) \/ Complete(s)

Spec == Init /\ [][Next]_serviceVars

=============================================================================
