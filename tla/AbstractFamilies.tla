-------------------------- MODULE AbstractFamilies --------------------------
(***************************************************************************)
(* What a refresh-token family promises its owner: it opens once, it has   *)
(* one holder, a rotation passes it from the old token to the new one, and *)
(* once it is closed, or a rotation is lost, it never comes back.          *)
(***************************************************************************)
CONSTANT Names      \* what families may be named

VARIABLE state      \* what has become of each family

Init == state = [f \in Names |-> "unused"]

Becomes(f, from, to) ==
    /\ state[f] = from
    /\ state' = [state EXCEPT ![f] = to]

Open(f) == Becomes(f, "unused", "live")
BeginRotation(f) == Becomes(f, "live", "rotating")
EndRotation(f) == Becomes(f, "rotating", "live")
LoseRotation(f) == Becomes(f, "rotating", "closed")
Close(f) == Becomes(f, "live", "closed")

Next ==
    \E f \in Names :
        \/ Open(f) \/ BeginRotation(f) \/ EndRotation(f)
        \/ LoseRotation(f) \/ Close(f)

Spec == Init /\ [][Next]_state
============================================================================
