----------------------------- MODULE PathMutex ------------------------------
(***************************************************************************)
(* What PathLockRegistry promises: a caller that asks for a set of paths   *)
(* gets all of them at once, and no path has two holders.                  *)
(***************************************************************************)
CONSTANTS Frames,       \* the activations of acquire()
          Keys          \* canonical paths

VARIABLE holds          \* the paths each activation holds in its body

Init == holds = [f \in Frames |-> {}]

Enter(f, K) ==
    /\ holds[f] = {}
    /\ \A g \in Frames : holds[g] \cap K = {}
    /\ holds' = [holds EXCEPT ![f] = K]

Leave(f) == holds' = [holds EXCEPT ![f] = {}]

Next == \E f \in Frames : Leave(f) \/ \E K \in SUBSET Keys : Enter(f, K)

Spec == Init /\ [][Next]_holds
=============================================================================
