------------------------------- MODULE LockSpec -------------------------------
(* What env.h:112-131 promises of a locked file: one process at a time.     *)
CONSTANT Processes
VARIABLE holder   \* the processes that hold the lock

Init == holder = {}
Lock(p) == holder = {} /\ holder' = {p}
Unlock(p) == holder = {p} /\ holder' = {}
Next == \E p \in Processes : Lock(p) \/ Unlock(p)
Spec == Init /\ [][Next]_holder
=============================================================================
