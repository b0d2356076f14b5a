------------------------------- MODULE Mutex -------------------------------
(***************************************************************************)
(* What the lock of an acmers home directory promises to its callers: at   *)
(* most one process at a time is inside cmd_issue or cmd_renew.  A holder  *)
(* leaves by returning or by dying, and in both cases the lock becomes     *)
(* available again.                                                        *)
(***************************************************************************)

CONSTANT Proc

VARIABLE holders

Init == holders = {}

Acquire(p) ==
    /\ holders = {}
    /\ holders' = {p}

Leave(p) ==
    /\ p \in holders
    /\ holders' = holders \ {p}

Next == \E p \in Proc : Acquire(p) \/ Leave(p)

Spec == Init /\ [][Next]_holders

=============================================================================
