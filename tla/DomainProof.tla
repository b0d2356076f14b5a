---------------------------- MODULE DomainProof ----------------------------
(***************************************************************************)
(* What an issuance by dns-01 promises: it proves one domain after the     *)
(* other, publishes at most one record at a time and only for a domain     *)
(* still to be proved, withdraws it before it goes on or returns, and      *)
(* returns a certificate only when every domain is proved.                 *)
(***************************************************************************)

CONSTANT Domain

VARIABLES
    record,     \* the domains whose record is published
    proved,     \* the domains known to be proved
    outcome     \* "open", "certificate", "error" or "crashed"

vars == <<record, proved, outcome>>

Init == record = {} /\ proved = {} /\ outcome = "open"

Publish(d) ==
    /\ outcome = "open" /\ record = {} /\ d \notin proved
    /\ record' = {d}
    /\ UNCHANGED <<proved, outcome>>

\* By its record, or by an earlier order the CA remembers.
Prove(d) ==
    /\ outcome = "open" /\ record \subseteq {d}
    /\ proved' = proved \union {d}
    /\ UNCHANGED <<record, outcome>>

Withdraw ==
    /\ outcome = "open"
    /\ record' = {}
    /\ UNCHANGED <<proved, outcome>>

Deliver ==
    /\ outcome = "open" /\ record = {} /\ proved = Domain
    /\ outcome' = "certificate"
    /\ UNCHANGED <<record, proved>>

GiveUp ==
    /\ outcome = "open"
    /\ outcome' = "error" /\ record' = {}
    /\ UNCHANGED proved

\* Nothing withdraws the record of a process that dies.
Crash ==
    /\ outcome = "open"
    /\ outcome' = "crashed"
    /\ UNCHANGED <<record, proved>>

Next ==
    \/ \E d \in Domain : Publish(d) \/ Prove(d)
    \/ Withdraw \/ Deliver \/ GiveUp \/ Crash

Spec == Init /\ [][Next]_vars

=============================================================================
