--------------------------- MODULE AtomicRegister ---------------------------
(***************************************************************************)
(* What write_atomic promises about the file it replaces: every reader     *)
(* sees one complete version, a version is written at most once and in one *)
(* step, and a power failure may only take back versions that had not      *)
(* reached the disk, never mix or truncate them.                           *)
(***************************************************************************)

CONSTANTS Version, Initial

VARIABLES
    value,      \* the version a reader sees
    durable,    \* the version a power failure would leave at worst
    written     \* the versions written so far

Init ==
    /\ value = Initial
    /\ durable = Initial
    /\ written = {}

Write(v) ==
    /\ v \notin written
    /\ value' = v
    /\ written' = written \union {v}
    /\ UNCHANGED durable

Flush ==
    /\ durable' = value
    /\ UNCHANGED <<value, written>>

PowerLoss ==
    /\ value' \in {value, durable}
    /\ durable' = value'
    /\ UNCHANGED written

Next == Flush \/ PowerLoss \/ \E v \in Version : Write(v)

Spec == Init /\ [][Next]_<<value, durable, written>>

=============================================================================
