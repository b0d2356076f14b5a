---------------------------- MODULE RenewalLock ----------------------------
(***************************************************************************)
(* The pid file <home>/.lock of src/src/lock.rs, taken by `acmers issue`   *)
(* and `acmers renew`.  Every system call is a step of its own: the file   *)
(* is created with O_EXCL and its pid written afterwards, and a contender  *)
(* opens it, reads it, probes /proc, unlinks the path and creates again.   *)
(*                                                                         *)
(* A member of Proc is one run of the program, from its start to its end;  *)
(* it creates at most one lock file, so the file (the inode) is named by   *)
(* the run that created it.  Process identifiers are recycled.             *)
(***************************************************************************)

CONSTANTS
    Proc,       \* the runs of the program
    Pid,        \* the process identifiers of the machine
    None,       \* no file, and no process identifier
    Faults      \* what may go wrong: a subset of {"crash", "write", "reuse"}

ASSUME NoneAssumption == None \notin Proc /\ None \notin Pid

VARIABLES
    pc,         \* where each run is
    pid,        \* the process identifier of each run
    foreign,    \* identifiers taken by programs other than acmers
    linked,     \* the file that <home>/.lock names
    data,       \* the pid written in each file, None while it is empty
    judged,     \* the file whose staleness a run is judging, None if open failed
    seen,       \* the pid a run has read from that file
    stolen      \* history: a run has unlinked a file it had not judged

vars == <<pc, pid, foreign, linked, data, judged, seen, stolen>>

Contending == {"open", "read", "probe", "remove", "recreate"}
Acquiring  == {"create", "write"} \union Contending
Running    == Acquiring \union {"held", "leaving"}
Ended      == {"done", "crashed"}

TypeOK ==
    /\ pc \in [Proc -> {"off"} \union Running \union Ended]
    /\ pid \in [Proc -> Pid \union {None}]
    /\ foreign \subseteq Pid
    /\ linked \in Proc \union {None}
    /\ data \in [Proc -> Pid \union {None}]
    /\ judged \in [Proc -> Proc \union {None}]
    /\ seen \in [Proc -> Pid \union {None}]
    /\ stolen \in BOOLEAN

Init ==
    /\ pc = [p \in Proc |-> "off"]
    /\ pid = [p \in Proc |-> None]
    /\ foreign = {}
    /\ linked = None
    /\ data = [p \in Proc |-> None]
    /\ judged = [p \in Proc |-> None]
    /\ seen = [p \in Proc |-> None]
    /\ stolen = FALSE

(***************************************************************************)
(* /proc/<i> exists.                                                       *)
(***************************************************************************)
PidLive(i) == i \in foreign \/ \E q \in Proc : pc[q] \in Running /\ pid[q] = i

Goto(p, from, to) ==
    /\ pc[p] = from
    /\ pc' = [pc EXCEPT ![p] = to]

-----------------------------------------------------------------------------

(***************************************************************************)
(* The kernel starts a run under a free identifier; the run calls          *)
(* Lock::acquire first.                                                    *)
(***************************************************************************)
Launch(p) ==
    /\ Goto(p, "off", "create")
    /\ \E i \in Pid : ~PidLive(i) /\ pid' = [pid EXCEPT ![p] = i]
    /\ UNCHANGED <<foreign, linked, data, judged, seen, stolen>>

\* Mutant: the lock file is opened without O_EXCL.
LinkNewShared(p, from) ==
    /\ Goto(p, from, "write")
    /\ linked' = p
    /\ UNCHANGED <<pid, foreign, data, judged, seen, stolen>>

LinkNew(p, from) ==
    /\ Goto(p, from, "write")
    /\ linked = None
    /\ linked' = p
    /\ UNCHANGED <<pid, foreign, data, judged, seen, stolen>>

Create(p) == LinkNew(p, "create")

AlreadyExists(p) ==
    /\ Goto(p, "create", "open")
    /\ linked # None
    /\ UNCHANGED <<pid, foreign, linked, data, judged, seen, stolen>>

WritePid(p) ==
    /\ Goto(p, "write", "held")
    /\ data' = [data EXCEPT ![p] = pid[p]]
    /\ UNCHANGED <<pid, foreign, linked, judged, seen, stolen>>

(***************************************************************************)
(* write! or flush fails (a full disk): acquire returns the error and the  *)
(* empty file stays.                                                       *)
(***************************************************************************)
WriteFails(p) ==
    /\ "write" \in Faults
    /\ Goto(p, "write", "leaving")
    /\ UNCHANGED <<pid, foreign, linked, data, judged, seen, stolen>>

(***************************************************************************)
(* stale: a file that cannot be opened counts as stale, one without a pid  *)
(* does not, any other is stale when its pid is not in /proc.              *)
(***************************************************************************)
Open(p) ==
    /\ Goto(p, "open", IF linked = None THEN "remove" ELSE "read")
    /\ judged' = [judged EXCEPT ![p] = linked]
    /\ UNCHANGED <<pid, foreign, linked, data, seen, stolen>>

Read(p) ==
    /\ pc[p] = "read"
    /\ LET found == data[judged[p]] IN
           /\ Goto(p, "read", IF found = None THEN "leaving" ELSE "probe")
           /\ seen' = [seen EXCEPT ![p] = found]
    /\ UNCHANGED <<pid, foreign, linked, data, judged, stolen>>

\* Mutant: any recorded pid is stale.
ProbeAlwaysStale(p) ==
    /\ Goto(p, "probe", "remove")
    /\ UNCHANGED <<pid, foreign, linked, data, judged, seen, stolen>>

Probe(p) ==
    /\ Goto(p, "probe", IF PidLive(seen[p]) THEN "leaving" ELSE "remove")
    /\ UNCHANGED <<pid, foreign, linked, data, judged, seen, stolen>>

\* Mutant: the stale file is not unlinked before the second attempt.
RemoveNothing(p) ==
    /\ Goto(p, "remove", "recreate")
    /\ UNCHANGED <<pid, foreign, linked, data, judged, seen, stolen>>

(***************************************************************************)
(* remove_file unlinks whatever the path names by now.                     *)
(***************************************************************************)
Remove(p) ==
    /\ Goto(p, "remove", "recreate")
    /\ linked' = None
    /\ stolen' = (stolen \/ linked \notin {None, judged[p]})
    /\ UNCHANGED <<pid, foreign, data, judged, seen>>

Recreate(p) == LinkNew(p, "recreate")

\* Mutant: a second AlreadyExists is taken for success.
RecreateFailsHeld(p) ==
    /\ Goto(p, "recreate", "held")
    /\ linked # None
    /\ UNCHANGED <<pid, foreign, linked, data, judged, seen, stolen>>

RecreateFails(p) ==
    /\ Goto(p, "recreate", "leaving")
    /\ linked # None
    /\ UNCHANGED <<pid, foreign, linked, data, judged, seen, stolen>>

\* Mutant: the file is not unlinked when the command returns.
ReleaseNothing(p) ==
    /\ Goto(p, "held", "leaving")
    /\ UNCHANGED <<pid, foreign, linked, data, judged, seen, stolen>>

(***************************************************************************)
(* Drop unlinks the path, also when the command returns an error.          *)
(***************************************************************************)
Release(p) ==
    /\ Goto(p, "held", "leaving")
    /\ linked' = None
    /\ UNCHANGED <<pid, foreign, data, judged, seen, stolen>>

Exit(p) ==
    /\ Goto(p, "leaving", "done")
    /\ UNCHANGED <<pid, foreign, linked, data, judged, seen, stolen>>

Crash(p) ==
    /\ "crash" \in Faults
    /\ pc[p] \in Running
    /\ pc' = [pc EXCEPT ![p] = "crashed"]
    /\ UNCHANGED <<pid, foreign, linked, data, judged, seen, stolen>>

(***************************************************************************)
(* Another program starts or ends; it may get the identifier of a run that *)
(* died.                                                                   *)
(***************************************************************************)
OtherTakesPid(i) ==
    /\ "reuse" \in Faults
    /\ ~PidLive(i)
    /\ foreign' = foreign \union {i}
    /\ UNCHANGED <<pc, pid, linked, data, judged, seen, stolen>>

OtherFreesPid(i) ==
    /\ i \in foreign
    /\ foreign' = foreign \ {i}
    /\ UNCHANGED <<pc, pid, linked, data, judged, seen, stolen>>

-----------------------------------------------------------------------------

Acquire(p) ==
    \/ Create(p) \/ AlreadyExists(p) \/ WritePid(p)
    \/ Open(p) \/ Read(p) \/ Probe(p) \/ Remove(p)
    \/ Recreate(p) \/ RecreateFails(p)

Steps(p) == Acquire(p) \/ WriteFails(p) \/ Release(p) \/ Exit(p) \/ Crash(p)

Others == \E i \in Pid : OtherTakesPid(i) \/ OtherFreesPid(i)

Next == Others \/ \E p \in Proc : Launch(p) \/ Steps(p)

Spec == Init /\ [][Next]_vars

(***************************************************************************)
(* No run starts while another one is still inside Lock::acquire: the      *)
(* timer and cron never do this on their own, an operator can.             *)
(***************************************************************************)
NoneAcquiring == \A q \in Proc : pc[q] \notin Acquiring

SerialNext ==
    Others \/ \E p \in Proc : (NoneAcquiring /\ Launch(p)) \/ Steps(p)

SerialSpec == Init /\ [][SerialNext]_vars

(***************************************************************************)
(* A run that is inside acquire is scheduled by the kernel.                *)
(***************************************************************************)
FairSerialSpec == SerialSpec /\ \A p \in Proc : WF_vars(Acquire(p))

-----------------------------------------------------------------------------

Holders == {p \in Proc : pc[p] = "held"}

(***************************************************************************)
(* "The issue and renew commands SHALL acquire an exclusive lock."  Two    *)
(* runs are never past Lock::acquire together.                             *)
(***************************************************************************)
MutualExclusion == \A p, q \in Holders : p = q

(***************************************************************************)
(* The only way to lose exclusion is the gap between stale() and           *)
(* remove_file(): as long as no run has unlinked a file other than the one *)
(* it judged, at most one run holds the lock, whatever crashes, failed     *)
(* writes and recycled pids there were.                                    *)
(***************************************************************************)
ExclusiveUnlessStolen == stolen \/ MutualExclusion

(***************************************************************************)
(* A run that holds the lock is the one whose file is linked, so what Drop *)
(* unlinks is its own file and a later run sees this one (again unless a   *)
(* file was stolen).                                                       *)
(***************************************************************************)
HolderIsLinked == stolen \/ \A p \in Holders : linked = p

(***************************************************************************)
(* A run that returned, with success, an error or a refusal, has left no   *)
(* file behind unless it was its write that failed: what stays linked      *)
(* without a running owner is a crashed run's file or an empty one.        *)
(***************************************************************************)
LeftoverExplained ==
    \A p \in Proc : linked = p /\ pc[p] \in {"leaving", "done"} => data[p] = None

(***************************************************************************)
(* A complete lock file of a dead process does not stop the next run: if   *)
(* it is there when the run tries to create its own, the run gets the lock *)
(* unless it dies trying.                                                  *)
(***************************************************************************)
StaleFile == linked # None /\ data[linked] # None /\ ~PidLive(data[linked])

StaleRecovered ==
    \A p \in Proc :
        (pc[p] = "create" /\ StaleFile) ~> (pc[p] \in {"held", "crashed"})

(***************************************************************************)
(* Runs that do not overlap inside acquire see the exclusive lock of Mutex *)
(***************************************************************************)
Abstract == INSTANCE Mutex WITH holders <- Holders

ImplementsMutex == Abstract!Spec

=============================================================================
