------------------------- MODULE RenewalLockProofs -------------------------
(***************************************************************************)
(* Proofs about RenewalLock, for any number of runs, any set of process    *)
(* identifiers and any faults.                                             *)
(***************************************************************************)
EXTENDS RenewalLock, TLAPS

(***************************************************************************)
(* The inductive invariant.  A file holds its creator's pid or nothing; a  *)
(* run that probes has read the pid of the file it judges; a run about to  *)
(* unlink has judged no file, or one whose creator has ended for good.     *)
(* Hence unlinking the judged file never takes the lock from its owner.    *)
(***************************************************************************)
Owner(p) == pc[p] \in {"write", "held"}

FilesHoldPids ==
    \A p \in Proc : /\ data[p] \in {None, pid[p]}
                    /\ pc[p] = "off" => data[p] = None

LinkedStarted == linked # None => pc[linked] # "off"

JudgedStarted ==
    \A p \in Proc : pc[p] \in {"read", "probe"} =>
        judged[p] \in Proc /\ pc[judged[p]] # "off"

SeenPid ==
    \A p \in Proc : pc[p] = "probe" =>
        seen[p] # None /\ seen[p] = pid[judged[p]]

JudgedDead ==
    \A p \in Proc : pc[p] = "remove" =>
        judged[p] = None \/ pc[judged[p]] \in Ended

OwnerLinked == ~stolen => \A p \in Proc : Owner(p) => linked = p

IInv ==
    /\ TypeOK
    /\ FilesHoldPids
    /\ LinkedStarted
    /\ JudgedStarted
    /\ SeenPid
    /\ JudgedDead
    /\ OwnerLinked

-----------------------------------------------------------------------------

LEMMA InitIInv == Init => IInv
  BY NoneAssumption
     DEF Init, IInv, TypeOK, FilesHoldPids, LinkedStarted, JudgedStarted,
         SeenPid, JudgedDead, OwnerLinked, Owner, Running, Acquiring,
         Contending, Ended

LEMMA StepIInv == IInv /\ [Next]_vars => IInv'
<1> SUFFICES ASSUME IInv, [Next]_vars PROVE IInv'
  OBVIOUS
<1> USE NoneAssumption DEF IInv, TypeOK, FilesHoldPids, LinkedStarted,
     JudgedStarted, SeenPid, JudgedDead, OwnerLinked, Owner, Running,
     Acquiring, Contending, Ended, Goto
<1>1. ASSUME NEW p \in Proc, Launch(p) PROVE IInv'
  BY <1>1 DEF Launch
<1>2. ASSUME NEW p \in Proc, Create(p) PROVE IInv'
  BY <1>2 DEF Create, LinkNew
<1>3. ASSUME NEW p \in Proc, AlreadyExists(p) PROVE IInv'
  BY <1>3 DEF AlreadyExists
<1>4. ASSUME NEW p \in Proc, WritePid(p) PROVE IInv'
  BY <1>4 DEF WritePid
<1>5. ASSUME NEW p \in Proc, WriteFails(p) PROVE IInv'
  BY <1>5 DEF WriteFails
<1>6. ASSUME NEW p \in Proc, Open(p) PROVE IInv'
  BY <1>6 DEF Open
<1>7. ASSUME NEW p \in Proc, Read(p) PROVE IInv'
  BY <1>7 DEF Read
<1>8. ASSUME NEW p \in Proc, Probe(p) PROVE IInv'
  BY <1>8 DEF Probe, PidLive
<1>9. ASSUME NEW p \in Proc, Remove(p) PROVE IInv'
  <2>1. /\ pc[p] = "remove" /\ pc' = [pc EXCEPT ![p] = "recreate"] /\ linked' = None
        /\ UNCHANGED <<pid, foreign, data, judged, seen>>
    BY <1>9 DEF Remove
  <2>2. ~stolen' => ~stolen /\ linked \in {None, judged[p]}
    BY <1>9 DEF Remove
  <2>3. ASSUME ~stolen', NEW q \in Proc, Owner(q)' PROVE FALSE
    <3>1. q # p /\ Owner(q)
      BY <2>1, <2>3
    <3>2. linked = q /\ judged[p] = q
      BY <2>2, <2>3, <3>1
    <3>3. pc[q] \in Ended
      BY <2>1, <3>2
    <3> QED
      BY <3>1, <3>3
  <2>4. TypeOK'
    BY <1>9 DEF Remove
  <2>5. FilesHoldPids' /\ LinkedStarted' /\ JudgedStarted' /\ SeenPid' /\ JudgedDead'
    BY <2>1
  <2>6. OwnerLinked'
    BY <2>3
  <2> QED
    BY <2>4, <2>5, <2>6
<1>10. ASSUME NEW p \in Proc, Recreate(p) PROVE IInv'
  BY <1>10 DEF Recreate, LinkNew
<1>11. ASSUME NEW p \in Proc, RecreateFails(p) PROVE IInv'
  BY <1>11 DEF RecreateFails
<1>12. ASSUME NEW p \in Proc, Release(p) PROVE IInv'
  BY <1>12 DEF Release
<1>13. ASSUME NEW p \in Proc, Exit(p) PROVE IInv'
  BY <1>13 DEF Exit
<1>14. ASSUME NEW p \in Proc, Crash(p) PROVE IInv'
  BY <1>14 DEF Crash
<1>15. ASSUME Others PROVE IInv'
  BY <1>15 DEF Others, OtherTakesPid, OtherFreesPid
<1>16. CASE UNCHANGED vars
  BY <1>16 DEF vars
<1> QED
  BY <1>1, <1>2, <1>3, <1>4, <1>5, <1>6, <1>7, <1>8, <1>9, <1>10, <1>11,
     <1>12, <1>13, <1>14, <1>15, <1>16
     DEF Next, Steps, Acquire

LEMMA Inductive == Spec => []IInv
  BY InitIInv, StepIInv, PTL DEF Spec

(***************************************************************************)
(* The variables have their types.                                         *)
(***************************************************************************)
THEOREM TypeCorrect == Spec => []TypeOK
<1>1. IInv => TypeOK
  BY DEF IInv
<1> QED
  BY <1>1, Inductive, PTL

(***************************************************************************)
(* Exclusion can only be lost by unlinking a file that was not judged:     *)
(* while that has not happened, at most one run is past Lock::acquire.     *)
(***************************************************************************)
THEOREM Exclusion == Spec => []ExclusiveUnlessStolen
<1>1. IInv => ExclusiveUnlessStolen
  BY DEF IInv, OwnerLinked, Owner, ExclusiveUnlessStolen, MutualExclusion,
         Holders
<1> QED
  BY <1>1, Inductive, PTL

(***************************************************************************)
(* While no file has been stolen, what Drop unlinks is the holder's own    *)
(* file.                                                                   *)
(***************************************************************************)
THEOREM OwnFile == Spec => []HolderIsLinked
<1>1. IInv => HolderIsLinked
  BY DEF IInv, OwnerLinked, Owner, HolderIsLinked, Holders
<1> QED
  BY <1>1, Inductive, PTL

(***************************************************************************)
(* What a run leaves behind.  A run that has not created a file has none   *)
(* linked and none written; the one that created the file writes once,     *)
(* and then holds the lock until Drop unlinks the path.                    *)
(***************************************************************************)
NoFileYet ==
    \A p \in Proc :
        /\ pc[p] \in {"off", "create"} \union Contending => linked # p
        /\ pc[p] \in {"off", "create", "write"} \union Contending => data[p] = None

LInv == IInv /\ NoFileYet /\ LeftoverExplained

LEMMA StepLInv == LInv /\ [Next]_vars => LInv'
<1> SUFFICES ASSUME LInv, [Next]_vars PROVE LInv'
  OBVIOUS
<1>11. IInv'
  BY StepIInv DEF LInv
<1> USE NoneAssumption
        DEF LInv, IInv, TypeOK, NoFileYet, LeftoverExplained, Running, Acquiring, Contending,
            Ended, Goto
<1>1. ASSUME NEW p \in Proc, Launch(p) \/ AlreadyExists(p) PROVE LInv'
  BY <1>1, <1>11 DEF Launch, AlreadyExists
<1>2. ASSUME NEW p \in Proc, LinkNew(p, "create") \/ LinkNew(p, "recreate") PROVE LInv'
  BY <1>2, <1>11 DEF LinkNew
<1>3. ASSUME NEW p \in Proc, WritePid(p) \/ WriteFails(p) PROVE LInv'
  BY <1>3, <1>11 DEF WritePid, WriteFails
<1>4. ASSUME NEW p \in Proc, Open(p) PROVE LInv'
  BY <1>4, <1>11 DEF Open
<1>5. ASSUME NEW p \in Proc, Read(p) PROVE LInv'
  <2>1. /\ UNCHANGED <<linked, data>> /\ pc[p] = "read"
        /\ \A q \in Proc \ {p} : pc'[q] = pc[q]
        /\ pc'[p] \in {"leaving", "probe"}
    BY <1>5 DEF Read
  <2>2. NoFileYet' /\ LeftoverExplained'
    BY <2>1
  <2> QED
    BY <1>11, <2>2
<1>6. ASSUME NEW p \in Proc, Probe(p) PROVE LInv'
  BY <1>6, <1>11 DEF Probe
<1>7. ASSUME NEW p \in Proc, Remove(p) \/ Release(p) PROVE LInv'
  BY <1>7, <1>11 DEF Remove, Release
<1>8. ASSUME NEW p \in Proc, RecreateFails(p) \/ Exit(p) \/ Crash(p) PROVE LInv'
  BY <1>8, <1>11 DEF RecreateFails, Exit, Crash
<1>9. ASSUME Others PROVE LInv'
  BY <1>9, <1>11 DEF Others, OtherTakesPid, OtherFreesPid
<1>10. CASE UNCHANGED vars
  BY <1>10, <1>11 DEF vars
<1> QED
  BY <1>1, <1>2, <1>3, <1>4, <1>5, <1>6, <1>7, <1>8, <1>9, <1>10
     DEF Next, Steps, Acquire, Create, Recreate

(***************************************************************************)
(* A run that returned has left no file, or an empty one whose write       *)
(* failed: also when it was refused, and when its file was stolen.         *)
(***************************************************************************)
THEOREM Leftovers == Spec => []LeftoverExplained
<1>1. Init => LInv
  BY InitIInv, NoneAssumption
     DEF Init, LInv, NoFileYet, LeftoverExplained, Contending
<1>2. LInv => LeftoverExplained
  BY DEF LInv
<1> QED
  BY <1>1, <1>2, StepLInv, PTL DEF Spec

-----------------------------------------------------------------------------

(***************************************************************************)
(* Runs that do not overlap inside acquire.  The file a run judges can     *)
(* then only disappear under it, never be replaced, so nothing is stolen.  *)
(***************************************************************************)
OneAcquiring ==
    \A p, q \in Proc : pc[p] \in Acquiring /\ pc[q] \in Acquiring => p = q

JudgedOrGone ==
    \A p \in Proc :
        pc[p] \in {"read", "probe", "remove"} => linked \in {None, judged[p]}

SInv == IInv /\ OneAcquiring /\ JudgedOrGone /\ ~stolen

LEMMA SerialStepIsStep == SerialNext => Next
  BY DEF SerialNext, Next

LEMMA StepSInv == SInv /\ [SerialNext]_vars => SInv'
<1> SUFFICES ASSUME SInv, [SerialNext]_vars PROVE SInv'
  OBVIOUS
<1>1. IInv'
  BY StepIInv, SerialStepIsStep DEF SInv
<1> USE NoneAssumption DEF SInv, IInv, TypeOK, OneAcquiring, JudgedOrGone,
     Running, Acquiring, Contending, Goto
<1>2. ASSUME NEW p \in Proc, NoneAcquiring, Launch(p) PROVE SInv'
  BY <1>1, <1>2 DEF Launch, NoneAcquiring
<1>3. ASSUME NEW p \in Proc, Create(p) PROVE SInv'
  BY <1>1, <1>3 DEF Create, LinkNew
<1>4. ASSUME NEW p \in Proc, AlreadyExists(p) PROVE SInv'
  BY <1>1, <1>4 DEF AlreadyExists
<1>5. ASSUME NEW p \in Proc, WritePid(p) PROVE SInv'
  BY <1>1, <1>5 DEF WritePid
<1>6. ASSUME NEW p \in Proc, WriteFails(p) PROVE SInv'
  BY <1>1, <1>6 DEF WriteFails
<1>7. ASSUME NEW p \in Proc, Open(p) PROVE SInv'
  BY <1>1, <1>7 DEF Open
<1>8. ASSUME NEW p \in Proc, Read(p) PROVE SInv'
  BY <1>1, <1>8 DEF Read
<1>9. ASSUME NEW p \in Proc, Probe(p) PROVE SInv'
  BY <1>1, <1>9 DEF Probe
<1>10. ASSUME NEW p \in Proc, Remove(p) PROVE SInv'
  BY <1>1, <1>10 DEF Remove
<1>11. ASSUME NEW p \in Proc, Recreate(p) PROVE SInv'
  BY <1>1, <1>11 DEF Recreate, LinkNew
<1>12. ASSUME NEW p \in Proc, RecreateFails(p) PROVE SInv'
  BY <1>1, <1>12 DEF RecreateFails
<1>13. ASSUME NEW p \in Proc, Release(p) PROVE SInv'
  BY <1>1, <1>13 DEF Release
<1>14. ASSUME NEW p \in Proc, Exit(p) PROVE SInv'
  BY <1>1, <1>14 DEF Exit
<1>15. ASSUME NEW p \in Proc, Crash(p) PROVE SInv'
  BY <1>1, <1>15 DEF Crash
<1>16. ASSUME Others PROVE SInv'
  BY <1>1, <1>16 DEF Others, OtherTakesPid, OtherFreesPid
<1>17. CASE UNCHANGED vars
  BY <1>1, <1>17 DEF vars
<1> QED
  BY <1>2, <1>3, <1>4, <1>5, <1>6, <1>7, <1>8, <1>9, <1>10, <1>11,
     <1>12, <1>13, <1>14, <1>15, <1>16, <1>17
     DEF SerialNext, Steps, Acquire

LEMMA SerialInductive == SerialSpec => []SInv
<1>1. Init => SInv
  BY InitIInv DEF Init, SInv, OneAcquiring, JudgedOrGone, Acquiring, Contending
<1> QED
  BY <1>1, StepSInv, PTL DEF SerialSpec

LEMMA SInvExclusive == SInv => MutualExclusion
  BY DEF SInv, IInv, OwnerLinked, Owner, MutualExclusion, Holders

(***************************************************************************)
(* Runs that do not overlap inside acquire never hold the lock together.   *)
(***************************************************************************)
THEOREM SerialExclusion == SerialSpec => []MutualExclusion
  BY SerialInductive, SInvExclusive, PTL

(***************************************************************************)
(* Each of their steps is a step of the abstract lock: writing the pid     *)
(* acquires, Drop and the death of a holder release, the rest stutters.    *)
(***************************************************************************)
LEMMA StepImplements ==
    SInv /\ [SerialNext]_vars => [Abstract!Next]_Holders
<1> SUFFICES ASSUME SInv, [SerialNext]_vars PROVE [Abstract!Next]_Holders
  OBVIOUS
<1> USE DEF SInv, IInv, TypeOK, Holders, Goto
<1>1. ASSUME NEW p \in Proc, WritePid(p) PROVE Abstract!Acquire(p)
  <2>1. \A q \in Proc : pc[q] # "held"
    <3> SUFFICES ASSUME NEW q \in Proc, pc[q] = "held" PROVE FALSE
      OBVIOUS
    <3>1. linked = q /\ linked = p
      BY <1>1 DEF OwnerLinked, Owner, WritePid
    <3> QED
      BY <1>1, <3>1 DEF WritePid
  <2>2. Holders = {} /\ Holders' = {p}
    BY <1>1, <2>1 DEF WritePid
  <2> QED
    BY <2>2 DEF Abstract!Acquire
<1>2. ASSUME NEW p \in Proc, Release(p) PROVE Abstract!Leave(p)
  BY <1>2 DEF Release, Abstract!Leave
<1>3. ASSUME NEW p \in Proc, Crash(p)
      PROVE Abstract!Leave(p) \/ UNCHANGED Holders
  BY <1>3 DEF Crash, Abstract!Leave
<1>4. ASSUME NEW p \in Proc,
             Launch(p) \/ Create(p) \/ AlreadyExists(p) \/ WriteFails(p)
      PROVE UNCHANGED Holders
  BY <1>4 DEF Launch, Create, LinkNew, AlreadyExists, WriteFails
<1>5. ASSUME NEW p \in Proc, Open(p) \/ Read(p) \/ Probe(p) \/ Remove(p)
      PROVE UNCHANGED Holders
  BY <1>5 DEF Open, Read, Probe, Remove
<1>6. ASSUME NEW p \in Proc, Recreate(p) \/ RecreateFails(p) \/ Exit(p)
      PROVE UNCHANGED Holders
  BY <1>6 DEF Recreate, LinkNew, RecreateFails, Exit
<1>7. ASSUME Others \/ UNCHANGED vars PROVE UNCHANGED Holders
  BY <1>7 DEF Others, OtherTakesPid, OtherFreesPid, vars
<1> QED
  BY <1>1, <1>2, <1>3, <1>4, <1>5, <1>6, <1>7
     DEF SerialNext, Steps, Acquire, Abstract!Next

THEOREM SerialImplements == SerialSpec => ImplementsMutex
<1>1. Init => Abstract!Init
  BY DEF Init, Abstract!Init, Holders
<1> QED
  BY <1>1, SerialInductive, StepImplements, PTL
     DEF SerialSpec, ImplementsMutex, Abstract!Spec

=============================================================================
