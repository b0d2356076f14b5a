-------------------------- MODULE AtomicFileProofs --------------------------
(***************************************************************************)
(* Proofs about AtomicFile, for any number of concurrent calls.            *)
(***************************************************************************)
EXTENDS AtomicFile, TLAPS

(***************************************************************************)
(* The inductive invariant: how far a call has come bounds what its file   *)
(* holds, and only files of completed calls are ever named.  The sync      *)
(* before the rename is what keeps this true across a power failure.       *)
(***************************************************************************)
WrittenFull ==
    \A w \in Writer :
        pc[w] \in {"sync", "mode", "rename", "done"} => body[w] = "full"

SyncedBeforeMode ==
    \A w \in Writer : pc[w] \in {"mode", "rename", "done"} => w \in synced

ModedBeforeRename ==
    \A w \in Writer : pc[w] \in {"rename", "done"} => w \in moded

NamedDone ==
    /\ linked \in Renamed \union {Initial}
    /\ durable \in Renamed \union {Initial}

IInv ==
    /\ TypeOK
    /\ WrittenFull
    /\ SyncedBeforeMode
    /\ ModedBeforeRename
    /\ NamedDone

-----------------------------------------------------------------------------

LEMMA InitIInv == Init => IInv
  BY InitialAssumption
     DEF Init, IInv, TypeOK, Busy, WrittenFull, SyncedBeforeMode,
         ModedBeforeRename, NamedDone, Renamed

LEMMA StepIInv == IInv /\ [Next]_vars => IInv'
<1> SUFFICES ASSUME IInv, [Next]_vars PROVE IInv'
  OBVIOUS
<1> USE InitialAssumption DEF IInv, TypeOK, Busy, WrittenFull,
     SyncedBeforeMode, ModedBeforeRename, NamedDone, Renamed, Goto
<1>1. ASSUME NEW w \in Writer, Start(w) PROVE IInv'
  BY <1>1 DEF Start
<1>2. ASSUME NEW w \in Writer, CreateTemp(w) PROVE IInv'
  BY <1>2 DEF CreateTemp
<1>3. ASSUME NEW w \in Writer, WriteSome(w) PROVE IInv'
  BY <1>3 DEF WriteSome
<1>4. ASSUME NEW w \in Writer, WriteAll(w) PROVE IInv'
  BY <1>4 DEF WriteAll
<1>5. ASSUME NEW w \in Writer, Sync(w) PROVE IInv'
  BY <1>5 DEF Sync
<1>6. ASSUME NEW w \in Writer, SetMode(w) PROVE IInv'
  BY <1>6 DEF SetMode
<1>7. ASSUME NEW w \in Writer, Rename(w) PROVE IInv'
  BY <1>7 DEF Rename
<1>8. ASSUME NEW w \in Writer, Fail(w) PROVE IInv'
  BY <1>8 DEF Fail
<1>9. ASSUME NEW w \in Writer, Cleanup(w) PROVE IInv'
  BY <1>9 DEF Cleanup
<1>10. ASSUME NEW w \in Writer, Crash(w) PROVE IInv'
  BY <1>10 DEF Crash
<1>11. ASSUME Flush PROVE IInv'
  BY <1>11 DEF Flush
<1>12. ASSUME PowerLoss PROVE IInv'
  <2>1. \A w \in Writer : pc'[w] \notin Busy /\ (pc'[w] = "done" <=> pc[w] = "done")
    BY <1>12 DEF PowerLoss
  <2>2. \A w \in Writer : pc[w] = "done" => body'[w] = "full"
    BY <1>12 DEF PowerLoss
  <2>3. TypeOK'
    BY <1>12 DEF PowerLoss
  <2> QED
    BY <1>12, <2>1, <2>2, <2>3 DEF PowerLoss
<1>13. CASE UNCHANGED vars
  BY <1>13 DEF vars
<1> QED
  BY <1>1, <1>2, <1>3, <1>4, <1>5, <1>6, <1>7, <1>8, <1>9, <1>10, <1>11,
     <1>12, <1>13 DEF Next, Steps

LEMMA Inductive == Spec => []IInv
  BY InitIInv, StepIInv, PTL DEF Spec

(***************************************************************************)
(* The variables have their types.                                         *)
(***************************************************************************)
THEOREM TypeCorrect == Spec => []TypeOK
<1>1. IInv => TypeOK
  BY DEF IInv
<1> QED
  BY <1>1, Inductive, PTL

(***************************************************************************)
(* The destination never names a partial file or one with a wrong mode,    *)
(* and would not do so after a power failure at that moment.               *)
(***************************************************************************)
LEMMA IInvWhole == IInv => NeverPartial
  BY InitialAssumption
     DEF IInv, NeverPartial, Whole, NamedDone, Renamed, WrittenFull,
         ModedBeforeRename

THEOREM Atomic == Spec => []NeverPartial
  BY Inductive, IInvWhole, PTL

(***************************************************************************)
(* A file that has once been named never changes.                          *)
(***************************************************************************)
THEOREM Stable == Spec => OpenedFileIsStable
<1>1. IInv /\ [Next]_vars =>
        [\A w \in Writer : linked = w => body'[w] = body[w] /\ w \in moded']_vars
  <2> SUFFICES ASSUME IInv, Next, NEW w \in Writer, linked = w
               PROVE  body'[w] = body[w] /\ w \in moded'
    OBVIOUS
  <2> USE InitialAssumption DEF IInv, TypeOK, NamedDone, Renamed, Goto
  <2>1. pc[w] = "done" /\ w \in moded /\ w \in synced
    BY DEF ModedBeforeRename, SyncedBeforeMode
  <2>2. ASSUME NEW v \in Writer,
               Start(v) \/ CreateTemp(v) \/ WriteSome(v) \/ WriteAll(v) \/ Sync(v)
        PROVE  body'[w] = body[w] /\ w \in moded'
    BY <2>1, <2>2 DEF Start, CreateTemp, WriteSome, WriteAll, Sync
  <2>3. ASSUME NEW v \in Writer,
               SetMode(v) \/ Rename(v) \/ Fail(v) \/ Cleanup(v) \/ Crash(v)
        PROVE  body'[w] = body[w] /\ w \in moded'
    BY <2>1, <2>3 DEF SetMode, Rename, Fail, Cleanup, Crash
  <2>4. ASSUME Flush \/ PowerLoss
        PROVE  body'[w] = body[w] /\ w \in moded'
    BY <2>1, <2>4 DEF Flush, PowerLoss
  <2> QED
    BY <2>2, <2>3, <2>4 DEF Next, Steps
<1> QED
  BY <1>1, Inductive, PTL DEF Spec, OpenedFileIsStable

(***************************************************************************)
(* The rename writes the register, the file system's flush and power       *)
(* failure are the register's, every other step stutters.                  *)
(***************************************************************************)
RegisterVars == <<VersionOf(linked), VersionOf(durable), Renamed>>

LEMMA StepImplements ==
    IInv /\ IInv' /\ [Next]_vars => [Register!Next]_RegisterVars
<1> SUFFICES ASSUME IInv, IInv', [Next]_vars
             PROVE  [Register!Next]_RegisterVars
  OBVIOUS
<1>1. VersionOf(linked) = linked /\ VersionOf(durable) = durable
  BY IInvWhole DEF NeverPartial, VersionOf
<1>2. VersionOf(linked)' = linked' /\ VersionOf(durable)' = durable'
  BY IInvWhole DEF IInv, NeverPartial, VersionOf, Whole, TypeOK, WrittenFull,
     ModedBeforeRename, NamedDone, Renamed
<1> USE DEF IInv, TypeOK, Busy, Renamed, Goto
<1>3. ASSUME NEW w \in Writer, Rename(w) PROVE Register!Write(w)
  <2>1. w \notin Renamed /\ Renamed' = Renamed \union {w}
    BY <1>3 DEF Rename
  <2> QED
    BY <1>1, <1>2, <1>3, <2>1 DEF Rename, Register!Write
<1>4. ASSUME Flush PROVE Register!Flush
  BY <1>1, <1>2, <1>4 DEF Flush, Register!Flush
<1>5. ASSUME PowerLoss PROVE Register!PowerLoss
  <2>1. Renamed' = Renamed
    BY <1>5 DEF PowerLoss
  <2> QED
    BY <1>1, <1>2, <1>5, <2>1 DEF PowerLoss, Register!PowerLoss
<1>6. ASSUME NEW w \in Writer,
             Start(w) \/ CreateTemp(w) \/ WriteSome(w) \/ WriteAll(w) \/ Sync(w)
      PROVE  Renamed' = Renamed /\ linked' = linked /\ durable' = durable
  BY <1>6 DEF Start, CreateTemp, WriteSome, WriteAll, Sync
<1>7. ASSUME NEW w \in Writer,
             SetMode(w) \/ Fail(w) \/ Cleanup(w) \/ Crash(w)
      PROVE  Renamed' = Renamed /\ linked' = linked /\ durable' = durable
  BY <1>7 DEF SetMode, Fail, Cleanup, Crash
<1>8. CASE UNCHANGED vars
  BY <1>1, <1>2, <1>8 DEF vars, RegisterVars
<1>9. ASSUME NEW w \in Writer, Steps(w), ~Rename(w)
      PROVE  UNCHANGED RegisterVars
  BY <1>1, <1>2, <1>6, <1>7, <1>9 DEF Steps, RegisterVars
<1> QED
  BY <1>3, <1>4, <1>5, <1>8, <1>9 DEF Next, Register!Next

THEOREM Implements == Spec => ImplementsRegister
<1>1. Init => Register!Init
  BY DEF Init, Register!Init, VersionOf, Whole, Renamed
<1>2. IInv /\ IInv' /\ [Next]_vars =>
        [Register!Next]_<<VersionOf(linked), VersionOf(durable), Renamed>>
  BY StepImplements DEF RegisterVars
<1> QED
  BY <1>1, <1>2, Inductive, PTL DEF Spec, ImplementsRegister, Register!Spec

=============================================================================
