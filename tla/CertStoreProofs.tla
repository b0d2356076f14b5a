-------------------------- MODULE CertStoreProofs --------------------------
(***************************************************************************)
(* Proofs about CertStore, for any install paths, validity, threshold,     *)
(* options, faults and number of them.                                     *)
(***************************************************************************)
EXTENDS CertStore, FiniteSetTheorems, TLAPS

(***************************************************************************)
(* The inductive invariant follows a generation through the run that       *)
(* carries it.  A file that has been saved in this run holds the run's     *)
(* generation until someone deletes it; a copy that has been made is of    *)
(* that generation, because the source is read again and its absence ends  *)
(* the run; so what a reload finds is of the run's generation or absent.   *)
(***************************************************************************)
RunShape ==
    /\ run = Run(run.at, run.dry, run.url, run.gen, run.next)
    /\ run.at \in {"idle", "issue", "save", "deploy", "reload"}
    /\ run.next \in 1..6
    /\ run.at = "issue" => run.next = 1
    /\ run.at = "deploy" => run.next <= 4

Shape ==
    /\ store = [a \in Artifact |-> store[a]]
    /\ installed = [a \in Paths |-> installed[a]]
    /\ RunShape

Own(g) == g \in {run.gen, None}

SavedSoFar ==
    run.at = "save" => \A i \in 1..(run.next - 1) : Own(store[SaveOrder[i]])

StoreSaved ==
    run.at \in {"deploy", "reload"} => \A a \in Artifact : Own(store[a])

CopiedSoFar ==
    /\ run.at = "deploy" => \A i \in 1..(run.next - 1) :
           DeployOrder[i] \in Paths => Own(installed[DeployOrder[i]])
    /\ run.at = "reload" => \A a \in Paths : Own(installed[a])

IInv == Shape /\ SavedSoFar /\ StoreSaved /\ CopiedSoFar /\ LoadedPairMatches

-----------------------------------------------------------------------------

LEMMA IdleShape ==
    /\ run = Idle => RunShape /\ run.at = "idle"
    /\ run' = Idle => RunShape' /\ run'.at = "idle"
  BY DEF RunShape, Idle, Run

LEMMA InitIInv == Init => IInv
  BY IdleShape
     DEF Init, IInv, Shape, SavedSoFar, StoreSaved, CopiedSoFar, LoadedPairMatches

(***************************************************************************)
(* Ending the run, however far it has come, and starting another one.      *)
(***************************************************************************)
LEMMA Restart ==
    ASSUME IInv, UNCHANGED <<store, installed, loaded>>,
           RunShape', run'.at \in {"idle", "issue"}
    PROVE  IInv'
  BY DEF IInv, Shape, SavedSoFar, StoreSaved, CopiedSoFar, LoadedPairMatches, RunShape

(***************************************************************************)
(* Steps of others that touch neither the run nor the files.               *)
(***************************************************************************)
LEMMA Bystander ==
    ASSUME IInv, UNCHANGED <<store, installed, loaded, run>>
    PROVE  IInv'
  BY DEF IInv, Shape, SavedSoFar, StoreSaved, CopiedSoFar, LoadedPairMatches,
         RunShape, Own

LEMMA BeginKeeps ==
    ASSUME IInv, NEW flags, NEW ari, BeginRenew(flags, ari)
    PROVE  IInv'
<1>1. CASE run' = Idle
  BY <1>1, IdleShape, Restart DEF BeginRenew
<1>2. CASE run' # Idle
  <2>1. PICK url : run' = Run("issue", flags.dry, url, None, 1)
    BY <1>2, Zenon DEF BeginRenew
  <2>2. run'.at = "issue" /\ RunShape'
    BY <2>1 DEF Run, RunShape
  <2> QED
    BY <2>2, Restart DEF BeginRenew
<1> QED
  BY <1>1, <1>2

LEMMA SaveKeeps == ASSUME IInv, Save PROVE IInv'
<1> USE DEF IInv, Shape, RunShape
<1>1. /\ run.at = "save" /\ run.next \in 1..6
      /\ store' = [store EXCEPT ![SaveOrder[run.next]] = run.gen]
      /\ UNCHANGED <<installed, loaded>>
  BY DEF Save
<1>2. \A i \in 1..6 : SaveOrder[i] \in Artifact
  BY DEF SaveOrder, Artifact, Pem
<1>3. store' = [a \in Artifact |-> store'[a]]
  BY <1>1
<1>4. \A i \in 1..run.next : store'[SaveOrder[i]] \in {run.gen, None}
  BY <1>1, <1>2 DEF SavedSoFar, Own
<1>5. CASE run.next # 6
  <2>1. run' = NextFile
    BY <1>5 DEF Save
  <2>2. RunShape' /\ run'.at = "save" /\ run'.gen = run.gen
        /\ run'.next = run.next + 1
    BY <1>1, <1>5, <2>1 DEF NextFile, Run
  <2> QED
    BY <1>1, <1>3, <1>4, <2>2
       DEF SavedSoFar, StoreSaved, CopiedSoFar, LoadedPairMatches, Own
<1>6. CASE run.next = 6
  <2>1. \A a \in Artifact : store'[a] \in {run.gen, None}
    BY <1>4, <1>6 DEF SaveOrder, Artifact, Pem
  <2>2. \/ run' = Idle
        \/ run' = Run("deploy", run.dry, run.url, run.gen, 1)
    BY <1>6 DEF Save, AfterSave
  <2>3. CASE run' = Idle
    BY <1>1, <1>3, <2>3, IdleShape
       DEF SavedSoFar, StoreSaved, CopiedSoFar, LoadedPairMatches
  <2>4. CASE run' = Run("deploy", run.dry, run.url, run.gen, 1)
    <3>1. RunShape' /\ run'.at = "deploy" /\ run'.gen = run.gen /\ run'.next = 1
      BY <1>1, <2>4 DEF Run
    <3> QED
      BY <1>1, <1>3, <2>1, <3>1
         DEF SavedSoFar, StoreSaved, CopiedSoFar, LoadedPairMatches, Own
  <2> QED
    BY <2>2, <2>3, <2>4
<1> QED
  BY <1>5, <1>6

LEMMA CopyKeeps == ASSUME IInv, NEW a \in Pem, Copy(a) PROVE IInv'
<1> USE PathsAssumption DEF IInv, Shape, RunShape
<1>1. /\ run.at = "deploy" /\ run.next \in 1..4
      /\ a = DeployOrder[run.next] /\ a \in Artifact
      /\ installed' = [p \in Paths |-> IF p = a THEN store[a] ELSE installed[p]]
      /\ UNCHANGED <<store, loaded>>
  BY DEF Copy, Artifact
<1>2. \A i \in 1..run.next :
         DeployOrder[i] \in Paths => installed'[DeployOrder[i]] \in {run.gen, None}
  BY <1>1 DEF StoreSaved, CopiedSoFar, Own
<1>3. installed' = [p \in Paths |-> installed'[p]]
  BY <1>1
<1>4. CASE run.next # 4
  <2>1. RunShape' /\ run'.at = "deploy" /\ run'.gen = run.gen
        /\ run'.next = run.next + 1
    BY <1>1, <1>4 DEF Copy, Deployed, NextFile, Run
  <2> QED
    BY <1>1, <1>2, <1>3, <2>1
       DEF SavedSoFar, StoreSaved, CopiedSoFar, LoadedPairMatches, Own
<1>5. CASE run.next = 4
  <2>1. RunShape' /\ run'.at = "reload" /\ run'.gen = run.gen
    BY <1>1, <1>5 DEF Copy, Deployed, NextFile, Run
  <2>2. \A p \in Paths : installed'[p] \in {run.gen, None}
    BY <1>2, <1>5 DEF DeployOrder
  <2> QED
    BY <1>1, <1>3, <2>1, <2>2
       DEF SavedSoFar, StoreSaved, CopiedSoFar, LoadedPairMatches, Own
<1> QED
  BY <1>4, <1>5

LEMMA ReloadKeeps == ASSUME IInv, Reload PROVE IInv'
<1>1. /\ run.at = "reload" /\ run' = Idle
      /\ UNCHANGED <<store, installed>>
  BY DEF Reload
<1>2. Served("fullchain") \in {run.gen, None} /\ Served("privkey") \in {run.gen, None}
  BY <1>1 DEF IInv, StoreSaved, CopiedSoFar, Served, Own, Artifact, Pem
<1>3. loaded'.cert = loaded'.key
  BY <1>2 DEF Reload, IInv, LoadedPairMatches
<1> QED
  BY <1>1, <1>3, IdleShape
     DEF IInv, Shape, SavedSoFar, StoreSaved, CopiedSoFar, LoadedPairMatches

LEMMA StepIInv == IInv /\ [Next]_vars => IInv'
<1> SUFFICES ASSUME IInv, [Next]_vars PROVE IInv'
  OBVIOUS
<1>1. ASSUME Timer PROVE IInv'
  BY <1>1, BeginKeeps, Bystander DEF Timer
<1>2. ASSUME Operator PROVE IInv'
  BY <1>2, BeginKeeps DEF Operator
<1>3. ASSUME NEW flags, BeginIssue(flags) PROVE IInv'
  <2>1. RunShape' /\ run'.at = "issue"
    BY <1>3 DEF BeginIssue, Idle, Run, RunShape
  <2> QED
    BY <1>3, <2>1, Restart DEF BeginIssue
<1>4. ASSUME NEW g, Obtain(g) PROVE IInv'
  <2>1. CASE run.dry
    BY <1>4, <2>1, Restart, IdleShape DEF Obtain
  <2>2. CASE ~run.dry
    <3>1. RunShape' /\ run'.at = "save" /\ run'.next = 1
      BY <1>4, <2>2 DEF Obtain, IInv, Shape, RunShape, Run
    <3> QED
      BY <1>4, <3>1
         DEF Obtain, IInv, Shape, SavedSoFar, StoreSaved, CopiedSoFar, LoadedPairMatches
  <2> QED
    BY <2>1, <2>2
<1>5. ASSUME Save \/ Reload PROVE IInv'
  BY <1>5, SaveKeeps, ReloadKeeps
<1>6. ASSUME NEW a \in Pem, Copy(a) \/ CopyFails(a) PROVE IInv'
  BY <1>6, CopyKeeps, Restart, IdleShape DEF CopyFails
<1>7. ASSUME Failure PROVE IInv'
  BY <1>7, Restart, IdleShape DEF Failure, ObtainFails, SaveFails, ReloadFails, Crash
<1>8. ASSUME BeginDelete \/ EndDelete \/ Day PROVE IInv'
  BY <1>8, Bystander DEF BeginDelete, EndDelete, Day
<1>9. ASSUME NEW a \in Artifact, Unlink(a) PROVE IInv'
  <2>1. /\ store' = [store EXCEPT ![a] = None]
        /\ UNCHANGED <<installed, loaded, run>>
    BY <1>9 DEF Unlink
  <2>2. \A b \in Artifact : store'[b] \in {store[b], None}
    BY <2>1 DEF IInv, Shape
  <2>3. \A i \in 1..6 : SaveOrder[i] \in Artifact
    BY DEF SaveOrder, Artifact, Pem
  <2> QED
    BY <2>1, <2>2, <2>3
       DEF IInv, Shape, RunShape, SavedSoFar, StoreSaved, CopiedSoFar,
           LoadedPairMatches, Own
<1>10. CASE UNCHANGED vars
  BY <1>10, Bystander DEF vars
<1> QED
  BY <1>1, <1>2, <1>3, <1>4, <1>5, <1>6, <1>7, <1>8, <1>9, <1>10
     DEF Next, Begin, Progress, Delete

(***************************************************************************)
(* The service never has a certificate loaded with another one's key.      *)
(***************************************************************************)
THEOREM ReloadSafe == Spec => []LoadedPairMatches
<1>1. IInv => LoadedPairMatches
  BY DEF IInv
<1> QED
  BY <1>1, InitIInv, StepIInv, PTL DEF Spec

-----------------------------------------------------------------------------

(***************************************************************************)
(* A run that deploys is not one whose URL is the staging preset's, and    *)
(* what it has obtained was ordered from the URL of the run: the           *)
(* generation was unused when it was obtained, so the files in use go on   *)
(* being of the servers they were of.                                      *)
(***************************************************************************)
Obtained ==
    /\ run.at = "idle" => run = Idle
    /\ run.at \in {"idle", "issue"} => run.gen = None
    /\ run.at \in {"save", "deploy", "reload"} => run.gen \in Gen
    /\ \A a \in Artifact : store[a] \in Gen \union {None}

OnlyDeployable ==
    /\ run.at \in {"deploy", "reload"} => ~IsStaging(server[run.gen])
    /\ run.at = "save" => server[run.gen] = run.url
    /\ PresetStagingStaysInStore

SInv == IInv /\ Obtained /\ OnlyDeployable

LEMMA InitSInv == Init => SInv
<1>1. Init => run.at = "idle" /\ run.gen = None
  BY DEF Init, Idle, Run
<1>2. Init => Obtained /\ OnlyDeployable
  BY <1>1, GenAssumption
     DEF Init, Obtained, OnlyDeployable, PresetStagingStaysInStore, InUse
<1>. QED  BY <1>2, InitIInv DEF SInv

\* The end of a run and the start of one.
LEMMA RestartS ==
    ASSUME SInv, UNCHANGED <<store, installed, loaded, server>>,
           run' = Idle \/ \E dry, url : run' = Run("issue", dry, url, None, 1)
    PROVE  Obtained' /\ OnlyDeployable'
<1>1. /\ run'.at \in {"idle", "issue"} /\ run'.gen = None
      /\ run'.at = "idle" => run' = Idle
  BY DEF Idle, Run
<1>. QED  BY <1>1 DEF SInv, Obtained, OnlyDeployable, PresetStagingStaysInStore, InUse

LEMMA BystanderS ==
    ASSUME SInv, UNCHANGED <<installed, loaded, server, run>>,
           \A a \in Artifact : store'[a] \in {store[a], None}
    PROVE  Obtained' /\ OnlyDeployable'
  BY DEF SInv, Obtained, OnlyDeployable, PresetStagingStaysInStore, InUse

LEMMA BeginS ==
    ASSUME SInv, NEW flags, NEW ari, BeginRenew(flags, ari)
    PROVE  Obtained' /\ OnlyDeployable'
<1>1. run' = Idle \/ \E dry, url : run' = Run("issue", dry, url, None, 1)
  BY Zenon DEF BeginRenew
<1>. QED  BY <1>1, RestartS DEF BeginRenew

LEMMA ObtainS ==
    ASSUME SInv, NEW g \in Unused, Obtain(g)
    PROVE  Obtained' /\ OnlyDeployable'
<1>1. /\ g \in Gen /\ g # loaded.cert /\ g # loaded.key
      /\ \A a \in Paths : g # installed[a]
  BY DEF Unused, Held
<1>2. UNCHANGED <<store, installed, loaded>>
  BY DEF Obtain
<1>3. \A h \in Gen \intersect InUse : server'[h] = server[h]
  BY <1>1 DEF Obtain, Held, InUse
<1>4. InUse' = InUse /\ PresetStagingStaysInStore'
  BY <1>3, <1>2 DEF SInv, OnlyDeployable, PresetStagingStaysInStore, InUse
<1>5. CASE run.dry
  <2>1. run' = Idle
    BY <1>5 DEF Obtain
  <2>2. run'.at = "idle" /\ run'.gen = None
    BY <2>1 DEF Idle, Run
  <2>. QED  BY <1>2, <1>4, <2>1, <2>2 DEF SInv, Obtained, OnlyDeployable
<1>6. CASE ~run.dry
  <2>1. run' = Run("save", run.dry, run.url, g, 1)
    BY <1>6 DEF Obtain
  <2>2. run'.at = "save" /\ run'.gen = g /\ run'.url = run.url
    BY <2>1 DEF Run
  <2>3. server'[g] = run.url
    BY <1>1, <1>6 DEF Obtain
  <2>. QED  BY <1>1, <1>2, <1>4, <2>2, <2>3 DEF SInv, Obtained, OnlyDeployable
<1>. QED  BY <1>5, <1>6

LEMMA SaveS == ASSUME SInv, Save PROVE Obtained' /\ OnlyDeployable'
<1>1. run.at = "save" /\ UNCHANGED <<installed, loaded, server>>
  BY DEF Save
<1>2. \/ run' = Idle
      \/ run' = NextFile
      \/ ~IsStaging(run.url) /\ run' = Run("deploy", run.dry, run.url, run.gen, 1)
  BY DEF Save, AfterSave
<1>3. /\ \A a \in Artifact : store'[a] \in Gen \union {None}
      /\ PresetStagingStaysInStore'
  BY <1>1 DEF Save, SInv, IInv, Shape, Obtained, OnlyDeployable,
              PresetStagingStaysInStore, InUse
<1>4. CASE run' = Idle
  <2>1. run'.at = "idle" /\ run'.gen = None
    BY <1>4 DEF Idle, Run
  <2>. QED  BY <1>3, <1>4, <2>1 DEF Obtained, OnlyDeployable
<1>5. CASE run' = NextFile
  <2>1. run'.at = "save" /\ run'.gen = run.gen /\ run'.url = run.url
    BY <1>1, <1>5 DEF NextFile, Run
  <2>. QED  BY <1>1, <1>3, <2>1 DEF SInv, Obtained, OnlyDeployable
<1>6. CASE ~IsStaging(run.url) /\ run' = Run("deploy", run.dry, run.url, run.gen, 1)
  <2>1. run'.at = "deploy" /\ run'.gen = run.gen
    BY <1>6 DEF Run
  <2>. QED  BY <1>1, <1>3, <1>6, <2>1 DEF SInv, Obtained, OnlyDeployable
<1>. QED  BY <1>2, <1>4, <1>5, <1>6

LEMMA CopyS == ASSUME SInv, NEW a \in Pem, Copy(a) PROVE Obtained' /\ OnlyDeployable'
<1>1. /\ run.at = "deploy" /\ UNCHANGED <<store, loaded, server>>
      /\ installed' = [p \in Paths |-> IF p = a THEN store[a] ELSE installed[p]]
  BY DEF Copy
<1>2. store[a] \in {run.gen, None}
  BY <1>1 DEF SInv, IInv, StoreSaved, Own, Artifact
<1>3. PresetStagingStaysInStore'
  BY <1>1, <1>2, GenAssumption DEF SInv, OnlyDeployable, PresetStagingStaysInStore, InUse
<1>4. run'.at \in {"deploy", "reload"} /\ run'.gen = run.gen
  BY <1>1 DEF Copy, Deployed, NextFile, Run
<1>. QED  BY <1>1, <1>3, <1>4 DEF SInv, Obtained, OnlyDeployable

LEMMA ReloadS == ASSUME SInv, Reload PROVE Obtained' /\ OnlyDeployable'
<1>1. /\ run.at = "reload" /\ run' = Idle /\ UNCHANGED <<store, installed, server>>
      /\ \/ UNCHANGED loaded
         \/ loaded' = [cert |-> Served("fullchain"), key |-> Served("privkey")]
  BY DEF Reload
<1>2. Served("fullchain") \in {run.gen, None} /\ Served("privkey") \in {run.gen, None}
  BY <1>1 DEF SInv, IInv, StoreSaved, CopiedSoFar, Served, Own, Artifact, Pem
<1>3. PresetStagingStaysInStore'
  BY <1>1, <1>2, GenAssumption DEF SInv, OnlyDeployable, PresetStagingStaysInStore, InUse
<1>4. run'.at = "idle" /\ run'.gen = None
  BY <1>1 DEF Idle, Run
<1>. QED  BY <1>1, <1>3, <1>4 DEF SInv, Obtained, OnlyDeployable

LEMMA StepSInv == SInv /\ [Next]_vars => SInv'
<1>. SUFFICES ASSUME SInv, [Next]_vars PROVE Obtained' /\ OnlyDeployable'
  BY StepIInv DEF SInv
<1>1. ASSUME Timer PROVE Obtained' /\ OnlyDeployable'
  BY <1>1, BeginS, BystanderS DEF Timer
<1>2. ASSUME Operator PROVE Obtained' /\ OnlyDeployable'
  BY <1>2, BeginS DEF Operator
<1>3. ASSUME NEW flags, BeginIssue(flags) PROVE Obtained' /\ OnlyDeployable'
  BY <1>3, RestartS DEF BeginIssue
<1>4. ASSUME Unused # {}, Obtain(CHOOSE g \in Unused : TRUE)
      PROVE  Obtained' /\ OnlyDeployable'
  <2>1. PICK g \in Unused : g = CHOOSE h \in Unused : TRUE
    BY <1>4
  <2>. QED  BY <1>4, <2>1, ObtainS
<1>5. ASSUME Save \/ Reload PROVE Obtained' /\ OnlyDeployable'
  BY <1>5, SaveS, ReloadS
<1>6. ASSUME NEW a \in Pem, Copy(a) \/ CopyFails(a) PROVE Obtained' /\ OnlyDeployable'
  BY <1>6, CopyS, RestartS DEF CopyFails
<1>7. ASSUME Failure PROVE Obtained' /\ OnlyDeployable'
  BY <1>7, RestartS DEF Failure, ObtainFails, SaveFails, ReloadFails, Crash
<1>8. ASSUME Delete \/ Day PROVE Obtained' /\ OnlyDeployable'
  BY <1>8, BystanderS DEF Delete, BeginDelete, Unlink, EndDelete, Day, SInv, IInv, Shape
<1>9. CASE UNCHANGED vars
  BY <1>9, BystanderS DEF vars
<1>. QED
  BY <1>1, <1>2, <1>3, <1>4, <1>5, <1>6, <1>7, <1>8, <1>9
     DEF Next, Begin, Progress

(***************************************************************************)
(* A certificate ordered from the staging preset never reaches an install  *)
(* path or the service, although runs of all servers, spelled in any way,  *)
(* follow each other, fail anywhere and have files deleted under them.     *)
(***************************************************************************)
THEOREM PresetStagingKept == Spec => []PresetStagingStaysInStore
<1>1. SInv => PresetStagingStaysInStore
  BY DEF SInv, OnlyDeployable
<1>. QED  BY <1>1, InitSInv, StepSInv, PTL DEF Spec

-----------------------------------------------------------------------------

(***************************************************************************)
(* A dry run ends when it has its certificate, before it writes anything.  *)
(***************************************************************************)
DryEndsEarly == run.dry => run.at = "issue"

LEMMA StepDry == SInv /\ DryEndsEarly /\ [Next]_vars => DryEndsEarly'
<1>. SUFFICES ASSUME SInv, DryEndsEarly, [Next]_vars, run'.dry PROVE run'.at = "issue"
  BY DEF DryEndsEarly
<1>1. run' # Idle
  BY DEF Idle, Run
<1>2. \/ run' = run
      \/ \E dry, url : run' = Run("issue", dry, url, None, 1)
      \/ ~run.dry /\ run'.dry = run.dry
  <2>1. ASSUME NEW g, Obtain(g) PROVE ~run.dry /\ run'.dry = run.dry
    BY <1>1, <2>1 DEF Obtain, Run
  <2>2. ASSUME Save \/ Reload \/ \E a \in Pem : Copy(a) \/ CopyFails(a)
        PROVE  ~run.dry /\ run'.dry = run.dry
    BY <1>1, <2>2 DEF Save, AfterSave, Reload, Copy, Deployed, CopyFails, NextFile, Run,
                      DryEndsEarly
  <2>3. ASSUME NEW flags, NEW ari, BeginRenew(flags, ari)
        PROVE  \E dry, url : run' = Run("issue", dry, url, None, 1)
    BY <1>1, <2>3, Zenon DEF BeginRenew
  <2>4. ASSUME Timer \/ Operator \/ \E flags : BeginIssue(flags)
        PROVE  run' = run \/ \E dry, url : run' = Run("issue", dry, url, None, 1)
    BY <2>3, <2>4, Zenon DEF Timer, Operator, BeginIssue
  <2>5. ~Failure
    BY <1>1 DEF Failure, ObtainFails, SaveFails, ReloadFails, Crash
  <2>6. Delete \/ Day \/ UNCHANGED vars => run' = run
    BY DEF Delete, BeginDelete, Unlink, EndDelete, Day, vars
  <2>. QED  BY <2>1, <2>2, <2>4, <2>5, <2>6 DEF Next, Begin, Progress
<1>3. ASSUME NEW dry, NEW url, run' = Run("issue", dry, url, None, 1)
      PROVE  run'.at = "issue"
  BY <1>3 DEF Run
<1>. QED  BY <1>2, <1>3 DEF DryEndsEarly

(***************************************************************************)
(* No step of a dry run writes a file or reloads the service; beside it    *)
(* only a delete can change the store, which removes files.                *)
(***************************************************************************)
THEOREM DryRunsAreDry == Spec => DryRunTouchesNothing
<1>1. Init => DryEndsEarly
  BY DEF Init, Idle, Run, DryEndsEarly
<1>2. SInv /\ DryEndsEarly /\ [Next]_vars =>
         [run.dry => UNCHANGED <<installed, loaded>>
                       /\ \A a \in Artifact : store'[a] \in {store[a], None}]_vars
  <2>. SUFFICES ASSUME SInv, run.at = "issue", [Next]_vars
                PROVE  /\ UNCHANGED <<installed, loaded>>
                       /\ \A a \in Artifact : store'[a] \in {store[a], None}
    BY DEF DryEndsEarly
  <2>1. ASSUME NEW a, Unlink(a)
        PROVE  \A b \in Artifact : store'[b] \in {store[b], None}
    BY <2>1 DEF Unlink, SInv, IInv, Shape
  <2>2. store' = store \/ \E a : Unlink(a)
    BY DEF Next, vars, Begin, Timer, Operator, BeginIssue, BeginRenew, Progress, Obtain,
           Save, Copy, CopyFails, Reload, Failure, ObtainFails, SaveFails, ReloadFails,
           Crash, Delete, BeginDelete, EndDelete, Day
  <2>3. UNCHANGED <<installed, loaded>>
    BY DEF Next, vars, Begin, Timer, Operator, BeginIssue, BeginRenew, Progress, Obtain,
           Save, Copy, CopyFails, Reload, Failure, ObtainFails, SaveFails, ReloadFails,
           Crash, Delete, BeginDelete, Unlink, EndDelete, Day
  <2>. QED  BY <2>1, <2>2, <2>3
<1>. QED  BY <1>1, <1>2, InitSInv, StepSInv, StepDry, PTL DEF Spec, DryRunTouchesNothing

-----------------------------------------------------------------------------

(***************************************************************************)
(* Why the service never uses an expired certificate when nothing but      *)
(* orders fails.  Between runs the store, the install paths and the        *)
(* service agree (Progressed); the certificate they agree on has more days *)
(* left than failures may still happen, and once the timer has run today,  *)
(* one more (Margin): either it was not due, or it was replaced, or the    *)
(* order has failed and counts.  A dry run or one of the staging server at *)
(* the hour of the timer would cost a day without a failure.               *)
(***************************************************************************)
Numbers == left \in [Gen -> Int] /\ faults \in [order : Nat, other : Nat]

PlainRun ==
    ~run.dry /\ ~IsStaging(run.url) /\ \A g \in Gen : ~IsStaging(server[g])

Everywhere(g) ==
    /\ \A a \in Artifact : store[a] = g
    /\ \A p \in Paths : installed[p] = g

Margin ==
    loaded.cert # None =>
        /\ loaded.cert \in Gen
        /\ left[loaded.cert] + faults.order
               >= Threshold + (IF ran /\ run.at = "idle" THEN 1 ELSE 0)

Progressed ==
    /\ deleting = {}
    /\ run.at \in {"idle", "issue"} => Everywhere(loaded.cert)
    /\ run.at = "save" => \A i \in 1..(run.next - 1) : store[SaveOrder[i]] = run.gen
    /\ run.at = "deploy" =>
           /\ \A a \in Artifact : store[a] = run.gen
           /\ \A i \in 1..(run.next - 1) :
                 DeployOrder[i] \in Paths => installed[DeployOrder[i]] = run.gen
    /\ run.at = "reload" => Everywhere(run.gen)
    /\ run.at \in {"save", "deploy", "reload"} => left[run.gen] = Life

Punctual == OnlyFailedOrders => Margin /\ Progressed

VInv == SInv /\ Numbers /\ PlainRun /\ Punctual

\* Operators do neither dry runs nor runs that count as staging.
PlainFlags == \A f \in Flags : ~f.dry /\ ~f.test /\ ~IsStaging(f.server)

LEMMA InitVInv == Init => VInv
<1>. SUFFICES ASSUME Init PROVE VInv
  OBVIOUS
<1>1. run.at = "idle" /\ ~run.dry /\ ~IsStaging(run.url)
  BY DEF Init, Idle, Run, IsStaging
<1>2. Numbers /\ PlainRun
  BY <1>1 DEF Init, Numbers, PlainRun, IsStaging
<1>3. Punctual
  BY <1>1 DEF Init, Punctual, Margin, Progressed, Everywhere
<1>. QED  BY <1>2, <1>3, InitSInv DEF VInv

(***************************************************************************)
(* Faults add up: a step that ends with no fault but failed orders began   *)
(* so.  A fault of another kind leaves nothing to show.                    *)
(***************************************************************************)
LEMMA OtherFault ==
    ASSUME Numbers, NEW kind, kind # "ca", Fault(kind)
    PROVE  faults' \in [order : Nat, other : Nat] /\ ~OnlyFailedOrders'
<1>1. faults' = [faults EXCEPT !.other = faults.other + 1]
  BY DEF Fault
<1>. QED  BY <1>1 DEF Numbers, OnlyFailedOrders

LEMMA OrderFault ==
    ASSUME Numbers, Fault("ca")
    PROVE  /\ faults' \in [order : Nat, other : Nat]
           /\ faults'.order = faults.order + 1 /\ faults'.other = faults.other
           /\ OnlyFailedOrders' => OnlyFailedOrders
<1>1. faults' = [faults EXCEPT !.order = faults.order + 1]
  BY DEF Fault
<1>2. /\ faults' \in [order : Nat, other : Nat]
      /\ faults'.order = faults.order + 1 /\ faults'.other = faults.other
  BY <1>1 DEF Numbers
<1>. QED  BY <1>2, LifeAssumption DEF Numbers, OnlyFailedOrders

(***************************************************************************)
(* renew finds the certificate due at the threshold; if it does not, the   *)
(* certificate has more days left than the threshold.                      *)
(***************************************************************************)
LEMMA NotDue ==
    ASSUME VInv, OnlyFailedOrders, run.at = "idle", loaded.cert # None,
           NEW flags, NEW ari, BeginRenew(flags, ari), run' = Idle
    PROVE  left[loaded.cert] >= Threshold + 1
<1>1. store["renewal"] = loaded.cert /\ store["cert"] = loaded.cert
  BY DEF VInv, Punctual, Progressed, Everywhere, Artifact, Pem
<1>2. ~Due(flags, ari)
  <2>1. \A url : Run("issue", flags.dry, url, None, 1) # Idle
    BY DEF Run, Idle
  <2>. QED  BY <1>1, <2>1 DEF BeginRenew
<1>3. ~(DaysLeft <= Threshold)
  BY <1>2 DEF Due
<1>. QED
  BY <1>1, <1>3, LifeAssumption
     DEF VInv, Numbers, Punctual, Margin, DaysLeft, OnlyFailedOrders

LEMMA BeginV ==
    ASSUME VInv, NEW flags, NEW ari, BeginRenew(flags, ari), ~flags.dry, ~flags.test,
           ~IsStaging(flags.server),
           ran' \in {ran, TRUE}
    PROVE  Numbers' /\ PlainRun' /\ Punctual'
<1>1. run = Idle /\ UNCHANGED <<store, installed, loaded, left, server, deleting, faults>>
  BY DEF BeginRenew
<1>2. run.at = "idle"
  BY <1>1 DEF Idle, Run
<1>3. PlainRun'
  <2>1. CASE run' = Idle
    BY <1>1, <2>1 DEF Idle, Run, VInv, PlainRun
  <2>2. CASE run' # Idle
    <3>1. /\ store["renewal"] # None
          /\ run' = Run("issue", flags.dry,
                       Directory(flags.test \/ flags.dry, flags.server,
                                 server[store["renewal"]]), None, 1)
      BY <2>2 DEF BeginRenew
    <3>2. ~run'.dry /\ run'.url \in {flags.server, server[store["renewal"]]}
      BY <3>1 DEF Run, Directory
    <3>3. ~IsStaging(server[store["renewal"]])
      BY <3>1 DEF VInv, PlainRun, SInv, Obtained, Artifact
    <3>. QED  BY <1>1, <3>2, <3>3, Zenon DEF VInv, PlainRun
  <2>. QED  BY <2>1, <2>2
<1>4. run' = Idle \/ run'.at = "issue"
  BY DEF BeginRenew, Run
<1>5. ASSUME OnlyFailedOrders PROVE Margin' /\ Progressed'
  <2>1. run'.at \in {"idle", "issue"}
    BY <1>4 DEF Idle, Run
  <2>2. Progressed'
    BY <1>1, <1>2, <1>5, <2>1 DEF VInv, Punctual, Progressed, Everywhere
  <2>3. CASE run' = Idle
    <3>1. loaded.cert # None => left[loaded.cert] >= Threshold + 1
      BY <1>2, <1>5, <2>3, NotDue
    <3>. QED
      BY <1>1, <1>5, <2>2, <3>1, LifeAssumption DEF VInv, Numbers, Punctual, Margin
  <2>4. CASE run'.at = "issue"
    <3>1. left[loaded.cert] + faults.order >= Threshold \/ loaded.cert = None
      BY <1>5, LifeAssumption DEF VInv, Numbers, Punctual, Margin
    <3>. QED
      BY <1>1, <1>5, <2>2, <2>4, <3>1, LifeAssumption
         DEF VInv, Numbers, Punctual, Margin
  <2>. QED  BY <1>4, <2>2, <2>3, <2>4
<1>6. OnlyFailedOrders' => OnlyFailedOrders
  BY <1>1 DEF OnlyFailedOrders
<1>. QED  BY <1>1, <1>3, <1>5, <1>6 DEF Punctual, VInv, Numbers

LEMMA BeginIssueV ==
    ASSUME VInv, NEW flags, BeginIssue(flags), ~flags.test, ~IsStaging(flags.server)
    PROVE  Numbers' /\ PlainRun' /\ Punctual'
<1>1. run = Idle
      /\ run' = Run("issue", FALSE, Directory(flags.test, flags.server, "production"),
                    None, 1)
      /\ UNCHANGED <<store, installed, loaded, left, server, deleting, faults, ran>>
  BY DEF BeginIssue
<1>2. run.at = "idle" /\ run'.at = "issue" /\ ~run'.dry /\ ~IsStaging(run'.url)
  BY <1>1 DEF Idle, Run, Directory, IsStaging, IsStaging
<1>3. OnlyFailedOrders' => Progressed'
  BY <1>1, <1>2 DEF VInv, Punctual, Progressed, Everywhere, OnlyFailedOrders
<1>4. ASSUME OnlyFailedOrders PROVE Margin'
  <2>1. left[loaded.cert] + faults.order >= Threshold \/ loaded.cert = None
    BY <1>4, LifeAssumption DEF VInv, Numbers, Punctual, Margin
  <2>2. loaded.cert # None => loaded.cert \in Gen
    BY <1>4 DEF VInv, Punctual, Margin
  <2>3. ~(run'.at = "idle")
    BY <1>2
  <2>. QED  BY <1>1, <2>1, <2>2, <2>3, LifeAssumption DEF Margin
<1>5. OnlyFailedOrders' => OnlyFailedOrders
  BY <1>1 DEF OnlyFailedOrders
<1>. QED  BY <1>1, <1>2, <1>3, <1>4, <1>5 DEF VInv, Numbers, PlainRun, Punctual

\* The new generation is nobody's, so the one in use keeps its days.
LEMMA ObtainV ==
    ASSUME VInv, NEW g \in Unused, Obtain(g)
    PROVE  Numbers' /\ PlainRun' /\ Punctual'
<1>1. /\ run.at = "issue" /\ run' = Run("save", run.dry, run.url, g, 1)
      /\ left' = [h \in Gen |-> IF h = g THEN Life ELSE IF h \in Held THEN left[h] ELSE -1]
      /\ server' = [h \in Gen |-> IF h = g THEN run.url
                                  ELSE IF h \in Held THEN server[h] ELSE "production"]
      /\ UNCHANGED <<store, installed, loaded, deleting, ran, faults>>
  BY DEF Obtain, VInv, PlainRun
<1>2. run'.at = "save" /\ run'.gen = g /\ run'.next = 1 /\ ~run'.dry /\ ~IsStaging(run'.url)
  BY <1>1 DEF Run, VInv, PlainRun
<1>3. g \in Gen /\ g # loaded.cert /\ loaded.cert \in Held
  BY DEF Unused, Held
<1>4. Numbers' /\ PlainRun'
  BY <1>1, <1>2, LifeAssumption DEF VInv, Numbers, PlainRun, IsStaging
<1>5. left'[g] = Life /\ (loaded.cert \in Gen => left'[loaded.cert] = left[loaded.cert])
  BY <1>1, <1>3
<1>. QED
  BY <1>1, <1>2, <1>4, <1>5, LifeAssumption
     DEF VInv, Numbers, Punctual, Margin, Progressed, OnlyFailedOrders

LEMMA SaveV == ASSUME VInv, Save PROVE Numbers' /\ PlainRun' /\ Punctual'
<1>. USE DEF VInv, SInv, IInv, Shape, RunShape
<1>1. /\ run.at = "save" /\ run.next \in 1..6
      /\ store' = [store EXCEPT ![SaveOrder[run.next]] = run.gen]
      /\ UNCHANGED <<installed, loaded, left, server, deleting, ran, faults>>
  BY DEF Save
<1>2. /\ run'.gen = run.gen /\ ~run'.dry /\ ~IsStaging(run'.url)
      /\ \/ run.next # 6 /\ run'.at = "save" /\ run'.next = run.next + 1
         \/ run.next = 6 /\ run'.at = "deploy" /\ run'.next = 1
  BY DEF Save, AfterSave, NextFile, Run, PlainRun
<1>3. \A i \in 1..6 : SaveOrder[i] \in Artifact
  BY DEF SaveOrder, Artifact, Pem
<1>4. ASSUME OnlyFailedOrders
      PROVE  \A i \in 1..run.next : store'[SaveOrder[i]] = run.gen
  BY <1>1, <1>3, <1>4 DEF Punctual, Progressed
<1>5. ASSUME OnlyFailedOrders, run.next = 6
      PROVE  \A a \in Artifact : store'[a] = run.gen
  BY <1>4, <1>5 DEF SaveOrder, Artifact, Pem
<1>6. ASSUME OnlyFailedOrders PROVE Progressed'
  BY <1>1, <1>2, <1>4, <1>5, <1>6 DEF Punctual, Progressed
<1>7. ASSUME OnlyFailedOrders PROVE Margin'
  BY <1>1, <1>2, <1>7 DEF Punctual, Margin
<1>. QED
  BY <1>1, <1>2, <1>6, <1>7 DEF Numbers, PlainRun, Punctual, OnlyFailedOrders

LEMMA CopyV == ASSUME VInv, NEW a \in Pem, Copy(a) PROVE Numbers' /\ PlainRun' /\ Punctual'
<1>. USE PathsAssumption DEF VInv, SInv, IInv, Shape, RunShape
<1>1. /\ run.at = "deploy" /\ run.next \in 1..4 /\ a = DeployOrder[run.next]
      /\ a \in Artifact
      /\ installed' = [p \in Paths |-> IF p = a THEN store[a] ELSE installed[p]]
      /\ UNCHANGED <<store, loaded, left, server, deleting, ran, faults>>
  BY DEF Copy, Artifact
<1>2. /\ run'.gen = run.gen /\ ~run'.dry /\ ~IsStaging(run'.url)
      /\ \/ run.next # 4 /\ run'.at = "deploy" /\ run'.next = run.next + 1
         \/ run.next = 4 /\ run'.at = "reload"
  BY <1>1 DEF Copy, Deployed, NextFile, Run, PlainRun
<1>3. ASSUME OnlyFailedOrders
      PROVE  \A i \in 1..run.next :
                DeployOrder[i] \in Paths => installed'[DeployOrder[i]] = run.gen
  BY <1>1, <1>3 DEF Punctual, Progressed
<1>4. ASSUME OnlyFailedOrders, run.next = 4
      PROVE  \A p \in Paths : installed'[p] = run.gen
  BY <1>3, <1>4 DEF DeployOrder
<1>5. ASSUME OnlyFailedOrders PROVE Progressed'
  BY <1>1, <1>2, <1>3, <1>4, <1>5 DEF Punctual, Progressed, Everywhere
<1>6. ASSUME OnlyFailedOrders PROVE Margin'
  BY <1>1, <1>2, <1>6 DEF Punctual, Margin
<1>. QED
  BY <1>1, <1>2, <1>5, <1>6 DEF Numbers, PlainRun, Punctual, OnlyFailedOrders

\* The service changes over to a certificate that has all its days.
LEMMA ReloadV == ASSUME VInv, Reload PROVE Numbers' /\ PlainRun' /\ Punctual'
<1>1. /\ run.at = "reload" /\ run' = Idle
      /\ UNCHANGED <<store, installed, left, server, deleting, ran, faults>>
  BY DEF Reload
<1>2. run'.at = "idle" /\ ~run'.dry /\ ~IsStaging(run'.url)
  BY <1>1 DEF Idle, Run, IsStaging
<1>3. ASSUME OnlyFailedOrders PROVE Margin' /\ Progressed'
  <2>1. Everywhere(run.gen) /\ run.gen \in Gen /\ left[run.gen] = Life
    BY <1>1, <1>3 DEF VInv, SInv, Obtained, Punctual, Progressed
  <2>2. Served("fullchain") = run.gen /\ Served("privkey") = run.gen
    BY <2>1 DEF Served, Everywhere, Artifact, Pem
  <2>3. loaded'.cert = run.gen
    BY <2>1, <2>2, GenAssumption DEF Reload
  <2>. QED
    BY <1>1, <1>2, <1>3, <2>1, <2>3, LifeAssumption
       DEF VInv, Numbers, Punctual, Margin, Progressed, Everywhere
<1>. QED
  BY <1>1, <1>2, <1>3 DEF VInv, Numbers, PlainRun, Punctual, OnlyFailedOrders

\* A failed order uses up one of the days.
LEMMA ObtainFailsV == ASSUME VInv, ObtainFails PROVE Numbers' /\ PlainRun' /\ Punctual'
<1>1. /\ run.at = "issue" /\ run' = Idle /\ Fault("ca")
      /\ UNCHANGED <<store, installed, loaded, left, server, deleting, ran>>
  BY DEF ObtainFails
<1>2. run'.at = "idle" /\ ~run'.dry /\ ~IsStaging(run'.url)
  BY <1>1 DEF Idle, Run, IsStaging
<1>3. /\ faults' \in [order : Nat, other : Nat] /\ faults'.order = faults.order + 1
      /\ OnlyFailedOrders' => OnlyFailedOrders
  BY <1>1, OrderFault DEF VInv
<1>4. ASSUME OnlyFailedOrders PROVE Margin' /\ Progressed'
  BY <1>1, <1>2, <1>3, <1>4, LifeAssumption
     DEF VInv, Numbers, Punctual, Margin, Progressed, Everywhere
<1>. QED
  BY <1>1, <1>2, <1>3, <1>4 DEF VInv, Numbers, PlainRun, Punctual

\* Every other fault is outside of what is claimed.
LEMMA FaultV ==
    ASSUME VInv, NEW kind, kind # "ca", Fault(kind), UNCHANGED <<left, server>>,
           run' \in {run, Idle}
    PROVE  Numbers' /\ PlainRun' /\ Punctual'
<1>1. ~Idle.dry /\ ~IsStaging(Idle.url)
  BY DEF Idle, Run, IsStaging
<1>2. faults' \in [order : Nat, other : Nat] /\ ~OnlyFailedOrders'
  BY OtherFault DEF VInv
<1>. QED  BY <1>1, <1>2 DEF VInv, Numbers, PlainRun, Punctual

LEMMA CopyFailsV ==
    ASSUME VInv, NEW a \in Pem, CopyFails(a)
    PROVE  Numbers' /\ PlainRun' /\ Punctual'
<1>1. CASE Fault("io")
  BY <1>1, FaultV DEF CopyFails
<1>2. CASE store[a] = None /\ UNCHANGED faults
  <2>1. ~OnlyFailedOrders
    BY <1>2, GenAssumption
       DEF CopyFails, VInv, SInv, Obtained, Punctual, Progressed, Artifact
  <2>2. ~Idle.dry /\ ~IsStaging(Idle.url)
    BY DEF Idle, Run, IsStaging
  <2>. QED
    BY <1>2, <2>1, <2>2
       DEF CopyFails, VInv, Numbers, PlainRun, Punctual, OnlyFailedOrders
<1>. QED  BY <1>1, <1>2 DEF CopyFails

LEMMA UnlinkV ==
    ASSUME VInv, NEW a, Unlink(a)
    PROVE  Numbers' /\ PlainRun' /\ Punctual'
<1>1. ~OnlyFailedOrders
  BY DEF Unlink, VInv, Punctual, Progressed
<1>. QED
  BY <1>1 DEF Unlink, VInv, Numbers, PlainRun, Punctual, OnlyFailedOrders

LEMMA EndDeleteV == ASSUME VInv, EndDelete PROVE Numbers' /\ PlainRun' /\ Punctual'
<1>1. ~OnlyFailedOrders
  BY DEF EndDelete, VInv, Punctual, Progressed
<1>. QED
  BY <1>1 DEF EndDelete, VInv, Numbers, PlainRun, Punctual, OnlyFailedOrders

\* By midnight the timer has run, so a day may go.
LEMMA DayV == ASSUME VInv, Day PROVE Numbers' /\ PlainRun' /\ Punctual'
<1>1. /\ ran /\ run = Idle /\ ~ran'
      /\ left' = [g \in Gen |-> IF g \in Held /\ left[g] >= 0 THEN left[g] - 1 ELSE -1]
      /\ UNCHANGED <<store, installed, loaded, server, run, deleting, faults>>
  BY DEF Day
<1>2. run.at = "idle"
  BY <1>1 DEF Idle, Run
<1>3. Numbers' /\ PlainRun'
  BY <1>1 DEF VInv, Numbers, PlainRun
<1>4. ASSUME OnlyFailedOrders PROVE Margin' /\ Progressed'
  <2>1. Progressed'
    BY <1>1, <1>2, <1>4 DEF VInv, Punctual, Progressed, Everywhere
  <2>2. ASSUME loaded.cert # None
        PROVE  /\ loaded.cert \in Gen
               /\ left'[loaded.cert] = left[loaded.cert] - 1
               /\ left[loaded.cert] + faults.order >= Threshold + 1
    <3>1. loaded.cert \in Gen /\ left[loaded.cert] + faults.order >= Threshold + 1
      BY <1>1, <1>2, <1>4, <2>2 DEF VInv, Punctual, Margin
    <3>2. left[loaded.cert] >= 0
      BY <1>4, <3>1, LifeAssumption DEF VInv, Numbers, OnlyFailedOrders
    <3>3. loaded.cert \in Held
      BY DEF Held
    <3>. QED  BY <1>1, <3>1, <3>2, <3>3
  <2>3. Margin'
    BY <1>1, <2>2, LifeAssumption DEF Margin, VInv, Numbers
  <2>. QED  BY <2>1, <2>3
<1>. QED  BY <1>1, <1>3, <1>4 DEF Punctual, OnlyFailedOrders

LEMMA StepVInv == ASSUME PlainFlags PROVE VInv /\ [Next]_vars => VInv'
<1>. SUFFICES ASSUME VInv, [Next]_vars PROVE Numbers' /\ PlainRun' /\ Punctual'
  BY StepSInv DEF VInv
<1>1. ASSUME Timer PROVE Numbers' /\ PlainRun' /\ Punctual'
  <2>1. CASE \E ari \in BOOLEAN : BeginRenew(Plain, ari)
    BY <1>1, <2>1, BeginV DEF Timer, Plain, IsStaging
  <2>2. CASE run # Idle /\ UNCHANGED <<store, installed, loaded, left, server, run,
                                       deleting, faults>>
    <3>1. run.at # "idle"
      BY <2>2 DEF VInv, SInv, Obtained
    <3>. QED
      BY <2>2, <3>1 DEF VInv, Numbers, PlainRun, Punctual, Margin, Progressed,
                        Everywhere, OnlyFailedOrders
  <2>. QED  BY <1>1, <2>1, <2>2 DEF Timer
<1>2. ASSUME Operator PROVE Numbers' /\ PlainRun' /\ Punctual'
  BY <1>2, BeginV DEF Operator, PlainFlags
<1>3. ASSUME NEW flags \in Flags \union {Plain}, BeginIssue(flags)
      PROVE  Numbers' /\ PlainRun' /\ Punctual'
  <2>1. ~flags.test /\ ~IsStaging(flags.server)
    BY <1>3 DEF PlainFlags, Plain, IsStaging
  <2>. QED  BY <1>3, <2>1, BeginIssueV
<1>4. ASSUME Unused # {}, Obtain(CHOOSE g \in Unused : TRUE)
      PROVE  Numbers' /\ PlainRun' /\ Punctual'
  <2>1. PICK g \in Unused : g = CHOOSE h \in Unused : TRUE
    BY <1>4
  <2>. QED  BY <1>4, <2>1, ObtainV
<1>5. ASSUME Save \/ Reload \/ \E a \in Pem : Copy(a) \/ CopyFails(a)
      PROVE  Numbers' /\ PlainRun' /\ Punctual'
  BY <1>5, SaveV, ReloadV, CopyV, CopyFailsV
<1>6. ASSUME Failure PROVE Numbers' /\ PlainRun' /\ Punctual'
  BY <1>6, ObtainFailsV, FaultV DEF Failure, SaveFails, ReloadFails, Crash
<1>7. ASSUME Delete PROVE Numbers' /\ PlainRun' /\ Punctual'
  BY <1>7, FaultV, UnlinkV, EndDeleteV DEF Delete, BeginDelete
<1>8. ASSUME Day PROVE Numbers' /\ PlainRun' /\ Punctual'
  BY <1>8, DayV
<1>9. CASE UNCHANGED vars
  BY <1>9 DEF vars, VInv, Numbers, PlainRun, Punctual, Margin, Progressed, Everywhere,
              OnlyFailedOrders
<1>. QED
  BY <1>1, <1>2, <1>3, <1>4, <1>5, <1>6, <1>7, <1>8, <1>9 DEF Next, Begin, Progress

(***************************************************************************)
(* For every validity, threshold and set of install paths: while at most   *)
(* Threshold orders fail, and nothing else does, the service never uses an *)
(* expired certificate.  Operators may force renewals and issue anew, but  *)
(* do neither dry runs nor runs that count as staging.                     *)
(***************************************************************************)
THEOREM NeverExpired ==
    ASSUME PlainFlags
    PROVE  Spec => []ServedValid
<1>1. VInv => ServedValid
  BY LifeAssumption
     DEF VInv, Numbers, Punctual, Margin, OnlyFailedOrders, ServedValid
<1>. QED  BY <1>1, InitVInv, StepVInv, PTL DEF Spec

-----------------------------------------------------------------------------

(***************************************************************************)
(* The store, the install paths, the service and the run hold thirteen     *)
(* generations at most: with more than that there always is an unused one. *)
(***************************************************************************)
LEMMA OneMore ==
    ASSUME NEW S, NEW n \in Nat, IsFiniteSet(S), Cardinality(S) <= n, NEW x
    PROVE  IsFiniteSet(S \union {x}) /\ Cardinality(S \union {x}) <= n + 1
<1>1. Cardinality(S) \in Nat
  BY FS_CardinalityType
<1>2. /\ IsFiniteSet(S \union {x})
      /\ Cardinality(S \union {x}) = IF x \in S THEN Cardinality(S) ELSE Cardinality(S) + 1
  BY FS_AddElement
<1>. QED  BY <1>1, <1>2

LEMMA SixFit ==
    ASSUME NEW a, NEW b, NEW c, NEW d, NEW e, NEW f
    PROVE  /\ IsFiniteSet({a, b, c, d, e, f})
           /\ Cardinality({a, b, c, d, e, f}) <= 6
<1>. DEFINE Fits(S, n) == IsFiniteSet(S) /\ Cardinality(S) <= n
            S1 == {a}
            S2 == S1 \union {b}
            S3 == S2 \union {c}
            S4 == S3 \union {d}
            S5 == S4 \union {e}
            S6 == S5 \union {f}
<1>1. Fits(S1, 1)
  BY FS_Singleton
<1>2. S6 = {a, b, c, d, e, f}
  OBVIOUS
<1>3. ASSUME NEW S, NEW x
      PROVE  /\ Fits(S, 1) => Fits(S \union {x}, 2)
             /\ Fits(S, 2) => Fits(S \union {x}, 3)
             /\ Fits(S, 3) => Fits(S \union {x}, 4)
             /\ Fits(S, 4) => Fits(S \union {x}, 5)
             /\ Fits(S, 5) => Fits(S \union {x}, 6)
  <2>1. IsFiniteSet(S) => Cardinality(S) \in Nat
    BY FS_CardinalityType
  <2>2. IsFiniteSet(S) =>
          /\ IsFiniteSet(S \union {x})
          /\ Cardinality(S \union {x}) = IF x \in S THEN Cardinality(S) ELSE Cardinality(S) + 1
    BY FS_AddElement
  <2>. QED  BY <2>1, <2>2
<1>. HIDE DEF Fits, S1
<1>4. Fits(S2, 2)
  BY <1>1, <1>3, Zenon
<1>. HIDE DEF S2
<1>5. Fits(S3, 3)
  BY <1>3, <1>4, Zenon
<1>. HIDE DEF S3
<1>6. Fits(S4, 4)
  BY <1>3, <1>5, Zenon
<1>. HIDE DEF S4
<1>7. Fits(S5, 5)
  BY <1>3, <1>6, Zenon
<1>. HIDE DEF S5
<1>8. Fits(S6, 6)
  BY <1>3, <1>7, Zenon
<1>9. Fits({a, b, c, d, e, f}, 6)
  BY <1>2, <1>8
<1>. QED  BY <1>9 DEF Fits

LEMMA HeldFits == IsFiniteSet(Held) /\ Cardinality(Held) <= 13
<1>. DEFINE S == {store["cert"], store["chain"], store["fullchain"], store["privkey"],
                  store["key"], store["renewal"]}
            I == {installed["cert"], installed["privkey"], installed["fullchain"],
                  installed["chain"], loaded.cert, loaded.key}
<1>1. IsFiniteSet(S) /\ Cardinality(S) <= 6 /\ IsFiniteSet(I) /\ Cardinality(I) <= 6
  BY SixFit
<1>2. Held \subseteq (S \union I) \union {run.gen}
  BY PathsAssumption DEF Held, Artifact, Pem
<1>. HIDE DEF S, I
<1>3. IsFiniteSet(S \union I) /\ Cardinality(S \union I) <= 12
  <2>1. /\ IsFiniteSet(S \union I)
        /\ Cardinality(S \union I) = Cardinality(S) + Cardinality(I) - Cardinality(S \intersect I)
    BY <1>1, FS_Union
  <2>2. IsFiniteSet(S \intersect I)
    BY <1>1, FS_Intersection
  <2>3. Cardinality(S) \in Nat /\ Cardinality(I) \in Nat /\ Cardinality(S \intersect I) \in Nat
    BY <1>1, <2>2, FS_CardinalityType
  <2>. QED  BY <1>1, <2>1, <2>3
<1>. DEFINE U == S \union I
<1>4. IsFiniteSet(U) /\ Cardinality(U) <= 12
  BY <1>3
<1>. HIDE DEF U
<1>5. IsFiniteSet(U \union {run.gen}) /\ Cardinality(U \union {run.gen}) <= 12 + 1
  BY <1>4, OneMore
<1>6. Held \subseteq U \union {run.gen}
  BY <1>2 DEF U
<1>7. IsFiniteSet(Held) /\ Cardinality(Held) <= Cardinality(U \union {run.gen})
  BY <1>5, <1>6, FS_Subset
<1>8. Cardinality(Held) \in Nat /\ Cardinality(U \union {run.gen}) \in Nat
  BY <1>5, <1>7, FS_CardinalityType
<1>. QED  BY <1>5, <1>7, <1>8

\* More generations than files, install paths, the service and a run hold.
ManyGenerations == ~IsFiniteSet(Gen) \/ Cardinality(Gen) > 13

LEMMA SomeUnused == ASSUME ManyGenerations PROVE Unused # {}
<1>. SUFFICES ASSUME Gen \subseteq Held PROVE FALSE
  BY DEF Unused
<1>1. IsFiniteSet(Gen) /\ Cardinality(Gen) <= Cardinality(Held)
  BY HeldFits, FS_Subset
<1>. QED
  BY <1>1, HeldFits, FS_CardinalityType DEF ManyGenerations

Typed ==
    /\ store \in [Artifact -> Gen \union {None}]
    /\ installed \in [Paths -> Gen \union {None}]
    /\ loaded \in [cert : Gen \union {None}, key : Gen \union {None}]
    /\ left \in [Gen -> -1..Life]
    /\ server \in [Gen -> Url] /\ run.url \in Url
    /\ run.gen \in Gen \union {None}
    /\ deleting \subseteq Artifact /\ ran \in BOOLEAN
    /\ faults \in [order : 0..MaxFaults, other : 0..MaxFaults]

LEMMA FaultTyped ==
    ASSUME faults \in [order : 0..MaxFaults, other : 0..MaxFaults], NEW kind, Fault(kind)
    PROVE  faults' \in [order : 0..MaxFaults, other : 0..MaxFaults]
<1>. USE FaultsAssumption
<1>1. faults.order + faults.other < MaxFaults
  BY DEF Fault, Total
<1>2. CASE kind = "ca"
  <2>1. faults' = [faults EXCEPT !.order = faults.order + 1]
    BY <1>2 DEF Fault
  <2>. QED  BY <1>1, <2>1
<1>3. CASE kind # "ca"
  <2>1. faults' = [faults EXCEPT !.other = faults.other + 1]
    BY <1>3 DEF Fault
  <2>. QED  BY <1>1, <2>1
<1>. QED  BY <1>2, <1>3

LEMMA StepTyped ==
    ASSUME ManyGenerations
    PROVE  SInv /\ Typed /\ [Next]_vars => Typed'
<1>. SUFFICES ASSUME SInv, Typed, [Next]_vars PROVE Typed'
  OBVIOUS
<1>. USE LifeAssumption, GenAssumption DEF Typed
<1>1. /\ run' = Idle => run'.gen = None /\ run'.url \in Url
      /\ \A f \in Flags \union {Plain} : f.server \in Url \union {"unset"}
  BY FlagsAssumption DEF Idle, Run, Url, Plain
<1>2. ASSUME NEW f \in Flags \union {Plain}, NEW ari, BeginRenew(f, ari), ran' \in BOOLEAN
      PROVE  Typed'
  <2>1. CASE run' = Idle
    BY <1>1, <1>2, <2>1 DEF BeginRenew
  <2>2. CASE run' # Idle
    <3>1. /\ store["renewal"] # None
          /\ run' = Run("issue", f.dry, Directory(f.test \/ f.dry, f.server,
                                                 server[store["renewal"]]), None, 1)
      BY <1>2, <2>2 DEF BeginRenew
    <3>2. server[store["renewal"]] \in Url
      BY <3>1 DEF Artifact
    <3>3. run'.gen = None /\ run'.url \in Url
      BY <1>1, <3>1, <3>2 DEF Run, Directory, Url
    <3>. QED  BY <1>2, <3>3 DEF BeginRenew
  <2>. QED  BY <2>1, <2>2
<1>3. ASSUME Timer \/ Operator PROVE Typed'
  BY <1>2, <1>3 DEF Timer, Operator
<1>4. ASSUME NEW f \in Flags \union {Plain}, BeginIssue(f) PROVE Typed'
  <2>1. run'.gen = None /\ run'.url \in Url
    BY <1>1, <1>4 DEF BeginIssue, Run, Directory, Url
  <2>. QED  BY <1>4, <2>1 DEF BeginIssue
<1>5. ASSUME NEW g \in Gen, Obtain(g) PROVE Typed'
  <2>1. run'.gen \in {None, g} /\ run'.url \in Url
    BY <1>1, <1>5 DEF Obtain, Run
  <2>2. left' \in [Gen -> -1..Life] /\ server' \in [Gen -> Url]
    BY <1>5 DEF Obtain, Url
  <2>. QED  BY <1>5, <2>1, <2>2 DEF Obtain
<1>6. ASSUME Unused # {}, Obtain(CHOOSE g \in Unused : TRUE) PROVE Typed'
  <2>1. (CHOOSE g \in Unused : TRUE) \in Gen
    BY <1>6 DEF Unused
  <2>. QED  BY <1>5, <1>6, <2>1
<1>7. ASSUME Save PROVE Typed'
  <2>1. run'.gen \in {None, run.gen} /\ run'.url \in Url
    BY <1>1, <1>7 DEF Save, AfterSave, NextFile, Run
  <2>. QED  BY <1>7, <2>1 DEF Save
<1>8. ASSUME NEW a \in Pem, Copy(a) PROVE Typed'
  <2>1. run'.gen = run.gen /\ run'.url = run.url /\ a \in Artifact
    BY <1>8 DEF Copy, Deployed, NextFile, Run, Artifact
  <2>. QED  BY <1>8, <2>1 DEF Copy
<1>9. ASSUME Reload PROVE Typed'
  <2>1. Served("fullchain") \in Gen \union {None} /\ Served("privkey") \in Gen \union {None}
    BY DEF Served, Artifact, Pem
  <2>. QED  BY <1>1, <1>9, <2>1 DEF Reload
<1>10. ASSUME NEW a \in Pem, CopyFails(a) PROVE Typed'
  BY <1>1, <1>10, FaultTyped DEF CopyFails
<1>11. ASSUME Failure PROVE Typed'
  BY <1>1, <1>11, FaultTyped DEF Failure, ObtainFails, SaveFails, ReloadFails, Crash
<1>12. ASSUME BeginDelete \/ EndDelete PROVE Typed'
  BY <1>12, FaultTyped DEF BeginDelete, EndDelete
<1>13. ASSUME NEW a \in Artifact, Unlink(a) PROVE Typed'
  BY <1>13 DEF Unlink
<1>14. ASSUME Day PROVE Typed'
  <2>1. left' = [g \in Gen |-> IF g \in Held /\ left[g] >= 0 THEN left[g] - 1 ELSE -1]
    BY <1>14 DEF Day
  <2>2. \A g \in Gen : left'[g] \in -1..Life
    BY <2>1
  <2>3. left' \in [Gen -> -1..Life]
    BY <2>1, <2>2
  <2>. QED  BY <1>14, <2>3 DEF Day
<1>15. CASE UNCHANGED vars
  BY <1>15 DEF vars
<1>. QED
  BY <1>3, <1>4, <1>6, <1>7, <1>8, <1>9, <1>10, <1>11, <1>12, <1>13, <1>14, <1>15
     DEF Next, Begin, Progress, Delete

(***************************************************************************)
(* The types, and that no behaviour ends for want of a generation: with    *)
(* fourteen of them, recycling leaves nothing out.                         *)
(***************************************************************************)
THEOREM TypeCorrect ==
    ASSUME ManyGenerations
    PROVE  Spec => []TypeOK
<1>1. ASSUME Init PROVE Typed
  <2>1. run.gen = None /\ run.url \in Url
    BY <1>1 DEF Init, Idle, Run, Url
  <2>2. left \in [Gen -> -1..Life] /\ faults \in [order : 0..MaxFaults, other : 0..MaxFaults]
    BY <1>1, LifeAssumption, FaultsAssumption DEF Init
  <2>3. /\ store \in [Artifact -> Gen \union {None}]
        /\ installed \in [Paths -> Gen \union {None}]
        /\ loaded \in [cert : Gen \union {None}, key : Gen \union {None}]
        /\ deleting \subseteq Artifact /\ ran \in BOOLEAN
        /\ server \in [Gen -> Url]
    BY <1>1 DEF Init, Url
  <2>. QED  BY <2>1, <2>2, <2>3 DEF Typed
<1>2. SInv /\ Typed => TypeOK
  BY SomeUnused DEF SInv, IInv, Shape, RunShape, OnlyDeployable, Typed, TypeOK
<1>. QED  BY <1>1, <1>2, InitSInv, StepSInv, StepTyped, PTL DEF Spec

=============================================================================
