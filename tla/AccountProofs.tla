---------------------------- MODULE AccountProofs ----------------------------
(***************************************************************************)
(* Proofs about Account, for any processes, servers, names of files and    *)
(* legacy file, and any number of lost registrations.                      *)
(***************************************************************************)
EXTENDS Account, FiniteSetTheorems, TLAPS

(***************************************************************************)
(* What a process works with: a server from its start on, and an account   *)
(* from the time it has one.                                               *)
(***************************************************************************)
Working ==
    /\ \A p \in Proc : cmd[p].at # "idle" => cmd[p].server \in Server
    /\ \A p \in Proc : cmd[p].at \in {"save", "use"} => cmd[p].acct \in Acct

Types == TypeOK /\ Working

\* Account a is registered at a server whose file is named n, or it is the
\* one of a legacy file without a server.
Under(n, a) == owner[a] \in Server /\ (Unnamed(a) \/ Slug[owner[a]] = n)

(***************************************************************************)
(* A file holds an account of a server it is named for, and so does the    *)
(* hand of a process; the legacy account belongs to the server it names,   *)
(* if it names one.                                                        *)
(***************************************************************************)
Owned ==
    /\ \A n \in Name : file[n] # None => Under(n, file[n])
    /\ \A p \in Proc : cmd[p].at = "save" => owner[cmd[p].acct] = cmd[p].server
    /\ \A p \in Proc : cmd[p].at = "use" => Under(Slug[cmd[p].server], cmd[p].acct)
    /\ legacy # None => /\ owner[legacy.acct] \in Server
                        /\ legacy.server \in {None, owner[legacy.acct]}

(***************************************************************************)
(* While only issue and renew are used, the lock admits one process, which *)
(* registers only where it has found neither file nor legacy account, and  *)
(* still finds none when it saves.                                         *)
(***************************************************************************)
Solitary ==
    alone =>
        /\ \A p \in Proc : cmd[p].at # "idle" => cmd[p].kind \in Locking
        /\ \A p, q \in Proc : cmd[p].at # "idle" /\ cmd[q].at # "idle" => p = q
        /\ \A p \in Proc : cmd[p].at \in {"import", "register", "save"} => Stored(p) = None
        /\ \A p \in Proc : cmd[p].at \in {"register", "save"} => ~Importable(p)

(***************************************************************************)
(* Every account that a server knows is in its file, about to be saved, in *)
(* the legacy file, or lost; a lost one is nowhere else, and one about to  *)
(* be saved is in no file yet.                                             *)
(***************************************************************************)
Saving(a) == \E p \in Proc : cmd[p].at = "save" /\ cmd[p].acct = a

Placed ==
    alone =>
        /\ \A a \in Acct : owner[a] # None /\ a \notin lost =>
               \/ file[Slug[owner[a]]] = a
               \/ Saving(a)
               \/ legacy # None /\ a = legacy.acct
        /\ \A a \in Acct : legacy # None /\ owner[a] = owner[legacy.acct] => a = legacy.acct
        /\ \A a \in lost : owner[a] # None /\ ~Saving(a)
        /\ \A a \in lost, n \in Name : file[n] # a
        /\ \A a \in Acct, n \in Name : Saving(a) => file[n] # a
        /\ legacy # None => legacy.acct \notin lost

IInv == Types /\ Owned /\ Solitary /\ Placed

-----------------------------------------------------------------------------

LEMMA InitIInv == Init => IInv
<1>. SUFFICES ASSUME Init PROVE IInv
  OBVIOUS
<1>1. /\ \A p \in Proc : cmd[p] = Idle
      /\ Idle.at = "idle" /\ Idle.server = None /\ Idle.acct = None
      /\ Idle.kind = "show" /\ Idle.eab = FALSE
  BY DEF Init, Idle, Cmd
<1>2. legacy # None => legacy.acct \in Acct
  BY LegacyAssumption DEF Init
<1>3. PICK home \in Server :
          /\ legacy # None => legacy.server \in {None, home}
          /\ owner = [a \in Acct |-> IF legacy # None /\ a = legacy.acct THEN home ELSE None]
  BY DEF Init
<1>4. Types
  BY <1>1, <1>2, <1>3 DEF Init, Types, TypeOK, Working, Idle, Cmd, Command, Loading
<1>5. Owned
  BY <1>1, <1>2, <1>3 DEF Init, Owned
<1>6. Solitary
  BY <1>1 DEF Solitary
<1>7. Placed
  BY <1>1, <1>2, <1>3, NoneAssumption DEF Init, Placed, Saving
<1>. QED  BY <1>4, <1>5, <1>6, <1>7 DEF IInv

(***************************************************************************)
(* The record of a process after a step.                                   *)
(***************************************************************************)
LEMMA IdleRecord ==
    /\ Idle \in [at : {"idle", "load", "import", "register", "save", "use"},
                 kind : Command, server : Server \union {None},
                 eab : BOOLEAN, acct : Acct \union {None}]
    /\ Idle.at = "idle"
  BY DEF Idle, Cmd, Command, Loading

\* A record of this shape after two of its fields are set.
LEMMA RecordUpdate ==
    ASSUME NEW A, NEW K, NEW S, NEW E, NEW C,
           NEW r \in [at : A, kind : K, server : S, eab : E, acct : C],
           NEW x \in A, NEW a \in C
    PROVE  /\ [r EXCEPT !.at = x, !.acct = a]
                  \in [at : A, kind : K, server : S, eab : E, acct : C]
           /\ [r EXCEPT !.at = x, !.acct = a].at = x
           /\ [r EXCEPT !.at = x, !.acct = a].acct = a
           /\ [r EXCEPT !.at = x, !.acct = a].server = r.server
           /\ [r EXCEPT !.at = x, !.acct = a].kind = r.kind
  OBVIOUS

\* A process that gets account a at step at.
LEMMA GivenRecord ==
    ASSUME Types, NEW p \in Proc, cmd[p].at # "idle", NEW a \in Acct,
           NEW at \in {"save", "use"}, cmd' = [cmd EXCEPT ![p].at = at, ![p].acct = a]
    PROVE  /\ Working'
           /\ cmd' \in [Proc -> [at : {"idle", "load", "import", "register", "save", "use"},
                                 kind : Command, server : Server \union {None},
                                 eab : BOOLEAN, acct : Acct \union {None}]]
           /\ cmd' = [cmd EXCEPT ![p] = cmd'[p]]
           /\ cmd'[p].at = at /\ cmd'[p].acct = a
           /\ cmd'[p].kind = cmd[p].kind /\ cmd'[p].server = cmd[p].server
<1>. DEFINE Recs == [at : {"idle", "load", "import", "register", "save", "use"},
                     kind : Command, server : Server \union {None},
                     eab : BOOLEAN, acct : Acct \union {None}]
<1>1. cmd \in [Proc -> Recs] /\ cmd[p].server \in Server
  BY DEF Types, TypeOK, Working
<1>2. /\ [cmd[p] EXCEPT !.at = at, !.acct = a] \in Recs
      /\ [cmd[p] EXCEPT !.at = at, !.acct = a].at = at
      /\ [cmd[p] EXCEPT !.at = at, !.acct = a].acct = a
      /\ [cmd[p] EXCEPT !.at = at, !.acct = a].server = cmd[p].server
      /\ [cmd[p] EXCEPT !.at = at, !.acct = a].kind = cmd[p].kind
  <2>1. /\ at \in {"idle", "load", "import", "register", "save", "use"}
        /\ a \in Acct \union {None}
        /\ cmd[p] \in Recs
    BY <1>1
  <2>. QED  BY <2>1, RecordUpdate
<1>. HIDE DEF Recs
<1>3. /\ cmd'[p] = [cmd[p] EXCEPT !.at = at, !.acct = a]
      /\ cmd' = [cmd EXCEPT ![p] = cmd'[p]]
  BY <1>1
<1>4. cmd' \in [Proc -> Recs]
  BY <1>1, <1>2, <1>3
<1>5. /\ cmd'[p].at = at /\ cmd'[p].acct = a
      /\ cmd'[p].kind = cmd[p].kind /\ cmd'[p].server = cmd[p].server
  BY <1>2, <1>3
<1>6. \A q \in Proc \ {p} : cmd'[q] = cmd[q]
  BY <1>1
<1>7. Working'
  BY <1>1, <1>5, <1>6 DEF Types, Working
<1>. QED
  BY <1>3, <1>4, <1>5, <1>7 DEF Recs

LEMMA TypesKept == ASSUME Types, [Next]_vars PROVE Types'
<1>. USE DEF Types, TypeOK, Working
<1>1. ASSUME NEW p \in Proc, NEW kind \in Command, NEW s \in Server, NEW eab \in BOOLEAN,
             Start(p, kind, s, eab)
      PROVE  Types'
  BY <1>1 DEF Start, Cmd
<1>2. ASSUME NEW p \in Proc, LoadFile(p) PROVE Types'
  <2>1. Stored(p) \in Acct
    BY <1>2, SlugAssumption DEF LoadFile, Stored
  <2>2. cmd[p].at # "idle" /\ cmd' = [cmd EXCEPT ![p].at = "use", ![p].acct = Stored(p)]
    BY <1>2 DEF LoadFile
  <2>. QED  BY <1>2, <2>1, <2>2, GivenRecord DEF LoadFile
<1>3. ASSUME NEW p \in Proc, NoFile(p) \/ Ask(p) PROVE Types'
  BY <1>3 DEF NoFile, Ask, Goto
<1>4. ASSUME NEW p \in Proc, Import(p) PROVE Types'
  <2>1. legacy.acct \in Acct
    BY <1>4, LegacyAssumption DEF Import, Importable
  <2>2. file' \in [Name -> Acct \union {None}]
    BY <1>4, <2>1 DEF Import, Saved
  <2>3. cmd[p].at # "idle" /\ cmd' = [cmd EXCEPT ![p].at = "use", ![p].acct = legacy.acct]
    BY <1>4 DEF Import
  <2>. QED  BY <1>4, <2>1, <2>2, <2>3, GivenRecord DEF Import
<1>5. ASSUME NEW p \in Proc, ImportFails(p) \/ NoAccount(p) \/ Refused(p) \/ Use(p)
      PROVE  Types'
  BY <1>5, IdleRecord DEF ImportFails, NoAccount, Refused, Use, Return
<1>6. ASSUME NEW p \in Proc, NEW a \in Acct, Register(p, a) PROVE Types'
  <2>1. owner' \in [Acct -> Server \union {None}]
    BY <1>6 DEF Register, Registered
  <2>2. cmd[p].at # "idle" /\ cmd' = [cmd EXCEPT ![p].at = "save", ![p].acct = a]
    BY <1>6 DEF Register, Registered
  <2>. QED  BY <1>6, <2>1, <2>2, GivenRecord DEF Register
<1>7. ASSUME NEW p \in Proc, NEW a \in Acct, ReplyLost(p, a) PROVE Types'
  BY <1>7, IdleRecord DEF ReplyLost, Registered, Return, Lose
<1>8. ASSUME NEW p \in Proc, Save(p) PROVE Types'
  BY <1>8 DEF Save, Saved, Goto
<1>9. ASSUME NEW p \in Proc, SaveFails(p) PROVE Types'
  BY <1>9, IdleRecord DEF SaveFails, Return, Lose
<1>10. ASSUME NEW p \in Proc, Crash(p) PROVE Types'
  BY <1>10, IdleRecord DEF Crash, Lose
<1>11. CASE UNCHANGED vars
  BY <1>11 DEF vars
<1>. QED
  BY <1>1, <1>2, <1>3, <1>4, <1>5, <1>6, <1>7, <1>8, <1>9, <1>10, <1>11 DEF Next

(***************************************************************************)
(* Every reachable state is well-typed, and a process at work has a server *)
(* and, where it needs one, an account.                                    *)
(***************************************************************************)
THEOREM TypeCorrect == Spec => []TypeOK
<1>1. Init => Types
  BY InitIInv DEF IInv
<1>2. Types /\ [Next]_vars => Types'
  BY TypesKept
<1>3. Types => TypeOK
  BY DEF Types
<1>. QED  BY <1>1, <1>2, <1>3, PTL DEF Spec

-----------------------------------------------------------------------------

(***************************************************************************)
(* A server forgets no account.                                            *)
(***************************************************************************)
LEMMA OwnerStays ==
    ASSUME Types, [Next]_vars, NEW a \in Acct, owner[a] # None
    PROVE  owner'[a] = owner[a]
<1>. USE DEF Types, TypeOK
<1>1. ASSUME NEW p \in Proc, NEW b \in Acct, Registered(p, b) PROVE owner'[a] = owner[a]
  BY <1>1 DEF Registered, Fresh
<1>2. owner' = owner \/ \E p \in Proc, b \in Acct : Registered(p, b)
  BY DEF Next, vars, Start, LoadFile, NoFile, Import, ImportFails, NoAccount, Ask, Refused,
         Register, ReplyLost, Save, SaveFails, Use, Crash
<1>. QED  BY <1>1, <1>2

LEMMA UnderStays ==
    ASSUME Types, [Next]_vars, NEW n, NEW a \in Acct, Under(n, a)
    PROVE  Under(n, a)'
<1>1. legacy' = legacy
  BY DEF Next, vars, Start, LoadFile, NoFile, Import, ImportFails, NoAccount, Ask, Refused,
         Register, ReplyLost, Save, SaveFails, Use, Crash
<1>. QED  BY <1>1, OwnerStays, NoneAssumption DEF Under, Unnamed

LEMMA OwnedKept == ASSUME Types, Owned, [Next]_vars PROVE Owned'
<1>. USE SlugAssumption, NoneAssumption DEF Types, TypeOK, Working
<1>1. legacy' = legacy
  BY DEF Next, vars, Start, LoadFile, NoFile, Import, ImportFails, NoAccount, Ask, Refused,
         Register, ReplyLost, Save, SaveFails, Use, Crash
<1>2. legacy # None => legacy.acct \in Acct
  BY LegacyAssumption
<1>3. legacy' # None => /\ owner'[legacy'.acct] \in Server
                        /\ legacy'.server \in {None, owner'[legacy'.acct]}
  BY <1>1, <1>2, OwnerStays DEF Owned
<1>4. ASSUME file' = file PROVE \A n \in Name : file'[n] # None => Under(n, file[n])'
  BY <1>4, UnderStays DEF Owned
\* Of the processes that go on as they were, nothing changes.
<1>5. ASSUME NEW q \in Proc, cmd'[q] = cmd[q]
      PROVE  /\ cmd'[q].at = "save" => owner'[cmd'[q].acct] = cmd'[q].server
             /\ cmd'[q].at = "use" => Under(Slug[cmd[q].server], cmd[q].acct)'
  BY <1>5, OwnerStays, UnderStays DEF Owned
<1>6. ASSUME NEW p \in Proc, cmd' = [cmd EXCEPT ![p] = cmd'[p]], file' = file,
             cmd'[p].at \notin {"save", "use"}
      PROVE  Owned'
  <2>1. \A q \in Proc : q # p => cmd'[q] = cmd[q]
    BY <1>6
  <2>. QED  BY <1>3, <1>4, <1>5, <1>6, <2>1 DEF Owned, Under
<1>7. ASSUME NEW p \in Proc, NEW kind \in Command, NEW s \in Server, NEW eab \in BOOLEAN,
             Start(p, kind, s, eab)
      PROVE  Owned'
  BY <1>6, <1>7 DEF Start, Cmd
<1>8. ASSUME NEW p \in Proc, LoadFile(p) PROVE Owned'
  <2>1. Stored(p) # None /\ cmd[p].server \in Server /\ Slug[cmd[p].server] \in Name
    BY <1>8 DEF LoadFile
  <2>2. PICK a \in Acct : a = Stored(p) /\ Under(Slug[cmd[p].server], a)
    BY <2>1 DEF Stored, Owned
  <2>3. /\ cmd'[p].at = "use" /\ cmd'[p].acct = a
        /\ cmd'[p].server = cmd[p].server /\ file' = file /\ owner' = owner
        /\ \A q \in Proc : q # p => cmd'[q] = cmd[q]
    BY <1>8, <2>2 DEF LoadFile
  <2>. QED  BY <1>1, <1>3, <1>4, <1>5, <2>2, <2>3 DEF Owned, Under, Unnamed
<1>9. ASSUME NEW p \in Proc, NoFile(p) \/ Ask(p) PROVE Owned'
  BY <1>6, <1>9 DEF NoFile, Ask, Goto
<1>10. ASSUME NEW p \in Proc, Import(p) PROVE Owned'
  <2>1. /\ cmd[p].server \in Server /\ legacy # None /\ legacy.acct \in Acct
        /\ Under(Slug[cmd[p].server], legacy.acct)
    BY <1>2, <1>10 DEF Import, Importable, Owned, Under, Unnamed
  <2>2. /\ cmd'[p].at = "use" /\ cmd'[p].acct = legacy.acct
        /\ cmd'[p].server = cmd[p].server /\ owner' = owner
        /\ \A q \in Proc : q # p => cmd'[q] = cmd[q]
        /\ file' = [file EXCEPT ![Slug[cmd[p].server]] = legacy.acct]
    BY <1>10 DEF Import, Saved
  <2>3. \A n \in Name : file'[n] # None => Under(n, file[n])'
    BY <1>1, <2>1, <2>2 DEF Owned, Under, Unnamed
  <2>. QED  BY <1>1, <1>3, <1>5, <2>1, <2>2, <2>3 DEF Owned, Under, Unnamed
<1>11. ASSUME NEW p \in Proc, ImportFails(p) \/ NoAccount(p) \/ Refused(p) \/ Use(p)
       PROVE  Owned'
  BY <1>6, <1>11, IdleRecord DEF ImportFails, NoAccount, Refused, Use, Return
<1>12. ASSUME NEW p \in Proc, NEW a \in Acct, Register(p, a) PROVE Owned'
  <2>1. /\ cmd'[p].at = "save" /\ cmd'[p].acct = a /\ cmd'[p].server = cmd[p].server
        /\ owner'[a] = cmd[p].server /\ file' = file
        /\ \A q \in Proc : q # p => cmd'[q] = cmd[q]
    BY <1>12 DEF Register, Registered
  <2>. QED  BY <1>3, <1>4, <1>5, <2>1 DEF Owned, Under
<1>13. ASSUME NEW p \in Proc, NEW a \in Acct, ReplyLost(p, a) PROVE Owned'
  BY <1>6, <1>13, IdleRecord DEF ReplyLost, Return
<1>14. ASSUME NEW p \in Proc, Save(p) PROVE Owned'
  <2>1. /\ cmd[p].server \in Server /\ cmd[p].acct \in Acct
        /\ owner[cmd[p].acct] = cmd[p].server
        /\ Under(Slug[cmd[p].server], cmd[p].acct)
    BY <1>14 DEF Save, Goto, Owned, Under
  <2>2. /\ cmd'[p].at = "use" /\ cmd'[p].acct = cmd[p].acct
        /\ cmd'[p].server = cmd[p].server /\ owner' = owner
        /\ \A q \in Proc : q # p => cmd'[q] = cmd[q]
        /\ file' = [file EXCEPT ![Slug[cmd[p].server]] = cmd[p].acct]
    BY <1>14 DEF Save, Goto, Saved
  <2>3. \A n \in Name : file'[n] # None => Under(n, file[n])'
    BY <1>1, <2>1, <2>2 DEF Owned, Under, Unnamed
  <2>. QED  BY <1>1, <1>3, <1>5, <2>1, <2>2, <2>3 DEF Owned, Under, Unnamed
<1>15. ASSUME NEW p \in Proc, SaveFails(p) \/ Crash(p) PROVE Owned'
  BY <1>6, <1>15, IdleRecord DEF SaveFails, Crash, Return
<1>16. CASE UNCHANGED vars
  BY <1>16 DEF vars, Owned, Under, Unnamed
<1>. QED
  BY <1>7, <1>8, <1>9, <1>10, <1>11, <1>12, <1>13, <1>14, <1>15, <1>16 DEF Next

(***************************************************************************)
(* Whatever servers share a file name and whatever the legacy file names,  *)
(* an account crosses to a server of another file name only if it is the   *)
(* one of a legacy file without a server: by any mix of commands, with and *)
(* without the lock, crashes, lost replies and failed writes.              *)
(***************************************************************************)
THEOREM Apart == Spec => []AccountsStayApart
<1>1. Init => Types /\ Owned
  BY InitIInv DEF IInv
<1>2. Types /\ Owned /\ [Next]_vars => (Types /\ Owned)'
  BY TypesKept, OwnedKept
<1>3. Owned => AccountsStayApart
  BY DEF Owned, Under, AccountsStayApart
<1>. QED  BY <1>1, <1>2, <1>3, PTL DEF Spec

-----------------------------------------------------------------------------

LEMMA SolitaryKept == ASSUME Types, Solitary, [Next]_vars PROVE Solitary'
<1>. USE SlugAssumption, NoneAssumption DEF Types, TypeOK, Working
<1>1. alone' = alone /\ legacy' = legacy
  BY DEF Next, vars, Start, LoadFile, NoFile, Import, ImportFails, NoAccount, Ask, Refused,
         Register, ReplyLost, Save, SaveFails, Use, Crash
<1>. SUFFICES ASSUME alone PROVE Solitary'
  BY <1>1 DEF Solitary
\* The one process that is at work moves on, and writes a file last.
<1>2. ASSUME NEW p \in Proc, cmd[p].at # "idle", file' = file,
             cmd' = [cmd EXCEPT ![p] = cmd'[p]],
             cmd'[p].kind = cmd[p].kind, cmd'[p].server = cmd[p].server,
             cmd'[p].at \in {"import", "register", "save"} => Stored(p) = None,
             cmd'[p].at \in {"register", "save"} => ~Importable(p)
      PROVE  Solitary'
  <2>1. \A q \in Proc : q # p => cmd'[q] = cmd[q] /\ cmd[q].at = "idle"
    BY <1>2 DEF Solitary
  <2>. QED  BY <1>1, <1>2, <2>1 DEF Solitary, Stored, Importable
<1>3. ASSUME NEW p \in Proc, cmd[p].at # "idle", cmd' = [cmd EXCEPT ![p] = cmd'[p]],
             cmd'[p].at = "idle" \/ (cmd'[p].at = "use" /\ cmd'[p].kind = cmd[p].kind)
      PROVE  Solitary'
  <2>1. \A q \in Proc : q # p => cmd'[q] = cmd[q] /\ cmd[q].at = "idle"
    BY <1>3 DEF Solitary
  <2>. QED  BY <1>1, <1>3, <2>1 DEF Solitary
<1>4. ASSUME NEW p \in Proc, NEW kind \in Command, NEW s \in Server, NEW eab \in BOOLEAN,
             Start(p, kind, s, eab)
      PROVE  Solitary'
  <2>1. \A q \in Proc : cmd[q].at = "idle"
    BY <1>4 DEF Start, Solitary
  <2>2. /\ \A q \in Proc : q # p => cmd'[q] = cmd[q]
        /\ cmd'[p].at = "load" /\ cmd'[p].kind = kind /\ kind \in Locking
    BY <1>4 DEF Start, Cmd
  <2>. QED  BY <1>1, <2>1, <2>2 DEF Solitary
<1>5. ASSUME NEW p \in Proc, LoadFile(p) PROVE Solitary'
  BY <1>3, <1>5 DEF LoadFile
<1>6. ASSUME NEW p \in Proc, NoFile(p) PROVE Solitary'
  BY <1>2, <1>6 DEF NoFile, Goto
<1>7. ASSUME NEW p \in Proc, Ask(p) PROVE Solitary'
  BY <1>2, <1>7 DEF Ask, Goto, Solitary
<1>8. ASSUME NEW p \in Proc, Import(p) PROVE Solitary'
  BY <1>3, <1>8 DEF Import
<1>9. ASSUME NEW p \in Proc, NEW a \in Acct, Register(p, a) PROVE Solitary'
  <2>1. /\ cmd[p].at = "register" /\ file' = file
        /\ cmd' = [cmd EXCEPT ![p].at = "save", ![p].acct = a]
    BY <1>9 DEF Register, Registered
  <2>2. /\ cmd' = [cmd EXCEPT ![p] = cmd'[p]]
        /\ cmd'[p].kind = cmd[p].kind /\ cmd'[p].server = cmd[p].server
    BY <2>1, GivenRecord
  <2>3. Stored(p) = None /\ ~Importable(p)
    BY <2>1 DEF Solitary
  <2>. QED  BY <1>2, <2>1, <2>2, <2>3
<1>10. ASSUME NEW p \in Proc, Save(p) PROVE Solitary'
  BY <1>3, <1>10 DEF Save, Goto
<1>11. ASSUME NEW p \in Proc, cmd[p].at # "idle", cmd' = [cmd EXCEPT ![p] = Idle]
       PROVE  Solitary'
  <2>1. /\ cmd[p].at # "idle" /\ cmd'[p] = Idle
        /\ cmd' = [cmd EXCEPT ![p] = cmd'[p]]
    BY <1>11
  <2>2. cmd'[p].at = "idle"
    BY <2>1, IdleRecord
  <2>3. \A q \in Proc : q # p => cmd'[q] = cmd[q] /\ cmd[q].at = "idle"
    BY <2>1 DEF Solitary
  <2>. QED  BY <1>1, <2>2, <2>3 DEF Solitary
<1>12. ASSUME NEW p \in Proc,
              \/ ImportFails(p) \/ NoAccount(p) \/ Refused(p) \/ Use(p) \/ Crash(p)
              \/ SaveFails(p) \/ \E a \in Acct : ReplyLost(p, a)
       PROVE  Solitary'
  BY <1>11, <1>12 DEF ImportFails, NoAccount, Refused, Use, Crash, SaveFails, ReplyLost, Return
<1>13. CASE UNCHANGED vars
  BY <1>13 DEF vars, Solitary, Stored, Importable
<1>. QED
  BY <1>4, <1>5, <1>6, <1>7, <1>8, <1>9, <1>10, <1>12, <1>13 DEF Next

(***************************************************************************)
(* issue and renew alone never replace a stored account: a file is written *)
(* only by a run that has found none, and nobody has written it since.     *)
(***************************************************************************)
THEOREM AccountsStay == Spec => StoredStays
<1>1. Init => Types /\ Solitary
  BY InitIInv DEF IInv
<1>2. Types /\ Solitary /\ [Next]_vars => (Types /\ Solitary)'
  BY TypesKept, SolitaryKept
<1>3. Types /\ Solitary /\ [Next]_vars =>
         [alone => \A n \in Name : file[n] # None => file'[n] = file[n]]_vars
  <2>. SUFFICES ASSUME Types, Solitary, [Next]_vars, alone, NEW n \in Name, file[n] # None
                PROVE  file'[n] = file[n]
    OBVIOUS
  <2>1. ASSUME NEW p \in Proc, NEW a, cmd[p].at \in {"import", "save"}, Saved(p, a)
        PROVE  file'[n] = file[n]
    BY <2>1 DEF Saved, Solitary, Stored, Types, TypeOK
  <2>2. \/ file' = file
        \/ \E p \in Proc : cmd[p].at \in {"import", "save"} /\ \E a : Saved(p, a)
    BY DEF Next, vars, Start, LoadFile, NoFile, Import, ImportFails, NoAccount, Ask, Refused,
           Register, ReplyLost, Save, SaveFails, Use, Crash, Goto
  <2>. QED  BY <2>1, <2>2
<1>. QED  BY <1>1, <1>2, <1>3, PTL DEF Spec, StoredStays

-----------------------------------------------------------------------------

LEMMA PlacedKept == ASSUME IInv, [Next]_vars PROVE Placed'
<1>. USE SlugAssumption, NoneAssumption DEF Types, TypeOK, Working
<1>. USE DEF IInv
<1>1. alone' = alone /\ legacy' = legacy
  BY DEF Next, vars, Start, LoadFile, NoFile, Import, ImportFails, NoAccount, Ask, Refused,
         Register, ReplyLost, Save, SaveFails, Use, Crash
<1>2. legacy # None => /\ legacy.acct \in Acct /\ owner[legacy.acct] \in Server
                       /\ legacy.server \in {None, owner[legacy.acct]}
  BY LegacyAssumption DEF Owned
<1>. SUFFICES ASSUME alone PROVE Placed'
  BY <1>1 DEF Placed
<1>3. ASSUME NEW p \in Proc, cmd[p].at # "idle", NEW q \in Proc, cmd[q].at # "idle"
      PROVE  p = q
  BY <1>3 DEF Solitary
\* Steps that neither begin nor end a save change nothing of this.
<1>4. ASSUME UNCHANGED <<file, owner, lost>>, NEW p \in Proc,
             cmd' = [cmd EXCEPT ![p] = cmd'[p]],
             cmd[p].at # "save", cmd'[p].at # "save"
      PROVE  Placed'
  <2>1. \A q \in Proc : q # p => cmd'[q] = cmd[q]
    BY <1>4
  <2>2. \A a \in Acct : Saving(a)' <=> Saving(a)
    BY <1>4, <2>1 DEF Saving
  <2>. QED  BY <1>1, <1>4, <2>2 DEF Placed
<1>5. ASSUME NEW p \in Proc, cmd[p].at # "idle", cmd' = [cmd EXCEPT ![p] = cmd'[p]],
             NEW a \in Acct
      PROVE  Saving(a)' <=> cmd'[p].at = "save" /\ cmd'[p].acct = a
  <2>1. \A q \in Proc : q # p => cmd'[q] = cmd[q] /\ cmd[q].at = "idle"
    BY <1>3, <1>5
  <2>. QED  BY <1>5, <2>1 DEF Saving
<1>6. ASSUME NEW p \in Proc, cmd[p].at # "idle", NEW a \in Acct
      PROVE  Saving(a) <=> cmd[p].at = "save" /\ cmd[p].acct = a
  BY <1>3, <1>6 DEF Saving
<1>7. ASSUME NEW p \in Proc, NEW kind \in Command, NEW s \in Server, NEW eab \in BOOLEAN,
             Start(p, kind, s, eab)
      PROVE  Placed'
  BY <1>4, <1>7 DEF Start, Cmd
<1>8. ASSUME NEW p \in Proc, LoadFile(p) \/ NoFile(p) \/ Ask(p) PROVE Placed'
  <2>1. CASE LoadFile(p)
    BY <1>4, <2>1 DEF LoadFile
  <2>2. CASE NoFile(p)
    BY <1>4, <2>2 DEF NoFile, Goto
  <2>3. CASE Ask(p)
    BY <1>4, <2>3 DEF Ask, Goto
  <2>. QED  BY <1>8, <2>1, <2>2, <2>3
<1>9. ASSUME NEW p \in Proc, ImportFails(p) \/ NoAccount(p) \/ Refused(p) \/ Use(p)
      PROVE  Placed'
  <2>1. cmd' = [cmd EXCEPT ![p] = Idle] /\ cmd[p].at \in {"import", "register", "use"}
    BY <1>9 DEF ImportFails, NoAccount, Refused, Use, Return
  <2>2. cmd'[p] = Idle /\ cmd' = [cmd EXCEPT ![p] = cmd'[p]]
    BY <2>1
  <2>3. UNCHANGED <<file, owner, lost>>
    BY <1>9 DEF ImportFails, NoAccount, Refused, Use
  <2>. QED  BY <1>4, <2>1, <2>2, <2>3, IdleRecord
<1>10. ASSUME NEW p \in Proc, Import(p) PROVE Placed'
  <2>1. /\ cmd[p].at = "import" /\ Stored(p) = None /\ Slug[cmd[p].server] \in Name
        /\ legacy # None
    BY <1>10 DEF Import, Importable, Solitary
  <2>2. /\ cmd' = [cmd EXCEPT ![p] = cmd'[p]] /\ cmd'[p].at = "use"
        /\ file' = [file EXCEPT ![Slug[cmd[p].server]] = legacy.acct]
        /\ UNCHANGED <<owner, lost>>
    BY <1>10 DEF Import, Saved
  <2>3. \A a \in Acct : ~Saving(a) /\ ~Saving(a)'
    BY <1>5, <1>6, <2>1, <2>2
  <2>. QED  BY <1>1, <1>2, <2>1, <2>2, <2>3 DEF Placed, Stored
<1>11. ASSUME NEW p \in Proc, NEW a \in Acct, Register(p, a) PROVE Placed'
  <2>1. /\ cmd[p].at = "register" /\ ~Importable(p) /\ cmd[p].server \in Server
        /\ owner[a] = None
    BY <1>11 DEF Register, Registered, Fresh, Solitary
  <2>2. /\ cmd' = [cmd EXCEPT ![p] = cmd'[p]] /\ cmd'[p].at = "save" /\ cmd'[p].acct = a
        /\ owner' = [owner EXCEPT ![a] = cmd[p].server]
        /\ UNCHANGED <<file, lost>>
    BY <1>11 DEF Register, Registered
  <2>3. \A b \in Acct : ~Saving(b) /\ (Saving(b)' <=> b = a)
    BY <1>5, <1>6, <2>1, <2>2
  <2>4. a \notin lost /\ \A n \in Name : file[n] # a
    BY <2>1 DEF Placed, Owned, Under
  <2>. QED  BY <1>1, <1>2, <2>1, <2>2, <2>3, <2>4 DEF Placed, Importable
<1>12. ASSUME NEW p \in Proc, NEW a \in Acct, ReplyLost(p, a) PROVE Placed'
  <2>1. /\ cmd[p].at = "register" /\ ~Importable(p) /\ cmd[p].server \in Server
        /\ owner[a] = None
    BY <1>12 DEF ReplyLost, Registered, Fresh, Solitary
  <2>2. /\ cmd' = [cmd EXCEPT ![p] = Idle] /\ UNCHANGED file
        /\ owner' = [owner EXCEPT ![a] = cmd[p].server] /\ lost' = lost \union {a}
    BY <1>12 DEF ReplyLost, Registered, Return, Lose
  <2>3. cmd'[p] = Idle /\ cmd' = [cmd EXCEPT ![p] = cmd'[p]]
    BY <2>2
  <2>4. \A b \in Acct : ~Saving(b) /\ ~Saving(b)'
    BY <1>5, <1>6, <2>1, <2>3, IdleRecord
  <2>5. \A n \in Name : file[n] # a
    BY <2>1 DEF Owned, Under
  <2>. QED  BY <1>1, <1>2, <2>1, <2>2, <2>4, <2>5 DEF Placed, Importable
<1>13. ASSUME NEW p \in Proc, Save(p) PROVE Placed'
  <2>1. /\ cmd[p].at = "save" /\ Stored(p) = None /\ cmd[p].acct \in Acct
        /\ cmd[p].server \in Server /\ owner[cmd[p].acct] = cmd[p].server
    BY <1>13 DEF Save, Goto, Solitary, Owned
  <2>2. /\ cmd' = [cmd EXCEPT ![p] = cmd'[p]] /\ cmd'[p].at = "use"
        /\ file' = [file EXCEPT ![Slug[cmd[p].server]] = cmd[p].acct]
        /\ UNCHANGED <<owner, lost>>
    BY <1>13 DEF Save, Goto, Saved
  <2>3. \A a \in Acct : (Saving(a) <=> a = cmd[p].acct) /\ ~Saving(a)'
    BY <1>5, <1>6, <2>1, <2>2
  <2>. QED  BY <1>1, <1>2, <2>1, <2>2, <2>3 DEF Placed, Stored
\* A save that fails, or is cut off, loses the account.
<1>14. ASSUME NEW p \in Proc, cmd[p].at = "save", cmd' = [cmd EXCEPT ![p] = Idle],
              lost' = lost \union {cmd[p].acct}, UNCHANGED <<file, owner>>
       PROVE  Placed'
  <2>1. /\ cmd[p].acct \in Acct /\ owner[cmd[p].acct] = cmd[p].server
        /\ cmd[p].server \in Server /\ ~Importable(p)
    BY <1>14 DEF Owned, Solitary
  <2>2. cmd'[p] = Idle /\ cmd' = [cmd EXCEPT ![p] = cmd'[p]]
    BY <1>14
  <2>3. \A a \in Acct : (Saving(a) <=> a = cmd[p].acct) /\ ~Saving(a)'
    BY <1>5, <1>6, <1>14, <2>2, IdleRecord
  <2>. QED  BY <1>1, <1>2, <1>14, <2>1, <2>3 DEF Placed, Importable
<1>15. ASSUME NEW p \in Proc, SaveFails(p) PROVE Placed'
  BY <1>14, <1>15 DEF SaveFails, Return, Lose
<1>16. ASSUME NEW p \in Proc, Crash(p) PROVE Placed'
  <2>1. CASE cmd[p].at = "save"
    BY <1>14, <1>16, <2>1 DEF Crash, Lose
  <2>2. CASE cmd[p].at # "save"
    <3>1. cmd'[p] = Idle /\ cmd' = [cmd EXCEPT ![p] = cmd'[p]]
      BY <1>16 DEF Crash
    <3>. QED  BY <1>4, <1>16, <2>2, <3>1, IdleRecord DEF Crash
  <2>. QED  BY <2>1, <2>2
<1>17. CASE UNCHANGED vars
  BY <1>17 DEF vars, Placed, Saving
<1>. QED
  BY <1>7, <1>8, <1>9, <1>10, <1>11, <1>12, <1>13, <1>15, <1>16, <1>17 DEF Next

LEMMA StepIInv == IInv /\ [Next]_vars => IInv'
  BY TypesKept, OwnedKept, SolitaryKept, PlacedKept DEF IInv

(***************************************************************************)
(* What a server knows beside the lost registrations: a legacy account, or *)
(* else one account in its file or about to be saved there.                *)
(***************************************************************************)
Known(s) == {a \in Acct : owner[a] = s} \ lost

LEMMA AtMostOne ==
    ASSUME NEW S, \A a, b \in S : a = b
    PROVE  Cardinality(S) <= 1
<1>1. CASE S = {}
  BY <1>1, FS_EmptySet
<1>2. CASE S # {}
  <2>1. PICK a : S = {a}
    BY <1>2
  <2>. QED  BY <2>1, FS_Singleton
<1>. QED  BY <1>1, <1>2

LEMMA NoLegacyKept ==
    ASSUME IInv, alone, NEW s \in Server, legacy = None \/ owner[legacy.acct] # s,
           NEW a \in Known(s)
    PROVE  Kept(s) = {a}
<1>. USE SlugAssumption, NoneAssumption DEF IInv, Types, TypeOK, Working
<1>1. a \in Acct /\ owner[a] = s /\ a \notin lost /\ a # None
  BY DEF Known
<1>2. legacy # None => a # legacy.acct
  BY <1>1
<1>3. file[Slug[s]] = a \/ Saving(a)
  BY <1>1, <1>2 DEF Placed
<1>. DEFINE Savers == {q \in Proc : cmd[q].at = "save" /\ cmd[q].server = s}
<1>4. CASE file[Slug[s]] = a
  <2>1. Savers = {}
    BY <1>1, <1>4 DEF Solitary, Stored
  <2>. QED  BY <1>1, <1>4, <2>1 DEF Kept
<1>5. CASE Saving(a)
  <2>1. PICK p \in Proc : cmd[p].at = "save" /\ cmd[p].acct = a
    BY <1>5 DEF Saving
  <2>2. cmd[p].server = s /\ file[Slug[s]] = None
    BY <1>1, <2>1 DEF Owned, Solitary, Stored
  <2>3. Savers = {p}
    BY <2>1, <2>2 DEF Solitary
  <2>. QED  BY <2>1, <2>2, <2>3 DEF Kept
<1>. QED  BY <1>3, <1>4, <1>5

(***************************************************************************)
(* As long as only issue and renew are used, a server registers one        *)
(* account for this home, however often replies are lost, saves fail and   *)
(* processes die: every further one replaces one that was lost.            *)
(***************************************************************************)
THEOREM OneEach == Spec => []OneAccountPerServer
<1>1. IInv => OneAccountPerServer
  <2>. SUFFICES ASSUME IInv, alone, NEW s \in Server
                PROVE  /\ Cardinality(Known(s)) <= 1
                       /\ Known(s) # {} /\ (legacy = None \/ owner[legacy.acct] # s)
                              => Known(s) = Kept(s)
    BY DEF OneAccountPerServer, Known
  <2>1. CASE legacy = None \/ owner[legacy.acct] # s
    <3>1. \A a \in Known(s) : Kept(s) = {a}
      BY <2>1, NoLegacyKept
    <3>2. Cardinality(Known(s)) <= 1
      BY <3>1, AtMostOne
    <3>. QED  BY <3>1, <3>2
  <2>2. CASE legacy # None /\ owner[legacy.acct] = s
    <3>1. \A a \in Known(s) : a = legacy.acct
      BY <2>2 DEF Known, IInv, Placed
    <3>2. Cardinality(Known(s)) <= 1
      BY <3>1, AtMostOne
    <3>. QED  BY <2>2, <3>2
  <2>. QED  BY <2>1, <2>2
<1>. QED  BY <1>1, InitIInv, StepIInv, PTL DEF Spec

=============================================================================
