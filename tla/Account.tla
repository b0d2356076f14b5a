------------------------------ MODULE Account ------------------------------
(***************************************************************************)
(* The ACME accounts of one home directory: one file per server, the file  *)
(* of older versions, and the accounts the servers have registered.  issue *)
(* and renew hold the renewal lock; register, revoke and show-account take *)
(* no lock and may run beside them and beside each other.                  *)
(*                                                                         *)
(* An account is its key: it comes into being with the process that        *)
(* generates the key, whose server then registers it or does not.          *)
(***************************************************************************)
EXTENDS Integers, FiniteSets

CONSTANTS
    Proc,       \* processes, each runs one command after the other
    Server,     \* directory URLs
    Name,       \* names of account files
    Slug,       \* server_slug: the name of a server's file
    Acct,       \* accounts, each generated once
    None,       \* no file, no account, no server
    EabNeeded,  \* the servers that ask for External Account Binding
    Legacy,     \* the legacy files there may be: an account and the server
                \* the file names, None if it names none
    MaxLost     \* bound on the registrations whose account is lost

ASSUME NoneAssumption == None \notin Server \union Acct
ASSUME SlugAssumption == Slug \in [Server -> Name]
ASSUME EabAssumption == EabNeeded \subseteq Server
ASSUME LegacyAssumption ==
    Legacy \subseteq [acct : Acct, server : Server \union {None}] \union {None}

Locking == {"issue", "renew"}
Loading == {"revoke", "show"}
Command == Locking \union Loading \union {"register"}

VARIABLES
    file,       \* the account in each account file
    legacy,     \* account.json
    owner,      \* the server at which each account is registered
    cmd,        \* what each process is at
    alone,      \* only commands that take the lock are used
    lost        \* history: the accounts of registrations that failed late

vars == <<file, legacy, owner, cmd, alone, lost>>

\* A command: where it is, for which server, with EAB credentials or not.
Cmd(at, kind, server, eab, acct) ==
    [at |-> at, kind |-> kind, server |-> server, eab |-> eab, acct |-> acct]

Idle == Cmd("idle", "show", None, FALSE, None)

TypeOK ==
    /\ file \in [Name -> Acct \union {None}]
    /\ legacy \in Legacy
    /\ owner \in [Acct -> Server \union {None}]
    /\ cmd \in [Proc -> [at : {"idle", "load", "import", "register", "save", "use"},
                         kind : Command, server : Server \union {None},
                         eab : BOOLEAN, acct : Acct \union {None}]]
    /\ alone \in BOOLEAN
    /\ lost \subseteq Acct

(***************************************************************************)
(* The legacy account is known to the server its file names, or, if it     *)
(* names none, to the one that was used then.                              *)
(***************************************************************************)
Init ==
    /\ file = [n \in Name |-> None]
    /\ legacy \in Legacy
    /\ \E home \in Server :
          /\ legacy # None => legacy.server \in {None, home}
          /\ owner = [a \in Acct |-> IF legacy # None /\ a = legacy.acct THEN home ELSE None]
    /\ cmd = [p \in Proc |-> Idle]
    /\ alone \in BOOLEAN
    /\ lost = {}

Stored(p) == file[Slug[cmd[p].server]]

Goto(p, from, to) ==
    /\ cmd[p].at = from
    /\ cmd' = [cmd EXCEPT ![p].at = to]

Return(p, from) ==
    /\ cmd[p].at = from
    /\ cmd' = [cmd EXCEPT ![p] = Idle]

-----------------------------------------------------------------------------

(***************************************************************************)
(* Only issue and register take EAB credentials; renew has none.           *)
(***************************************************************************)
Start(p, kind, s, eab) ==
    /\ cmd[p].at = "idle"
    /\ kind \in Locking => \A q \in Proc : cmd[q].at = "idle" \/ cmd[q].kind \notin Locking
    /\ alone => kind \in Locking
    /\ eab => kind \in {"issue", "register"}
    /\ cmd' = [cmd EXCEPT ![p] = Cmd("load", kind, s, eab, None)]
    /\ UNCHANGED <<file, legacy, owner, alone, lost>>

(***************************************************************************)
(* load_or_register and load: a file that exists is taken as it is; the    *)
(* server it names is not compared.                                        *)
(***************************************************************************)
LoadFile(p) ==
    /\ cmd[p].at = "load"
    /\ Stored(p) # None
    /\ cmd' = [cmd EXCEPT ![p].at = "use", ![p].acct = Stored(p)]
    /\ UNCHANGED <<file, legacy, owner, alone, lost>>

\* Mutant: whether the file exists is not asked.
NoFileAsked(p) ==
    /\ Goto(p, "load", "import")
    /\ UNCHANGED <<file, legacy, owner, alone, lost>>

NoFile(p) ==
    /\ Goto(p, "load", "import")
    /\ Stored(p) = None
    /\ UNCHANGED <<file, legacy, owner, alone, lost>>

(***************************************************************************)
(* import_legacy copies the legacy account if its file names this server,  *)
(* or none.                                                                *)
(***************************************************************************)
Importable(p) == legacy # None /\ legacy.server \in {None, cmd[p].server}

\* Mutant: the server is written in the place of the account.
SavedServer(p, a) == file' = [file EXCEPT ![Slug[cmd[p].server]] = cmd[p].server]

Saved(p, a) == file' = [file EXCEPT ![Slug[cmd[p].server]] = a]

\* Mutant: the server in the legacy file is not looked at.
ImportAny(p) ==
    /\ cmd[p].at = "import"
    /\ legacy # None
    /\ Saved(p, legacy.acct)
    /\ cmd' = [cmd EXCEPT ![p].at = "use", ![p].acct = legacy.acct]
    /\ UNCHANGED <<legacy, owner, alone, lost>>

Import(p) ==
    /\ cmd[p].at = "import"
    /\ Importable(p)
    /\ Saved(p, legacy.acct)
    /\ cmd' = [cmd EXCEPT ![p].at = "use", ![p].acct = legacy.acct]
    /\ UNCHANGED <<legacy, owner, alone, lost>>

\* The import cannot be saved.
ImportFails(p) ==
    /\ Return(p, "import")
    /\ Importable(p)
    /\ UNCHANGED <<file, legacy, owner, alone, lost>>

(***************************************************************************)
(* Without an account, revoke and show-account end, and so does a command  *)
(* that would need EAB credentials to register one.                        *)
(***************************************************************************)
MayRegister(p) ==
    /\ cmd[p].kind \notin Loading
    /\ cmd[p].server \in EabNeeded => cmd[p].eab

NoAccount(p) ==
    /\ Return(p, "import")
    /\ ~Importable(p) /\ ~MayRegister(p)
    /\ UNCHANGED <<file, legacy, owner, alone, lost>>

\* Mutant: the legacy file is not looked for.
AskAlways(p) ==
    /\ Goto(p, "import", "register")
    /\ MayRegister(p)
    /\ UNCHANGED <<file, legacy, owner, alone, lost>>

Ask(p) ==
    /\ Goto(p, "import", "register")
    /\ ~Importable(p) /\ MayRegister(p)
    /\ UNCHANGED <<file, legacy, owner, alone, lost>>

-----------------------------------------------------------------------------

(***************************************************************************)
(* register, with a key of its own: the server registers it.               *)
(***************************************************************************)
Fresh == {a \in Acct : owner[a] = None}

Registered(p, a) ==
    /\ cmd[p].at = "register" /\ a \in Fresh
    /\ owner' = [owner EXCEPT ![a] = cmd[p].server]

Register(p, a) ==
    /\ Registered(p, a)
    /\ cmd' = [cmd EXCEPT ![p].at = "save", ![p].acct = a]
    /\ UNCHANGED <<file, legacy, alone, lost>>

(***************************************************************************)
(* The reply is lost or cannot be read.                                    *)
(***************************************************************************)
Lose(a) ==
    /\ Cardinality(lost) < MaxLost
    /\ lost' = lost \union {a}

ReplyLost(p, a) ==
    /\ Registered(p, a)
    /\ Return(p, "register")
    /\ Lose(a)
    /\ UNCHANGED <<file, legacy, alone>>

\* No directory, no nonce, no connection, or the server refuses.
Refused(p) ==
    /\ Return(p, "register")
    /\ UNCHANGED <<file, legacy, owner, alone, lost>>

Save(p) ==
    /\ Goto(p, "save", "use")
    /\ Saved(p, cmd[p].acct)
    /\ UNCHANGED <<legacy, owner, alone, lost>>

SaveFails(p) ==
    /\ Return(p, "save")
    /\ Lose(cmd[p].acct)
    /\ UNCHANGED <<file, legacy, owner, alone>>

(***************************************************************************)
(* The order, the revocation, or what show-account prints.                 *)
(***************************************************************************)
Use(p) ==
    /\ Return(p, "use")
    /\ UNCHANGED <<file, legacy, owner, alone, lost>>

Crash(p) ==
    /\ cmd[p].at # "idle"
    /\ cmd' = [cmd EXCEPT ![p] = Idle]
    /\ IF cmd[p].at = "save" THEN Lose(cmd[p].acct) ELSE UNCHANGED lost
    /\ UNCHANGED <<file, legacy, owner, alone>>

Next ==
    \E p \in Proc :
        \/ \E kind \in Command, s \in Server, eab \in BOOLEAN : Start(p, kind, s, eab)
        \/ LoadFile(p) \/ NoFile(p) \/ Import(p) \/ ImportFails(p)
        \/ NoAccount(p) \/ Ask(p) \/ Refused(p)
        \/ \E a \in Acct : Register(p, a) \/ ReplyLost(p, a)
        \/ Save(p) \/ SaveFails(p) \/ Use(p) \/ Crash(p)

Spec == Init /\ [][Next]_vars

-----------------------------------------------------------------------------

(***************************************************************************)
(* "SHALL load an account only when its stored server matches the          *)
(* requested server" (acme-account/spec.md:11).  What the code keeps of    *)
(* this: through any imports, registrations and saves, beside each other,  *)
(* accounts of servers with different file names stay apart, but for the   *)
(* legacy account of a file that names no server.  No more than that: load *)
(* does not compare the server, nor does the import of such a file.        *)
(***************************************************************************)
Unnamed(a) == legacy # None /\ legacy.server = None /\ a = legacy.acct

AccountsStayApart ==
    \A p \in Proc : cmd[p].at = "use" =>
        Unnamed(cmd[p].acct) \/ Slug[owner[cmd[p].acct]] = Slug[cmd[p].server]

(***************************************************************************)
(* The account of a certificate is the one a later revoke or renewal       *)
(* finds: what issue and renew have stored is not replaced, although they  *)
(* crash, lose replies and fail to save.                                   *)
(***************************************************************************)
StoredStays ==
    [][alone => \A n \in Name : file[n] # None => file'[n] = file[n]]_vars

(***************************************************************************)
(* A server registers an account for this home only when there is none:    *)
(* those beside the stored one, or the one about to be stored, were lost   *)
(* by a reply, a write or a crash; none is registered beside a legacy one. *)
(***************************************************************************)
Kept(s) == ({file[Slug[s]]} \ {None}) \union
           {cmd[p].acct : p \in {q \in Proc : cmd[q].at = "save" /\ cmd[q].server = s}}

OneAccountPerServer ==
    alone => \A s \in Server :
        LET known == {a \in Acct : owner[a] = s} \ lost IN
        /\ Cardinality(known) <= 1
        /\ known # {} /\ (legacy = None \/ owner[legacy.acct] # s) => known = Kept(s)

=============================================================================
