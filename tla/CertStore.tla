----------------------------- MODULE CertStore -----------------------------
(***************************************************************************)
(* The life of one certificate on disk: the files of its directory, the    *)
(* copies deployed to the paths a service reads, and what the service has  *)
(* loaded.  The runs that change them are `issue` and `renew` (one at a    *)
(* time, see RenewalLock); `delete` and `revoke --delete-after-revoke`     *)
(* take no lock.  One replacement of a file is one step (see AtomicFile).  *)
(*                                                                         *)
(* A file's content is the generation that wrote it: the certificate and   *)
(* the key that issue_certificate obtained together.  Days pass, and the   *)
(* timer starts `renew --all` once a day (the packaged one, twice).        *)
(***************************************************************************)
EXTENDS Integers, FiniteSets

CONSTANTS
    Gen,        \* the generations, recycled once nothing holds them
    None,       \* no file
    Life,       \* days a certificate is valid
    Threshold,  \* --days, 30 unless given
    Paths,      \* the install paths that are configured
    Flags,      \* the options operators and the timer give to renew
    Faults,     \* the faults that happen, a subset of Kind
    MaxFaults   \* bound on the faults of a behaviour

ASSUME LifeAssumption == Life \in Nat /\ Threshold \in Nat /\ Threshold < Life
ASSUME GenAssumption == None \notin Gen
ASSUME PathsAssumption ==
    Paths \subseteq {"cert", "privkey", "fullchain", "chain"}

(***************************************************************************)
(* Directory URLs, as the operator types them.  "staging/" stands for any  *)
(* other spelling of the staging server's: a slash at the end, which       *)
(* find_by_directory trims, the host in capitals, the port given.          *)
(***************************************************************************)
Url == {"production", "staging", "staging/"}

Kind == {"ca", "io", "hook", "crash", "delete"}

ASSUME FaultsAssumption == Faults \subseteq Kind /\ MaxFaults \in Nat
ASSUME FlagsAssumption ==
    Flags \subseteq [force : BOOLEAN, dry : BOOLEAN, test : BOOLEAN,
                     server : Url \union {"unset"}]

Pem      == {"cert", "chain", "fullchain", "privkey", "key"}
Artifact == Pem \union {"renewal"}

SaveOrder   == <<"cert", "chain", "fullchain", "privkey", "key", "renewal">>
DeployOrder == <<"cert", "privkey", "fullchain", "chain">>

VARIABLES
    store,      \* the generation in each file of the certificate's directory
    installed,  \* the generation in each install path
    loaded,     \* the certificate and the key the service loaded last
    left,       \* whole days each generation is still valid, -1 once expired
    server,     \* the URL each generation was ordered from, kept in renewal.json
    run,        \* the run that holds the lock
    deleting,   \* the files remove_dir_all has still to unlink
    ran,        \* the timer has started its run of today
    faults      \* the number of failed orders and of other faults so far

vars == <<store, installed, loaded, left, server, run, deleting, ran, faults>>

(***************************************************************************)
(* The run that holds the lock: where it is, whether it is a dry run, the  *)
(* URL of its server, what it has obtained, and the index of the file to   *)
(* replace next.                                                           *)
(***************************************************************************)
Run(at, dry, url, gen, next) ==
    [at |-> at, dry |-> dry, url |-> url, gen |-> gen, next |-> next]

Idle == Run("idle", FALSE, "production", None, 1)

\* rc.staging: the string is that of the staging preset.
IsStaging(url) == url = "staging"

Held == {store[a] : a \in Artifact} \union {installed[a] : a \in Paths}
            \union {loaded.cert, loaded.key, run.gen}

Unused == Gen \ Held

TypeOK ==
    /\ store \in [Artifact -> Gen \union {None}]
    /\ installed \in [Paths -> Gen \union {None}]
    /\ loaded \in [cert : Gen \union {None}, key : Gen \union {None}]
    /\ left \in [Gen -> -1..Life]
    /\ server \in [Gen -> Url] /\ run.url \in Url
    /\ run.at \in {"idle", "issue", "save", "deploy", "reload"}
    /\ run.gen \in Gen \union {None}
    /\ run.next \in 1..6
    /\ deleting \subseteq Artifact /\ ran \in BOOLEAN
    /\ faults \in [order : 0..MaxFaults, other : 0..MaxFaults]
    /\ Unused # {}

Init ==
    /\ store = [a \in Artifact |-> None]
    /\ installed = [a \in Paths |-> None]
    /\ loaded = [cert |-> None, key |-> None]
    /\ left = [g \in Gen |-> -1]
    /\ server = [g \in Gen |-> "production"]
    /\ run = Idle
    /\ deleting = {}
    /\ ran = FALSE
    /\ faults = [order |-> 0, other |-> 0]

Total == faults.order + faults.other

Fault(kind) ==
    /\ kind \in Faults
    /\ Total < MaxFaults
    /\ faults' = IF kind = "ca" THEN [faults EXCEPT !.order = @ + 1]
                               ELSE [faults EXCEPT !.other = @ + 1]

-----------------------------------------------------------------------------

(***************************************************************************)
(* The URL of a run: the staging preset's for --test (and --dry-run), what *)
(* --server gives as it is given, else the one there was.                  *)
(***************************************************************************)
Directory(test, given, default) ==
    IF test THEN "staging" ELSE IF given = "unset" THEN default ELSE given

(***************************************************************************)
(* cmd_issue: new settings, no look at the stored certificate.             *)
(***************************************************************************)
BeginIssue(flags) ==
    /\ run = Idle
    /\ run' = Run("issue", FALSE, Directory(flags.test, flags.server, "production"), None, 1)
    /\ UNCHANGED <<store, installed, loaded, left, server, deleting, ran, faults>>

(***************************************************************************)
(* cmd_renew decides whether the certificate is due.  days_until_expiry    *)
(* is 0 for an expired or missing certificate; an ARI window that has      *)
(* begun makes one due that otherwise is not.                              *)
(***************************************************************************)
DaysLeft == IF store["cert"] = None \/ left[store["cert"]] < 0
            THEN 0 ELSE left[store["cert"]]

\* Mutant: a certificate at the threshold is not due yet.
DueBelow(flags, ari) ==
    flags.force \/ flags.dry \/ store["cert"] = None \/ DaysLeft < Threshold \/ ari

Due(flags, ari) ==
    flags.force \/ flags.dry \/ store["cert"] = None \/ DaysLeft <= Threshold \/ ari

(***************************************************************************)
(* Without a readable renewal.json the certificate is skipped, or counted  *)
(* as failed.  Without options the server is the one renewal.json names.   *)
(***************************************************************************)
BeginRenew(flags, ari) ==
    /\ run = Idle
    /\ run' = IF store["renewal"] # None /\ Due(flags, ari)
              THEN Run("issue", flags.dry,
                       Directory(flags.test \/ flags.dry, flags.server,
                                 server[store["renewal"]]), None, 1)
              ELSE Idle
    /\ UNCHANGED <<store, installed, loaded, left, server, deleting, faults>>

(***************************************************************************)
(* The timer's run is refused the lock while another run has it; there is  *)
(* no second attempt that day.                                             *)
(***************************************************************************)
Plain == [force |-> FALSE, dry |-> FALSE, test |-> FALSE, server |-> "unset"]

Timer ==
    /\ ~ran
    /\ ran' = TRUE
    /\ \/ \E ari \in BOOLEAN : BeginRenew(Plain, ari)
       \/ /\ run # Idle
          /\ UNCHANGED <<store, installed, loaded, left, server, run, deleting, faults>>

Operator ==
    /\ UNCHANGED ran
    /\ \E flags \in Flags, ari \in BOOLEAN : BeginRenew(flags, ari)

(***************************************************************************)
(* The order succeeds: the CA has issued a new generation.  A dry run ends *)
(* here.                                                                   *)
(***************************************************************************)
\* Mutant: a dry run is persisted like any other.
ObtainAndKeep(g) ==
    /\ run.at = "issue"
    /\ run' = Run("save", run.dry, run.url, g, 1)
    /\ left' = [h \in Gen |-> IF h = g THEN Life ELSE IF h \in Held THEN left[h] ELSE -1]
    /\ server' = [h \in Gen |-> IF h = g THEN run.url
                                ELSE IF h \in Held THEN server[h] ELSE "production"]
    /\ UNCHANGED <<store, installed, loaded, deleting, ran, faults>>

Obtain(g) ==
    /\ run.at = "issue"
    /\ run' = IF run.dry THEN Idle
              ELSE Run("save", run.dry, run.url, g, 1)
    /\ left' = [h \in Gen |-> IF h = g /\ ~run.dry THEN Life
                              ELSE IF h \in Held THEN left[h] ELSE -1]
    /\ server' = [h \in Gen |-> IF h = g /\ ~run.dry THEN run.url
                                ELSE IF h \in Held THEN server[h] ELSE "production"]
    /\ UNCHANGED <<store, installed, loaded, deleting, ran, faults>>

ObtainFails ==
    /\ run.at = "issue"
    /\ run' = Idle
    /\ Fault("ca")
    /\ UNCHANGED <<store, installed, loaded, left, server, deleting, ran>>

-----------------------------------------------------------------------------

(***************************************************************************)
(* save_certificate replaces one file after the other, renewal.json last.  *)
(* Nothing is deployed when rc.staging is set.                             *)
(***************************************************************************)
NextFile == Run(run.at, run.dry, run.url, run.gen, run.next + 1)

\* Mutant: staging certificates are deployed too.
AfterSaveAlways == Run("deploy", run.dry, run.url, run.gen, 1)

\* Mutant: only the first certificate is deployed.
AfterSaveOnce ==
    IF IsStaging(run.url) \/ store["renewal"] # None THEN Idle
    ELSE Run("deploy", run.dry, run.url, run.gen, 1)

AfterSave ==
    IF IsStaging(run.url) THEN Idle ELSE Run("deploy", run.dry, run.url, run.gen, 1)

\* Mutant: files that exist are not replaced.
SaveMissing ==
    /\ run.at = "save"
    /\ store' = [store EXCEPT ![SaveOrder[run.next]] = IF @ = None THEN run.gen ELSE @]
    /\ run' = IF run.next = 6 THEN AfterSave ELSE NextFile
    /\ UNCHANGED <<installed, loaded, left, server, deleting, ran, faults>>

Save ==
    /\ run.at = "save"
    /\ store' = [store EXCEPT ![SaveOrder[run.next]] = run.gen]
    /\ run' = IF run.next = 6 THEN AfterSave ELSE NextFile
    /\ UNCHANGED <<installed, loaded, left, server, deleting, ran, faults>>

SaveFails ==
    /\ run.at = "save"
    /\ run' = Idle
    /\ Fault("io")
    /\ UNCHANGED <<store, installed, loaded, left, server, deleting, ran>>

(***************************************************************************)
(* deploy_certificate copies what the store holds now to the paths that    *)
(* are configured; a source file that is gone, like any other error, ends  *)
(* the run.                                                                *)
(***************************************************************************)
Deployed ==
    run' = IF run.next < 4 THEN NextFile
           ELSE Run("reload", run.dry, run.url, run.gen, 1)

Copy(a) ==
    /\ run.at = "deploy"
    /\ a = DeployOrder[run.next]
    /\ installed' = [p \in Paths |-> IF p = a THEN store[a] ELSE installed[p]]
    /\ a \in Paths => store[a] # None
    /\ Deployed
    /\ UNCHANGED <<store, loaded, left, server, deleting, ran, faults>>

\* Mutant: a copy that fails does not stop the others.
CopySkips(a) ==
    /\ run.at = "deploy"
    /\ a = DeployOrder[run.next]
    /\ a \in Paths
    /\ store[a] = None \/ Total < MaxFaults
    /\ Deployed
    /\ UNCHANGED <<store, installed, loaded, left, server, deleting, ran, faults>>

CopyFails(a) ==
    /\ run.at = "deploy"
    /\ a = DeployOrder[run.next]
    /\ a \in Paths
    /\ run' = Idle
    /\ Fault("io") \/ (store[a] = None /\ UNCHANGED faults)
    /\ UNCHANGED <<store, installed, loaded, left, server, deleting, ran>>

(***************************************************************************)
(* --reloadcmd: the service reads the deployed copies, and in the store    *)
(* what is not deployed; it keeps what it has if a file is missing or the  *)
(* command fails.  --deploy-hook, which follows, changes nothing here.     *)
(***************************************************************************)
Served(a) == IF a \in Paths THEN installed[a] ELSE store[a]

\* Mutant: the service is reloaded although a file is missing.
ReloadAnyway ==
    /\ run.at = "reload"
    /\ run' = Idle
    /\ loaded' = [cert |-> Served("fullchain"), key |-> Served("privkey")]
    /\ UNCHANGED <<store, installed, left, server, deleting, ran, faults>>

Reload ==
    /\ run.at = "reload"
    /\ run' = Idle
    /\ IF None \notin {Served("fullchain"), Served("privkey")}
       THEN loaded' = [cert |-> Served("fullchain"), key |-> Served("privkey")]
       ELSE UNCHANGED loaded
    /\ UNCHANGED <<store, installed, left, server, deleting, ran, faults>>

ReloadFails ==
    /\ run.at = "reload"
    /\ run' = Idle
    /\ Fault("hook")
    /\ UNCHANGED <<store, installed, loaded, left, server, deleting, ran>>

Crash ==
    /\ run # Idle
    /\ run' = Idle
    /\ Fault("crash")
    /\ UNCHANGED <<store, installed, loaded, left, server, deleting, ran>>

-----------------------------------------------------------------------------

(***************************************************************************)
(* remove_dir_all, of delete and of revoke, unlinks the names it reads,    *)
(* each once, whatever they have come to name; files that a run creates    *)
(* after they were read make it fail at the end, and stay.                 *)
(***************************************************************************)
BeginDelete ==
    /\ deleting = {}
    /\ \E a \in Artifact : store[a] # None
    /\ Fault("delete")
    /\ deleting' = Artifact
    /\ UNCHANGED <<store, installed, loaded, left, server, run, ran>>

Unlink(a) ==
    /\ a \in deleting
    /\ deleting' = deleting \ {a}
    /\ store' = [store EXCEPT ![a] = None]
    /\ UNCHANGED <<installed, loaded, left, server, run, ran, faults>>

EndDelete ==
    /\ deleting # {}
    /\ deleting' = {}
    /\ UNCHANGED <<store, installed, loaded, left, server, run, ran, faults>>

(***************************************************************************)
(* Midnight.  The timer is persistent: it has started its run by then.     *)
(***************************************************************************)
Day ==
    /\ ran /\ run = Idle /\ deleting = {}
    /\ ran' = FALSE
    /\ left' = [g \in Gen |-> IF g \in Held /\ left[g] >= 0 THEN left[g] - 1 ELSE -1]
    /\ UNCHANGED <<store, installed, loaded, server, run, deleting, faults>>

-----------------------------------------------------------------------------

Begin ==
    \/ Timer
    \/ Operator
    \/ \E flags \in Flags \union {Plain} : BeginIssue(flags)

Progress ==
    \/ (Unused # {} /\ Obtain(CHOOSE g \in Unused : TRUE))
    \/ Save
    \/ \E a \in Pem : Copy(a) \/ CopyFails(a)
    \/ Reload

Failure == ObtainFails \/ SaveFails \/ ReloadFails \/ Crash

Delete == BeginDelete \/ EndDelete \/ \E a \in Artifact : Unlink(a)

Next == Begin \/ Progress \/ Failure \/ Delete \/ Day

Spec == Init /\ [][Next]_vars

(***************************************************************************)
(* The timer keeps starting runs, runs go on, deletions end and days pass. *)
(***************************************************************************)
FairSpec ==
    /\ Spec
    /\ WF_vars(Timer) /\ WF_vars(Progress) /\ WF_vars(EndDelete) /\ WF_vars(Day)

-----------------------------------------------------------------------------

(***************************************************************************)
(* A reload never makes the service load a certificate with another        *)
(* certificate's key, whatever failed, crashed or was deleted before.      *)
(***************************************************************************)
LoadedPairMatches == loaded.cert = loaded.key

InUse == {installed[a] : a \in Paths} \union {loaded.cert, loaded.key}

(***************************************************************************)
(* "Deployment and hooks are skipped for [...] staging certificates": a    *)
(* certificate ordered from the staging preset, by --test or by its URL as *)
(* the preset spells it, stays in the store, also when runs of other       *)
(* servers follow and fail between any two files.  It cannot be said of    *)
(* the staging server as such: under another spelling of its URL           *)
(* rc.staging, which compares strings, is false, and it is deployed.       *)
(***************************************************************************)
PresetStagingStaysInStore == \A g \in Gen \intersect InUse : ~IsStaging(server[g])

(***************************************************************************)
(* "The stored production certificate remains unchanged": no step of a dry *)
(* run writes a file or reloads the service.                               *)
(***************************************************************************)
DryRunTouchesNothing ==
    [][run.dry => UNCHANGED <<installed, loaded>>
                    /\ \A a \in Artifact : store'[a] \in {store[a], None}]_vars

(***************************************************************************)
(* An interruption between two files leaves a directory whose certificate  *)
(* and key belong to different generations; a later renewal replaces all   *)
(* of them.                                                                *)
(***************************************************************************)
Torn == \E a, b \in Pem : store[a] # store[b]

TornHeals == (Torn /\ store["renewal"] # None)
                 ~> (~Torn \/ store["renewal"] = None)

(***************************************************************************)
(* A deployment that failed, although the certificate is stored and not    *)
(* due, is made up for by a later renewal: the service comes to use what   *)
(* is in the store.                                                        *)
(***************************************************************************)
Behind == store["renewal"] # None /\ loaded.cert # store["fullchain"]

ServiceCatchesUp == Behind ~> ~Behind

(***************************************************************************)
(* As long as no more than Threshold daily renewals fail, all of them      *)
(* before they store a certificate, the service never uses an expired one. *)
(***************************************************************************)
OnlyFailedOrders == faults.order <= Threshold /\ faults.other = 0

ServedValid == OnlyFailedOrders /\ loaded.cert # None => left[loaded.cert] >= 0

=============================================================================
