----------------------------- MODULE RenewBatch -----------------------------
(***************************************************************************)
(* cmd_issue and cmd_renew, one run after the other (see RenewalLock), and *)
(* what a run leaves to the next: the certificates, the renewal.json of    *)
(* each and the accounts.  `renew` goes over the selected certificates,    *)
(* adapts their settings to its flags, decides which are due, runs the     *)
(* pre-hook, orders the due ones one by one, runs the post-hook and        *)
(* reports; `issue` makes settings of its flags and orders.  What happens  *)
(* inside an order is the subject of Issuance and CertStore; here it       *)
(* succeeds or fails, and an http-01 order needs port 80, which the        *)
(* listener thread it starts keeps until the process ends.                 *)
(***************************************************************************)
EXTENDS Integers, SequencesExt, FiniteSetsExt, CaPresets

CONSTANTS
    N,          \* the number of certificates there may be
    Initial,    \* what may be stored of one at first
    Lives,      \* how near to its expiry one may be
    Options,    \* the commands and flags there may be
    Threshold,  \* --days
    Demanding,  \* the servers, by Url.base, that demand an EAB
    Faults,     \* a subset of {"order", "io", "hook", "crash"}
    MaxRuns     \* bound on the runs

Cert == 1..N

\* renewal.json; no `server` was stored by early versions.
Setting == [ca : STRING \union {None}, server : Url \union {None},
            http : BOOLEAN, hooks : SUBSET {"pre", "post"}]

\* The server of settings that were loaded.
ServerOf(setting) == IF setting.server = None THEN Default.directory ELSE setting.server

\* A certificate that is stored, known by the server that issued it, and its settings.
Stored == [issuer : Url \union {None}, setting : Setting \union {None}]

\* days_until_expiry; whether the window of the CA's renewal information has begun.
Life == [days : Nat, begun : BOOLEAN]

\* `domain` is the certificate of issue; renew has one or, with None, all.
Option == [cmd : {"issue", "renew"}, domain : Cert \union {None},
           force : BOOLEAN, dry : BOOLEAN, test : BOOLEAN,
           ca : STRING \union {None}, server : Url \union {None},
           eab : BOOLEAN, http : BOOLEAN, hooks : SUBSET {"pre", "post"}]

ASSUME NAssumption == N \in Nat /\ MaxRuns \in Nat /\ Threshold \in Nat
ASSUME StoredAssumption ==
    /\ Initial \subseteq Stored
    /\ \A stored \in Initial :
          stored.setting # None => stored.issuer = ServerOf(stored.setting)
ASSUME OptionsAssumption ==
    /\ Options \subseteq Option /\ Options # {} /\ Lives \subseteq Life /\ Lives # {}
    /\ \A flags \in Options : flags.cmd = "issue" => flags.domain \in Cert
ASSUME SettingAssumption == None \notin Setting
ASSUME DemandingAssumption ==
    \A i \in DOMAIN Presets : Presets[i].eab <=> Presets[i].directory.base \in Demanding

VARIABLES
    issuer,     \* the server each stored certificate is from
    renewal,    \* the settings stored with it
    accounts,   \* the servers, by Url.base, with a stored account
    args,       \* the command of this run
    life,       \* how near the certificates are to their expiry
    pc,         \* the phase of the run
    next,       \* the certificate the phase is at
    rc,         \* the settings loaded, after the flags
    due,        \* the certificates that will be renewed
    log,        \* the hooks run and the orders made, in this order
    port,       \* the port-80 listener of an http-01 order is alive
    count,      \* the summary
    runs,       \* history: the runs so far
    torn        \* history: those whose last save did not come to its end

disk == <<issuer, renewal, accounts>>
given == <<args, life, runs>>
vars == <<disk, given, pc, next, rc, due, log, port, count, torn>>

Event == {"pre", "post", "order"} \X Cert
Ended == {"idle", "ok", "error", "crashed"}

TypeOK ==
    /\ issuer \in [Cert -> Url \union {None}]
    /\ renewal \in [Cert -> Setting \union {None}]
    /\ accounts \subseteq STRING
    /\ args \in Option /\ life \in [Cert -> Life]
    /\ pc \in Ended \union {"load", "decide", "pre", "orders", "save", "settings",
                            "deploy", "post", "report"}
    /\ next \in 1..(N + 1)
    /\ rc \in [Cert -> Setting \union {None}]
    /\ due \subseteq {c \in Cert : rc[c] # None}
    /\ log \in Seq(Event)
    /\ port \in BOOLEAN
    /\ count \in [renewed : 0..N, skipped : 0..N, failed : 0..N]
    /\ runs \in 0..MaxRuns /\ torn \subseteq Cert

Init ==
    /\ \E stored \in [Cert -> Initial] :
          /\ issuer = [c \in Cert |-> stored[c].issuer]
          /\ renewal = [c \in Cert |-> stored[c].setting]
          /\ accounts = {issuer[c].base : c \in {d \in Cert : issuer[d] # None}}
    /\ args = CHOOSE flags \in Options : TRUE
    /\ life = [c \in Cert |-> CHOOSE l \in Lives : TRUE]
    /\ pc = "idle" /\ next = 1
    /\ rc = [c \in Cert |-> None]
    /\ due = {}
    /\ log = << >>
    /\ port = FALSE
    /\ count = [renewed |-> 0, skipped |-> 0, failed |-> 0]
    /\ runs = 0 /\ torn = {}

Pending == {c \in Cert : rc[c] # None}

(***************************************************************************)
(* The phases that loop over the certificates.                             *)
(***************************************************************************)
At(phase, then) ==
    /\ pc = phase
    /\ IF next <= N THEN pc' = pc /\ next' = next + 1
                    ELSE pc' = then /\ next' = 1

-----------------------------------------------------------------------------

(***************************************************************************)
(* A new process.  issue makes its settings of nothing but its flags; it   *)
(* runs no pre- or post-hook.  A resolve that fails ends it at once.       *)
(***************************************************************************)
Resolved == [flags \in Options |-> Resolve(flags.ca, flags.server, flags.test)]

NewSetting(resolved) ==
    [ca |-> resolved.name, server |-> resolved.directory,
     http |-> args'.http, hooks |-> args'.hooks]

Start ==
    /\ pc \in Ended /\ runs < MaxRuns
    /\ runs' = runs + 1
    /\ args' \in Options /\ life' \in [Cert -> Lives]
    /\ port' = FALSE /\ log' = << >>
    /\ count' = [renewed |-> 0, skipped |-> 0, failed |-> 0]
    /\ \/ /\ args'.cmd = "renew"
          /\ pc' = "load" /\ next' = 1
          /\ rc' = [c \in Cert |-> None] /\ due' = {}
       \/ /\ args'.cmd = "issue" /\ Resolved[args'] # None
          /\ pc' = "orders" /\ next' = args'.domain
          /\ rc' = [c \in Cert |-> IF c = next' THEN NewSetting(Resolved[args']) ELSE None]
          /\ due' = {next'}
    /\ UNCHANGED <<disk, torn>>

(***************************************************************************)
(* renew -d has one certificate and renew --all those with a cert.pem or a *)
(* renewal.json.  Settings that cannot be loaded are counted as failed.    *)
(***************************************************************************)
Selected ==
    {c \in Cert : IF args.domain # None THEN c = args.domain
                  ELSE issuer[c] # None \/ renewal[c] # None}

\* Mutant: --server, --test and --dry-run keep the name of the CA.
AdaptedKeepingCa(setting) ==
    [setting EXCEPT
        !.server = IF args.test \/ args.dry THEN Staging.directory
                   ELSE IF args.server # None THEN args.server ELSE ServerOf(setting),
        !.hooks = @ \union args.hooks]

Adapted(setting) ==
    [setting EXCEPT
        !.server = IF args.test \/ args.dry THEN Staging.directory
                   ELSE IF args.server # None THEN args.server ELSE ServerOf(setting),
        !.ca = IF args.test \/ args.dry \/ args.server # None THEN None ELSE @,
        !.hooks = @ \union args.hooks]

Load ==
    /\ At("load", "decide")
    /\ IF next \in Selected
       THEN IF renewal[next] # None
            THEN rc' = [rc EXCEPT ![next] = Adapted(renewal[next])] /\ UNCHANGED count
            ELSE count' = [count EXCEPT !.failed = @ + 1] /\ UNCHANGED rc
       ELSE UNCHANGED <<rc, count>>
    /\ UNCHANGED <<disk, given, due, log, port, torn>>

(***************************************************************************)
(* The renewal window of the CA is only asked for when neither the flags   *)
(* nor the threshold make the certificate due.                             *)
(***************************************************************************)
\* Mutant: the certificates that could not be loaded are decided on, too.
DecideAll ==
    /\ At("decide", "pre")
    /\ due' = due \union {c \in {next} \intersect Cert : life[c].days <= Threshold}
    /\ UNCHANGED <<disk, given, rc, log, port, count, torn>>

IsDue(c) ==
    \/ args.force \/ args.dry
    \/ issuer[c] = None
    \/ life[c].days <= Threshold
    \/ life[c].begun

Decide ==
    /\ At("decide", "pre")
    /\ due' = due \union {c \in {next} \intersect Pending : IsDue(c)}
    /\ UNCHANGED <<disk, given, rc, log, port, count, torn>>

(***************************************************************************)
(* A hook is taken from the first certificate that has it, due or not, and *)
(* runs if any certificate is due.  A hook that fails is only reported.    *)
(***************************************************************************)
HookOwners(event) == {c \in Pending : event \in rc[c].hooks}

\* Mutant: the hook is taken from, and run for, every due certificate.
HookEach(phase, then, event) ==
    /\ pc = phase
    /\ pc' = then
    /\ log' = log \o SetToSeq({event} \X (due \intersect HookOwners(event)))
    /\ UNCHANGED <<disk, given, next, rc, due, port, count, torn>>

RunHook(phase, then, event) ==
    /\ pc = phase
    /\ pc' = then
    /\ log' = IF due = {} \/ HookOwners(event) = {} THEN log
              ELSE Append(log, <<event, Min(HookOwners(event))>>)
    /\ UNCHANGED <<disk, given, next, rc, due, port, count, torn>>

PreHook == RunHook("pre", "orders", "pre")
PostHook == RunHook("post", "report", "post")

-----------------------------------------------------------------------------

(***************************************************************************)
(* On to the next certificate, with the result of this one.                *)
(***************************************************************************)
Counted(result) ==
    /\ count' = [count EXCEPT ![result] = @ + 1]
    /\ IF args.cmd = "issue" THEN pc' = "report" /\ next' = 1
                             ELSE pc' = "orders" /\ next' = next + 1

Skip ==
    /\ pc = "orders" /\ next \in Cert \ due
    /\ IF next \in Pending THEN Counted("skipped")
       ELSE pc' = pc /\ next' = next + 1 /\ UNCHANGED count
    /\ UNCHANGED <<disk, given, rc, due, log, port, torn>>

Ordering == pc = "orders" /\ next \in due /\ log' = Append(log, <<"order", next>>)

(***************************************************************************)
(* load_or_register: an account is only registered where there is none.    *)
(* Credentials for an EAB are given to issue; renew has none.              *)
(***************************************************************************)
Base == rc[next].server.base
Binds == args.cmd = "issue" /\ args.eab

Refused == Base \notin accounts /\ EabRequired(rc[next].ca, rc[next].server) /\ ~Binds

Accepted == Base \in accounts \/ Base \notin Demanding \/ Binds

OrderRefused ==
    /\ Ordering
    /\ Refused
    /\ Counted("failed")
    /\ UNCHANGED <<disk, given, rc, due, port, torn>>

(***************************************************************************)
(* issue_certificate: the port is bound once the authorizations are there. *)
(* A dry run ends with the order.                                          *)
(***************************************************************************)
PortTaken == rc[next].http /\ port

Ordered ==
    /\ Ordering
    /\ ~Refused /\ Accepted /\ ~PortTaken
    /\ accounts' = accounts \union {Base}
    /\ port' = (port \/ rc[next].http)
    /\ IF args.cmd = "renew" /\ args.dry THEN Counted("renewed")
       ELSE pc' = "save" /\ UNCHANGED <<next, count>>
    /\ UNCHANGED <<issuer, renewal, given, rc, due, torn>>

\* Mutant: the first order that fails ends the loop.
FailedStops ==
    /\ Ordering
    /\ ~Refused
    /\ ~Accepted \/ PortTaken \/ "order" \in Faults
    /\ accounts' \in {accounts, accounts \union {Base}}
    /\ port' \in {port, port \/ rc[next].http}
    /\ pc' = "post" /\ next' = 1 /\ count' = [count EXCEPT !.failed = @ + 1]
    /\ UNCHANGED <<issuer, renewal, given, rc, due, torn>>

Failed ==
    /\ Ordering
    /\ ~Refused
    /\ \/ ~Accepted /\ UNCHANGED <<accounts, port>>
       \/ /\ Accepted /\ (PortTaken \/ "order" \in Faults)
          /\ accounts' \in {accounts, accounts \union {Base}}
          /\ port' \in {port, port \/ rc[next].http}
    /\ Counted("failed")
    /\ UNCHANGED <<issuer, renewal, given, rc, due, torn>>

(***************************************************************************)
(* save_certificate writes the certificate first and renewal.json last.    *)
(* Whatever fails from here on counts the certificate as failed, stored    *)
(* or not.                                                                 *)
(***************************************************************************)
SaveCertificate ==
    /\ pc = "save" /\ pc' = "settings"
    /\ issuer' = [issuer EXCEPT ![next] = rc[next].server]
    /\ torn' = torn \union {next}
    /\ UNCHANGED <<renewal, accounts, given, next, rc, due, log, port, count>>

\* Mutant: settings that are stored are not replaced.
SaveSettingsOnce ==
    /\ pc = "settings" /\ pc' = "deploy"
    /\ renewal' = [renewal EXCEPT ![next] = IF @ = None THEN rc[next] ELSE @]
    /\ torn' = torn \ {next}
    /\ UNCHANGED <<issuer, accounts, given, next, rc, due, log, port, count>>

SaveSettings ==
    /\ pc = "settings" /\ pc' = "deploy"
    /\ renewal' = [renewal EXCEPT ![next] = rc[next]]
    /\ torn' = torn \ {next}
    /\ UNCHANGED <<issuer, accounts, given, next, rc, due, log, port, count>>

SaveFails ==
    /\ pc \in {"save", "settings"} /\ "io" \in Faults
    /\ Counted("failed")
    /\ UNCHANGED <<disk, given, rc, due, log, port, torn>>

\* Certificates of the staging server are not deployed.
Deploy ==
    /\ pc = "deploy"
    /\ \/ Counted("renewed")
       \/ "hook" \in Faults /\ rc[next].server # Staging.directory /\ Counted("failed")
    /\ UNCHANGED <<disk, given, rc, due, log, port, torn>>

OrdersDone ==
    /\ pc = "orders" /\ next > N
    /\ At("orders", "post")
    /\ UNCHANGED <<disk, given, rc, due, log, port, count, torn>>

Report ==
    /\ pc = "report"
    /\ pc' = IF count.failed > 0 THEN "error" ELSE "ok"
    /\ UNCHANGED <<disk, given, next, rc, due, log, port, count, torn>>

Crash ==
    /\ "crash" \in Faults
    /\ pc \notin Ended
    /\ pc' = "crashed"
    /\ port' = FALSE
    /\ UNCHANGED <<disk, given, next, rc, due, log, count, torn>>

(***************************************************************************)
(* cmd_register, which takes no lock.                                      *)
(***************************************************************************)
Register ==
    \E flags \in Options :
        LET resolved == Resolved[flags] IN
        /\ flags.cmd = "issue" /\ resolved # None
        /\ resolved.directory.base \notin accounts
        /\ resolved.eab \/ resolved.directory.base \in Demanding => flags.eab
        /\ accounts' = accounts \union {resolved.directory.base}
        /\ UNCHANGED <<issuer, renewal, given, pc, next, rc, due, log, port, count, torn>>

Next ==
    \/ Start \/ Load \/ Decide \/ PreHook
    \/ Skip \/ OrderRefused \/ Ordered \/ Failed
    \/ SaveCertificate \/ SaveSettings \/ SaveFails \/ Deploy
    \/ OrdersDone \/ PostHook \/ Report \/ Crash \/ Register

Spec == Init /\ [][Next]_vars

-----------------------------------------------------------------------------

Returned == pc \in {"ok", "error"}
Positions(event) == {i \in DOMAIN log : log[i][1] = event}
Tried == {log[i][2] : i \in Positions("order")}

(***************************************************************************)
(* "The pre-hook SHALL run once before the first ACME order of a command,  *)
(* and the post-hook SHALL run once after all orders complete, including   *)
(* when an order fails": neither runs twice, no order is outside the two,  *)
(* and what the pre-hook stopped is started again before renew returns.    *)
(***************************************************************************)
HooksEnclose ==
    /\ \A event \in {"pre", "post"} : Cardinality(Positions(event)) <= 1
    /\ \A i \in Positions("pre"), j \in Positions("order") : i < j
    /\ \A i \in Positions("post"), j \in Positions("order") : j < i
    /\ Returned /\ Positions("pre") # {} /\ HookOwners("post") # {}
          => Positions("post") # {}

(***************************************************************************)
(* One certificate does not keep another from being renewed: when the run  *)
(* returns, every due certificate has been ordered exactly once, whatever  *)
(* failed before it.                                                       *)
(***************************************************************************)
EveryDueOrdered ==
    Returned => Tried = due /\ Cardinality(Positions("order")) = Cardinality(due)

(***************************************************************************)
(* A renewal without --server, --test and --dry-run goes to the server     *)
(* that issued the certificate it replaces, and finds its account there,   *)
(* whatever runs, with whatever flags and failures, came before, unless    *)
(* one of them was interrupted between cert.pem and renewal.json.  revoke  *)
(* relies on the same.                                                     *)
(***************************************************************************)
Plain == args.cmd = "renew" /\ args.server = None /\ ~args.test /\ ~args.dry

RenewedWhereIssued ==
    pc = "orders" /\ next \in due /\ Plain /\ issuer[next] # None /\ next \notin torn
        => rc[next].server = issuer[next] /\ Base \in accounts

(***************************************************************************)
(* renew, which has no EAB credentials to offer, is refused an account by  *)
(* eab_required only where the server would refuse it, too.                *)
(***************************************************************************)
NoNeedlessRefusal ==
    pc = "orders" /\ next \in due /\ args.cmd = "renew" /\ Refused => Base \in Demanding

=============================================================================
