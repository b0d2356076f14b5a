--------------------------- MODULE RenewBatchProofs ---------------------------
(***************************************************************************)
(* Proofs about RenewBatch, for any number of certificates and runs, any   *)
(* commands and any table of CAs: what a run stores leads the next one     *)
(* back to the server that issued the certificate, renew is refused an     *)
(* account only where it has to be, its hooks enclose its orders, and each *)
(* due certificate is ordered once.                                        *)
(***************************************************************************)
EXTENDS RenewBatch, FiniteSetTheorems, WellFoundedInduction, TLAPS

-----------------------------------------------------------------------------

(***************************************************************************)
(* CaPresets, for every table without duplicates: register, which takes    *)
(* resolve's word, demands an External Account Binding exactly where issue *)
(* and renew, which ask eab_required later, do.                            *)
(***************************************************************************)
Preset == [name : STRING, directory : Url, eab : BOOLEAN]

(***************************************************************************)
(* A row is found by its own name and by its own directory.                *)
(***************************************************************************)
LEMMA FirstOfOne ==
    ASSUME NEW i \in DOMAIN Presets
    PROVE  First({i}) = Presets[i]
<1>1. \A j, k \in {i} : j <= k
  BY PresetsAssumption
<1>. QED  BY <1>1 DEF First

LEMMA FoundByName ==
    ASSUME NEW i \in DOMAIN Presets
    PROVE  Find(Presets[i].name) = Presets[i]
<1>1. {j \in DOMAIN Presets : Presets[j].name = Presets[i].name} = {i}
  BY PresetsAssumption
<1>. QED  BY <1>1, FirstOfOne DEF Find

LEMMA FoundByDirectory ==
    ASSUME NEW i \in DOMAIN Presets, NEW url, url.base = Presets[i].directory.base
    PROVE  FindByDirectory(url) = Presets[i]
<1>1. {j \in DOMAIN Presets : Presets[j].directory.base = url.base} = {i}
  BY PresetsAssumption
<1>. QED  BY <1>1, FirstOfOne DEF FindByDirectory

LEMMA RowsAreNotNone ==
    ASSUME NEW i \in DOMAIN Presets
    PROVE  /\ Presets[i] \in Preset /\ Presets[i] # None
           /\ Presets[i].name # None /\ Presets[i].eab \in BOOLEAN
<1>1. Presets[i] \in Preset
  <2>1. Presets \in Seq(Preset)
    BY PresetsAssumption DEF Preset
  <2>. QED  BY <2>1
<1>. QED  BY <1>1, NoneAssumption DEF Preset

(***************************************************************************)
(* What a search finds is a row, if it finds anything.                     *)
(***************************************************************************)
LEMMA FindFindsARow ==
    ASSUME NEW name, Find(name) # None
    PROVE  \E i \in DOMAIN Presets : Find(name) = Presets[i] /\ Presets[i].name = name
<1>. DEFINE rows == {i \in DOMAIN Presets : Presets[i].name = name}
<1>1. PICK i \in DOMAIN Presets : Presets[i].name = name
  BY DEF Find, First
<1>. QED  BY <1>1, FoundByName

LEMMA DirectoryFindsARow ==
    ASSUME NEW url, FindByDirectory(url) # None
    PROVE  \E i \in DOMAIN Presets : /\ FindByDirectory(url) = Presets[i]
                                     /\ Presets[i].directory.base = url.base
<1>1. PICK i \in DOMAIN Presets : Presets[i].directory.base = url.base
  BY DEF FindByDirectory, First
<1>. QED  BY <1>1, FoundByDirectory

LEMMA StagingIsARow == \E i \in DOMAIN Presets : Staging = Presets[i]
<1>1. PICK i \in DOMAIN Presets : Presets[i].name = "letsencrypt-staging"
  BY StagingAssumption
<1>2. Find("letsencrypt-staging") = Presets[i]
  BY <1>1, FoundByName
<1>. QED  BY <1>2, RowsAreNotNone DEF Staging

-----------------------------------------------------------------------------

(***************************************************************************)
(* resolve and eab_required agree: an account is registered with, or       *)
(* without, a binding by `register` as it would be by `issue` with the     *)
(* same flags, and by the `renew` that follows with the stored settings.   *)
(* For a --server that is in no row, register takes the requirement of the *)
(* first row: the two agree because that row has none.                     *)
(***************************************************************************)
THEOREM ResolvedEab ==
    ASSUME NEW ca \in STRING \union {None}, NEW url \in Url \union {None},
           NEW test \in BOOLEAN, Resolve(ca, url, test) # None
    PROVE  LET resolved == Resolve(ca, url, test)
           IN  EabRequired(resolved.name, resolved.directory) = resolved.eab
<1>. DEFINE preset == Effective(ca, url, test)
            name == IF ca = None THEN None ELSE preset.name
            directory == IF test \/ url = None THEN preset.directory ELSE url
<1>1. /\ Inferred(ca, url) # None
      /\ Resolve(ca, url, test)
            = [name |-> name, directory |-> directory, eab |-> preset.eab]
  BY DEF Resolve
<1>. SUFFICES EabRequired(name, directory) = preset.eab
  BY <1>1
<1>2. 1 \in DOMAIN Presets
  BY PresetsAssumption
<1>3. PICK d \in DOMAIN Presets : Inferred(ca, url) = Presets[d]
  BY <1>1, <1>2, FindFindsARow, DirectoryFindsARow DEF Inferred, Default
<1>4. PICK i \in DOMAIN Presets : preset = Presets[i]
  BY <1>3, StagingIsARow DEF Effective
<1>5. CASE ca # None
  <2>1. name # None /\ Find(name) = preset /\ Find(name) # None
    BY <1>4, <1>5, FoundByName, RowsAreNotNone
  <2>. QED  BY <2>1 DEF EabRequired
<1>6. CASE ca = None /\ (test \/ url = None)
  <2>1. FindByDirectory(directory) = preset
    BY <1>4, <1>6, FoundByDirectory
  <2>2. name = None /\ preset # None /\ preset.eab \in BOOLEAN
    BY <1>4, <1>6, RowsAreNotNone
  <2>. QED  BY <2>1, <2>2 DEF EabRequired
<1>7. CASE ca = None /\ ~test /\ url # None
  <2>1. name = None /\ directory = url /\ preset = Inferred(ca, url)
    BY <1>7 DEF Effective
  <2>2. preset.eab \in BOOLEAN /\ preset # None
    BY <1>4, RowsAreNotNone
  <2>3. CASE FindByDirectory(url) # None
    BY <1>7, <2>1, <2>2, <2>3 DEF EabRequired, Inferred
  <2>4. CASE FindByDirectory(url) = None
    <3>1. preset = Presets[1]
      BY <1>7, <2>1, <2>4 DEF Inferred, Default
    <3>2. preset.eab = FALSE
      BY <3>1, DefaultAssumption
    <3>3. EabRequired(name, directory) = FALSE
      BY <2>1, <2>4 DEF EabRequired
    <3>. QED  BY <3>2, <3>3
  <2>. QED  BY <2>3, <2>4
<1>. QED  BY <1>5, <1>6, <1>7

-----------------------------------------------------------------------------

(***************************************************************************)
(* The part of TypeOK the argument needs.                                  *)
(***************************************************************************)
Types ==
    /\ issuer \in [Cert -> Url \union {None}]
    /\ renewal \in [Cert -> Setting \union {None}]
    /\ rc \in [Cert -> Setting \union {None}]
    /\ \A c \in Cert : rc[c] # None => rc[c].server \in Url
    /\ args \in Option
    /\ due \subseteq {c \in Cert : rc[c] # None}

(***************************************************************************)
(* An order that is being stored is of a due certificate, and was made     *)
(* with an account; the certificate is stored before its settings.         *)
(***************************************************************************)
Storing ==
    /\ pc \in {"save", "settings"} => next \in due /\ ServerOf(rc[next]).base \in accounts
    /\ pc = "settings" => issuer[next] = rc[next].server

(***************************************************************************)
(* Settings are of the server the certificate is from, which has an        *)
(* account.                                                                *)
(***************************************************************************)
Agree ==
    \A c \in Cert : renewal[c] # None =>
        /\ ServerOf(renewal[c]).base \in accounts
        /\ c \notin torn /\ issuer[c] # None => issuer[c] = ServerOf(renewal[c])

(***************************************************************************)
(* What renew has loaded, and adapted, is what is stored; and still is, if *)
(* it has been stored again.                                               *)
(***************************************************************************)
Loaded ==
    args.cmd = "renew" =>
        \A c \in Cert : rc[c] # None => renewal[c] # None /\ rc[c] = Adapted(renewal[c])

IInv == Types /\ Storing /\ Agree /\ Loaded

-----------------------------------------------------------------------------

(***************************************************************************)
(* The values of Url and Setting, and what Resolve and Adapted return.     *)
(***************************************************************************)
LEMMA Rows ==
    /\ Default \in Preset /\ Staging \in Preset
    /\ Default.directory \in Url /\ Staging.directory \in Url
    /\ Default.directory # None /\ Staging.directory # None
<1>1. 1 \in DOMAIN Presets
  BY PresetsAssumption
<1>2. Default \in Preset
  BY <1>1, RowsAreNotNone DEF Default
<1>3. Staging \in Preset
  BY StagingIsARow, RowsAreNotNone
<1>4. \A preset \in Preset : preset.directory \in Url
  BY DEF Preset
<1>5. None \notin Url
  BY NoneAssumption
<1>. QED  BY <1>2, <1>3, <1>4, <1>5

LEMMA Resolving ==
    ASSUME NEW flags \in Options, Resolved[flags] # None
    PROVE  /\ Resolved[flags].name \in STRING \union {None}
           /\ Resolved[flags].directory \in Url
<1>. DEFINE ca == flags.ca
            url == flags.server
            preset == Effective(ca, url, flags.test)
<1>1. flags \in Option
  BY OptionsAssumption
<1>2. url \in Url \union {None}
  BY <1>1 DEF Option
<1>3. Resolved[flags] = Resolve(ca, url, flags.test)
  BY DEF Resolved
<1>4. /\ Inferred(ca, url) # None
      /\ Resolved[flags].name = IF ca = None THEN None ELSE preset.name
      /\ Resolved[flags].directory = IF flags.test \/ url = None THEN preset.directory ELSE url
  BY <1>3 DEF Resolve
<1>5. Inferred(ca, url) \in Preset
  BY <1>4, Rows, FindFindsARow, DirectoryFindsARow, RowsAreNotNone DEF Inferred
<1>6. preset \in Preset
  BY <1>5, Rows DEF Effective
<1>7. preset.name \in STRING /\ preset.directory \in Url
  BY <1>6 DEF Preset
<1>. QED  BY <1>2, <1>4, <1>7

LEMMA NewSettings ==
    ASSUME args' \in Options, Resolved[args'] # None
    PROVE  /\ NewSetting(Resolved[args']) \in Setting
           /\ NewSetting(Resolved[args']).server \in Url
<1>1. args' \in Option
  BY OptionsAssumption
<1>2. args'.http \in BOOLEAN /\ args'.hooks \in SUBSET {"pre", "post"}
  BY <1>1 DEF Option
<1>3. /\ Resolved[args'].name \in STRING \union {None}
      /\ Resolved[args'].directory \in Url
  BY Resolving
<1>. QED  BY <1>2, <1>3 DEF NewSetting, Setting

(***************************************************************************)
(* The flags of a run change settings that have been through them no more. *)
(***************************************************************************)
LEMMA Adapting ==
    ASSUME args \in Option, NEW setting \in Setting
    PROVE  /\ Adapted(setting) \in Setting /\ Adapted(setting).server \in Url
           /\ Adapted(Adapted(setting)) = Adapted(setting)
           /\ Plain => Adapted(setting).server = ServerOf(setting)
           /\ args.cmd = "renew" /\ ~Plain => Adapted(setting).ca = None
<1>. DEFINE server == IF args.test \/ args.dry THEN Staging.directory
                      ELSE IF args.server # None THEN args.server ELSE ServerOf(setting)
            ca == IF args.test \/ args.dry \/ args.server # None THEN None ELSE setting.ca
            hooks == setting.hooks \union args.hooks
<1>1. /\ args.server \in Url \union {None} /\ args.hooks \in SUBSET {"pre", "post"}
      /\ args.test \in BOOLEAN /\ args.dry \in BOOLEAN
  BY DEF Option
<1>2. /\ setting = [ca |-> setting.ca, server |-> setting.server,
                    http |-> setting.http, hooks |-> setting.hooks]
      /\ setting.ca \in STRING \union {None} /\ setting.server \in Url \union {None}
      /\ setting.http \in BOOLEAN /\ setting.hooks \in SUBSET {"pre", "post"}
  BY DEF Setting
<1>3. Adapted(setting) = [ca |-> ca, server |-> server, http |-> setting.http, hooks |-> hooks]
  <2>1. Adapted(setting)
           = [setting EXCEPT !.server = server, !.ca = ca, !.hooks = hooks]
    BY <1>2 DEF Adapted
  <2>2. ASSUME NEW a, NEW s, NEW h, NEW adapted,
               adapted = [setting EXCEPT !.server = s, !.ca = a, !.hooks = h]
        PROVE  adapted = [ca |-> a, server |-> s, http |-> setting.http, hooks |-> h]
    BY <2>2 DEF Setting
  <2>. QED  BY <2>1, <2>2
<1>4. ServerOf(setting) \in Url
  BY <1>2, Rows DEF ServerOf
<1>5. server \in Url /\ server # None
  BY <1>1, <1>4, Rows, NoneAssumption
<1>6. ca \in STRING \union {None} /\ hooks \in SUBSET {"pre", "post"}
  BY <1>1, <1>2
<1>7. Adapted(setting) \in Setting /\ Adapted(setting).server \in Url
  BY <1>2, <1>3, <1>5, <1>6 DEF Setting
<1>8. Adapted(Adapted(setting)) = Adapted(setting)
  <2>. DEFINE once == [ca |-> ca, server |-> server, http |-> setting.http, hooks |-> hooks]
  <2>1. ServerOf(once) = server
    BY <1>5 DEF ServerOf
  <2>2. hooks \union args.hooks = hooks
    OBVIOUS
  <2>3. Adapted(once) = once
    <3>1. Adapted(once) = [once EXCEPT !.server = server, !.ca = ca, !.hooks = hooks]
      BY <2>1, <2>2 DEF Adapted
    <3>. QED  BY <3>1
  <2>. QED  BY <1>3, <2>3
<1>9. Plain => Adapted(setting).server = ServerOf(setting)
  BY <1>3 DEF Plain
<1>10. args.cmd = "renew" /\ ~Plain => Adapted(setting).ca = None
  BY <1>3 DEF Plain
<1>. QED  BY <1>7, <1>8, <1>9, <1>10

-----------------------------------------------------------------------------

LEMMA Initially == Init => IInv
<1>. SUFFICES ASSUME Init PROVE IInv
  OBVIOUS
<1>1. PICK stored \in [Cert -> Initial] :
         /\ issuer = [c \in Cert |-> stored[c].issuer]
         /\ renewal = [c \in Cert |-> stored[c].setting]
         /\ accounts = {issuer[c].base : c \in {d \in Cert : issuer[d] # None}}
  BY DEF Init
<1>2. ASSUME NEW c \in Cert
      PROVE  /\ stored[c].issuer \in Url \union {None}
             /\ stored[c].setting \in Setting \union {None}
             /\ stored[c].setting # None => stored[c].issuer = ServerOf(stored[c].setting)
  <2>1. stored[c] \in Initial
    BY <1>1
  <2>. QED  BY <2>1, StoredAssumption DEF Stored
<1>3. args \in Option
  BY OptionsAssumption DEF Init
<1>4. Types
  BY <1>1, <1>2, <1>3 DEF Init, Types
<1>5. Agree
  <2>1. SUFFICES ASSUME NEW c \in Cert, renewal[c] # None
                 PROVE  ServerOf(renewal[c]).base \in accounts /\ issuer[c] = ServerOf(renewal[c])
    BY DEF Agree
  <2>2. issuer[c] = ServerOf(renewal[c])
    BY <1>1, <1>2, <2>1
  <2>3. renewal[c] \in Setting
    BY <1>4, <2>1 DEF Types
  <2>4. ServerOf(renewal[c]) # None
    BY <2>3, Rows DEF ServerOf, Setting
  <2>. QED  BY <1>1, <2>2, <2>4
<1>6. Storing /\ Loaded
  BY DEF Init, Storing, Loaded
<1>. QED  BY <1>4, <1>5, <1>6 DEF IInv

(***************************************************************************)
(* The phases of a run change little of what the invariant speaks of.      *)
(***************************************************************************)
LEMMA Quiet ==
    ASSUME IInv, UNCHANGED <<issuer, renewal, args, rc, due, torn>>,
           accounts \subseteq accounts', pc' \notin {"save", "settings"}
    PROVE  IInv'
<1>1. \A setting : Adapted(setting)' = Adapted(setting)
  BY DEF Adapted
<1>2. Loaded'
  BY <1>1 DEF IInv, Loaded
<1>. QED  BY <1>2 DEF IInv, Types, Storing, Agree

LEMMA StartStep ==
    ASSUME IInv, Start
    PROVE  IInv'
<1>1. /\ UNCHANGED <<issuer, renewal, accounts, torn>>
      /\ args' \in Options /\ args' \in Option
  BY OptionsAssumption DEF Start, disk
<1>2. CASE args'.cmd = "renew" /\ pc' = "load" /\ rc' = [c \in Cert |-> None] /\ due' = {}
  <2>1. Types' /\ Loaded'
    BY <1>1, <1>2 DEF IInv, Types, Loaded
  <2>. QED  BY <1>1, <1>2, <2>1 DEF IInv, Storing, Agree
<1>3. CASE /\ args'.cmd = "issue" /\ Resolved[args'] # None /\ pc' = "orders"
           /\ next' = args'.domain /\ due' = {next'}
           /\ rc' = [c \in Cert |-> IF c = next' THEN NewSetting(Resolved[args']) ELSE None]
  <2>1. /\ NewSetting(Resolved[args']) \in Setting
        /\ NewSetting(Resolved[args']).server \in Url
    BY <1>1, <1>3, NewSettings
  <2>2. args'.domain \in Cert
    BY <1>1, <1>3, OptionsAssumption
  <2>3. NewSetting(Resolved[args']) # None
    BY <2>1, SettingAssumption
  <2>4. Types'
    BY <1>1, <1>3, <2>1, <2>2, <2>3 DEF IInv, Types
  <2>. QED  BY <1>1, <1>3, <2>4 DEF IInv, Storing, Agree, Loaded
<1>. QED  BY <1>2, <1>3 DEF Start

LEMMA LoadStep ==
    ASSUME IInv, Load
    PROVE  IInv'
<1>1. /\ UNCHANGED <<issuer, renewal, accounts, args, due, torn>>
      /\ pc' \in {"load", "decide"}
  BY DEF Load, At, disk, given
<1>2. \A setting : Adapted(setting)' = Adapted(setting)
  BY <1>1 DEF Adapted
<1>3. CASE UNCHANGED rc
  BY <1>1, <1>3, Quiet
<1>4. CASE /\ next \in Selected /\ renewal[next] # None
           /\ rc' = [rc EXCEPT ![next] = Adapted(renewal[next])]
  <2>1. next \in Cert
    BY <1>4 DEF Selected
  <2>2. renewal[next] \in Setting /\ args \in Option
    BY <1>4, <2>1 DEF IInv, Types
  <2>3. Adapted(renewal[next]) \in Setting /\ Adapted(renewal[next]).server \in Url
    BY <2>2, Adapting
  <2>4. Adapted(renewal[next]) # None
    BY <2>3, SettingAssumption
  <2>5. Types'
    BY <1>1, <1>4, <2>1, <2>3, <2>4 DEF IInv, Types
  <2>6. Loaded'
    BY <1>1, <1>2, <1>4, <2>1 DEF IInv, Types, Loaded
  <2>. QED  BY <1>1, <2>5, <2>6 DEF IInv, Storing, Agree
<1>. QED  BY <1>3, <1>4 DEF Load

LEMMA OrderedStep ==
    ASSUME IInv, Ordered
    PROVE  IInv'
<1>1. /\ UNCHANGED <<issuer, renewal, args, rc, due, torn>>
      /\ next \in due /\ accounts' = accounts \union {Base}
  BY DEF Ordered, Ordering, given
<1>2. CASE pc' # "save"
  <2>1. pc' \notin {"save", "settings"}
    BY <1>2 DEF Ordered, Counted
  <2>. QED  BY <1>1, <2>1, Quiet
<1>3. CASE pc' = "save" /\ UNCHANGED next
  <2>1. \A setting : Adapted(setting)' = Adapted(setting)
    BY <1>1 DEF Adapted
  <2>2. rc[next] # None /\ rc[next].server \in Url
    BY <1>1 DEF IInv, Types
  <2>3. ServerOf(rc[next]).base \in accounts'
    BY <1>1, <2>2, NoneAssumption DEF ServerOf, Base
  <2>4. Storing'
    BY <1>1, <1>3, <2>3 DEF Storing
  <2>. QED  BY <1>1, <2>1, <2>4 DEF IInv, Types, Agree, Loaded
<1>. QED  BY <1>2, <1>3 DEF Ordered, Counted

LEMMA SaveCertificateStep ==
    ASSUME IInv, SaveCertificate
    PROVE  IInv'
<1>1. /\ UNCHANGED <<renewal, accounts, args, next, rc, due>>
      /\ pc = "save" /\ pc' = "settings" /\ torn' = torn \union {next}
      /\ issuer' = [issuer EXCEPT ![next] = rc[next].server]
  BY DEF SaveCertificate, given
<1>2. /\ next \in due /\ next \in Cert /\ rc[next] # None /\ rc[next].server \in Url
      /\ ServerOf(rc[next]).base \in accounts
  BY <1>1 DEF IInv, Storing, Types
<1>3. \A setting : Adapted(setting)' = Adapted(setting)
  BY <1>1 DEF Adapted
<1>4. Types' /\ Storing'
  BY <1>1, <1>2 DEF IInv, Types, Storing
<1>5. Agree' /\ Loaded'
  BY <1>1, <1>2, <1>3 DEF IInv, Types, Agree, Loaded
<1>. QED  BY <1>4, <1>5 DEF IInv

LEMMA SaveSettingsStep ==
    ASSUME IInv, SaveSettings
    PROVE  IInv'
<1>1. /\ UNCHANGED <<issuer, accounts, args, next, rc, due>>
      /\ pc = "settings" /\ pc' = "deploy" /\ torn' = torn \ {next}
      /\ renewal' = [renewal EXCEPT ![next] = rc[next]]
  BY DEF SaveSettings, given
<1>2. /\ next \in Cert /\ rc[next] \in Setting /\ rc[next] # None
      /\ rc[next].server \in Url /\ issuer[next] = rc[next].server
      /\ ServerOf(rc[next]).base \in accounts
  BY <1>1 DEF IInv, Storing, Types
<1>3. \A setting : Adapted(setting)' = Adapted(setting)
  BY <1>1 DEF Adapted
<1>4. Types' /\ Storing'
  BY <1>1, <1>2 DEF IInv, Types, Storing
<1>5. issuer[next] = ServerOf(rc[next])
  BY <1>2, NoneAssumption DEF ServerOf
<1>6. Agree'
  BY <1>1, <1>2, <1>5 DEF IInv, Types, Agree
<1>7. args.cmd = "renew" => rc[next] = Adapted(rc[next])
  <2>1. SUFFICES ASSUME args.cmd = "renew" PROVE rc[next] = Adapted(rc[next])
    OBVIOUS
  <2>2. renewal[next] # None /\ rc[next] = Adapted(renewal[next])
    BY <1>2, <2>1 DEF IInv, Loaded
  <2>3. renewal[next] \in Setting /\ args \in Option
    BY <1>2, <2>2 DEF IInv, Types
  <2>. QED  BY <2>2, <2>3, Adapting
<1>8. Loaded'
  BY <1>1, <1>2, <1>3, <1>7 DEF IInv, Types, Loaded
<1>. QED  BY <1>4, <1>6, <1>8 DEF IInv

LEMMA Invariant == Spec => []IInv
<1>1. ASSUME IInv, [Next]_vars PROVE IInv'
  <2>. USE DEF disk, given
  <2>1. CASE Start
    BY <1>1, <2>1, StartStep
  <2>2. CASE Load
    BY <1>1, <2>2, LoadStep
  <2>3. CASE Decide
    <3>1. /\ UNCHANGED <<issuer, renewal, accounts, args, rc, torn>>
          /\ pc' \in {"decide", "pre"}
          /\ due' \subseteq due \union Pending
      BY <2>3 DEF Decide, At
    <3>2. \A setting : Adapted(setting)' = Adapted(setting)
      BY <3>1 DEF Adapted
    <3>3. Types'
      BY <1>1, <3>1 DEF IInv, Types, Pending
    <3>. QED  BY <1>1, <3>1, <3>2, <3>3 DEF IInv, Storing, Agree, Loaded
  <2>4. CASE PreHook \/ PostHook
    BY <1>1, <2>4, Quiet DEF PreHook, PostHook, RunHook
  <2>5. CASE Skip
    BY <1>1, <2>5, Quiet DEF Skip, Counted
  <2>6. CASE OrderRefused
    BY <1>1, <2>6, Quiet DEF OrderRefused, Counted
  <2>7. CASE Ordered
    BY <1>1, <2>7, OrderedStep
  <2>8. CASE Failed
    BY <1>1, <2>8, Quiet DEF Failed, Counted
  <2>9. CASE SaveCertificate
    BY <1>1, <2>9, SaveCertificateStep
  <2>10. CASE SaveSettings
    BY <1>1, <2>10, SaveSettingsStep
  <2>11. CASE SaveFails
    BY <1>1, <2>11, Quiet DEF SaveFails, Counted
  <2>12. CASE Deploy
    BY <1>1, <2>12, Quiet DEF Deploy, Counted
  <2>13. CASE OrdersDone
    BY <1>1, <2>13, Quiet DEF OrdersDone, At
  <2>14. CASE Report
    BY <1>1, <2>14, Quiet DEF Report
  <2>15. CASE Crash
    BY <1>1, <2>15, Quiet DEF Crash
  <2>16. CASE Register
    <3>1. /\ UNCHANGED <<issuer, renewal, args, pc, next, rc, due, torn>>
          /\ accounts \subseteq accounts'
      BY <2>16 DEF Register
    <3>2. \A setting : Adapted(setting)' = Adapted(setting)
      BY <3>1 DEF Adapted
    <3>. QED  BY <1>1, <3>1, <3>2 DEF IInv, Types, Storing, Agree, Loaded
  <2>17. CASE UNCHANGED vars
    <3>1. \A setting : Adapted(setting)' = Adapted(setting)
      BY <2>17 DEF vars, Adapted
    <3>. QED  BY <1>1, <2>17, <3>1 DEF vars, IInv, Types, Storing, Agree, Loaded
  <2>. QED
    BY <1>1, <2>1, <2>2, <2>3, <2>4, <2>5, <2>6, <2>7, <2>8, <2>9, <2>10, <2>11, <2>12,
       <2>13, <2>14, <2>15, <2>16, <2>17
    DEF Next
<1>. QED  BY <1>1, Initially, PTL DEF Spec

-----------------------------------------------------------------------------

(***************************************************************************)
(* The settings renew orders with.                                         *)
(***************************************************************************)
LEMMA OrderedWith ==
    ASSUME IInv, next \in due, args.cmd = "renew"
    PROVE  /\ next \in Cert /\ renewal[next] # None
           /\ Plain => rc[next].server = ServerOf(renewal[next])
           /\ ~Plain => rc[next].ca = None
<1>1. next \in Cert /\ rc[next] # None /\ args \in Option
  BY DEF IInv, Types
<1>2. renewal[next] # None /\ rc[next] = Adapted(renewal[next])
  BY <1>1 DEF IInv, Loaded
<1>3. renewal[next] \in Setting
  BY <1>1, <1>2 DEF IInv, Types
<1>. QED  BY <1>1, <1>2, <1>3, Adapting

(***************************************************************************)
(* cmd_renew without flags orders from the server that issued the          *)
(* certificate, and has its account, for any history of runs.              *)
(***************************************************************************)
THEOREM RenewedThere == Spec => []RenewedWhereIssued
<1>1. IInv => RenewedWhereIssued
  <2>1. SUFFICES ASSUME IInv, next \in due, Plain, issuer[next] # None, next \notin torn
                 PROVE  rc[next].server = issuer[next] /\ Base \in accounts
    BY DEF RenewedWhereIssued
  <2>2. /\ next \in Cert /\ renewal[next] # None
        /\ rc[next].server = ServerOf(renewal[next])
    BY <2>1, OrderedWith DEF Plain
  <2>. QED  BY <2>1, <2>2 DEF IInv, Agree, Base
<1>. QED  BY <1>1, Invariant, PTL

(***************************************************************************)
(* eab_required refuses renew an account only at a server that demands a   *)
(* binding: without flags the account is there, and with them the name of  *)
(* the CA is cleared and the table is asked for the URL alone.             *)
(***************************************************************************)
THEOREM RefusedWhereDemanded == Spec => []NoNeedlessRefusal
<1>1. IInv => NoNeedlessRefusal
  <2>1. SUFFICES ASSUME IInv, next \in due, args.cmd = "renew", Refused PROVE Base \in Demanding
    BY DEF NoNeedlessRefusal
  <2>2. /\ next \in Cert /\ renewal[next] # None
        /\ Plain => rc[next].server = ServerOf(renewal[next])
        /\ ~Plain => rc[next].ca = None
    BY <2>1, OrderedWith
  <2>3. ~Plain
    BY <2>1, <2>2 DEF IInv, Agree, Refused, Base
  <2>4. /\ FindByDirectory(rc[next].server) # None
        /\ FindByDirectory(rc[next].server).eab
    BY <2>1, <2>2, <2>3 DEF Refused, EabRequired
  <2>5. PICK i \in DOMAIN Presets : /\ FindByDirectory(rc[next].server) = Presets[i]
                                    /\ Presets[i].directory.base = rc[next].server.base
    BY <2>4, DirectoryFindsARow
  <2>. QED  BY <2>4, <2>5, DemandingAssumption DEF Base
<1>. QED  BY <1>1, Invariant, PTL

-----------------------------------------------------------------------------

(***************************************************************************)
(* What one run does, besides: where it is, what it has run and ordered by *)
(* then, and what it has counted.                                          *)
(***************************************************************************)
Before == {"load", "decide", "pre"}
Storage == {"save", "settings", "deploy"}
After == {"post", "report", "ok", "error"}

Phases ==
    /\ pc \in {"idle", "crashed", "orders"} \union Before \union Storage \union After
    /\ next \in 1..(N + 1)
    /\ pc \in Storage => next \in due
    /\ pc = "pre" => next = 1
    /\ pc \in Before \union {"post"} => args.cmd = "renew"
    /\ pc \in {"orders"} \union Storage /\ args.cmd = "issue" => due = {next}

(***************************************************************************)
(* The pre-hook is first in the log and the post-hook last, and no order   *)
(* follows the post-hook.                                                  *)
(***************************************************************************)
Hooks ==
    /\ log \in Seq(Event)
    /\ pc \in Before => log = << >>
    /\ Positions("pre") \subseteq {1}
    /\ Positions("post") \subseteq {Len(log)}
    /\ pc \in {"orders", "post"} \union Storage => Positions("post") = {}
    /\ Positions("pre") # {} => args.cmd = "renew" /\ due # {}
    /\ pc \in After \ {"post"} /\ args.cmd = "renew" /\ due # {} /\ HookOwners("post") # {}
          => Positions("post") # {}

(***************************************************************************)
(* The due certificates up to the one the run is at have been ordered.     *)
(***************************************************************************)
Orders ==
    /\ \A i, j \in Positions("order") : log[i][2] = log[j][2] => i = j
    /\ pc = "orders" => Tried = {c \in due : c < next}
    /\ pc \in Storage => Tried = {c \in due : c < next + 1}
    /\ pc \in After => Tried = due

RInv == Phases /\ Hooks /\ Orders

(***************************************************************************)
(* A certificate is counted once in each of the three: what fails to load  *)
(* is not ordered.                                                         *)
(***************************************************************************)
Unread(settings, n) == {c \in Cert : settings[c] = None /\ c < n}
Visited(settings, n) == {c \in Cert : settings[c] = None \/ c < n}

Counts ==
    /\ count \in [renewed : 0..N, skipped : 0..N, failed : 0..N]
    /\ pc = "load" =>
          /\ \A c \in Cert : next <= c => rc[c] = None
          /\ count.failed <= Cardinality(Unread(rc, next))
    /\ pc \in Before => count.renewed = 0 /\ count.skipped = 0
    /\ pc \in {"decide", "pre"} => count.failed <= Cardinality(Visited(rc, 1))
    /\ pc \in {"orders"} \union Storage =>
          /\ count.failed <= Cardinality(Visited(rc, next))
          /\ count.renewed < next /\ count.skipped < next

Histories ==
    /\ accounts \subseteq STRING
    /\ life \in [Cert -> Life]
    /\ runs \in 0..MaxRuns
    /\ torn \subseteq Cert
    /\ port \in BOOLEAN

-----------------------------------------------------------------------------

(***************************************************************************)
(* What the log holds after an entry more.                                 *)
(***************************************************************************)
LEMMA Appending ==
    ASSUME log \in Seq(Event), NEW kind \in {"pre", "post", "order"}, NEW c \in Cert,
           log' = Append(log, <<kind, c>>)
    PROVE  /\ log' \in Seq(Event) /\ Len(log') = Len(log) + 1
           /\ \A event : Positions(event)' =
                 Positions(event) \union (IF event = kind THEN {Len(log')} ELSE {})
           /\ \A i \in DOMAIN log : log'[i] = log[i]
           /\ log'[Len(log')] = <<kind, c>>
           /\ Tried' = Tried \union (IF kind = "order" THEN {c} ELSE {})
<1>1. <<kind, c>> \in Event
  BY DEF Event
<1>2. /\ log' \in Seq(Event) /\ Len(log') = Len(log) + 1
      /\ DOMAIN log' = DOMAIN log \union {Len(log')}
      /\ \A i \in DOMAIN log : log'[i] = log[i]
      /\ log'[Len(log')] = <<kind, c>>
  BY <1>1
<1>3. <<kind, c>>[1] = kind /\ <<kind, c>>[2] = c
  OBVIOUS
<1>4. ASSUME NEW event
      PROVE  Positions(event)' =
                 Positions(event) \union (IF event = kind THEN {Len(log')} ELSE {})
  BY <1>2, <1>3 DEF Positions
<1>5. \A i \in Positions("order") : i \in DOMAIN log
  BY DEF Positions
<1>6. Tried' = Tried \union (IF kind = "order" THEN {c} ELSE {})
  BY <1>2, <1>3, <1>4, <1>5 DEF Tried
<1>. QED  BY <1>2, <1>4, <1>6

LEMMA Empty ==
    ASSUME log = << >> PROVE Tried = {} /\ \A event : Positions(event) = {}
  BY DEF Positions, Tried

LEMMA SameLog ==
    ASSUME UNCHANGED log
    PROVE  Tried' = Tried /\ \A event : Positions(event)' = Positions(event)
  BY DEF Positions, Tried

LEMMA Spots ==
    ASSUME log \in Seq(Event), NEW event
    PROVE  Positions(event) \subseteq 1..Len(log)
  BY DEF Positions

(***************************************************************************)
(* The first certificate with a hook.                                      *)
(***************************************************************************)
LEMMA Least ==
    ASSUME NEW S \in SUBSET Nat, S # {}
    PROVE  Min(S) \in S
<1>1. ASSUME NEW R, IsWellFoundedOn(R, Nat), \A x, y \in Nat : <<y, x>> \in R <=> y < x
      PROVE  \E x \in S : \A y \in S : x =< y
  <2>1. PICK x \in S : \A y \in S : ~(<<y, x>> \in R)
    BY <1>1, WFMin
  <2>2. \A y \in S : ~(y < x)
    BY <1>1, <2>1
  <2>3. \A y \in S : x =< y
    BY <2>2
  <2>. QED  BY <2>3
<1>2. \A x, y \in Nat : <<y, x>> \in OpToRel(<, Nat) <=> y < x
  BY DEF OpToRel
<1>3. \E x \in S : \A y \in S : x =< y
  BY <1>1, <1>2, NatLessThanWellFounded
<1>. QED  BY <1>3 DEF Min

LEMMA HookOwner ==
    ASSUME NEW event, HookOwners(event) # {}
    PROVE  Min(HookOwners(event)) \in Cert
<1>1. HookOwners(event) \in SUBSET Nat /\ HookOwners(event) \subseteq Cert
  BY NAssumption DEF HookOwners, Pending, Cert
<1>. QED  BY <1>1, Least

-----------------------------------------------------------------------------

(***************************************************************************)
(* A run goes on to the next certificate after an order, or reports it.    *)
(***************************************************************************)
LEMMA NextOrder ==
    ASSUME IInv, Phases, NEW result, next \in due, Counted(result),
           UNCHANGED <<args, rc, due>>, pc \in {"orders"} \union Storage,
           Tried' = {c \in due : c < next + 1},
           \A event \in {"pre", "post"} : Positions(event)' = Positions(event),
           log' \in Seq(Event), Hooks,
           \A i, j \in Positions("order")' : log'[i][2] = log'[j][2] => i = j
    PROVE  RInv'
<1>1. next \in Cert /\ due \subseteq Cert /\ N \in Nat /\ args.cmd \in {"issue", "renew"}
  BY NAssumption DEF IInv, Types, Option
<1>2. HookOwners("post")' = HookOwners("post")
  BY DEF HookOwners, Pending
<1>3. CASE args.cmd = "issue"
  <2>1. pc' = "report" /\ next' = 1 /\ due = {next}
    BY <1>3 DEF Counted, Phases, Storage
  <2>2. Tried' = due'
    BY <1>1, <2>1 DEF Cert
  <2>3. Phases' /\ Orders'
    BY <1>1, <2>1, <2>2 DEF Phases, Orders, Before, Storage, After
  <2>4. Hooks'
    BY <1>3, <2>1 DEF Hooks, Before, Storage, After
  <2>. QED  BY <2>3, <2>4 DEF RInv
<1>4. CASE args.cmd = "renew"
  <2>1. pc' = "orders" /\ next' = next + 1
    BY <1>4 DEF Counted
  <2>2. Phases' /\ Orders'
    BY <1>1, <1>4, <2>1 DEF Phases, Orders, Before, Storage, After, Cert
  <2>3. Hooks'
    BY <1>4, <2>1 DEF Hooks, Before, Storage, After
  <2>. QED  BY <2>2, <2>3 DEF RInv
<1>. QED  BY <1>1, <1>3, <1>4

LEMMA OrderStep ==
    ASSUME IInv, RInv, OrderRefused \/ Ordered \/ Failed
    PROVE  RInv'
<1>1. /\ pc = "orders" /\ next \in due /\ log' = Append(log, <<"order", next>>)
      /\ UNCHANGED <<args, rc, due>>
      /\ (\E result : Counted(result)) \/ (pc' = "save" /\ next' = next)
  BY DEF OrderRefused, Ordered, Failed, Ordering, given
<1>2. next \in Cert /\ due \subseteq Cert /\ N \in Nat
  BY <1>1, NAssumption DEF IInv, Types
<1>3. /\ log \in Seq(Event) /\ Tried = {c \in due : c < next} /\ Positions("post") = {}
      /\ \A i, j \in Positions("order") : log[i][2] = log[j][2] => i = j
  BY <1>1 DEF RInv, Hooks, Orders
<1>4. /\ log' \in Seq(Event) /\ Len(log') = Len(log) + 1
      /\ \A event : Positions(event)' =
            Positions(event) \union (IF event = "order" THEN {Len(log')} ELSE {})
      /\ \A i \in DOMAIN log : log'[i] = log[i]
      /\ log'[Len(log')] = <<"order", next>>
      /\ Tried' = Tried \union {next}
  BY <1>1, <1>2, <1>3, Appending
<1>5. Tried' = {c \in due : c < next + 1}
  <2>1. \A c \in due : c < next + 1 <=> c < next \/ c = next
    BY <1>2 DEF Cert
  <2>. QED  BY <1>1, <1>3, <1>4, <2>1
<1>6. \A i, j \in Positions("order")' : log'[i][2] = log'[j][2] => i = j
  <2>1. \A i \in Positions("order") : i \in DOMAIN log /\ log[i][2] \in Tried
    BY DEF Positions, Tried
  <2>2. next \notin Tried
    BY <1>2, <1>3 DEF Cert
  <2>3. \A i \in Positions("order") : log'[i][2] = log[i][2] /\ log'[i][2] # next
    BY <1>4, <2>1, <2>2
  <2>4. log'[Len(log')][2] = next
    BY <1>4
  <2>. QED  BY <1>3, <1>4, <2>3, <2>4
<1>7. \A event \in {"pre", "post"} : Positions(event)' = Positions(event)
  BY <1>4
<1>8. CASE \E result : Counted(result)
  BY <1>1, <1>4, <1>5, <1>6, <1>7, <1>8, NextOrder DEF RInv
<1>9. CASE pc' = "save" /\ next' = next
  <2>1. Phases' /\ Orders'
    BY <1>1, <1>5, <1>6, <1>9 DEF RInv, Phases, Orders, Before, Storage, After
  <2>2. Hooks'
    BY <1>1, <1>3, <1>4, <1>7, <1>9 DEF RInv, Hooks, Before, Storage, After
  <2>. QED  BY <2>1, <2>2 DEF RInv
<1>. QED  BY <1>1, <1>8, <1>9

LEMMA StoredStep ==
    ASSUME IInv, RInv, SaveFails \/ Deploy
    PROVE  RInv'
<1>1. /\ pc \in Storage /\ UNCHANGED <<log, args, rc, due>> /\ \E result : Counted(result)
  BY DEF SaveFails, Deploy, given, Storage
<1>2. /\ next \in due /\ Tried = {c \in due : c < next + 1} /\ log \in Seq(Event)
      /\ \A i, j \in Positions("order") : log[i][2] = log[j][2] => i = j
  BY <1>1 DEF RInv, Phases, Orders, Hooks
<1>3. Tried' = Tried /\ \A event : Positions(event)' = Positions(event)
  BY <1>1, SameLog
<1>4. \A i, j \in Positions("order")' : log'[i][2] = log'[j][2] => i = j
  BY <1>1, <1>2, <1>3
<1>. QED  BY <1>1, <1>2, <1>3, <1>4, NextOrder DEF RInv

LEMMA SkipStep ==
    ASSUME IInv, RInv, Skip
    PROVE  RInv'
<1>1. /\ pc = "orders" /\ next \in Cert \ due /\ UNCHANGED <<log, args, rc, due>>
  BY DEF Skip, given
<1>2. args.cmd = "renew" /\ N \in Nat /\ due \subseteq Cert
  BY <1>1, NAssumption DEF RInv, Phases, IInv, Types, Option
<1>3. pc' = "orders" /\ next' = next + 1
  BY <1>1, <1>2 DEF Skip, Counted
<1>4. Tried' = Tried /\ \A event : Positions(event)' = Positions(event)
  BY <1>1, SameLog
<1>5. {c \in due : c < next} = {c \in due : c < next + 1}
  <2>1. \A c \in due : c < next + 1 <=> c < next
    BY <1>1, <1>2 DEF Cert
  <2>. QED  BY <2>1
<1>6. Phases' /\ Orders'
  BY <1>1, <1>2, <1>3, <1>4, <1>5 DEF RInv, Phases, Orders, Before, Storage, After, Cert
<1>7. Hooks'
  BY <1>1, <1>2, <1>3, <1>4 DEF RInv, Hooks, Before, Storage, After
<1>. QED  BY <1>6, <1>7 DEF RInv

LEMMA PreHookStep ==
    ASSUME IInv, RInv, PreHook
    PROVE  RInv'
<1>1. /\ pc = "pre" /\ pc' = "orders" /\ UNCHANGED <<args, next, rc, due>>
      /\ next = 1 /\ log = << >> /\ args.cmd = "renew"
  BY DEF PreHook, RunHook, given, RInv, Phases, Hooks, Before
<1>2. N \in Nat /\ due \subseteq Cert
  BY NAssumption DEF IInv, Types
<1>3. Tried = {} /\ \A event : Positions(event) = {}
  BY <1>1, Empty
<1>4. {c \in due : c < next} = {}
  <2>1. \A c \in due : ~(c < next)
    BY <1>1, <1>2 DEF Cert
  <2>. QED  BY <2>1
<1>5. CASE log' = log
  <2>1. Tried' = {} /\ \A event : Positions(event)' = {}
    BY <1>3, <1>5, SameLog
  <2>2. Phases' /\ Orders'
    BY <1>1, <1>2, <1>4, <2>1 DEF RInv, Phases, Orders, Before, Storage, After
  <2>3. Hooks'
    BY <1>1, <1>5, <2>1 DEF RInv, Hooks, Before, Storage, After
  <2>. QED  BY <2>2, <2>3 DEF RInv
<1>6. CASE /\ due # {} /\ HookOwners("pre") # {}
           /\ log' = Append(log, <<"pre", Min(HookOwners("pre"))>>)
  <2>1. Min(HookOwners("pre")) \in Cert /\ log \in Seq(Event)
    BY <1>6, HookOwner DEF RInv, Hooks
  <2>2. /\ log' \in Seq(Event) /\ Len(log') = Len(log) + 1
        /\ \A event : Positions(event)' =
              Positions(event) \union (IF event = "pre" THEN {Len(log')} ELSE {})
        /\ Tried' = Tried
    BY <1>6, <2>1, Appending
  <2>3. Len(log') = 1 /\ Positions("pre")' = {1}
    BY <1>1, <1>3, <2>2
  <2>4. Tried' = {} /\ Positions("order")' = {} /\ Positions("post")' = {}
    BY <1>3, <2>2
  <2>5. Phases' /\ Orders'
    BY <1>1, <1>2, <1>4, <2>4 DEF RInv, Phases, Orders, Before, Storage, After
  <2>6. Hooks'
    BY <1>1, <1>6, <2>2, <2>3, <2>4 DEF Hooks, Before, Storage, After
  <2>. QED  BY <2>5, <2>6 DEF RInv
<1>. QED  BY <1>5, <1>6 DEF PreHook, RunHook

LEMMA PostHookStep ==
    ASSUME IInv, RInv, PostHook
    PROVE  RInv'
<1>1. /\ pc = "post" /\ pc' = "report" /\ UNCHANGED <<args, next, rc, due>>
      /\ args.cmd = "renew" /\ Tried = due /\ Positions("post") = {}
      /\ \A i, j \in Positions("order") : log[i][2] = log[j][2] => i = j
  BY DEF PostHook, RunHook, given, RInv, Phases, Hooks, Orders, Before, Storage, After
<1>2. HookOwners("post")' = HookOwners("post")
  BY <1>1 DEF HookOwners, Pending
<1>3. Phases'
  BY <1>1 DEF RInv, Phases, Before, Storage, After
<1>4. CASE log' = log /\ (due = {} \/ HookOwners("post") = {})
  <2>1. Tried' = Tried /\ \A event : Positions(event)' = Positions(event)
    BY <1>4, SameLog
  <2>2. Orders'
    BY <1>1, <1>4, <2>1 DEF Orders, Before, Storage, After
  <2>3. Hooks'
    BY <1>1, <1>2, <1>4, <2>1 DEF RInv, Hooks, Before, Storage, After
  <2>. QED  BY <1>3, <2>2, <2>3 DEF RInv
<1>5. CASE /\ due # {} /\ HookOwners("post") # {}
           /\ log' = Append(log, <<"post", Min(HookOwners("post"))>>)
  <2>1. Min(HookOwners("post")) \in Cert /\ log \in Seq(Event)
    BY <1>5, HookOwner DEF RInv, Hooks
  <2>2. /\ log' \in Seq(Event) /\ Len(log') = Len(log) + 1
        /\ \A event : Positions(event)' =
              Positions(event) \union (IF event = "post" THEN {Len(log')} ELSE {})
        /\ \A i \in DOMAIN log : log'[i] = log[i]
        /\ Tried' = Tried
    BY <1>5, <2>1, Appending
  <2>3. /\ Positions("order")' = Positions("order") /\ Positions("pre")' = Positions("pre")
        /\ Positions("post")' = {Len(log')}
    BY <1>1, <2>2
  <2>4. \A i \in Positions("order") : i \in DOMAIN log
    BY DEF Positions
  <2>5. \A i, j \in Positions("order")' : log'[i][2] = log'[j][2] => i = j
    BY <1>1, <2>2, <2>3, <2>4
  <2>6. Orders'
    BY <1>1, <2>2, <2>5 DEF Orders, Before, Storage, After
  <2>7. Hooks'
    BY <1>1, <1>2, <1>5, <2>2, <2>3 DEF RInv, Hooks, Before, Storage, After
  <2>. QED  BY <1>3, <2>6, <2>7 DEF RInv
<1>. QED  BY <1>4, <1>5 DEF PostHook, RunHook

LEMMA BeginStep ==
    ASSUME IInv, RInv, Start \/ Load \/ Decide
    PROVE  RInv'
<1>1. N \in Nat /\ << >> \in Seq(Event) /\ Len(<< >>) = 0
  BY NAssumption DEF Event
<1>2. CASE Start
  <2>1. log' = << >> /\ Tried' = {} /\ \A event : Positions(event)' = {}
    BY <1>2 DEF Start, Positions, Tried
  <2>2. CASE args'.cmd = "renew" /\ pc' = "load" /\ next' = 1
    BY <1>1, <2>1, <2>2 DEF RInv, Phases, Hooks, Orders, Before, Storage, After
  <2>3. CASE args'.cmd = "issue" /\ pc' = "orders" /\ next' = args'.domain /\ due' = {next'}
    <3>1. next' \in Cert
      BY <1>2, <2>3, OptionsAssumption DEF Start
    <3>2. {c \in due' : c < next'} = {}
      BY <1>1, <2>3, <3>1 DEF Cert
    <3>3. Phases' /\ Orders'
      BY <1>1, <2>1, <2>3, <3>1, <3>2 DEF Phases, Orders, Before, Storage, After, Cert
    <3>4. Hooks'
      BY <1>1, <2>1, <2>3 DEF Hooks, Before, Storage, After
    <3>. QED  BY <3>3, <3>4 DEF RInv
  <2>. QED  BY <1>2, <2>2, <2>3 DEF Start
<1>3. CASE Load \/ Decide
  <2>1. /\ pc \in Before /\ pc' \in Before /\ UNCHANGED <<args, log>>
        /\ next' \in 1..(N + 1) /\ (pc' = "pre" => next' = 1)
    BY <1>1, <1>3 DEF Load, Decide, At, given, Before, RInv, Phases
  <2>2. log' = << >> /\ Tried' = {} /\ \A event : Positions(event)' = {}
    BY <2>1 DEF RInv, Hooks, Positions, Tried
  <2>. QED
    BY <1>1, <2>1, <2>2 DEF RInv, Phases, Hooks, Orders, Before, Storage, After
<1>. QED  BY <1>2, <1>3

LEMMA LastStep ==
    ASSUME IInv, RInv, SaveCertificate \/ SaveSettings \/ OrdersDone \/ Report
    PROVE  RInv'
<1>1. /\ UNCHANGED <<args, rc, due, log>> /\ N \in Nat /\ due \subseteq Cert
      /\ \/ pc \in Storage /\ pc' \in Storage /\ next' = next
         \/ pc = "orders" /\ next > N /\ pc' = "post" /\ next' = 1
         \/ pc = "report" /\ pc' \in {"ok", "error"} /\ next' = next
  BY NAssumption
     DEF SaveCertificate, SaveSettings, OrdersDone, Report, At, given, Storage, IInv, Types,
         RInv, Phases
<1>2. Tried' = Tried /\ \A event : Positions(event)' = Positions(event)
  BY <1>1, SameLog
<1>3. HookOwners("post")' = HookOwners("post")
  BY <1>1 DEF HookOwners, Pending
<1>4. pc = "orders" /\ next > N => Tried = due /\ args.cmd = "renew"
  <2>1. SUFFICES ASSUME pc = "orders", next > N PROVE Tried = due /\ args.cmd = "renew"
    OBVIOUS
  <2>2. next = N + 1 /\ (args.cmd = "issue" => due = {next}) /\ Tried = {c \in due : c < next}
    BY <1>1, <2>1 DEF RInv, Phases, Orders
  <2>3. \A c \in due : c < next /\ c # next
    BY <1>1, <2>2 DEF Cert
  <2>. QED  BY <2>2, <2>3 DEF IInv, Types, Option
<1>5. Phases'
  BY <1>1, <1>4 DEF RInv, Phases, Before, Storage, After
<1>6. Orders'
  BY <1>1, <1>2, <1>4 DEF RInv, Orders, Before, Storage, After
<1>7. Hooks'
  BY <1>1, <1>2, <1>3 DEF RInv, Hooks, Before, Storage, After
<1>. QED  BY <1>5, <1>6, <1>7 DEF RInv

LEMMA RunInvariant == Spec => []RInv
<1>1. Init => RInv
  <2>1. SUFFICES ASSUME Init PROVE RInv
    OBVIOUS
  <2>2. pc = "idle" /\ next = 1 /\ log = << >> /\ log \in Seq(Event) /\ N \in Nat
    BY <2>1, NAssumption DEF Init, Event
  <2>3. Tried = {} /\ \A event : Positions(event) = {}
    BY <2>2, Empty
  <2>. QED  BY <2>2, <2>3 DEF RInv, Phases, Hooks, Orders, Before, Storage, After
<1>2. ASSUME IInv, RInv, [Next]_vars PROVE RInv'
  <2>1. CASE Crash
    <3>1. /\ pc' = "crashed" /\ UNCHANGED <<args, next, rc, due, log>>
      BY <2>1 DEF Crash, given
    <3>2. Tried' = Tried /\ \A event : Positions(event)' = Positions(event)
      BY <3>1, SameLog
    <3>. QED
      BY <1>2, <3>1, <3>2 DEF RInv, Phases, Hooks, Orders, Before, Storage, After
  <2>2. CASE Register \/ UNCHANGED vars
    <3>1. /\ UNCHANGED <<pc, args, next, rc, due, log>>
      BY <2>2 DEF Register, given, vars
    <3>2. Tried' = Tried /\ \A event : Positions(event)' = Positions(event)
      BY <3>1, SameLog
    <3>3. HookOwners("post")' = HookOwners("post")
      BY <3>1 DEF HookOwners, Pending
    <3>. QED
      BY <1>2, <3>1, <3>2, <3>3 DEF RInv, Phases, Hooks, Orders
  <2>. QED
    BY <1>2, <2>1, <2>2, BeginStep, PreHookStep, SkipStep, OrderStep, StoredStep, LastStep,
       PostHookStep
    DEF Next
<1>. QED  BY <1>1, <1>2, Invariant, PTL DEF Spec

(***************************************************************************)
(* The pre-hook once and first, the post-hook once and last, and the one   *)
(* after the other, for any number of certificates and whatever fails.     *)
(***************************************************************************)
THEOREM HooksAround == Spec => []HooksEnclose
<1>1. RInv => HooksEnclose
  <2>1. SUFFICES ASSUME RInv PROVE HooksEnclose
    OBVIOUS
  <2>2. ASSUME NEW event \in {"pre", "post"} PROVE Cardinality(Positions(event)) <= 1
    <3>1. PICK i : Positions(event) \subseteq {i}
      BY <2>1, <2>2 DEF RInv, Hooks
    <3>2. Positions(event) = {} \/ Positions(event) = {i}
      BY <3>1
    <3>3. Cardinality({}) = 0 /\ Cardinality({i}) = 1
      BY FS_EmptySet, FS_Singleton
    <3>. QED  BY <3>2, <3>3
  <2>3. \A event : Positions(event) \subseteq 1..Len(log)
    BY <2>1, Spots DEF RInv, Hooks
  <2>4. \A i \in Positions("pre"), j \in Positions("order") : i = 1 /\ i # j
    BY <2>1 DEF RInv, Hooks, Positions
  <2>5. \A i \in Positions("post"), j \in Positions("order") : i = Len(log) /\ i # j
    BY <2>1 DEF RInv, Hooks, Positions
  <2>6. Len(log) \in Nat
    BY <2>1 DEF RInv, Hooks
  <2>7. /\ \A i \in Positions("pre"), j \in Positions("order") : i < j
        /\ \A i \in Positions("post"), j \in Positions("order") : j < i
    BY <2>3, <2>4, <2>5, <2>6
  <2>8. Returned /\ Positions("pre") # {} /\ HookOwners("post") # {} => Positions("post") # {}
    BY <2>1 DEF RInv, Hooks, Returned, After
  <2>. QED  BY <2>2, <2>7, <2>8 DEF HooksEnclose
<1>. QED  BY <1>1, RunInvariant, PTL

(***************************************************************************)
(* Each due certificate has its one order by the time a run returns.       *)
(***************************************************************************)
THEOREM OrderedOnce == Spec => []EveryDueOrdered
<1>1. IInv /\ RInv => EveryDueOrdered
  <2>1. SUFFICES ASSUME IInv, RInv, Returned
                 PROVE  Tried = due /\ Cardinality(Positions("order")) = Cardinality(due)
    BY DEF EveryDueOrdered
  <2>2. /\ Tried = due /\ log \in Seq(Event)
        /\ \A i, j \in Positions("order") : log[i][2] = log[j][2] => i = j
    BY <2>1 DEF Returned, RInv, Orders, Hooks, After
  <2>3. IsFiniteSet(Positions("order"))
    <3>1. Positions("order") \in SUBSET (1..Len(log)) /\ Len(log) \in Nat
      BY <2>2, Spots
    <3>2. IsFiniteSet(1..Len(log))
      BY <3>1, FS_Interval
    <3>. QED  BY <3>1, <3>2, FS_Subset
  <2>4. ExistsBijection(Positions("order"), due)
    <3>. DEFINE order == [i \in Positions("order") |-> log[i][2]]
    <3>1. order \in Bijection(Positions("order"), due)
      BY <2>2 DEF Tried, Bijection, Injection, Surjection, IsInjective
    <3>. QED  BY <3>1 DEF ExistsBijection
  <2>. QED  BY <2>2, <2>3, <2>4, FS_Bijection
<1>. QED  BY <1>1, Invariant, RunInvariant, PTL

-----------------------------------------------------------------------------

(***************************************************************************)
(* How many certificates have been gone over.                              *)
(***************************************************************************)
LEMMA Going ==
    ASSUME NEW settings, NEW n \in Nat
    PROVE  /\ Cardinality(Unread(settings, n)) \in 0..N
           /\ Cardinality(Visited(settings, n)) \in 0..N
           /\ Cardinality(Unread(settings, n)) <= Cardinality(Unread(settings, n + 1))
           /\ Cardinality(Visited(settings, n)) <= Cardinality(Visited(settings, n + 1))
           /\ Cardinality(Unread(settings, n)) <= Cardinality(Visited(settings, 1))
           /\ n \in Cert /\ settings[n] = None =>
                 Cardinality(Unread(settings, n + 1)) = Cardinality(Unread(settings, n)) + 1
           /\ n \in Cert /\ settings[n] # None =>
                 Cardinality(Visited(settings, n + 1)) = Cardinality(Visited(settings, n)) + 1
<1>1. IsFiniteSet(Cert) /\ Cardinality(Cert) = N
  BY NAssumption, FS_Interval DEF Cert
<1>2. /\ \A m : Unread(settings, m) \in SUBSET Cert
      /\ \A m : Visited(settings, m) \in SUBSET Cert
  BY DEF Unread, Visited
<1>3. ASSUME NEW S \in SUBSET Cert
      PROVE  IsFiniteSet(S) /\ Cardinality(S) \in 0..N
  <2>1. IsFiniteSet(S) /\ Cardinality(S) <= N
    BY <1>1, FS_Subset
  <2>2. Cardinality(S) \in Nat
    BY <2>1, FS_CardinalityType
  <2>. QED  BY <2>1, <2>2, NAssumption
<1>4. \A c \in Cert : /\ c < n => c < n + 1
                      /\ c < n + 1 <=> c < n \/ c = n
                      /\ ~(c < 1)
  BY NAssumption DEF Cert
<1>5. /\ Unread(settings, n) \in SUBSET Unread(settings, n + 1)
      /\ Visited(settings, n) \in SUBSET Visited(settings, n + 1)
      /\ Unread(settings, n) \in SUBSET Visited(settings, 1)
  BY <1>4 DEF Unread, Visited
<1>6. /\ Cardinality(Unread(settings, n)) <= Cardinality(Unread(settings, n + 1))
      /\ Cardinality(Visited(settings, n)) <= Cardinality(Visited(settings, n + 1))
      /\ Cardinality(Unread(settings, n)) <= Cardinality(Visited(settings, 1))
  BY <1>2, <1>3, <1>5, FS_Subset
<1>7. ASSUME n \in Cert, settings[n] = None
      PROVE  Cardinality(Unread(settings, n + 1)) = Cardinality(Unread(settings, n)) + 1
  <2>1. \A c \in Cert : (settings[c] = None /\ c < n + 1) <=> ((settings[c] = None /\ c < n) \/ c = n)
    BY <1>4, <1>7
  <2>2. Unread(settings, n + 1) = Unread(settings, n) \union {n}
    BY <1>7, <2>1 DEF Unread
  <2>3. n \notin Unread(settings, n)
    BY <1>7 DEF Unread
  <2>4. IsFiniteSet(Unread(settings, n))
    BY <1>2, <1>3
  <2>. QED  BY <2>2, <2>3, <2>4, FS_AddElement
<1>8. ASSUME n \in Cert, settings[n] # None
      PROVE  Cardinality(Visited(settings, n + 1)) = Cardinality(Visited(settings, n)) + 1
  <2>1. \A c \in Cert : (settings[c] = None \/ c < n + 1) <=> ((settings[c] = None \/ c < n) \/ c = n)
    BY <1>4, <1>8
  <2>2. Visited(settings, n + 1) = Visited(settings, n) \union {n}
    BY <1>8, <2>1 DEF Visited
  <2>3. n \notin Visited(settings, n)
    BY <1>8 DEF Visited
  <2>4. IsFiniteSet(Visited(settings, n))
    BY <1>2, <1>3
  <2>. QED  BY <2>2, <2>3, <2>4, FS_AddElement
<1>9. Cardinality(Unread(settings, n)) \in 0..N /\ Cardinality(Visited(settings, n)) \in 0..N
  BY <1>2, <1>3
<1>. QED  BY <1>6, <1>7, <1>8, <1>9

LEMMA LoadCounts ==
    ASSUME IInv, RInv, Counts, Load
    PROVE  Counts'
<1>. DEFINE unread(n) == Cardinality(Unread(rc, n))
            zero == count.renewed = 0 /\ count.skipped = 0
<1>1. /\ pc = "load" /\ N \in Nat /\ next \in 1..(N + 1) /\ next \in Nat
      /\ count \in [renewed : 0..N, skipped : 0..N, failed : 0..N] /\ zero
      /\ \A c \in Cert : next <= c => rc[c] = None
      /\ count.failed <= unread(next)
  BY NAssumption DEF Load, At, RInv, Phases, Counts, Before
<1>2. /\ unread(next) \in 0..N /\ unread(next + 1) \in 0..N /\ unread(next) <= unread(next + 1)
      /\ unread(next) <= Cardinality(Visited(rc, 1)) /\ Cardinality(Visited(rc, 1)) \in 0..N
      /\ next \in Cert /\ rc[next] = None => unread(next + 1) = unread(next) + 1
  BY <1>1, Going
<1>3. CASE next > N
  <2>1. next \notin Cert
    BY <1>1, <1>3 DEF Cert
  <2>2. UNCHANGED <<rc, count>> /\ pc' = "decide"
    BY <1>1, <1>3, <2>1 DEF Load, At, Selected, IInv, Types, Option
  <2>3. count.failed <= Cardinality(Visited(rc, 1))
    BY <1>1, <1>2
  <2>. QED  BY <1>1, <2>2, <2>3 DEF Counts, Before, Storage
<1>4. CASE next <= N
  <2>1. next \in Cert /\ rc[next] = None /\ pc' = "load" /\ next' = next + 1
    BY <1>1, <1>4 DEF Load, At, Cert
  <2>2. unread(next + 1) = unread(next) + 1
    BY <1>2, <2>1
  <2>3. /\ count' \in [renewed : Nat, skipped : Nat, failed : Nat]
        /\ count'.renewed = 0 /\ count'.skipped = 0
    BY <1>1 DEF Load
  <2>4. \A c \in Cert : next' <= c => next <= c /\ c # next
    BY <1>1, <2>1 DEF Cert
  <2>5. \A c \in Cert : c # next => rc'[c] = rc[c]
    BY DEF Load, IInv, Types
  <2>6. \A c \in Cert : next' <= c => rc'[c] = None
    BY <1>1, <2>4, <2>5
  <2>7. CASE UNCHANGED rc
    <3>1. count'.failed \in {count.failed, count.failed + 1}
      BY <1>1 DEF Load
    <3>2. count'.failed <= unread(next + 1)
      BY <1>1, <1>2, <2>2, <3>1
    <3>3. count'.failed \in 0..N
      BY <1>1, <1>2, <2>3, <3>2
    <3>4. count' \in [renewed : 0..N, skipped : 0..N, failed : 0..N]
      BY <1>1, <2>3, <3>3
    <3>. QED  BY <2>1, <2>3, <2>6, <2>7, <3>2, <3>4 DEF Counts, Before, Storage
  <2>8. CASE UNCHANGED count
    <3>1. Unread(rc, next) \in SUBSET Unread(rc', next')
      <4>1. \A c \in Cert : c < next => c # next /\ c < next'
        BY <1>1, <2>1 DEF Cert
      <4>. QED  BY <2>5, <4>1 DEF Unread
    <3>2. IsFiniteSet(Unread(rc', next'))
      <4>1. IsFiniteSet(Cert)
        BY FS_Interval, NAssumption DEF Cert
      <4>2. Unread(rc', next') \in SUBSET Cert
        BY DEF Unread
      <4>. QED  BY <4>1, <4>2, FS_Subset
    <3>3. /\ unread(next) <= Cardinality(Unread(rc', next'))
          /\ Cardinality(Unread(rc', next')) \in Nat
      BY <3>1, <3>2, FS_Subset, FS_CardinalityType
    <3>4. count'.failed <= Cardinality(Unread(rc', next'))
      BY <1>1, <1>2, <2>8, <3>3
    <3>. QED  BY <1>1, <2>1, <2>3, <2>6, <2>8, <3>4 DEF Counts, Before, Storage
  <2>. QED  BY <2>7, <2>8 DEF Load
<1>. QED  BY <1>1, <1>3, <1>4

LEMMA CountedCounts ==
    ASSUME IInv, RInv, Counts, NEW result \in {"renewed", "skipped", "failed"},
           Counted(result), UNCHANGED rc, pc \in {"orders"} \union Storage,
           next \in Cert, rc[next] # None
    PROVE  Counts'
<1>. DEFINE visited(n) == Cardinality(Visited(rc, n))
<1>1. /\ N \in Nat /\ next \in 1..N /\ next \in Nat
      /\ count \in [renewed : 0..N, skipped : 0..N, failed : 0..N]
      /\ count.failed <= visited(next) /\ count.renewed < next /\ count.skipped < next
  BY NAssumption DEF Counts, Cert
<1>2. /\ visited(next) \in 0..N /\ visited(next + 1) \in 0..N
      /\ visited(next + 1) = visited(next) + 1
  BY <1>1, Going
<1>3. count' = [count EXCEPT ![result] = @ + 1]
  BY DEF Counted
<1>4. /\ count' \in [renewed : Nat, skipped : Nat, failed : Nat]
      /\ count'.renewed <= count.renewed + 1 /\ count'.skipped <= count.skipped + 1
      /\ count'.failed <= count.failed + 1
  BY <1>1, <1>3
<1>5. /\ count'.renewed < next + 1 /\ count'.skipped < next + 1
      /\ count'.failed <= visited(next + 1)
  BY <1>1, <1>2, <1>4
<1>6. count'.renewed \in 0..N /\ count'.skipped \in 0..N /\ count'.failed \in 0..N
  BY <1>1, <1>2, <1>4, <1>5
<1>7. count' \in [renewed : 0..N, skipped : 0..N, failed : 0..N]
  BY <1>4, <1>6
<1>8. pc' = "report" \/ (pc' = "orders" /\ next' = next + 1)
  BY DEF Counted
<1>. QED  BY <1>5, <1>7, <1>8 DEF Counts, Before, Storage

LEMMA OrderCounts ==
    ASSUME IInv, RInv, Counts,
           Skip \/ OrderRefused \/ Ordered \/ Failed \/ SaveFails \/ Deploy
    PROVE  Counts'
<1>1. /\ pc \in {"orders"} \union Storage /\ next \in Cert /\ UNCHANGED rc
      /\ next \in due => rc[next] # None
  BY DEF Skip, OrderRefused, Ordered, Failed, Ordering, SaveFails, Deploy, Storage, IInv, Types,
         RInv, Phases
<1>2. next \in due \/ Skip
  BY DEF OrderRefused, Ordered, Failed, Ordering, SaveFails, Deploy, RInv, Phases, Storage
<1>3. CASE next \in Pending /\ \E result \in {"renewed", "skipped", "failed"} : Counted(result)
  BY <1>1, <1>3, CountedCounts DEF Pending
<1>4. CASE pc' = "save" /\ UNCHANGED <<next, count>>
  BY <1>1, <1>4 DEF Counts, Before, Storage
<1>5. CASE pc = "orders" /\ pc' = pc /\ next' = next + 1 /\ UNCHANGED count
  <2>1. N \in Nat /\ next \in Nat /\ count \in [renewed : 0..N, skipped : 0..N, failed : 0..N]
    BY <1>1, NAssumption DEF Cert, Counts
  <2>2. /\ Cardinality(Visited(rc, next)) <= Cardinality(Visited(rc, next + 1))
        /\ Cardinality(Visited(rc, next)) \in 0..N
        /\ Cardinality(Visited(rc, next + 1)) \in 0..N
    BY <2>1, Going
  <2>3. /\ count.failed <= Cardinality(Visited(rc, next + 1))
        /\ count.renewed < next + 1 /\ count.skipped < next + 1
    BY <1>5, <2>1, <2>2 DEF Counts
  <2>. QED  BY <1>1, <1>5, <2>1, <2>3 DEF Counts, Before, Storage
<1>. QED
  BY <1>1, <1>2, <1>3, <1>4, <1>5
     DEF Skip, OrderRefused, Ordered, Failed, SaveFails, Deploy, Pending

LEMMA OtherCounts ==
    ASSUME IInv, RInv, Counts,
           \/ Start \/ Decide \/ PreHook
           \/ SaveCertificate \/ SaveSettings \/ OrdersDone \/ PostHook \/ Report
    PROVE  Counts'
<1>. USE DEF Before, Storage
<1>1. N \in Nat
  BY NAssumption
<1>2. CASE Start
  <2>1. count' = [renewed |-> 0, skipped |-> 0, failed |-> 0]
    BY <1>2 DEF Start
  <2>2. count' \in [renewed : 0..N, skipped : 0..N, failed : 0..N]
    BY <1>1, <2>1
  <2>3. CASE pc' = "load" /\ next' = 1 /\ rc' = [c \in Cert |-> None]
    <3>1. Cardinality(Unread(rc', 1)) \in 0..N
      BY Going
    <3>2. count'.failed <= Cardinality(Unread(rc', next'))
      BY <1>1, <2>1, <2>3, <3>1
    <3>. QED  BY <2>1, <2>2, <2>3, <3>2 DEF Counts
  <2>4. CASE pc' = "orders" /\ args'.cmd = "issue" /\ next' = args'.domain
    <3>1. next' \in Cert /\ next' \in Nat /\ 0 < next'
      BY <1>1, <1>2, <2>4, OptionsAssumption DEF Start, Cert
    <3>2. Cardinality(Visited(rc', next')) \in 0..N
      BY <3>1, Going
    <3>3. count'.failed <= Cardinality(Visited(rc', next'))
      BY <1>1, <2>1, <3>2
    <3>. QED  BY <2>1, <2>2, <2>4, <3>1, <3>3 DEF Counts
  <2>. QED  BY <1>2, <2>3, <2>4 DEF Start
<1>3. CASE Decide
  <2>1. pc = "decide" /\ pc' \in {"decide", "pre"} /\ UNCHANGED <<rc, count>>
    BY <1>3 DEF Decide, At
  <2>. QED  BY <2>1 DEF Counts
<1>4. CASE PreHook
  <2>1. pc = "pre" /\ pc' = "orders" /\ UNCHANGED <<next, rc, count>> /\ next = 1
    BY <1>4 DEF PreHook, RunHook, RInv, Phases
  <2>2. count.renewed < next /\ count.skipped < next
    BY <2>1 DEF Counts
  <2>. QED  BY <2>1, <2>2 DEF Counts
<1>5. CASE SaveCertificate \/ SaveSettings
  <2>1. pc \in Storage /\ pc' \in Storage /\ UNCHANGED <<next, rc, count>>
    BY <1>5 DEF SaveCertificate, SaveSettings
  <2>. QED  BY <2>1 DEF Counts
<1>6. CASE OrdersDone \/ PostHook \/ Report
  <2>1. pc' \in After /\ UNCHANGED count
    BY <1>1, <1>6 DEF OrdersDone, At, PostHook, RunHook, Report, After, RInv, Phases
  <2>. QED  BY <2>1 DEF Counts, After
<1>. QED  BY <1>2, <1>3, <1>4, <1>5, <1>6

LEMMA HistoryStep ==
    ASSUME IInv, RInv, Histories, [Next]_vars
    PROVE  Histories'
<1>. USE DEF Histories, disk, given
<1>1. \A url \in Url : url.base \in STRING
  BY DEF Url
<1>2. CASE Start
  <2>1. UNCHANGED <<accounts, torn>> /\ life' \in [Cert -> Life] /\ runs' \in 0..MaxRuns
        /\ port' = FALSE
    BY <1>2, OptionsAssumption, NAssumption DEF Start
  <2>. QED  BY <2>1
<1>3. CASE Ordered \/ Failed
  <2>1. next \in due /\ UNCHANGED <<life, runs, torn>>
        /\ accounts' \subseteq accounts \union {Base}
    BY <1>3 DEF Ordered, Failed, Ordering
  <2>2. rc[next].server \in Url
    BY <2>1 DEF IInv, Types
  <2>3. port' \in BOOLEAN
    BY <1>3 DEF Ordered, Failed
  <2>. QED  BY <1>1, <2>1, <2>2, <2>3 DEF Base
<1>4. CASE SaveCertificate \/ SaveSettings
  <2>1. next \in Cert
    BY <1>4 DEF SaveCertificate, SaveSettings, RInv, Phases, Storage, IInv, Types
  <2>. QED  BY <1>4, <2>1 DEF SaveCertificate, SaveSettings
<1>5. CASE Register
  <2>1. PICK flags \in Options :
           Resolved[flags] # None /\ accounts' = accounts \union {Resolved[flags].directory.base}
    BY <1>5 DEF Register
  <2>2. Resolved[flags].directory \in Url
    BY <2>1, Resolving
  <2>. QED  BY <1>1, <1>5, <2>1, <2>2 DEF Register
<1>6. CASE \/ Load \/ Decide \/ PreHook \/ Skip \/ OrderRefused \/ SaveFails \/ Deploy
           \/ OrdersDone \/ PostHook \/ Report \/ Crash \/ UNCHANGED vars
  BY <1>6 DEF Load, Decide, PreHook, Skip, OrderRefused, SaveFails, Deploy, OrdersDone,
              PostHook, RunHook, Report, Crash, vars
<1>. QED  BY <1>2, <1>3, <1>4, <1>5, <1>6 DEF Next

(***************************************************************************)
(* The variables have their types; with it, a summary never counts a       *)
(* certificate twice in one column.                                        *)
(***************************************************************************)
THEOREM TypeCorrect == Spec => []TypeOK
<1>1. Init => Counts
  <2>1. SUFFICES ASSUME Init PROVE Counts
    OBVIOUS
  <2>2. pc = "idle" /\ count = [renewed |-> 0, skipped |-> 0, failed |-> 0]
    BY <2>1 DEF Init
  <2>. QED  BY <2>2, NAssumption DEF Counts, Before, Storage
<1>2. Init => Histories
  <2>1. SUFFICES ASSUME Init PROVE Histories
    OBVIOUS
  <2>2. PICK stored \in [Cert -> Initial] :
           /\ issuer = [c \in Cert |-> stored[c].issuer]
           /\ accounts = {issuer[c].base : c \in {d \in Cert : issuer[d] # None}}
    BY <2>1 DEF Init
  <2>3. \A c \in Cert : issuer[c] # None => issuer[c].base \in STRING
    <3>1. \A c \in Cert : stored[c].issuer \in Url \union {None}
      BY <2>2, StoredAssumption DEF Stored
    <3>. QED  BY <2>2, <3>1 DEF Url
  <2>4. life \in [Cert -> Life]
    BY <2>1, OptionsAssumption DEF Init
  <2>5. runs = 0 /\ torn = {} /\ port \in BOOLEAN
    BY <2>1 DEF Init
  <2>6. accounts \subseteq STRING
    BY <2>2, <2>3
  <2>7. runs \in 0..MaxRuns
    BY <2>5, NAssumption
  <2>. QED  BY <2>4, <2>5, <2>6, <2>7, Zenon DEF Histories
<1>3. ASSUME IInv, RInv, Counts, [Next]_vars PROVE Counts'
  <2>1. CASE Crash \/ Register \/ UNCHANGED vars
    BY <1>3, <2>1 DEF Crash, Register, vars, Counts, Before, Storage
  <2>. QED  BY <1>3, <2>1, LoadCounts, OrderCounts, OtherCounts DEF Next
<1>4. IInv /\ RInv /\ Counts /\ Histories => TypeOK
  BY DEF IInv, Types, RInv, Phases, Hooks, Counts, Histories, TypeOK, Before, Storage,
         After, Ended
<1>. QED
  BY <1>1, <1>2, <1>3, <1>4, HistoryStep, Invariant, RunInvariant, PTL DEF Spec

=============================================================================
