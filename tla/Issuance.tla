------------------------------ MODULE Issuance ------------------------------
(***************************************************************************)
(* issue_certificate up to the download: the order, its authorizations,    *)
(* the dns-01 or http-01 challenges, finalization, and the environment it  *)
(* depends on: the CA, which validates and issues on its own, and the DNS, *)
(* where a published record becomes visible later.                         *)
(*                                                                         *)
(* A request is one step: the HEAD for a fresh nonce and the POST.  It may *)
(* fail on the way there or on the way back, or never come back; none is   *)
(* repeated, except that the two polls take an HTTP error for "not yet".   *)
(***************************************************************************)
EXTENDS Integers, Sequences, SequencesExt

CONSTANTS
    N,          \* the number of authorizations of the order
    Options,    \* the settings a certificate may have
    Offers,     \* the sets of authorizations that may offer the challenge
    Faulty,     \* the sets of faults, of Kind, that may happen together
    Replies,    \* the replies to a download there may be
    MaxPoll,    \* 30 requests of poll_challenge
    MaxOrder    \* 60 requests of poll_order

Auth == 1..N

\* --dns-timeout is positive and there is a resolver; --dnssleep is positive;
\* --preferred-chain is given.
Option == [challenge : {"dns-01", "http-01"}, polls : BOOLEAN, sleeps : BOOLEAN,
           prefers : BOOLEAN]

(***************************************************************************)
(* The CA has chains 0 (the default), 1, 2, ... for the certificate.  The  *)
(* reply to a download holds chain 0 and Link headers, each of which lists *)
(* some of the others as alternates; `wanted` are the chains whose last    *)
(* certificate has the preferred issuer.                                   *)
(***************************************************************************)
Reply == [wanted : SUBSET Nat, links : Seq(Seq(Nat \ {0}))]

Kind == {"net", "silence", "ca", "dns", "provider", "crash"}

ASSUME NAssumption == N \in Nat
ASSUME BudgetAssumption == MaxPoll \in Nat /\ MaxOrder \in Nat
ASSUME OptionsAssumption ==
    Options \subseteq Option /\ Offers \subseteq SUBSET Auth /\ Faulty \subseteq SUBSET Kind
ASSUME RepliesAssumption == Replies \subseteq Reply

VARIABLES
    rc,         \* the settings of this certificate
    offered,    \* the authorizations that offer rc.challenge
    faults,     \* the faults of this behaviour
    pc,         \* where issue_certificate is
    next,       \* the authorization it is at
    tries,      \* the polls made
    snapshot,   \* the status get_authorizations read
    then,       \* where it goes from the end of the iteration
    located,    \* the reply to finalize names the order
    reply,      \* the reply to the download
    link,       \* the alternate link it is at
    chain,      \* the chain it returns
    authz,      \* at the CA: the status of each authorization
    order,      \* at the CA: the status of the order
    published,  \* the challenge responses that are published
    visible,    \* those a resolver, or the CA, sees
    proved,     \* history: the authorizations the client knows to be valid
    orphans     \* history: the records a failed provider call left behind

given == <<rc, offered, faults>>
fetched == <<reply, link, chain>>
client == <<pc, next, tries, snapshot, then, located, fetched>>
history == <<proved, orphans>>
vars == <<given, client, authz, order, published, visible, history>>

TypeOK ==
    /\ rc \in Option /\ offered \subseteq Auth /\ faults \subseteq Kind
    /\ pc \in {"begin", "order", "auths", "listen", "next", "wait", "signal",
               "poll", "drop", "finalize", "await", "download", "alternates",
               "ok", "error", "crashed", "silent"}
    /\ next \in 1..(N + 1)
    /\ tries \in 0..MaxPoll \union 0..MaxOrder
    /\ snapshot \in [Auth -> {"pending", "valid"}]
    /\ then \in {"next", "error"}
    /\ located \in BOOLEAN
    /\ reply \in Reply /\ link \in Nat \ {0} /\ chain \in Nat
    /\ authz \in [Auth -> {"pending", "processing", "valid", "invalid"}]
    /\ order \in {"none", "pending", "processing", "valid", "invalid"}
    /\ published \subseteq Auth /\ visible \subseteq Auth
    /\ proved \subseteq Auth /\ orphans \subseteq Auth

(***************************************************************************)
(* The CA may remember that a domain was proved in an earlier order.       *)
(***************************************************************************)
Init ==
    /\ rc \in Options /\ offered \in Offers /\ faults \in Faulty
    /\ pc = "begin" /\ next = 1 /\ tries = 0
    /\ snapshot = [a \in Auth |-> "pending"]
    /\ then = "next" /\ located = TRUE
    /\ reply = [wanted |-> {}, links |-> << >>] /\ link = 1 /\ chain = 0
    /\ authz \in [Auth -> {"pending", "valid"}]
    /\ order = "none"
    /\ published = {} /\ visible = {}
    /\ proved = {} /\ orphans = {}

Goto(from, to) == pc = from /\ pc' = to

Ended == {"ok", "error", "crashed"}

(***************************************************************************)
(* The end of an iteration, by continuing with the next authorization or   *)
(* by an error: the guard of dns-01 is dropped on the way, see Drop.       *)
(***************************************************************************)
Leave(from, to) == Goto(from, "drop") /\ then' = to

-----------------------------------------------------------------------------

(***************************************************************************)
(* load_or_register, directory::fetch, create_order, get_authorizations.   *)
(* A dns-01 provider that is unknown, or lacks a credential, ends it here. *)
(***************************************************************************)
Begin ==
    /\ \/ Goto("begin", "order")
       \/ "net" \in faults /\ Goto("begin", "error")
    /\ UNCHANGED <<next, tries, snapshot, then, located, authz, order,
                   published, visible, history, given, fetched>>

CreateOrder ==
    /\ \/ Goto("order", "auths") /\ order' = "pending"
       \/ "net" \in faults /\ Goto("order", "error") /\ order' \in {"none", "pending"}
    /\ UNCHANGED <<next, tries, snapshot, then, located, authz,
                   published, visible, history, given, fetched>>

GetAuthorization ==
    /\ next \in Auth
    /\ \/ /\ Goto("auths", "auths")
          /\ snapshot' = [snapshot EXCEPT ![next] = authz[next]]
          /\ next' = next + 1
       \/ "net" \in faults /\ Goto("auths", "error") /\ UNCHANGED <<snapshot, next>>
    /\ UNCHANGED <<tries, then, located, authz, order, published, visible, history, given, fetched>>

GotAuthorizations ==
    /\ next = N + 1 /\ next' = 1
    /\ \/ Goto("auths", IF rc.challenge = "http-01" THEN "listen" ELSE "next")
       \/ /\ rc.challenge = "dns-01" /\ "provider" \in faults
          /\ Goto("auths", "error")
    /\ UNCHANGED <<tries, snapshot, then, located, authz, order,
                   published, visible, history, given, fetched>>

-----------------------------------------------------------------------------

Needed == {a \in Auth : snapshot[a] # "valid"}

(***************************************************************************)
(* http-01: all responses are served from here on; port 80 may be taken.   *)
(***************************************************************************)
\* Mutant: only the first response is served.
ListenFirst ==
    /\ Needed \subseteq offered
    /\ Goto("listen", "next")
    /\ published' = {a \in Needed : \A b \in Needed : a <= b} /\ visible' = published'
    /\ UNCHANGED <<next, tries, snapshot, then, located, authz, order, history, given, fetched>>

Listen ==
    /\ Needed \subseteq offered
    /\ Goto("listen", "next")
    /\ published' = Needed /\ visible' = Needed
    /\ UNCHANGED <<next, tries, snapshot, then, located, authz, order, history, given, fetched>>

ListenFails ==
    /\ ~(Needed \subseteq offered) \/ "net" \in faults
    /\ Goto("listen", "error")
    /\ UNCHANGED <<next, tries, snapshot, then, located, authz, order,
                   published, visible, history, given, fetched>>

Skip ==
    /\ pc = "next" /\ next \in Auth \ Needed
    /\ next' = next + 1
    /\ proved' = proved \union {next}
    /\ UNCHANGED <<pc, tries, snapshot, then, located, authz, order,
                   published, visible, orphans, given, fetched>>

(***************************************************************************)
(* http-01 goes straight to the signal; dns-01 adds the record first.  A   *)
(* provider that reports an error may have added it: there is no guard yet *)
(* and it stays.                                                           *)
(***************************************************************************)
Served ==
    /\ rc.challenge = "http-01" /\ next \in Needed
    /\ Goto("next", "signal")
    /\ UNCHANGED <<next, tries, snapshot, then, located, authz, order,
                   published, visible, history, given, fetched>>

\* Mutant: `let _ = Cleanup { .. }` drops the guard at once.
AddTxtUnguarded ==
    /\ rc.challenge = "dns-01" /\ next \in Needed \intersect offered
    /\ Goto("next", "wait")
    /\ UNCHANGED <<next, tries, snapshot, then, located, authz, order,
                   published, visible, history, given, fetched>>

AddTxt ==
    /\ rc.challenge = "dns-01" /\ next \in Needed \intersect offered
    /\ Goto("next", "wait")
    /\ published' = published \union {next}
    /\ UNCHANGED <<next, tries, snapshot, then, located, authz, order,
                   visible, history, given, fetched>>

AddTxtFails ==
    /\ rc.challenge = "dns-01" /\ next \in Needed
    /\ Goto("next", "error")
    /\ \/ /\ next \notin offered \/ "provider" \in faults
          /\ UNCHANGED <<published, orphans>>
       \/ /\ next \in offered /\ "provider" \in faults
          /\ published' = published \union {next}
          /\ orphans' = orphans \union {next}
    /\ UNCHANGED <<next, tries, snapshot, then, located, authz, order,
                   visible, proved, given, fetched>>

(***************************************************************************)
(* wait_for_propagation: poll_txt sees the value, or runs into its         *)
(* timeout, either because the resolvers do not have it or because they do *)
(* not answer.  Then, and without a poll, it sleeps if it may.             *)
(***************************************************************************)
\* Mutant: the poll's timeout is ignored.
PollSeesNothing ==
    /\ Goto("wait", "signal")
    /\ UNCHANGED <<next, tries, snapshot, then, located, authz, order,
                   published, visible, history, given, fetched>>

PollSees ==
    /\ rc.polls /\ next \in visible
    /\ Goto("wait", "signal")
    /\ UNCHANGED <<next, tries, snapshot, then, located, authz, order,
                   published, visible, history, given, fetched>>

\* Mutant: the process exits, without unwinding, when the poll times out.
PollTimesOutExits ==
    /\ rc.polls
    /\ Goto("wait", "error")
    /\ UNCHANGED <<next, tries, snapshot, then, located, authz, order,
                   published, visible, history, given, fetched>>

PollTimesOut ==
    /\ rc.polls
    /\ next \notin visible \/ "dns" \in faults
    /\ IF rc.sleeps THEN Goto("wait", "signal") /\ UNCHANGED then
                 ELSE Leave("wait", "error")
    /\ UNCHANGED <<next, tries, snapshot, located, authz, order,
                   published, visible, history, given, fetched>>

SleepOnly ==
    /\ ~rc.polls
    /\ Goto("wait", "signal")
    /\ UNCHANGED <<next, tries, snapshot, then, located, authz, order,
                   published, visible, history, given, fetched>>

(***************************************************************************)
(* respond_to_challenge.  The CA takes the response to a pending           *)
(* authorization; the loop comes to each once.                             *)
(***************************************************************************)
Responded == [authz EXCEPT ![next] = IF @ = "pending" THEN "processing" ELSE @]

Respond ==
    /\ Goto("signal", "poll")
    /\ tries' = 0
    /\ authz' = Responded
    /\ UNCHANGED <<next, snapshot, then, located, order, published, visible, history, given, fetched>>

RespondFails ==
    /\ "net" \in faults
    /\ Leave("signal", "error")
    /\ authz' \in {authz, Responded}
    /\ UNCHANGED <<next, tries, snapshot, located, order, published, visible, history, given, fetched>>

(***************************************************************************)
(* poll_challenge                                                          *)
(***************************************************************************)
\* Mutant: only "invalid" is told from the rest.
PollValidUnlessInvalid ==
    /\ Leave("poll", "next")
    /\ tries < MaxPoll /\ authz[next] # "invalid"
    /\ proved' = proved \union {next}
    /\ UNCHANGED <<next, tries, snapshot, located, authz, order, published, visible,
                   orphans, given, fetched>>

PollValid ==
    /\ Leave("poll", "next")
    /\ tries < MaxPoll /\ authz[next] = "valid"
    /\ proved' = proved \union {next}
    /\ UNCHANGED <<next, tries, snapshot, located, authz, order, published, visible,
                   orphans, given, fetched>>

\* Mutant: an attempt is not counted.
PollAgainUncounted ==
    /\ Goto("poll", "poll")
    /\ tries < MaxPoll
    /\ authz[next] = "processing" \/ "net" \in faults
    /\ UNCHANGED <<next, tries, snapshot, then, located, authz, order, published,
                   visible, history, given, fetched>>

PollAgain ==
    /\ Goto("poll", "poll")
    /\ tries < MaxPoll
    /\ authz[next] = "processing" \/ "net" \in faults
    /\ tries' = tries + 1
    /\ UNCHANGED <<next, snapshot, then, located, authz, order, published, visible,
                   history, given, fetched>>

PollFails ==
    /\ Leave("poll", "error")
    /\ tries = MaxPoll \/ authz[next] = "invalid" \/ "net" \in faults
    /\ UNCHANGED <<next, tries, snapshot, located, authz, order, published, visible,
                   history, given, fetched>>

(***************************************************************************)
(* Drop of the guard: remove_txt, whose error is ignored.  http-01 has no  *)
(* guard, its listener serves until the process ends.                      *)
(***************************************************************************)
Drop ==
    /\ Goto("drop", then)
    /\ next' = IF then = "next" THEN next + 1 ELSE next
    /\ published' = IF rc.challenge = "dns-01" THEN published \ {next} ELSE published
    /\ UNCHANGED <<tries, snapshot, then, located, authz, order, visible, history, given, fetched>>

DropFails ==
    /\ rc.challenge = "dns-01" /\ "provider" \in faults
    /\ Goto("drop", then)
    /\ next' = IF then = "next" THEN next + 1 ELSE next
    /\ orphans' = orphans \union {next}
    /\ UNCHANGED <<tries, snapshot, then, located, authz, order, published, visible,
                   proved, given, fetched>>

-----------------------------------------------------------------------------

(***************************************************************************)
(* finalize_order: the CA takes the CSR if every authorization is valid.   *)
(* Its reply names the order in Location, or in a url member; if it does   *)
(* neither, poll_order asks the finalize URL, which is an HTTP error.      *)
(***************************************************************************)
Challenged ==
    /\ next = N + 1
    /\ Goto("next", "finalize")
    /\ UNCHANGED <<next, tries, snapshot, then, located, authz, order,
                   published, visible, history, given, fetched>>

Ready == order = "pending" /\ \A a \in Auth : authz[a] = "valid"

Finalize ==
    /\ Ready
    /\ Goto("finalize", "await")
    /\ tries' = 0
    /\ order' = "processing"
    /\ located' \in IF "ca" \in faults THEN BOOLEAN ELSE {TRUE}
    /\ UNCHANGED <<next, snapshot, then, authz, published, visible, history, given, fetched>>

FinalizeFails ==
    /\ ~Ready \/ "net" \in faults
    /\ Goto("finalize", "error")
    /\ order' \in {order, IF Ready THEN "processing" ELSE order}
    /\ UNCHANGED <<next, tries, snapshot, then, located, authz, published, visible,
                   history, given, fetched>>

(***************************************************************************)
(* poll_order, download_cert_with_preferred                                *)
(***************************************************************************)
OrderValid ==
    /\ Goto("await", "download")
    /\ tries < MaxOrder /\ located /\ order = "valid"
    /\ UNCHANGED <<next, tries, snapshot, then, located, authz, order,
                   published, visible, history, given, fetched>>

OrderAgain ==
    /\ Goto("await", "await")
    /\ tries < MaxOrder
    /\ ~located \/ order = "processing" \/ "net" \in faults
    /\ tries' = tries + 1
    /\ UNCHANGED <<next, snapshot, then, located, authz, order,
                   published, visible, history, given, fetched>>

\* Mutant: "processing" is an error, too.
OrderFailsEarly ==
    /\ Goto("await", "error")
    /\ tries = MaxOrder \/ (located /\ order # "valid") \/ "net" \in faults
    /\ UNCHANGED <<next, tries, snapshot, then, located, authz, order,
                   published, visible, history, given, fetched>>

OrderFails ==
    /\ Goto("await", "error")
    /\ tries = MaxOrder \/ (located /\ order = "invalid") \/ "net" \in faults
    /\ UNCHANGED <<next, tries, snapshot, then, located, authz, order,
                   published, visible, history, given, fetched>>

(***************************************************************************)
(* download_cert_with_preferred: the default chain is returned unless      *)
(* another is preferred.  extract_response keeps one header of each name,  *)
(* the last, so alternate_links sees that one only.  A reply with an error *)
(* status is passed over; a request without reply ends the issuance, the   *)
(* default chain in hand or not.                                           *)
(***************************************************************************)
AlternateLinks == IF reply.links = << >> THEN << >> ELSE Last(reply.links)

Download ==
    /\ \/ /\ "net" \in faults /\ Goto("download", "error")
          /\ UNCHANGED reply
       \/ /\ ~rc.prefers /\ Goto("download", "ok")
          /\ UNCHANGED reply
       \/ /\ rc.prefers /\ reply' \in Replies
          /\ Goto("download", IF 0 \in reply'.wanted THEN "ok" ELSE "alternates")
    /\ UNCHANGED <<next, tries, snapshot, then, located, link, chain, authz, order,
                   published, visible, history, given>>

\* Mutant: any alternate that can be downloaded is taken.
FetchFirstAlternate ==
    /\ pc = "alternates" /\ link \in DOMAIN AlternateLinks
    /\ pc' = "ok" /\ chain' = AlternateLinks[link]
    /\ UNCHANGED <<next, tries, snapshot, then, located, reply, link, authz, order,
                   published, visible, history, given>>

FetchAlternate ==
    /\ link \in DOMAIN AlternateLinks
    /\ \/ /\ AlternateLinks[link] \in reply.wanted
          /\ Goto("alternates", "ok")
          /\ chain' = AlternateLinks[link] /\ UNCHANGED link
       \/ /\ AlternateLinks[link] \notin reply.wanted \/ "net" \in faults
          /\ Goto("alternates", "alternates")
          /\ link' = link + 1 /\ UNCHANGED chain
       \/ /\ "net" \in faults /\ Goto("alternates", "error")
          /\ UNCHANGED <<link, chain>>
    /\ UNCHANGED <<next, tries, snapshot, then, located, reply, authz, order,
                   published, visible, history, given>>

NoMoreAlternates ==
    /\ link \notin DOMAIN AlternateLinks
    /\ Goto("alternates", "ok")
    /\ UNCHANGED <<next, tries, snapshot, then, located, fetched, authz, order,
                   published, visible, history, given>>

(***************************************************************************)
(* The HTTP agent has no timeout: a server, of the CA or of a provider,    *)
(* that takes a connection and stays silent holds the process, whether or  *)
(* not it has done what it was asked to.                                   *)
(***************************************************************************)
Asks ==
    \/ pc \in {"begin", "download"}
    \/ pc = "auths" /\ next \in Auth
    \/ pc = "poll" /\ tries < MaxPoll
    \/ pc = "await" /\ tries < MaxOrder
    \/ pc = "alternates" /\ link \in DOMAIN AlternateLinks

Silent ==
    /\ "silence" \in faults
    /\ pc' = "silent"
    /\ \/ Asks /\ UNCHANGED <<authz, order, published>>
       \/ /\ pc = "order" /\ order' \in {order, "pending"}
          /\ UNCHANGED <<authz, published>>
       \/ /\ pc = "signal" /\ authz' \in {authz, Responded}
          /\ UNCHANGED <<order, published>>
       \/ /\ pc = "finalize" /\ order' \in {order, IF Ready THEN "processing" ELSE order}
          /\ UNCHANGED <<authz, published>>
       \/ /\ rc.challenge = "dns-01"
          /\ \/ /\ pc = "next" /\ next \in Needed \intersect offered
                /\ published' \in {published, published \union {next}}
             \/ pc = "drop" /\ published' \in {published, published \ {next}}
          /\ UNCHANGED <<authz, order>>
    /\ UNCHANGED <<next, tries, snapshot, then, located, fetched, visible, history, given>>

Crash ==
    /\ "crash" \in faults
    /\ pc \notin Ended
    /\ pc' = "crashed"
    /\ UNCHANGED <<next, tries, snapshot, then, located, authz, order,
                   published, visible, history, given, fetched>>

-----------------------------------------------------------------------------

(***************************************************************************)
(* The CA and the DNS.  A fault of the CA is to reject what is visible.    *)
(***************************************************************************)
Validate(a) ==
    /\ authz[a] = "processing"
    /\ \/ a \in visible /\ authz' = [authz EXCEPT ![a] = "valid"]
       \/ /\ a \notin visible \/ "ca" \in faults
          /\ authz' = [authz EXCEPT ![a] = "invalid"]
    /\ UNCHANGED <<client, order, published, visible, history, given>>

Issue ==
    /\ order = "processing"
    /\ \/ order' = "valid"
       \/ "ca" \in faults /\ order' = "invalid"
    /\ UNCHANGED <<client, authz, published, visible, history, given>>

Propagate ==
    /\ visible # published
    /\ visible' = published
    /\ UNCHANGED <<client, authz, order, published, history, given>>

-----------------------------------------------------------------------------

Client ==
    \/ Begin \/ CreateOrder \/ GetAuthorization \/ GotAuthorizations
    \/ Listen \/ ListenFails \/ Skip \/ Served \/ AddTxt \/ AddTxtFails
    \/ PollSees \/ PollTimesOut \/ SleepOnly \/ Respond \/ RespondFails
    \/ PollValid \/ PollAgain \/ PollFails \/ Drop \/ DropFails
    \/ Challenged \/ Finalize \/ FinalizeFails
    \/ OrderValid \/ OrderAgain \/ OrderFails
    \/ Download \/ FetchAlternate \/ NoMoreAlternates

Environment == Issue \/ Propagate \/ \E a \in Auth : Validate(a)

Next == Client \/ Silent \/ Crash \/ Environment

Spec == Init /\ [][Next]_vars

(***************************************************************************)
(* The client goes on as long as it is not in a request that stays without *)
(* an answer: its sleeps end, and so do its DNS queries, whose socket has  *)
(* a read timeout.                                                         *)
(***************************************************************************)
FairSpec == Spec /\ WF_vars(Client)

-----------------------------------------------------------------------------

Waiting == pc \in {"signal", "poll"}

(***************************************************************************)
(* From the signal to the verdict the response stays published: the CA,    *)
(* which looks at a time of its own, can find it as long as the process    *)
(* waits for its answer.                                                   *)
(***************************************************************************)
PublishedWhileWaiting == Waiting => next \in published

(***************************************************************************)
(* However issue_dns_challenges ends, by success, error or timeout, it     *)
(* leaves no record, except those the provider failed to add or remove.    *)
(***************************************************************************)
NoRecordLeft ==
    rc.challenge = "dns-01" /\ pc \in {"finalize", "await", "download",
                                 "alternates", "ok", "error"}
        => published \subseteq orphans

(***************************************************************************)
(* The order is finalized only when the CA holds every authorization for   *)
(* valid: the CA never refuses it as not ready.                            *)
(***************************************************************************)
FinalizedWhenReady == pc = "finalize" => Ready

(***************************************************************************)
(* Without --dnssleep, a CA that sees what the resolvers see has no reason *)
(* to reject an authorization: nothing is signalled before it was seen.    *)
(***************************************************************************)
SignalledIsAccepted ==
    Waiting /\ rc.polls /\ ~rc.sleeps /\ "ca" \notin faults => authz[next] # "invalid"

(***************************************************************************)
(* A certificate the CA issued is lost only to a failed request, a reply   *)
(* that does not name the order, or the end of the poll's budget.          *)
(***************************************************************************)
IssuedIsDelivered ==
    pc = "error" /\ order = "valid" => "net" \in faults \/ ~located \/ tries = MaxOrder

(***************************************************************************)
(* --preferred-chain "SHALL select an alternate chain whose issuer matches *)
(* when the ACME server offers one": the chain returned is one, unless a   *)
(* request failed or those that match were only listed by Link headers     *)
(* before the last.                                                        *)
(***************************************************************************)
PreferredIsChosen ==
    pc = "ok" /\ rc.prefers /\ "net" \notin faults /\ chain \notin reply.wanted
        => /\ 0 \notin reply.wanted
           /\ reply.links # << >> => reply.wanted \intersect Range(Last(reply.links)) = {}

(***************************************************************************)
(* Every issuance ends, whatever the CA, the DNS and the provider answer,  *)
(* and gives the renewal lock back: only a server that answers nothing at  *)
(* all keeps it, and it does.                                              *)
(***************************************************************************)
IssuanceEnds == <>(pc \in Ended \union {"silent"})

(***************************************************************************)
(* An issuance is a proof of its domains one after the other; http-01 has  *)
(* no records.                                                             *)
(***************************************************************************)
Proof == INSTANCE DomainProof WITH
    Domain  <- Auth,
    record  <- IF rc.challenge = "dns-01" THEN published \ orphans ELSE {},
    outcome <- IF pc = "ok" THEN "certificate"
               ELSE IF pc \in {"error", "crashed"} THEN pc ELSE "open"

ProvesOneByOne == Proof!Spec

=============================================================================
