---------------------------- MODULE DnsProvider ----------------------------
(***************************************************************************)
(* add_txt and remove_txt of a DNS provider, request by request, between   *)
(* several ACME clients that answer challenges at the same name: acmers    *)
(* for a name and for its wildcard, in runs that hold no common lock, or   *)
(* on two hosts.  Every client adds a value of its own, waits for the      *)
(* validation, and removes it, as issue_dns_challenges does; the provider  *)
(* is any of Apis (ProviderTable) and the account hosts the zones of any   *)
(* of Layouts.                                                             *)
(*                                                                         *)
(* A request may be refused, may never arrive, or may be carried out while *)
(* its reply is lost.                                                      *)
(***************************************************************************)
EXTENDS Integers, Sequences

CONSTANTS
    Clients,    \* ACME clients, each stands for the value it publishes too
    Other,      \* a value at the challenge name that is nobody's here
    Spf,        \* the TXT value of the domain itself
    Apis,       \* the ways a provider works
    Layouts     \* the zones an account hosts

\* A zone is the number of labels of the domain in front of it: 0 is the
\* domain itself.  Unrelated is a zone the domain does not end with.
Unrelated == 99

ASSUME OtherAssumption == Other \notin Clients /\ Spf \notin Clients
ASSUME LayoutAssumption ==
    \A l \in Layouts :
        /\ l.labels \in Nat /\ l.registered \in Nat
        /\ l.listed \in Seq(Nat)
        /\ \E i \in DOMAIN l.listed : l.listed[i] # Unrelated

\* Ways to look for a zone that ask for one candidate name after another,
\* and take a refused request for the answer that the zone is not hosted.
Asking == {"asked", "askedAbove", "shortest"}

\* The words a provider is described with.  One that deletes what is not its
\* own at least checks that its own value has been added, and lists the zones
\* at once; one that deletes a set only if it holds its own value alone adds
\* only where there is no set.
ASSUME ApiAssumption ==
    \A a \in Apis :
        /\ a.add \in {"create", "replace", "set", "refuse", "merge", "probe",
                      "rezone", "rezoneOnly"}
        /\ a.remove \in {"nothing", "byValue", "findValue", "findName", "allOfName",
                         "ifSame", "rest", "merge", "rezone", "rezoneName", "twoWrites"}
        /\ a.remove = "rest" => a.answer = "checked" /\ a.zone \notin Asking
        /\ a.remove = "ifSame" => a.add = "set"

VARIABLES
    api,        \* how the provider works
    layout,     \* the zones the account hosts
    recs,       \* the TXT values at each place
    pc,         \* where each client is
    spot,       \* where each client's requests go, once it has a zone
    seen,       \* what each client read last
    failed,     \* clients one of whose requests failed
    raced       \* a client wrote between a read of another and its write

vars == <<api, layout, recs, pc, spot, seen, failed, raced>>

\* Where a record can end up: at the challenge name as resolvers see it, at
\* the domain itself, at another name of their zone, or in a zone that no
\* resolver is led to.
Places == {"challenge", "domain", "misnamed", "elsewhere"}
Value  == Clients \union {Other, Spf}
Blank  == [p \in Places |-> {}]

Steps == {"idle", "reading", "writing", "up", "finding", "deleting",
          "restoring", "left", "refused"}

TypeOK ==
    /\ api \in Apis /\ layout \in Layouts
    /\ recs \in [Places -> SUBSET Value]
    /\ pc \in [Clients -> Steps]
    /\ spot \in [Clients -> Places]
    /\ seen \in [Clients -> [Places -> SUBSET Value]]
    /\ failed \subseteq Clients
    /\ raced \in BOOLEAN

-----------------------------------------------------------------------------
(* Which zone, and which name in it                                        *)

Listed(l) == {l.listed[i] : i \in DOMAIN l.listed}
Hosted(l) == Listed(l) \ {Unrelated}

\* The smallest and the largest number of a set.
Least(S)    == CHOOSE z \in S : \A y \in S : z <= y
Greatest(S) == CHOOSE z \in S : \A y \in S : z >= y

\* The zone whose servers resolvers ask for the challenge name.
Authoritative(l) == Least(Hosted(l))

\* The hosted zones that each way to look for a zone accepts.
Accepted(how, l) ==
    CASE how = "given"      -> Hosted(l) \intersect {0}
      [] how \in {"longest", "asked", "suffix", "byName"} -> Hosted(l)
      [] how \in {"above", "askedAbove", "shortest"}      -> Hosted(l) \ {0}
      [] how = "twolabels"  -> Hosted(l) \intersect {l.labels - 2}
      [] how = "registered" -> Hosted(l) \intersect {l.registered}
      [] how = "split"      -> IF l.labels = 2 THEN Hosted(l) \intersect {0} ELSE {}
      [] how = "first"      -> Listed(l)
      [] OTHER              -> {}

\* The one it takes: suffix and first take the first in the order of the
\* account's listing, shortest the least specific, the others the most
\* specific.
ZoneOf(how, l) ==
    LET ok == Accepted(how, l)
    IN  IF how \in {"suffix", "first"}
        THEN l.listed[Least({i \in DOMAIN l.listed : l.listed[i] \in ok})]
        ELSE IF how = "shortest" THEN Greatest(ok)
        ELSE Least(ok)

\* The ones it may take instead after a refused request.
PassedOn(how, l) ==
    IF how \in Asking THEN Accepted(how, l) \ {ZoneOf(how, l)} ELSE {}

\* A record filed under the right name of the authoritative zone is seen; a
\* name cut short by the domain is right only if the domain is the zone.
PlaceOf(a, zone, l) ==
    IF zone # Authoritative(l) THEN "elsewhere"
    ELSE IF a.name = "full" \/ (a.name = "short" /\ zone = 0) THEN "challenge"
    ELSE IF a.name = "ofDomain" THEN "domain"
    ELSE "misnamed"

\* Where the provider puts a record if nothing fails.
Spot == PlaceOf(api, ZoneOf(api.zone, layout), layout)

\* What one write of c replaces: the values of the name, or all of the zone.
Scope(c) ==
    IF {api.add, api.remove} \intersect {"rezone", "rezoneOnly", "rezoneName"} = {}
    THEN {spot[c]}
    ELSE IF spot[c] = "elsewhere" THEN {"elsewhere"}
    ELSE Places \ {"elsewhere"}

Written(c, new) == [p \in Places |-> IF p \in Scope(c) THEN new[p] ELSE recs[p]]

Init ==
    /\ api \in Apis /\ layout \in Layouts
    /\ \E there \in {{}, {Other}} :
           recs = [Blank EXCEPT !.challenge = there, !.domain = {Spf}]
    /\ pc = [c \in Clients |-> "idle"]
    /\ spot = [c \in Clients |-> "elsewhere"]
    /\ seen = [c \in Clients |-> Blank]
    /\ failed = {} /\ raced = FALSE

-----------------------------------------------------------------------------
(* add_txt                                                                 *)

ReadsToAdd    == api.add \in {"merge", "probe", "rezone", "rezoneOnly"}
ReadsToRemove == api.remove \in
    {"findValue", "findName", "merge", "rezone", "rezoneName", "twoWrites", "rest"}

\* Clients that will write what they derive from an earlier read.
InWindow(d) ==
    \/ ReadsToAdd /\ pc[d] = "writing"
    \/ /\ api.remove \in {"merge", "rezone", "rezoneName", "twoWrites", "rest"}
       /\ pc[d] = "deleting"
    \/ pc[d] = "restoring"

Goto(c, step) == pc' = [pc EXCEPT ![c] = step]
Fault(c) == failed' = failed \union {c}

\* c writes new: others that have read before will write without knowing it.
Write(c, new) ==
    /\ recs' = new
    /\ raced' = (raced \/ \E d \in Clients \ {c} : InWindow(d))
    /\ UNCHANGED <<api, layout, spot, seen>>

\* A request of c changes nothing: refused, not sent, or never arrived.
NoWrite == UNCHANGED <<api, layout, recs, seen, raced>>

\* c looks the zone up and goes on to step with what it has found, the zone
\* it looks for or, after a refused request, perhaps another one.
FindsZone(c, step) ==
    /\ Goto(c, step)
    /\ \/ spot' = [spot EXCEPT ![c] = Spot] /\ UNCHANGED failed
       \/ \E zone \in PassedOn(api.zone, layout) :
              spot' = [spot EXCEPT ![c] = PlaceOf(api, zone, layout)] /\ Fault(c)

Served == api.add # "refuse" /\ Accepted(api.zone, layout) # {}

\* The zone is looked up; without one, or if the lookup fails altogether,
\* add_txt fails and nothing is removed later: the guard that removes exists
\* only after add_txt has succeeded.
AddStart(c) ==
    /\ pc[c] = "idle"
    /\ \/ Served /\ FindsZone(c, IF ReadsToAdd THEN "reading" ELSE "writing")
       \/ ~Served /\ Goto(c, "refused") /\ UNCHANGED <<failed, spot>>
       \/ Served /\ Goto(c, "refused") /\ Fault(c) /\ UNCHANGED spot
    /\ NoWrite

AddRead(c) ==
    /\ pc[c] = "reading"
    /\ seen' = [seen EXCEPT ![c] = recs]
    /\ Goto(c, "writing")
    /\ UNCHANGED <<api, layout, recs, spot, failed, raced>>

\* A read that fails ends add_txt, unless its answer is parsed as if the
\* zone were empty.
AddReadFails(c) ==
    /\ pc[c] = "reading"
    /\ Fault(c)
    /\ \/ Goto(c, "refused") /\ UNCHANGED seen
       \/ /\ api.read \in {"blind", "blindAdd"}
          /\ seen' = [seen EXCEPT ![c] = Blank]
          /\ Goto(c, "writing")
    /\ UNCHANGED <<api, layout, recs, spot, raced>>

\* What is at the places of the write once add_txt is carried out.
Added(c) ==
    LET With(known) == [known EXCEPT ![spot[c]] = @ \union {c}]
        Only(known) == [known EXCEPT ![spot[c]] = {c}]
    IN  Written(c,
          CASE api.add \in {"create", "set"} -> With(recs)
            [] api.add = "replace"           -> Only(recs)
            [] api.add = "rezoneOnly"        -> Only(seen[c])
            [] OTHER                         -> With(seen[c]))

\* A whole set of records is only created where there is none.
Accepts(c) ==
    /\ api.add = "set" => recs[spot[c]] = {}
    /\ api.add = "probe" /\ seen[c][spot[c]] = {} => recs[spot[c]] = {}

AddDone(c) ==
    /\ pc[c] = "writing" /\ Accepts(c)
    /\ Write(c, Added(c))
    /\ Goto(c, "up") /\ UNCHANGED failed

\* Carried out, but the reply is lost: add_txt fails.
AddReplyLost(c) ==
    /\ pc[c] = "writing" /\ Accepts(c)
    /\ Write(c, Added(c))
    /\ Goto(c, "refused") /\ Fault(c)

\* Mutant: the status of the answer is not looked at.
AddRefusedUnseen(c) ==
    /\ pc[c] = "writing"
    /\ Goto(c, "up") /\ UNCHANGED <<failed, spot>>
    /\ NoWrite

AddRefused(c) ==
    /\ pc[c] = "writing"
    /\ IF Accepts(c) THEN Fault(c) ELSE UNCHANGED failed
    /\ \/ Goto(c, "refused")
       \/ api.answer = "unchecked" /\ Goto(c, "up")
    /\ UNCHANGED spot
    /\ NoWrite

-----------------------------------------------------------------------------
(* remove_txt                                                              *)

\* Mutant: a zone that is not found again is taken for nothing to remove.
RemoveStartQuiet(c) ==
    /\ pc[c] = "up"
    /\ Goto(c, IF ZoneOf(api.zone, layout) = 0 THEN "deleting" ELSE "left")
    /\ UNCHANGED <<failed, spot>>
    /\ NoWrite

\* The challenge is over, one way or another; the zone is looked up again.
RemoveStart(c) ==
    /\ pc[c] = "up"
    /\ \/ FindsZone(c, IF ReadsToRemove THEN "finding" ELSE "deleting")
       \/ Goto(c, "left") /\ Fault(c) /\ UNCHANGED spot
    /\ NoWrite

Find(c) ==
    /\ pc[c] = "finding"
    /\ seen' = [seen EXCEPT ![c] = recs]
    /\ Goto(c, "deleting")
    /\ UNCHANGED <<api, layout, recs, spot, failed, raced>>

FindFails(c) ==
    /\ pc[c] = "finding"
    /\ Fault(c)
    /\ \/ Goto(c, "left") /\ UNCHANGED seen
       \/ /\ api.read \in {"blind", "blindRemove"}
          /\ seen' = [seen EXCEPT ![c] = Blank]
          /\ Goto(c, "deleting")
    /\ UNCHANGED <<api, layout, recs, spot, raced>>

\* Mutant: the value is left out of the request, or of the comparison.
WithoutAny(known, c, x) == [known EXCEPT ![spot[c]] = {}]

\* What is known, without the value x, or any, at the place c writes to.
Without(known, c, x) == [known EXCEPT ![spot[c]] = @ \ {x}]
Emptied(known, c)    == [known EXCEPT ![spot[c]] = {}]

\* The first record found of the name, in an order the service chooses.
FirstFound(c) ==
    IF seen[c][spot[c]] = {} THEN {recs}
    ELSE {Without(recs, c, x) : x \in seen[c][spot[c]]}

\* aws asks for the deletion of the record set without its own value, which
\* the service carries out only if that is the whole set it has.
RestDeleted(c) ==
    IF seen[c][spot[c]] \ {c} = recs[spot[c]] THEN Emptied(recs, c) ELSE recs

\* Whether c's value is at the place it removes from, as c has read it.
Finds(c) == c \in seen[c][spot[c]]

\* What may be there once the request of remove_txt is carried out.
Removed(c) ==
    CASE api.remove = "nothing"    -> {recs}
      [] api.remove = "byValue"    -> {Without(recs, c, c)}
      [] api.remove = "findValue"  -> {IF Finds(c) THEN Without(recs, c, c) ELSE recs}
      [] api.remove = "findName"   -> FirstFound(c)
      [] api.remove = "allOfName"  -> {Emptied(recs, c)}
      [] api.remove = "ifSame"     ->
             {IF recs[spot[c]] = {c} THEN Emptied(recs, c) ELSE recs}
      [] api.remove = "rest"       -> {RestDeleted(c)}
      [] api.remove = "rezoneName" -> {Written(c, Emptied(seen[c], c))}
      [] api.remove = "twoWrites"  -> {IF Finds(c) THEN Emptied(recs, c) ELSE recs}
      [] OTHER                     -> {Written(c, Without(seen[c], c, c))}

\* rcode0 deletes the whole set first and writes the rest of it back.
AfterDelete(c) ==
    IF api.remove = "twoWrites" /\ Finds(c) /\ seen[c][spot[c]] # {c}
    THEN "restoring" ELSE "left"

Delete(c) ==
    /\ pc[c] = "deleting"
    /\ \E new \in Removed(c) : Write(c, new)
    /\ \/ Goto(c, AfterDelete(c)) /\ UNCHANGED failed
       \/ Goto(c, "left") /\ Fault(c)

DeleteFails(c) ==
    /\ pc[c] = "deleting"
    /\ Goto(c, "left") /\ Fault(c) /\ UNCHANGED spot
    /\ NoWrite

Restore(c) ==
    /\ pc[c] = "restoring"
    /\ Write(c, [recs EXCEPT ![spot[c]] = seen[c][spot[c]] \ {c}])
    /\ Goto(c, "left")
    /\ UNCHANGED failed \/ Fault(c)

RestoreFails(c) ==
    /\ pc[c] = "restoring"
    /\ Goto(c, "left") /\ Fault(c) /\ UNCHANGED spot
    /\ NoWrite

Next == \E c \in Clients :
    \/ AddStart(c) \/ AddRead(c) \/ AddReadFails(c)
    \/ AddDone(c) \/ AddReplyLost(c) \/ AddRefused(c)
    \/ RemoveStart(c) \/ Find(c) \/ FindFails(c)
    \/ Delete(c) \/ DeleteFails(c) \/ Restore(c) \/ RestoreFails(c)

Spec == Init /\ [][Next]_vars

-----------------------------------------------------------------------------
(* Properties                                                              *)

\* Providers that name the one value they add and the one they remove.
Sparing(a) ==
    /\ a.add \in {"create", "set", "refuse"}
    /\ a.remove \in {"nothing", "byValue", "findValue", "ifSame"}

\* Providers whose requests say nothing of the values of others.
Overwriting(a) ==
    \/ a.add \in {"replace", "rezoneOnly"}
    \/ a.remove \in {"findName", "allOfName", "rezoneName"}

\* A failed read was, or may have been, taken for an empty zone.
Misread == api.read \in {"blind", "blindAdd", "blindRemove"} /\ failed # {}

\* When values of others may be lost: never with a Sparing provider, always
\* with an Overwriting one; with those that read and write back, after a
\* write in between or a misread, and while a deleted set is not yet, or
\* never, written back.
MayLose ==
    /\ ~Sparing(api)
    /\ \/ Overwriting(api)
       \/ raced
       \/ Misread
       \/ /\ api.remove = "twoWrites"
          /\ failed # {} \/ \E c \in Clients : pc[c] = "restoring"

\* A value, of this or another client, of the domain itself or of anybody,
\* disappears only in a step of the client it belongs to, whatever fails and
\* however the clients interleave, unless the provider MayLose it.
OnlyItsOwnerRemoves ==
    [][\A p \in Places : \A x \in recs[p] \ recs'[p] :
           MayLose' \/ (x \in Clients /\ pc'[x] # pc[x])]_vars

\* The zone c has found is the most specific one its account hosts: the
\* provider looks for that one, and no request of c was refused that it may
\* have taken for the answer that a zone is not hosted.
Aimed(c) ==
    /\ api.name = "full"
    /\ api.zone \in {"longest", "byName"} \/ (api.zone = "asked" /\ c \notin failed)

\* As long as a client waits for its validation its value is published: a
\* checked add_txt that returned Ok has added it, and no other client's
\* add_txt or remove_txt takes it away, whichever zones they have taken to be
\* the right one.  It is where resolvers look for it if the client has Aimed;
\* with a provider that tries one name after another a refused lookup of the
\* right one is enough for add_txt to return Ok for a record nobody sees.
UpMeansPublished ==
    \A c \in Clients :
        pc[c] = "up" /\ api.answer = "checked" /\ ~MayLose =>
            c \in recs[IF Aimed(c) THEN "challenge" ELSE spot[c]]

\* A client that is through, and none of whose requests failed, has left no
\* value behind, unless a client that read it writes it back, or the
\* provider does not remove it: remove_txt is no deletion at all, or takes
\* the first record of the name, whosever it is.
NothingLeft ==
    \A c \in Clients :
        pc[c] \in {"left", "refused"} /\ c \notin failed /\ ~raced
        /\ api.remove \notin {"nothing", "rest", "findName"} =>
            \A p \in Places : c \notin recs[p]

=============================================================================
