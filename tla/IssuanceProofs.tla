--------------------------- MODULE IssuanceProofs ---------------------------
(***************************************************************************)
(* Theorems about Issuance, for any number of authorizations, any poll     *)
(* budgets, both challenges and every combination of faults.               *)
(***************************************************************************)
EXTENDS Issuance, TLAPS

(***************************************************************************)
(* The inductive invariant: what each place of the program knows of the    *)
(* records it has published and of the authorizations it has behind it.    *)
(***************************************************************************)
InIteration == {"wait", "signal", "poll", "drop"}
InLoop == {"next"} \union InIteration
Proven == {"finalize", "await", "download", "alternates", "ok"}

IterationInv ==
    /\ pc \in InIteration => next \in Needed
    /\ pc = "listen" => next = 1

SnapshotInv ==
    /\ pc \in {"begin", "order", "auths"} => authz \in [Auth -> {"pending", "valid"}]
    /\ \A a \in Auth \ Needed : authz[a] = "valid"

ProvedInv ==
    /\ \A a \in proved : authz[a] = "valid"
    /\ pc \in {"begin", "order", "auths", "listen"} => proved = {}
    /\ pc \in InLoop =>
          /\ 1..(next - 1) \subseteq proved
          /\ proved \subseteq 1..next
          /\ pc # "drop" => next \notin proved
          /\ pc = "drop" /\ then = "next" => next \in proved
    /\ pc \in Proven => proved = Auth

OrderInv ==
    pc \in {"auths", "listen", "finalize"} \union InLoop => order = "pending"

DnsInv ==
    rc.challenge = "dns-01" =>
        /\ pc # "listen"
        /\ pc \in {"begin", "order", "auths"} => published = {} /\ orphans = {}
        /\ pc \in InIteration => next \in published /\ next \notin orphans
        /\ pc \in InLoop => orphans \subseteq 1..(next - 1)
        /\ published \subseteq
              orphans \union (IF pc \in InIteration \union {"crashed", "silent"}
                              THEN {next} ELSE {})

HttpInv ==
    rc.challenge = "http-01" /\ pc \in InLoop => Needed \subseteq published

IInv ==
    /\ TypeOK /\ IterationInv /\ SnapshotInv /\ ProvedInv /\ OrderInv
    /\ DnsInv /\ HttpInv

LEMMA InitIInv == Init => IInv
<1>. SUFFICES ASSUME Init PROVE IInv
  OBVIOUS
<1>. USE NAssumption, BudgetAssumption, OptionsAssumption DEF Init, Option
<1>1. TypeOK
  <2>1. reply \in Reply
    BY DEF Reply
  <2>. QED  BY <2>1 DEF TypeOK, Auth
<1>2. IterationInv /\ ProvedInv /\ OrderInv /\ DnsInv /\ HttpInv
  BY DEF IterationInv, ProvedInv, OrderInv, DnsInv, HttpInv, InIteration, InLoop, Proven
<1>3. SnapshotInv
  BY DEF SnapshotInv, Needed
<1>. QED  BY <1>1, <1>2, <1>3 DEF IInv

LEMMA StepIInv == IInv /\ [Next]_vars => IInv'
<1>. SUFFICES ASSUME IInv, [Next]_vars PROVE IInv'
  OBVIOUS
<1>. USE NAssumption, BudgetAssumption, OptionsAssumption
     DEF IInv, TypeOK, fetched, IterationInv, SnapshotInv, ProvedInv, OrderInv, DnsInv, HttpInv,
         InIteration, InLoop, Proven, Goto, Leave, Needed, Auth, client, history, given, Option
<1>1. CASE Begin
  BY <1>1 DEF Begin
<1>2. CASE CreateOrder
  BY <1>2 DEF CreateOrder
<1>3. CASE GetAuthorization
  <2>1. ASSUME pc' = "auths" PROVE SnapshotInv' /\ snapshot' \in [Auth -> {"pending", "valid"}]
    <3>1. authz[next] \in {"pending", "valid"}
      BY <1>3 DEF GetAuthorization
    <3>. QED  BY <1>3, <2>1, <3>1 DEF GetAuthorization
  <2>2. ASSUME pc' # "auths" PROVE UNCHANGED <<snapshot, next>>
    BY <1>3, <2>2 DEF GetAuthorization
  <2>. QED  BY <1>3, <2>1, <2>2 DEF GetAuthorization
<1>4. CASE GotAuthorizations
  BY <1>4 DEF GotAuthorizations
<1>5. CASE Listen
  <2>1. rc.challenge = "http-01" /\ proved = {} /\ order = "pending"
    BY <1>5 DEF Listen
  <2>2. TypeOK' /\ IterationInv' /\ SnapshotInv' /\ OrderInv' /\ DnsInv' /\ HttpInv'
    BY <1>5, <2>1 DEF Listen
  <2>3. ProvedInv'
    BY <1>5, <2>1 DEF Listen
  <2>. QED  BY <2>2, <2>3
<1>6. CASE ListenFails
  BY <1>6 DEF ListenFails
<1>7. CASE Skip
  BY <1>7 DEF Skip
<1>8. CASE Served
  BY <1>8 DEF Served
<1>9. CASE AddTxt
  BY <1>9 DEF AddTxt
<1>10. CASE AddTxtFails
  <2>1. TypeOK'
    <3>1. next \in Auth /\ published' \subseteq Auth /\ orphans' \subseteq Auth
      BY <1>10 DEF AddTxtFails
    <3>. QED  BY <1>10, <3>1 DEF AddTxtFails
  <2>2. IterationInv' /\ SnapshotInv' /\ ProvedInv' /\ OrderInv' /\ HttpInv'
    BY <1>10 DEF AddTxtFails
  <2>3. DnsInv'
    BY <1>10 DEF AddTxtFails
  <2>. QED  BY <2>1, <2>2, <2>3
<1>11. CASE PollSees
  BY <1>11 DEF PollSees
<1>12. CASE PollTimesOut
  BY <1>12 DEF PollTimesOut
<1>13. CASE SleepOnly
  BY <1>13 DEF SleepOnly
<1>14. CASE Respond
  BY <1>14 DEF Respond, Responded
<1>15. CASE RespondFails
  BY <1>15 DEF RespondFails, Responded
<1>16. CASE PollValid
  BY <1>16 DEF PollValid
<1>17. CASE PollAgain
  BY <1>17 DEF PollAgain
<1>18. CASE PollFails
  BY <1>18 DEF PollFails
<1>19. CASE Drop
  BY <1>19 DEF Drop
<1>20. CASE DropFails
  BY <1>20 DEF DropFails
<1>21. CASE Challenged
  <2>1. proved = Auth
    <3>1. next - 1 = N /\ pc = "next"
      BY <1>21 DEF Challenged
    <3>2. 1..(next - 1) \subseteq proved /\ proved \subseteq 1..N
      BY <3>1
    <3>. QED  BY <3>1, <3>2
  <2>2. TypeOK' /\ IterationInv' /\ SnapshotInv' /\ OrderInv' /\ DnsInv' /\ HttpInv'
    BY <1>21 DEF Challenged
  <2>3. ProvedInv'
    BY <1>21, <2>1 DEF Challenged
  <2>. QED  BY <2>2, <2>3
<1>22. CASE Finalize
  <2>1. located' \in BOOLEAN
    BY <1>22 DEF Finalize
  <2>. QED  BY <1>22, <2>1 DEF Finalize, Ready
<1>23. CASE FinalizeFails
  BY <1>23 DEF FinalizeFails, Ready
<1>24. CASE OrderValid
  BY <1>24 DEF OrderValid
<1>25. CASE OrderAgain
  BY <1>25 DEF OrderAgain
<1>26. CASE OrderFails
  BY <1>26 DEF OrderFails
<1>27. CASE Download
  <2>1. reply' \in Reply
    BY <1>27, RepliesAssumption DEF Download
  <2>. QED  BY <1>27, <2>1 DEF Download
<1>33. CASE FetchAlternate
  <2>1. chain' \in Nat /\ link' \in Nat \ {0}
    <3>1. CASE UNCHANGED chain
      BY <1>33, <3>1 DEF FetchAlternate
    <3>2. CASE chain' = AlternateLinks[link] /\ UNCHANGED link
      <4>1. reply.wanted \subseteq Nat /\ (AlternateLinks[link] \in reply.wanted \/ UNCHANGED chain)
        BY <1>33 DEF FetchAlternate, Reply
      <4>. QED  BY <3>2, <4>1 DEF Reply
    <3>. QED  BY <1>33, <3>1, <3>2 DEF FetchAlternate
  <2>. QED  BY <1>33, <2>1 DEF FetchAlternate
<1>34. CASE NoMoreAlternates
  BY <1>34 DEF NoMoreAlternates
<1>28. CASE Crash
  BY <1>28 DEF Crash, Ended
<1>35. CASE Silent
  <2>1. authz' \in {authz, Responded} /\ order' \in {order, "pending", "processing"}
    BY <1>35 DEF Silent
  <2>2. pc' = "silent" /\ published' \subseteq published \union {next} /\ published' \subseteq Auth
    BY <1>35 DEF Silent
  <2>3. TypeOK' /\ SnapshotInv' /\ ProvedInv'
    BY <1>35, <2>1, <2>2 DEF Silent, Responded
  <2>4. DnsInv'
    BY <1>35, <2>2 DEF Silent
  <2>. QED  BY <2>2, <2>3, <2>4
<1>29. CASE Issue
  BY <1>29 DEF Issue
<1>30. CASE Propagate
  BY <1>30 DEF Propagate
<1>31. ASSUME NEW a \in Auth, Validate(a) PROVE IInv'
  BY <1>31 DEF Validate
<1>32. CASE UNCHANGED vars
  BY <1>32 DEF vars
<1>. QED
  BY <1>1, <1>2, <1>3, <1>4, <1>5, <1>6, <1>7, <1>8, <1>9, <1>10, <1>11, <1>12, <1>13, <1>14, <1>15, <1>16, <1>17, <1>18, <1>19, <1>20, <1>21, <1>22, <1>23, <1>24, <1>25, <1>26, <1>27, <1>28, <1>29, <1>30, <1>31, <1>32, <1>33, <1>34, <1>35 DEF Next, Client, Environment

-----------------------------------------------------------------------------

LEMMA Invariant == Spec => []IInv
  BY InitIInv, StepIInv, PTL DEF Spec

(***************************************************************************)
(* The variables of an issuance keep their types: no index leaves the      *)
(* order's authorizations and no poll exceeds its budget.                  *)
(***************************************************************************)
THEOREM TypeCorrect == Spec => []TypeOK
<1>1. IInv => TypeOK
  BY DEF IInv
<1>. QED  BY <1>1, Invariant, PTL

(***************************************************************************)
(* The Cleanup guard, and the listener of http-01, outlive the wait for    *)
(* the verdict of the CA.                                                  *)
(***************************************************************************)
THEOREM Published == Spec => []PublishedWhileWaiting
<1>1. IInv => PublishedWhileWaiting
  BY DEF IInv, TypeOK, Option, IterationInv, DnsInv, HttpInv, InIteration, InLoop,
         PublishedWhileWaiting, Waiting
<1>. QED  BY <1>1, Invariant, PTL

(***************************************************************************)
(* issue_dns_challenges leaves no record behind, on any of its exits, that *)
(* the provider did not fail to add or remove.                             *)
(***************************************************************************)
THEOREM Tidy == Spec => []NoRecordLeft
<1>1. IInv => NoRecordLeft
  BY DEF IInv, DnsInv, InIteration, NoRecordLeft
<1>. QED  BY <1>1, Invariant, PTL

(***************************************************************************)
(* finalize_order is only called for an order that is ready.               *)
(***************************************************************************)
THEOREM Finalizable == Spec => []FinalizedWhenReady
<1>1. IInv => FinalizedWhenReady
  BY DEF IInv, ProvedInv, OrderInv, Proven, FinalizedWhenReady, Ready
<1>. QED  BY <1>1, Invariant, PTL

(***************************************************************************)
(* The records this process has to withdraw: by dns-01 at most the one of  *)
(* the iteration it is in, by http-01 none.                                *)
(***************************************************************************)
Record == IF rc.challenge = "dns-01" THEN published \ orphans ELSE {}

LEMMA ProofStep ==
    ASSUME IInv, IInv', [Next]_vars
    PROVE  [Proof!Next]_Proof!vars
<1>. USE NAssumption
     DEF IInv, DnsInv, InIteration, InLoop, Goto, Leave, Record, Proof!vars, given
<1>. DEFINE Goes == Proof!Next \/ UNCHANGED Proof!vars
<1>a. pc \notin InIteration \union {"crashed", "silent"} => Record = {}
  BY DEF Record
<1>b. pc \in InIteration =>
          Record = (IF rc.challenge = "dns-01" THEN {next} ELSE {}) /\ next \in Auth
  BY DEF Record, IterationInv, Needed
<1>1. CASE AddTxt
  <2>1. Record = {} /\ Record' = {next} /\ next \in Auth /\ next \notin proved
    BY <1>1, <1>a DEF AddTxt, ProvedInv, Needed
  <2>2. Proof!Publish(next)
    BY <1>1, <2>1 DEF AddTxt, history, Proof!Publish
  <2>. QED  BY <2>1, <2>2 DEF Proof!Next
<1>2. CASE Skip
  <2>1. Proof!Prove(next)
    BY <1>2, <1>a DEF Skip, Proof!Prove
  <2>. QED  BY <1>2, <2>1 DEF Skip, Proof!Next
<1>3. CASE PollValid
  <2>1. Proof!Prove(next) /\ next \in Auth
    BY <1>3, <1>b DEF PollValid, Proof!Prove
  <2>. QED  BY <2>1 DEF Proof!Next
<1>4. ASSUME Drop \/ DropFails PROVE Goes
  <2>1. Record' = {} /\ pc = "drop" /\ pc' = then /\ then \in {"next", "error"}
    BY <1>4, <1>b DEF Drop, DropFails, TypeOK
  <2>2. proved' = proved
    BY <1>4 DEF Drop, DropFails, history
  <2>3. CASE then = "next"
    BY <2>1, <2>2, <2>3 DEF Proof!Next, Proof!Withdraw
  <2>4. CASE then = "error"
    BY <2>1, <2>2, <2>4 DEF Proof!Next, Proof!GiveUp
  <2>. QED  BY <2>1, <2>3, <2>4
<1>5. CASE AddTxtFails
  <2>1. Record = {} /\ Record' = {}
    BY <1>5, <1>a DEF AddTxtFails
  <2>. QED  BY <1>5, <2>1 DEF AddTxtFails, Proof!Next, Proof!GiveUp
<1>6. ASSUME Download \/ FetchAlternate \/ NoMoreAlternates PROVE Goes
  <2>1. Record = {} /\ Record' = {} /\ proved = Auth /\ proved' = proved
    BY <1>6, <1>a DEF Download, FetchAlternate, NoMoreAlternates, ProvedInv, Proven, history
  <2>2. pc \in {"download", "alternates"} /\ pc' \in {"alternates", "ok", "error"}
    BY <1>6 DEF Download, FetchAlternate, NoMoreAlternates
  <2>. QED  BY <2>1, <2>2 DEF Proof!Next, Proof!Deliver, Proof!GiveUp
<1>7. CASE Crash
  BY <1>7 DEF Crash, Ended, history, Proof!Next, Proof!Crash
<1>30. CASE Silent
  <2>1. UNCHANGED <<proved, orphans, rc, next>> /\ pc' = "silent" /\ pc \notin Ended \union {"silent"}
    BY <1>30 DEF Silent, Asks, history, Ended
  <2>2. CASE rc.challenge = "dns-01" /\ pc = "next" /\ next \in Needed
    <3>1. Record = {} /\ Record' \in {{}, {next}} /\ next \in Auth /\ next \notin proved
      BY <1>30, <1>a, <2>1, <2>2 DEF Silent, Asks, ProvedInv, Needed
    <3>2. CASE Record' = {}
      BY <2>1, <2>2, <3>1, <3>2 DEF Ended
    <3>3. CASE Record' = {next}
      BY <2>1, <2>2, <3>1, <3>3 DEF Proof!Next, Proof!Publish
    <3>. QED  BY <3>1, <3>2, <3>3
  <2>3. CASE rc.challenge = "dns-01" /\ pc = "drop"
    <3>1. Record' \in {Record, {}}
      BY <1>30, <1>b, <2>1, <2>3 DEF Silent, Asks
    <3>. QED  BY <2>1, <2>3, <3>1 DEF Proof!Next, Proof!Withdraw
  <2>4. CASE UNCHANGED published
    BY <2>1, <2>4 DEF Ended
  <2>. QED  BY <1>30, <2>2, <2>3, <2>4 DEF Silent
<1>8. ASSUME Listen \/ ListenFails \/ Served PROVE Goes
  <2>1. rc.challenge # "dns-01" /\ Record = {} /\ Record' = {}
    BY <1>8 DEF Listen, ListenFails, Served
  <2>. QED  BY <1>8, <2>1 DEF Listen, ListenFails, Served, history, Proof!Next, Proof!GiveUp
<1>9. CASE Begin
  BY <1>9, <1>a DEF Begin, client, history, Proof!Next, Proof!GiveUp
<1>10. CASE CreateOrder
  BY <1>10, <1>a DEF CreateOrder, client, history, Proof!Next, Proof!GiveUp
<1>11. CASE GetAuthorization
  BY <1>11, <1>a DEF GetAuthorization, client, history, Proof!Next, Proof!GiveUp
<1>12. CASE GotAuthorizations
  BY <1>12, <1>a DEF GotAuthorizations, client, history, Proof!Next, Proof!GiveUp
<1>13. CASE PollSees
  BY <1>13, <1>a DEF PollSees, client, history, Proof!Next, Proof!GiveUp
<1>14. CASE PollTimesOut
  BY <1>14, <1>a DEF PollTimesOut, client, history, Proof!Next, Proof!GiveUp
<1>15. CASE SleepOnly
  BY <1>15, <1>a DEF SleepOnly, client, history, Proof!Next, Proof!GiveUp
<1>16. CASE Respond
  BY <1>16, <1>a DEF Respond, client, history, Proof!Next, Proof!GiveUp
<1>17. CASE RespondFails
  BY <1>17, <1>a DEF RespondFails, client, history, Proof!Next, Proof!GiveUp
<1>18. CASE PollAgain
  BY <1>18, <1>a DEF PollAgain, client, history, Proof!Next, Proof!GiveUp
<1>19. CASE PollFails
  BY <1>19, <1>a DEF PollFails, client, history, Proof!Next, Proof!GiveUp
<1>20. CASE Challenged
  BY <1>20, <1>a DEF Challenged, client, history, Proof!Next, Proof!GiveUp
<1>21. CASE Finalize
  BY <1>21, <1>a DEF Finalize, client, history, Proof!Next, Proof!GiveUp
<1>22. CASE FinalizeFails
  BY <1>22, <1>a DEF FinalizeFails, client, history, Proof!Next, Proof!GiveUp
<1>23. CASE OrderValid
  BY <1>23, <1>a DEF OrderValid, client, history, Proof!Next, Proof!GiveUp
<1>24. CASE OrderAgain
  BY <1>24, <1>a DEF OrderAgain, client, history, Proof!Next, Proof!GiveUp
<1>25. CASE OrderFails
  BY <1>25, <1>a DEF OrderFails, client, history, Proof!Next, Proof!GiveUp
<1>26. CASE Issue
  BY <1>26, <1>a DEF Issue, client, history, Proof!Next, Proof!GiveUp
<1>27. CASE Propagate
  BY <1>27, <1>a DEF Propagate, client, history, Proof!Next, Proof!GiveUp
<1>28. ASSUME NEW a \in Auth, Validate(a) PROVE Goes
  BY <1>28 DEF Validate, client, history
<1>29. CASE UNCHANGED vars
  BY <1>29 DEF vars, client, history
<1>. QED
  BY <1>1, <1>2, <1>3, <1>4, <1>5, <1>6, <1>7, <1>8, <1>9, <1>10, <1>11, <1>12, <1>13, <1>14, <1>15, <1>16, <1>17, <1>18, <1>19, <1>20, <1>21, <1>22, <1>23, <1>24, <1>25, <1>26, <1>27, <1>28, <1>29, <1>30 DEF Next, Client, Environment

(***************************************************************************)
(* issue_certificate implements the abstract DomainProof: one              *)
(* domain after the other, one record at a time, a certificate only when   *)
(* all are proved.                                                         *)
(***************************************************************************)
THEOREM ImplementsProof == Spec => ProvesOneByOne
<1>1. Init => Proof!Init
  BY DEF Init, Proof!Init
<1>2. IInv /\ IInv' /\ [Next]_vars => [Proof!Next]_Proof!vars
  BY ProofStep
<1>. QED  BY <1>1, <1>2, Invariant, PTL DEF Spec, ProvesOneByOne, Proof!Spec

-----------------------------------------------------------------------------

(***************************************************************************)
(* The choice of the chain: the links tried so far were not wanted, and    *)
(* nothing but the default is returned before one is.                      *)
(***************************************************************************)
ChainInv ==
    /\ pc \notin Ended => chain = 0
    /\ pc \notin Ended \union {"alternates", "silent"} => link = 1
    /\ pc = "alternates" =>
          /\ 0 \notin reply.wanted
          /\ "net" \notin faults =>
                \A i \in DOMAIN AlternateLinks :
                    i < link => AlternateLinks[i] \notin reply.wanted
    /\ PreferredIsChosen

LEMMA LinkTypes ==
    ASSUME reply \in Reply
    PROVE  AlternateLinks \in Seq(Nat \ {0})
<1>1. reply.links \in Seq(Seq(Nat \ {0}))
  BY DEF Reply
<1>. QED  BY <1>1 DEF AlternateLinks, Last

LEMMA LinkTypesPrime ==
    ASSUME reply' \in Reply
    PROVE  AlternateLinks' \in Seq(Nat \ {0})
<1>1. reply'.links \in Seq(Seq(Nat \ {0}))
  BY DEF Reply
<1>. QED  BY <1>1 DEF AlternateLinks, Last

LEMMA StepChain ==
    ASSUME TypeOK, TypeOK', ChainInv, [Next]_vars
    PROVE  ChainInv'
<1>. USE DEF ChainInv, Ended, Goto, Leave, given, fetched, client
<1>1. AlternateLinks \in Seq(Nat \ {0}) /\ link \in Nat \ {0}
  BY LinkTypes DEF TypeOK
<1>2. ASSUME UNCHANGED <<fetched, given>>, pc \notin Ended \union {"alternates", "silent"},
             pc' # "ok", pc' # "alternates"
      PROVE  ChainInv'
  BY <1>2 DEF PreferredIsChosen
<1>3. CASE Download
  <2>1. /\ pc = "download" /\ link = 1 /\ chain = 0
        /\ UNCHANGED <<link, chain, rc, faults>>
    BY <1>3 DEF Download
  <2>2. CASE pc' = "error"
    BY <1>3, <2>1, <2>2 DEF Download, PreferredIsChosen
  <2>3. CASE pc' = "ok"
    BY <1>3, <2>1, <2>3 DEF Download, PreferredIsChosen
  <2>4. CASE pc' = "alternates"
    <3>1. 0 \notin reply'.wanted
      BY <1>3, <2>4 DEF Download
    <3>2. AlternateLinks' \in Seq(Nat \ {0})
      BY LinkTypesPrime DEF TypeOK
    <3>3. ASSUME NEW i \in DOMAIN AlternateLinks' PROVE ~(i < link')
      BY <2>1, <3>2
    <3>4. PreferredIsChosen'
      BY <2>4 DEF PreferredIsChosen
    <3>5. \A i \in DOMAIN AlternateLinks' :
             i < link' => AlternateLinks'[i] \notin reply'.wanted
      BY <3>3
    <3>. QED  BY <2>1, <2>4, <3>1, <3>4, <3>5
  <2>. QED  BY <1>3, <2>2, <2>3, <2>4 DEF Download
<1>4. CASE FetchAlternate
  <2>1. CASE pc' = "ok"
    BY <1>4, <2>1 DEF FetchAlternate, PreferredIsChosen
  <2>2. CASE pc' = "alternates"
    <3>1. /\ link' = link + 1 /\ UNCHANGED <<reply, chain, faults, rc>>
          /\ AlternateLinks[link] \notin reply.wanted \/ "net" \in faults
          /\ pc = "alternates"
      BY <1>4, <2>2 DEF FetchAlternate
    <3>2. AlternateLinks' = AlternateLinks
      BY <3>1 DEF AlternateLinks
    <3>3. ASSUME "net" \notin faults, NEW i \in DOMAIN AlternateLinks, i < link'
          PROVE  AlternateLinks[i] \notin reply.wanted
      <4>1. i \in Nat
        BY <1>1
      <4>. QED  BY <1>1, <3>1, <3>3, <4>1
    <3>. QED  BY <2>2, <3>1, <3>2, <3>3 DEF PreferredIsChosen
  <2>3. CASE pc' = "error"
    BY <1>4, <2>3 DEF FetchAlternate, PreferredIsChosen
  <2>. QED  BY <1>4, <2>1, <2>2, <2>3 DEF FetchAlternate
<1>5. CASE NoMoreAlternates
  <2>1. /\ pc = "alternates" /\ pc' = "ok" /\ UNCHANGED <<reply, chain, rc, faults>>
        /\ link \notin DOMAIN AlternateLinks
    BY <1>5 DEF NoMoreAlternates
  <2>2. ASSUME "net" \notin faults, reply.links # << >>
        PROVE  reply.wanted \intersect Range(Last(reply.links)) = {}
    <3>1. AlternateLinks = Last(reply.links)
      BY <2>2 DEF AlternateLinks
    <3>2. ASSUME NEW i \in DOMAIN AlternateLinks PROVE AlternateLinks[i] \notin reply.wanted
      <4>1. i < link
        BY <1>1, <2>1
      <4>. QED  BY <2>1, <2>2, <4>1
    <3>. QED  BY <3>1, <3>2 DEF Range
  <2>. QED  BY <2>1, <2>2 DEF PreferredIsChosen
<1>6. ASSUME UNCHANGED <<pc, fetched, given>> PROVE ChainInv'
  BY <1>6 DEF PreferredIsChosen, AlternateLinks
<1>7. ASSUME GetAuthorization \/ Skip \/ PollAgain \/ OrderAgain PROVE ChainInv'
  BY <1>7, <1>2, <1>6 DEF GetAuthorization, Skip, PollAgain, OrderAgain
<1>8. ASSUME Drop \/ DropFails PROVE ChainInv'
  BY <1>8, <1>2 DEF Drop, DropFails, TypeOK
<1>9. CASE Begin
  BY <1>9, <1>2 DEF Begin
<1>10. CASE CreateOrder
  BY <1>10, <1>2 DEF CreateOrder
<1>11. CASE GotAuthorizations
  BY <1>11, <1>2 DEF GotAuthorizations
<1>12. CASE Listen
  BY <1>12, <1>2 DEF Listen
<1>13. CASE ListenFails
  BY <1>13, <1>2 DEF ListenFails
<1>14. CASE Served
  BY <1>14, <1>2 DEF Served
<1>15. CASE AddTxt
  BY <1>15, <1>2 DEF AddTxt
<1>16. CASE AddTxtFails
  BY <1>16, <1>2 DEF AddTxtFails
<1>17. CASE PollSees
  BY <1>17, <1>2 DEF PollSees
<1>18. CASE PollTimesOut
  BY <1>18, <1>2 DEF PollTimesOut
<1>19. CASE SleepOnly
  BY <1>19, <1>2 DEF SleepOnly
<1>20. CASE Respond
  BY <1>20, <1>2 DEF Respond
<1>21. CASE RespondFails
  BY <1>21, <1>2 DEF RespondFails
<1>22. CASE PollValid
  BY <1>22, <1>2 DEF PollValid
<1>23. CASE PollFails
  BY <1>23, <1>2 DEF PollFails
<1>24. CASE Challenged
  BY <1>24, <1>2 DEF Challenged
<1>25. CASE Finalize
  BY <1>25, <1>2 DEF Finalize
<1>26. CASE FinalizeFails
  BY <1>26, <1>2 DEF FinalizeFails
<1>27. CASE OrderValid
  BY <1>27, <1>2 DEF OrderValid
<1>28. CASE OrderFails
  BY <1>28, <1>2 DEF OrderFails
<1>29. CASE Crash
  BY <1>29 DEF Crash, PreferredIsChosen
<1>31. CASE Silent
  <2>1. UNCHANGED <<fetched, given>> /\ pc' = "silent" /\ pc \notin Ended
    BY <1>31 DEF Silent, Asks
  <2>. QED  BY <2>1 DEF PreferredIsChosen
<1>30. ASSUME Environment \/ UNCHANGED vars PROVE ChainInv'
  BY <1>30, <1>6 DEF Environment, Issue, Propagate, Validate, vars
<1>. QED
  BY <1>3, <1>4, <1>5, <1>6, <1>7, <1>8, <1>9, <1>10, <1>11, <1>12, <1>13, <1>14, <1>15, <1>16, <1>17, <1>18, <1>19, <1>20, <1>21, <1>22, <1>23, <1>24, <1>25, <1>26, <1>27, <1>28, <1>29, <1>30, <1>31 DEF Next, Client

(***************************************************************************)
(* --preferred-chain: an alternate that a client can know of is returned   *)
(* if it has the issuer and no request fails.                              *)
(***************************************************************************)
THEOREM Chosen == Spec => []PreferredIsChosen
<1>1. Init => ChainInv
  BY DEF Init, ChainInv, Ended, PreferredIsChosen
<1>2. IInv /\ IInv' /\ ChainInv /\ [Next]_vars => ChainInv'
  BY StepChain DEF IInv
<1>3. ChainInv => PreferredIsChosen
  BY DEF ChainInv
<1>. QED  BY <1>1, <1>2, <1>3, Invariant, PTL DEF Spec

-----------------------------------------------------------------------------

(***************************************************************************)
(* What the CA finds when it looks: an authorization that is still to come *)
(* has not been looked at, and without --dnssleep the client has seen, and *)
(* has not withdrawn, what it signals.                                     *)
(***************************************************************************)
Untouched(a) == authz[a] \in {"pending", "valid"}

Polled == rc.polls /\ ~rc.sleeps

SeenInv ==
    /\ pc = "listen" => \A a \in Auth : Untouched(a)
    /\ pc \in InLoop =>
          \A a \in Auth : next < a \/ (next = a /\ pc \in {"next", "wait", "signal"})
              => Untouched(a)
    /\ rc.challenge = "http-01" /\ pc \in InLoop => visible = published
    /\ rc.challenge = "dns-01" /\ Waiting /\ Polled => next \in visible
    /\ SignalledIsAccepted

(***************************************************************************)
(* What an error can have lost.                                            *)
(***************************************************************************)
LostInv ==
    /\ pc \in {"begin", "order"} => order = "none"
    /\ pc = "error" /\ order \in {"processing", "valid"}
          => "net" \in faults \/ ~located \/ tries = MaxOrder

LEMMA StepSeen ==
    ASSUME IInv, IInv', SeenInv, [Next]_vars
    PROVE  SeenInv'
<1>. USE NAssumption, OptionsAssumption
     DEF IInv, TypeOK, IterationInv, SnapshotInv, DnsInv, HttpInv, SeenInv, SignalledIsAccepted,
         Untouched, Polled, Waiting, InIteration, InLoop, Goto, Leave, Needed, Auth, client,
         history, given, fetched, Option
<1>1. CASE Begin
  BY <1>1 DEF Begin
<1>2. CASE CreateOrder
  BY <1>2 DEF CreateOrder
<1>3. CASE GetAuthorization
  BY <1>3 DEF GetAuthorization
<1>4. CASE GotAuthorizations
  BY <1>4 DEF GotAuthorizations
<1>5. CASE Listen
  BY <1>5 DEF Listen
<1>6. CASE ListenFails
  BY <1>6 DEF ListenFails
<1>7. CASE Skip
  BY <1>7 DEF Skip
<1>8. CASE Served
  BY <1>8 DEF Served
<1>9. CASE AddTxt
  BY <1>9 DEF AddTxt
<1>10. CASE AddTxtFails
  BY <1>10 DEF AddTxtFails
<1>11. CASE PollSees
  BY <1>11 DEF PollSees
<1>12. CASE PollTimesOut
  BY <1>12 DEF PollTimesOut
<1>13. CASE SleepOnly
  BY <1>13 DEF SleepOnly
<1>14. CASE Respond
  BY <1>14 DEF Respond, Responded
<1>15. CASE RespondFails
  BY <1>15 DEF RespondFails, Responded
<1>16. CASE PollValid
  BY <1>16 DEF PollValid
<1>17. CASE PollAgain
  BY <1>17 DEF PollAgain
<1>18. CASE PollFails
  BY <1>18 DEF PollFails
<1>19. CASE Drop
  BY <1>19 DEF Drop
<1>20. CASE DropFails
  BY <1>20 DEF DropFails
<1>21. CASE Challenged
  BY <1>21 DEF Challenged
<1>22. CASE Finalize
  BY <1>22 DEF Finalize
<1>23. CASE FinalizeFails
  BY <1>23 DEF FinalizeFails
<1>24. CASE OrderValid
  BY <1>24 DEF OrderValid
<1>25. CASE OrderAgain
  BY <1>25 DEF OrderAgain
<1>26. CASE OrderFails
  BY <1>26 DEF OrderFails
<1>27. CASE Download
  BY <1>27 DEF Download
<1>28. CASE FetchAlternate
  BY <1>28 DEF FetchAlternate
<1>29. CASE NoMoreAlternates
  BY <1>29 DEF NoMoreAlternates
<1>30. CASE Crash
  BY <1>30 DEF Crash, Ended
<1>35. CASE Silent
  BY <1>35 DEF Silent
<1>31. CASE Issue
  BY <1>31 DEF Issue
<1>32. CASE Propagate
  BY <1>32 DEF Propagate
<1>33. ASSUME NEW a \in Auth, Validate(a) PROVE SeenInv'
  <2>1. /\ authz[a] = "processing" /\ \A b \in Auth \ {a} : authz'[b] = authz[b]
        /\ UNCHANGED <<pc, next, rc, visible, published, faults>>
    BY <1>33 DEF Validate
  <2>2. \A b \in Auth : Untouched(b) => Untouched(b)'
    BY <2>1
  <2>3. SignalledIsAccepted'
    <3>1. ASSUME Waiting, Polled, "ca" \notin faults PROVE next \in visible
      BY <3>1
    <3>2. ASSUME "ca" \notin faults, a \in visible PROVE authz'[a] # "invalid"
      BY <1>33, <3>2 DEF Validate
    <3>. QED  BY <2>1, <3>1, <3>2
  <2>. QED  BY <2>1, <2>2, <2>3
<1>34. CASE UNCHANGED vars
  BY <1>34 DEF vars
<1>. QED
  BY <1>1, <1>2, <1>3, <1>4, <1>5, <1>6, <1>7, <1>8, <1>9, <1>10, <1>11, <1>12, <1>13, <1>14, <1>15, <1>16, <1>17, <1>18, <1>19, <1>20, <1>21, <1>22, <1>23, <1>24, <1>25, <1>26, <1>27, <1>28, <1>29, <1>30, <1>31, <1>32, <1>33, <1>34, <1>35 DEF Next, Client, Environment

LEMMA StepLost ==
    ASSUME IInv, IInv', LostInv, [Next]_vars
    PROVE  LostInv'
<1>. USE NAssumption
     DEF IInv, TypeOK, OrderInv, LostInv, InIteration, InLoop, Goto, Leave, Auth, client,
         history, given, fetched
<1>1. CASE Begin
  BY <1>1 DEF Begin
<1>2. CASE CreateOrder
  BY <1>2 DEF CreateOrder
<1>3. CASE GetAuthorization
  BY <1>3 DEF GetAuthorization
<1>4. CASE GotAuthorizations
  BY <1>4 DEF GotAuthorizations
<1>5. CASE Listen
  BY <1>5 DEF Listen
<1>6. CASE ListenFails
  BY <1>6 DEF ListenFails
<1>7. CASE Skip
  BY <1>7 DEF Skip
<1>8. CASE Served
  BY <1>8 DEF Served
<1>9. CASE AddTxt
  BY <1>9 DEF AddTxt
<1>10. CASE AddTxtFails
  BY <1>10 DEF AddTxtFails
<1>11. CASE PollSees
  BY <1>11 DEF PollSees
<1>12. CASE PollTimesOut
  BY <1>12 DEF PollTimesOut
<1>13. CASE SleepOnly
  BY <1>13 DEF SleepOnly
<1>14. CASE Respond
  BY <1>14 DEF Respond
<1>15. CASE RespondFails
  BY <1>15 DEF RespondFails
<1>16. CASE PollValid
  BY <1>16 DEF PollValid
<1>17. CASE PollAgain
  BY <1>17 DEF PollAgain
<1>18. CASE PollFails
  BY <1>18 DEF PollFails
<1>19. CASE Drop
  BY <1>19 DEF Drop
<1>20. CASE DropFails
  BY <1>20 DEF DropFails
<1>21. CASE Challenged
  BY <1>21 DEF Challenged
<1>22. CASE Finalize
  BY <1>22 DEF Finalize
<1>23. CASE FinalizeFails
  BY <1>23 DEF FinalizeFails
<1>24. CASE OrderValid
  BY <1>24 DEF OrderValid
<1>25. CASE OrderAgain
  BY <1>25 DEF OrderAgain
<1>26. CASE OrderFails
  BY <1>26 DEF OrderFails
<1>27. CASE Download
  BY <1>27 DEF Download
<1>28. CASE FetchAlternate
  BY <1>28 DEF FetchAlternate
<1>29. CASE NoMoreAlternates
  BY <1>29 DEF NoMoreAlternates
<1>30. CASE Crash
  BY <1>30 DEF Crash, Ended
<1>35. CASE Silent
  BY <1>35 DEF Silent
<1>31. CASE Issue
  BY <1>31 DEF Issue
<1>32. CASE Propagate
  BY <1>32 DEF Propagate
<1>33. ASSUME NEW a \in Auth, Validate(a) PROVE LostInv'
  BY <1>33 DEF Validate
<1>34. CASE UNCHANGED vars
  BY <1>34 DEF vars
<1>. QED
  BY <1>1, <1>2, <1>3, <1>4, <1>5, <1>6, <1>7, <1>8, <1>9, <1>10, <1>11, <1>12, <1>13, <1>14, <1>15, <1>16, <1>17, <1>18, <1>19, <1>20, <1>21, <1>22, <1>23, <1>24, <1>25, <1>26, <1>27, <1>28, <1>29, <1>30, <1>31, <1>32, <1>33, <1>34, <1>35 DEF Next, Client, Environment

(***************************************************************************)
(* poll_txt before the signal: a CA that finds what the resolvers found    *)
(* never rejects what was only signalled after it was seen.                *)
(***************************************************************************)
THEOREM Accepted == Spec => []SignalledIsAccepted
<1>1. Init => SeenInv
  BY DEF Init, SeenInv, SignalledIsAccepted, Waiting, InLoop, InIteration
<1>2. IInv /\ IInv' /\ SeenInv /\ [Next]_vars => SeenInv'
  BY StepSeen
<1>3. SeenInv => SignalledIsAccepted
  BY DEF SeenInv
<1>. QED  BY <1>1, <1>2, <1>3, Invariant, PTL DEF Spec

(***************************************************************************)
(* An issued certificate reaches the caller, unless a request failed, the  *)
(* reply to finalize named no order, or poll_order gave up.                *)
(***************************************************************************)
THEOREM Delivered == Spec => []IssuedIsDelivered
<1>1. Init => LostInv
  BY DEF Init, LostInv
<1>2. IInv /\ IInv' /\ LostInv /\ [Next]_vars => LostInv'
  BY StepLost
<1>3. LostInv => IssuedIsDelivered
  BY DEF LostInv, IssuedIsDelivered
<1>. QED  BY <1>1, <1>2, <1>3, Invariant, PTL DEF Spec

=============================================================================
