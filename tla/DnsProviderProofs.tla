------------------------- MODULE DnsProviderProofs -------------------------
(***************************************************************************)
(* For every provider, account and number of clients: unless the provider  *)
(* MayLose it, a value disappears only in a step of the client it belongs  *)
(* to, and a client that waits for its validation is published, where      *)
(* resolvers look unless a refused lookup led it to another zone.  The     *)
(* argument is that what a client in a window has read is still what is    *)
(* there (Fresh): another client that writes sets raced, and a failed read *)
(* that is taken for an answer is a Misread.                               *)
(*                                                                         *)
(* And nothing is left behind: the second half of the module follows a     *)
(* value from the request that adds it, to the reads that learn of it, to  *)
(* the request that removes it.                                            *)
(***************************************************************************)
EXTENDS DnsProvider, TLAPS

\* Nothing is written where nothing can be added.
Begun ==
    \A c \in Clients : pc[c] \notin {"idle", "refused"} => api.add # "refuse"

\* Whether what clients have read before is still what there is.
Undisturbed == ~Overwriting(api) /\ ~raced /\ ~Misread

\* A client that will write what it derives from a read still knows it all.
Fresh ==
    Undisturbed =>
        \A c \in Clients : InWindow(c) /\ pc[c] # "restoring" => seen[c] = recs

\* Nothing is taken from others.
Safe ==
    \/ Sparing(api)
    \/ Undisturbed /\ (api.remove = "twoWrites" => failed = {})

\* The value of a client that waits, or will remove it where it has added it,
\* is there, or a client that has deleted it will write it back.
There(d) ==
    \/ d \in recs[spot[d]]
    \/ \E c \in Clients :
           /\ pc[c] = "restoring" /\ spot[c] = spot[d]
           /\ d \in seen[c][spot[c]] \ {c}

Lasts(d) ==
    \/ pc[d] = "up"
    \/ pc[d] \in {"finding", "deleting"} /\ api.zone \notin Asking

Published ==
    api.answer = "checked" /\ Safe =>
        \A d \in Clients : Lasts(d) => There(d)

\* A set that is deleted to be written back is empty until it is.
Waiting ==
    \A c \in Clients :
        pc[c] = "restoring" =>
            api.remove = "twoWrites" /\ (raced \/ recs[spot[c]] = {})

\* Who has a zone, and may not have been refused the right one, has it right.
Placed ==
    \A c \in Clients :
        pc[c] \notin {"idle", "refused"} /\ (api.zone \notin Asking \/ c \notin failed) =>
            spot[c] = Spot

IInv == TypeOK /\ Begun /\ Fresh /\ Published /\ Waiting /\ Placed

\* What a zone and a name make is one of the places.
LEMMA PlaceType ==
    ASSUME NEW a, NEW zone, NEW l
    PROVE  PlaceOf(a, zone, l) \in Places
  BY DEF PlaceOf, Places

\* A client's requests go to one of the places, whatever zone it finds.
LEMMA SpotType ==
    /\ Spot \in Places
    /\ TypeOK => \A c \in Clients : spot[c] \in Places
  BY PlaceType DEF Spot, TypeOK

\* A write that replaces part of the zone leaves a zone.
LEMMA WrittenType ==
    ASSUME TypeOK, NEW c \in Clients, NEW new \in [Places -> SUBSET Value]
    PROVE  Written(c, new) \in [Places -> SUBSET Value]
  BY DEF TypeOK, Written

\* Adding keeps the type of what is there.
LEMMA AddedType ==
    ASSUME TypeOK, NEW c \in Clients
    PROVE  Added(c) \in [Places -> SUBSET Value]
<1>1. /\ recs \in [Places -> SUBSET Value]
      /\ seen[c] \in [Places -> SUBSET Value]
      /\ c \in Value
  BY DEF TypeOK, Value
<1>2. /\ [recs EXCEPT ![spot[c]] = @ \union {c}] \in [Places -> SUBSET Value]
      /\ [recs EXCEPT ![spot[c]] = {c}] \in [Places -> SUBSET Value]
      /\ [seen[c] EXCEPT ![spot[c]] = {c}] \in [Places -> SUBSET Value]
      /\ [seen[c] EXCEPT ![spot[c]] = @ \union {c}] \in [Places -> SUBSET Value]
  BY <1>1, SpotType
<1> QED
  BY <1>2, WrittenType DEF Added

\* So does removing, in each of its ways.
LEMMA RemovedType ==
    ASSUME TypeOK, NEW c \in Clients, NEW new \in Removed(c)
    PROVE  new \in [Places -> SUBSET Value]
<1>1. /\ recs \in [Places -> SUBSET Value]
      /\ seen[c] \in [Places -> SUBSET Value]
  BY DEF TypeOK
<1>2. \A k \in [Places -> SUBSET Value] : \A x :
          /\ Without(k, c, x) \in [Places -> SUBSET Value]
          /\ Emptied(k, c) \in [Places -> SUBSET Value]
  BY SpotType DEF Without, Emptied
<1>3. /\ Written(c, Emptied(seen[c], c)) \in [Places -> SUBSET Value]
      /\ Written(c, Without(seen[c], c, c)) \in [Places -> SUBSET Value]
  BY <1>1, <1>2, WrittenType
<1>4. RestDeleted(c) \in [Places -> SUBSET Value]
  BY <1>1, <1>2 DEF RestDeleted
<1>5. FirstFound(c) \subseteq [Places -> SUBSET Value]
  BY <1>1, <1>2 DEF FirstFound
<1>6. CASE api.remove \in {"nothing", "byValue", "findValue", "allOfName"}
  BY <1>1, <1>2, <1>6 DEF Removed
<1>7. CASE api.remove \in {"ifSame", "twoWrites"}
  BY <1>1, <1>2, <1>7 DEF Removed
<1>8. CASE api.remove = "findName"
  BY <1>5, <1>8 DEF Removed
<1>9. CASE api.remove \in {"rest", "rezoneName"}
  BY <1>3, <1>4, <1>9 DEF Removed
<1>10. CASE api.remove \in {"merge", "rezone"}
  BY <1>3, <1>10 DEF Removed
<1> QED
  BY <1>6, <1>7, <1>8, <1>9, <1>10, ApiAssumption DEF TypeOK

-----------------------------------------------------------------------------

\* The type invariant: every step keeps the types of the variables.
LEMMA TypeStep ==
    ASSUME TypeOK, [Next]_vars
    PROVE  TypeOK'
<1>1. CASE UNCHANGED vars
  BY <1>1 DEF TypeOK, vars
<1>2. ASSUME NEW c \in Clients, NEW s \in Steps, Goto(c, s)
      PROVE  pc' \in [Clients -> Steps]
  BY <1>2 DEF TypeOK, Goto
<1>3. ASSUME NEW c \in Clients, Fault(c) \/ UNCHANGED failed
      PROVE  failed' \subseteq Clients
  BY <1>3 DEF TypeOK, Fault
<1>4. Blank \in [Places -> SUBSET Value]
  BY DEF Blank
<1>16. ASSUME NEW c \in Clients, NEW s, FindsZone(c, s)
      PROVE  Goto(c, s) /\ failed' \subseteq Clients /\ spot' \in [Clients -> Places]
  <2>1. Goto(c, s)
    BY <1>16 DEF FindsZone
  <2>2. spot' = [spot EXCEPT ![c] = Spot] \/
        \E zone : spot' = [spot EXCEPT ![c] = PlaceOf(api, zone, layout)]
    BY <1>16 DEF FindsZone
  <2>3. failed' \subseteq Clients
    BY <1>16, <1>3 DEF FindsZone
  <2> QED
    BY <2>1, <2>2, <2>3, PlaceType, SpotType DEF TypeOK
<1>5. ASSUME NEW c \in Clients, AddStart(c)
      PROVE  TypeOK'
  <2>1. /\ pc' \in [Clients -> Steps]
        /\ failed' \subseteq Clients /\ spot' \in [Clients -> Places]
    BY <1>5, <1>16, <1>2, <1>3 DEF AddStart, Steps, TypeOK
  <2> QED
    BY <1>5, <2>1 DEF AddStart, NoWrite, TypeOK
<1>6. ASSUME NEW c \in Clients, AddRead(c)
      PROVE  TypeOK'
  BY <1>6, <1>2 DEF AddRead, TypeOK, Steps
<1>7. ASSUME NEW c \in Clients, AddReadFails(c)
      PROVE  TypeOK'
  <2>1. pc' \in [Clients -> Steps]
    BY <1>7, <1>2 DEF AddReadFails, Steps
  <2> QED
    BY <1>7, <1>3, <1>4, <2>1 DEF AddReadFails, TypeOK
<1>8. ASSUME NEW c \in Clients, AddDone(c) \/ AddReplyLost(c)
      PROVE  TypeOK'
  <2>1. pc' \in [Clients -> Steps]
    BY <1>8, <1>2 DEF AddDone, AddReplyLost, Steps
  <2>2. recs' \in [Places -> SUBSET Value]
    BY <1>8, AddedType DEF AddDone, AddReplyLost, Write
  <2>3. raced' \in BOOLEAN
    BY <1>8 DEF AddDone, AddReplyLost, Write
  <2> QED
    BY <1>8, <1>3, <2>1, <2>2, <2>3 DEF AddDone, AddReplyLost, Write, TypeOK
<1>9. ASSUME NEW c \in Clients, AddRefused(c)
      PROVE  TypeOK'
  <2>1. pc' \in [Clients -> Steps]
    BY <1>9, <1>2 DEF AddRefused, Steps
  <2> QED
    BY <1>9, <1>3, <2>1 DEF AddRefused, NoWrite, TypeOK
<1>10. ASSUME NEW c \in Clients, RemoveStart(c)
       PROVE  TypeOK'
  <2>1. /\ pc' \in [Clients -> Steps]
        /\ failed' \subseteq Clients /\ spot' \in [Clients -> Places]
    BY <1>10, <1>16, <1>2, <1>3 DEF RemoveStart, Steps, TypeOK
  <2> QED
    BY <1>10, <2>1 DEF RemoveStart, NoWrite, TypeOK
<1>11. ASSUME NEW c \in Clients, Find(c)
       PROVE  TypeOK'
  BY <1>11, <1>2 DEF Find, TypeOK, Steps
<1>12. ASSUME NEW c \in Clients, FindFails(c)
       PROVE  TypeOK'
  <2>1. pc' \in [Clients -> Steps]
    BY <1>12, <1>2 DEF FindFails, Steps
  <2> QED
    BY <1>12, <1>3, <1>4, <2>1 DEF FindFails, TypeOK
<1>13. ASSUME NEW c \in Clients, Delete(c)
       PROVE  TypeOK'
  <2>1. pc' \in [Clients -> Steps]
    <3>1. AfterDelete(c) \in Steps
      BY DEF AfterDelete, Steps
    <3> QED
      BY <1>13, <1>2, <3>1 DEF Delete, Steps
  <2>2. PICK new \in Removed(c) : Write(c, new)
    BY <1>13 DEF Delete
  <2>3. recs' \in [Places -> SUBSET Value] /\ raced' \in BOOLEAN
    BY <2>2, RemovedType DEF Write
  <2> QED
    BY <1>13, <1>3, <2>1, <2>2, <2>3 DEF Delete, Write, TypeOK
<1>14. ASSUME NEW c \in Clients, DeleteFails(c) \/ RestoreFails(c)
       PROVE  TypeOK'
  <2>1. pc' \in [Clients -> Steps]
    BY <1>14, <1>2 DEF DeleteFails, RestoreFails, Steps
  <2> QED
    BY <1>14, <1>3, <2>1 DEF DeleteFails, RestoreFails, NoWrite, TypeOK
<1>15. ASSUME NEW c \in Clients, Restore(c)
       PROVE  TypeOK'
  <2>1. pc' \in [Clients -> Steps]
    BY <1>15, <1>2 DEF Restore, Steps
  <2>2. recs' \in [Places -> SUBSET Value] /\ raced' \in BOOLEAN
    BY <1>15, SpotType DEF Restore, Write, TypeOK
  <2> QED
    BY <1>15, <1>3, <2>1, <2>2 DEF Restore, Write, TypeOK
<1> QED
  BY <1>1, <1>5, <1>6, <1>7, <1>8, <1>9, <1>10, <1>11, <1>12, <1>13, <1>14,
     <1>15 DEF Next

\* The initial states have the types.
LEMMA TypeInit == Init => TypeOK
<1> SUFFICES ASSUME Init
             PROVE  TypeOK
  OBVIOUS
<1>1. PICK there \in {{}, {Other}} :
          recs = [Blank EXCEPT !.challenge = there, !.domain = {Spf}]
  BY DEF Init
<1>2. Blank \in [Places -> SUBSET Value]
  BY DEF Blank
<1>3. there \in SUBSET Value /\ {Spf} \in SUBSET Value
  BY DEF Value
<1>4. recs \in [Places -> SUBSET Value]
  BY <1>1, <1>2, <1>3
<1> QED
  BY <1>2, <1>4 DEF Init, TypeOK, Steps, Places

\* The places hold sets of values, and every client is at one of its steps.
THEOREM TypeCorrect == Spec => []TypeOK
  BY TypeInit, TypeStep, PTL DEF Spec

-----------------------------------------------------------------------------

\* Every write covers the place it is for.
LEMMA SpotInScope ==
    ASSUME TypeOK, NEW c \in Clients
    PROVE  spot[c] \in Scope(c)
  BY SpotType DEF Scope

\* A write keeps, at each place, what is there or what it was given.
LEMMA WrittenAt ==
    ASSUME TypeOK, NEW c \in Clients, NEW new, NEW p \in Places
    PROVE  /\ Written(c, new)[p] \in {recs[p], new[p]}
           /\ Written(c, new)[spot[c]] = new[spot[c]]
  BY SpotType, SpotInScope DEF Written

\* add_txt of a provider that is Sparing, or of one whose reads still hold,
\* adds and takes nothing away.
LEMMA AddGrows ==
    ASSUME IInv, NEW c \in Clients, pc[c] = "writing",
           Sparing(api) \/ Undisturbed
    PROVE  /\ \A p \in Places : recs[p] \subseteq Added(c)[p]
           /\ c \in Added(c)[spot[c]]
<1>1. /\ recs \in [Places -> SUBSET Value]
      /\ seen[c] \in [Places -> SUBSET Value]
      /\ api \in Apis
  BY DEF IInv, TypeOK
<1>2. api.add # "refuse"
  BY DEF IInv, Begun
<1>3. ASSUME NEW new \in [Places -> SUBSET Value],
             \A p \in Places : recs[p] \subseteq new[p],
             c \in new[spot[c]], Added(c) = Written(c, new)
      PROVE  /\ \A p \in Places : recs[p] \subseteq Added(c)[p]
             /\ c \in Added(c)[spot[c]]
  BY <1>3, WrittenAt, SpotType DEF IInv
<1>4. CASE api.add \in {"create", "set"}
  <2> DEFINE new == [recs EXCEPT ![spot[c]] = @ \union {c}]
  <2>1. new \in [Places -> SUBSET Value]
    BY <1>1, SpotType DEF Value
  <2>2. (\A p \in Places : recs[p] \subseteq new[p]) /\ c \in new[spot[c]]
    BY <1>1, SpotType DEF IInv
  <2>3. Added(c) = Written(c, new)
    BY <1>4 DEF Added
  <2> HIDE DEF new
  <2> QED
    BY <1>3, <2>1, <2>2, <2>3
<1>5. CASE api.add \in {"merge", "probe", "rezone"}
  <2> DEFINE new == [seen[c] EXCEPT ![spot[c]] = @ \union {c}]
  <2>1. new \in [Places -> SUBSET Value]
    BY <1>1, SpotType DEF Value
  <2>2. InWindow(c)
    BY <1>5 DEF InWindow, ReadsToAdd
  <2>3. Undisturbed
    BY <1>5 DEF Sparing
  <2>4. seen[c] = recs
    BY <2>2, <2>3 DEF IInv, Fresh
  <2>5. (\A p \in Places : recs[p] \subseteq new[p]) /\ c \in new[spot[c]]
    BY <1>1, <2>4, SpotType DEF IInv
  <2>6. Added(c) = Written(c, new)
    BY <1>5 DEF Added
  <2> HIDE DEF new
  <2> QED
    BY <1>3, <2>1, <2>5, <2>6
<1>6. CASE api.add \in {"replace", "rezoneOnly"}
  BY <1>6 DEF Sparing, Overwriting, Undisturbed
<1> QED
  BY <1>1, <1>2, <1>4, <1>5, <1>6, ApiAssumption

\* The provider that deletes the rest finds its own value in the set it has
\* read, asks for less than the set, and is refused.
LEMMA RestStays ==
    ASSUME IInv, NEW c \in Clients, pc[c] = "deleting",
           Undisturbed, api.remove = "rest"
    PROVE  Removed(c) = {recs}
<1>1. seen[c] = recs
  BY DEF IInv, Fresh, InWindow
<1>2. c \in recs[spot[c]]
  <2>1. api.answer = "checked" /\ Safe
    BY ApiAssumption DEF IInv, TypeOK, Safe
  <2>2. \A d \in Clients : pc[d] # "restoring"
    BY DEF IInv, Waiting
  <2>3. Lasts(c)
    BY ApiAssumption DEF IInv, TypeOK, Lasts
  <2> QED
    BY <2>1, <2>2, <2>3 DEF IInv, Published, There
<1>3. RestDeleted(c) = recs
  BY <1>1, <1>2 DEF RestDeleted
<1> QED
  BY <1>3 DEF Removed

\* remove_txt takes away the value of its own client only.
LEMMA RemoveSpares ==
    ASSUME IInv, NEW c \in Clients, pc[c] = "deleting",
           Sparing(api) \/ Undisturbed, api.remove # "twoWrites",
           NEW new \in Removed(c), NEW p \in Places
    PROVE  recs[p] \ new[p] \subseteq {c}
<1>1. /\ recs \in [Places -> SUBSET Value]
      /\ seen[c] \in [Places -> SUBSET Value]
      /\ api \in Apis
  BY DEF IInv, TypeOK
<1>2. recs[p] \ Without(recs, c, c)[p] \subseteq {c}
  BY <1>1, SpotType DEF Without
<1>3. CASE api.remove \in {"nothing", "byValue", "findValue"}
  <2>1. new = recs \/ new = Without(recs, c, c)
    BY <1>3 DEF Removed
  <2> QED
    BY <1>2, <2>1
<1>4. CASE api.remove = "ifSame"
  <2>1. new = recs \/ (recs[spot[c]] = {c} /\ new = Emptied(recs, c))
    BY <1>4 DEF Removed
  <2> QED
    BY <1>1, <2>1, SpotType DEF Emptied
<1>5. CASE api.remove \in {"merge", "rezone"}
  <2>1. Undisturbed /\ InWindow(c)
    BY <1>5 DEF Sparing, InWindow
  <2>2. seen[c] = recs
    BY <2>1 DEF IInv, Fresh
  <2>3. new = Written(c, Without(recs, c, c))
    BY <1>5, <2>2 DEF Removed
  <2>4. new[p] \in {recs[p], Without(recs, c, c)[p]}
    BY <2>3, WrittenAt DEF IInv
  <2> QED
    BY <1>2, <2>4
<1>6. CASE api.remove = "rest"
  <2>1. Undisturbed
    BY <1>6 DEF Sparing
  <2> QED
    BY <1>6, <2>1, RestStays
<1>7. CASE api.remove \in {"findName", "allOfName", "rezoneName"}
  BY <1>7 DEF Sparing, Overwriting, Undisturbed
<1> QED
  BY <1>1, <1>3, <1>4, <1>5, <1>6, <1>7, ApiAssumption

\* The way a provider works does not change, and what has once disturbed it
\* stays.
LEMMA Lasting ==
    ASSUME IInv, Next
    PROVE  /\ api' = api /\ layout' = layout
           /\ failed \subseteq failed'
           /\ raced => raced'
           /\ Undisturbed' => Undisturbed
           /\ Safe' => Safe
           /\ Sparing(api)' = Sparing(api)
           /\ Spot' = Spot
<1> USE DEF IInv, TypeOK
<1>1. api' = api /\ layout' = layout
  BY DEF Next, AddStart, AddRead, AddReadFails, AddDone, AddReplyLost,
         AddRefused, RemoveStart, Find, FindFails, Delete, DeleteFails,
         Restore, RestoreFails, Write, NoWrite
<1>2. failed \subseteq failed'
  BY DEF Next, AddStart, AddRead, AddReadFails, AddDone, AddReplyLost,
         AddRefused, RemoveStart, FindsZone, Find, FindFails, Delete,
         DeleteFails, Restore, RestoreFails, Fault
<1>3. raced => raced'
  BY DEF Next, AddStart, AddRead, AddReadFails, AddDone, AddReplyLost,
         AddRefused, RemoveStart, Find, FindFails, Delete, DeleteFails,
         Restore, RestoreFails, Write, NoWrite
<1>4. Spot' = Spot
  BY <1>1 DEF Spot
<1>5. Undisturbed' => Undisturbed
  <2>1. Overwriting(api)' = Overwriting(api)
    BY <1>1 DEF Overwriting
  <2>2. Misread => Misread'
    BY <1>1, <1>2 DEF Misread
  <2> QED
    BY <1>3, <2>1, <2>2 DEF Undisturbed
<1>6. Sparing(api)' = Sparing(api)
  BY <1>1 DEF Sparing
<1>7. Safe' => Safe
  BY <1>1, <1>2, <1>5, <1>6 DEF Safe
<1> QED
  BY <1>1, <1>2, <1>3, <1>4, <1>5, <1>6, <1>7

-----------------------------------------------------------------------------

\* Only a provider that can add lets a client past the start.
LEMMA BegunStep ==
    ASSUME IInv, Next
    PROVE  Begun'
<1> USE DEF IInv, TypeOK, Begun, Goto
<1>1. api' = api
  BY Lasting
<1>2. PICK c \in Clients :
          \/ AddStart(c) \/ AddRead(c) \/ AddReadFails(c)
          \/ AddDone(c) \/ AddReplyLost(c) \/ AddRefused(c)
          \/ RemoveStart(c) \/ Find(c) \/ FindFails(c)
          \/ Delete(c) \/ DeleteFails(c) \/ Restore(c) \/ RestoreFails(c)
  BY DEF Next
<1>3. CASE AddStart(c)
  BY <1>1, <1>3 DEF AddStart, FindsZone, Served
<1>4. CASE AddRead(c) \/ AddReadFails(c)
  BY <1>1, <1>4 DEF AddRead, AddReadFails
<1>5. CASE AddDone(c) \/ AddReplyLost(c) \/ AddRefused(c)
  BY <1>1, <1>5 DEF AddDone, AddReplyLost, AddRefused
<1>6. CASE RemoveStart(c) \/ Find(c) \/ FindFails(c)
  BY <1>1, <1>6 DEF RemoveStart, FindsZone, Find, FindFails
<1>7. CASE Delete(c) \/ DeleteFails(c) \/ Restore(c) \/ RestoreFails(c)
  BY <1>1, <1>7 DEF Delete, DeleteFails, Restore, RestoreFails
<1> QED
  BY <1>2, <1>3, <1>4, <1>5, <1>6, <1>7

\* Who is in a window, and has not just read, has been there before; a write
\* of another client in the meantime counts as a race.
LEMMA FreshStep ==
    ASSUME IInv, Next
    PROVE  Fresh'
<1> SUFFICES ASSUME Undisturbed', NEW d \in Clients, InWindow(d)',
                    pc'[d] # "restoring"
             PROVE  seen'[d] = recs'
  BY DEF Fresh
<1> USE DEF IInv, TypeOK, Goto
<1>1. Undisturbed /\ api' = api /\ ~raced'
  BY Lasting DEF Undisturbed
<1>2. ASSUME pc'[d] = pc[d]
      PROVE  InWindow(d) /\ seen[d] = recs
  <2>1. InWindow(d)
    BY <1>1, <1>2 DEF InWindow, ReadsToAdd
  <2> QED
    BY <1>1, <1>2, <2>1 DEF Fresh
<1>3. ASSUME NEW c \in Clients, AddStart(c) \/ RemoveStart(c)
      PROVE  seen'[d] = recs'
  <2>1. CASE c = d
    BY <1>1, <1>3, <2>1 DEF AddStart, RemoveStart, FindsZone, InWindow, ReadsToAdd,
                            ReadsToRemove
  <2>2. CASE c # d
    BY <1>2, <1>3, <2>2 DEF AddStart, RemoveStart, FindsZone, NoWrite
  <2> QED
    BY <2>1, <2>2
<1>4. ASSUME NEW c \in Clients, AddRead(c) \/ Find(c)
      PROVE  seen'[d] = recs'
  <2>1. CASE c = d
    BY <1>4, <2>1 DEF AddRead, Find
  <2>2. CASE c # d
    BY <1>2, <1>4, <2>2 DEF AddRead, Find
  <2> QED
    BY <2>1, <2>2
<1>5. ASSUME NEW c \in Clients, AddReadFails(c) \/ FindFails(c)
      PROVE  seen'[d] = recs'
  <2>1. CASE c = d
    <3>1. failed' # {}
      BY <1>5 DEF AddReadFails, FindFails, Fault
    <3>2. api.read \notin {"blind", "blindAdd", "blindRemove"}
      BY <1>1, <3>1 DEF Undisturbed, Misread
    <3>3. pc'[c] \in {"refused", "left"}
      BY <1>5, <3>2 DEF AddReadFails, FindFails
    <3> QED
      BY <2>1, <3>3 DEF InWindow
  <2>2. CASE c # d
    BY <1>2, <1>5, <2>2 DEF AddReadFails, FindFails
  <2> QED
    BY <2>1, <2>2
<1>6. ASSUME NEW c \in Clients, AddRefused(c) \/ DeleteFails(c) \/ RestoreFails(c)
      PROVE  seen'[d] = recs'
  <2>1. CASE c = d
    BY <1>6, <2>1 DEF AddRefused, DeleteFails, RestoreFails, InWindow
  <2>2. CASE c # d
    BY <1>2, <1>6, <2>2 DEF AddRefused, DeleteFails, RestoreFails, NoWrite
  <2> QED
    BY <2>1, <2>2
<1>7. ASSUME NEW c \in Clients, NEW new, Write(c, new),
             pc' \in {[pc EXCEPT ![c] = s] : s \in {"up", "refused", "left", "restoring"}}
      PROVE  seen'[d] = recs'
  <2>1. CASE c = d
    BY <1>7, <2>1 DEF InWindow
  <2>2. CASE c # d
    <3>1. InWindow(d)
      BY <1>2, <1>7, <2>2
    <3> QED
      BY <1>1, <1>7, <2>2, <3>1 DEF Write
  <2> QED
    BY <2>1, <2>2
<1>8. ASSUME NEW c \in Clients, AddDone(c) \/ AddReplyLost(c)
      PROVE  seen'[d] = recs'
  BY <1>7, <1>8 DEF AddDone, AddReplyLost
<1>9. ASSUME NEW c \in Clients, Delete(c)
      PROVE  seen'[d] = recs'
  <2>1. PICK new \in Removed(c) : Write(c, new)
    BY <1>9 DEF Delete
  <2>2. pc' \in {[pc EXCEPT ![c] = s] : s \in {"up", "refused", "left", "restoring"}}
    BY <1>9 DEF Delete, AfterDelete
  <2> QED
    BY <1>7, <2>1, <2>2
<1>10. ASSUME NEW c \in Clients, Restore(c)
       PROVE  seen'[d] = recs'
  BY <1>7, <1>10 DEF Restore
<1> QED
  BY <1>3, <1>4, <1>5, <1>6, <1>8, <1>9, <1>10 DEF Next

\* A client's place changes only when it looks for its zone.
LEMMA Moves ==
    ASSUME IInv, NEW c \in Clients,
           \/ AddStart(c) \/ AddRead(c) \/ AddReadFails(c)
           \/ AddDone(c) \/ AddReplyLost(c) \/ AddRefused(c)
           \/ RemoveStart(c) \/ Find(c) \/ FindFails(c)
           \/ Delete(c) \/ DeleteFails(c) \/ Restore(c) \/ RestoreFails(c)
    PROVE  /\ \A e \in Clients \ {c} : spot'[e] = spot[e]
           /\ pc[c] \notin {"idle", "up"} => spot' = spot
<1>1. CASE AddStart(c) \/ RemoveStart(c)
  <2>1. spot' = spot \/ \E p : spot' = [spot EXCEPT ![c] = p]
    BY <1>1 DEF AddStart, RemoveStart, FindsZone
  <2>2. pc[c] \in {"idle", "up"}
    BY <1>1 DEF AddStart, RemoveStart
  <2> QED
    BY <2>1, <2>2 DEF IInv, TypeOK
<1>2. CASE ~(AddStart(c) \/ RemoveStart(c))
  <2>1. spot' = spot
    BY <1>2 DEF AddRead, AddReadFails, AddDone, AddReplyLost, AddRefused,
                Find, FindFails, Delete, DeleteFails, Restore, RestoreFails, Write
  <2> QED
    BY <2>1
<1> QED
  BY <1>1, <1>2

\* Without a refused request a client finds the zone its provider looks for;
\* so does one whose provider would not go on after it.
LEMMA PlacedStep ==
    ASSUME IInv, Next
    PROVE  Placed'
<1> SUFFICES ASSUME NEW d \in Clients, pc'[d] \notin {"idle", "refused"},
                    api'.zone \notin Asking \/ d \notin failed'
             PROVE  spot'[d] = Spot
  BY Lasting DEF Placed
<1> USE DEF IInv, TypeOK
<1>1. api' = api /\ failed \subseteq failed'
  BY Lasting
<1>2. ASSUME pc[d] \notin {"idle", "refused"}, spot'[d] = spot[d]
      PROVE  spot'[d] = Spot
  BY <1>1, <1>2 DEF Placed
<1>3. ASSUME NEW s, FindsZone(d, s)
      PROVE  spot'[d] = Spot
  <2>1. CASE spot' = [spot EXCEPT ![d] = Spot]
    BY <2>1
  <2>2. CASE Fault(d) /\ PassedOn(api.zone, layout) # {}
    BY <1>1, <2>2 DEF Fault, PassedOn
  <2> QED
    BY <1>3, <2>1, <2>2 DEF FindsZone
<1>4. ASSUME NEW c \in Clients, AddStart(c) \/ RemoveStart(c), c = d
      PROVE  spot'[d] = Spot
  <2>1. CASE \E s : FindsZone(d, s)
    BY <1>3, <2>1
  <2>2. CASE RemoveStart(d) /\ spot' = spot
    BY <1>2, <2>2 DEF RemoveStart
  <2>3. CASE Goto(d, "refused")
    BY <2>3 DEF Goto
  <2> QED
    BY <1>4, <2>1, <2>2, <2>3 DEF AddStart, RemoveStart
<1>5. ASSUME NEW c \in Clients,
             \/ AddStart(c) \/ AddRead(c) \/ AddReadFails(c)
             \/ AddDone(c) \/ AddReplyLost(c) \/ AddRefused(c)
             \/ RemoveStart(c) \/ Find(c) \/ FindFails(c)
             \/ Delete(c) \/ DeleteFails(c) \/ Restore(c) \/ RestoreFails(c)
      PROVE  spot'[d] = Spot
  <2>1. CASE c # d
    <3>1. pc'[d] = pc[d]
      BY <1>5, <2>1 DEF AddStart, AddRead, AddReadFails, AddDone, AddReplyLost,
            AddRefused, RemoveStart, FindsZone, Find, FindFails, Delete,
            DeleteFails, Restore, RestoreFails, Goto
    <3> QED
      BY <1>2, <1>5, <2>1, <3>1, Moves
  <2>2. CASE c = d /\ ~(AddStart(c) \/ RemoveStart(c))
    <3>1. pc[d] \in {"reading", "writing", "finding", "deleting", "restoring"}
      BY <1>5, <2>2 DEF AddRead, AddReadFails, AddDone, AddReplyLost,
            AddRefused, Find, FindFails, Delete, DeleteFails, Restore, RestoreFails
    <3> QED
      BY <1>2, <1>5, <2>2, <3>1, Moves
  <2> QED
    BY <1>4, <1>5, <2>1, <2>2
<1> QED
  BY <1>5 DEF Next

\* A set that waits to be written back stays empty: whoever fills it is seen.
LEMMA WaitingStep ==
    ASSUME IInv, Next
    PROVE  Waiting'
<1> SUFFICES ASSUME NEW d \in Clients, pc'[d] = "restoring"
             PROVE  api'.remove = "twoWrites" /\ (raced' \/ recs'[spot'[d]] = {})
  BY DEF Waiting
<1> USE DEF IInv, TypeOK, Goto
<1>1. api' = api /\ (raced => raced')
  BY Lasting
<1>2. ASSUME pc[d] = "restoring", spot'[d] = spot[d], recs' = recs \/ raced'
      PROVE  api'.remove = "twoWrites" /\ (raced' \/ recs'[spot'[d]] = {})
  BY <1>1, <1>2 DEF Waiting
<1>3. ASSUME NEW c \in Clients,
             \/ AddStart(c) \/ AddRead(c) \/ AddReadFails(c) \/ AddRefused(c)
             \/ RemoveStart(c) \/ Find(c) \/ FindFails(c)
             \/ DeleteFails(c) \/ RestoreFails(c)
      PROVE  pc[d] = "restoring" /\ recs' = recs /\ spot'[d] = spot[d]
  <2>1. recs' = recs
    BY <1>3 DEF AddStart, AddRead, AddReadFails, AddRefused, RemoveStart,
                Find, FindFails, DeleteFails, RestoreFails, NoWrite
  <2>2. pc[d] = "restoring" /\ d # c
    BY <1>3 DEF AddStart, AddRead, AddReadFails, AddRefused, RemoveStart,
                FindsZone, Find, FindFails, DeleteFails, RestoreFails
  <2> QED
    BY <1>3, <2>1, <2>2, Moves
<1>4. ASSUME NEW c \in Clients, AddDone(c) \/ AddReplyLost(c) \/ Restore(c)
      PROVE  pc[d] = "restoring" /\ raced' /\ spot'[d] = spot[d]
  <2>1. pc[d] = "restoring" /\ d # c
    BY <1>4 DEF AddDone, AddReplyLost, Restore
  <2> QED
    BY <1>4, <2>1 DEF AddDone, AddReplyLost, Restore, Write, InWindow
<1>5. ASSUME NEW c \in Clients, Delete(c), c # d
      PROVE  pc[d] = "restoring" /\ raced' /\ spot'[d] = spot[d]
  <2>1. pc[d] = "restoring"
    BY <1>5 DEF Delete
  <2> QED
    BY <1>5, <2>1 DEF Delete, Write, InWindow
<1>6. ASSUME Delete(d)
      PROVE  api'.remove = "twoWrites" /\ recs'[spot'[d]] = {}
  <2>1. api.remove = "twoWrites" /\ Finds(d)
    BY <1>6 DEF Delete, AfterDelete
  <2>2. Removed(d) = {Emptied(recs, d)}
    BY <2>1 DEF Removed
  <2>3. recs' = Emptied(recs, d) /\ spot' = spot
    BY <1>6, <2>2 DEF Delete, Write
  <2> QED
    BY <1>1, <2>1, <2>3 DEF Emptied
<1> QED
  BY <1>2, <1>3, <1>4, <1>5, <1>6 DEF Next

\* The value of a client stays published in every step but its own.
LEMMA PublishedStep ==
    ASSUME IInv, Next
    PROVE  Published'
<1> SUFFICES ASSUME api'.answer = "checked", Safe', NEW d \in Clients, Lasts(d)'
             PROVE  There(d)'
  BY DEF Published
<1> USE DEF IInv, TypeOK, Goto
<1>1. api' = api /\ Spot' = Spot /\ Safe
  BY Lasting
<1>2. Sparing(api) \/ Undisturbed
  BY <1>1 DEF Safe
<1>3. ASSUME Lasts(d)
      PROVE  There(d)
  BY <1>1, <1>3 DEF Published
<1>4. ASSUME NEW c \in Clients, pc[c] # "restoring",
             \A e \in Clients \ {c} :
                 pc'[e] = pc[e] /\ seen'[e] = seen[e] /\ spot'[e] = spot[e],
             Lasts(d), spot'[d] = spot[d],
             d \in recs[spot[d]] => d \in recs'[spot[d]]
      PROVE  There(d)'
  <2>1. CASE d \in recs[spot[d]]
    BY <1>4, <2>1 DEF There
  <2>2. CASE d \notin recs[spot[d]]
    <3>1. PICK e \in Clients :
              /\ pc[e] = "restoring" /\ spot[e] = spot[d]
              /\ d \in seen[e][spot[e]] \ {e}
      BY <1>3, <1>4, <2>2 DEF There
    <3>2. /\ pc'[e] = "restoring" /\ spot'[e] = spot'[d]
          /\ d \in seen'[e][spot'[e]] \ {e}
      BY <1>4, <3>1
    <3> QED
      BY <3>2 DEF There
  <2> QED
    BY <2>1, <2>2
<1>5. ASSUME NEW c \in Clients,
             \/ AddStart(c) \/ AddRead(c) \/ AddReadFails(c)
             \/ RemoveStart(c) \/ Find(c) \/ FindFails(c)
      PROVE  There(d)'
  <2>1. /\ pc[c] # "restoring"
        /\ \A e \in Clients \ {c} : pc'[e] = pc[e] /\ seen'[e] = seen[e]
        /\ recs' = recs
    BY <1>5 DEF AddStart, AddRead, AddReadFails, RemoveStart, FindsZone, Find,
                FindFails, NoWrite
  <2>2. pc[d] \in {"up", "finding", "deleting"}
    BY <1>5 DEF AddStart, AddRead, AddReadFails, RemoveStart, FindsZone, Find,
                FindFails, Lasts
  <2>3. pc'[d] = pc[d] \/ api.zone \notin Asking
    <3>1. CASE c = d
      <4>1. pc'[d] # "up"
        BY <1>5, <3>1 DEF AddStart, AddRead, AddReadFails, RemoveStart, FindsZone,
                          Find, FindFails
      <4> QED
        BY <1>1, <4>1 DEF Lasts
    <3>2. CASE c # d
      BY <2>1, <3>2
    <3> QED
      BY <3>1, <3>2
  <2>4. Lasts(d)
    BY <1>1, <2>2, <2>3 DEF Lasts
  <2>5. spot'[d] = spot[d]
    <3>1. CASE c # d
      BY <1>5, <3>1, Moves
    <3>2. CASE c = d
      <4>1. pc'[d] # "up"
        BY <1>5, <3>2 DEF AddStart, AddRead, AddReadFails, RemoveStart, FindsZone,
                          Find, FindFails
      <4>2. api.zone \notin Asking /\ pc'[d] \in {"finding", "deleting"}
        BY <1>1, <4>1 DEF Lasts
      <4>3. spot[d] = Spot
        BY <2>2, <4>2 DEF Placed
      <4>4. spot'[d] = Spot
        BY <1>1, <4>2, PlacedStep DEF Placed
      <4> QED
        BY <4>3, <4>4
    <3> QED
      BY <3>1, <3>2
  <2> QED
    BY <1>4, <1>5, <2>1, <2>4, <2>5, Moves
<1>6. ASSUME NEW c \in Clients, AddRefused(c)
      PROVE  There(d)'
  <2>1. c # d
    BY <1>1, <1>6 DEF AddRefused, Lasts
  <2>2. /\ \A e \in Clients \ {c} : pc'[e] = pc[e] /\ seen'[e] = seen[e]
        /\ recs' = recs /\ pc[c] # "restoring" /\ spot' = spot
    BY <1>6 DEF AddRefused, NoWrite
  <2>3. Lasts(d)
    BY <1>1, <2>1, <2>2 DEF Lasts
  <2> QED
    BY <1>4, <2>2, <2>3
<1>7. ASSUME NEW c \in Clients, AddDone(c) \/ AddReplyLost(c)
      PROVE  There(d)'
  <2>1. /\ pc[c] = "writing" /\ recs' = Added(c) /\ seen' = seen /\ spot' = spot
        /\ \A e \in Clients \ {c} : pc'[e] = pc[e]
    BY <1>7 DEF AddDone, AddReplyLost, Write
  <2>2. (\A p \in Places : recs[p] \subseteq recs'[p]) /\ c \in recs'[spot[c]]
    BY <1>2, <2>1, AddGrows
  <2>3. CASE c = d
    BY <2>1, <2>2, <2>3 DEF There
  <2>4. CASE c # d
    <3>1. Lasts(d)
      BY <1>1, <2>1, <2>4 DEF Lasts
    <3> QED
      BY <1>4, <2>1, <2>2, <3>1
  <2> QED
    BY <2>3, <2>4
<1>8. ASSUME NEW c \in Clients, Delete(c)
      PROVE  There(d)'
  <2>1. PICK new \in Removed(c) : Write(c, new)
    BY <1>8 DEF Delete
  <2>2. /\ pc[c] = "deleting" /\ recs' = new /\ seen' = seen /\ spot' = spot
        /\ \A e \in Clients \ {c} : pc'[e] = pc[e]
    BY <1>8, <2>1 DEF Delete, Write
  <2>3. c # d /\ Lasts(d)
    <3>1. c # d
      BY <1>8, <2>2 DEF Delete, AfterDelete, Lasts
    <3> QED
      BY <1>1, <2>2, <3>1 DEF Lasts
  <2>4. CASE api.remove # "twoWrites"
    <3>1. \A p \in Places : recs[p] \ recs'[p] \subseteq {c}
      BY <1>2, <2>1, <2>2, <2>4, RemoveSpares
    <3> QED
      BY <1>4, <2>2, <2>3, <3>1
  <2>5. CASE api.remove = "twoWrites" /\ ~Finds(c)
    <3>1. recs' = recs
      BY <2>1, <2>2, <2>5 DEF Removed
    <3> QED
      BY <1>4, <2>2, <2>3, <3>1
  <2>6. CASE api.remove = "twoWrites" /\ Finds(c)
    <3>1. Undisturbed /\ failed' = {}
      BY <1>1, <1>2, <2>6 DEF Safe, Sparing
    <3>2. seen[c] = recs
      BY <2>2, <2>6, <3>1 DEF Fresh, InWindow
    <3>3. pc'[c] = AfterDelete(c)
      BY <1>8, <3>1 DEF Delete, Fault
    <3>4. CASE d \in recs[spot[d]] /\ spot[c] = spot[d]
      <4>1. pc'[c] = "restoring"
        BY <2>3, <2>6, <3>2, <3>3, <3>4 DEF AfterDelete
      <4>2. spot'[c] = spot'[d] /\ d \in seen'[c][spot'[c]] \ {c}
        BY <2>2, <2>3, <3>2, <3>4
      <4> QED
        BY <4>1, <4>2 DEF There
    <3>5. CASE d \notin recs[spot[d]] \/ spot[c] # spot[d]
      <4>1. recs' = Emptied(recs, c)
        BY <2>1, <2>2, <2>6 DEF Removed
      <4>2. d \in recs[spot[d]] => d \in recs'[spot[d]]
        BY <3>5, <4>1 DEF Emptied
      <4> QED
        BY <1>4, <2>2, <2>3, <4>2
    <3> QED
      BY <3>4, <3>5
  <2> QED
    BY <2>4, <2>5, <2>6
<1>9. ASSUME NEW c \in Clients, DeleteFails(c)
      PROVE  There(d)'
  <2>1. /\ pc[c] # "restoring" /\ c # d
        /\ \A e \in Clients \ {c} : pc'[e] = pc[e] /\ seen'[e] = seen[e]
        /\ recs' = recs /\ spot' = spot
    BY <1>9 DEF DeleteFails, NoWrite, Lasts
  <2>2. Lasts(d)
    BY <1>1, <2>1 DEF Lasts
  <2> QED
    BY <1>4, <2>1, <2>2
<1>10. ASSUME NEW c \in Clients, RestoreFails(c)
       PROVE  FALSE
  <2>1. api.remove = "twoWrites"
    BY <1>10 DEF RestoreFails, Waiting
  <2>2. failed' # {}
    BY <1>10 DEF RestoreFails, Fault
  <2> QED
    BY <1>1, <2>1, <2>2 DEF Safe, Sparing
<1>11. ASSUME NEW c \in Clients, Restore(c)
       PROVE  There(d)'
  <2>1. /\ pc[c] = "restoring" /\ seen' = seen /\ spot' = spot
        /\ recs' = [recs EXCEPT ![spot[c]] = seen[c][spot[c]] \ {c}]
        /\ \A e \in Clients \ {c} : pc'[e] = pc[e]
    BY <1>11 DEF Restore, Write
  <2>2. c # d
    BY <1>11 DEF Restore, Lasts
  <2>3. api.remove = "twoWrites" /\ (raced \/ recs[spot[c]] = {})
    BY <2>1 DEF Waiting
  <2>4. recs[spot[c]] = {}
    BY <1>2, <2>3 DEF Sparing, Undisturbed
  <2>5. There(d)
    BY <1>1, <1>3, <2>1, <2>2 DEF Lasts
  <2>6. CASE d \in recs[spot[d]]
    <3>1. spot[d] # spot[c]
      BY <2>4, <2>6
    <3>2. d \in recs'[spot'[d]]
      BY <2>1, <2>6, <3>1
    <3> QED
      BY <3>2 DEF There
  <2>7. CASE /\ spot[c] = spot[d] /\ d \in seen[c][spot[c]]
    <3>1. d \in recs'[spot'[d]]
      BY <2>1, <2>2, <2>7
    <3> QED
      BY <3>1 DEF There
  <2>8. ASSUME NEW e \in Clients \ {c}, pc[e] = "restoring", spot[e] = spot[d],
               d \in seen[e][spot[e]] \ {e}
        PROVE  There(d)'
    <3>1. pc'[e] = "restoring" /\ spot'[e] = spot'[d] /\ d \in seen'[e][spot'[e]] \ {e}
      BY <2>1, <2>8
    <3> QED
      BY <3>1 DEF There
  <2> QED
    BY <2>5, <2>6, <2>7, <2>8 DEF There
<1> QED
  BY <1>5, <1>6, <1>7, <1>8, <1>9, <1>10, <1>11 DEF Next

-----------------------------------------------------------------------------

\* The invariant holds initially, when nothing has been asked for yet.
LEMMA InvInit == Init => IInv
<1> SUFFICES ASSUME Init
             PROVE  IInv
  OBVIOUS
<1>1. \A c \in Clients : pc[c] = "idle"
  BY DEF Init
<1>2. \A c \in Clients : ~InWindow(c)
  BY <1>1 DEF InWindow
<1> QED
  BY <1>1, <1>2, TypeInit
     DEF IInv, Begun, Fresh, Published, Lasts, Waiting, Placed

\* Every step keeps it.
LEMMA InvStep ==
    ASSUME IInv, [Next]_vars
    PROVE  IInv'
<1>1. CASE Next
  BY <1>1, TypeStep, BegunStep, FreshStep, PublishedStep, WaitingStep, PlacedStep
     DEF IInv
<1>2. CASE UNCHANGED vars
  <2> USE <1>2 DEF vars
  <2>1. /\ TypeOK' /\ Begun' /\ Undisturbed' = Undisturbed /\ Spot' = Spot
        /\ Safe' = Safe
    BY TypeStep DEF IInv, Begun, Undisturbed, Overwriting, Misread, Spot, Safe, Sparing
  <2>2. Fresh'
    BY <2>1 DEF IInv, Fresh, InWindow, ReadsToAdd
  <2>3. Published' /\ Waiting' /\ Placed'
    BY <2>1 DEF IInv, Published, Lasts, There, Waiting, Placed
  <2> QED
    BY <2>1, <2>2, <2>3 DEF IInv
<1> QED
  BY <1>1, <1>2

\* A value that a step takes away is that of the client whose step it is.
LEMMA OwnerStep ==
    ASSUME IInv, [Next]_vars, NEW p \in Places, NEW x \in recs[p] \ recs'[p],
           ~MayLose'
    PROVE  x \in Clients /\ pc'[x] # pc[x]
<1> USE DEF IInv, TypeOK, Goto
<1>1. Next
  BY DEF vars
<1>2. /\ api' = api /\ Sparing(api)' = Sparing(api)
      /\ Undisturbed' => Undisturbed
  BY <1>1, Lasting
<1>3. Sparing(api) \/
      /\ Undisturbed'
      /\ api.remove = "twoWrites" =>
             failed' = {} /\ \A c \in Clients : pc'[c] # "restoring"
  BY <1>2 DEF MayLose, Undisturbed
<1>4. ASSUME NEW c \in Clients,
             \/ AddStart(c) \/ AddRead(c) \/ AddReadFails(c) \/ AddRefused(c)
             \/ RemoveStart(c) \/ Find(c) \/ FindFails(c)
             \/ DeleteFails(c) \/ RestoreFails(c)
      PROVE  FALSE
  BY <1>4 DEF AddStart, AddRead, AddReadFails, AddRefused, RemoveStart,
              Find, FindFails, DeleteFails, RestoreFails, NoWrite
<1>5. ASSUME NEW c \in Clients, AddDone(c) \/ AddReplyLost(c)
      PROVE  FALSE
  <2>1. recs' = Added(c) /\ pc[c] = "writing"
    BY <1>5 DEF AddDone, AddReplyLost, Write
  <2> QED
    BY <1>2, <1>3, <2>1, AddGrows
<1>6. ASSUME NEW c \in Clients, Delete(c)
      PROVE  x = c /\ pc'[c] # pc[c]
  <2>1. PICK new \in Removed(c) : Write(c, new)
    BY <1>6 DEF Delete
  <2>2. pc[c] = "deleting" /\ recs' = new /\ pc'[c] \in {"left", "restoring"}
    BY <1>6, <2>1 DEF Delete, Write, AfterDelete
  <2>3. CASE api.remove # "twoWrites"
    <3>1. recs[p] \ recs'[p] \subseteq {c}
      BY <1>2, <1>3, <2>1, <2>2, <2>3, RemoveSpares
    <3> QED
      BY <2>2, <3>1
  <2>4. CASE api.remove = "twoWrites"
    <3>1. Undisturbed /\ failed' = {} /\ pc'[c] # "restoring"
      BY <1>2, <1>3, <2>4 DEF Sparing
    <3>2. seen[c] = recs
      BY <2>2, <2>4, <3>1 DEF Fresh, InWindow
    <3>3. Finds(c) /\ recs' = Emptied(recs, c)
      BY <2>1, <2>2, <2>4 DEF Removed
    <3>4. AfterDelete(c) = "left"
      BY <1>6, <3>1 DEF Delete, Fault, AfterDelete
    <3>5. recs[spot[c]] = {c}
      BY <2>4, <3>2, <3>3, <3>4 DEF AfterDelete
    <3> QED
      BY <2>2, <3>3, <3>5 DEF Emptied
  <2> QED
    BY <2>3, <2>4
<1>7. ASSUME NEW c \in Clients, Restore(c)
      PROVE  FALSE
  <2>1. /\ pc[c] = "restoring"
        /\ recs' = [recs EXCEPT ![spot[c]] = seen[c][spot[c]] \ {c}]
    BY <1>7 DEF Restore, Write
  <2>2. api.remove = "twoWrites" /\ (raced \/ recs[spot[c]] = {})
    BY <2>1 DEF Waiting
  <2>3. recs[spot[c]] = {}
    BY <1>2, <1>3, <2>2 DEF Sparing, Undisturbed
  <2> QED
    BY <2>1, <2>3
<1> QED
  BY <1>1, <1>4, <1>5, <1>6, <1>7 DEF Next

\* With a provider that looks for the most specific hosted zone, and files the
\* record under its whole name there, resolvers see it.
LEMMA SeenByResolvers ==
    ASSUME api.zone \in {"longest", "asked", "byName"}, api.name = "full"
    PROVE  Spot = "challenge"
<1>1. Accepted(api.zone, layout) = Hosted(layout)
  BY DEF Accepted
<1>2. ZoneOf(api.zone, layout) = Authoritative(layout)
  BY <1>1 DEF ZoneOf, Authoritative
<1> QED
  BY <1>2 DEF Spot, PlaceOf

\* The invariant implies that a client that waits is published.
LEMMA InvUp == IInv => UpMeansPublished
<1> SUFFICES ASSUME IInv, NEW c \in Clients, pc[c] = "up",
                    api.answer = "checked", ~MayLose
             PROVE  c \in recs[IF Aimed(c) THEN "challenge" ELSE spot[c]]
  BY DEF UpMeansPublished
<1>1. Safe
  BY DEF MayLose, Safe, Undisturbed
<1>2. \A d \in Clients : pc[d] # "restoring"
  BY DEF MayLose, IInv, Waiting, Sparing
<1>3. c \in recs[spot[c]]
  BY <1>1, <1>2 DEF IInv, Published, Lasts, There
<1>4. ASSUME Aimed(c)
      PROVE  spot[c] = "challenge"
  <2>1. Spot = "challenge"
    BY <1>4, SeenByResolvers DEF Aimed
  <2>2. api.zone \notin Asking \/ c \notin failed
    BY <1>4 DEF Aimed, Asking
  <2> QED
    BY <2>1, <2>2 DEF IInv, Placed
<1> QED
  BY <1>3, <1>4

\* However the clients interleave and whatever fails, a value of the zone
\* disappears only in a step of the client it belongs to, with every provider
\* and account, unless the provider MayLose it.
THEOREM OwnerRemoves == Spec => OnlyItsOwnerRemoves
<1>1. IInv /\ [Next]_vars =>
          [\A p \in Places : \A x \in recs[p] \ recs'[p] :
               MayLose' \/ (x \in Clients /\ pc'[x] # pc[x])]_vars
  BY OwnerStep
<1> QED
  BY <1>1, InvInit, InvStep, PTL DEF Spec, OnlyItsOwnerRemoves

\* The value of a client that waits for its validation is where the client has
\* added it; and at the name resolvers ask for, with a provider that looks for
\* the most specific zone, unless a refused request of the client may have led
\* it to another one.
THEOREM WaitingIsPublished == Spec => []UpMeansPublished
  BY InvInit, InvStep, InvUp, PTL DEF Spec

-----------------------------------------------------------------------------

(***************************************************************************)
(* What a client leaves behind.  The value of a client that was not led to *)
(* another zone is nowhere but at the spot; the value of a client that has *)
(* added nothing is not even known to others; and as long as no write came *)
(* between another's read and its write, what a client in a window knows   *)
(* is what there is, so that a value that was removed does not come back.  *)
(***************************************************************************)
Known(x, p) == x \in recs[p] \/ \E d \in Clients : x \in seen[d][p]

InPlace ==
    \A c \in Clients \ failed, p \in Places \ {Spot} : ~Known(c, p)

Unadded ==
    \A c \in Clients :
        pc[c] \in {"idle", "reading", "writing"} \/ (pc[c] = "refused" /\ c \notin failed)
            => \A p \in Places : ~Known(c, p)

UpToDate ==
    ~raced =>
        \A c \in Clients : InWindow(c) /\ pc[c] # "restoring" =>
            seen[c] = recs \/ (c \in failed /\ seen[c] = Blank)

\* A set that is only created where there is none has one value at most.
AtMostOne(S) == \A x, y \in S : x = y

Alone ==
    api.add = "set" =>
        \A p \in Places :
            AtMostOne(recs[p]) /\ \A d \in Clients : AtMostOne(seen[d][p])

Found ==
    ~raced /\ api.remove = "findValue" =>
        \A c \in Clients :
            pc[c] = "deleting" /\ c \notin failed /\ c \in recs[Spot] => c \in seen[c][Spot]

Gone ==
    ~raced /\ api.remove \notin {"nothing", "rest", "findName"} =>
        \A c \in Clients : pc[c] \in {"left", "restoring"} /\ c \notin failed =>
            /\ c \notin recs[Spot]
            /\ \A d \in Clients \ {c} : InWindow(d) => c \notin seen[d][Spot]

LInv == IInv /\ InPlace /\ Unadded /\ UpToDate /\ Alone /\ Found /\ Gone

\* What a client does in one step.
StepOf(c) ==
    \/ AddStart(c) \/ AddRead(c) \/ AddReadFails(c)
    \/ AddDone(c) \/ AddReplyLost(c) \/ AddRefused(c)
    \/ RemoveStart(c) \/ Find(c) \/ FindFails(c)
    \/ Delete(c) \/ DeleteFails(c) \/ Restore(c) \/ RestoreFails(c)

\* A step of one client leaves the others where they are.
LEMMA OthersStay ==
    ASSUME IInv, NEW d \in Clients, StepOf(d), NEW e \in Clients \ {d}
    PROVE  /\ pc'[e] = pc[e] /\ seen'[e] = seen[e]
           /\ e \in failed' <=> e \in failed
           /\ InWindow(e)' <=> InWindow(e)
<1> USE DEF IInv, TypeOK, Goto, Fault, StepOf
<1>1. pc'[e] = pc[e]
  BY DEF AddStart, AddRead, AddReadFails, AddDone, AddReplyLost, AddRefused,
         RemoveStart, FindsZone, Find, FindFails, Delete, DeleteFails, Restore,
         RestoreFails
<1>2. seen'[e] = seen[e]
  BY DEF AddStart, AddRead, AddReadFails, AddDone, AddReplyLost, AddRefused,
         RemoveStart, Find, FindFails, Delete, DeleteFails, Restore, RestoreFails,
         Write, NoWrite
<1>3. e \in failed' <=> e \in failed
  BY DEF AddStart, AddRead, AddReadFails, AddDone, AddReplyLost, AddRefused,
         RemoveStart, FindsZone, Find, FindFails, Delete, DeleteFails, Restore,
         RestoreFails
<1>4. api' = api
  BY Lasting DEF Next
<1>5. InWindow(e)' <=> InWindow(e)
  BY <1>1, <1>4 DEF InWindow, ReadsToAdd
<1> QED
  BY <1>1, <1>2, <1>3, <1>5

\* The three ways a step changes what is there; each tells whether another
\* client has read before.
LEMMA WriteCases ==
    ASSUME IInv, NEW d \in Clients, StepOf(d), recs' # recs
    PROVE  /\ raced' = (raced \/ \E e \in Clients \ {d} : InWindow(e))
           /\ seen' = seen /\ spot' = spot
           /\ \/ /\ AddDone(d) \/ AddReplyLost(d)
                 /\ pc[d] = "writing" /\ Accepts(d) /\ recs' = Added(d)
              \/ Delete(d) /\ pc[d] = "deleting" /\ recs' \in Removed(d)
              \/ /\ Restore(d) /\ pc[d] = "restoring"
                 /\ recs' = [recs EXCEPT ![spot[d]] = seen[d][spot[d]] \ {d}]
  BY DEF StepOf, AddStart, AddRead, AddReadFails, AddDone, AddReplyLost,
         AddRefused, RemoveStart, Find, FindFails, Delete, DeleteFails,
         Restore, RestoreFails, Write, NoWrite

\* A client reads what is there, or takes a failed read for an empty answer;
\* whatever opens its window is such a read.
LEMMA ReadCases ==
    ASSUME IInv, NEW d \in Clients, StepOf(d)
    PROVE  /\ seen'[d] \in {seen[d], recs, Blank}
           /\ InWindow(d)' =>
                \/ seen'[d] = recs /\ recs' = recs
                \/ seen'[d] = Blank /\ d \in failed' /\ recs' = recs
                \/ pc'[d] = "restoring" /\ InWindow(d) /\ seen'[d] = seen[d]
<1> USE DEF IInv, TypeOK, Goto, Fault, StepOf
<1>1. api' = api
  BY Lasting DEF Next
<1>2. CASE AddRead(d) \/ Find(d)
  BY <1>2 DEF AddRead, Find
<1>3. CASE AddReadFails(d) \/ FindFails(d)
  <2>1. CASE seen' = [seen EXCEPT ![d] = Blank]
    BY <1>3, <2>1 DEF AddReadFails, FindFails
  <2>2. CASE seen' = seen
    BY <1>1, <1>3, <2>2 DEF AddReadFails, FindFails, InWindow
  <2> QED
    BY <1>3, <2>1, <2>2 DEF AddReadFails, FindFails
<1>4. CASE AddStart(d)
  <2>1. pc'[d] \in {"reading", "writing", "refused"} /\ seen' = seen
    BY <1>4 DEF AddStart, FindsZone, NoWrite
  <2>2. pc'[d] = "writing" => ~ReadsToAdd
    BY <1>4 DEF AddStart, FindsZone
  <2> QED
    BY <1>1, <2>1, <2>2 DEF InWindow, ReadsToAdd
<1>5. CASE RemoveStart(d)
  <2>1. pc'[d] \in {"finding", "deleting", "left"} /\ seen' = seen
    BY <1>5 DEF RemoveStart, FindsZone, NoWrite
  <2>2. pc'[d] = "deleting" => ~ReadsToRemove
    BY <1>5 DEF RemoveStart, FindsZone
  <2> QED
    BY <1>1, <2>1, <2>2 DEF InWindow, ReadsToRemove
<1>6. CASE AddDone(d) \/ AddReplyLost(d) \/ AddRefused(d)
  <2>1. pc'[d] \in {"up", "refused"} /\ seen' = seen
    BY <1>6 DEF AddDone, AddReplyLost, AddRefused, Write, NoWrite
  <2> QED
    BY <1>1, <2>1 DEF InWindow
<1>7. CASE DeleteFails(d) \/ Restore(d) \/ RestoreFails(d)
  <2>1. pc'[d] = "left" /\ seen' = seen
    BY <1>7 DEF DeleteFails, Restore, RestoreFails, Write, NoWrite
  <2> QED
    BY <1>1, <2>1 DEF InWindow
<1>8. CASE Delete(d)
  <2>1. /\ pc[d] = "deleting" /\ seen' = seen
        /\ pc'[d] = "left" \/ (pc'[d] = "restoring" /\ api.remove = "twoWrites")
    BY <1>8 DEF Delete, Write, AfterDelete
  <2> QED
    BY <1>1, <2>1 DEF InWindow
<1> QED
  BY <1>2, <1>3, <1>4, <1>5, <1>6, <1>7, <1>8

\* add_txt writes nothing that is not known already but the client's value.
LEMMA AddsKnown ==
    ASSUME IInv, NEW d \in Clients, NEW p \in Places, NEW x \in Added(d)[p]
    PROVE  \/ x = d /\ p = spot[d]
           \/ x \in recs[p]
           \/ api.add \notin {"create", "set", "replace"} /\ x \in seen[d][p]
<1>1. /\ recs \in [Places -> SUBSET Value]
      /\ seen[d] \in [Places -> SUBSET Value]
  BY DEF IInv, TypeOK
<1>2. ASSUME NEW k \in [Places -> SUBSET Value],
             NEW new \in {[k EXCEPT ![spot[d]] = @ \union {d}], [k EXCEPT ![spot[d]] = {d}]},
             Added(d) = Written(d, new)
      PROVE  (x = d /\ p = spot[d]) \/ x \in recs[p] \/ x \in k[p]
  BY <1>2, WrittenAt, SpotType DEF IInv
<1>3. CASE api.add \in {"create", "set"}
  BY <1>1, <1>2, <1>3 DEF Added
<1>4. CASE api.add = "replace"
  BY <1>1, <1>2, <1>4 DEF Added
<1>5. CASE api.add \notin {"create", "set", "replace"}
  BY <1>1, <1>2, <1>5 DEF Added
<1> QED
  BY <1>3, <1>4, <1>5

\* Nor does remove_txt; it writes what was read only from within a window.
LEMMA RemovesKnown ==
    ASSUME IInv, NEW d \in Clients, pc[d] = "deleting",
           NEW new \in Removed(d), NEW p \in Places, NEW x \in new[p]
    PROVE  x \in recs[p] \/ (InWindow(d) /\ x \in seen[d][p])
<1>1. /\ recs \in [Places -> SUBSET Value]
      /\ seen[d] \in [Places -> SUBSET Value]
      /\ api \in Apis
  BY DEF IInv, TypeOK
<1>2. \A k \in [Places -> SUBSET Value] : \A y :
          /\ Without(k, d, y)[p] \subseteq k[p]
          /\ Emptied(k, d)[p] \subseteq k[p]
  BY SpotType DEF Without, Emptied
<1>3. CASE api.remove \in {"nothing", "byValue", "findValue", "allOfName"}
  BY <1>1, <1>2, <1>3 DEF Removed
<1>4. CASE api.remove \in {"ifSame", "twoWrites"}
  BY <1>1, <1>2, <1>4 DEF Removed
<1>5. CASE api.remove = "rest"
  BY <1>1, <1>2, <1>5 DEF Removed, RestDeleted
<1>6. CASE api.remove = "findName"
  BY <1>1, <1>2, <1>6 DEF Removed, FirstFound
<1>7. CASE api.remove \in {"merge", "rezone", "rezoneName"}
  <2>1. InWindow(d)
    BY <1>7 DEF InWindow
  <2>2. new \in {Written(d, Without(seen[d], d, d)), Written(d, Emptied(seen[d], d))}
    BY <1>7 DEF Removed
  <2>3. new[p] \in {recs[p], Without(seen[d], d, d)[p], Emptied(seen[d], d)[p]}
    BY <2>2, WrittenAt DEF IInv
  <2> QED
    BY <1>1, <1>2, <2>1, <2>3
<1> QED
  BY <1>1, <1>3, <1>4, <1>5, <1>6, <1>7, ApiAssumption

\* A step makes no value known but that of the client that adds it.
LEMMA KnownStep ==
    ASSUME IInv, NEW d \in Clients, StepOf(d),
           NEW x, NEW p \in Places, Known(x, p)'
    PROVE  \/ Known(x, p)
           \/ x = d /\ p = spot[d] /\ (AddDone(d) \/ AddReplyLost(d))
<1>1. CASE x \in recs'[p]
  <2>1. CASE recs' = recs
    BY <1>1, <2>1 DEF Known
  <2>2. CASE recs' # recs /\ Delete(d) /\ pc[d] = "deleting" /\ recs' \in Removed(d)
    BY <1>1, <2>2, RemovesKnown DEF Known
  <2>3. CASE /\ AddDone(d) \/ AddReplyLost(d)
             /\ recs' = Added(d)
    BY <1>1, <2>3, AddsKnown DEF Known
  <2>4. CASE recs' = [recs EXCEPT ![spot[d]] = seen[d][spot[d]] \ {d}]
    BY <1>1, <2>4, SpotType DEF Known, IInv, TypeOK
  <2> QED
    BY <2>1, <2>2, <2>3, <2>4, WriteCases
<1>2. CASE \E e \in Clients : x \in seen'[e][p]
  <2>1. PICK e \in Clients : x \in seen'[e][p]
    BY <1>2
  <2>2. seen'[e] \in {seen[e], recs, Blank}
    BY OthersStay, ReadCases
  <2>3. x \notin Blank[p]
    BY DEF Blank
  <2> QED
    BY <2>1, <2>2, <2>3 DEF Known
<1> QED
  BY <1>1, <1>2 DEF Known

\* As long as no write came in between, a value of another client that is
\* there after a step was there before, unless a deleted set is written back.
LEMMA NoReturn ==
    ASSUME IInv, UpToDate, ~raced, NEW d \in Clients, StepOf(d),
           NEW p \in Places, NEW x \in Clients \ {d}, x \in recs'[p]
    PROVE  x \in recs[p] \/ (pc[d] = "restoring" /\ x \in seen[d][p])
<1>1. api \in Apis /\ x \notin Blank[p]
  BY DEF IInv, TypeOK, Blank
<1>2. CASE recs' = recs
  BY <1>2
<1>3. CASE recs' # recs /\ Delete(d) /\ pc[d] = "deleting" /\ recs' \in Removed(d)
  <2>1. x \in recs[p] \/ (InWindow(d) /\ x \in seen[d][p])
    BY <1>3, RemovesKnown
  <2> QED
    BY <1>1, <1>3, <2>1 DEF UpToDate
<1>4. CASE pc[d] = "writing" /\ recs' = Added(d)
  <2>1. x \in recs[p] \/
        (api.add \notin {"create", "set", "replace"} /\ x \in seen[d][p])
    BY <1>4, AddsKnown
  <2>2. api.add # "refuse"
    BY <1>4 DEF IInv, Begun
  <2>3. api.add \notin {"create", "set", "replace"} => InWindow(d)
    BY <1>1, <1>4, <2>2, ApiAssumption DEF InWindow, ReadsToAdd
  <2> QED
    BY <1>1, <1>4, <2>1, <2>3 DEF UpToDate
<1>5. CASE /\ pc[d] = "restoring"
           /\ recs' = [recs EXCEPT ![spot[d]] = seen[d][spot[d]] \ {d}]
  BY <1>5, SpotType DEF IInv, TypeOK
<1> QED
  BY <1>2, <1>3, <1>4, <1>5, WriteCases

-----------------------------------------------------------------------------

\* A client's value gets nowhere but to the spot, unless it was led to
\* another zone.
LEMMA InPlaceStep ==
    ASSUME IInv, InPlace, NEW d \in Clients, StepOf(d)
    PROVE  InPlace'
<1> SUFFICES ASSUME NEW c \in Clients, c \notin failed', NEW p \in Places,
                    p # Spot', Known(c, p)'
             PROVE  FALSE
  BY DEF InPlace
<1>1. Spot' = Spot /\ c \notin failed
  BY Lasting DEF Next, StepOf
<1>2. c = d /\ p = spot[d] /\ (AddDone(d) \/ AddReplyLost(d))
  BY <1>1, KnownStep DEF InPlace
<1>3. pc[c] = "writing"
  BY <1>2 DEF AddDone, AddReplyLost
<1>4. spot[c] = Spot
  BY <1>1, <1>3 DEF IInv, Placed
<1> QED
  BY <1>1, <1>2, <1>4

\* Nobody knows the value of a client that has not added it yet, or that was
\* refused for certain.
LEMMA UnaddedStep ==
    ASSUME IInv, Unadded, NEW d \in Clients, StepOf(d)
    PROVE  Unadded'
<1> SUFFICES ASSUME NEW c \in Clients, NEW p \in Places, Known(c, p)',
                    \/ pc'[c] \in {"idle", "reading", "writing"}
                    \/ pc'[c] = "refused" /\ c \notin failed'
             PROVE  FALSE
  BY DEF Unadded
<1>1. failed \subseteq failed'
  BY Lasting DEF Next, StepOf
<1>2. Known(c, p) \/ (c = d /\ (AddDone(d) \/ AddReplyLost(d)))
  BY KnownStep
<1>3. CASE c = d
  <2> USE DEF IInv, TypeOK, Goto, Fault
  <2>1. CASE AddDone(d) \/ AddReplyLost(d)
    BY <1>3, <2>1 DEF AddDone, AddReplyLost
  <2>2. CASE \/ AddStart(d) \/ AddRead(d) \/ AddReadFails(d) \/ AddRefused(d)
    <3>1. pc[d] \in {"idle", "reading", "writing"}
      BY <2>2 DEF AddStart, AddRead, AddReadFails, AddRefused
    <3>2. ~Known(c, p)
      BY <1>3, <3>1 DEF Unadded
    <3> QED
      BY <1>2, <2>1, <3>2
  <2>3. CASE \/ RemoveStart(d) \/ Find(d) \/ FindFails(d) \/ Delete(d)
             \/ DeleteFails(d) \/ Restore(d) \/ RestoreFails(d)
    <3>1. pc'[d] \in {"finding", "deleting", "left", "restoring"}
      BY <2>3 DEF RemoveStart, FindsZone, Find, FindFails, Delete, AfterDelete,
                  DeleteFails, Restore, RestoreFails
    <3> QED
      BY <1>3, <3>1
  <2> QED
    BY <2>1, <2>2, <2>3 DEF StepOf
<1>4. CASE c # d
  BY <1>2, <1>4, OthersStay DEF Unadded
<1> QED
  BY <1>3, <1>4

\* What a client in a window knows is what there is.
LEMMA UpToDateStep ==
    ASSUME IInv, UpToDate, NEW d \in Clients, StepOf(d)
    PROVE  UpToDate'
<1> SUFFICES ASSUME ~raced', NEW c \in Clients, InWindow(c)', pc'[c] # "restoring"
             PROVE  seen'[c] = recs' \/ (c \in failed' /\ seen'[c] = Blank)
  BY DEF UpToDate
<1>1. ~raced
  BY Lasting DEF Next, StepOf
<1>2. CASE c = d
  BY <1>2, ReadCases
<1>3. CASE c # d
  <2>1. /\ pc'[c] = pc[c] /\ seen'[c] = seen[c] /\ InWindow(c)
        /\ c \in failed <=> c \in failed'
    BY <1>3, OthersStay
  <2>2. recs' = recs
    BY <1>3, <2>1, WriteCases
  <2> QED
    BY <1>1, <2>1, <2>2 DEF UpToDate
<1> QED
  BY <1>2, <1>3

\* remove_txt leaves at each place some of what is there, or of what was read.
LEMMA SomeRemains ==
    ASSUME IInv, NEW d \in Clients, NEW new \in Removed(d), NEW p \in Places
    PROVE  new[p] \subseteq recs[p] \/ new[p] \subseteq seen[d][p]
<1>1. /\ recs \in [Places -> SUBSET Value]
      /\ seen[d] \in [Places -> SUBSET Value]
      /\ api \in Apis /\ TypeOK
  BY DEF IInv, TypeOK
<1>2. \A k \in [Places -> SUBSET Value] : \A y :
          /\ Without(k, d, y)[p] \subseteq k[p]
          /\ Emptied(k, d)[p] \subseteq k[p]
  BY <1>1, SpotType DEF Without, Emptied
<1>3. CASE api.remove \in {"nothing", "byValue", "findValue", "allOfName"}
  BY <1>1, <1>2, <1>3 DEF Removed
<1>4. CASE api.remove \in {"ifSame", "twoWrites"}
  BY <1>1, <1>2, <1>4 DEF Removed
<1>5. CASE api.remove = "rest"
  BY <1>1, <1>2, <1>5 DEF Removed, RestDeleted
<1>6. CASE api.remove = "findName"
  BY <1>1, <1>2, <1>6 DEF Removed, FirstFound
<1>7. CASE api.remove \in {"merge", "rezone", "rezoneName"}
  <2>1. new \in {Written(d, Without(seen[d], d, d)), Written(d, Emptied(seen[d], d))}
    BY <1>7 DEF Removed
  <2>2. new[p] \in {recs[p], Without(seen[d], d, d)[p], Emptied(seen[d], d)[p]}
    BY <1>1, <2>1, WrittenAt
  <2> QED
    BY <1>1, <1>2, <2>2
<1> QED
  BY <1>1, <1>3, <1>4, <1>5, <1>6, <1>7, ApiAssumption

\* A set that is only created where there is none never has two values.
LEMMA AloneStep ==
    ASSUME IInv, Alone, NEW d \in Clients, StepOf(d)
    PROVE  Alone'
<1> SUFFICES ASSUME api'.add = "set", NEW p \in Places
             PROVE  /\ AtMostOne(recs'[p])
                    /\ \A e \in Clients : AtMostOne(seen'[e][p])
  BY DEF Alone, AtMostOne
<1>1. api' = api
  BY Lasting DEF Next, StepOf
<1>2. AtMostOne(recs[p]) /\ \A e \in Clients : AtMostOne(seen[e][p])
  BY <1>1 DEF Alone
<1>3. \A S, T : AtMostOne(T) /\ S \subseteq T => AtMostOne(S)
  BY DEF AtMostOne
<1>4. AtMostOne(recs'[p])
  <2>1. CASE recs' = recs
    BY <1>2, <2>1
  <2>2. CASE Accepts(d) /\ recs' = Added(d)
    <3> DEFINE new == [recs EXCEPT ![spot[d]] = @ \union {d}]
    <3>1. recs[spot[d]] = {} /\ spot[d] \in Places
      BY <1>1, <2>2, SpotType DEF Accepts, IInv
    <3>2. recs' = Written(d, new)
      BY <1>1, <2>2 DEF Added
    <3>3. recs'[p] \in {recs[p], new[p]}
      BY <3>2, WrittenAt DEF IInv
    <3>4. new[p] \in {recs[p], {d}}
      BY <3>1 DEF IInv, TypeOK
    <3> QED
      BY <1>2, <3>3, <3>4 DEF AtMostOne
  <2>3. CASE pc[d] = "deleting" /\ recs' \in Removed(d)
    <3>1. recs'[p] \subseteq recs[p] \/ recs'[p] \subseteq seen[d][p]
      BY <1>1, <2>3, SomeRemains
    <3> QED
      BY <1>2, <1>3, <3>1
  <2>4. CASE recs' = [recs EXCEPT ![spot[d]] = seen[d][spot[d]] \ {d}]
    <3>1. recs'[p] \subseteq recs[p] \/ recs'[p] \subseteq seen[d][p]
      BY <2>4 DEF IInv, TypeOK
    <3> QED
      BY <1>2, <1>3, <3>1
  <2> QED
    BY <2>1, <2>2, <2>3, <2>4, WriteCases
<1>5. ASSUME NEW e \in Clients
      PROVE  AtMostOne(seen'[e][p])
  <2>1. seen'[e] \in {seen[e], recs, Blank}
    BY OthersStay, ReadCases
  <2>2. AtMostOne(Blank[p])
    BY DEF Blank, AtMostOne
  <2> QED
    BY <1>2, <2>1, <2>2
<1> QED
  BY <1>4, <1>5

\* A provider that looks for the value finds it as long as it is there.
LEMMA FoundStep ==
    ASSUME IInv, UpToDate, Found, NEW d \in Clients, StepOf(d)
    PROVE  Found'
<1> SUFFICES ASSUME ~raced', api'.remove = "findValue", NEW c \in Clients,
                    pc'[c] = "deleting", c \notin failed', c \in recs'[Spot']
             PROVE  c \in seen'[c][Spot']
  BY DEF Found
<1>1. api' = api /\ Spot' = Spot /\ ~raced
  BY Lasting DEF Next, StepOf
<1>2. CASE c = d
  <2> USE DEF IInv, TypeOK, Goto, Fault
  <2>1. CASE Find(d)
    BY <1>1, <1>2, <2>1 DEF Find
  <2>2. CASE RemoveStart(d)
    BY <1>1, <1>2, <2>2 DEF RemoveStart, FindsZone, ReadsToRemove
  <2>3. CASE FindFails(d) \/ DeleteFails(d) \/ RestoreFails(d)
    BY <1>2, <2>3 DEF FindFails, DeleteFails, RestoreFails
  <2>4. CASE Delete(d) \/ Restore(d)
    BY <1>2, <2>4 DEF Delete, AfterDelete, Restore
  <2>5. CASE \/ AddStart(d) \/ AddRead(d) \/ AddReadFails(d)
             \/ AddDone(d) \/ AddReplyLost(d) \/ AddRefused(d)
    BY <1>2, <2>5 DEF AddStart, FindsZone, AddRead, AddReadFails, AddDone,
                      AddReplyLost, AddRefused
  <2> QED
    BY <2>1, <2>2, <2>3, <2>4, <2>5 DEF StepOf
<1>3. CASE c # d
  <2>1. pc'[c] = pc[c] /\ seen'[c] = seen[c] /\ c \notin failed
    BY <1>3, OthersStay
  <2>2. pc[d] # "restoring"
    BY <1>1 DEF IInv, Waiting
  <2>3. c \in recs[Spot]
    BY <1>1, <1>3, <2>2, NoReturn, SpotType
  <2> QED
    BY <1>1, <2>1, <2>3 DEF Found
<1> QED
  BY <1>2, <1>3

\* What a client's request to remove leaves does not have its value.
LEMMA Removes ==
    ASSUME IInv, UpToDate, Alone, Found, ~raced,
           api.remove \notin {"nothing", "rest", "findName"},
           NEW c \in Clients, pc[c] = "deleting", c \notin failed,
           NEW new \in Removed(c)
    PROVE  c \notin new[Spot]
<1>1. /\ recs \in [Places -> SUBSET Value]
      /\ seen[c] \in [Places -> SUBSET Value]
      /\ api \in Apis /\ TypeOK
      /\ spot[c] = Spot
  BY DEF IInv, TypeOK, Placed
<1>2. \A k \in [Places -> SUBSET Value] :
          c \notin Without(k, c, c)[Spot] /\ Emptied(k, c)[Spot] = {}
  BY <1>1, SpotType DEF Without, Emptied
<1>3. CASE api.remove \in {"byValue", "allOfName"}
  BY <1>1, <1>2, <1>3 DEF Removed
<1>4. CASE api.remove = "findValue"
  BY <1>1, <1>2, <1>4 DEF Removed, Found, Finds
<1>5. CASE api.remove = "ifSame"
  <2>1. AtMostOne(recs[Spot])
    BY <1>1, <1>5, ApiAssumption, SpotType DEF Alone
  <2>2. c \in recs[Spot] => recs[Spot] = {c}
    BY <2>1 DEF AtMostOne
  <2> QED
    BY <1>1, <1>2, <1>5, <2>2 DEF Removed
<1>6. CASE api.remove = "twoWrites"
  <2>1. seen[c] = recs
    BY <1>6 DEF UpToDate, InWindow
  <2> QED
    BY <1>1, <1>2, <1>6, <2>1 DEF Removed, Finds
<1>7. CASE api.remove \in {"merge", "rezone", "rezoneName"}
  BY <1>1, <1>2, <1>7, SpotType, WrittenAt DEF Removed
<1> QED
  BY <1>1, <1>3, <1>4, <1>5, <1>6, <1>7, ApiAssumption

\* A value that a client has removed stays away.
LEMMA GoneStep ==
    ASSUME IInv, UpToDate, Alone, Found, Gone, NEW d \in Clients, StepOf(d)
    PROVE  Gone'
<1> SUFFICES ASSUME ~raced', api'.remove \notin {"nothing", "rest", "findName"},
                    NEW c \in Clients, pc'[c] \in {"left", "restoring"}, c \notin failed'
             PROVE  /\ c \notin recs'[Spot']
                    /\ \A e \in Clients \ {c} : InWindow(e)' => c \notin seen'[e][Spot']
  BY DEF Gone
<1>1. api' = api /\ Spot' = Spot /\ ~raced /\ failed \subseteq failed'
  BY Lasting DEF Next, StepOf
<1>2. CASE c = d
  <2> USE DEF IInv, TypeOK, Goto, Fault
  <2>1. CASE Delete(d)
    <3>1. pc[d] = "deleting" /\ recs' \in Removed(d)
      BY <2>1 DEF Delete, Write
    <3>2. c \notin recs'[Spot]
      BY <1>1, <1>2, <3>1, Removes
    <3>3. \A e \in Clients \ {d} : ~InWindow(e)
      BY <2>1 DEF Delete, Write
    <3> QED
      BY <1>1, <1>2, <3>2, <3>3, OthersStay
  <2>2. CASE Restore(d)
    <3>1. recs' = [recs EXCEPT ![Spot] = seen[d][Spot] \ {d}]
      BY <1>1, <1>2, <2>2 DEF Restore, Write, Placed
    <3>2. \A e \in Clients \ {d} : ~InWindow(e)
      BY <2>2 DEF Restore, Write
    <3> QED
      BY <1>1, <1>2, <3>1, <3>2, SpotType, OthersStay
  <2>3. CASE \/ RemoveStart(d) \/ FindFails(d) \/ DeleteFails(d) \/ RestoreFails(d)
    BY <1>2, <2>3 DEF RemoveStart, FindsZone, FindFails, DeleteFails, RestoreFails
  <2>4. CASE \/ AddStart(d) \/ AddRead(d) \/ AddReadFails(d) \/ Find(d)
             \/ AddDone(d) \/ AddReplyLost(d) \/ AddRefused(d)
    BY <1>2, <2>4 DEF AddStart, FindsZone, AddRead, AddReadFails, Find, AddDone,
                      AddReplyLost, AddRefused
  <2> QED
    BY <2>1, <2>2, <2>3, <2>4 DEF StepOf
<1>3. CASE c # d
  <2>1. pc'[c] = pc[c] /\ c \notin failed
    BY <1>3, OthersStay
  <2>2. /\ c \notin recs[Spot]
        /\ \A e \in Clients \ {c} : InWindow(e) => c \notin seen[e][Spot]
    BY <1>1, <2>1 DEF Gone
  <2>3. c \notin recs'[Spot]
    <3>1. pc[d] = "restoring" => InWindow(d)
      BY DEF InWindow
    <3> QED
      BY <1>1, <1>3, <2>2, <3>1, NoReturn, SpotType
  <2>4. ASSUME NEW e \in Clients \ {c}, InWindow(e)'
        PROVE  c \notin seen'[e][Spot]
    <3>1. CASE e = d
      <4>1. seen'[d] \in {recs, Blank} \/ (InWindow(d) /\ seen'[d] = seen[d])
        BY <2>4, <3>1, ReadCases
      <4>2. c \notin Blank[Spot]
        BY SpotType DEF Blank
      <4> QED
        BY <2>2, <3>1, <4>1, <4>2
    <3>2. CASE e # d
      BY <2>2, <2>4, <3>2, OthersStay
    <3> QED
      BY <3>1, <3>2
  <2> QED
    BY <1>1, <2>3, <2>4
<1> QED
  BY <1>2, <1>3

\* The invariant holds when nothing has been asked for yet.
LEMMA LeavesInit == Init => LInv
<1> SUFFICES ASSUME Init
             PROVE  LInv
  OBVIOUS
<1>1. IInv
  BY InvInit
<1>2. PICK there \in {{}, {Other}} :
          recs = [Blank EXCEPT !.challenge = there, !.domain = {Spf}]
  BY DEF Init
<1>3. /\ recs["challenge"] = there /\ recs["domain"] = {Spf}
      /\ recs["misnamed"] = {} /\ recs["elsewhere"] = {}
  BY <1>2 DEF Blank, Places
<1>4. \A d \in Clients, p \in Places : seen[d][p] = {}
  BY DEF Init, Blank
<1>5. \A c \in Clients, p \in Places : ~Known(c, p)
  BY <1>3, <1>4, OtherAssumption DEF Known, Places
<1>6. \A p \in Places : AtMostOne(recs[p]) /\ \A d \in Clients : AtMostOne(seen[d][p])
  BY <1>3, <1>4 DEF Places, AtMostOne
<1>7. \A c \in Clients : pc[c] = "idle"
  BY DEF Init
<1>8. InPlace /\ Unadded
  BY <1>5, SpotType DEF InPlace, Unadded
<1>9. UpToDate /\ Found /\ Gone
  BY <1>7 DEF UpToDate, Found, Gone, InWindow
<1>10. Alone
  BY <1>6, SpotType DEF Alone
<1> QED
  BY <1>1, <1>8, <1>9, <1>10 DEF LInv

\* Every step keeps it.
LEMMA LeavesStep ==
    ASSUME LInv, [Next]_vars
    PROVE  LInv'
<1>1. IInv'
  BY InvStep DEF LInv
<1>2. CASE Next
  <2>1. PICK d \in Clients : StepOf(d)
    BY <1>2 DEF Next, StepOf
  <2> QED
    BY <1>1, <2>1, InPlaceStep, UnaddedStep, UpToDateStep, AloneStep, FoundStep,
       GoneStep DEF LInv
<1>3. CASE UNCHANGED vars
  <2> USE <1>3 DEF vars
  <2>1. Spot' = Spot /\ \A c \in Clients : InWindow(c)' <=> InWindow(c)
    BY DEF Spot, InWindow, ReadsToAdd
  <2>2. InPlace' /\ Unadded'
    BY <2>1 DEF LInv, InPlace, Unadded, Known
  <2>3. UpToDate' /\ Alone' /\ Found' /\ Gone'
    BY <2>1 DEF LInv, UpToDate, Alone, Found, Gone, AtMostOne
  <2> QED
    BY <1>1, <2>2, <2>3 DEF LInv
<1> QED
  BY <1>2, <1>3

\* A client that is through, and none of whose requests failed, has left
\* nothing behind, with every provider that removes what it is asked to,
\* unless another one writes back what it had read of it.
THEOREM LeavesNothing == Spec => []NothingLeft
<1>1. LInv => NothingLeft
  <2> SUFFICES ASSUME LInv, NEW c \in Clients, NEW p \in Places,
                      pc[c] \in {"left", "refused"}, c \notin failed, ~raced,
                      api.remove \notin {"nothing", "rest", "findName"}
               PROVE  c \notin recs[p]
    BY DEF NothingLeft
  <2>1. CASE p # Spot
    BY <2>1 DEF LInv, InPlace, Known
  <2>2. CASE p = Spot /\ pc[c] = "refused"
    BY <2>2 DEF LInv, Unadded, Known
  <2>3. CASE p = Spot /\ pc[c] = "left"
    BY <2>3 DEF LInv, Gone
  <2> QED
    BY <2>1, <2>2, <2>3
<1> QED
  BY <1>1, LeavesInit, LeavesStep, PTL DEF Spec

=============================================================================
