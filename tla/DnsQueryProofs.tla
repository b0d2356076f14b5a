--------------------------- MODULE DnsQueryProofs ---------------------------
(***************************************************************************)
(* Proofs about DnsQuery, for every message, any number of resolvers and   *)
(* any timeout: the types, that the parser stays inside the message, the   *)
(* bound on the overrun of the poll, and that what is decoded is what the  *)
(* message was encoded from.                                               *)
(***************************************************************************)
EXTENDS DnsMessage, SequenceTheorems, TLAPS

(***************************************************************************)
(* Bytes, words and the labels cut out of a message.                       *)
(***************************************************************************)
LEMMA ByteTypes ==
    ASSUME reply \in Reply
    PROVE  /\ reply.bytes \in Seq(0..255) /\ Size \in Nat /\ Size = Len(reply.bytes)
           /\ \A p \in Nat : Byte(p) \in 0..255 /\ Word(p) \in Nat
<1>1. reply.bytes \in Seq(0..255)
  BY DEF Reply
<1>2. Size \in Nat /\ Size = Len(reply.bytes)
  BY <1>1 DEF Size
<1>3. ASSUME NEW p \in Nat PROVE Byte(p) \in 0..255
  <2>1. CASE p < Size
    <3>1. p + 1 \in 1..Len(reply.bytes)
      BY <1>2, <2>1
    <3>2. reply.bytes[p + 1] \in 0..255
      BY <1>1, <3>1, ElementOfSeq
    <3>. QED  BY <2>1, <3>2 DEF Byte
  <2>2. CASE ~(p < Size)
    BY <2>2 DEF Byte
  <2>. QED  BY <2>1, <2>2
<1>4. ASSUME NEW p \in Nat PROVE Word(p) \in Nat
  <2>1. Byte(p) \in Nat /\ Byte(p + 1) \in Nat
    BY <1>3
  <2>. HIDE DEF Byte
  <2>2. \A m, n \in Nat : 256 * m + n \in Nat
    OBVIOUS
  <2>. QED  BY <2>1, <2>2 DEF Word
<1>. QED  BY <1>1, <1>2, <1>3, <1>4

LEMMA SliceTypes ==
    ASSUME reply \in Reply, NEW p \in Nat \ {0}, NEW n \in Nat, n <= Size
    PROVE  SubSeq(reply.bytes, p, n) \in Text
<1>1. reply.bytes \in Seq(0..255) /\ Size = Len(reply.bytes)
  BY ByteTypes
<1>2. ASSUME NEW i \in p..n PROVE reply.bytes[i] \in 0..255
  <2>1. i \in 1..Len(reply.bytes)
    BY <1>1
  <2>. QED  BY <1>1, <2>1, ElementOfSeq
<1>3. SubSeq(reply.bytes, p, n) \in Seq(0..255)
  BY <1>2, SubSeqProperties
<1>. QED  BY <1>3 DEF Text

-----------------------------------------------------------------------------

(***************************************************************************)
(* What is left to read and where the parser is, beyond the types: the end *)
(* of a record lies in the message, and a question or an answer is counted *)
(* off only if there is one.                                               *)
(***************************************************************************)
Place ==
    /\ read <= Size
    /\ pc = "txt" => pos <= end
    /\ pc = "txt" \/ (pc = "name" /\ then = "cname") => end <= Size
    /\ pc = "name" /\ then = "questions" => left.questions > 0
    /\ pc \in {"record", "txt"} \/ (pc = "name" /\ then # "questions") => left.answers > 0

(***************************************************************************)
(* The time taken: what the resolvers before this one, the queries before  *)
(* this one and this query may take.                                       *)
(***************************************************************************)
Spent ==
    /\ server <= poll.servers
    /\ pc \notin {"ask", "next", "failed", "found", "timeout"} => depth <= MaxDepth
    /\ pc \in {"ask", "receive"} =>
          clock <= poll.timeout + 30 * (server - 1) + 5 * depth
    /\ pc \in {"header", "questions", "name", "record", "txt", "answers"} =>
          clock <= poll.timeout + 30 * (server - 1) + 5 * (depth + 1)
    /\ pc \in {"failed", "next", "found", "timeout"} =>
          clock <= poll.timeout + 30 * server

IInv == TypeOK /\ Place /\ Spent

-----------------------------------------------------------------------------

LEMMA Initially == Init => IInv
<1>1. SUFFICES ASSUME Init PROVE IInv
  OBVIOUS
<1>2. reply \in Reply /\ Size = 0
  BY <1>1 DEF Init, Reply, Size
<1>3. TypeOK
  BY <1>1, <1>2, PollsAssumption DEF Init, TypeOK, NewName, MaxDepth, MaxHops, Labels, Text
<1>. QED
  BY <1>1, <1>2, <1>3, PollsAssumption DEF Init, IInv, Place, Spent, MaxDepth

(***************************************************************************)
(* The numbers of the state.                                               *)
(***************************************************************************)
LEMMA Numbers ==
    ASSUME TypeOK
    PROVE  /\ Size \in Nat /\ pos \in Nat /\ end \in Nat /\ read \in Nat
           /\ name.at \in Nat /\ name.next \in Nat /\ name.hops \in 0..32
           /\ left.questions \in Nat /\ left.answers \in Nat
           /\ clock \in Nat /\ depth \in 0..6 /\ server \in Nat
           /\ poll.timeout \in Nat /\ poll.servers \in Nat /\ server <= poll.servers
           /\ \A p \in Nat : Byte(p) \in 0..255 /\ Word(p) \in Nat
  BY ByteTypes DEF TypeOK, MaxDepth, MaxHops

LEMMA StepSpent ==
    ASSUME TypeOK, TypeOK', Spent, [Next]_vars
    PROVE  Spent'
<1>. USE DEF Goto, query
<1>a. Spent /\ clock \in Nat /\ depth \in 0..6 /\ server \in Nat /\ poll.timeout \in Nat
      /\ poll.servers \in Nat /\ clock' \in Nat /\ server' <= poll'.servers
  BY Numbers DEF TypeOK, MaxDepth
<1>1. CASE Ask
  BY <1>1, <1>a DEF Ask, Spent, MaxDepth
<1>2. CASE Receive
  <2>1. PICK seconds \in Delays : clock' = clock + seconds
    BY <1>2 DEF Receive
  <2>2. seconds \in 0..5
    BY DelaysAssumption DEF QueryTimeout
  <2>. QED  BY <1>2, <1>a, <2>1, <2>2 DEF Receive, Spent
<1>3. CASE NoReply
  BY <1>3, <1>a DEF NoReply, Spent, QueryTimeout, MaxDepth
<1>4. ASSUME UNCHANGED query,
             pc \in {"header", "questions", "name", "record", "txt", "answers", "failed"},
             pc' \in {"header", "questions", "name", "record", "txt", "answers", "failed"},
             pc = "failed" => pc' = "failed"
      PROVE  Spent'
  BY <1>4, <1>a DEF Spent, MaxDepth
<1>5. CASE Parse
  BY <1>5, <1>4 DEF Parse, Header, Question, Answer, RecordTruncated, Record, TxtString,
                    TxtEnds, Call
<1>6. CASE ReadName
  BY <1>6, <1>4 DEF ReadName, NameOutside, Pointer, Label, NameEnds, Fails
<1>7. CASE Evaluate
  <2>1. /\ pc = "answers" /\ UNCHANGED <<poll, server, clock>>
        /\ clock <= poll.timeout + 30 * (server - 1) + 5 * (depth + 1) /\ depth <= 5
    BY <1>7, <1>a DEF Evaluate, Parsed, Spent, MaxDepth
  <2>2. CASE pc' = "ask" /\ depth' = depth + 1
    BY <1>a, <2>1, <2>2 DEF Spent
  <2>3. CASE pc' \in {"found", "next"}
    BY <1>a, <2>1, <2>3 DEF Spent
  <2>. QED  BY <1>7, <2>2, <2>3 DEF Evaluate
<1>8. CASE Failed
  BY <1>8, <1>a DEF Failed, Spent
<1>9. CASE NextServer
  BY <1>9, <1>a DEF NextServer, Spent
<1>10. CASE NextRound
  BY <1>10, <1>a DEF NextRound, Spent
<1>11. CASE GiveUp
  BY <1>11, <1>a DEF GiveUp, Spent
<1>12. CASE UNCHANGED vars
  BY <1>12, <1>a DEF vars, Spent
<1>. QED
  BY <1>1, <1>2, <1>3, <1>5, <1>6, <1>7, <1>8, <1>9, <1>10, <1>11, <1>12 DEF Next

LEMMA StepPlace ==
    ASSUME TypeOK, Place, [Next]_vars
    PROVE  Place'
<1>. USE DEF Goto, query, result, Reads, Place
<1>a. /\ Size \in Nat /\ pos \in Nat /\ end \in Nat /\ read \in Nat /\ name.at \in Nat
      /\ left.questions \in Nat /\ left.answers \in Nat
      /\ \A p \in Nat : Byte(p) \in 0..255 /\ Word(p) \in Nat
  BY Numbers
<1>b. left = [questions |-> left.questions, answers |-> left.answers]
  BY DEF TypeOK
<1>c. ASSUME UNCHANGED reply PROVE Size' = Size
  BY <1>c DEF Size
<1>1. CASE Ask
  BY <1>1, <1>c DEF Ask
<1>2. CASE Receive
  <2>1. Size' \in Nat
    BY <1>2, RepliesAssumption DEF Receive, Reply, Size
  <2>. QED  BY <1>2, <2>1 DEF Receive
<1>3. CASE NoReply
  BY <1>3, <1>c DEF NoReply
<1>4. CASE Header
  BY <1>4, <1>a, <1>c DEF Header
<1>5. CASE Question
  BY <1>5, <1>a, <1>c DEF Question, Call
<1>6. CASE Answer
  BY <1>6, <1>a, <1>c DEF Answer, Call
<1>7. CASE RecordTruncated
  BY <1>7, <1>a, <1>c DEF RecordTruncated, Truncated
<1>8. CASE Record
  <2>1. Word(pos + 8) \in Nat
    BY <1>a
  <2>2. pos + 10 + Word(pos + 8) <= Size /\ end' = pos + 10 + Word(pos + 8)
        /\ pos + 10 <= Size /\ Size' = Size
    BY <1>8, <1>a, <1>c, <2>1 DEF Record, Truncated
  <2>3. read' <= Size'
    BY <1>8, <1>a, <2>2 DEF Record
  <2>4. CASE pc' = "txt" /\ pos' = pos + 10 /\ UNCHANGED <<left, name, then>>
    BY <1>8, <1>a, <2>1, <2>2, <2>3, <2>4 DEF Record
  <2>5. CASE pc' = "name" /\ then' = "cname" /\ UNCHANGED left
    BY <1>8, <1>a, <2>2, <2>3, <2>5 DEF Record
  <2>6. CASE pc' = "answers"
    BY <2>3, <2>6
  <2>. QED  BY <1>8, <2>4, <2>5, <2>6 DEF Record
<1>9. CASE TxtString
  <2>1. Byte(pos) \in 0..255
    BY <1>a
  <2>. QED  BY <1>9, <1>a, <1>c, <2>1 DEF TxtString, Fits
<1>10. CASE TxtEnds
  BY <1>10, <1>a, <1>c DEF TxtEnds
<1>11. ASSUME pc = "name", Fails, read' <= Size, UNCHANGED <<reply, end, then>>
       PROVE  Place'
  BY <1>11, <1>a, <1>c DEF Fails
<1>12. CASE NameOutside
  BY <1>12, <1>11 DEF NameOutside
<1>13. ASSUME pc = "name", UNCHANGED <<pc, left, reply, end, then>>, read' <= Size
       PROVE  Place'
  BY <1>13, <1>a, <1>c
<1>14. CASE Pointer
  <2>1. read' <= Size
    BY <1>14, <1>a DEF Pointer
  <2>. QED  BY <1>14, <2>1, <1>11, <1>13 DEF Pointer
<1>15. CASE Label
  <2>1. Length \in 1..191
    BY <1>15 DEF Label
  <2>2. read' <= Size
    BY <1>15, <1>a, <2>1 DEF Label
  <2>. QED  BY <1>15, <2>2, <1>11, <1>13 DEF Label
<1>16. CASE NameEnds
  BY <1>16, <1>a, <1>b, <1>c DEF NameEnds
<1>17. CASE Evaluate
  BY <1>17, <1>c DEF Evaluate
<1>18. CASE Failed
  BY <1>18, <1>c DEF Failed
<1>19. CASE NextServer
  BY <1>19, <1>c DEF NextServer
<1>20. CASE NextRound
  BY <1>20, <1>c DEF NextRound
<1>21. CASE GiveUp
  BY <1>21, <1>c DEF GiveUp
<1>22. CASE UNCHANGED vars
  BY <1>22, <1>c DEF vars
<1>. QED
  BY <1>1, <1>2, <1>3, <1>4, <1>5, <1>6, <1>7, <1>8, <1>9, <1>10, <1>12, <1>14, <1>15,
     <1>16, <1>17, <1>18, <1>19, <1>20, <1>21, <1>22
  DEF Next, Parse, ReadName

LEMMA StepTypes ==
    ASSUME TypeOK, Place, Spent, [Next]_vars
    PROVE  TypeOK'
<1>. USE DEF Goto, query, result, Reads
<1>a. /\ Size \in Nat /\ pos \in Nat /\ end \in Nat /\ read \in Nat /\ name.at \in Nat
      /\ left.questions \in Nat /\ left.answers \in Nat
      /\ \A p \in Nat : Byte(p) \in 0..255 /\ Word(p) \in Nat
  BY Numbers
<1>b. ASSUME NEW p \in Nat PROVE NewName(p) \in
          [at : Nat, next : Nat, jumped : BOOLEAN, hops : 0..MaxHops, labels : Labels]
  BY <1>b DEF NewName, MaxHops, Labels
<1>c. ASSUME left.answers > 0
      PROVE  [left EXCEPT !.answers = @ - 1] \in [questions : Nat, answers : Nat]
  BY <1>c, <1>a DEF TypeOK
<1>d. ASSUME left.questions > 0
      PROVE  [left EXCEPT !.questions = @ - 1] \in [questions : Nat, answers : Nat]
  BY <1>d, <1>a DEF TypeOK
<1>1. CASE Ask
  BY <1>1 DEF Ask, TypeOK
<1>2. CASE Receive
  <2>1. reply' \in Reply
    BY <1>2, RepliesAssumption DEF Receive
  <2>2. clock' \in Nat
    <3>1. PICK seconds \in Delays : clock' = clock + seconds
      BY <1>2 DEF Receive
    <3>2. seconds \in 0..5
      BY DelaysAssumption DEF QueryTimeout
    <3>. QED  BY <3>1, <3>2 DEF TypeOK
  <2>. QED  BY <1>2, <2>1, <2>2 DEF Receive, TypeOK
<1>3. CASE NoReply
  BY <1>3 DEF NoReply, TypeOK, QueryTimeout
<1>4. CASE Header
  <2>1. Word(4) \in Nat /\ Word(6) \in Nat
    BY <1>a
  <2>2. left \in [questions : Nat, answers : Nat]
    BY DEF TypeOK
  <2>3. left' \in [questions : Nat, answers : Nat] /\ pos' \in Nat
    <3>1. CASE left' = [questions |-> Word(4), answers |-> Word(6)] /\ pos' = 12
      BY <2>1, <3>1
    <3>2. CASE UNCHANGED <<left, pos>>
      BY <1>a, <2>2, <3>2
    <3>. QED  BY <1>4, <3>1, <3>2 DEF Header
  <2>4. read' \in Nat
    BY <1>4, <1>a DEF Header
  <2>5. pc' \in {"questions", "failed"} /\ UNCHANGED <<query, reply, end, name, then, result>>
    BY <1>4 DEF Header
  <2>. QED  BY <2>3, <2>4, <2>5 DEF TypeOK
<1>5. CASE Question
  BY <1>5, <1>b DEF Question, Call, TypeOK
<1>6. CASE Answer
  BY <1>6, <1>b DEF Answer, Call, TypeOK
<1>7. CASE RecordTruncated
  BY <1>7, <1>a DEF RecordTruncated, TypeOK
<1>8. CASE Record
  <2>1. Word(pos + 8) \in Nat
    BY <1>a
  <2>2. end' \in Nat /\ read' \in Nat /\ pos' \in Nat
    BY <1>8, <1>a, <2>1 DEF Record
  <2>3. left' \in [questions : Nat, answers : Nat]
    BY <1>8, <1>c DEF Record, Place, TypeOK
  <2>4. name' \in [at : Nat, next : Nat, jumped : BOOLEAN, hops : 0..MaxHops, labels : Labels]
    <3>1. CASE name' = NewName(pos + 10)
      <4>1. pos + 10 \in Nat
        BY <1>a
      <4>. QED  BY <1>b, <3>1, <4>1
    <3>2. CASE UNCHANGED name
      BY <3>2 DEF TypeOK
    <3>. QED  BY <1>8, <3>1, <3>2 DEF Record
  <2>5. pc' \in {"txt", "name", "answers"} /\ then' \in {"questions", "record", "cname"}
        /\ UNCHANGED <<query, reply, result>>
    BY <1>8 DEF Record, TypeOK
  <2>. QED  BY <2>2, <2>3, <2>4, <2>5 DEF TypeOK
<1>9. CASE TxtString
  <2>1. Byte(pos) \in 0..255 /\ pos + 1 + Byte(pos) <= Size
    BY <1>9, <1>a DEF TxtString, Fits, Place
  <2>2. SubSeq(reply.bytes, pos + 2, pos + 1 + Byte(pos)) \in Text
    <3>1. pos + 2 \in Nat \ {0} /\ pos + 1 + Byte(pos) \in Nat
      <4>1. pos \in Nat /\ Byte(pos) \in Nat
        BY <1>a, <2>1
      <4>. QED  BY <4>1
    <3>2. reply \in Reply
      BY DEF TypeOK
    <3>. QED  BY <2>1, <3>1, <3>2, SliceTypes
  <2>3. txt' \in Seq(Text)
    BY <1>9, <2>2, AppendProperties DEF TxtString, TypeOK
  <2>4. pos + 1 + Byte(pos) \in Nat
    BY <1>a, <2>1
  <2>5. pos' \in Nat /\ read' \in Nat
    BY <1>9, <1>a, <2>4 DEF TxtString
  <2>. QED  BY <1>9, <2>3, <2>5 DEF TxtString, TypeOK
<1>10. CASE TxtEnds
  <2>1. left' \in [questions : Nat, answers : Nat]
    BY <1>10, <1>c DEF TxtEnds, Place
  <2>2. pos' \in Nat /\ read' \in Nat
    BY <1>10, <1>a DEF TxtEnds
  <2>. QED  BY <1>10, <2>1, <2>2 DEF TxtEnds, TypeOK
<1>11. ASSUME pc = "name", Fails, read' \in Nat, UNCHANGED <<query, reply, end, then, txt>>
       PROVE  TypeOK'
  BY <1>11, <1>a, <1>c DEF Fails, TypeOK, Place
<1>12. CASE NameOutside
  BY <1>12, <1>a, <1>11 DEF NameOutside
<1>13. CASE Pointer
  <2>1. Length \in 0..255 /\ Byte(name.at + 1) \in 0..255
    BY <1>a DEF Length
  <2>2. read' \in Nat
    BY <1>13, <1>a DEF Pointer
  <2>3. CASE Fails
    BY <1>13, <2>2, <2>3, <1>11 DEF Pointer
  <2>4. CASE ~(name.at + 1 >= Size \/ name.hops = MaxHops)
    <3>1. (Length % 64) * 256 + Byte(name.at + 1) \in Nat
      BY <2>1
    <3>2. name.hops + 1 \in 0..MaxHops
      BY <2>4, Numbers DEF MaxHops
    <3>3. (IF name.jumped THEN name.next ELSE name.at + 2) \in Nat
      BY Numbers
    <3>4. name' = [name EXCEPT !.at = (Length % 64) * 256 + Byte(name.at + 1),
                               !.next = IF name.jumped THEN name.next ELSE name.at + 2,
                               !.jumped = TRUE, !.hops = name.hops + 1]
      BY <1>13, <2>4 DEF Pointer
    <3>5. name \in [at : Nat, next : Nat, jumped : BOOLEAN, hops : 0..MaxHops, labels : Labels]
      BY DEF TypeOK
    <3>6. name' = [at |-> (Length % 64) * 256 + Byte(name.at + 1),
                   next |-> IF name.jumped THEN name.next ELSE name.at + 2,
                   jumped |-> TRUE, hops |-> name.hops + 1, labels |-> name.labels]
      BY <3>4, <3>5
    <3>7. name.labels \in Labels
      BY <3>5
    <3>8. name' \in [at : Nat, next : Nat, jumped : BOOLEAN, hops : 0..MaxHops, labels : Labels]
      BY <3>1, <3>2, <3>3, <3>6, <3>7
    <3>. QED  BY <1>13, <2>2, <2>4, <3>8 DEF Pointer, TypeOK
  <2>. QED  BY <1>13, <2>3, <2>4 DEF Pointer
<1>14. CASE Label
  <2>1. Length \in 1..191
    BY <1>14 DEF Label
  <2>2. read' \in Nat
    BY <1>14, <1>a, <2>1 DEF Label
  <2>3. CASE Fails
    BY <1>14, <2>2, <2>3, <1>11 DEF Label
  <2>4. CASE ~(name.at + 1 + Length > Size)
    <3>1. SubSeq(reply.bytes, name.at + 2, name.at + 1 + Length) \in Text
      <4>1. name.at + 2 \in Nat \ {0} /\ name.at + 1 + Length \in Nat
            /\ name.at + 1 + Length <= Size
        BY <1>a, <2>1, <2>4
      <4>2. reply \in Reply
        BY DEF TypeOK
      <4>. QED  BY <4>1, <4>2, SliceTypes
    <3>2. Append(name.labels, SubSeq(reply.bytes, name.at + 2, name.at + 1 + Length)) \in Labels
      BY <3>1, AppendProperties DEF TypeOK, Labels
    <3>3. name.at + 1 + Length \in Nat
      BY <1>a, <2>1
    <3>4. name' = [name EXCEPT !.at = name.at + 1 + Length,
                               !.labels = Append(name.labels, SubSeq(reply.bytes, name.at + 2,
                                                                     name.at + 1 + Length))]
      BY <1>14, <2>4 DEF Label
    <3>5. name' \in [at : Nat, next : Nat, jumped : BOOLEAN, hops : 0..MaxHops, labels : Labels]
      BY <3>2, <3>3, <3>4 DEF TypeOK
    <3>. QED  BY <1>14, <2>2, <2>4, <3>5 DEF Label, TypeOK
  <2>. QED  BY <1>14, <2>3, <2>4 DEF Label
<1>15. CASE NameEnds
  <2>1. After \in Nat
    BY Numbers DEF After
  <2>2. read' \in Nat /\ pos' \in Nat
    BY <1>15, <1>a, <2>1 DEF NameEnds
  <2>3. left' \in [questions : Nat, answers : Nat]
    <3>1. CASE then = "questions"
      <4>1. left.questions > 0 /\ left' = [left EXCEPT !.questions = @ - 1]
        BY <1>15, <3>1 DEF NameEnds, Place
      <4>. QED  BY <1>d, <4>1
    <3>2. CASE then = "record"
      BY <1>15, <3>2 DEF NameEnds, TypeOK
    <3>3. CASE then = "cname"
      BY <1>15, <1>c, <3>3 DEF NameEnds, Place
    <3>. QED  BY <1>15, <3>1, <3>2, <3>3 DEF NameEnds
  <2>4. cname' \in Labels \union {None}
    BY <1>15 DEF NameEnds, TypeOK
  <2>. QED  BY <1>15, <2>2, <2>3, <2>4 DEF NameEnds, TypeOK
<1>16. CASE Evaluate
  <2>1. depth' \in 0..(MaxDepth + 1)
    <3>1. depth \in 0..5
      BY <1>16 DEF Evaluate, Parsed, Spent, TypeOK, MaxDepth
    <3>2. depth' \in {depth, depth + 1}
      BY <1>16 DEF Evaluate
    <3>. QED  BY <3>1, <3>2 DEF MaxDepth
  <2>. QED  BY <1>16, <2>1 DEF Evaluate, TypeOK
<1>17. CASE Failed
  BY <1>17 DEF Failed, TypeOK
<1>18. CASE NextServer
  BY <1>18 DEF NextServer, TypeOK, MaxDepth
<1>19. CASE NextRound
  BY <1>19 DEF NextRound, TypeOK, MaxDepth
<1>20. CASE GiveUp
  BY <1>20 DEF GiveUp, TypeOK
<1>21. CASE UNCHANGED vars
  BY <1>21 DEF vars, TypeOK
<1>. QED
  BY <1>1, <1>2, <1>3, <1>4, <1>5, <1>6, <1>7, <1>8, <1>9, <1>10, <1>12, <1>13, <1>14,
     <1>15, <1>16, <1>17, <1>18, <1>19, <1>20, <1>21
  DEF Next, Parse, ReadName

LEMMA Invariant == Spec => []IInv
<1>1. IInv /\ [Next]_vars => IInv'
  BY StepTypes, StepPlace, StepSpent DEF IInv
<1>. QED  BY <1>1, Initially, PTL DEF Spec

-----------------------------------------------------------------------------

(***************************************************************************)
(* The state of poll_txt and of the parser keeps its types: no name takes  *)
(* more than 32 jumps, and no more than 6 queries are made of a resolver.  *)
(***************************************************************************)
THEOREM TypeCorrect == Spec => []TypeOK
<1>1. IInv => TypeOK
  BY DEF IInv
<1>. QED  BY <1>1, Invariant, PTL

(***************************************************************************)
(* parse_response, read_name and parse_txt never index past the end of a   *)
(* message, whatever it contains.                                          *)
(***************************************************************************)
THEOREM InBounds == Spec => []ReadsInBounds
<1>1. IInv => ReadsInBounds
  BY DEF IInv, Place, ReadsInBounds
<1>. QED  BY <1>1, Invariant, PTL

(***************************************************************************)
(* The poll overruns its deadline by at most one round of queries.         *)
(***************************************************************************)
THEOREM Overrun == Spec => []OverrunBounded
<1>1. IInv => OverrunBounded
  <2>1. SUFFICES ASSUME IInv PROVE OverrunBounded
    OBVIOUS
  <2>2. /\ clock \in Nat /\ depth \in 0..6 /\ server \in Nat /\ poll.timeout \in Nat
        /\ poll.servers \in Nat /\ server <= poll.servers
    BY <2>1, Numbers DEF IInv
  <2>3. clock <= poll.timeout + 30 * server
    <3>1. CASE pc \in {"ask", "receive"}
      BY <2>1, <2>2, <3>1 DEF IInv, Spent
    <3>2. CASE pc \in {"header", "questions", "name", "record", "txt", "answers"}
      BY <2>1, <2>2, <3>2 DEF IInv, Spent, MaxDepth
    <3>3. CASE pc \in {"failed", "next", "found", "timeout"}
      BY <2>1, <2>2, <3>3 DEF IInv, Spent
    <3>. QED  BY <2>1, <3>1, <3>2, <3>3 DEF IInv, TypeOK
  <2>4. poll.servers * (MaxDepth + 1) * QueryTimeout = 30 * poll.servers
    BY <2>2 DEF MaxDepth, QueryTimeout
  <2>. QED  BY <2>2, <2>3, <2>4 DEF OverrunBounded
<1>. QED  BY <1>1, Invariant, PTL

-----------------------------------------------------------------------------

(***************************************************************************)
(* What is decoded is what was encoded.  The parser, at each of its        *)
(* places, agrees with the annotation of the message: what it has          *)
(* collected is what the annotation says of the offset it is at.           *)
(***************************************************************************)

\* read_name has started at an offset: with what it has collected, the rest
\* of the name spells the name.
Reading(m, start) ==
    /\ start \in m.names /\ name.at \in m.names
    /\ name.labels \o m.labels[name.at] = m.labels[start]
    /\ name.hops + m.jumps[name.at] = m.jumps[start]
    /\ m.after[start] = IF name.jumped THEN name.next ELSE m.after[name.at]

QuestionsOf == Pair(reply.bytes, 4)
AnswersOf   == Pair(reply.bytes, 6)

\* The offset of the question, or the record, that the parser is at.
QuestionAt(m) == m.question[QuestionsOf - left.questions]
RecordHere(m) == m.record[AnswersOf - left.answers]
RecordNext(m) == m.record[AnswersOf - left.answers + 1]

Collected(m, offset) == txt = m.said[offset] /\ cname = m.target[offset]

InHeader == pc = "header" => txt = << >> /\ cname = None

InQuestions(m) ==
    /\ pc = "questions" \/ (pc = "name" /\ then = "questions") =>
          /\ left.questions \in 0..QuestionsOf /\ left.answers = AnswersOf
          /\ txt = << >> /\ cname = None
    /\ pc = "questions" => pos = QuestionAt(m)
    /\ pc = "name" /\ then = "questions" => Reading(m, QuestionAt(m))

InAnswers(m) ==
    /\ pc \in {"answers", "record", "txt"} \/ (pc = "name" /\ then # "questions") =>
          left.answers \in 0..AnswersOf
    /\ pc = "answers" => pos = RecordHere(m) /\ Collected(m, pos)
    /\ pc = "name" /\ then = "record" =>
          Reading(m, RecordHere(m)) /\ Collected(m, RecordHere(m))
    /\ pc = "record" =>
          pos = m.after[RecordHere(m)] /\ Collected(m, RecordHere(m))
    /\ pc = "name" /\ then = "cname" =>
          LET body == m.after[RecordHere(m)] IN
          /\ end = RecordNext(m) /\ Pair(reply.bytes, body) = CNAME
          /\ Reading(m, body + 10) /\ Collected(m, RecordHere(m))
    /\ pc = "txt" =>
          /\ end = RecordNext(m) /\ Pair(reply.bytes, m.after[RecordHere(m)]) = TXT
          /\ pos \in m.strings[AnswersOf - left.answers]
          /\ txt = m.said[pos] /\ cname = m.target[RecordHere(m)]

Agrees(m) == Annotates(m, reply) /\ InHeader /\ InQuestions(m) /\ InAnswers(m)

Parsing == {"header", "questions", "name", "record", "txt", "answers"}

Decoding ==
    reply.means # None =>
        /\ pc # "failed"
        /\ pc \in Parsing => \E m : Agrees(m)

\* The messages that are said to mean something are properly encoded.
Honest == \A r \in Replies : r.means # None => \E m : Annotates(m, r)

\* The parser's bytes are those of the message.
LEMMA SameBytes ==
    ASSUME reply \in Reply
    PROVE  /\ Size = Len(reply.bytes)
           /\ \A p \in Nat : p < Size => Byte(p) = Octet(reply.bytes, p)
           /\ \A p \in Nat : p + 1 < Size => Word(p) = Pair(reply.bytes, p)
<1>1. Size = Len(reply.bytes) /\ Size \in Nat
  BY ByteTypes
<1>2. \A p \in Nat : p < Size => Byte(p) = Octet(reply.bytes, p)
  BY <1>1 DEF Byte, Octet
<1>3. ASSUME NEW p \in Nat, p + 1 < Size PROVE Word(p) = Pair(reply.bytes, p)
  <2>1. Byte(p) = Octet(reply.bytes, p) /\ Byte(p + 1) = Octet(reply.bytes, p + 1)
    BY <1>1, <1>2, <1>3
  <2>. QED  BY <2>1 DEF Word, Pair
<1>. QED  BY <1>1, <1>2, <1>3

\* What read_name has collected grows by the label that the rest begins with.
LEMMA Collects ==
    ASSUME NEW s \in Labels, NEW x \in Text, NEW t \in Labels
    PROVE  Append(s, x) \o t = s \o (<<x>> \o t)
<1>1. s \in Seq(Text) /\ t \in Seq(Text) /\ <<x>> \in Seq(Text)
  BY DEF Labels
<1>2. Append(s, x) = s \o <<x>>
  BY <1>1, AppendIsConcat
<1>3. (s \o <<x>>) \o t = s \o (<<x>> \o t)
  BY <1>1, ConcatAssociative
<1>. QED  BY <1>2, <1>3

\* What the annotation says of an offset where a name begins.
LEMMA NameAt ==
    ASSUME TypeOK, NEW m, Annotates(m, reply), NEW p \in m.names
    PROVE  /\ p \in Nat /\ p < Size /\ Size \in Nat
           /\ m.labels[p] \in Labels /\ m.after[p] \in Nat /\ m.jumps[p] \in 0..MaxHops
           /\ \/ IsRoot(reply.bytes, m, p) \/ IsLabel(reply.bytes, m, p)
              \/ IsPointer(reply.bytes, m, p)
           /\ Byte(p) = Octet(reply.bytes, p) /\ Byte(p) \in 0..255
<1>1. Names(reply.bytes, m) /\ reply \in Reply
  BY DEF Annotates, TypeOK
<1>2. Size = Len(reply.bytes) /\ Size \in Nat
  BY <1>1, ByteTypes
<1>3. p \in Nat /\ p < Size
  BY <1>1, <1>2 DEF Names
<1>4. Byte(p) = Octet(reply.bytes, p) /\ Byte(p) \in 0..255
  BY <1>1, <1>3, ByteTypes, SameBytes
<1>. QED  BY <1>1, <1>2, <1>3, <1>4 DEF Names

\* Where a byte of a name leads.
LEMMA NameKinds ==
    ASSUME TypeOK, NEW m, Annotates(m, reply), NEW p \in m.names
    PROVE  /\ Byte(p) = 0 => IsRoot(reply.bytes, m, p)
           /\ Byte(p) \in 1..191 => IsLabel(reply.bytes, m, p)
           /\ Byte(p) \in 192..255 => IsPointer(reply.bytes, m, p)
<1>. DEFINE n == Byte(p)
<1>1. /\ n \in 0..255
      /\ \/ n = 0 /\ IsRoot(reply.bytes, m, p)
         \/ n \in 1..63 /\ IsLabel(reply.bytes, m, p)
         \/ n \in 192..255 /\ IsPointer(reply.bytes, m, p)
  <2>1. n \in 0..255 /\ n = Octet(reply.bytes, p)
    BY NameAt
  <2>2. CASE IsRoot(reply.bytes, m, p)
    BY <2>1, <2>2 DEF IsRoot
  <2>3. CASE IsLabel(reply.bytes, m, p)
    BY <2>1, <2>3 DEF IsLabel
  <2>4. CASE IsPointer(reply.bytes, m, p)
    BY <2>1, <2>4 DEF IsPointer
  <2>. QED  BY <2>2, <2>3, <2>4, NameAt
<1>. HIDE DEF n
<1>2. /\ n = 0 => IsRoot(reply.bytes, m, p)
      /\ n \in 1..191 => IsLabel(reply.bytes, m, p)
      /\ n \in 192..255 => IsPointer(reply.bytes, m, p)
  BY <1>1
<1>. QED  BY <1>2 DEF n

\* read_name goes on at the rest of the name, and does not fail.
LEMMA LabelAgrees ==
    ASSUME TypeOK, NEW m, Annotates(m, reply), NEW start, Reading(m, start), Label
    PROVE  /\ Reading(m, start)'
           /\ UNCHANGED <<pc, pos, left, cname>>
<1>. DEFINE b == reply.bytes
            p == name.at
            rest == Rest(b, p)
            n == Byte(p)
            x == SubSeq(b, p + 2, p + 1 + n)
<1>. HIDE DEF b, p, rest, n, x
<1>1. /\ p \in m.names /\ reply \in Reply /\ start \in m.names
      /\ name.labels \o m.labels[p] = m.labels[start]
      /\ name.hops + m.jumps[p] = m.jumps[start]
      /\ m.after[start] = IF name.jumped THEN name.next ELSE m.after[p]
  BY DEF Reading, TypeOK, p
<1>2. n \in 1..191
  BY DEF Label, Length, n, p
<1>3. IsLabel(b, m, p) /\ n = Octet(b, p) /\ p \in Nat
  BY <1>1, <1>2, NameKinds, NameAt DEF n, b
<1>4. /\ rest \in m.names
      /\ m.labels[p] = <<Octets(b, p + 1, rest)>> \o m.labels[rest]
      /\ m.after[p] = m.after[rest] /\ m.jumps[p] = m.jumps[rest]
  BY <1>3 DEF IsLabel, rest
<1>5. rest = p + 1 + n
  BY <1>3 DEF Rest, rest
<1>6. rest \in Nat /\ rest < Size /\ Size \in Nat /\ m.labels[rest] \in Labels
  BY <1>1, <1>4, NameAt
<1>7. /\ name' = [name EXCEPT !.at = @ + 1 + n, !.labels = Append(@, x)]
      /\ UNCHANGED <<pc, pos, left, cname, reply>>
  <2>1. ~(p + 1 + n > Size)
    BY <1>5, <1>6
  <2>. QED  BY <2>1 DEF Label, Length, n, p, x, b
<1>8. x = Octets(b, p + 1, rest) /\ x \in Text
  <2>1. p + 1 + 1 = p + 2 /\ p + 2 \in Nat \ {0} /\ rest <= Size
    BY <1>3, <1>6
  <2>2. SubSeq(b, p + 2, rest) \in Text
    BY <1>1, <1>6, <2>1, SliceTypes DEF b
  <2>. QED  BY <1>5, <2>1, <2>2 DEF Octets, x
<1>9. /\ name'.at = rest /\ name'.labels = Append(name.labels, x)
      /\ name'.hops = name.hops /\ name'.next = name.next /\ name'.jumped = name.jumped
  BY <1>5, <1>7 DEF TypeOK, p
<1>10. name'.labels \o m.labels[name'.at] = m.labels[start]
  <2>1. name.labels \in Labels
    BY DEF TypeOK
  <2>2. Append(name.labels, x) \o m.labels[rest] = name.labels \o (<<x>> \o m.labels[rest])
    BY <1>6, <1>8, <2>1, Collects
  <2>. QED  BY <1>1, <1>4, <1>8, <1>9, <2>2
<1>. QED
  BY <1>1, <1>4, <1>7, <1>9, <1>10 DEF Reading

\* The six low bits of the first byte of a pointer.
LEMMA LowBits ==
    ASSUME NEW n \in 192..255
    PROVE  n % 64 = n - 192
OBVIOUS

\* read_name jumps to where the rest of the name is spelled.
LEMMA PointerAgrees ==
    ASSUME TypeOK, NEW m, Annotates(m, reply), NEW start, Reading(m, start), Pointer
    PROVE  /\ Reading(m, start)'
           /\ UNCHANGED <<pc, pos, left, cname>>
<1>. DEFINE b == reply.bytes
            p == name.at
            n == Byte(p)
            target == Pointee(b, p)
<1>. HIDE DEF b, p, n, target
<1>1. /\ p \in m.names /\ reply \in Reply /\ start \in m.names
      /\ name.labels \o m.labels[p] = m.labels[start]
      /\ name.hops + m.jumps[p] = m.jumps[start]
      /\ m.after[start] = IF name.jumped THEN name.next ELSE m.after[p]
  BY DEF Reading, TypeOK, p
<1>2. n \in 192..255
  <2>1. n \in 0..255
    BY <1>1, NameAt DEF n
  <2>2. n >= 192
    BY DEF Pointer, Length, n, p
  <2>. QED  BY <2>1, <2>2
<1>3. IsPointer(b, m, p) /\ n = Octet(b, p) /\ p \in Nat /\ Size \in Nat
  BY <1>1, <1>2, NameKinds, NameAt DEF n, b
<1>4. /\ p + 1 < Len(b) /\ target \in m.names
      /\ m.labels[p] = m.labels[target] /\ m.after[p] = p + 2
      /\ m.jumps[p] = m.jumps[target] + 1
  BY <1>3 DEF IsPointer, target
<1>5. p + 1 < Size /\ Byte(p + 1) = Octet(b, p + 1) /\ Byte(p + 1) \in 0..255
  <2>1. Len(b) = Size
    BY <1>1, SameBytes DEF b
  <2>2. p + 1 \in Nat /\ p + 1 < Size
    BY <1>3, <1>4, <2>1
  <2>. QED  BY <1>1, <2>2, SameBytes, ByteTypes DEF b
<1>6. (n % 64) * 256 + Byte(p + 1) = target
  <2>1. n % 64 = n - 192
    BY <1>2, LowBits
  <2>2. target = 256 * (n - 192) + Byte(p + 1)
    BY <1>3, <1>5 DEF Pointee, target
  <2>. DEFINE lo == Byte(p + 1)
  <2>3. lo \in 0..255
    BY <1>5
  <2>. HIDE DEF lo
  <2>4. (n - 192) * 256 + lo = 256 * (n - 192) + lo
    BY <1>2, <2>3
  <2>. QED  BY <2>1, <2>2, <2>4 DEF lo
<1>7. m.jumps[start] \in 0..32 /\ m.jumps[target] \in 0..32 /\ name.hops \in 0..32
  BY <1>1, <1>4, NameAt DEF TypeOK, MaxHops
<1>8. name.hops + 1 + m.jumps[target] = m.jumps[start] /\ name.hops # MaxHops
  <2>1. \A h, t, j \in 0..32 : h + (t + 1) = j => h + 1 + t = j /\ h # 32
    OBVIOUS
  <2>2. name.hops + (m.jumps[target] + 1) = m.jumps[start]
    BY <1>1, <1>4
  <2>. QED  BY <1>7, <2>1, <2>2 DEF MaxHops
<1>9. /\ name' = [name EXCEPT !.at = target,
                              !.next = IF name.jumped THEN @ ELSE p + 2,
                              !.jumped = TRUE, !.hops = @ + 1]
      /\ UNCHANGED <<pc, pos, left, cname, reply>>
  <2>1. ~(p + 1 >= Size \/ name.hops = MaxHops)
    BY <1>3, <1>5, <1>8
  <2>. QED  BY <1>6, <2>1 DEF Pointer, Length, n, p
<1>10. /\ name'.at = target /\ name'.labels = name.labels
       /\ name'.hops = name.hops + 1 /\ name'.jumped = TRUE
       /\ name'.next = IF name.jumped THEN name.next ELSE p + 2
  BY <1>9 DEF TypeOK
<1>. QED
  BY <1>1, <1>4, <1>8, <1>9, <1>10 DEF Reading

\* At the root everything has been collected.
LEMMA RootAgrees ==
    ASSUME TypeOK, NEW m, Annotates(m, reply), NEW start, Reading(m, start), NameEnds
    PROVE  name.labels = m.labels[start] /\ After = m.after[start]
<1>1. name.at \in m.names /\ Byte(name.at) = 0
  BY DEF Reading, NameEnds, Length
<1>2. IsRoot(reply.bytes, m, name.at)
  BY <1>1, NameKinds
<1>3. m.labels[name.at] = << >> /\ m.after[name.at] = name.at + 1
  BY <1>2 DEF IsRoot
<1>4. name.labels \o << >> = name.labels
  <2>1. name.labels \in Seq(Text)
    BY DEF TypeOK, Labels
  <2>. QED  BY <2>1, ConcatEmptySeq
<1>. QED
  BY <1>3, <1>4 DEF Reading, After

\* The name does not leave the message.
LEMMA NotOutside ==
    ASSUME TypeOK, NEW m, Annotates(m, reply), NEW start, Reading(m, start)
    PROVE  ~NameOutside
<1>1. name.at \in Nat /\ name.at < Size /\ Size \in Nat
  BY NameAt DEF Reading
<1>2. ~(name.at >= Size)
  BY <1>1
<1>. QED
  BY <1>2 DEF NameOutside

\* A name is read from its beginning.
LEMMA Starts ==
    ASSUME TypeOK, NEW m, Annotates(m, reply), NEW start \in m.names, name' = NewName(start)
    PROVE  Reading(m, start)'
<1>1. m.labels[start] \in Seq(Text) /\ m.jumps[start] \in Nat
  <2>1. m.labels[start] \in Labels /\ m.jumps[start] \in 0..MaxHops
    BY NameAt
  <2>2. m.jumps[start] \in Nat
    BY <2>1 DEF MaxHops
  <2>. QED  BY <2>1, <2>2 DEF Labels
<1>2. << >> \o m.labels[start] = m.labels[start]
  BY <1>1, ConcatEmptySeq
<1>3. /\ name'.at = start /\ name'.labels = << >> /\ name'.hops = 0
      /\ name'.jumped = FALSE
  BY DEF NewName
<1>4. 0 + m.jumps[start] = m.jumps[start]
  BY <1>1
<1>. QED
  BY <1>2, <1>3, <1>4 DEF Reading

\* The numbers of questions and answers in the header.
LEMMA HeaderFacts ==
    ASSUME TypeOK, NEW m, Annotates(m, reply)
    PROVE  /\ Size \in Nat /\ Size >= 12
           /\ Word(0) = QueryId /\ Byte(3) % 16 = 0
           /\ Word(4) = QuestionsOf /\ Word(6) = AnswersOf
           /\ QuestionsOf \in Nat /\ AnswersOf \in Nat
<1>1. reply \in Reply /\ Len(reply.bytes) >= 12
  BY DEF TypeOK, Annotates
<1>2. Size \in Nat /\ Size = Len(reply.bytes)
  BY <1>1, ByteTypes
<1>3. /\ Byte(3) = Octet(reply.bytes, 3) /\ Word(0) = Pair(reply.bytes, 0)
      /\ Word(4) = Pair(reply.bytes, 4) /\ Word(6) = Pair(reply.bytes, 6)
  <2>1. 3 < Size /\ 0 + 1 < Size /\ 4 + 1 < Size /\ 6 + 1 < Size
    BY <1>1, <1>2
  <2>. QED  BY <1>1, <2>1, SameBytes
<1>4. Word(4) \in Nat /\ Word(6) \in Nat
  BY <1>1, ByteTypes
<1>5. Pair(reply.bytes, 0) = QueryId /\ Octet(reply.bytes, 3) % 16 = 0
  BY DEF Annotates
<1>. QED  BY <1>1, <1>2, <1>3, <1>4, <1>5 DEF QuestionsOf, AnswersOf

\* The question that is read, and the next one.
LEMMA QuestionFacts ==
    ASSUME TypeOK, NEW m, Annotates(m, reply), left.questions \in 1..QuestionsOf
    PROVE  /\ QuestionAt(m) \in m.names
           /\ m.question[QuestionsOf - (left.questions - 1)] = m.after[QuestionAt(m)] + 4
<1>. DEFINE i == QuestionsOf - left.questions
<1>1. i \in 0..(QuestionsOf - 1) /\ QuestionsOf - (left.questions - 1) = i + 1
  BY HeaderFacts
<1>2. QuestionAt(m) = m.question[i]
  BY DEF QuestionAt
<1>. HIDE DEF i
<1>3. m.question[i] \in m.names /\ m.question[i + 1] = m.after[m.question[i]] + 4
  BY <1>1 DEF Annotates, Questions, QuestionsOf
<1>. QED  BY <1>1, <1>2, <1>3

\* The record that is read, and the next one.
LEMMA RecordFacts ==
    ASSUME TypeOK, NEW m, Annotates(m, reply), left.answers \in 1..AnswersOf
    PROVE  LET i == AnswersOf - left.answers
           IN  /\ RecordAt(reply.bytes, m, i) /\ RecordHere(m) = m.record[i]
               /\ RecordNext(m) = m.record[i + 1]
               /\ AnswersOf - (left.answers - 1) = i + 1
<1>. DEFINE i == AnswersOf - left.answers
<1>1. i \in 0..(AnswersOf - 1) /\ AnswersOf - (left.answers - 1) = i + 1
  BY HeaderFacts
<1>2. RecordHere(m) = m.record[i] /\ RecordNext(m) = m.record[i + 1]
  BY DEF RecordHere, RecordNext
<1>. HIDE DEF i
<1>3. RecordAt(reply.bytes, m, i)
  BY <1>1 DEF Annotates, Answers, AnswersOf
<1>4. /\ RecordAt(reply.bytes, m, i) /\ RecordHere(m) = m.record[i]
      /\ RecordNext(m) = m.record[i + 1] /\ AnswersOf - (left.answers - 1) = i + 1
  BY <1>1, <1>2, <1>3
<1>. QED  BY <1>4 DEF i

\* What the annotation says of a record of each type.
LEMMA RecordKinds ==
    ASSUME NEW b, NEW m, NEW i, RecordAt(b, m, i),
           NEW here, here = m.record[i], NEW last, last = m.record[i + 1],
           NEW body, body = m.after[here]
    PROVE  /\ Pair(b, body) = TXT =>
                 /\ body + 10 \in m.strings[i] /\ Strings(b, m, i, last)
                 /\ m.said[body + 10] = m.said[here] /\ m.target[last] = m.target[here]
           /\ Pair(b, body) = CNAME =>
                 /\ body + 10 \in m.names
                 /\ m.said[last] = m.said[here] /\ m.target[last] = m.labels[body + 10]
           /\ Pair(b, body) \notin {TXT, CNAME} =>
                 m.said[last] = m.said[here] /\ m.target[last] = m.target[here]
<1>. DEFINE type == Pair(b, body)
<1>. HIDE DEF type
<1>1. \/ /\ type = TXT
         /\ body + 10 \in m.strings[i] /\ Strings(b, m, i, last)
         /\ m.said[body + 10] = m.said[here] /\ m.target[last] = m.target[here]
      \/ /\ type = CNAME
         /\ body + 10 \in m.names
         /\ m.said[last] = m.said[here] /\ m.target[last] = m.labels[body + 10]
      \/ /\ type \notin {TXT, CNAME}
         /\ m.said[last] = m.said[here] /\ m.target[last] = m.target[here]
  BY DEF RecordAt, type
<1>2. TXT # CNAME
  BY DEF TXT, CNAME
<1>. QED  BY <1>1, <1>2 DEF type

\* What the annotation says of the record that is read.
LEMMA RecordBody ==
    ASSUME TypeOK, NEW m, Annotates(m, reply), left.answers \in 1..AnswersOf,
           NEW body, body = m.after[RecordHere(m)]
    PROVE  /\ RecordHere(m) \in m.names /\ body \in Nat
           /\ Word(body) = Pair(reply.bytes, body)
           /\ RecordNext(m) = body + 10 + Word(body + 8)
           /\ body + 10 <= Size /\ RecordNext(m) <= Size /\ RecordNext(m) \in Nat
<1>. DEFINE i == AnswersOf - left.answers
            b == reply.bytes
<1>1. RecordAt(b, m, i) /\ RecordHere(m) = m.record[i] /\ RecordNext(m) = m.record[i + 1]
  BY RecordFacts
<1>. HIDE DEF i, b
<1>2. /\ RecordHere(m) \in m.names /\ body + 10 <= Len(b) /\ RecordNext(m) <= Len(b)
      /\ RecordNext(m) = body + 10 + Pair(b, body + 8)
  BY <1>1 DEF RecordAt
<1>3. body \in Nat /\ Size \in Nat /\ Len(b) = Size /\ reply \in Reply
  BY <1>2, NameAt, ByteTypes DEF TypeOK, b
<1>4. body + 1 < Size /\ body + 8 + 1 < Size /\ body + 8 \in Nat
  BY <1>2, <1>3
<1>5. Word(body) = Pair(b, body) /\ Word(body + 8) = Pair(b, body + 8)
  BY <1>3, <1>4, SameBytes DEF b
<1>6. Word(body + 8) \in Nat
  BY <1>3, <1>4, ByteTypes
<1>7. RecordNext(m) \in Nat
  <2>. DEFINE w == Word(body + 8)
  <2>1. w \in Nat /\ RecordNext(m) = body + 10 + w
    BY <1>2, <1>5, <1>6
  <2>. HIDE DEF w
  <2>. QED  BY <1>3, <2>1
<1>. QED  BY <1>2, <1>3, <1>5, <1>7 DEF b

\* The header is that of the query, and the counts are those of the message.
LEMMA HeaderStep ==
    ASSUME TypeOK, NEW m, Agrees(m), Header
    PROVE  pc' # "failed" /\ Agrees(m)'
<1>1. Annotates(m, reply) /\ InHeader
  BY DEF Agrees
<1>2. /\ Size >= 12 /\ Word(0) = QueryId /\ Byte(3) % 16 = 0
      /\ Word(4) = QuestionsOf /\ Word(6) = AnswersOf /\ QuestionsOf \in Nat /\ AnswersOf \in Nat
  BY <1>1, HeaderFacts
<1>3. /\ pc = "header" /\ pc' = "questions" /\ pos' = 12
      /\ left' = [questions |-> QuestionsOf, answers |-> AnswersOf]
      /\ UNCHANGED <<reply, txt, cname>>
  BY <1>2 DEF Header, Goto, result
<1>4. txt = << >> /\ cname = None
  BY <1>1, <1>3 DEF InHeader
<1>5. m.question[0] = 12 /\ QuestionsOf - QuestionsOf = 0
  BY <1>1, <1>2 DEF Annotates, Questions
<1>6. InQuestions(m)'
  <2>1. QuestionsOf' = QuestionsOf /\ AnswersOf' = AnswersOf
    BY <1>3 DEF QuestionsOf, AnswersOf
  <2>2. left'.questions = QuestionsOf /\ left'.answers = AnswersOf
    BY <1>3
  <2>3. QuestionAt(m)' = m.question[0]
    BY <1>5, <2>1, <2>2 DEF QuestionAt
  <2>. QED  BY <1>2, <1>3, <1>4, <1>5, <2>1, <2>2, <2>3 DEF InQuestions
<1>. QED  BY <1>1, <1>3, <1>6 DEF Agrees, InHeader, InAnswers

\* A question is read from where it begins; after the last is the first record.
LEMMA QuestionStep ==
    ASSUME TypeOK, NEW m, Agrees(m), Question
    PROVE  pc' # "failed" /\ Agrees(m)'
<1>1. Annotates(m, reply) /\ pc = "questions" /\ UNCHANGED <<reply, left, pos, txt, cname>>
  BY DEF Agrees, Question, result
<1>2. /\ left.questions \in 0..QuestionsOf /\ left.answers = AnswersOf
      /\ txt = << >> /\ cname = None /\ pos = QuestionAt(m)
  BY <1>1 DEF Agrees, InQuestions
<1>3. QuestionsOf' = QuestionsOf /\ AnswersOf' = AnswersOf
  BY <1>1 DEF QuestionsOf, AnswersOf
<1>4. QuestionsOf \in Nat /\ AnswersOf \in Nat
  BY <1>1, HeaderFacts
<1>5. CASE left.questions = 0
  <2>1. pc' = "answers"
    BY <1>5 DEF Question
  <2>2. QuestionsOf - 0 = QuestionsOf /\ AnswersOf - AnswersOf = 0
    BY <1>4
  <2>3. pos = m.question[QuestionsOf] /\ RecordHere(m)' = m.record[0]
    BY <1>1, <1>2, <1>3, <1>5, <2>2 DEF QuestionAt, RecordHere
  <2>4. /\ m.record[0] = m.question[QuestionsOf]
        /\ m.said[m.record[0]] = << >> /\ m.target[m.record[0]] = None
    BY <1>1 DEF Annotates, Answers, QuestionsOf
  <2>5. InAnswers(m)'
    <3>1. left'.answers \in 0..AnswersOf'
      BY <1>1, <1>2, <1>3, <1>4
    <3>. QED  BY <1>1, <1>2, <2>1, <2>3, <2>4, <3>1 DEF InAnswers, Collected
  <2>. QED  BY <1>1, <2>1, <2>5 DEF Agrees, InHeader, InQuestions
<1>6. CASE left.questions # 0
  <2>1. pc' = "name" /\ then' = "questions" /\ name' = NewName(pos)
    BY <1>6 DEF Question, Call
  <2>2. QuestionAt(m) \in m.names
    <3>1. left.questions \in 1..QuestionsOf
      BY <1>2, <1>4, <1>6
    <3>. QED  BY <1>1, <3>1, QuestionFacts
  <2>3. Reading(m, QuestionAt(m))'
    <3>1. QuestionAt(m)' = QuestionAt(m)
      BY <1>1, <1>3 DEF QuestionAt
    <3>2. \A q : q = QuestionAt(m) => Reading(m, q)'
      BY <1>1, <1>2, <2>1, <2>2, Starts
    <3>. QED  BY <3>1, <3>2 DEF Reading
  <2>. QED  BY <1>1, <1>2, <1>3, <2>1, <2>3 DEF Agrees, InHeader, InQuestions, InAnswers
<1>. QED  BY <1>5, <1>6

\* A record is read from where it begins.
LEMMA AnswerStep ==
    ASSUME TypeOK, NEW m, Agrees(m), Answer
    PROVE  pc' # "failed" /\ Agrees(m)'
<1>1. /\ Annotates(m, reply) /\ pc = "answers" /\ UNCHANGED <<reply, left, pos, txt, cname>>
      /\ pc' = "name" /\ then' = "record" /\ name' = NewName(pos) /\ left.answers > 0
  BY DEF Agrees, Answer, Call, result
<1>2. left.answers \in 0..AnswersOf /\ pos = RecordHere(m) /\ Collected(m, pos)
  BY <1>1 DEF Agrees, InAnswers
<1>3. AnswersOf' = AnswersOf /\ RecordHere(m)' = RecordHere(m)
  BY <1>1 DEF AnswersOf, RecordHere
<1>4. RecordHere(m) \in m.names
  <2>1. left.answers \in 1..AnswersOf
    BY <1>1, <1>2, HeaderFacts
  <2>. QED  BY <1>1, <2>1, RecordBody
<1>5. Reading(m, RecordHere(m))'
  <2>1. \A q : q = RecordHere(m) => Reading(m, q)'
    BY <1>1, <1>2, <1>4, Starts
  <2>. QED  BY <1>3, <2>1 DEF Reading
<1>. QED  BY <1>1, <1>2, <1>3, <1>5 DEF Agrees, InHeader, InQuestions, InAnswers, Collected

\* A record is not cut off, and its data begin where the annotation says.
LEMMA RecordStep ==
    ASSUME TypeOK, Place, NEW m, Agrees(m), pc = "record"
    PROVE  ~RecordTruncated /\ (Record => pc' # "failed" /\ Agrees(m)')
<1>. DEFINE b == reply.bytes
            i == AnswersOf - left.answers
            here == RecordHere(m)
            last == RecordNext(m)
<1>. HIDE DEF b, i, here, last
<1>1. Annotates(m, reply) /\ left.answers \in 1..AnswersOf /\ AnswersOf \in Nat
  <2>1. Annotates(m, reply) /\ left.answers \in 0..AnswersOf /\ left.answers > 0
    BY DEF Agrees, InAnswers, Place
  <2>. QED  BY <2>1, HeaderFacts
<1>2. pos = m.after[here] /\ txt = m.said[here] /\ cname = m.target[here]
  BY DEF Agrees, InAnswers, Collected, here
<1>3. /\ pos \in Nat /\ Word(pos) = Pair(b, pos)
      /\ last = pos + 10 + Word(pos + 8) /\ pos + 10 <= Size /\ last <= Size /\ last \in Nat
  BY <1>1, <1>2, RecordBody DEF b, here, last
<1>4. /\ RecordAt(b, m, i) /\ here = m.record[i] /\ last = m.record[i + 1]
      /\ AnswersOf - (left.answers - 1) = i + 1
  BY <1>1, RecordFacts DEF b, i, here, last
<1>5. ~Truncated
  <2>1. ~(pos + 10 > Size) /\ ~(last > Size)
    BY <1>1, <1>3, HeaderFacts
  <2>. QED  BY <1>3, <2>1 DEF Truncated
<1>6. ASSUME Record PROVE pc' # "failed" /\ Agrees(m)'
  <2>1. end' = last /\ UNCHANGED <<reply, txt, cname>>
    BY <1>3, <1>6 DEF Record, result
  <2>2. /\ AnswersOf' = AnswersOf
        /\ left' = left => RecordHere(m)' = here /\ RecordNext(m)' = last
    BY <2>1 DEF AnswersOf, RecordHere, RecordNext, here, last
  <2>3. CASE Word(pos) = TXT /\ pc' = "txt" /\ pos' = pos + 10 /\ UNCHANGED <<left, name, then>>
    <3>1. /\ pos + 10 \in m.strings[i] /\ m.said[pos + 10] = m.said[here]
          /\ Pair(b, m.after[here]) = TXT
      BY <1>2, <1>3, <1>4, <2>3, RecordKinds
    <3>2. AnswersOf' - left'.answers = i
      BY <2>2, <2>3 DEF i
    <3>3. InAnswers(m)'
      BY <1>1, <1>2, <2>1, <2>2, <2>3, <3>1, <3>2 DEF InAnswers, Collected, b
    <3>. QED  BY <1>1, <2>1, <2>3, <3>3 DEF Agrees, InHeader, InQuestions
  <2>4. CASE /\ Word(pos) = CNAME /\ pc' = "name" /\ name' = NewName(pos + 10)
             /\ then' = "cname" /\ pos' = pos + 10 /\ UNCHANGED left
    <3>1. pos + 10 \in m.names /\ Pair(b, m.after[here]) = CNAME
      BY <1>2, <1>3, <1>4, <2>4, RecordKinds
    <3>2. PICK data : data = pos + 10
      OBVIOUS
    <3>3. InAnswers(m)'
      <4>1. Reading(m, m.after[RecordHere(m)] + 10)'
        <5>1. Reading(m, data)'
          BY <1>1, <2>4, <3>1, <3>2, Starts
        <5>2. (m.after[RecordHere(m)] + 10)' = data
          BY <1>2, <2>2, <2>4, <3>2
        <5>. QED  BY <5>1, <5>2 DEF Reading
      <4>. QED
        BY <1>1, <1>2, <2>1, <2>2, <2>4, <3>1, <4>1 DEF InAnswers, Collected, b
    <3>. QED  BY <1>1, <2>1, <2>4, <3>3 DEF Agrees, InHeader, InQuestions
  <2>5. CASE /\ Word(pos) \notin {TXT, CNAME} /\ pc' = "answers" /\ pos' = end'
             /\ left' = [left EXCEPT !.answers = @ - 1] /\ UNCHANGED <<name, then>>
    <3>1. m.said[last] = m.said[here] /\ m.target[last] = m.target[here]
      BY <1>2, <1>3, <1>4, <2>5, RecordKinds
    <3>2. left'.answers = left.answers - 1 /\ left'.answers \in 0..AnswersOf
      BY <1>1, <2>5 DEF TypeOK
    <3>3. RecordHere(m)' = last
      BY <1>4, <2>2, <3>2 DEF RecordHere
    <3>4. InAnswers(m)'
      BY <1>2, <2>1, <2>2, <2>5, <3>1, <3>2, <3>3 DEF InAnswers, Collected
    <3>. QED  BY <1>1, <2>1, <2>5, <3>4 DEF Agrees, InHeader, InQuestions
  <2>. QED  BY <1>6, <2>3, <2>4, <2>5 DEF Record
<1>. QED  BY <1>5, <1>6 DEF RecordTruncated

\* A string of a TXT record ends in it, and what was said grows by the string;
\* only at the end of the record is there none.
LEMMA TxtFacts ==
    ASSUME TypeOK, Place, NEW m, Agrees(m), pc = "txt"
    PROVE  /\ end = RecordNext(m) /\ end <= Size /\ pos \in Nat
           /\ Fits => /\ pos + 1 + Byte(pos) \in m.strings[AnswersOf - left.answers]
                      /\ m.said[pos + 1 + Byte(pos)]
                            = Append(txt, SubSeq(reply.bytes, pos + 2, pos + 1 + Byte(pos)))
           /\ ~Fits => pos = end /\ m.target[end] = cname /\ m.said[end] = txt
<1>. DEFINE b == reply.bytes
            i == AnswersOf - left.answers
            here == RecordHere(m)
            last == RecordNext(m)
            n == Byte(pos)
<1>. HIDE DEF b, i, here, last, n
<1>1. Annotates(m, reply) /\ left.answers \in 1..AnswersOf /\ reply \in Reply
  <2>1. Annotates(m, reply) /\ left.answers \in 0..AnswersOf /\ left.answers > 0
    BY DEF Agrees, InAnswers, Place
  <2>. QED  BY <2>1, HeaderFacts DEF TypeOK
<1>2. /\ end = last /\ pos \in m.strings[i] /\ Pair(b, m.after[here]) = TXT
      /\ txt = m.said[pos] /\ cname = m.target[here]
  BY DEF Agrees, InAnswers, b, i, here, last
<1>3. RecordAt(b, m, i) /\ here = m.record[i] /\ last = m.record[i + 1]
  BY <1>1, RecordFacts DEF b, i, here, last
<1>4. Strings(b, m, i, last) /\ m.target[last] = m.target[here]
  BY <1>2, <1>3, RecordKinds
<1>5. /\ last \in Nat /\ last <= Size /\ Size \in Nat
  BY <1>1, RecordBody, HeaderFacts DEF last
<1>6. /\ pos \in Nat
      /\ \/ pos = last
         \/ /\ Rest(b, pos) \in m.strings[i] /\ Rest(b, pos) <= last
            /\ m.said[Rest(b, pos)] = Append(m.said[pos], Octets(b, pos + 1, Rest(b, pos)))
  BY <1>2, <1>4 DEF Strings
<1>7. n \in 0..255
  BY <1>1, <1>6, ByteTypes DEF n
<1>8. CASE pos = last
  <2>1. ~Fits
    BY <1>2, <1>5, <1>8 DEF Fits
  <2>. QED  BY <1>2, <1>4, <1>5, <1>6, <1>8, <2>1 DEF last
<1>9. CASE pos # last
  <2>1. pos < Size /\ n = Octet(b, pos) /\ Rest(b, pos) = pos + 1 + n
    <3>1. pos < last
      BY <1>2, <1>5, <1>6, <1>9 DEF Place
    <3>2. pos < Size
      BY <1>5, <1>6, <3>1
    <3>3. n = Octet(b, pos)
      BY <1>1, <1>6, <3>2, SameBytes DEF b, n
    <3>. QED  BY <3>2, <3>3 DEF Rest
  <2>2. pos < end /\ pos + 1 + n <= end
    <3>1. Rest(b, pos) <= end
      BY <1>2, <1>6, <1>9
    <3>2. pos + 1 + n <= end /\ end \in Nat
      BY <1>2, <1>5, <2>1, <3>1
    <3>. QED  BY <1>6, <1>7, <3>2
  <2>3. Fits
    BY <2>2 DEF Fits, n
  <2>4. Octets(b, pos + 1, Rest(b, pos)) = SubSeq(b, pos + 2, pos + 1 + n)
    <3>1. pos + 1 + 1 = pos + 2
      BY <1>6
    <3>. QED  BY <2>1, <3>1 DEF Octets
  <2>5. /\ pos + 1 + n \in m.strings[i]
        /\ m.said[pos + 1 + n] = Append(txt, SubSeq(b, pos + 2, pos + 1 + n))
    BY <1>2, <1>6, <1>9, <2>1, <2>4
  <2>. QED  BY <1>2, <1>5, <1>6, <2>3, <2>5 DEF last, n, i, b
<1>. QED  BY <1>8, <1>9

LEMMA TxtStringStep ==
    ASSUME TypeOK, Place, NEW m, Agrees(m), TxtString
    PROVE  pc' # "failed" /\ Agrees(m)'
<1>. DEFINE rest == pos + 1 + Byte(pos)
<1>. HIDE DEF rest
<1>1. /\ pc = "txt" /\ pc' = "txt" /\ Fits /\ pos' = rest
      /\ txt' = Append(txt, SubSeq(reply.bytes, pos + 2, rest))
      /\ UNCHANGED <<reply, left, end, cname>>
  BY DEF TxtString, rest
<1>2. /\ Annotates(m, reply) /\ left.answers \in 0..AnswersOf
      /\ end = RecordNext(m) /\ Pair(reply.bytes, m.after[RecordHere(m)]) = TXT
      /\ cname = m.target[RecordHere(m)]
  BY <1>1 DEF Agrees, InAnswers
<1>3. rest \in m.strings[AnswersOf - left.answers] /\ m.said[rest] = txt'
  BY <1>1, TxtFacts DEF rest
<1>4. /\ AnswersOf' = AnswersOf /\ RecordHere(m)' = RecordHere(m)
      /\ RecordNext(m)' = RecordNext(m)
  BY <1>1 DEF AnswersOf, RecordHere, RecordNext
<1>. QED  BY <1>1, <1>2, <1>3, <1>4 DEF Agrees, InHeader, InQuestions, InAnswers

LEMMA TxtEndsStep ==
    ASSUME TypeOK, Place, NEW m, Agrees(m), TxtEnds
    PROVE  pc' # "failed" /\ Agrees(m)'
<1>1. /\ pc = "txt" /\ pc' = "answers" /\ ~Fits /\ pos' = end
      /\ left' = [left EXCEPT !.answers = @ - 1] /\ UNCHANGED <<reply, txt, cname>>
  BY DEF TxtEnds, Goto, result
<1>2. Annotates(m, reply) /\ left.answers \in 1..AnswersOf /\ AnswersOf \in Nat
  <2>1. Annotates(m, reply) /\ left.answers \in 0..AnswersOf /\ left.answers > 0
    BY <1>1 DEF Agrees, InAnswers, Place
  <2>. QED  BY <2>1, HeaderFacts
<1>3. end = RecordNext(m) /\ m.target[end] = cname /\ m.said[end] = txt
  BY <1>1, TxtFacts
<1>4. left'.answers = left.answers - 1 /\ left'.answers \in 0..AnswersOf
  BY <1>1, <1>2 DEF TypeOK
<1>5. AnswersOf' = AnswersOf /\ RecordHere(m)' = RecordNext(m)
  <2>1. AnswersOf' = AnswersOf
    BY <1>1 DEF AnswersOf
  <2>2. AnswersOf - (left.answers - 1) = AnswersOf - left.answers + 1
    BY <1>2
  <2>. QED  BY <1>4, <2>1, <2>2 DEF RecordHere, RecordNext
<1>. QED
  BY <1>1, <1>2, <1>3, <1>4, <1>5 DEF Agrees, InHeader, InQuestions, InAnswers, Collected

\* A label or a pointer of a name is followed wherever the name is read for.
LEMMA WithinName ==
    ASSUME TypeOK, NEW m, Agrees(m), pc = "name",
           \A start : Reading(m, start) => Reading(m, start)',
           UNCHANGED <<pc, pos, left, cname, reply, end, then, txt>>
    PROVE  pc' # "failed" /\ Agrees(m)'
<1>1. /\ QuestionsOf' = QuestionsOf /\ AnswersOf' = AnswersOf
      /\ QuestionAt(m)' = QuestionAt(m) /\ RecordHere(m)' = RecordHere(m)
      /\ RecordNext(m)' = RecordNext(m)
  BY DEF QuestionsOf, AnswersOf, QuestionAt, RecordHere, RecordNext
<1>2. CASE then = "questions"
  <2>1. Reading(m, QuestionAt(m))
    BY <1>2 DEF Agrees, InQuestions
  <2>2. PICK start : start = QuestionAt(m)
    OBVIOUS
  <2>3. Reading(m, start)'
    BY <2>1, <2>2
  <2>4. Reading(m, QuestionAt(m))'
    BY <1>1, <2>2, <2>3 DEF Reading
  <2>. QED  BY <1>1, <1>2, <2>4 DEF Agrees, InHeader, InQuestions, InAnswers
<1>3. CASE then = "record"
  <2>1. Reading(m, RecordHere(m))
    BY <1>3 DEF Agrees, InAnswers
  <2>2. PICK start : start = RecordHere(m)
    OBVIOUS
  <2>3. Reading(m, start)'
    BY <2>1, <2>2
  <2>4. Reading(m, RecordHere(m))'
    BY <1>1, <2>2, <2>3 DEF Reading
  <2>. QED  BY <1>1, <1>3, <2>4 DEF Agrees, InHeader, InQuestions, InAnswers, Collected
<1>4. CASE then = "cname"
  <2>1. Reading(m, m.after[RecordHere(m)] + 10)
    BY <1>4 DEF Agrees, InAnswers
  <2>2. PICK start : start = m.after[RecordHere(m)] + 10
    OBVIOUS
  <2>3. Reading(m, start)'
    BY <2>1, <2>2
  <2>4. Reading(m, m.after[RecordHere(m)] + 10)'
    BY <1>1, <2>2, <2>3 DEF Reading
  <2>. QED  BY <1>1, <1>4, <2>4 DEF Agrees, InHeader, InQuestions, InAnswers, Collected
<1>. QED  BY <1>2, <1>3, <1>4 DEF TypeOK

\* The parser is reading a name of the annotation.
LEMMA ReadsName ==
    ASSUME TypeOK, NEW m, Agrees(m), pc = "name"
    PROVE  \E start : Reading(m, start)
<1>1. then \in {"questions", "record", "cname"}
  BY DEF TypeOK
<1>. QED  BY <1>1 DEF Agrees, InQuestions, InAnswers

\* The rest of the name, where it is read for, agrees as well.
LEMMA NameStep ==
    ASSUME TypeOK, NEW m, Agrees(m), Label \/ Pointer
    PROVE  pc' # "failed" /\ Agrees(m)'
<1>1. Annotates(m, reply) /\ pc = "name" /\ UNCHANGED <<reply, end, then, txt>>
  BY DEF Agrees, Label, Pointer
<1>2. PICK start : Reading(m, start)
  BY <1>1, ReadsName
<1>3. UNCHANGED <<pc, pos, left, cname>>
  BY <1>1, <1>2, LabelAgrees, PointerAgrees
<1>4. ASSUME NEW q, Reading(m, q) PROVE Reading(m, q)'
  BY <1>1, <1>4, LabelAgrees, PointerAgrees
<1>. QED  BY <1>1, <1>3, <1>4, WithinName

\* At the end of a name the parser is behind it, or has the target of a CNAME.
LEMMA NameEndsStep ==
    ASSUME TypeOK, Place, NEW m, Agrees(m), NameEnds
    PROVE  pc' # "failed" /\ Agrees(m)'
<1>1. Annotates(m, reply) /\ pc = "name" /\ UNCHANGED <<reply, end, then, name, txt>>
  BY DEF Agrees, NameEnds
<1>2. /\ QuestionsOf' = QuestionsOf /\ AnswersOf' = AnswersOf
      /\ QuestionsOf \in Nat /\ AnswersOf \in Nat
  BY <1>1, HeaderFacts DEF QuestionsOf, AnswersOf
<1>3. CASE then = "questions"
  <2>1. /\ pc' = "questions" /\ pos' = After + 4
        /\ left' = [left EXCEPT !.questions = @ - 1] /\ UNCHANGED cname
    BY <1>3 DEF NameEnds
  <2>2. /\ left.questions \in 1..QuestionsOf /\ left.answers = AnswersOf
        /\ txt = << >> /\ cname = None /\ Reading(m, QuestionAt(m))
    <3>1. /\ left.questions \in 0..QuestionsOf /\ left.answers = AnswersOf
          /\ txt = << >> /\ cname = None /\ Reading(m, QuestionAt(m))
      BY <1>1, <1>3 DEF Agrees, InQuestions
    <3>2. left.questions > 0
      BY <1>1, <1>3 DEF Place
    <3>. QED  BY <1>2, <3>1, <3>2
  <2>3. /\ left'.questions = left.questions - 1 /\ left'.questions \in 0..QuestionsOf
        /\ left'.answers = AnswersOf
    BY <1>2, <2>1, <2>2 DEF TypeOK
  <2>4. pos' = QuestionAt(m)'
    <3>1. After = m.after[QuestionAt(m)]
      BY <1>1, <2>2, RootAgrees
    <3>2. m.question[QuestionsOf - (left.questions - 1)] = m.after[QuestionAt(m)] + 4
      BY <1>1, <2>2, QuestionFacts
    <3>. QED  BY <1>2, <2>1, <2>3, <3>1, <3>2 DEF QuestionAt
  <2>. QED  BY <1>1, <1>2, <2>1, <2>2, <2>3, <2>4 DEF Agrees, InHeader, InQuestions, InAnswers
<1>4. CASE then = "record"
  <2>1. pc' = "record" /\ pos' = After /\ UNCHANGED <<left, cname>>
    BY <1>4 DEF NameEnds
  <2>2. /\ left.answers \in 0..AnswersOf /\ Reading(m, RecordHere(m))
        /\ Collected(m, RecordHere(m))
    BY <1>1, <1>4 DEF Agrees, InAnswers
  <2>3. After = m.after[RecordHere(m)]
    BY <1>1, <2>2, RootAgrees
  <2>4. RecordHere(m)' = RecordHere(m)
    BY <1>2, <2>1 DEF RecordHere
  <2>. QED
    BY <1>1, <1>2, <2>1, <2>2, <2>3, <2>4
    DEF Agrees, InHeader, InQuestions, InAnswers, Collected
<1>5. CASE then = "cname"
  <2>1. /\ pc' = "answers" /\ pos' = end /\ cname' = name.labels
        /\ left' = [left EXCEPT !.answers = @ - 1]
    BY <1>5 DEF NameEnds
  <2>. DEFINE i == AnswersOf - left.answers
              b == reply.bytes
              here == RecordHere(m)
              body == m.after[here]
  <2>. HIDE DEF i, b, here, body
  <2>2. /\ left.answers \in 1..AnswersOf /\ end = RecordNext(m) /\ Pair(b, body) = CNAME
        /\ Reading(m, body + 10) /\ txt = m.said[here]
    <3>1. /\ left.answers \in 0..AnswersOf /\ end = RecordNext(m) /\ Pair(b, body) = CNAME
          /\ Reading(m, body + 10) /\ txt = m.said[here]
      BY <1>1, <1>5 DEF Agrees, InAnswers, Collected, b, here, body
    <3>2. left.answers > 0
      BY <1>1, <1>5 DEF Place
    <3>. QED  BY <1>2, <3>1, <3>2
  <2>3. cname' = m.labels[body + 10]
    BY <1>1, <2>1, <2>2, RootAgrees
  <2>4. /\ RecordAt(b, m, i) /\ here = m.record[i] /\ end = m.record[i + 1]
        /\ AnswersOf - (left.answers - 1) = i + 1
    BY <1>1, <2>2, RecordFacts DEF b, i, here
  <2>5. m.said[end] = txt /\ m.target[end] = cname'
    BY <2>2, <2>3, <2>4, RecordKinds DEF body
  <2>6. left'.answers = left.answers - 1 /\ left'.answers \in 0..AnswersOf
    BY <1>2, <2>1, <2>2 DEF TypeOK
  <2>7. RecordHere(m)' = end
    BY <1>2, <2>4, <2>6 DEF RecordHere
  <2>. QED
    BY <1>1, <1>2, <2>1, <2>5, <2>6, <2>7 DEF Agrees, InHeader, InQuestions, InAnswers, Collected
<1>. QED  BY <1>3, <1>4, <1>5 DEF TypeOK

LEMMA StepDecoding ==
    ASSUME Honest, IInv, Decoding, [Next]_vars
    PROVE  Decoding'
<1>. USE DEF Goto, query, result
<1>1. CASE Receive
  <2>1. reply' \in Replies /\ pc' = "header" /\ txt' = << >> /\ cname' = None
    BY <1>1 DEF Receive
  <2>2. CASE reply'.means # None
    <3>1. PICK m : Annotates(m, reply')
      BY <2>1, <2>2 DEF Honest
    <3>2. Agrees(m)'
      BY <2>1, <3>1 DEF Agrees, InHeader, InQuestions, InAnswers
    <3>. QED  BY <2>1, <3>2 DEF Decoding
  <2>. QED  BY <2>2 DEF Decoding
<1>2. ASSUME UNCHANGED reply, pc \in Parsing,
             \A m : Agrees(m) => pc' # "failed" /\ Agrees(m)'
      PROVE  Decoding'
  BY <1>2 DEF Decoding
<1>3. CASE Header
  BY <1>2, <1>3, HeaderStep DEF IInv, Header, Parsing
<1>4. CASE Question
  BY <1>2, <1>4, QuestionStep DEF IInv, Question, Parsing
<1>5. CASE Answer
  BY <1>2, <1>5, AnswerStep DEF IInv, Answer, Parsing
<1>6. CASE RecordTruncated
  BY <1>2, <1>6, RecordStep DEF IInv, RecordTruncated, Parsing
<1>7. CASE Record
  BY <1>2, <1>7, RecordStep DEF IInv, Record, Parsing
<1>8. CASE TxtString
  BY <1>2, <1>8, TxtStringStep DEF IInv, TxtString, Parsing
<1>9. CASE TxtEnds
  BY <1>2, <1>9, TxtEndsStep DEF IInv, TxtEnds, Parsing
<1>10. CASE NameOutside
  <2>1. UNCHANGED reply /\ pc = "name"
    BY <1>10 DEF NameOutside
  <2>2. ASSUME NEW m, Agrees(m) PROVE FALSE
    <3>1. \E start : Reading(m, start)
      BY <2>1, <2>2, ReadsName DEF IInv
    <3>. QED  BY <1>10, <2>2, <3>1, NotOutside DEF IInv, Agrees
  <2>. QED  BY <1>2, <2>1, <2>2 DEF Parsing
<1>11. CASE Pointer
  BY <1>2, <1>11, NameStep DEF IInv, Pointer, Parsing
<1>12. CASE Label
  BY <1>2, <1>12, NameStep DEF IInv, Label, Parsing
<1>13. CASE NameEnds
  BY <1>2, <1>13, NameEndsStep DEF IInv, NameEnds, Parsing
<1>14. ASSUME UNCHANGED reply, pc # "failed" => pc' \notin Parsing \union {"failed"}
       PROVE  Decoding'
  BY <1>14 DEF Decoding
<1>15. CASE Ask
  BY <1>14, <1>15 DEF Ask, Parsing
<1>16. CASE NoReply
  BY <1>14, <1>16 DEF NoReply, Parsing
<1>17. CASE Evaluate
  BY <1>14, <1>17 DEF Evaluate, Parsing
<1>18. CASE Failed
  BY <1>14, <1>18 DEF Failed, Parsing
<1>19. CASE NextServer
  BY <1>14, <1>19 DEF NextServer, Parsing
<1>20. CASE NextRound
  BY <1>14, <1>20 DEF NextRound, Parsing
<1>21. CASE GiveUp
  BY <1>14, <1>21 DEF GiveUp, Parsing
<1>22. CASE UNCHANGED vars
  <2>1. UNCHANGED <<reply, left, pos, end, name, then, txt, cname, pc>>
    BY <1>22 DEF vars
  <2>2. ASSUME NEW m, Agrees(m) PROVE Agrees(m)'
    BY <2>1, <2>2 DEF Agrees, InHeader, InQuestions, InAnswers, Collected, Reading,
        QuestionAt, RecordHere, RecordNext, QuestionsOf, AnswersOf
  <2>. QED  BY <2>1, <2>2 DEF Decoding
<1>. QED
  BY <1>1, <1>3, <1>4, <1>5, <1>6, <1>7, <1>8, <1>9, <1>10, <1>11, <1>12, <1>13, <1>15,
     <1>16, <1>17, <1>18, <1>19, <1>20, <1>21, <1>22
  DEF Next, Parse, ReadName

(***************************************************************************)
(* A message that is properly encoded is never refused by parse_response,  *)
(* and what it collects, the values of the TXT records in their order and  *)
(* the target of the last CNAME, is what the message was encoded from:     *)
(* with any number of questions and records of any type, names that share  *)
(* their endings by up to 32 pointers, and strings of any length.          *)
(***************************************************************************)
THEOREM Decoded ==
    ASSUME Honest
    PROVE  Spec => []AnswerIsDecoded
<1>1. Init => Decoding
  BY DEF Init, Decoding, Parsing
<1>2. IInv /\ Decoding /\ [Next]_vars => Decoding'
  BY StepDecoding
<1>3. IInv /\ Decoding => AnswerIsDecoded
  <2>1. SUFFICES ASSUME IInv, Decoding, reply.means # None
                 PROVE  /\ pc # "failed"
                        /\ Parsed => txt = reply.means.txt /\ cname = reply.means.cname
    BY DEF AnswerIsDecoded
  <2>2. ASSUME Parsed PROVE txt = reply.means.txt /\ cname = reply.means.cname
    <3>1. PICK m : Agrees(m)
      BY <2>1, <2>2 DEF Decoding, Parsed, Parsing
    <3>2. AnswersOf - left.answers = AnswersOf
      BY <2>2, <3>1, HeaderFacts, <2>1 DEF Agrees, IInv, Parsed
    <3>3. txt = m.said[m.record[AnswersOf]] /\ cname = m.target[m.record[AnswersOf]]
      BY <2>2, <3>1, <3>2 DEF Agrees, InAnswers, Collected, RecordHere, Parsed
    <3>. QED  BY <3>1, <3>3 DEF Agrees, Annotates, AnswersOf
  <2>. QED  BY <2>1, <2>2 DEF Decoding
<1>. QED  BY <1>1, <1>2, <1>3, Invariant, PTL DEF Spec

=============================================================================
