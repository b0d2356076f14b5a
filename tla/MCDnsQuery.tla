----------------------------- MODULE MCDnsQuery -----------------------------
(***************************************************************************)
(* DnsQuery with messages that resolvers send, and the same cut off at     *)
(* every byte, with wrong counts and lengths, and with names that point    *)
(* beyond the message or at themselves.  An identifier is 7.               *)
(***************************************************************************)
EXTENDS DnsMessage

Hit  == <<97, 98>>
Miss == <<99>>

\* www.a, the name of the question, is at offset 12.
Www == <<119, 119, 119>>
Owner == <<3>> \o Www \o <<1, 97, 0>>
ToOwner == <<192, 12>>

Header12(id, rcode, questions, answers) ==
    <<0, id, 129, rcode, 0, questions, 0, answers, 0, 0, 0, 0>>

Asked == Owner \o <<0, 16, 0, 1>>

Resource(type, data) ==
    ToOwner \o <<0, type, 0, 1, 0, 0, 0, 60, 0, Len(data)>> \o data

Text1(value) == <<Len(value)>> \o value

Message(answers) == Header12(7, 0, 1, Len(answers)) \o Asked \o FlattenSeq(answers)

Reply1(answers, values, target) ==
    [bytes |-> Message(answers), means |-> [txt |-> values, cname |-> target]]

-----------------------------------------------------------------------------

\* The target is b.a, whose last label is taken from the question.
Target == <<1, 98, 192, 16>>
TargetLabels == <<<<98>>, <<97>>>>

WellFormed == {
    Reply1(<<Resource(16, Text1(Miss)), Resource(16, Text1(Hit))>>, <<Miss, Hit>>, None),
    Reply1(<<Resource(1, <<10, 0, 0, 1>>), Resource(16, Text1(Miss) \o Text1(Hit))>>,
           <<Miss, Hit>>, None),
    Reply1(<<Resource(16, Text1(Miss))>>, <<Miss>>, None),
    Reply1(<<Resource(5, Target)>>, << >>, TargetLabels),
    Reply1(<<Resource(5, ToOwner)>>, << >>, <<Www, <<97>>>>),
    Reply1(<<Resource(5, Target), Resource(16, Text1(Hit))>>, <<Hit>>, TargetLabels),
    Reply1(<< >>, << >>, None) }

(***************************************************************************)
(* The annotation of a message, read off from its bytes.                   *)
(***************************************************************************)
RECURSIVE Spelled(_, _), NamesIn(_, _), Jumps(_, _), AfterName(_, _)

Spelled(b, p) ==
    IF Octet(b, p) = 0 THEN << >>
    ELSE IF Octet(b, p) < 64 THEN <<Octets(b, p + 1, Rest(b, p))>> \o Spelled(b, Rest(b, p))
    ELSE Spelled(b, Pointee(b, p))

NamesIn(b, p) ==
    {p} \union IF Octet(b, p) = 0 THEN {}
               ELSE NamesIn(b, IF Octet(b, p) < 64 THEN Rest(b, p) ELSE Pointee(b, p))

Jumps(b, p) ==
    IF Octet(b, p) = 0 THEN 0
    ELSE IF Octet(b, p) < 64 THEN Jumps(b, Rest(b, p)) ELSE 1 + Jumps(b, Pointee(b, p))

AfterName(b, p) ==
    IF Octet(b, p) = 0 THEN p + 1
    ELSE IF Octet(b, p) < 64 THEN AfterName(b, Rest(b, p)) ELSE p + 2

RECURSIVE Before(_, _), RecordStart(_, _), ItemsAt(_, _, _)

\* Where the question i, or the record i, begins.
Before(b, i) == IF i = 0 THEN 12 ELSE AfterName(b, Before(b, i - 1)) + 4

RecordFrom(b, p) == AfterName(b, p) + 10 + Pair(b, AfterName(b, p) + 8)

RecordStart(b, i) ==
    IF i = 0 THEN Before(b, Pair(b, 4)) ELSE RecordFrom(b, RecordStart(b, i - 1))

\* The offsets of strings from p up to last.
ItemsAt(b, p, last) == {p} \union IF p = last THEN {} ELSE ItemsAt(b, Rest(b, p), last)

Annotation(r) ==
    LET b       == r.bytes
        records == 0..(Pair(b, 6) - 1)
        start   == [i \in 0..Pair(b, 6) |-> RecordStart(b, i)]
        type(i) == Pair(b, AfterName(b, start[i]))
        data(i) == AfterName(b, start[i]) + 10
        texts   == {i \in records : type(i) = TXT}
        targets == {i \in records : type(i) = CNAME}
        items   == [i \in records |->
                        IF i \in texts THEN ItemsAt(b, data(i), start[i + 1]) ELSE {}]
        pairs   == UNION {items[i] \ {start[i + 1]} : i \in records}
        names   == UNION {NamesIn(b, p) : p \in
                       {Before(b, i) : i \in 0..(Pair(b, 4) - 1)} \union
                       {start[i] : i \in records} \union {data(i) : i \in targets}}
        saidBefore(p) ==
            LET order == SetToSortSeq({q \in pairs : q < p}, <)
            IN  [k \in DOMAIN order |-> Octets(b, order[k] + 1, Rest(b, order[k]))]
        lastTarget(p) ==
            LET done == {i \in targets : data(i) < p}
            IN  IF done = {} THEN None ELSE Spelled(b, data(Max(done)))
    IN  [names    |-> names,
         labels   |-> [p \in names |-> Spelled(b, p)],
         after    |-> [p \in names |-> AfterName(b, p)],
         jumps    |-> [p \in names |-> Jumps(b, p)],
         question |-> [i \in 0..Pair(b, 4) |-> Before(b, i)],
         record   |-> start,
         strings  |-> items,
         said     |-> [p \in 0..Len(b) |-> saidBefore(p)],
         target   |-> [p \in 0..Len(b) |-> lastTarget(p)]]

\* The messages that are said to mean something are properly encoded.
ASSUME ProperlyEncoded == \A r \in WellFormed : Annotates(Annotation(r), r)

-----------------------------------------------------------------------------

Cut(bytes) == {[bytes |-> SubSeq(bytes, 1, n), means |-> None] : n \in 0..(Len(bytes) - 1)}

CutOff ==
    Cut(Message(<<Resource(5, Target), Resource(16, Text1(Hit))>>))

Odd(bytes) == [bytes |-> bytes, means |-> None]

MadeUp == {
    Odd(Header12(8, 0, 0, 0)), Odd(Header12(7, 2, 0, 0)), Odd(Header12(7, 0, 1, 9)),
    Odd(Header12(7, 0, 1, 1) \o <<192, 12>>),
    Odd(Header12(7, 0, 0, 1) \o <<192, 12>>),
    Odd(Header12(7, 0, 1, 0) \o <<192, 14, 192, 12>>),
    Odd(Header12(7, 0, 1, 1) \o <<255, 255, 0>>),
    Odd(Header12(7, 0, 1, 1) \o <<64, 1, 0>>),
    Odd(Header12(7, 0, 0, 3) \o <<0>>),
    Odd(Message(<<Resource(5, <<192, 200>>), Resource(16, Text1(Hit))>>)),
    Odd(Message(<<Resource(16, <<2, 97>>), Resource(16, <<9>>)>>)),
    Odd(Message(<<Resource(5, << >>)>>)) }

SomeReplies == WellFormed \union CutOff \union MadeUp

SomePolls == {[servers |-> n, timeout |-> 3] : n \in 1..2}
SomeDelays == {0, 5}

=============================================================================
