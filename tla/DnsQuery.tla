------------------------------ MODULE DnsQuery ------------------------------
(***************************************************************************)
(* poll_txt: the resolvers are asked in turn, one UDP query at a time,     *)
(* until one answers with the expected TXT value or the deadline is over.  *)
(* A query follows CNAMEs, and its reply is parsed byte by byte: a step is *)
(* a turn of one of the parser's loops.  The environment may answer a      *)
(* query with any message of Replies, at any time up to the socket's       *)
(* timeout, or not at all.                                                 *)
(***************************************************************************)
EXTENDS Integers, Sequences, SequencesExt

CONSTANTS
    Replies,    \* the messages there may be, see Reply
    Delays,     \* the seconds a reply may take
    Polls,      \* how many resolvers there are, and the seconds of --dns-timeout
    Expected,   \* the value looked for
    QueryId,    \* the identifier of the query
    None        \* no CNAME; no meaning

QueryTimeout == 5
MaxDepth == 5
MaxHops == 32
TXT == 16
CNAME == 5

Text == Seq(0..255)
Labels == Seq(Text)

\* The meaning of a message is what it was encoded from, or None if it is not well-formed.
Meaning == [txt : Seq(Text), cname : Labels \union {None}]
Reply == [bytes : Seq(0..255), means : Meaning \union {None}]

ASSUME RepliesAssumption == Replies \subseteq Reply /\ Expected \in Text /\ QueryId \in Nat
ASSUME DelaysAssumption == Delays \subseteq 0..QueryTimeout
ASSUME PollsAssumption == Polls \subseteq [servers : Nat \ {0}, timeout : Nat]
ASSUME NoneAssumption == None \notin Labels \union Meaning

VARIABLES
    poll,       \* the resolvers and the timeout of this poll
    pc,         \* where it is
    server,     \* the resolver it is at
    depth,      \* the CNAMEs followed
    clock,      \* the seconds since its start
    reply,      \* the message that was received
    left,       \* the questions and answers that are left
    pos,        \* the parser's position in the message
    end,        \* the end of the record it is at
    name,       \* read_name: its position, the byte after the name, the labels
    then,       \* where read_name returns to
    txt, cname, \* the result so far
    read        \* history: how far the message has been indexed

query == <<poll, server, depth, clock>>
result == <<txt, cname>>
vars == <<query, pc, reply, left, pos, end, name, then, result, read>>

TypeOK ==
    /\ poll \in [servers : Nat \ {0}, timeout : Nat]
    /\ pc \in {"ask", "receive", "header", "questions", "name", "record", "txt",
               "answers", "failed", "next", "found", "timeout"}
    /\ server \in 1..poll.servers
    /\ depth \in 0..(MaxDepth + 1)
    /\ clock \in Nat
    /\ reply \in Reply
    /\ left \in [questions : Nat, answers : Nat]
    /\ pos \in Nat /\ end \in Nat /\ read \in Nat
    /\ name \in [at : Nat, next : Nat, jumped : BOOLEAN, hops : 0..MaxHops, labels : Labels]
    /\ then \in {"questions", "record", "cname"}
    /\ txt \in Seq(Text) /\ cname \in Labels \union {None}

NewName(at) == [at |-> at, next |-> at, jumped |-> FALSE, hops |-> 0, labels |-> << >>]

Init ==
    /\ poll \in Polls
    /\ pc = "ask" /\ server = 1 /\ depth = 0 /\ clock = 0
    /\ reply = [bytes |-> << >>, means |-> None]
    /\ left = [questions |-> 0, answers |-> 0]
    /\ pos = 0 /\ end = 0 /\ name = NewName(0) /\ then = "record"
    /\ txt = << >> /\ cname = None /\ read = 0

Goto(from, to) == pc = from /\ pc' = to

-----------------------------------------------------------------------------

Size == Len(reply.bytes)

\* The byte at an offset that counts from 0.  Indexing past the end is a panic.
Byte(p) == IF p < Size THEN reply.bytes[p + 1] ELSE 0
Word(p) == 256 * Byte(p) + Byte(p + 1)
Reads(p) == read' = IF p > read THEN p ELSE read

-----------------------------------------------------------------------------

(***************************************************************************)
(* query_txt_depth: one datagram is sent and the first that comes is       *)
(* taken.  A query that fails is over.                                     *)
(***************************************************************************)
\* Mutant: the depth is not looked at.
AskAnyDepth ==
    /\ Goto("ask", "receive")
    /\ UNCHANGED <<query, reply, left, pos, end, name, then, result, read>>

Ask ==
    /\ Goto("ask", IF depth > MaxDepth THEN "next" ELSE "receive")
    /\ UNCHANGED <<query, reply, left, pos, end, name, then, result, read>>

Receive ==
    /\ Goto("receive", "header")
    /\ reply' \in Replies
    /\ \E seconds \in Delays : clock' = clock + seconds
    /\ txt' = << >> /\ cname' = None /\ read' = 0
    /\ UNCHANGED <<poll, server, depth, left, pos, end, name, then>>

\* The socket cannot be bound or sent to, or the read times out.
NoReply ==
    /\ Goto("receive", "next")
    /\ clock' \in {clock, clock + QueryTimeout}
    /\ UNCHANGED <<poll, server, depth, reply, left, pos, end, name, then, result, read>>

(***************************************************************************)
(* parse_response: the header.  The bits for a truncated message and for a *)
(* response are not looked at.                                             *)
(***************************************************************************)
Header ==
    /\ IF Size >= 12 /\ Word(0) = QueryId /\ Byte(3) % 16 = 0
       THEN /\ Goto("header", "questions")
            /\ left' = [questions |-> Word(4), answers |-> Word(6)]
            /\ pos' = 12
       ELSE Goto("header", "failed") /\ UNCHANGED <<left, pos>>
    /\ Reads(IF Size >= 12 THEN 8 ELSE 0)
    /\ UNCHANGED <<query, reply, end, name, then, result>>

-----------------------------------------------------------------------------

(***************************************************************************)
(* read_name                                                               *)
(***************************************************************************)
Call(back) == pc' = "name" /\ name' = NewName(pos) /\ then' = back

Fails ==
    /\ pc' = IF then = "cname" THEN "answers" ELSE "failed"
    /\ pos' = IF then = "cname" THEN end ELSE pos
    /\ left' = IF then = "cname" THEN [left EXCEPT !.answers = @ - 1] ELSE left
    /\ UNCHANGED <<name, cname>>

Length == Byte(name.at)

NameOutside ==
    /\ pc = "name" /\ name.at >= Size
    /\ Fails
    /\ UNCHANGED <<query, reply, end, then, txt, read>>

\* Mutant: the second byte of a pointer is not looked for.
PointerUnchecked ==
    /\ pc = "name" /\ name.at < Size /\ Length >= 192
    /\ Reads(name.at + 2)
    /\ IF name.hops = MaxHops THEN Fails
       ELSE /\ name' = [name EXCEPT
                            !.at = (Length % 64) * 256 + Byte(name.at + 1),
                            !.next = IF name.jumped THEN @ ELSE name.at + 2,
                            !.jumped = TRUE, !.hops = @ + 1]
            /\ UNCHANGED <<pc, pos, left, cname>>
    /\ UNCHANGED <<query, reply, end, then, txt>>

\* Mutant: the jumps are not counted.
PointerUncounted ==
    /\ pc = "name" /\ name.at < Size /\ Length >= 192
    /\ Reads(IF name.at + 1 < Size THEN name.at + 2 ELSE name.at + 1)
    /\ IF name.at + 1 >= Size THEN Fails
       ELSE /\ name' = [name EXCEPT
                            !.at = (Length % 64) * 256 + Byte(name.at + 1),
                            !.next = IF name.jumped THEN @ ELSE name.at + 2,
                            !.jumped = TRUE]
            /\ UNCHANGED <<pc, pos, left, cname>>
    /\ UNCHANGED <<query, reply, end, then, txt>>

Pointer ==
    /\ pc = "name" /\ name.at < Size /\ Length >= 192
    /\ Reads(IF name.at + 1 < Size THEN name.at + 2 ELSE name.at + 1)
    /\ IF name.at + 1 >= Size \/ name.hops = MaxHops THEN Fails
       ELSE /\ name' = [name EXCEPT
                            !.at = (Length % 64) * 256 + Byte(name.at + 1),
                            !.next = IF name.jumped THEN @ ELSE name.at + 2,
                            !.jumped = TRUE, !.hops = @ + 1]
            /\ UNCHANGED <<pc, pos, left, cname>>
    /\ UNCHANGED <<query, reply, end, then, txt>>

Label ==
    /\ pc = "name" /\ name.at < Size /\ Length \in 1..191
    /\ Reads(IF name.at + 1 + Length > Size THEN name.at + 1 ELSE name.at + 1 + Length)
    /\ IF name.at + 1 + Length > Size THEN Fails
       ELSE /\ name' = [name EXCEPT
                            !.at = @ + 1 + Length,
                            !.labels = Append(@, SubSeq(reply.bytes, name.at + 2,
                                                        name.at + 1 + Length))]
            /\ UNCHANGED <<pc, pos, left, cname>>
    /\ UNCHANGED <<query, reply, end, then, txt>>

\* Mutant: what follows a compressed name is looked for behind its target.
AfterTarget == name.at + 1

After == IF name.jumped THEN name.next ELSE name.at + 1

NameEnds ==
    /\ pc = "name" /\ name.at < Size /\ Length = 0
    /\ Reads(name.at + 1)
    /\ \/ /\ then = "questions"
          /\ pc' = "questions" /\ pos' = After + 4
          /\ left' = [left EXCEPT !.questions = @ - 1] /\ UNCHANGED cname
       \/ /\ then = "record"
          /\ pc' = "record" /\ pos' = After
          /\ UNCHANGED <<left, cname>>
       \/ /\ then = "cname"
          /\ pc' = "answers" /\ pos' = end
          /\ left' = [left EXCEPT !.answers = @ - 1] /\ cname' = name.labels
    /\ UNCHANGED <<query, reply, end, name, then, txt>>

-----------------------------------------------------------------------------

(***************************************************************************)
(* parse_response: the questions are skipped and the answers read; of a    *)
(* CNAME the target, although an error in it is passed over.               *)
(***************************************************************************)
Question ==
    /\ pc = "questions"
    /\ IF left.questions = 0 THEN pc' = "answers" /\ UNCHANGED <<name, then>>
                             ELSE Call("questions")
    /\ UNCHANGED <<query, reply, left, pos, end, result, read>>

Answer ==
    /\ pc = "answers" /\ left.answers > 0
    /\ Call("record")
    /\ UNCHANGED <<query, reply, left, pos, end, result, read>>

Truncated == pos + 10 > Size \/ pos + 10 + Word(pos + 8) > Size

RecordTruncated ==
    /\ Goto("record", "failed") /\ Truncated
    /\ Reads(IF pos + 10 > Size THEN 0 ELSE pos + 10)
    /\ UNCHANGED <<query, reply, left, pos, end, name, then, result>>

Record ==
    /\ pc = "record" /\ ~Truncated
    /\ end' = pos + 10 + Word(pos + 8)
    /\ Reads(pos + 10)
    /\ \/ /\ Word(pos) = TXT
          /\ pc' = "txt" /\ pos' = pos + 10 /\ UNCHANGED <<left, name, then>>
       \/ /\ Word(pos) = CNAME
          /\ pc' = "name" /\ name' = NewName(pos + 10) /\ then' = "cname"
          /\ pos' = pos + 10 /\ UNCHANGED left
       \/ /\ Word(pos) \notin {TXT, CNAME}
          /\ pc' = "answers" /\ pos' = end'
          /\ left' = [left EXCEPT !.answers = @ - 1] /\ UNCHANGED <<name, then>>
    /\ UNCHANGED <<query, reply, result>>

(***************************************************************************)
(* parse_txt: each string of a record is a value.                          *)
(***************************************************************************)
Fits == pos < end /\ pos + 1 + Byte(pos) <= end

TxtString ==
    /\ pc = "txt" /\ Fits
    /\ Reads(pos + 1 + Byte(pos))
    /\ txt' = Append(txt, SubSeq(reply.bytes, pos + 2, pos + 1 + Byte(pos)))
    /\ pos' = pos + 1 + Byte(pos)
    /\ UNCHANGED <<query, pc, reply, left, end, name, then, cname>>

TxtEnds ==
    /\ Goto("txt", "answers") /\ ~Fits
    /\ Reads(IF pos < end THEN pos + 1 ELSE pos)
    /\ pos' = end /\ left' = [left EXCEPT !.answers = @ - 1]
    /\ UNCHANGED <<query, reply, end, name, then, result>>

-----------------------------------------------------------------------------

(***************************************************************************)
(* A CNAME is followed if there is no TXT record beside it.                *)
(***************************************************************************)
Parsed == pc = "answers" /\ left.answers = 0

Evaluate ==
    /\ Parsed
    /\ \/ /\ txt = << >> /\ cname # None
          /\ pc' = "ask" /\ depth' = depth + 1
       \/ /\ ~(txt = << >> /\ cname # None)
          /\ pc' = IF Expected \in Range(txt) THEN "found" ELSE "next"
          /\ UNCHANGED depth
    /\ UNCHANGED <<poll, server, clock, reply, left, pos, end, name, then, result, read>>

Failed ==
    /\ Goto("failed", "next")
    /\ UNCHANGED <<query, reply, left, pos, end, name, then, result, read>>

(***************************************************************************)
(* The deadline is looked at after a round over all resolvers only.        *)
(***************************************************************************)
NextServer ==
    /\ Goto("next", "ask") /\ server < poll.servers
    /\ server' = server + 1 /\ depth' = 0
    /\ UNCHANGED <<poll, clock, reply, left, pos, end, name, then, result, read>>

NextRound ==
    /\ Goto("next", "ask") /\ server = poll.servers /\ clock < poll.timeout
    /\ server' = 1 /\ depth' = 0
    /\ clock' = IF poll.timeout - clock < 2 THEN poll.timeout ELSE clock + 2
    /\ UNCHANGED <<poll, reply, left, pos, end, name, then, result, read>>

GiveUp ==
    /\ Goto("next", "timeout") /\ server = poll.servers /\ clock >= poll.timeout
    /\ UNCHANGED <<query, reply, left, pos, end, name, then, result, read>>

-----------------------------------------------------------------------------

ReadName == NameOutside \/ Pointer \/ Label \/ NameEnds

Parse == Header \/ Question \/ Answer \/ RecordTruncated \/ Record \/ TxtString \/ TxtEnds

Next ==
    \/ Ask \/ Receive \/ NoReply \/ Parse \/ ReadName
    \/ Evaluate \/ Failed \/ NextServer \/ NextRound \/ GiveUp

Spec == Init /\ [][Next]_vars

(***************************************************************************)
(* The socket has a timeout and a sleep ends.                              *)
(***************************************************************************)
FairSpec == Spec /\ WF_vars(Next)

-----------------------------------------------------------------------------

(***************************************************************************)
(* No message, however it is cut off or made up, makes the parser index    *)
(* past its end: that would be a panic, and the end of a run.              *)
(***************************************************************************)
ReadsInBounds == read <= Size

(***************************************************************************)
(* A message that means something is decoded to what it was encoded from,  *)
(* wherever its names are compressed.                                      *)
(***************************************************************************)
AnswerIsDecoded ==
    reply.means # None =>
        /\ pc # "failed"
        /\ Parsed => txt = reply.means.txt /\ cname = reply.means.cname

(***************************************************************************)
(* The poll overruns --dns-timeout by no more than one round: the time all *)
(* resolvers may take for a query and for the CNAMEs that are followed.    *)
(***************************************************************************)
OverrunBounded ==
    clock <= poll.timeout + poll.servers * (MaxDepth + 1) * QueryTimeout

(***************************************************************************)
(* Whatever the resolvers answer, chains and loops of CNAMEs and of        *)
(* pointers included, the poll ends.                                       *)
(***************************************************************************)
PollEnds == <>(pc \in {"found", "timeout"})

=============================================================================
