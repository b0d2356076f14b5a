----------------------------- MODULE DnsMessage -----------------------------
(***************************************************************************)
(* What it means that a message was encoded from an answer (RFC 1035,      *)
(* section 4), for messages of any length and with names compressed in any *)
(* way.  A message is encoded properly if it can be annotated: an          *)
(* annotation says of each offset at which a name, a record or a string    *)
(* begins what is spelled there and where the next one begins, and each of *)
(* its claims follows from the bytes there and from the claim about one    *)
(* other offset.                                                           *)
(***************************************************************************)
EXTENDS DnsQuery

Octet(b, p) == b[p + 1]
Pair(b, p)  == 256 * Octet(b, p) + Octet(b, p + 1)

\* The bytes from offset p up to, and without, offset q.
Octets(b, p, q) == SubSeq(b, p + 1, q)

Rest(b, p) == p + 1 + Octet(b, p)
Pointee(b, p) == 256 * (Octet(b, p) - 192) + Octet(b, p + 1)

\* A name is the root, or a label and the rest of the name, or a pointer to
\* a name; no more than MaxHops pointers have to be followed.
IsRoot(b, m, p) ==
    Octet(b, p) = 0 /\ m.labels[p] = << >> /\ m.after[p] = p + 1

IsLabel(b, m, p) ==
    /\ Octet(b, p) \in 1..63 /\ Rest(b, p) \in m.names
    /\ m.labels[p] = <<Octets(b, p + 1, Rest(b, p))>> \o m.labels[Rest(b, p)]
    /\ m.after[p] = m.after[Rest(b, p)] /\ m.jumps[p] = m.jumps[Rest(b, p)]

IsPointer(b, m, p) ==
    /\ Octet(b, p) \in 192..255 /\ p + 1 < Len(b) /\ Pointee(b, p) \in m.names
    /\ m.labels[p] = m.labels[Pointee(b, p)]
    /\ m.after[p] = p + 2 /\ m.jumps[p] = m.jumps[Pointee(b, p)] + 1

Names(b, m) ==
    \A p \in m.names :
        /\ p \in Nat /\ p < Len(b)
        /\ m.labels[p] \in Labels /\ m.after[p] \in Nat /\ m.jumps[p] \in 0..MaxHops
        /\ IsRoot(b, m, p) \/ IsLabel(b, m, p) \/ IsPointer(b, m, p)

\* The questions follow the header, each a name, a type and a class.
Questions(b, m) ==
    /\ m.question[0] = 12
    /\ \A i \in 0..(Pair(b, 4) - 1) :
           /\ m.question[i] \in m.names
           /\ m.question[i + 1] = m.after[m.question[i]] + 4

\* The strings of a TXT record fill it; said are those before an offset.
Strings(b, m, i, last) ==
    \A p \in m.strings[i] :
        /\ p \in Nat
        /\ \/ p = last
           \/ /\ Rest(b, p) \in m.strings[i] /\ Rest(b, p) <= last
              /\ m.said[Rest(b, p)] = Append(m.said[p], Octets(b, p + 1, Rest(b, p)))

\* A record is a name, ten bytes that end in a length, and its data.
RecordAt(b, m, i) ==
    LET p    == m.record[i]
        type == Pair(b, m.after[p])
        data == m.after[p] + 10
        last == m.record[i + 1]
    IN  /\ p \in m.names
        /\ data <= Len(b) /\ last <= Len(b) /\ last = data + Pair(b, m.after[p] + 8)
        /\ \/ /\ type = TXT
              /\ data \in m.strings[i] /\ Strings(b, m, i, last)
              /\ m.said[data] = m.said[p] /\ m.target[last] = m.target[p]
           \/ /\ type = CNAME
              /\ data \in m.names
              /\ m.said[last] = m.said[p] /\ m.target[last] = m.labels[data]
           \/ /\ type \notin {TXT, CNAME}
              /\ m.said[last] = m.said[p] /\ m.target[last] = m.target[p]

Answers(b, m) ==
    /\ m.record[0] = m.question[Pair(b, 4)]
    /\ m.said[m.record[0]] = << >> /\ m.target[m.record[0]] = None
    /\ \A i \in 0..(Pair(b, 6) - 1) : RecordAt(b, m, i)

\* m is an annotation of r, which says what r is said to mean.
Annotates(m, r) ==
    LET b == r.bytes
    IN  /\ Len(b) >= 12 /\ Pair(b, 0) = QueryId /\ Octet(b, 3) % 16 = 0
        /\ Names(b, m) /\ Questions(b, m) /\ Answers(b, m)
        /\ r.means.txt = m.said[m.record[Pair(b, 6)]]
        /\ r.means.cname = m.target[m.record[Pair(b, 6)]]

=============================================================================
