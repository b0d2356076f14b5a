---------------------------- MODULE MCDnsProvider ----------------------------
(***************************************************************************)
(* DnsProvider with the providers of ProviderTable and seven accounts.     *)
(***************************************************************************)
EXTENDS DnsProvider, ProviderTable, TLC

CONSTANTS c1, c2

\* example.com hosted, and asked for
Apex      == [labels |-> 2, listed |-> <<0>>, registered |-> 0]
\* www.example.com asked for
Host      == [labels |-> 3, listed |-> <<1>>, registered |-> 1]
\* example.co.uk asked for
Country   == [labels |-> 3, listed |-> <<0>>, registered |-> 0]
\* sub.example.com hosted and asked for, example.com hosted elsewhere
Delegated == [labels |-> 3, listed |-> <<0>>, registered |-> 1]
\* example.com and sub.example.com hosted, in this order
Nested    == [labels |-> 3, listed |-> <<1, 0>>, registered |-> 1]
\* another domain hosted too, and listed first
Second    == [labels |-> 2, listed |-> <<Unrelated, 0>>, registered |-> 0]
\* www.sub.example.com asked for, the same two zones hosted
Deep      == [labels |-> 4, listed |-> <<2, 1>>, registered |-> 2]

Accounts == {Apex, Host, Country, Delegated, Nested, Second, Deep}

Sym == Permutations({c1, c2})

=============================================================================
