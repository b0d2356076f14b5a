----------------------------- MODULE MCAccount -----------------------------
(***************************************************************************)
(* Account with two processes and three servers, two of which share a file *)
(* name, and a legacy file that names its server, or none.                 *)
(***************************************************************************)
EXTENDS Account, TLC

CONSTANTS s1, s2, s3, a1, a2, a3, a4, p1, p2

SharedName == s1 :> "ca_1" @@ s2 :> "ca_1" @@ s3 :> "ca_2"

NamedLegacy == [acct |-> a1, server |-> s1]

UnnamedLegacy == [acct |-> a1, server |-> None]

SomeLegacy == {None, NamedLegacy, UnnamedLegacy}

Sym == Permutations({p1, p2})

=============================================================================
