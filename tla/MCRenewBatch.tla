---------------------------- MODULE MCRenewBatch ----------------------------
(***************************************************************************)
(* RenewBatch with the table of the code: one run over two certificates    *)
(* with any settings, and several runs with any of the flags that change   *)
(* what is stored.                                                         *)
(***************************************************************************)
EXTENDS RenewBatch

Directory(name) == Find(name).directory
Custom == [base |-> "ca.example/directory", slashes |-> 1]
Demands == {Presets[i].directory.base : i \in {j \in DOMAIN Presets : Presets[j].eab}}

AnyLife == [days : {0, 1}, begun : BOOLEAN]
Expiring == {[days |-> 0, begun |-> FALSE]}

Renew == [cmd |-> "renew", domain |-> None, force |-> FALSE, dry |-> FALSE, test |-> FALSE,
          ca |-> None, server |-> None, eab |-> FALSE, http |-> FALSE, hooks |-> {}]
Issue(c) == [Renew EXCEPT !.cmd = "issue", !.domain = c]

-----------------------------------------------------------------------------

AnySetting ==
    {[issuer |-> Default.directory,
      setting |-> [ca |-> None, server |-> None, http |-> http, hooks |-> hooks]] :
        http \in BOOLEAN, hooks \in SUBSET {"pre", "post"}}
    \union {[issuer |-> Default.directory, setting |-> None]}

AnyRun == {[Renew EXCEPT !.domain = domain, !.force = force, !.dry = dry, !.hooks = hooks] :
              domain \in {None, 2}, force, dry \in BOOLEAN, hooks \in {{}, {"post"}}}

-----------------------------------------------------------------------------

Nothing == {[issuer |-> None, setting |-> None]}

Issues == {[Issue(c) EXCEPT !.ca = ca, !.server = server, !.test = test, !.eab = eab] :
              c \in Cert, ca \in {None, "letsencrypt", "zerossl"},
              server \in {None, Custom}, test, eab \in BOOLEAN}

Renewals == {[Renew EXCEPT !.domain = domain, !.server = server, !.test = test, !.dry = dry] :
                domain \in {None, 1},
                server \in {None, Custom, Directory("zerossl")}, test, dry \in BOOLEAN}

AnyCommand == Issues \union Renewals

=============================================================================
