---------------------------- MODULE MCIssuance ----------------------------
(***************************************************************************)
(* Issuance by both challenges, dns-01 with and without propagation polls  *)
(* and sleeps, where any fault may happen, or any but one.                 *)
(***************************************************************************)
EXTENDS Issuance

Dns(polls, sleeps) ==
    [challenge |-> "dns-01", polls |-> polls, sleeps |-> sleeps, prefers |-> FALSE]

AllOptions ==
    {Dns(TRUE, TRUE), Dns(TRUE, FALSE), [Dns(FALSE, TRUE) EXCEPT !.prefers = TRUE],
     [Dns(TRUE, TRUE) EXCEPT !.challenge = "http-01"]}

\* The default chain and up to two alternates, in one Link header or in two.
SomeReplies ==
    [wanted : {{}, {0}, {1}, {2}, {1, 2}},
     links : {<< >>, << <<1, 2>> >>, << <<1>>, <<2>> >>, << <<2>>, << >> >>}]

SomeOffers == {Auth, {1}}

AllFaults == {Kind, Kind \ {"net"}, Kind \ {"ca"}}

=============================================================================
