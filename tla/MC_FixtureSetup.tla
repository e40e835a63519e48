--------------------------- MODULE MC_FixtureSetup ---------------------------
(***************************************************************************)
(* Small instances of FixtureSetup: two runs against one cluster, with     *)
(* counts that stay, grow or shrink in between.                            *)
(***************************************************************************)
EXTENDS FixtureSetup

Nothing == [source |-> "pod", services |-> 0, gateways |-> 0, virtualservices |-> 0,
            nodes |-> 0, pods |-> 0, spread |-> <<>>]

Istio(s, g, v)  == [Nothing EXCEPT !.source = "istio", !.services = s, !.gateways = g, !.virtualservices = v]
Services(n, s, p) == [Nothing EXCEPT !.source = "service", !.nodes = n, !.services = s, !.pods = p]
Pods(p)      == [Nothing EXCEPT !.pods = p]
Endpoints(n) == [Nothing EXCEPT !.source = "dnsendpoint", !.spread = n]

\* Reruns with the same, larger and smaller counts, and one scenario after another.
AllHistories ==
  { << Istio(1, 2, 1), Istio(2, 3, 2) >>, << Istio(2, 2, 1), Istio(0, 2, 1) >>,
    << Services(1, 1, 2), Services(2, 1, 3) >>, << Services(2, 1, 2), Services(1, 2, 2) >>,
    << Pods(2), Pods(2) >>, << Istio(1, 2, 1), Istio(1, 2, 1) >>,
    << Services(1, 2, 2), Services(1, 2, 2) >>, << Pods(1), Services(1, 1, 1) >>,
    << Endpoints(<<"default", "dev">>), Endpoints(<<"dev", "dev", "ops">>) >>,
    << Istio(1, 1, 1), Endpoints(<<"default">>) >> }

\* The addresses of the objects, past the largest count within reach that a conversion
\* supports.
A == INSTANCE Addresses
ASSUME AddressesChecked ==
  \A u \in A!Uses : \A i \in 0 .. 131072 : A!UniqueAddress(u, i) /\ A!ValidAddress(u, i)
=============================================================================
