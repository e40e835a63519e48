---------------------------- MODULE MC_Reporting ----------------------------
(***************************************************************************)
(* Small instances of Reporting, each aimed at one stage: the calls of two *)
(* windows, the times of one, and the scrapes around three iterations.     *)
(***************************************************************************)
EXTENDS Reporting

S(text) == [text |-> text, word |-> TRUE]
N(text) == [text |-> text, word |-> FALSE]
Req(op, watch, resource, path) == [op |-> op, watch |-> watch, resource |-> resource, path |-> path]

InNamespace(ns, resource, watch) ==
  Req("GET", watch, resource, <<S("api"), N("v1"), S("namespaces"), ns, S(resource)>>)

SomeRequests ==
  { InNamespace(S("default"), "pods", FALSE), InNamespace(N("istio-system"), "pods", FALSE),
    InNamespace(S("default"), "pods", TRUE), InNamespace(S("default"), "services", FALSE),
    Req("GET", FALSE, "gateways", <<S("apis"), N("networking.istio.io"), N("v1"), S("gateways")>>) }

CallSeqs == UNION {[1 .. n -> [req : SomeRequests, time : {1, 4}]] : n \in 0 .. 2}

NoLines == [ok |-> TRUE, lines |-> <<>>]
Windows ==
  { [windows |-> <<v, w>>, times |-> <<1>>, scrapes |-> <<NoLines, NoLines>>] : v, w \in CallSeqs }

OneKey(times) == [i \in DOMAIN times |-> [req |-> InNamespace(S("default"), "pods", FALSE), time |-> times[i]]]
Empty(n, x) == [i \in 1 .. n |-> x]
Spread ==
  { [windows |-> <<OneKey(t)>> \o Empty(Len(t) + 1, <<>>), times |-> <<9>> \o t,
     scrapes |-> Empty(Len(t) + 2, NoLines)] : t \in UNION {[1 .. n -> {1, 2, 7}] : n \in 0 .. 5} }

V(key, value) == [kind |-> "value", key |-> key, value |-> value]
T(family, type) == [kind |-> "type", key |-> <<family>>, value |-> type]

\* A counter with and without labels, a gauge, and a family that is not wanted; a scrape
\* that breaks off has its first lines only.
Full(n) == << T("allocs", "counter"), V(<<"allocs">>, 3 * n + 1), T("heap", "gauge"), V(<<"heap">>, 5 - n),
              T("other", "counter"), V(<<"other">>, n), V(<<"allocs", "a">>, n * n) >>
Scrapes(n) == { [ok |-> TRUE, lines |-> Full(n)], [ok |-> FALSE, lines |-> SubSeq(Full(n), 1, 2)],
                [ok |-> FALSE, lines |-> <<>>], [ok |-> TRUE, lines |-> SubSeq(Full(n), 2, 6)] }
Scraped ==
  { [windows |-> <<<<>>, <<>>, <<>>, <<>>>>, times |-> <<1, 1, 1>>, scrapes |-> <<a, b, c, d>>] :
      a \in Scrapes(1), b \in Scrapes(2), c \in Scrapes(3), d \in Scrapes(4) }

AllInputs == Windows \cup Spread \cup Scraped
Wanted == {"allocs", "heap"}
=============================================================================
