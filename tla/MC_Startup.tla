----------------------------- MODULE MC_Startup -----------------------------
(***************************************************************************)
(* Small instances of Startup: every command line of up to three arguments *)
(* and every file below as bench.yaml.                                     *)
(***************************************************************************)
EXTENDS Startup, TLC

Eq(n, v) == [name |-> n, form |-> "eq", value |-> v]
Bare(n)  == [name |-> n, form |-> "bare", value |-> ""]
Word(v)  == [name |-> "", form |-> "word", value |-> v]

Arguments ==
  { Eq("config", "other.yaml"), Bare("config"), Word("other.yaml"), Eq("scenario", "b"), Bare("scenario"),
    Bare("skipSetup"), Eq("skipSetup", "false"), Eq("latencyMs", "0"), Eq("latencyMs", "50ms"),
    Bare("help"), [name |-> "", form |-> "end", value |-> ""] }

AllCommandLines == UNION {[1 .. n -> Arguments] : n \in 0 .. 3}

W(k, n) == [key |-> k, weight |-> n]
Service(n, w, m, v) ==
  [scenarios |-> << [name |-> "s", source |-> "service", default |-> TRUE,
                     services |-> Weighted(n, w), pods |-> Weighted(m, v)] >>]

BenchFiles ==
  { [absent |-> TRUE], [broken |-> TRUE], [latencyMs |-> "50ms"], [latencyMs |-> "soon"],
    [skipSetup |-> "true", latencyMs |-> "50"],
    [scenarios |-> <<>>],
    [scenarios |-> << [name |-> "a", source |-> "pod"] >>],
    [scenarios |-> << [name |-> "a", source |-> "pod", default |-> FALSE],
                      [name |-> "b", source |-> "service", default |-> TRUE, iterations |-> 5] >>],
    [scenarios |-> << [name |-> "a"], [name |-> "b", source |-> "pod", default |-> TRUE] >>],
    [scenarios |-> << [name |-> "a", default |-> FALSE], [name |-> "b", iterations |-> 2],
                      [name |-> "c", source |-> "pod", default |-> TRUE] >>],
    [scenarios |-> << [name |-> "e", source |-> "dnsendpoint", iterations |-> 1,
                       dnsendpoints |-> Weighted(5, <<W("default", 1), W("dev", 2)>>)] >>],
    [scenarios |-> << [name |-> "e", source |-> "dnsendpoint",
                       dnsendpoints |-> Weighted(2, <<W("dev", 0)>>)] >>],
    Service(7, <<W("headless", 1), W("node-port", 2)>>, 5, <<W("headless", 2), W("node-port", 0)>>),
    Service(4, <<W("headless", -1), W("node-port", 3)>>, 0, <<>>),
    Service(3, <<>>, 4, <<W("a", 1), W("b", 1), W("c", 1)>>),
    Service(2, <<W("headless", 0), W("node-port", 0)>>, 0, <<>>),
    Service(-2, <<W("headless", 1)>>, 3, <<W("headless", 1)>>),
    [scenarios |-> << [name |-> "a", source |-> "pod", iterations |-> -1] >>],
    [scenarios |-> << [name |-> "e", source |-> "dnsendpoint", dnsendpoints |-> Count(-1)] >>] }

AllDisks == {("bench.yaml" :> f @@ "other.yaml" :> [skipSetup |-> "true"]) : f \in BenchFiles}

NoArguments == { <<>> }
=============================================================================
