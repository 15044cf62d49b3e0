------------------------------ MODULE MCConfig ------------------------------
(* Inputs of Config for TLC: numerals on both sides of every limit, a file *)
(* that gives all, all but one or none of the required keys followed by up *)
(* to two lines of any kind, and an environment with at most one setting   *)
(* besides limits.max_connections.                                         *)
EXTENDS Config, TLC

MCNumerals == ("0" :> 0) @@ ("1" :> 1) @@ ("2" :> 2) @@ ("3" :> 3)
              @@ ("4" :> 4) @@ ("5" :> 5) @@ ("6" :> 6) @@ ("7" :> 7)

(* 2 is the largest port, 3 the largest message, 5 and 6 the largest       *)
(* 32- and 64-bit numbers.                                                 *)
Texts ==
    [k \in Keys |->
        CASE k = "listen.host" -> {Text("somewhere"), Padded("somewhere")}
          [] k = "listen.port" -> {Text("0"), Text("2"), Text("3"), Padded("1"), Text("")}
          [] k = "limits.max_message_bytes" -> {Text("3"), Text("4"), Text("6"), Text("7")}
          [] k = "logging.level" -> {Text("warning"), Text("loud")}
          [] k = "metrics.enabled" -> {Text("1"), Text("True"), Text("2")}
          [] k = "timeouts.idle_ms" -> {Text("0"), Text("5"), Text("6")}
          [] OTHER -> {Text("1")}]

Lines ==
    UNION {{Line("entry", k, t) : t \in Texts[k]} : k \in Keys}
    \cup {Line("blank", "", Text("")), Line("no_key", "", Text("somewhere")),
          Line("entry", "bogus", Text("1"))}

Complete == <<Line("entry", "limits.max_connections", Text("1")),
              Line("entry", "limits.max_message_bytes", Padded("1")),
              Line("entry", "timeouts.idle_ms", Text("1")),
              Line("entry", "runtime.worker_threads", Text("1")),
              Line("entry", "listen.port", Text("1"))>>

MCFiles ==
    LET bases == {<<>>, Complete} \cup {SubSeq(Complete, 1, 4), SubSeq(Complete, 3, 5)}
        tails == {<<>>} \cup {<<l>> : l \in Lines} \cup {<<l, m>> : l, m \in Lines}
    IN {b \o t : b \in bases, t \in tails}

NoEnv == [k \in Keys |-> Unset]
Set(e, k) == {[e EXCEPT ![k] = t] : t \in Texts[k]}
MCEnvs ==
    LET one == UNION {Set(NoEnv, k) : k \in Keys}
    IN {NoEnv} \cup one \cup UNION {Set(e, "limits.max_connections") : e \in one}

=============================================================================
