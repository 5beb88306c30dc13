-------------------------- MODULE MCStandaloneServer --------------------------
(* A small instance of StandaloneServer for TLC. *)
EXTENDS StandaloneServer, TLC

\* NewBroker registers the generic driver, and start registers no other.
Targets == {"generic_token", "postgres", "redis"}
OnlyGeneric == [t \in Targets |-> IF t = "generic_token" THEN t ELSE None]
OneTarget == {"postgres"}
Nobody == {}

\* A lifetime, and one that is out of bounds.
Lifetimes == {1, 9}

SomeFiles ==
    {<<>>, [transports |-> "sse"], [transport |-> "sse"], [transport |-> "SSE"], [audit |-> FALSE], [audit |-> FALSE, logPath |-> ""],
     [guardrails |-> FALSE, audit |-> FALSE], [port |-> 70000], [url |-> "https://remote/rpc", downstream |-> ""],
     [command |-> "npx", mode |-> "other"], [transport |-> "sse", host |-> ""]}

SomeEnvironments ==
    {<<>>, [transport |-> "Sse", port |-> "9090"], [transport |-> "stdio", host |-> ""],
     [guardrails |-> "off", audit |-> "maybe"], [audit |-> "yes", masking |-> "0"],
     [port |-> "70000"], [port |-> "many", logLevel |-> "INFO"],
     [command |-> "npx", url |-> "ftp://remote"], [logPath |-> "", audit |-> "1"]}

SomeFlags ==
    {<<>>, [transport |-> "stdio"], [transport |-> "sse", port |-> 8080], [port |-> 0],
     [url |-> "http://remote/rpc"], [command |-> ""], [argument |-> "npx", command |-> "uvx"]}

-------------------------------------------------------------------------------
Plain == [method |-> "ping", tool |-> "", argument |-> None, ttl |-> 1, text |-> Clean,
          values |-> Clean, inner |-> Clean, size |-> "small", denied |-> FALSE]

CallOf(tool, argument) ==
    [Plain EXCEPT !.method = "call", !.tool = tool, !.argument = argument]

Issue == CallOf("request", "postgres")

\* The n-th Base64 word is what a rule looks for.
WordAt(n) == [Clean EXCEPT !.words = [i \in 1..n |-> IF i = n THEN {3} ELSE {}]]

SomeMessages(l) ==
    {Plain,
     [Plain EXCEPT !.method = "unknown"], [Plain EXCEPT !.method = "note"],
     [Plain EXCEPT !.method = "garbage"], [Plain EXCEPT !.size = "large"],
     [Plain EXCEPT !.method = "request", !.argument = "postgres"],
     [Plain EXCEPT !.method = "revoke", !.argument = l],
     [Plain EXCEPT !.method = "request", !.argument = "postgres", !.denied = TRUE],
     [Plain EXCEPT !.method = "request", !.argument = "postgres", !.text = [Clean EXCEPT !.matches = {5}]],
     CallOf("", None), CallOf("unknown", None), CallOf("list", None),
     CallOf("revoke", l), CallOf("revoke", None), Issue,
     [Issue EXCEPT !.ttl = 9], [Issue EXCEPT !.denied = TRUE], [Issue EXCEPT !.size = "grows"],
     [Issue EXCEPT !.text = WordAt(10)], [Issue EXCEPT !.text = WordAt(11)],
     [Issue EXCEPT !.inner = [Clean EXCEPT !.matches = {5}]],
     [Issue EXCEPT !.values = [Clean EXCEPT !.matches = {5, 7}]]}

SomePosts ==
    {Issue, CallOf("", None), [Plain EXCEPT !.method = "note"]}
        \cup {[Plain EXCEPT !.method = "revoke", !.argument = l] : l \in Lease}

MessagesOfOne == UNION {SomeMessages(l) : l \in Lease}

\* The handlers of POSTs are alike.
HandlerSymmetry == Permutations(Caller \ {Main})

===============================================================================
