----------------------------- MODULE Configuration -----------------------------
(***************************************************************************)
(* How the program comes by its configuration (internal/config) and what   *)
(* the start command makes of it (internal/cli/start.go): the defaults,    *)
(* overlaid by the YAML file, by the environment and by the flags.         *)
(*                                                                         *)
(* A configuration is a function from Field; the fields that only carry    *)
(* data to a component (patterns, tool lists, key paths) are left out.  A  *)
(* layer is a function from the fields that it sets.                       *)
(***************************************************************************)
EXTENDS Integers

\* transport, host, port, logLevel: server; url, command, downstream (its
\* transport): downstream; masking, guardrails, audit: security toggles; mode:
\* of masking; maxSize: of a prompt; logPath: of the audit log.
Field == {"version", "transport", "host", "port", "logLevel", "downstream", "url", "command",
          "masking", "guardrails", "audit", "mode", "maxSize", "logPath"}

DefaultConfig ==
    [version |-> "v1", transport |-> "stdio", host |-> "127.0.0.1", port |-> 8080,
     logLevel |-> "info", downstream |-> "stdio", url |-> "", command |-> "",
     masking |-> TRUE, guardrails |-> TRUE, audit |-> TRUE, mode |-> "tokenize",
     maxSize |-> 1048576, logPath |-> "krypton-audit.log"]

\* The fields of cfg that layer sets take its values.
Overlay(cfg, layer) == [f \in Field |-> IF f \in DOMAIN layer THEN layer[f] ELSE cfg[f]]

-------------------------------------------------------------------------------
\* applyEnvOverrides.  An environment variable is a string; one that is empty
\* counts as not set.

\* strings.ToLower, for the spellings of the transports and of a log level.
Lower(s) == CASE s \in {"SSE", "Sse"} -> "sse" [] s = "STDIO" -> "stdio" [] s = "INFO" -> "info"
              [] OTHER -> s

\* strconv.Atoi: an error leaves the port as it is.
Number == [s \in {"0", "8080", "9090", "70000"} |->
              CASE s = "0" -> 0 [] s = "8080" -> 8080 [] s = "9090" -> 9090 [] OTHER -> 70000]

parseBoolSafe(s, default) ==
    IF s \in {"true", "1", "yes", "on"} THEN TRUE
    ELSE IF s \in {"false", "0", "no", "off"} THEN FALSE
    ELSE default

ApplyEnvOverrides(cfg, env) ==
    LET Override(f) ==
          CASE f \in {"transport", "logLevel", "downstream"} -> Lower(env[f])
            [] f = "port" -> IF env[f] \in DOMAIN Number THEN Number[env[f]] ELSE cfg[f]
            [] f \in {"masking", "guardrails", "audit"} -> parseBoolSafe(env[f], cfg[f])
            [] OTHER -> env[f]
    IN  Overlay(cfg, [f \in {f \in DOMAIN env : env[f] # ""} |-> Override(f)])

-------------------------------------------------------------------------------
\* Validate.

Port == 1..65535

Valid(cfg) ==
    /\ cfg.version # ""
    /\ cfg.transport \in {"stdio", "sse"}
    /\ cfg.transport = "sse" => cfg.port \in Port /\ cfg.host # ""
    /\ cfg.url \in {"", "http://remote/rpc", "https://remote/rpc"}
    /\ Lower(cfg.logLevel) \in {"debug", "info", "warn", "error"}
    /\ cfg.mode \in {"tokenize", "redact", "hash"}
    /\ cfg.maxSize > 0
    /\ cfg.audit => cfg.logPath # ""

\* It fills in the transport of the downstream server, which nobody reads.
Normalised(cfg) ==
    [cfg EXCEPT !.downstream = IF @ # "" THEN @ ELSE IF cfg.url # "" THEN "http" ELSE "stdio"]

\* Mutant: the file is decoded over what the environment said.
LoadFileLast(file, env) ==
    LET cfg == Overlay(ApplyEnvOverrides(DefaultConfig, env), file)
    IN  IF DOMAIN file \subseteq Field /\ Valid(cfg) THEN {Normalised(cfg)} ELSE {}

\* Load, as the set of what it returns: nothing when it fails.  The decoder
\* accepts no field that it does not know.
Load(file, env) ==
    LET cfg == ApplyEnvOverrides(Overlay(DefaultConfig, file), env)
    IN  IF DOMAIN file \subseteq Field /\ Valid(cfg) THEN {Normalised(cfg)} ELSE {}

-------------------------------------------------------------------------------
\* The flags of start that were given, and an argument, which is the command.
\* A URL also makes the downstream transport "http".
ApplyFlags(cfg, flags) ==
    LET given == [f \in DOMAIN flags \ {"argument"} |-> flags[f]]
        argued == IF "argument" \in DOMAIN flags
                  THEN Overlay(Overlay(cfg, given), [command |-> flags.argument])
                  ELSE Overlay(cfg, given)
    IN  IF "url" \in DOMAIN flags THEN [argued EXCEPT !.downstream = "http"] ELSE argued

HasDownstream(cfg) == cfg.command # "" \/ cfg.url # ""

\* What start runs: a gateway in front of another server, or one on its own.
Program(cfg) ==
    IF HasDownstream(cfg) THEN "gateway" ELSE cfg.transport

===============================================================================
