------------------------------ MODULE MCLifecycle ------------------------------
(***************************************************************************)
(* Lifecycle with every command line of up to MaxArgs arguments, of one    *)
(* argument for each way in which config.go treats them differently.       *)
(***************************************************************************)
EXTENDS Lifecycle

CONSTANT MaxArgs    \* bound: arguments of a command line

Set(f, v) == [is |-> "setting", flag |-> f, value |-> v]

MCArgument ==
    {[is |-> kind] : kind \in {"broken", "help", "word"}}
        \union {[is |-> "domain", name |-> d] : d \in Domain}
        \union {Set("dpf-token-file", ""), Set("dpf-token-file", "text"),
                Set("otlp-endpoint", "text"), Set("otlp-protocol", "text"),
                Set("otlp-insecure", "true"), Set("otlp-insecure", "false"),
                Set("log-level", "text")}

MCLines == UNION {[1 .. n -> MCArgument] : n \in 0 .. MaxArgs}

=============================================================================
