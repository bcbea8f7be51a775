--------------------------------- MODULE Config ---------------------------------
(***************************************************************************)
(* How the command line becomes a configuration (internal/config, Load):   *)
(* flag's Parse takes one argument after the other and stops at the first  *)
(* that is no flag; what it took is then validated as a whole (build).     *)
(* An argument stands for a flag with its value, however they are spelled. *)
(***************************************************************************)
EXTENDS Integers, Sequences

CONSTANT Domain     \* names that dnsname.Parse understands

Flag == {"dpf-endpoint", "dpf-token-file", "provider-addr", "exposed-addr",
         "otlp-endpoint", "otlp-protocol", "otlp-insecure", "log-level"}

Protocols == {"grpc", "http"}

Levels == {"debug", "info", "warn", "error"}

\* Values that are told apart: "" is no text, "text" any other.
Text == {"", "text", "true", "false"} \union Protocols \union Levels

\* What Set takes: a flag without a value means "true" for otlp-insecure.
ValuesOf(f) == IF f = "otlp-insecure" THEN {"true", "false"} ELSE Text

Setting ==
    {a \in [is : {"setting"}, flag : Flag, value : Text] :
        a.value \in ValuesOf(a.flag)}

DomainFilter == [is : {"domain"}, name : Domain]

(***************************************************************************)
(* "broken" is a flag that is not defined, lacks its value, or has one     *)
(* that Set refuses; "word" is no flag, or the two dashes that end them.   *)
(***************************************************************************)
Argument ==
    Setting \union DomainFilter \union [is : {"broken", "help", "word"}]

DefaultOf(f) ==
    CASE f = "provider-addr" -> "text"
      [] f = "exposed-addr" -> "text"
      [] f = "otlp-protocol" -> "grpc"
      [] f = "otlp-insecure" -> "false"
      [] f = "log-level" -> "info"
      [] OTHER -> ""

VARIABLES
    args,       \* what Parse has yet to read
    given,      \* what it has read
    settings,   \* the last value of each flag
    domains     \* the scope

config == <<args, given, settings, domains>>

ConfigType ==
    /\ args \in Seq(Argument)
    /\ given \in Seq(Argument)
    /\ settings \in [Flag -> Text]
    /\ domains \subseteq Domain

ConfigInit(lines) ==
    /\ args \in lines
    /\ given = <<>>
    /\ settings = [f \in Flag |-> DefaultOf(f)]
    /\ domains = {}

-----------------------------------------------------------------------------
Ahead(kind) == args # <<>> /\ Head(args).is = kind

ReadNext ==
    /\ args' = Tail(args)
    /\ given' = Append(given, Head(args))

\* A flag that can be given once more overwrites, one of the domains adds.
ReadSetting ==
    /\ Ahead("setting")
    /\ settings' = [settings EXCEPT ![Head(args).flag] = Head(args).value]
    /\ ReadNext
    /\ UNCHANGED domains

\* Mutant: the last domain replaces the others.
ReadDomainOnly ==
    /\ Ahead("domain")
    /\ domains' = {Head(args).name}
    /\ ReadNext
    /\ UNCHANGED settings

ReadDomain ==
    /\ Ahead("domain")
    /\ domains' = domains \union {Head(args).name}
    /\ ReadNext
    /\ UNCHANGED settings

\* Parse is at its end, and has not failed.
Parsed == args = <<>> \/ Ahead("word")

\* build: what is left of the arguments is not looked at.
Valid ==
    /\ settings["log-level"] \in Levels
    /\ settings["dpf-token-file"] # ""
    /\ settings["otlp-protocol"] \in Protocols

\* The slices with the arguments are not used any more.
Forget == args' = <<>> /\ given' = <<>>

OTLPEnabled == settings["otlp-endpoint"] # ""

-----------------------------------------------------------------------------
Gives(a, f) == a.is = "setting" /\ a.flag = f

\* What the arguments read so far ask for, told without reading them in turn.
Asked(f, v) ==
    \/ /\ \A i \in DOMAIN given : ~Gives(given[i], f)
       /\ v = DefaultOf(f)
    \/ \E i \in DOMAIN given :
          /\ Gives(given[i], f) /\ v = given[i].value
          /\ \A j \in DOMAIN given : j > i => ~Gives(given[j], f)

AskedDomains == {a.name : a \in {given[i] : i \in DOMAIN given} \intersect
                              DomainFilter}

AsAsked ==
    /\ \A f \in Flag : Asked(f, settings[f])
    /\ domains = AskedDomains

=============================================================================
