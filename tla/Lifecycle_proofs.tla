---------------------------- MODULE Lifecycle_proofs ----------------------------
(***************************************************************************)
(* Proofs about module Lifecycle, for any number of requests in flight.    *)
(***************************************************************************)
EXTENDS Lifecycle, TLAPS

Before == {"init", "build", "telemetry", "client", "listen", "listen2",
           "refused"}

\* The steps of run before it touches a listener.
Starting ==
    Read \/ ReadBroken \/ EndOfArguments \/ Build \/ NewTelemetry \/ NewClient

\* How far the listeners are, given how far run is.
Phases ==
    /\ pc \in Before =>
          \A s \in Server : serve[s] = "none" /\ requests[s] = 0
    /\ pc \in Before \union {"select"} =>
          turn = "provider" /\ \A s \in Server : ~down[s]
    /\ pc \in Before \ {"listen2", "refused"} =>
          \A s \in Server : listener[s] = "none"
    /\ pc = "listen2" =>
          listener["exposed"] = "none" /\ listener["provider"] = "open"
    /\ \A s \in Server : listener[s] = "none" => serve[s] = "none"
    /\ pc = "refused" => \A s \in Server : listener[s] # "open"
    /\ pc = "drain" => down[turn]
    /\ turn = "exposed" => down["provider"]
    /\ pc \in {"flush", "ended"} =>
          \A s \in Server : down[s] \/ (serve[s] = "none" /\ requests[s] = 0)

Done(s) == IF serve[s] = "done" THEN 1 ELSE 0

\* Every goroutine reports once; before a shutdown, it has a failure to report.
Reports ==
    /\ Len(errs) <= Done("provider") + Done("exposed")
    /\ pc = "select" =>
          /\ Len(errs) = Done("provider") + Done("exposed")
          /\ \A i \in DOMAIN errs : errs[i] = "failure"
          /\ \A s \in Server :
                \/ serve[s] \in {"starting", "serving"} /\ listener[s] = "open"
                \/ serve[s] = "sending" /\ report[s] = "failure"
                \/ serve[s] = "done"

\* What is known of the requests once a shutdown has begun.
Drains ==
    /\ turn = "exposed" /\ requests["provider"] > 0 =>
          grace = "expired" /\ failed
    /\ pc \in {"close", "drain"} => grace # "none" /\ (failed \/ signalled)
    /\ exit = 0 => pc \in {"flush", "ended"}

\* The two properties of the end, the first of them from run's return on.
Ends ==
    /\ pc = "flush" /\ (\E s \in Server : requests[s] > 0) =>
          grace = "expired"
    /\ NoRequestIsCut
    /\ CleanExit

\* The configuration is what was asked for, and checked when it is used.
Configured ==
    /\ pc \in {"init", "build"} => AsAsked
    /\ pc \in {"telemetry", "client", "listen", "listen2"} => Valid
    /\ (\E s \in Server : listener[s] # "none") => Valid

LifeInv == TypeOK /\ Configured /\ Phases /\ Reports /\ Drains /\ Ends

\* The initial state has the types.
LEMMA InitType == Init => TypeOK
<1> SUFFICES ASSUME Init PROVE TypeOK
  OBVIOUS
<1> USE MaxRequestsAssumption DEF Init, Server
<1>1. errs \in Seq({"nil", "failure"})
  OBVIOUS
<1>2. requests \in [Server -> 0 .. MaxRequests]
  OBVIOUS
<1>3. ConfigType
  <2>1. args \in Seq(Argument) /\ given \in Seq(Argument) /\ domains = {}
    BY LinesAssumption DEF ConfigInit
  <2>2. \A f \in Flag : DefaultOf(f) \in Text
    BY DEF Flag, DefaultOf, Text, Protocols, Levels
  <2>3. settings \in [Flag -> Text]
    BY <2>2 DEF ConfigInit
  <2> QED
    BY <2>1, <2>3 DEF ConfigType
<1> QED
  BY <1>1, <1>2, <1>3 DEF TypeOK

(***************************************************************************)
(* What is sent into the channel comes out of it, in the order it came.    *)
(***************************************************************************)
LEMMA AppendFacts ==
    ASSUME NEW T, NEW q \in Seq(T), NEW e \in T
    PROVE  /\ Append(q, e) \in Seq(T)
           /\ Len(Append(q, e)) = Len(q) + 1
           /\ \A i \in 1 .. Len(q) : Append(q, e)[i] = q[i]
           /\ Append(q, e)[Len(q) + 1] = e
  OBVIOUS

\* What is received from the channel was in it.
LEMMA HeadTailFacts ==
    ASSUME NEW T, NEW q \in Seq(T), q # <<>>
    PROVE  /\ Head(q) \in T
           /\ Head(q) = q[1]
           /\ Len(q) > 0
           /\ Tail(q) \in Seq(T)
           /\ Len(Tail(q)) = Len(q) - 1
  OBVIOUS

\* An argument that was read has been read whole.
LEMMA ArgumentKinds ==
    ASSUME NEW a \in Argument
    PROVE  /\ a.is = "setting" => a.flag \in Flag /\ a.value \in Text
           /\ a.is = "domain" => a \in DomainFilter /\ a.name \in Domain
           /\ a \in DomainFilter => a.is = "domain"
BY DEF Argument, Setting, DomainFilter

\* The steps that change nothing of the configuration.
LEMMA ConfigStill ==
    ASSUME [Next]_vars
    PROVE  \/ /\ pc = "init" /\ (ReadSetting \/ ReadDomain)
              /\ UNCHANGED <<pc, listener>>
           \/ /\ pc = "build" /\ Forget /\ UNCHANGED <<settings, domains>>
              /\ pc' = IF Valid THEN "telemetry" ELSE "refused"
              /\ UNCHANGED listener
           \/ UNCHANGED config
BY DEF Next, Run, Read, ReadBroken, Help, EndOfArguments, Build, NewTelemetry,
       NewClient, Refused, Flush, ListenProvider, ListenExposed, ExposedFails,
       StopOnSignal, StopOnErr, Close, Drained, DrainFails, NextTurn, Signal,
       Expire, Serve, ServeBegins, ServeReturns, Report, AcceptFails, Accept,
       Answer, vars, started, servers, stops

\* Every action keeps the types of the configuration.
LEMMA StepConfigType == ConfigType /\ [Next]_vars => ConfigType'
<1> SUFFICES ASSUME ConfigType, [Next]_vars PROVE ConfigType'
  OBVIOUS
<1>1. ASSUME args # <<>>, ReadNext
      PROVE  args' \in Seq(Argument) /\ given' \in Seq(Argument)
  BY <1>1, HeadTailFacts, AppendFacts DEF ConfigType, ReadNext
<1>2. ASSUME args # <<>> PROVE Head(args) \in Argument
  BY <1>2, HeadTailFacts DEF ConfigType
<1>3. CASE ReadSetting
  BY <1>1, <1>2, <1>3, ArgumentKinds DEF ReadSetting, Ahead, ConfigType
<1>4. CASE ReadDomain
  BY <1>1, <1>2, <1>4, ArgumentKinds DEF ReadDomain, Ahead, ConfigType
<1>5. CASE Forget /\ UNCHANGED <<settings, domains>>
  BY <1>5 DEF Forget, ConfigType
<1>6. CASE UNCHANGED config
  BY <1>6 DEF config, ConfigType
<1> QED
  BY <1>3, <1>4, <1>5, <1>6, ConfigStill

\* Every action keeps the types.
LEMMA StepType == TypeOK /\ [Next]_vars => TypeOK'
<1> SUFFICES ASSUME TypeOK, [Next]_vars PROVE TypeOK'
  OBVIOUS
<1>0. ConfigType'
  BY StepConfigType DEF TypeOK
<1> USE <1>0, MaxRequestsAssumption
    DEF TypeOK, Server, servers, stops, started
<1>1. CASE Starting
  BY <1>1 DEF Starting, Read, ReadBroken, EndOfArguments, Build,
              NewTelemetry, NewClient
<1>2. CASE Help
  BY <1>2 DEF Help
<1>3. CASE Refused
  BY <1>3 DEF Refused
<1>4. CASE ListenProvider
  BY <1>4 DEF ListenProvider
<1>5. CASE ListenExposed
  BY <1>5 DEF ListenExposed
<1>6. CASE ExposedFails
  BY <1>6 DEF ExposedFails
<1>7. CASE StopOnSignal
  BY <1>7 DEF StopOnSignal, ShutdownCtx
<1>8. CASE StopOnErr
  BY <1>8, HeadTailFacts DEF StopOnErr, ShutdownCtx
<1>9. CASE Close
  BY <1>9 DEF Close
<1>10. CASE Drained
  BY <1>10 DEF Drained, NextTurn, ExitCode
<1>11. CASE DrainFails
  BY <1>11 DEF DrainFails, NextTurn, ExitCode
<1>12. CASE Signal
  BY <1>12 DEF Signal
<1>13. CASE Expire
  BY <1>13 DEF Expire
<1>14. ASSUME NEW s \in Server, ServeBegins(s) PROVE TypeOK'
  BY <1>14 DEF ServeBegins
<1>15. ASSUME NEW s \in Server, ServeReturns(s) PROVE TypeOK'
  BY <1>15 DEF ServeReturns
<1>16. ASSUME NEW s \in Server, Report(s) PROVE TypeOK'
  BY <1>16, AppendFacts DEF Report, Reported, Capacity
<1>17. ASSUME NEW s \in Server, AcceptFails(s) PROVE TypeOK'
  BY <1>17 DEF AcceptFails
<1>18. ASSUME NEW s \in Server, Accept(s) PROVE TypeOK'
  BY <1>18 DEF Accept
<1>19. ASSUME NEW s \in Server, Answer(s) PROVE TypeOK'
  BY <1>19 DEF Answer
<1>20. CASE UNCHANGED vars
  BY <1>20 DEF vars
<1>21. CASE Flush
  BY <1>21 DEF Flush
<1> QED
  BY <1>1, <1>2, <1>3, <1>4, <1>5, <1>6, <1>7, <1>8, <1>9, <1>10,
     <1>11, <1>12, <1>13, <1>14, <1>15, <1>16, <1>17, <1>18, <1>19,
     <1>20, <1>21
  DEF Next, Run, Serve, Starting

\* Every action keeps the phases of the listeners in step with run.
LEMMA StepPhases == TypeOK /\ Phases /\ [Next]_vars => Phases'
<1> SUFFICES ASSUME TypeOK, Phases, [Next]_vars PROVE Phases'
  OBVIOUS
<1> USE DEF TypeOK, Server, servers, stops, Phases, Before
<1>1. CASE Starting
  BY <1>1 DEF Starting, Read, ReadBroken, EndOfArguments, Build,
              NewTelemetry, NewClient
<1>2. CASE Help
  BY <1>2 DEF Help
<1>3. CASE Refused
  BY <1>3 DEF Refused
<1>4. CASE ListenProvider
  BY <1>4 DEF ListenProvider
<1>5. CASE ListenExposed
  BY <1>5 DEF ListenExposed
<1>6. CASE ExposedFails
  BY <1>6 DEF ExposedFails
<1>7. CASE StopOnSignal
  BY <1>7 DEF StopOnSignal, ShutdownCtx
<1>8. CASE StopOnErr
  BY <1>8 DEF StopOnErr, ShutdownCtx
<1>9. CASE Close
  BY <1>9 DEF Close
<1>10. CASE Drained
  BY <1>10 DEF Drained, NextTurn, ExitCode
<1>11. CASE DrainFails
  BY <1>11 DEF DrainFails, NextTurn, ExitCode
<1>12. CASE Signal
  BY <1>12 DEF Signal
<1>13. CASE Expire
  BY <1>13 DEF Expire
<1>14. ASSUME NEW s \in Server, ServeBegins(s) PROVE Phases'
  BY <1>14 DEF ServeBegins
<1>15. ASSUME NEW s \in Server, ServeReturns(s) PROVE Phases'
  BY <1>15 DEF ServeReturns
<1>16. ASSUME NEW s \in Server, Report(s) PROVE Phases'
  BY <1>16 DEF Report, Reported, Capacity
<1>17. ASSUME NEW s \in Server, AcceptFails(s) PROVE Phases'
  BY <1>17 DEF AcceptFails
<1>18. ASSUME NEW s \in Server, Accept(s) PROVE Phases'
  BY <1>18 DEF Accept
<1>19. ASSUME NEW s \in Server, Answer(s) PROVE Phases'
  BY <1>19 DEF Answer
<1>20. CASE UNCHANGED vars
  BY <1>20 DEF vars
<1>21. CASE Flush
  BY <1>21 DEF Flush
<1> QED
  BY <1>1, <1>2, <1>3, <1>4, <1>5, <1>6, <1>7, <1>8, <1>9, <1>10,
     <1>11, <1>12, <1>13, <1>14, <1>15, <1>16, <1>17, <1>18, <1>19,
     <1>20, <1>21
  DEF Next, Run, Serve, Starting

\* Every action keeps the channel in step with the goroutines.
LEMMA StepReports == TypeOK /\ Phases /\ Reports /\ [Next]_vars => Reports'
<1> SUFFICES ASSUME TypeOK, Phases, Reports, [Next]_vars PROVE Reports'
  OBVIOUS
<1> USE DEF TypeOK, Server, servers, stops, Phases, Before, Reports, Done
<1>1. CASE Starting
  BY <1>1 DEF Starting, Read, ReadBroken, EndOfArguments, Build,
              NewTelemetry, NewClient
<1>2. CASE Help
  BY <1>2 DEF Help
<1>3. CASE Refused
  BY <1>3 DEF Refused
<1>4. CASE ListenProvider
  BY <1>4 DEF ListenProvider
<1>5. CASE ListenExposed
  BY <1>5 DEF ListenExposed
<1>6. CASE ExposedFails
  BY <1>6 DEF ExposedFails
<1>7. CASE StopOnSignal
  BY <1>7 DEF StopOnSignal, ShutdownCtx
<1>8. CASE StopOnErr
  BY <1>8, HeadTailFacts DEF StopOnErr, ShutdownCtx
<1>9. CASE Close
  BY <1>9 DEF Close
<1>10. CASE Drained
  BY <1>10 DEF Drained, NextTurn, ExitCode
<1>11. CASE DrainFails
  BY <1>11 DEF DrainFails, NextTurn, ExitCode
<1>12. CASE Signal
  BY <1>12 DEF Signal
<1>13. CASE Expire
  BY <1>13 DEF Expire
<1>14. ASSUME NEW s \in Server, ServeBegins(s) PROVE Reports'
  BY <1>14 DEF ServeBegins
<1>15. ASSUME NEW s \in Server, ServeReturns(s) PROVE Reports'
  BY <1>15 DEF ServeReturns
<1>16. ASSUME NEW s \in Server, Report(s) PROVE Reports'
  BY <1>16, AppendFacts DEF Report, Reported, Capacity
<1>17. ASSUME NEW s \in Server, AcceptFails(s) PROVE Reports'
  BY <1>17 DEF AcceptFails
<1>18. ASSUME NEW s \in Server, Accept(s) PROVE Reports'
  BY <1>18 DEF Accept
<1>19. ASSUME NEW s \in Server, Answer(s) PROVE Reports'
  BY <1>19 DEF Answer
<1>20. CASE UNCHANGED vars
  BY <1>20 DEF vars
<1>21. CASE Flush
  BY <1>21 DEF Flush
<1> QED
  BY <1>1, <1>2, <1>3, <1>4, <1>5, <1>6, <1>7, <1>8, <1>9, <1>10,
     <1>11, <1>12, <1>13, <1>14, <1>15, <1>16, <1>17, <1>18, <1>19,
     <1>20, <1>21
  DEF Next, Run, Serve, Starting

\* Every action keeps what run knows while it shuts down.
LEMMA StepDrains ==
    TypeOK /\ Phases /\ Reports /\ Drains /\ [Next]_vars => Drains'
<1> SUFFICES ASSUME TypeOK, Phases, Reports, Drains, [Next]_vars PROVE Drains'
  OBVIOUS
<1> USE DEF TypeOK, Server, servers, stops, Phases, Before, Reports, Drains
<1>1. CASE Starting
  BY <1>1 DEF Starting, Read, ReadBroken, EndOfArguments, Build,
              NewTelemetry, NewClient
<1>2. CASE Help
  BY <1>2 DEF Help
<1>3. CASE Refused
  BY <1>3 DEF Refused
<1>4. CASE ListenProvider
  BY <1>4 DEF ListenProvider
<1>5. CASE ListenExposed
  BY <1>5 DEF ListenExposed
<1>6. CASE ExposedFails
  BY <1>6 DEF ExposedFails
<1>7. CASE StopOnSignal
  BY <1>7 DEF StopOnSignal, ShutdownCtx
<1>8. CASE StopOnErr
  <2>1. /\ errs # <<>> /\ failed' = (Head(errs) = "failure")
        /\ \A i \in DOMAIN errs : errs[i] = "failure"
        /\ turn = "provider" /\ pc' = "close" /\ grace' = "running"
        /\ UNCHANGED <<turn, exit>> /\ exit # 0
    BY <1>8 DEF StopOnErr, ShutdownCtx
  <2>2. 1 \in DOMAIN errs /\ Head(errs) = errs[1]
    BY <2>1, HeadTailFacts
  <2>3. failed' = TRUE
    BY <2>1, <2>2
  <2> QED
    BY <2>1, <2>3
<1>9. CASE Close
  BY <1>9 DEF Close
<1>10. CASE Drained
  BY <1>10 DEF Drained, NextTurn, ExitCode
<1>11. CASE DrainFails
  BY <1>11 DEF DrainFails, NextTurn, ExitCode
<1>12. CASE Signal
  BY <1>12 DEF Signal
<1>13. CASE Expire
  BY <1>13 DEF Expire
<1>14. ASSUME NEW s \in Server, ServeBegins(s) PROVE Drains'
  BY <1>14 DEF ServeBegins
<1>15. ASSUME NEW s \in Server, ServeReturns(s) PROVE Drains'
  BY <1>15 DEF ServeReturns
<1>16. ASSUME NEW s \in Server, Report(s) PROVE Drains'
  BY <1>16 DEF Report, Reported, Capacity
<1>17. ASSUME NEW s \in Server, AcceptFails(s) PROVE Drains'
  BY <1>17 DEF AcceptFails
<1>18. ASSUME NEW s \in Server, Accept(s) PROVE Drains'
  BY <1>18 DEF Accept
<1>19. ASSUME NEW s \in Server, Answer(s) PROVE Drains'
  BY <1>19 DEF Answer
<1>20. CASE UNCHANGED vars
  BY <1>20 DEF vars
<1>21. CASE Flush
  BY <1>21 DEF Flush
<1> QED
  BY <1>1, <1>2, <1>3, <1>4, <1>5, <1>6, <1>7, <1>8, <1>9, <1>10,
     <1>11, <1>12, <1>13, <1>14, <1>15, <1>16, <1>17, <1>18, <1>19,
     <1>20, <1>21
  DEF Next, Run, Serve, Starting

\* Every action keeps what holds at the end of the process.
LEMMA StepEnd ==
    TypeOK /\ Phases /\ Drains /\ Ends /\ [Next]_vars => Ends'
<1> SUFFICES ASSUME TypeOK, Phases, Drains, Ends, [Next]_vars PROVE Ends'
  OBVIOUS
<1> USE DEF TypeOK, Server, servers, stops, Phases, Before, Drains, Ends,
            NoRequestIsCut, CleanExit
<1>1. CASE Starting
  BY <1>1 DEF Starting, Read, ReadBroken, EndOfArguments, Build,
              NewTelemetry, NewClient
<1>2. CASE Help
  BY <1>2 DEF Help
<1>3. CASE Refused
  BY <1>3 DEF Refused
<1>4. CASE ListenProvider
  BY <1>4 DEF ListenProvider
<1>5. CASE ListenExposed
  BY <1>5 DEF ListenExposed
<1>6. CASE ExposedFails
  BY <1>6 DEF ExposedFails
<1>7. CASE StopOnSignal
  BY <1>7 DEF StopOnSignal, ShutdownCtx
<1>8. CASE StopOnErr
  BY <1>8 DEF StopOnErr, ShutdownCtx
<1>9. CASE Close
  BY <1>9 DEF Close
<1>10. CASE Drained
  BY <1>10 DEF Drained, NextTurn, ExitCode
<1>11. CASE DrainFails
  BY <1>11 DEF DrainFails, NextTurn, ExitCode
<1>12. CASE Signal
  BY <1>12 DEF Signal
<1>13. CASE Expire
  BY <1>13 DEF Expire
<1>14. ASSUME NEW s \in Server, ServeBegins(s) PROVE Ends'
  BY <1>14 DEF ServeBegins
<1>15. ASSUME NEW s \in Server, ServeReturns(s) PROVE Ends'
  BY <1>15 DEF ServeReturns
<1>16. ASSUME NEW s \in Server, Report(s) PROVE Ends'
  BY <1>16 DEF Report, Reported, Capacity
<1>17. ASSUME NEW s \in Server, AcceptFails(s) PROVE Ends'
  BY <1>17 DEF AcceptFails
<1>18. ASSUME NEW s \in Server, Accept(s) PROVE Ends'
  BY <1>18 DEF Accept
<1>19. ASSUME NEW s \in Server, Answer(s) PROVE Ends'
  BY <1>19 DEF Answer
<1>20. CASE UNCHANGED vars
  BY <1>20 DEF vars
<1>21. CASE Flush
  BY <1>21 DEF Flush
<1> QED
  BY <1>1, <1>2, <1>3, <1>4, <1>5, <1>6, <1>7, <1>8, <1>9, <1>10,
     <1>11, <1>12, <1>13, <1>14, <1>15, <1>16, <1>17, <1>18, <1>19,
     <1>20, <1>21
  DEF Next, Run, Serve, Starting

\* Reading one more argument keeps what was asked and what was set together.
LEMMA ReadingIsAsked ==
    ASSUME ConfigType, AsAsked, ReadSetting \/ ReadDomain
    PROVE  AsAsked'
<1> DEFINE a == Head(args)
           n == Len(given) + 1
<1>1. args # <<>> /\ a \in Argument /\ given' = Append(given, a)
  BY HeadTailFacts DEF ConfigType, ReadSetting, ReadDomain, Ahead, ReadNext
<1>2. /\ DOMAIN given = 1 .. Len(given) /\ Len(given) \in Nat
      /\ DOMAIN given' = 1 .. n
      /\ \A i \in 1 .. Len(given) : given'[i] = given[i]
      /\ given'[n] = a
  BY <1>1, AppendFacts DEF ConfigType
<1> HIDE DEF a, n
<1>3. n \in DOMAIN given' /\ \A i \in DOMAIN given' : i # n =>
          i \in DOMAIN given /\ i < n /\ given'[i] = given[i]
  BY <1>2 DEF n
<1>4. \A i \in DOMAIN given : i \in DOMAIN given' /\ i < n /\ i \in Int
  BY <1>2 DEF n
<1>5. CASE ReadSetting
  <2>1. /\ a.is = "setting" /\ a.flag \in Flag
        /\ settings' = [settings EXCEPT ![a.flag] = a.value]
        /\ UNCHANGED domains
    BY <1>1, <1>5, ArgumentKinds DEF ReadSetting, Ahead, a
  <2>2. ASSUME NEW f \in Flag PROVE Asked(f, settings[f])'
    <3>1. CASE a.flag = f
      <4>1. settings'[f] = a.value /\ Gives(given'[n], f)
        BY <1>2, <2>1, <3>1 DEF Gives, ConfigType
      <4>2. \A j \in DOMAIN given' : ~(j > n)
        BY <1>2 DEF n
      <4> QED
        BY <1>2, <1>3, <4>1, <4>2 DEF Asked
    <3>2. CASE a.flag # f
      <4>1. settings'[f] = settings[f] /\ ~Gives(given'[n], f)
        BY <1>2, <2>1, <3>2 DEF Gives, ConfigType
      <4>2. Asked(f, settings[f])
        BY DEF AsAsked
      <4>3. \A i \in DOMAIN given' : Gives(given'[i], f) =>
                i \in DOMAIN given /\ given'[i] = given[i]
        BY <1>3, <4>1
      <4> QED
        BY <1>2, <1>4, <4>1, <4>2, <4>3 DEF Asked
    <3> QED
      BY <3>1, <3>2
  <2>3. a \notin DomainFilter
    BY <1>1, <2>1, ArgumentKinds
  <2>4. AskedDomains' = AskedDomains
    BY <1>2, <1>3, <1>4, <2>3 DEF AskedDomains
  <2> QED
    BY <2>1, <2>2, <2>4 DEF AsAsked
<1>6. CASE ReadDomain
  <2>1. /\ a.is = "domain" /\ a \in DomainFilter
        /\ domains' = domains \union {a.name}
        /\ UNCHANGED settings
    BY <1>1, <1>6, ArgumentKinds DEF ReadDomain, Ahead, a
  <2>2. ASSUME NEW f \in Flag PROVE Asked(f, settings[f])'
    <3>1. settings'[f] = settings[f] /\ ~Gives(given'[n], f)
      BY <1>2, <2>1 DEF Gives
    <3>2. Asked(f, settings[f])
      BY DEF AsAsked
    <3>3. \A i \in DOMAIN given' : Gives(given'[i], f) =>
              i \in DOMAIN given /\ given'[i] = given[i]
      BY <1>3, <3>1
    <3> QED
      BY <1>2, <1>4, <3>1, <3>2, <3>3 DEF Asked
  <2>3. AskedDomains' = AskedDomains \union {a.name}
    BY <1>2, <1>3, <1>4, <2>1 DEF AskedDomains
  <2> QED
    BY <2>1, <2>2, <2>3 DEF AsAsked
<1> QED
  BY <1>5, <1>6

\* Every action keeps the configuration what was asked for.
LEMMA StepConfigured ==
    TypeOK /\ Configured /\ Phases /\ [Next]_vars => Configured'
<1> SUFFICES ASSUME TypeOK, Configured, Phases, [Next]_vars PROVE Configured'
  OBVIOUS
<1>1. CASE pc = "init" /\ (ReadSetting \/ ReadDomain)
           /\ UNCHANGED <<pc, listener>>
  BY <1>1, ReadingIsAsked DEF TypeOK, Configured, Phases, Before
<1>2. CASE pc = "build" /\ UNCHANGED <<settings, domains, listener>>
           /\ pc' = IF Valid THEN "telemetry" ELSE "refused"
  BY <1>2 DEF Configured, Phases, Before, Valid
<1>3. CASE UNCHANGED config
  <2>1. AsAsked' = AsAsked /\ Valid' = Valid
    BY <1>3 DEF config, AsAsked, Asked, AskedDomains, Valid
  <2>2. pc' \in {"init", "build"} => pc \in {"init", "build"}
    BY DEF Next, Run, Read, ReadBroken, Help, EndOfArguments, Build,
       NewTelemetry, NewClient, Refused, Flush, ListenProvider,
       ListenExposed, ExposedFails, StopOnSignal, StopOnErr, Close, Drained,
       DrainFails, NextTurn, Signal, Expire, Serve, ServeBegins,
       ServeReturns, Report, AcceptFails, Accept, Answer, vars
  <2>3. \/ pc' \notin {"telemetry", "client", "listen", "listen2"}
        \/ pc \in {"telemetry", "client", "listen", "listen2"}
        \/ Valid
    BY DEF Next, Run, Read, ReadBroken, Help, EndOfArguments, Build,
       NewTelemetry, NewClient, Refused, Flush, ListenProvider,
       ListenExposed, ExposedFails, StopOnSignal, StopOnErr, Close, Drained,
       DrainFails, NextTurn, Signal, Expire, Serve, ServeBegins,
       ServeReturns, Report, AcceptFails, Accept, Answer, vars
  <2>4. (\E s \in Server : listener'[s] # "none") =>
            \/ pc \in {"listen", "listen2"}
            \/ \E s \in Server : listener[s] # "none"
    BY DEF TypeOK, Phases, Next, Run, Read, ReadBroken, Help, EndOfArguments,
       Build, NewTelemetry, NewClient, Refused, Flush, ListenProvider,
       ListenExposed, ExposedFails, StopOnSignal, StopOnErr, Close, Drained,
       DrainFails, NextTurn, Signal, Expire, Serve, ServeBegins,
       ServeReturns, Report, AcceptFails, Accept, Answer, vars, servers
  <2> QED
    BY <2>1, <2>2, <2>3, <2>4 DEF Configured
<1> QED
  BY <1>1, <1>2, <1>3, ConfigStill

(***************************************************************************)
(* LifeInv is inductive.                                                   *)
(***************************************************************************)
LEMMA LifeInvInit == Init => LifeInv
<1> SUFFICES ASSUME Init PROVE LifeInv
  OBVIOUS
<1>1. TypeOK
  BY InitType
<1>2. Phases /\ Reports /\ Drains /\ Ends
  BY DEF Init, Server, Phases, Before, Reports, Done, Drains, Ends,
         NoRequestIsCut, CleanExit
<1>3. Configured
  <2>1. given = <<>> /\ domains = {}
        /\ \A f \in Flag : settings[f] = DefaultOf(f)
    BY DEF Init, ConfigInit
  <2>2. DOMAIN given = {}
    BY <2>1
  <2>3. AsAsked
    BY <2>1, <2>2 DEF AsAsked, Asked, AskedDomains
  <2> QED
    BY <2>3 DEF Init, Configured, Server
<1> QED
  BY <1>1, <1>2, <1>3 DEF LifeInv

\* One lemma per part.
LEMMA LifeInvStep == LifeInv /\ [Next]_vars => LifeInv'
BY StepType, StepConfigured, StepPhases, StepReports, StepDrains, StepEnd
DEF LifeInv

\* The inductive invariant holds in every reachable state.
THEOREM LifeInvAlways == Spec => []LifeInv
BY LifeInvInit, LifeInvStep, PTL DEF Spec

(***************************************************************************)
(* Every variable keeps its type, with any number of requests: no request  *)
(* is counted down below none (server.go, Start and Shutdown).             *)
(***************************************************************************)
THEOREM TypeAlways == Spec => []TypeOK
<1>1. LifeInv => TypeOK
  BY DEF LifeInv
<1> QED
  BY <1>1, LifeInvAlways, PTL

(***************************************************************************)
(* Whatever the command line, of any length: what Load returns is what the *)
(* arguments it read ask for, and nothing listens without a valid          *)
(* configuration that names a token's file (config.go, FR-017, FR-018).    *)
(***************************************************************************)
THEOREM StartsAsAskedAlways == Spec => []StartsAsAsked
<1>1. LifeInv => StartsAsAsked
  BY DEF LifeInv, Configured, StartsAsAsked, Valid
<1> QED
  BY <1>1, LifeInvAlways, PTL

(***************************************************************************)
(* The channel has room for whoever has something to send: a goroutine     *)
(* that is about to send has not sent yet, so at most the other has.       *)
(***************************************************************************)
THEOREM ReportsNeverBlockAlways == Spec => []ReportsNeverBlock
<1>1. LifeInv => ReportsNeverBlock
  <2> SUFFICES ASSUME LifeInv, NEW s \in Server, serve[s] = "sending"
               PROVE  Len(errs) < Capacity
    BY DEF ReportsNeverBlock
  <2>1. Len(errs) \in Nat
    BY DEF LifeInv, TypeOK
  <2>2. Len(errs) <= 1
    BY <2>1 DEF LifeInv, Reports, Done, Server
  <2> QED
    BY <2>1, <2>2 DEF Capacity
<1> QED
  BY <1>1, LifeInvAlways, PTL

(***************************************************************************)
(* While run waits, a listener that has gone is announced to it, and a     *)
(* failed start leaves nothing open.                                       *)
(***************************************************************************)
THEOREM NeverHalfAliveAlways == Spec => []NeverHalfAlive
<1>1. LifeInv => NeverHalfAlive
  <2> SUFFICES ASSUME LifeInv, pc = "select",
                      ~ \A s \in Server : listener[s] = "open",
                      errs = <<>>
               PROVE  \E s \in Server :
                         serve[s] = "sending" /\ report[s] = "failure"
    BY DEF LifeInv, NeverHalfAlive, Phases
  <2>1. Done("provider") + Done("exposed") = 0
    BY DEF LifeInv, Reports
  <2>2. \A s \in Server : serve[s] # "done"
    BY <2>1 DEF Done, Server
  <2> QED
    BY <2>2 DEF LifeInv, Reports
<1> QED
  BY <1>1, LifeInvAlways, PTL

(***************************************************************************)
(* Only the end of the whole grace cuts a request off.                     *)
(***************************************************************************)
THEOREM NoRequestIsCutAlways == Spec => []NoRequestIsCut
<1>1. LifeInv => NoRequestIsCut
  BY DEF LifeInv, Ends
<1> QED
  BY <1>1, LifeInvAlways, PTL

(***************************************************************************)
(* The exit code tells whether the process was asked to stop and did so    *)
(* without cutting anything.                                               *)
(***************************************************************************)
THEOREM CleanExitAlways == Spec => []CleanExit
<1>1. LifeInv => CleanExit
  BY DEF LifeInv, Ends
<1> QED
  BY <1>1, LifeInvAlways, PTL

=============================================================================
