# Specifications of the external-dns-iij-dpf-webhook

This directory holds TLA+ models of the webhook provider that lets ExternalDNS
manage zones of IIJ DPF, the TLC runs that check them on small instances, and
TLAPS proofs of what matters most. Paths such as `dpf/apply.go` are relative to
`internal/` of the repository; FR, SC and PC numbers are those of
`specs/001-webhook-provider` and of the repository's README.

- [The system](#the-system)
- [Modules](#modules)
- [Runs](#runs)
- [Where code and documentation differ](#where-code-and-documentation-differ)
- [Proofs](#proofs)
- [What is not modelled](#what-is-not-modelled)
- [Plan](#plan)

## The system

ExternalDNS asks the webhook, again and again, for the records there are (`GET
/records`), compares them with those it wants, and sends the difference (`POST
/records`). The webhook keeps no state between requests. Everything lasting is
in DPF: the zones, their records, and a lock per zone (a label of the zone).

| Component | State | Operations | Interacts with |
|---|---|---|---|
| `webhook/` handlers, wire format, negotiation | none | `GET /`, `GET /records`, `POST /records`, `POST /adjustendpoints` | calls `provider` |
| `provider.Provider` (`provider.go`, `apply.go`) | the scope (`--domain-filter`) | `Records`, `ApplyChanges` | calls `Backend` (ListZones, ListRecords, Apply) zone by zone |
| `provider` zone index | zones of one request | `Owner`, `OwnedBy` | used by `Records` and by `groupByZone` |
| `provider` validation, adjustment | none | `ValidateFormat`, `Adjust`, `NormalizeTXT` | before `ApplyChanges` calls DPF; in merge |
| `dnsname` | none | `Parse`, `Contains`, `Scope.LongestMatch` | used everywhere |
| `dpf.Client.Apply` (`apply.go`, `lock.go`) | per call: context, `lockWait` (timer, `entered`, `expired`) | one change of one zone | `utils.ZoneApplier` of dpf-go: lock, re-read, PATCH, SyncWait; the edit function is called back |
| `dpf` merge, label | none | `merge`, `applyManagedBy`, `guard`, `unchanged` | inside the edit function |
| `dpf` listing | none | `ListZones`, `ListRecords` | DPF API |
| `dpf` errors, `webhook/errors.go` | none | `Classify`, `statusFor` | decides whether ExternalDNS gets 4xx or 5xx |
| `server`, `cmd/webhook` | two listeners, `started`, `errs` | `Start`, `serve`, `Shutdown`, `run` | signals, HTTP servers |
| `config` | the flags given, the scope | `Load`: Parse, `build` | read once by `run`, which does not start without |
| `telemetry`, `dpf/client.go`, `token.go`, `history.go` | exporters, the client | `New`, `Shutdown`, `NewClient` | steps of `run`; else output only |

What is hard about it, and what makes each part correct:

- **Applying to one zone.** A change of one record replaces the whole zone, by
  an asynchronous job, from a copy read before. Several replicas (and people)
  do so at once; requests time out, processes die, answers are lost. Correct
  means that no change of another caller is lost, that success is answered
  only after the reflection, that whoever loses the lock harms nobody but those
  whose window its job falls into, that every request is answered and that the
  lock comes free.
- **Merging.** What nobody asked to change must be sent back exactly as it was;
  what is asked for must be sent exactly once; the same request again must
  find nothing to do, or the zone is rewritten for ever.
- **Reading and writing across zones.** Parent and child zones may both hold a
  name. GET and POST must agree on the zone that owns it although each lists
  the zones for itself and zones come into being meanwhile; half a failure must
  not be answered as success; repeated requests must converge.
- **Formats and errors.** Records must be stored in a spelling that ExternalDNS
  recognises as the one it wants, or the same difference is found for ever; what
  DPF must refuse is to be refused before; and whether a failure is answered as
  one that lasts decides whether ExternalDNS stops.
- **Replicas.** Two webhooks over the same zones (two deployments, or the pods
  of a rollout) read, plan and write at different paces, and a job may outlive
  the request, the lock and the process it came from. Nothing that ExternalDNS
  does not manage may suffer from that, and in the end DPF must hold what is wanted.
- **Time.** Three limits are nested (waiting for a lock, applying to a zone, the
  client's patience), a lock lapses unless it is extended, and a POST over
  several zones needs the time of all of them.
- **Lifetime.** The process starts as its arguments ask or not at all. The two
  servers live and die together, a signal ends the process in bounded time, and
  only the end of that time may cut a request off.

`PROJECT.json` lists the hazards one by one, at their lines, with the
properties that guard against them.

## Modules

```
ZoneContent            what a zone publishes; Merged
 |-- AtomicZone        abstract: a request takes effect at one instant
 |-- ZoneApply         lock, re-read, job, timers, crashes   --implements--> AtomicZone
 |    |-- MCZoneApply, ZoneApply_proofs
ZoneMerge              merge, applyManagedBy, guard, unchanged
 |-- ZoneEdit          one zone edited again and again       --computes--> Merged
      |-- MCZoneEdit, ZoneEdit_proofs
DnsName                containment, longest match, owners
 |-- Provider          GET and POST over several zones, and ExternalDNS
      |-- MCProvider, Provider_proofs
RecordFormat           ValidateFormat, Adjust, NormalizeTXT, wire conversions
Classify               Classify, statusFor
 |-- Exchange          rounds of ExternalDNS, record by record (with RecordFormat,
      |                and ZoneMerge as an instance)
      |-- MCExchange, Exchange_proofs
Deadline               the time limits of a POST over several zones
 |-- Deadline_proofs
Replicas               several replicas of it all over several zones, jobs that
 |                     outlive their request, and ExternalDNS
 |-- MCReplicas, Replicas_proofs
Config                 Load: the flags, the scope, their validation
 |-- Lifecycle         run: Load, Start, serve, Shutdown, exit
      |-- MCLifecycle, Lifecycle_proofs
FoldFacts              what a loop over a sequence computes
 |-- ZoneEdit_proofs, Exchange_proofs
```

Proofs about the operators of `DnsName` are in `Provider_proofs`, those about
`RecordFormat` and `Classify` in `Exchange_proofs`.

Four of the state machines are magnifications of the same exchange.
`Provider!ApplyZone` takes the change of one zone as one step; `ZoneApply` opens
that step and shows (`ImplementsAtomicZone`) under which conditions it is one;
`ZoneEdit` opens the operator `Merged` of `ZoneApply` and shows (`EditIsMerge`)
that merging lists of records computes it; `Exchange` puts the edit of
`ZoneMerge` back between the two ends, ExternalDNS and DPF, with the formats of
both and the status codes of the answers. `Replicas` composes them again: GET,
plan and POST of `Provider` with the lock, the copy and the job of `ZoneApply` for
every zone, for several callers at once and without end. `Deadline` adds the
clocks the others leave out, and `Lifecycle` is the process around it.

### ZoneApply

`published` is what `GetRecordCurrents` returns; `lock` the holder of the zone
lock; the other variables belong to one call of `Client.Apply` each: `pc`, the
change set `wanted`, the re-read records `base`, the `job`, the context `ctx`,
the two flags of `lockWait`, the error `err` of `ZoneApplier.Apply` and the
`answer` of `Client.Apply`. Two history variables, which no guard of the code's
own steps reads, remember who was stopped for longer than `lockTTL` (`stopped`)
and whose zone was changed since the re-read by a stranger (`stale`): by somebody
without the lock, or by a job whose caller is gone or was stopped.

| Action | Code |
|---|---|
| `Receive` | the head of `Client.Apply` up to `newLockWait` |
| `Acquire`, `AcquireFails` | `ZoneApplier` under `lockOptions` |
| `Read`, `ReadFails` | the re-read by `ZoneApplier` |
| `Edit`, `EditFails` | the edit closure: `wait.enter`, merge, guard, `unchanged`/`ErrSkipApply` |
| `Submit`, `SubmitFails`, `SubmitUnseen` | the PATCH |
| `Reflect`, `JobFails` | the job in DPF |
| `SyncEnds`, `SyncFails`, `CutShort` | SyncWait, and the end of the context anywhere |
| `Finish` | release, `wait.err`, `Classify`, the deferred calls |
| `LockWaitExpires` | `lockWait.expire`; excluded with `enter` by the mutex |
| `Cancel` | `applyTimeout`, or the end of the HTTP request's context |
| `Crash`, `LockLapses` | the process dies; `lockTTL` |
| `LockIsLost`, `LossNoticed` | a process stopped for longer than `lockTTL` loses its lock, goes on, and may be told (`ErrNotLockHolder`) |
| `OutsideEdit` | the DPF console |

Lock, re-read, PATCH and SyncWait are dpf-go and DPF, which are not in this
repository: they are modelled as `apply.go`, `lock.go` and
`contracts/dpf-client.md` use and describe them, and so marked in the map.

The constant `Faults` names five things that may go wrong beyond what the lock
can make good: `cut` (the wait for an accepted job ends before the job, because
the context ends or DPF does not say how the job is doing),
`unseen` (DPF accepts a job, the answer is lost), `outlive` (a job runs on after
the lock of a crashed caller has lapsed), `overlap` (somebody edits without
the lock, inside another's window: PC-002, PC-003) and `stolen` (a running process
is stopped for longer than `lockTTL` and loses its lock). All five can happen to
the code; `cut` does whenever the client goes away during the wait. So `apply`
says what holds while they do not, `apply_faults` what is left when they all
do. Everything else (errors of
DPF at any call, failing jobs, crashes, timeouts while waiting, edits outside the
windows) happens in every run.

### ZoneMerge and ZoneEdit

`ZoneMerge` translates `merge.go` and `label.go` as operators on sequences of
records `[name, rrtype, ttl, rdata, labels, description]`. Names are spelled as
DPF returns them; `Canonical` stands for `dnsname.Parse`, a partial idempotent
function (a name outside its domain does not parse), `NormalizeValues` for
`provider.NormalizeTXT` on the values of a record, and `Null` for a JSON null (no
TTL, no labels). The four loops of `merge` are folds over one record of its variables: the
map (`set`), the order in which keys were first seen (`order`) and what is returned
(`out`), so that overwriting, dropping and re-adding a key behave as in the code.
`ZoneEdit` applies change sets to one zone, lets DPF return empty labels as null or
as empty, and lets others change the zone in between. It assumes of a zone that no two
records have one key and none a TTL of 0 (`IsZone`), and of a change set that its names
are parsed and that it does not delete what it puts (`IsChangeSet`). How names are
spelled in a zone is left open: guard compares canonical names with raw ones
(`RawKey`, `keyOf`), and `AbortsOnlyMisspelt` says what comes of it.

### DnsName and Provider

A name is the sequence of its labels, top level first, so containment is being
a prefix. A spelling of it (letters of either case, the final dot, blanks) is
brought into one form by `Parse`, and into that of ExternalDNS (`Unqualified` in
the code) by `WithoutDot`; `RecordFormat` and `ZoneMerge` take both as functions
with the properties proved here, and `MCExchange` has TLC check that its two
tables are what `Parse` and `WithoutDot` say.

`Provider` has two parent and child zones and another one, the scope, what
ExternalDNS wants (`desired`), and one request at a time (ExternalDNS is a
single loop): `GetRecords`, `ReadZone`, `Plan`, then `PostRecords` and an
`ApplyZone` per zone in the order of the zones' names. Every call of the backend
may fail; a failing `ApplyZone` may have taken effect (that is what
`ZoneApply` says of faults). A record is its name: type and value play no part in
the question which zone it belongs to. `ZoneCreated` and `OthersEdit` are other
users of DPF; the constant `Events` turns them on.

### RecordFormat, Classify and Exchange

`RecordFormat` keeps of a TXT value what the code decides on: whether it has
quotation marks, whether they match, how many quoted strings it has and how many
strings of at most 255 octets the parser makes of it, and the text with or without
backslashes; of MX and SRV the number of fields and the numbers; of names only how
they are spelled and whether a label has an underscore. A TTL is an integer, and
`ttlMax` a constant (2 in the runs instead of 2 147 483 647: only what lies
below, within and above the range is told apart).

`Classify` sees an error as the set of what `errors.Is` and `errors.As` find in
it, with the status code of DPF, 0 if none can be read (`wrapAPIError`,
`genericStatus`).

`Exchange` is the loop of ExternalDNS on one zone: `GetRecords`,
`PostAdjustEndpoints`, `PostPlan`. ExternalDNS compares names as they are
spelled, values as sets and TTLs only if it wants one; DPF refuses whatever spec.md
(FR-030 to FR-033) says it refuses, and others make of a zone only what DPF stores
(`Published`). Both are external. The change set ExternalDNS posts is a set of
creations, updates and deletions put in some order (`SetToSeq`): nothing says in which. `PostRaw` is a client that
posts what was never adjusted, `OthersEdit` the console, `SourcesChange` a change of
Ingresses. A POST runs the whole of `toChangeSet`, `ValidateFormat`, the edit of
`ZoneMerge` (an instance with `NormalizeValues` made of `NormalizeTXT`, which
discharges `NormalizeAssumption` for the instance) and, on any failure of DPF,
`Classify` and `statusFor`. A POST is one step here and a failing one has no
effect; what happens in between is the business of `ZoneApply`.

### Replicas

Per replica `pc`, the zones it has still to read (`left`), its `view` and `changes`,
and what it has `sent`; shared are `wanted` (both replicas have the same sources),
the `content` of DPF, the `lock` of every zone and the `orphans`, jobs nobody waits
for. A record is its name, and a change set the names to create and to delete.

| Action | Code |
|---|---|
| `ReadZone` | `Provider.Records`, one zone at a time |
| `Plan` | ExternalDNS; `Continue` is the head of the loop of `ApplyChanges` |
| `Acquire`, `WaitOver` | the lock, `lockWaitTimeout` |
| `Skip`, `Submit` | the edit function: merge into the re-read zone, or `ErrSkipApply` |
| `Reflected`, `OrphanEnds` | the end of a job, which replaces the zone |
| `Fail`, `Cut` | an error of any call; a wait for a job that is cut short |
| `Crash`, `LockLapses` | the process dies and is restarted; `lockTTL` |
| `LockIsLost` | a process stopped for longer than `lockTTL` loses its lock unawares |
| `OthersEdit`, `SourcesChange` | the DPF console (outside of anyone's window: PC-002, PC-003), Ingresses |

The re-read and the PATCH are one step: what lies between them is the business of
`ZoneApply`. What remains is every way in which a view, a copy and a job of
different replicas can age.

### Deadline

One POST per process over zones 1 to `Zones`, with the time `now`. `started` and
`entered` are when the POST came in and when `Apply` of its zone began (both timers
of `Client.Apply` start there), `renewed` when the lock was last extended, `job`
when the job was sent. `Tick` lets time go on only if no timer is due (`Due`), so
timers fire at their time and everything else takes any time it likes. `Gap` stands
for the interval of dpf-go's extensions and the longest stop of a process
together; `GapAssumption` says that this is below `lockTTL`. What happens beyond
is `LockIsLost` of ZoneApply and Replicas. A POST ends with an answer
(`answered`), with an error of DPF (`failed`, by `Fail`: at any moment, also while a job
is under way, whose state cannot be had or whose acceptance was not seen), by
its own timers (`timedOut`), by the client's (`abandoned`), by a client that goes away
before (`left`, by `Disconnect`: a rollout of ExternalDNS) or with its process
(`crashed`).

### Config and Lifecycle

`Config` reads the arguments as `flag.Parse` does, one after the other up to the
first that is no flag: `args` is what is left, `given` what was read, `settings` and
`domains` what became of it. An argument stands for a flag with its value; a
`broken` one is undefined, lacks its value or has one that `Set` refuses, and a
`word` is no flag. `Valid` is the validation of `build`.

In `Lifecycle`, `pc` is where `run` is; per server the listener, the goroutine
`Server.serve`, what it has to report, the requests in flight and whether
Shutdown was called; `errs` is the buffered channel, `grace` the context of
Shutdown, `telemetry` whether there are exporters.

| Action | Code |
|---|---|
| `Read`, `ReadBroken`, `Help`, `EndOfArguments` | `config.Load`, `fs.Parse`; usage |
| `Build` | `values.build` |
| `NewTelemetry`, `NewClient` | `telemetry.New`, `dpf.NewClient`; both may fail |
| `Refused`, `Flush` | the exit code of a failed start; `Telemetry.Shutdown` |
| `ListenProvider`, `ListenExposed`, `ExposedFails` | `Server.Start`; the second failure closes the first listener |
| `ServeBegins`, `ServeReturns`, `Report` | the goroutines of `serve` |
| `Signal`, `StopOnSignal`, `StopOnErr` | the `select` of `run` |
| `Close`, `Drained`, `DrainFails` | `Server.Shutdown`, one server after the other |
| `Expire` | the end of `shutdownTimeout` |
| `AcceptFails`, `Accept`, `Answer` | net/http and clients |

## Runs

| Run | Instance | States | Shows |
|---|---|---|---|
| `apply` | 2 callers, 2 keys, 1 value, no faults | 857 000 | as long as accepted jobs are awaited, Apply is atomic: no lost update, the lock covers the window, refinement of `AtomicZone` |
| `apply_faults` | 2 callers, 2 keys, 1 value, all faults | 5 790 000 | under every fault: one writer at a time but for those stopped for longer than lockTTL, no success without reflection, updates are lost only by or to those without the lock |
| `apply_live` | 2 callers, 1 key, all faults but `overlap`, fairness | 959 000 | every request is answered, the lock comes free |
| `edit` | zones of at most 2 of 6 records, 70 change sets | 19 900 | merge does what is asked and nothing else; retries are no-ops; guard stops an edit for a misspelt name only |
| `provider` | 3 zones, 3 names, 5 scopes, zones created, edits | 148 000 | exact reads, success means everywhere, scope respected, GET and POST agree on owners |
| `exchange` | one zone, 9 good and 8 bad endpoints alone and the good in pairs, 11 failures | 214 000 | differences are settled, nothing is sent that DPF must refuse, the text of a TXT is kept, the status says whether to try again |
| `replicas` | 2 replicas, 2 zones, 2 managed names and a foreign one, 1 orphan | 207 000 | what is not managed is kept whatever happens; once disturbances end, DPF comes to what is wanted and stays there |
| `deadline` | 2 processes, 2 zones, all limits 1 to 7, time up to 8 | 9 240 000 | how late an answer can be, nobody shares a zone, after how long a timer or a crash leaves a job without its lock |
| `life` | command lines of up to 3 arguments, 2 requests per listener | 41 500 | starts as asked or not at all, both listeners or none, no stuck goroutine, no request cut off early, an end after every signal and every broken listener |
| `provider_drift`, `exchange_text`, `deadline_zones` | | | violations, see below |

**Why the bounds are enough.** `apply`: every property relates one caller to one
other (a holder and a waiter, a stale reader and a writer), and the zone to one
key of each; two callers that may meet on a key or not cover all pairs, and the
proofs below remove the bound. `apply_faults` needs the second key, too: with one,
every request overwrites all there is, and nothing of another's can be lost.
`apply_live` does not, since who is answered and who has the lock depends on no
record; and an edit by somebody without the lock (`overlap`) touches neither. `edit`:
merge treats keys alike, so two published records and up to two changes reach every combination of a published, deleted, created and
re-created key, next to an untouched one; the six records are one of each kind
the code treats differently (people's, the webhook's, a TXT, one without TTL and
labels, an unparsable name, a name in capitals). `provider`: a parent, its child and an unrelated
zone whose name is textually similar are all the ways two zones can lie to each
other, and the scopes lie above, at, below and beside them. `exchange`: the
endpoints are one of each kind that `validate.go` and `adjust.go` treat
differently, and two of one name and different types; two more bounds are
written at the actions: `PostRaw` comes between two rounds and on a zone as others
left it, and `OthersEdit` not between the two calls that do not look at the zone.
`life`: the two listeners are all there are, a second request tells a count
from a flag, and three arguments give a flag or a domain, give it again, and
something after that. `deadline`: a second zone is what makes the limits add up, a
second process what takes a lock over; the numbers keep the order of the real
ones (lock wait < lockTTL < applyTimeout < client), the client's patience ends
in the second zone, and time goes on until after it. `replicas`: two
replicas are enough for an old and a new plan; the sources want one name or the
other, in different zones, so that one change takes two applications; one orphan is
the late job that undoes what came after it, and more of them only repeat this.

`apply` uses symmetry of the callers, `apply_faults` of callers and keys; runs with
liveness use none. Deadlock is
checked in every run but those of `Lifecycle`, whose process ends, and of
`Deadline`, where time does. In the others nothing can stop, since somebody
outside can always do something.

**Fairness.** `apply_live`: a running process takes its next step
(`WF(Step)`: goroutines run) and its timers fire (`lockWaitTimeout`,
`applyTimeout`, `lockTTL`). Nothing is assumed of DPF: a job may run for ever,
then `applyTimeout` ends the request. No order among waiters is assumed. In the
model any amount of time may pass before a timer fires, and errors never have to
occur.
`replicas`: each replica goes on, jobs end and locks of the dead lapse; which of two
waiting replicas gets a lock is open, and so is whether the other one waits long
enough. `Converges` promises something only for behaviours in which the
disturbances (failures, cuts, crashes, lost locks, edits, changes of the sources)
come to an end. It says so as `<>[][Progress]_vars`: from some time on every step
is one of progress. `<>[][~Disturbance]_vars` would be too much to ask, since a
step can be both: abandoning after the lock wait has the effect of a failure.
`life`: `run` and the goroutines go on and the timer of the grace fires; no client
need ever be answered, no signal need come, no listener break.

## Where code and documentation differ

Three runs expect a violation. Each shows a behaviour of the code that a comment or
document of the repository excludes.

1. `provider_drift`: a child zone created between GET and POST has its record
   deleted on account of the parent's.
2. `exchange_text`: `parseTXT` doubles pairs of backslashes only, so a single one in a
   value without quotation marks is lost. (A pair survives: `exchange` has one.)
3. `deadline_zones`: the README derives 605 s for the client from the 600 s of one
   application; a POST applies to several zones, each with 600 s of its own.

Also seen while modelling, without a run of their own:

- After the limit of the lock wait any error of `Apply`, also a permanent one, is
  replaced by the temporary lock timeout (`dpf/apply.go:107`). `ZoneApply!AnswerOf` has
  it; in `Exchange`, whose POST is one step without time, such a failure is one
  whose cause is `locked`.
- merge bears names in another spelling than the canonical one, as its comment
  (`dpf/merge.go:18`) and a test ask for (`dpf/merge_test.go:266`), but guard compares
  canonical with raw names (`dpf/merge.go:134`): it then stops every edit that does not
  delete the name, although nothing would be lost. `AbortsOnlyMisspelt` says that it
  does so then, and only then. `applyManagedBy` compares like guard and would not set
  the new mark under such a name.
- `dpf/lock.go:32` says the lock spans re-read to reflection. When the context
  ends while an accepted job is awaited (a client that goes away, `applyTimeout`), or
  DPF does not say how the job is doing (fault `cut` of ZoneApply), the lock is released
  while the job goes on, and `LockCoversReflection` fails. The README knows that the job
  goes on, not that it does so without the lock. Neither is a failed request final,
  therefore: it may change the zone after its answer. What holds in spite of it is
  `LostOnlyToStrangers`.
- Load does not look at what `fs.Parse` left (`config/config.go:113`). Behind the first
  argument that is no flag everything is ignored, as in `-otlp-insecure false
  --domain-filter=x`, which switches TLS off and manages nothing; the package comment
  (8) says that what cannot be interpreted stops the start.
- A CNAME is sent beside a record of another type the zone already has: only the
  change set is compared (`provider/validate.go:104`, FR-030). DPF refuses it.
- A comment of `main.go` (93) has the token's source verified at the start;
  `NewClient` only looks whether a file is named.
- A child zone created after POST listed the zones (event `zone` of Provider) gets
  nothing: its name is written to the parent (FR-043).
- A change set that deletes and creates one published key is submitted with that
  key twice. ExternalDNS sends such pairs as updates, so `edit` leaves them out.
- If an error carried both classes, `statusFor` would answer it as temporary; its
  comment says that permanent is looked at first. Classify never makes such an
  error (`ClassifiedOnce`).

## Proofs

All proofs hold for any sets of callers, replicas, keys, records, names, zones,
change sets, scopes and command lines and for any times, from the named assumptions
of the modules and the hypotheses given here.

**ZoneApply_proofs.** `BaseInv` is the type invariant with `Holds` (whoever is past
`Acquire` and before `Finish` has the lock) and `Progress` (what is known of job,
error and answer fits the place in the program); neither is inductive alone,
because a release needs to know whose lock it is and an answer what became of
the job. `Holds` is about callers that were not stopped for longer than
`lockTTL`: the others keep going without a lock. From it follow `OneWriter` and
`OkOnlyAfterReflection` under every fault, and so does `OnlyStrangersLose`. For that,
`FreshUnlessStale` says that what an attended caller read is what the zone publishes,
unless the history has it that a stranger changed the zone since; `AttendedHold`, that
an attended window has the lock. An attended job that reflects therefore meets no other
attended window, and one that nobody attends to is noted down in `stale`.
With `JobsAreAwaited` (none of `cut`, `unseen`, `outlive`, `stolen`), `JobsHold` says
that a running job belongs to the holder of the lock: `LockCovers`.
With `WindowsAreKept` (no `overlap`) too, `BaseIsFresh` says that
what a caller read is what the zone publishes until its job reflects: this is
why a merge into an old copy loses nothing, and gives `NoUpdateIsLost`. Finally
`ApplyIsAtomic` shows step by step that `ZoneApply` implements `AtomicZone`, with the
reflection (or the finding that there is nothing to do) as the instant of effect.
The two assumptions are not for convenience: without them the properties are
false, as the fault `cut` shows for the first.

**FoldFacts.** The loops of `merge` and of `ListRecords` are `FoldLeft` of their
bodies, and the library defines `FoldLeft` by a recursive function on sets of
numbers. `FoldIsALoop` says for sequences of any length that such a fold is a
sequence of values, one per element, each made from the one before by the
body. The body is a constant of the module, so every loop has an instance of its own;
induction is done once, in first-order form, on the set of numbers for which something
holds (`UpTo`).

**ZoneEdit_proofs.** One lemma per loop of `merge` says what it leaves in the map,
in the order and in the output; `MergeIs` puts them together and `SubmissionIs` adds
`applyManagedBy`: for every zone and change set, what is sent has exactly the keys
that are to be there, each once, the last values asked for, the mark on what was
written, and everything else verbatim and in its order. From it follow
`EditsAreMerges` (it is the `Merged` that `ZoneApply` takes for granted),
`ForeignsUntouched` (which moves the untouched records by an increasing map of their
places), `TypeCorrect`, `AbortsAreMisspelt` (what merge leaves is found by guard if
and only if it is spelled canonically, from `LossIs`), and a property that is not
inductive: `RetriesAreNoops` needs `HoldsRequest` (until others edit, the zone holds
what was last asked for, which a retry then finds unchanged).

**Provider_proofs.** The longest match exists (lengths are bounded by that of the
name), is unique (two prefixes of one length are equal), so the order of the
zones is immaterial; and the owner of a name in scope is always relevant, so
GET misses nothing by passing over zones. `ParsedNamesComeBack` says of every
spelling what `ZoneMerge` and `RecordFormat` assume of names: parsing is idempotent, and
undoes `WithoutDot` (but for the root, which no record of a zone has).
`NamesAreReadOnce` and `ScopeHolds` hold whatever others do.
Undisturbed, GET is exact (`ReadingIsExact`: `SeenSoFar` describes the records
gathered so far; when no zone is left, `RelevantSuffices` closes the gap of the
zones passed over) and success means success everywhere (`OkEverywhere`, from
`AppliedSoFar`). Undisturbed, too, deletions hit only what was read and writes only
owners (`ReadingAndWritingAgree`, from `OwnersAgree`: the zones have not changed since
GET listed them). Without that condition it is false, as `provider_drift` shows.

**Replicas_proofs.** `TypeOK` says more than types (`InPlace`): a replica holds the lock
of the zone it works on and no other, and has submitted names of that zone only.
`ForeignIsKeptAlways` rests on `SentKeepsForeign`: whatever is on its way to a zone, with
or without somebody waiting for it, holds the foreign records as they are
published now. It is inductive because a copy is taken of what is published, no
job changes what is foreign, and others do not edit inside the window; no lock is
needed for it, so it holds for processes that lost theirs.

**Deadline_proofs.** `DeadlineInv` adds to the types that no timer is overdue (`Timers`),
that whoever holds a zone has extended its lock less than `Gap` ago (`Held`) and what
is known of a job by what became of its request (`Jobs`). With the values of the
code: an answer comes within the listing and 600 s for every zone
(`AnswerBoundAlways`), a client that waits longer gets it (`PatienceForAllZones`: 605 s
are enough for one zone, if the zones are listed within 5 s), and a job that runs
without its lock has been running for 540 s (applyTimeout less the lock wait) if a timer
of the webhook ended the wait, for lockTTL less `Gap` if its process died, and for what
the listing and the wait leave of the client's time if the client's patience ended
(`TimersSpareShortJobsAlways`). An error of DPF and a client that goes away leave a job
without its lock after any time, or none.

**Lifecycle_proofs.** `LifeInv` adds to the types and the properties how far the
listeners are given how far `run` is (`Phases`), that each goroutine reports once
and has a failure to report before a shutdown (`Reports`, from which
`ReportsNeverBlock` and `NeverHalfAlive` follow), and what is known of requests once
a shutdown has begun (`Drains`, for `NoRequestIsCut` and `CleanExit`). `Configured` says
that what was read so far is what the arguments ask for, up to `build`, and valid
after it (`StartsAsAskedAlways`); reading one more argument keeps it
(`ReadingIsAsked`). All of it holds for any number of requests and any command line.

**Exchange_proofs.** For every integer TTL, every TXT value and lists of any length,
what Adjust returns is in range and adjusting it again changes nothing.
`ClassifiedOnce` and `GivesUpExactly` say of every error, whatever it wraps, that it
gets a class once and when ExternalDNS is told to give up. The properties of the loop
all come from one inductive invariant, `Inv`, which TLC checked on the instance of
`exchange` before it was proved (`InvIsInductive`). It has four parts:

- `Contents`: the zone is one DPF could hold (`Published`), what was sent can be stored,
  and every record GET returned passes the webhook's own validation (`IsShown`);
- `LastPost`: what the failure, if there was one, says of the status code;
- `InRound`: where ExternalDNS is in its round, and as long as nobody else has
  changed anything, that its view is what the zone shows;
- `InSync`: after a success the zone shows, name by name and type by type, exactly
  what is wanted, as it was adjusted (`Synced`).

None of them is inductive alone: a POST keeps `Published` because its change set passed
validation (`SubmittedIs`), and establishes `InSync` because merge leaves in a zone what
was asked for and else what was there (`Became`, from `SubmissionIs` of
ZoneEdit_proofs, both when it is sent and when it is skipped), because the plan asks
for every difference (`PlanIs`), and because showing a stored record undoes storing it
(`ShownIs`). `NothingIsLeftToDo` is then that a plan made of two synchronous lists is
empty, `SentStaysStorable` and `AnswersTellWhetherToRetry` are parts of the invariant,
and `RefusesOnlyImpossible` needs that a valid record is refused for nothing but what
it is (`PossibleIsValid`) or for a CNAME beside it. The constants are assumed to be
what their sources are: ExternalDNS wants one endpoint per name and type
(`WishesAssumption`), others store only what DPF takes (`ZonesAssumption`), every
failure carries the marks of its cause (`FailuresAssumption`), a raw change set does
not delete what it puts (`RawChangesAssumption`). `TextStaysKept` has a
hypothesis beyond these: no TXT value without quotation marks holds a single
backslash. Without it the property is false, as `exchange_text` shows.

Only model-checked are the liveness properties (`EveryRequestAnswered`,
`LockComesFree`, `Converges`, `EndsWhenItMust`), since liveness under fairness is out of
the prover's reach. Every safety invariant and action property of a passing run is
proved. In one place the model is written for the prover: `Plan` is made of sets
rather than by `SelectSeq`, of which it can expand nothing.

## What is not modelled

- Time, except in Deadline. Elsewhere timers fire at any moment they are armed.
- How soon dpf-go notices that an extension of a lock failed: it is not in the
  repository. Deadline assumes that locks are extended in time, ZoneApply that the
  loss is noticed at any later moment or never, Replicas that nothing is noticed.
- An unlock call of dpf-go that fails: the lock then lapses after `lockTTL`, as it does
  after a crash.
- Two zones of one name in the list (`provider/zoneindex.go` keeps the first); the zones
  of `DnsName` and `Provider` are a set of names.
- One endpoint that cannot be read makes both calls answer 400 for all of them;
  `Exchange` has it, and states nothing about it.
- JSON, content negotiation, wording of errors; comments and escapes within TXT
  values beyond the backslash; escapes within names; zones whose names `Parse` does not
  take (`ListZones` passes over them: no name the webhook can express lies in them).
- A second Start or Shutdown (`run` calls each once), `shutdownGrace`, and requests
  that end in the very instant the grace does.
- Reading the token's file (a call of DPF may fail, that is all), what is measured
  and logged, the history of a zone and `RecordsWithManagedBy`, which only tests use.
- A change set with two records of one name and type that differ in
  `setIdentifier`: the last one wins in `merge` (`Wanted` in ZoneEdit says so).
- What ExternalDNS wants does not change during a behaviour of Provider (it does in
  Exchange and in Replicas), and its TXT registry is just more records.
- Replicas that want different things of one name: it is ExternalDNS's registry that
  keeps its instances apart.

## Plan

Done, in this order: ZoneApply with AtomicZone, ZoneMerge with ZoneEdit, DnsName
with Provider, RecordFormat and Classify with Exchange, Config with Lifecycle,
Deadline, Replicas, and the proofs above. What would come next:

1. That `Provider!ApplyZone` is what `AtomicZone` promises, and that Replicas with one
   replica and no faults implements Provider.
2. Escapes within names: what `TrimSpace`, the case of escaped octets and dots do to
   a spelling.
