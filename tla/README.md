# Waffynx in TLA+

Waffynx is a web application firewall: an nginx module asks a Go process (the
*sidecar*) about every request, the sidecar reports what it blocks to a
management API, and an agent on the host turns repeated attacks into firewall
rules. These modules specify how the parts behave together when requests,
goroutines, timeouts, broken connections and restarts come in any order. TLC
checks them on small instances; TLAPS proves every safety property that the
passing runs check for all instances.

Paths below are relative to the root of the repository.

## The system

| Part | Source | State | Operations | What makes it correct |
|---|---|---|---|---|
| nginx module | `modules/ngx_waffynx/ngx_http_waffynx_module.c` | per request: context, buffer, socket | access handler, body callback, connect, send, recv, enforcement | fails closed unless told otherwise; always decides |
| sidecar evaluation | `internal/engine/sidecar.go`, `internal/plugin/chain.go` | one goroutine per request | plugin chain, rules, policy, scorer, recording, answer; start and stop | the answer is the verdict about this request; a denial was given to the audit store |
| audit store | `internal/audit/store.go` | ring in memory, file, two mutexes | Record, Query, Stats | newest events in the ring, every event once in the file |
| learning engine | `internal/learning/engine.go` | the same ring, counters | Record, Stats, Suggestions, export | as above; suggestions follow from the records |
| event broker | `internal/events/broker.go` | set of channels, RWMutex | Subscribe, Unsubscribe, Publish | no send on a closed channel, nobody waits for a slow subscriber |
| publisher, ingestion, SSE | `internal/events/broker.go`, `internal/api/handlers_events.go` | connections | POST with a timeout, ingest, stream | at most once, in order, losses only where a channel is full or a stream breaks |
| agent | `cmd/waf-agent/main.go` | timestamps per address | read the stream, record, clean up, block, unblock | the threshold is applied to exactly the window |
| host firewall | `internal/firewall/firewall.go` | rules of nft or ufw | BlockIP, UnblockIP, Rules | a block is undone by an unblock |
| rate limiter | `internal/ratelimit/limiter.go`, `plugins/rate-limit` | buckets, Redis keys | Allow, cleanup | no more than the limit per window, nobody refused who kept to it |
| plugins, rules, policy | `plugins/*`, `internal/plugin`, `internal/rules`, `internal/policy`, `internal/engine/policy.go` | rule lists | evaluate, add, remove | first match decides, whatever changes meanwhile |
| scorer | `internal/appsec/scorer.go` | counters per address | Evaluate | no block without evidence |
| AppSec bridge | `internal/appsec/bridge.go`, `cmd/appsec-bridge` | pool of connections, daemon, socket file | Evaluate, start, stop | the verdict is about this request; fails open for a reason |
| engine lifecycle | `internal/engine/engine*.go`, `cmd/waffynx/main.go` | child process, sidecar, socket file, signals | Start, Stop, Reload | nginx runs only with a sidecar |
| management API | `internal/api/*`, `internal/auth`, `internal/config` | configuration, bans, tokens | login, update, SIGHUP reload, ban, unban | a confirmed update is kept; a ban that succeeded drops; who acts may, with a token that is still good |
| upstream pool | `internal/upstream` | targets, health, counters | next target, health check | choice and health are justified, counters are exact, rounds are even |
| gateway, router, marketplace | `internal/gateway`, `internal/marketplace` | - | - | - |
| parsers, TLS, logging, metrics, web console, generated code | `internal/parsers`, `internal/tls`, `ui`, `pkg/proto` | - | - | - |

How they interact: nginx and the sidecar share one Unix-socket connection per
request. The sidecar calls the audit store, the learning engine and a broker of
its own under the handler, and posts to the API server synchronously. The API
server's broker is shared by the ingesting handlers and the SSE handlers. The
agent holds one SSE stream and dials again after it broke.

What is hard here: the verdict races with nginx's timeout; the sidecar can die
between deciding, recording and answering; a worker process is blocked while it
waits; an audit record takes two locks and two unchecked writes; a channel is
closed while others publish; the POST may time out after it was ingested; every
stream ends after 10 s (`WriteTimeout`) and events keep coming; the tracker
filters one slice from two goroutines. The full list, line by line, is
`hazards` in `PROJECT.json`.

## The modules

| Module | Models | Used by |
|---|---|---|
| `Exchange` | the connection between nginx and the sidecar | `NginxModule`, `Sidecar` |
| `NginxModule` | the C module | `DataPlane` |
| `Sidecar` | `handleEvaluate`, `recordLearning`, `Start`, `Stop`, death of the process | `DataPlane` |
| `DataPlane` | both, composed; the properties | `DataPlaneProofs`, `MCDataPlane`, `MCLiveness` |
| `Gate` | the promise: what a client may observe | `DataPlane`, by refinement |
| `Ring` | the bounded buffer of the audit store and the learning engine | `AuditStore`, `AuditQuery`, `Learning` |
| `AuditStore` | `audit.Store.Record` under concurrency and crashes | `AuditStoreProofs`, `MCAuditStore` |
| `Broker` | `events.Broker` | `EventPath` |
| `EventPath` | publisher, ingestion, SSE handler and agent around the broker | `EventPathProofs`, `MCEventPath` |
| `Tracker` | `eventTracker` and the agent's blocking | `TrackerProofs`, `MCTracker` |
| `TokenBucket`, `RedisWindow` | the two rate limiters and the plugin that asks them | `RequestPath` |
| `Inspection` | plugin chain and plugins, rules, policies | `RequestPath` |
| `PolicyStore` | the ordered map of policies beside the engine | `RequestPath` |
| `Scorer` | `BasicScorer` | `RequestPath` |
| `Learning` | the learning engine | `RequestPath` |
| `AuditQuery` | `Query` and `Stats` of the audit store | `RequestPath` |
| `UpstreamPool` | balancers, connection counting, health checks | `RequestPath`, `MCLiveness` |
| `RequestPath` | the eight modules above side by side; their properties | `TrafficProofs`, `RequestProofs`, `MCRequestPath` |
| `HostFirewall` | managers of nft or ufw rules, and what the tools print | `BanTable` |
| `BanTable` | bans over the API, by the agent and by the block list | `Control`, run `ban_expiry` |
| `ConfigServer` | configuration: update, reload, edit, crash | `Control` |
| `ApiAccess` | logins, tokens, OIDC, roles, scopes, audit middleware | `Control` |
| `Lifecycle` | `runEngine`, `Engine`, signals, socket file, nginx as a process | `Control`, `MCLiveness` |
| `Bridge` | `BridgeScorer` and the daemon `cmd/appsec-bridge` | `Control` |
| `Control` | the modules from `BanTable` on, side by side; their properties | `ControlProofs`, `ApiProofs`, `MCControl` |

Definitions keep the names of the functions they model; `map` in
`PROJECT.json` gives the lines. Operators marked *Mutant* are wrong variants of
the definition after them. They are not part of any specification: each is a
bug that the code could have had and that one of the properties notices.

`RequestPath` and `Control` put components side by side that share no state, and
`MCLiveness` does so for the liveness of three. A variable `part` names the one
that runs; the others stay in their initial states. So the behaviours are those of
each component alone, and the number of states is a sum and not a product. The
parameters of a component are the fields of one constant, its *setup*
(`BucketSetup`, `PoolSetup`, ...), for which the MC module gives a small record and
the theorems assume next to nothing. The firewall, the access to the API and the
scorer are there for two setups each, by an instance with the setup as its
parameter: `Bans(s)`, `Access(s)`, `Scores(s)`. A property of a composed module has
the name of the component's property and speaks about the part's instance; several
of them are conjunctions, whose named parts are stated and commented in the
component's module.

### Data plane

`phase[r]` follows the C handler: `new` (access handler), `body` (waiting for
`ngx_http_read_client_request_body`), `connect`, `send`, `recv`, and the
outcome. The last three steps are blocking system calls, so a worker in one of
them serves nobody else (`Blocked`). `stage[r]` follows the goroutine of
`handleEvaluate` through the plugin chain, rules, policy and scorer to
`recordLearning`, which is four steps: learning engine, audit log, broker, API
server. The handler writes its status early but net/http flushes such a small
response only when the handler returns, so the answer reaches nginx after all
the recording (`Respond`). `recorded` says where an event is. `Store.Record` ignores
the errors of its writes, so `RecordAudit` may leave it in the ring alone
(`unwritten`), where it is until the process ends (`gone`); that a denial is on
record means no more than that.

Abstracted: the contents of requests. What a stage objects to is a choice
between the outcomes its code has; `Inspection` and `Scorer` say which. Of a body
only how nginx holds it is kept, of a message only whether it fits the socket
buffers. A status of 204 allows, every other one denies. Failures (`SetupFails`,
a refused connection, EOF, a timeout, a short status line) are kept apart because
their verdict is the location's `waffynx_fail_open`. External: nginx's event
loop, net/http, sockets.

`Gate` is the abstract specification: requests are passed or denied once,
judgements are made once, and only requests of exempt or fail-open locations
pass without an `allow`. `ImplementsGate` is the refinement, with `judged`
mapped to the handler's verdict and `outcome` to the decided phases.

### Audit store

An event is the number under which it entered the ring. `RecordRing` is the part
of `Record` under `mu`, `WriteEvent` and `WriteNewline` are the two writes under
`fileMu`; each write may fail, which the code does not notice. `CrashRestart`
empties the ring and leaves the file. A write is taken to succeed or to fail as
a whole. After `Close` every write fails. `AuditQuery` reads the same ring: one
`Record`, `Query` or `Stats` at a time, as the lock has it, with every filter on
actor, action and result and every limit. The walk of `Query` starts at the end of
the slice and not at the cursor; `QueryOrder` says exactly what order results from
that: the descending order of the places in the ring, which is the newest first only
until the ring has come round. No document promises an order. The result of an event is `allowed`
or `success`: `Stats` counts as blocked whatever is not `allowed`, a ban that
succeeded (`internal/api/handlers_firewall.go:90`) among it.

### Event path

`Publish` is split where other goroutines can come in: `PublishStart` takes the
read lock, `PublishSend` is one non-blocking send, `PublishEnd` releases the
lock. The rest are the handlers around it, each connection of the agent being a
session of its own, and the failures: the 200 ms timeout of the POST, streams
that break at any time, restarts of the agent and of the API server. Events
that `handleFirewallBlock` publishes itself are not modelled, nor other SSE
clients than the agent: to the broker they would be further events and sessions.

### Tracker

Time is discrete; a slice of timestamps is the set of receipts it stands for.
`record` (under the mutex) and `BlockIP` (after it) are two actions, so that
`cleanup`, the agent's own API and a restart can come between them. The ticker
is never late by a whole unit of the clock. The firewall either does what it is
told or fails.

### Rate limiters

`TokenBucket`: `Allow` and the cleanup hold the mutex and are atomic. Tokens are
counted in fractions of a token, exactly; the rounding of floats is not modelled.
`since[c][t]` counts what client `c` got through from time `t` on, by which
`RateBounded` covers every stretch of time, across cleanups too. `RedisWindow`:
reading the clock, `INCR` and `EXPIRE` are three steps of one of several sidecars,
any of which may die in between; Redis drops an expired key. Nothing bounds how late
a command is, for `Allow` passes `context.Background()` and go-redis waits seconds.
A command may be executed and its reply be lost, after which go-redis sends it again
(`IncrLost`): when that was the first of a window, nobody sees a count of 1 and the
key gets no expiry. One that fails for good lets the request pass, since the plugin
logs the error only (`IncrFails`). `WindowBounded` accounts for each: of the requests
that pass, those beyond the limit had no answer (`unanswered`) or came to a counter
that may have expired (`late`). The clocks of the sidecars are taken to agree.

### Inspection, scorer, learning

`Inspection` builds the chain as `runEngine` does: plugins in any order, some of
which fail in `Init`, sorted by priority on `Add`. A request is a record of facts
about it (country, what a pattern finds, depth of a GraphQL query), and each
plugin's decision is computed from them as the code does. The rules and the
policies use the same first-match loop; an evaluation in one engine is atomic
under its read lock, and additions and deletions come between the engines and
between requests. Ids are readings of the clock, so that two rules may share one.
`PolicyStore` is the map of policies with its order, which no evaluation asks.

`Scorer` computes in ten-thousandths: the weights, the early return at 0.70, the
anomalies with their maxima, the fixed window of the address counter, the
thresholds. Which families of patterns match is an input, as are entropy and
character scores.

`Learning` is the same ring with the three analyses, rates being compared by cross
multiplication, and `normalizePath` on sequences of segments with their kinds. A
segment that is spelled like a placeholder (`{id}`) falls into the group of those
that the placeholder stands for; `SameGroup` says so.

### Upstream pool

A scan of the balancer is one step per target, since flags and counters are
atomics that probes and other requests change meanwhile; `least` is the `minConns` of
the scan, and `most` records the most connections that a target had during it, so
that `LeastChosen` can say what choosing the least of moving counters is worth.
`Probe` is a round's
look at one target. `wasSick` and `wasWell` record what the targets were during a
scan, `steady` whether all have been in from the start.

### Firewall and bans

`HostFirewall` runs a manager in the API server and another in the agent over one
rule set, each command being a process that may fail; `Start` is its sequence of
commands. `ParseUFW` and `ParseNFT` work on the words of a line as the tools print
it, for that is what the code splits. External: nft appends, and deletes one
rule that matches an expression (which real nft does only by handle; the model
takes it to work as the code expects); ufw ignores a rule that is already there.
`BanTable` adds the table of the API server: its change under the lock and the
command afterwards are two steps, so that requests overtake each other there. An
address is banned if the first rule that matches it drops (`Verdict`); on ufw a
managed port is accepted before, on nftables a default of `accept` is itself the
first rule, and what `BansHold` says of an answered ban does not hold. `reported` has who was
told last that a command for an address succeeded, `changed` who changed the table
last: where both are the same call, table and kernel agree (`TableAgrees`); where two
calls passed each other, they need not.

### Configuration and access

`ConfigServer`: a configuration is a function on a few leaves (the firewall back
end, which validation looks at; the secret, which only `NewServer` looks at; and a name
that nobody does), which deepMerge replaces one by one.
The file has them in the order of the encoder, so that a write cut short leaves a
prefix. `UpdateOpen` truncates the file, `UpdateDone` and `UpdateFails` end the
write; a reload reads before it takes the lock (`ReloadRead`, `ReloadApply`).
`acked` has every confirmed update, through failed writes and crashes of later ones;
only the leaf whose update was cut off by a crash, and all leaves at an operator's
edit, are forgotten. What the file has lost by the last write is `Lost`, and a leaf
is `spoiled` from the moment that such a file, or a reload read before a change
(`current` is false), comes into force, until it is updated again.

`ApiAccess`: tokens are records of who signed them and for whom; a request is
authenticated, handled and recorded in separate steps, and a login compares the
password in one step and signs in another, while the configuration replaces
users, secret and providers. `entitled`, `checked` and `seen` are history: until when
a user was one, when a token was looked at, and which secrets and providers there
have been between the arrival of a request and that moment. A token is good only if
what signed it is among the latter (`KeysCurrent`). Signatures and bcrypt are taken
to work. The audit middleware is modelled, and no property is about it.

### Lifecycle and bridge

`Lifecycle`: the steps of `Sidecar.Start`, `Engine.Start`, the loop over signals
and `Stop`, each of which may fail or be the last before a kill. The channel for
signals holds one, and what does not fit is lost. nginx is a process that starts,
serves, quits and crashes on its own. `Bridge`: the pool of net/http (idle
connections, a retry only where nothing was written), the timeout of the client,
and a daemon that removes its socket, listens, ends and dies. `age` counts the
ticks of a call; `said` is what the daemon scored for it on which connection.

## The runs

| Run | Instance | Shows |
|---|---|---|
| `dataplane` | 2 requests of 5 kinds, 2 workers; 2,203,378 states | `FailClosed`: whatever stalls, dies or comes too late, a fail-closed location passes only what the sidecar allowed. `StatusHonoured`: a status acted upon is the verdict about this very request. `DenialOnRecord`, `AuditTruthful`: a block that a client sees is in the audit file unless the write of it failed unnoticed, and no request is there that got through. `ImplementsGate`: the whole keeps the promise of `Gate`. |
| `dataplane_send_stall` | 1 request, violation | `SendEnds`: the send loop retries EAGAIN without end |
| `dataplane_fail_open` | 1 request, violation | `FailOpenOnlyWhenDown`: a fail-open location passes a request that the running sidecar has decided to block |
| `dataplane_fault` | 1 request, violation | `FaultFailsSafe`: a failed scorer or limiter lets the request through |
| `dataplane_body` | 1 request, violation | `BodyInspected`: a body in a temporary file or without a length is not inspected |
| `auditstore` | ring of 2, 5 events, 2 writers; 82,673 states | `RetainsNewest`, `FileComplete`, `LinesIntact` through crashes and failed writes; `RecordReturns` |
| `eventpath` | 2 events, 2 sessions, channels of 1; 264,028 states | `NoSendOnClosed`, `CountedOnce`, `InOrder`, `NoSilentLoss`; `EventuallyCounted` |
| `tracker` | 2 addresses, 4 events, window 4, 8 ticks; 250,744 states | `TrackerExact`, `WindowExact`, `ForgetsQuiet` |
| `request_path` | 9 parts, see below; 1,410,050 states | `LimitHonoured`, `WindowBounded`, `ScoresJustified`, `LearningSound`, `InspectionSound`, `QueryFaithful`, `PoolSound` |
| `control` | 7 parts, see below; 1,279,955 states | `BansHold`, `ConfigKept`, `AccessJustified`, `EngineOrdered`, `VerdictsSound` |
| `liveness` | 3 parts; 273,476 states | `EveryRequestDecided` although the sidecar may stall for ever; `HealthFollows`: the pool's view of a target follows the target; `TermStops`: a SIGTERM in the channel ends the process |
| `ban_expiry` | 1 ban on ufw, violation | `ExpiredIsLifted`: a ban that ran out is gone from the list and its address still dropped |

The five violations are disagreements between the code and what the repository
says about it; `findings` in `PROJECT.json` quotes both sides.

The parts of the composed runs:

| Part | Instance | States |
|---|---|---|
| token bucket | 1 client, 3 tokens in 2 ticks, buckets forgotten after 3, 7 ticks | 44,677 |
| redis window | 2 sidecars, limit 1, windows of 2, 4 ticks | 308,073 |
| scores, rates | every combination of 4 families and the anomalies; 1 address for 6 ticks, limit 2 in 2 | 39,821 and 51,900 |
| learning | 3 paths in 2 groups, 2 addresses, ring of 3 | 10,682 |
| inspection, policies | 3 requests, 4 kinds of rules of which 2 are added, 3 configurations; 3 policies, 4 additions | 316,318 and 361 |
| audit query | ring of 3, 5 events, 2 actors, 2 actions, 2 results, every filter | 78,624 |
| pool | 2 requests, 2 targets, 3 strategies | 559,594 |
| ufw, nftables | 2 addresses and 2 calls; 1 address, 2 calls, a managed port, 3 rules | 213,824 and 178,426 |
| config | 2 updates, 1 edit, reloads and crashes | 253,240 |
| providers, secrets | 1 user, 2 requests, a provider; a secret that is replaced | 363,381 and 222,830 |
| lifecycle | 3 starts, 3 signals | 6,403 |
| bridge | 2 calls, 2 connections, the daemon ends once | 41,851 |

**Bounds.** Two requests are what it takes for one to wait for the other's
worker and for a crash to meet two handlers in different stages; each request
keeps to itself otherwise, which the proof makes precise (lemma `StepIsLocal`).
A ring of two with five events wraps twice and starts over after a crash.
Channels of one event overflow with two events; the second session is the
reconnection, while the handler of the first may still be subscribed. Eight
ticks are two windows and four cleanups, and the threshold is reached with two of
the four events, within a window or across its edge. Three tokens in two ticks
make one tick bring a fraction; seven ticks are two cleanups with an idle bucket
dropped and made anew. Four ticks are two windows of Redis with the expiry of the
first in the second. A ring of three is overwritten while a path or an address
has just enough records to be suggested. Two requests and two targets let a
target change on either side of a scan and each strategy choose between two. Two
addresses on the list let a command for one meet the rule of the other, and two
calls a ban meet an unban. Three starts have two generations of leftovers, and
two calls on two connections the late answer of one find the other. Events, clocks
and counters are bounded by the `Max...` constants in the guards.

**Fairness.** `DataPlane`: only nginx is fair, because every blocking call has a
timeout (`SO_RCVTIMEO`, `SO_SNDTIMEO`, `client_body_timeout`); nothing is assumed of
the sidecar or of `send()` failing. `AuditStore`: weak fairness for the goroutine
that holds `fileMu`, strong fairness for getting it, since Go's mutex hands over
to a starving waiter. `EventPath`: the timeout of `http.Client`, the goroutines
inside `Publish`, the SSE handlers and the agent's reader; none for the API
server answering, for connections to be made or to break. `UpstreamPool`: the
ticker of the health checks, the probes of a round, and a scan, which never
blocks; a probe always ends, although `http.Get` has no timeout of its own.
`Lifecycle`: the main goroutine and an nginx that was told to quit; not one that was
not, and no signal is assumed to be sent.

**Deadlock** is checked in the runs of a single component: a crash or restart is
always possible, so it only guards against a model that got stuck altogether. The
composed runs switch it off, since several of their parts really end (all requests
answered, no starts left, the clock at its bound).

## The proofs

All are for arbitrary constants under the named assumptions of the modules. Those
of the single components (`InputsAssumption`, `SidecarAssumption`,
`MaxSizeAssumption`, `AuditAssumption`, `CapAssumption`, `NobodyAssumption`,
`TrackerAssumption`) are types, sizes greater than zero, and `Nobody` being different
from everybody. `RequestPath` and `Control` assume of each setup what its module names
(`TokenBucketConstants`, `RedisConstants`, ...), which is of the same kind but for
these:

* a bucket is not forgotten before a window is over (`BucketAssumption`; 30 minutes
  in `limiter.go`);
* the maximum of requests in a minute is between 1 and 10,000, the unit of the scores
  (`ScoreAssumption`; 300 in `scorer.go`): beyond it, one request too many would score
  nothing when rounded down;
* a path is suggested as safe on no fewer requests than it is suggested at all
  (`LearningAssumption`), and the default limit of a query does not exceed the
  greatest (`QueryAssumption`);
* no address is one of the words that ufw and nft print (`UfwAssumption`,
  `NftAssumption`), and the names that the models use for nobody and nothing are
  not those of somebody or something (`ConfigAssumption`, `BridgeAssumption`).

TLC evaluates them all for the instances of the runs.

* `DataPlaneProofs`: `TypeCorrect`, `FailClosedHolds`, `DenialOnRecordHolds`,
  `StatusHonouredHolds`, `AuditTruthfulHolds`, `Refinement`. The properties are not inductive: that a passed request was
  allowed depends on the answer on the connection, which depends on the stage
  of a handler. `IInv` says for one request how far the handler is and what is
  on record by then (`HandlerInv`), that an answer stems from a handler that
  has returned (`ReplyInv`), and on what ground nginx decided
  (`EnforceInv`). A step of one request leaves these facts about all others
  alone, so each action is looked at for its own request only. The refinement
  maps every step to a step of `Gate` or to a stutter.
* `AuditStoreProofs`: `AuditTypeCorrect`, `RetainsNewestHolds`,
  `FileCompleteHolds`, `LinesIntactHolds`. What the ring holds says nothing of
  where: `RingInv` gives the event in every slot as a function of the cursor
  (`EventAt`), with an inverse (`SlotOf`) that shows that none is missing and
  none there twice. `WriterInv` says who owns a pending event, `LineInv` that a
  free `fileMu` means a finished line.
* `EventPathProofs`: `EventTypeCorrect`, `NoSendOnClosedHolds`,
  `CountedOnceHolds`, `InOrderHolds`, `NoSilentLossHolds`.
  `IInv` follows an event along its way:
  handed on once (`PostInv`), sent only to subscribers whose channel is open
  (`BrokerInv`), then in the channel, on the wire or counted, of which
  `AgentInv` says that they share nothing and that nothing owed is elsewhere
  than in one of them, still to be visited, or dropped. `OrderInv` carries the
  order through channel and wire; it needs that only finished events precede
  others. `SessionInv` ties the handler of a connection to its subscription. The
  lemmas on Append, Tail and concatenation are stated once, in front.
* `TrackerProofs`: `TrackerTypeCorrect`, `TrackerExactHolds`,
  `ForgetsQuietHolds`, `WindowExactHolds`. The strengthening `CleanupInv` dates
  every kept receipt by the last cleanup, which is at most half a window ago.

* `TrafficProofs`: what a component has kept of the requests before.
  `LimitHonouredHolds`: `since` only says what passed; the invariant bounds, for
  every moment `t` and client, what passed since `t` *and what could still pass*
  (`Level`) by a full bucket and the refill since `t` (`Gain`), and finds for every
  client a moment for which that is exact. So dropping a bucket that is full changes
  nothing, and `DueInv` dates the cleanup that may drop it.
  `WindowBoundedHolds`: until a grace after its window a counter is kept and is no
  less than what passed on an answer, and below the limit whatever it counts has
  passed or was lost (`CounterInv`); a reading of the clock is not of the future
  (`ReadInv`), which is all that is known of a command under way.
  `ScoresJustifiedHolds`: the counter of an address says nothing of the past. The
  invariant has for each address a function `w` that gives every request the one
  with which its window began (`Fall`), and the counter is the place of the last
  request in its window. Lemma `BurstIsNoticed` then shows that of more than twice
  the maximum in a minute, which meet at most two windows, one is over the maximum.
  `LearningSoundHolds` and `QueryFaithfulHolds`: `Holds` gives the place in the
  history of each slot of a ring, `PushHolds` that it stays so. For the learning
  engine counting slots is counting in the history (`CountedAlike`), group by group
  and address by address; `OneGroup` that paths that differ in numbers and queries
  are counted together. For the audit log `Index` is the number of the event in a
  slot, and `LogInv` ties its place to its number; a finite set of slots can be walked through in descending order (`Ranks`,
  `Ordered`), the walk that is cut off at the limit leaves nothing out unless it
  reaches the limit (`CutOff`), and the places are the slots (`SlotFacts`).
* `RequestProofs`: `PoolSoundHolds`, `InspectionSoundHolds`, `RequestPathTyped`.
  A scan knows of every target it has met that it was out at some moment since the
  scan began (`RequestInv`), and its n different steps have met all n targets
  (`AllAreMet`, by the remainders). Of every target that it has met and that was never
  out it knows that it had as many connections as the best at some moment
  (`LeastInv`). Undisturbed round robin: `RoundInv` says which
  targets have had one request more, from the index modulo `n`. The chain is sorted
  by priority, insertion being `Inserted`; a request knows which plugins it has
  passed (`AskedInv`). A rule that was there all the time is still in its list, and
  whoever got past its engine was let through by a rule before it (`SteadyRules`):
  `FirstMatch` picks the first match by well-founded induction (`Least`), and a
  removal keeps the order of the others (`Removed`). `StoreInv` is the order of the
  policies. `RequestPathTyped` puts the types of all parts together.
* `ControlProofs`: `EngineOrderedHolds` from where the main goroutine is, which says
  how socket file, listener and nginx of this start are (`SocketInv`, `NginxInv`);
  `ConfigKeptHolds` from an update differing from what is in force in the one leaf that
  it names, and a reload that is still current having parsed the file (`AckedInv`), so
  that what a cut file has kept is what was confirmed (`PrefixFacts`); and from
  everything that may come into force having passed validation (`ValidInv`); `VerdictsSoundHolds` from connections that
  nobody shares and that are clean when they are returned (`LinkInv`), a daemon that
  works at most once on a call (`WorkInv`), answers being what was said of just that
  call (`SaidInv`), failures having a cause (`FaultInv`) and being heard (`HeardInv`).
* `ApiProofs`: `AccessJustifiedHolds`: a token in circulation ends at most a TTL after
  its user was one (`TokenInv`), and who has passed the checks of a route was
  entitled to when they were made (`PassedInv`); what is in force is always among what
  a request that waits to be checked has seen (`SightInv`). `BansHoldHolds`: the last
  command for an address decides what is in the chain (`WantInv`) and is the one that
  was reported (`ReportedInv`), the last change of the table is what the table has
  (`ChangedInv`), ufw has no rule twice (`UfwInv`), and no rule accepts everything
  (`AcceptInv`), so that the first rule that matches a blocked address (`Earliest`)
  drops it (`BlockedIsDropped`); `RulesAdded` and
  `RulesDeleted` say what becomes of a chain, `ListedWhenInChain` that a rule is read
  back from the words printed for it. `TypeCorrect` puts the types of `Control`
  together.

Only model-checked: the liveness properties `RecordReturns`, `EventuallyCounted`,
`EveryRequestDecided`, `HealthFollows` and `TermStops`, since the prover handles neither
fairness nor ENABLED. The five violated properties are counterexamples and need no
proof.

## Further disagreements

While the modules were written, more places were met where the code does not do
what its names, comments or documents suggest. Where a model can show it, TLC found a
counterexample to a stronger property, which is not kept as a run; the rest was read off
the code. The models contain the behaviour as it is.

* `plugins/rate-limit/plugin.go:113`: `burst` is read from the configuration and
  never used; the bucket holds `requestsPerSecond` tokens.
* `internal/ratelimit/limiter.go:67`: the Redis limiter counts in fixed windows,
  which README.md:92 calls a sliding window: twice the limit passes around a boundary.
* `internal/api/handlers_firewall.go:79`: the lock is released before the command, so
  that a ban whose change of the table comes after that of an unban may reach the kernel
  before it: the address is listed as banned and no rule blocks it.
* `internal/firewall/firewall.go:163`: on nftables every block appends a rule and an
  unblock removes one, so an address blocked twice stays blocked. Lines 145 and
  204: a block is added behind the rules of managed ports, so it leaves these open.
  Line 179: a default of `accept` on nftables is an ordinary rule that is added before
  any ban, so that bans drop nothing (`AnsweredBanHolds`); one of `drop` comes before
  the rules of managed ports, which then accept nothing; and `deny`, the default that
  `configs/waffynx.yaml:55` and `config.go:183` give, is no verdict of nft, so that
  `Start` ends there. Line 209: a port and `/tcp` are two arguments to ufw, which takes
  them as one.
* `internal/api/server.go:76`: the table of bans is empty after a restart of the API
  server, while the rules in the kernel stay.
* `internal/api/server.go:131`: a reload that read the file before an update and takes
  the lock after it puts the old configuration back in force, with the new one on disk.
* `internal/api/handlers_config.go:125`: only `NewServer` checks the length of the
  secret; updates and reloads take any.
* `internal/upstream/upstream.go:93`: two targets that change places during a scan make
  it report that none is healthy, although one was at every moment.
* `internal/appsec/scorer.go:130`: a path traversal alone scores 0.675, below the 0.70 of
  the comment "any high-risk pattern match"; line 143 returns sums above one.
* `internal/learning/engine.go:252`: a confidence of up to five; line 176: a path that one
  attacker probes is suggested for whitelisting.
* `internal/engine/sidecar.go:354`: rules added within one reading of the clock share an
  id, and a deletion leaves one of them.
* `internal/engine/engine.go:61`: nothing evaluates the PolicyStore.
* `plugins/request-validation/plugin.go:163`: uploads are looked for by the content type of
  the request to `/evaluate`, which has none, so none is ever inspected.
* `cmd/waffynx/main.go:140`: a SIGTERM that arrives while a SIGHUP waits in the channel
  is dropped.
* `internal/engine/engine_unix.go:107`: a reload goes to an nginx that has died, without an
  error.
* `internal/api/middleware.go:134`: the actor in the audit log is always anonymous, since
  the claims are put into a copy of the request further in.
* `internal/config/config.go:179`: by default the bridge waits 200 ms and nginx 100 ms, so on
  a fail-closed location a daemon that hangs has every request denied before the bridge
  fails open.

## Not modelled

See `components` in `PROJECT.json`. Left out for good: generated gRPC code and
the web console; logging, metrics and TLS setup; the matching of patterns and the
parsing of texts, whose results are inputs; signatures and bcrypt; the C++ engine
behind the bridge, which is not in the repository. The gateway and its router are
created by no command of the repository, and nothing loads what the marketplace
installs: each of its operations is one critical section.

Hazards that no property covers, for want of anything the code promises or of a
model that could show them: the request buffer of the C module has 8 KiB for headers
and inserts the Content-Length line without checking the room again
(`ngx_http_waffynx_module.c:425`); an event stream is announced before it is
subscribed (`handlers_events.go:78`), and escaping can make a valid event longer than
the ingestion reads (line 42); an unblock does not reset the agent's count
(`cmd/waf-agent/main.go:293`), and a window of zero seconds panics (line 164); a probe
that hangs ends all health checks (`upstream.go:190`), and the round-robin counter
turns negative after 2^63 requests (line 91); the scorer never gives up a counter
(`scorer.go:395`); `marketplace.go:80` hands out pointers that change after the lock
is released.

## Plan

All components that the plan listed are modelled, but for the request buffer of the
C module byte by byte, the gateway and the marketplace, and all safety properties of
the passing runs are theorems. What is left:

1. Action properties where so far only states are compared: what a step of the API
   server may do to a token, of an operator to a rule.
2. Abstract specifications for more components, as `Gate` is for the data plane: the
   audit log as a sequence of which the ring is the end, the limiter as a budget. The
   invariants that the refinements need are those of the proofs above.
