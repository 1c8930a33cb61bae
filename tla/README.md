# TLA+ models of the Splunk HEC receiver

This directory holds TLA+ models of the code under `src/`. The models centre on
the Splunk HTTP Event Collector (HEC) receiver
(`receiver/splunkhecreceiver/receiver.go`). That file is the only complete
protocol implementation in the excerpt, and the only code in it with concurrency
and failure handling. Every module is written from the Go source. The line
ranges each definition stands for are listed under `map` in `PROJECT.json`.

## 1. Inventory

### Components and their state

| Component | Source | State it keeps | Operations |
|---|---|---|---|
| Receiver constructors | `receiver.go:86-149` | `splunkReceiver{config, logsConsumer \| metricsConsumer, server, obsrecv}`. Exactly one of the two consumers is set. | `newMetricsReceiver`, `newLogsReceiver` |
| Lifecycle | `receiver.go:151-185` | `r.server` (replaced by every `Start`), the bound `net.Listener`, the Serve goroutine | `Start`, `Shutdown`, the goroutine's `Serve` / `ReportFatalError` |
| Request handler | `receiver.go:187-252` | Per-request state only: the body reader, the `json.Decoder`, the `events` slice, and the `ctx` with its obsreport span | `handleReq`: path, method, encoding and gzip checks; the empty-body shortcut; the `dec.More()/Decode` loop; the per-event route gate |
| Conversion and forwarding | `receiver.go:265-294` | None. The batch passes to the consumer. | `consumeLogs`, `consumeMetrics` |
| Resource customizer | `receiver.go:254-263` | A closure holding the request's HEC token | `createResourceCustomizer` |
| failRequest and tracing | `receiver.go:296-336` | The request span | Write the status and body, annotate the span, End it |
| Response catalog | `receiver.go:39-71, 338-345` | Immutable canned JSON bodies | `initJSONResponse` |
| Kafka metrics receiver factory | `kafkametricsreceiver/receiver.go:39-84` | None. It runs once at construction. | `newMetricsReceiver`: version check, authentication, a loop over `config.Scrapers`, the scraper controller |
| EC2 host info | `datadogexporter/.../ec2/ec2.go` | `HostInfo{InstanceID, EC2Hostname}` | `GetHostInfo` (two metadata calls, each may fail), `GetHostname` |
| Testbed HEC data receiver | `testbed/datareceivers/splunk.go` | `sr.receiver`: the receiver built by the last `Start` | `Start` (a new receiver per call, then its `Start`), `Stop` (its `Shutdown`) |
| cAdvisor net extractor | `awscontainerinsightreceiver/.../net_extractor.go` | A rate calculator keyed by interface | `GetValue` |
| Host metrics scrapers, tests | (various) | None | Straight-line data copies, test harnesses |

### How the receiver's parts interact

- `Start` binds a listener and replaces `r.server`. It then launches a goroutine
  running `server.Serve(ln)`. That goroutine reports any error other than
  `http.ErrServerClosed` to `host.ReportFatalError`.
- `Serve` runs one `handleReq` goroutine per connection. Handlers run
  concurrently and share no mutable state. Each one calls the downstream
  consumer (`ConsumeLogs` or `ConsumeMetrics`), an external collaborator.
- The testbed's `SplunkHECDataReceiver` builds a new receiver on every `Start`
  and keeps only the last one in `sr.receiver`; `Stop` shuts that one down.
  All of its receivers bind the same port.
- `Shutdown` calls `server.Close()`. In Go, `Close` closes the listeners that
  `Serve` tracks and every active connection. A handler whose connection is
  closed keeps running. Its body reads now fail, and its response write goes
  nowhere.

### What is hard

- Several handler goroutines interleave with `Shutdown`, `Start` and the Serve
  goroutine.
- `Shutdown` can happen before the Serve goroutine has entered `Serve`.
- The decode loop can stop early, on a stray delimiter or a read error, without
  reporting an error.
- A request must get all-or-nothing forwarding when one event among several is
  rejected.
- The obsreport span is started on one path and has to be ended on every other
  path.
- The write timeout (20 s) can race a slow consumer.
- No read timeout is set, so a client that stalls mid-body holds its handler
  until `Shutdown` closes the connection.

`PROJECT.json` lists each hazard at its line, under `hazards`.

### Properties that make the receiver correct

- **Lifecycle**
  - Only the server `r.server` points to accepts connections.
  - A shut-down server's port is released.
- **Testbed**
  - With Start and Stop alternating, Stop reaches every accepting server and
    the port is eventually free after each Stop.
- **Kafka factory and EC2 host info**
  - The scraper loop agrees with a non-recursive reference: one scraper per
    listed entry, or the first unknown or failing entry reported.
  - `GetHostname` is empty only after a failure or when EC2 reported no
    hostname.
- **Handler**
  - The status tells the sender what happened: 202 means one batch was
    accepted, 500 means one batch was rejected, and anything else means nothing
    was forwarded.
  - Every batch keeps to its route and carries its own request's token.
  - A handler blocked on a client that stops sending its body is released
    once its server is closed (there is no ReadTimeout).
  - However handlers interleave with each other and with `Shutdown`, each
    request is answered as if `handleReq` had run atomically on the body it
    read (refinement of `HecAtomic`).
  - The spec also states rules that the code does not keep (see §4).

## 2. Modules

| Module | Models | State | Actions |
|---|---|---|---|
| `HecLifecycle` | `Start`, `Shutdown`, the Serve goroutine. Each `http.Server` that `r.server` has pointed to is a *generation*: 0 is the constructor's server, and g is the one built by the g-th successful Start. | `gen` (`r.server`), `closed[g]`, `listener[g]`, `serveLoop[g]`, `fatal`, `startResult` | `Start` (bind fails while the port is held), `ServeBegin` (returns at once on a closed server, closing ln), `ServeFail` (an Accept error gets reported), `ServeReturn` (Accept fails after Close; not reported), `Shutdown` (closes the tracked listener only) |
| `HecAtomic` | The abstract specification of the handler: each request is handled in one step. `Decode` (RECURSIVE) is the decode loop over the body; `Verdict` is the status before the consumer call. | `config`, `in` (requests handled so far), `resp`, `sent` | `Handle(r)` |
| `HecReceiver` | Extends `HecLifecycle` with concurrent handlers. A request is an abstract record: path matched or not, method, encoding, `Content-Length == 0`, whether gzip accepts the header, the HEC token, and a body of tokens `log`, `metric`, `badvalue` (a metric event whose value is not a number), `bad` (malformed object), `close` (stray `}`/`]`) and `ioerr` (read error). | `config` (route and passthrough), `in`, `stage`, `connGen`, `connOpen`, `readable` (the body the handler can still read), `pos`, `events`, `resp`, `lost`, `span`, `note` (where the failRequest annotation landed), `sent` (batches given to the consumer) | `HandleReq` (lines 187-222), `DecodeNext` (one loop iteration, 228-246), `Consume` (247-251 and consumeLogs/consumeMetrics), `ReceiverShutdown` (`Shutdown` plus closing active connections: the unread rest of each body becomes a read error) |

| `TestbedSplunk` | Extends `HecLifecycle` with the testbed's receiver. `gen` is the server of the receiver in `sr.receiver`; a receiver whose `Start` failed to bind keeps its constructor's server, which is server 0 (never served). | `recv`, `built`, `last`, `calls`, plus the lifecycle's variables | `TbStart`, `TbStop`, and the Serve goroutine's actions |
| `KafkaScrapers` | `newMetricsReceiver` of the Kafka metrics receiver as one action, since nothing runs beside it. The scraper loop is the RECURSIVE operator `BuildOptions`. | `version`, `scrapers` (the config), `result`, `options` | `NewMetricsReceiver` |
| `Ec2HostInfo` | `GetHostInfo` as one action. `GetHostname` and `isDefaultHostname` are operators. A hostname is a sequence of segments, and `strings.HasPrefix` is `IsPrefix`. | `hostInfo`, `failed`, `returned` | `GetHostInfo` |

### Refinement

`HecReceiver` defines `Atomic == INSTANCE HecAtomic WITH ...` and checks
`AtomicRefinement == Atomic!AtomicSpec` as a temporal property.

- The refinement mapping shows a request to `HecAtomic` only once its handler
  is done.
- The mapped request carries the body as the handler read it (`readable[r]`).
  After `Shutdown` cut a connection, that is a prefix followed by a read error.
- Every other step (`HandleReq` into the loop, each `DecodeNext`, the lifecycle
  steps, `Shutdown`) is a stuttering step of `HecAtomic`.
- `HecAtomic` names the handled request by its value in the next state, so it
  is checked only as a property of `HecReceiver`, not run on its own.

The refinement holds in both the `request` and the `concurrent` runs. Concurrent
handlers never disturb each other's outcome, and splitting the handler at its
blocking points changes nothing. `Shutdown` does not break the refinement
either: it changes what the handler reads, not how it handles what it read.

### Splitting the handler

The handler is split where it blocks on I/O: after the headers, once per
decoded object, and at the consumer call. These are the points where
`Shutdown` and other handlers can interleave. Everything between two such
points is one action, including the `failRequest` that ends the handler.

### Model values

- `json.Decoder.More` is modelled by what it does. It is false at EOF, on a
  read error, and on a `}` or `]`.
- `splunk.Event.IsMetric` is the token kind. Its code is not under `src/`.
- A failure of `splunkHecToLogData` is a nondeterministic outcome of
  `consumeLogs` when there are events. That code is not under `src/` either.
- `splunkHecToMetricsData` (`MetricsConverted`, not under `src/`) keeps one
  data point per `metric` token and skips `badvalue`. `consumeMetrics`
  discards its second result (`md, _ :=`), so the skipped events are
  answered 202 like the rest. `HecAtomic!Converted` says the same.
- The consumer's result is nondeterministic.

- The scraper constructors, sarama, kafkaexporter, scraperhelper and the AWS
  SDK are not under `src/`. Their failures are nondeterministic inputs.

Requests that fail the header checks are enumerated only with an empty body,
because the handler never reads their body.

## 3. Runs

| Run | Cfg | Bounds | Checks |
|---|---|---|---|
| lifecycle | `MC_HecLifecycle.cfg` | `MaxStarts = 3` | `OnlyCurrentServerAccepts`, `ListenerEventuallyReleased` |
| request | `MC_HecRequest.cfg` | 1 request, 1 Start. Every header case, bodies of ≤ 2 tokens over all 6 kinds, both routes, passthrough on and off, token absent or present. | `TypeOK`, `OutcomeMatchesForwarding`, `BatchMatchesRoute`, `AtomicRefinement` |
| concurrent | `MC_HecReceiver.cfg` | 2 requests, 2 Starts. Well-formed POSTs with bodies of ≤ 2 `log`/`metric` tokens, both routes. | `OutcomeMatchesForwarding`, `AtomicRefinement`, `ShutdownUnblocksHandlers` |
| kafka | `MC_KafkaScrapers.cfg` | Up to 3 names from the 3 known and 1 unknown, every failure pattern, versions unset, valid, invalid | `LoopMatchesReference` |
| ec2 | `MC_Ec2HostInfo.cfg` | Hostnames of ≤ 3 segments over the 3 default prefixes and one other, 2 instance ids, every failure | `HostnameEmptyOnlyOnFailure` |
| testbed | `MC_TestbedSplunk.cfg` | 3 rounds of Start and Stop (6 calls) | `StopReachesAcceptingServer`, `PortFreedAfterStop` |
| empty_gzip | `V_EmptyGzip.cfg` | As `request` | `EmptyBodyAnswered200` (violated) |
| all_or_nothing | `V_AllOrNothing.cfg` | As `request` | `AllOrNothing` (violated) |
| span_ended | `V_SpanEnded.cfg` | As `request` | `SpanEndedOnResponse` (violated) |
| failure_annotated | `V_FailureAnnotated.cfg` | As `request` | `FailureStatusAnnotated` (violated) |
| in_flight | `V_InFlight.cfg` | As `concurrent` | `InFlightResponseDelivered` (violated) |
| shutdown_listener | `V_ShutdownListener.cfg` | As `lifecycle` | `ShutdownReleasesListener` (violated) |

### Why the bounds are enough

- **Lifecycle.** Three Starts give a restart after a Shutdown, a Start while the
  old goroutine still holds the port, and a Start after a Serve failure.
- **Request.** Bodies of two tokens give every ordered pair. That covers a
  rejected event after an accepted one, a delimiter after an event, and a
  read error after an event.
- **Concurrent.** Two requests let `Shutdown` cut one handler mid-body while
  the other is done or not yet arrived. A restart gives a second generation
  whose connections outlive the first.
- **Kafka.** Three entries give a repeated name, and an unknown or failing
  entry after a good one.
- **EC2.** Three segments give a default prefix followed by more text, and a
  default prefix in the middle of a name, which must not count.
- **Testbed.** Three rounds give a Start that fails because the previous
  receiver's goroutine still holds the port, and a Stop of that unbound
  receiver.
- The `concurrent` run is the largest: about 1.3 M distinct states in 2-3 min
  with the refinement property.

### Fairness

Weak fairness applies to the Serve goroutine's `ServeBegin` and
`ServeReturn`, because the Go scheduler eventually runs every runnable
goroutine. It also applies to two handler steps:

- `DecodeNext`, but only once the handler's connection has been closed.
  While the connection is open, each `Decode` waits for the client's bytes.
  The server sets `ReadHeaderTimeout` and `WriteTimeout` but no
  `ReadTimeout` (lines 169-170), so nothing makes a stalled client go on.
  After `Close`, the unbuffered rest of the body is a read error, and the
  loop ends without the client.
- `Consume`, which runs once `dec.More()` is false and no longer reads the
  body. The consumer call returns by the consumer's contract.

Clients, the host's `Start` and `Shutdown`, and Accept failures get no
fairness, because none of them is obliged to happen. For the same reason
the project states no property that every request is eventually answered:
under the code's own guarantees it does not hold.

The testbed's `TbSpec` has the same fairness on the Serve goroutines, and
none on the harness.

The model stops only when every Start has been used, the server is shut down,
and no handler is mid-request (`Stopped` / `Quiescent`). It stutters there;
every other state has a step.

## 4. Findings

Each finding is the counterexample of a violation run.

- **empty_gzip**: `gzip.NewReader` (line 210) runs before the
  `ContentLength == 0` shortcut (line 219). An empty gzip POST therefore gets
  400 "Error on gzip body". Spec §4.2 says it gets 200.
- **all_or_nothing**: `dec.More()` returns false on a stray `}` or `]` and on a
  read error. The loop then ends silently, and the decoded prefix (possibly
  empty) is forwarded with 202. Spec §4.2 and §7 say such a request gets 400
  with nothing forwarded. The same property catches the metrics converter
  (line 266). It skips a metric event whose value is not a number, and the
  request is still answered 202. This was checked with `close`, `ioerr` and
  `Shutdown` left out of a scratch copy of the model: TLC then reports the
  body `<<badvalue>>` forwarded as an empty metrics batch. The run keeps the
  full model, so its counterexample is the shorter `dec.More()` one.
- **span_ended**: on the metrics route, the empty-body shortcut never ends the
  obsreport span started at line 190.
- **failure_annotated**: `consumeMetrics` calls `EndMetricsOp`, which ends the
  span, before `failRequest`. The 500 status code and status text therefore
  land on a finished span. The consumer error itself does reach the span,
  through `EndMetricsOp`.
- **in_flight**: `server.Close()` closes active connections. A request in
  flight loses its response, and may be forwarded with a truncated body.
  Spec §4.1 and §5 say in-flight requests run to completion.
- **shutdown_listener**: a `Shutdown` issued before the Serve goroutine has
  entered `Serve` returns with the listener still bound. The listener is
  released later, when the goroutine runs. The passing properties
  `ListenerEventuallyReleased` and `PortFreedAfterStop` show that it is. In
  the testbed this means that a `Start` right after `Stop` can fail to bind.

Two further hazards follow from `splunk.go:54`, where `sr.receiver` is assigned
before `receiver.Start`.

- A second `Start` without `Stop` replaces `sr.receiver` by a receiver that
  failed to bind. The first receiver keeps serving, and `Stop` can no longer
  reach it.
- `Stop` before any `Start` dereferences a nil interface.

The harness alternates the two calls, so neither case is a run.

## 5. Not modelled, and the plan

Done:

- `HecLifecycle`, `HecReceiver`, the `HecAtomic` refinement, `TestbedSplunk`,
  `KafkaScrapers` and `Ec2HostInfo`.

Left out:

- **Write timeout and sender retry** (`receiver.go:170`).
  - A response written after the 20 s write deadline is lost, and a sender
    that re-POSTs duplicates data the consumer already has.
  - The retry is the sender's policy, which is not in the repository. A model
    sender that re-POSTs only after an unanswered request would make any
    duplicate property hold by its own guard.
  - The lost response itself is already shown by `in_flight`.
- **The cAdvisor net extractor.** Its state lives in a rate calculator
  (`awsmetrics`) that is not in the excerpt. What remains is straight-line
  field copying.
- **The host metrics scrapers.** They are straight-line copies.
- **The tests.**
- **The response bodies' text and the log lines.** No property is about them.

The metrics converter's skipping of non-numeric metric events is modelled
(`MetricsConverted`), so every hazard of the handler has a property except
the write timeout and retry above and the consumer's own thread safety
(`receiver.go:268`). The consumer is an external collaborator whose state is
not in the repository. `concurrent` already takes about two minutes with two
requests. Three requests would exceed a run's time budget, so larger bounds
are not the next step.

What remains unmodelled, and why nothing more is modelled:

- **Write deadline as a fault.** A step "the deadline passed while the
  handler was in its decode loop or consumer call" would make later writes
  lost. It is left out for two reasons:
  - Checked in `in_flight`, it would give that run a second cause for the
    same violation, unrelated to the spec's claim about `stop()`.
  - Checked only with one request, no property would tell it apart from a
    Shutdown-closed connection.
- **The cAdvisor net extractor** (121 lines).
  - The per-interface loop depends on whether the rate calculator yields a
    value.
  - That calculator (`awsmetrics.MetricCalculator`, `assignRateValueToField`)
    is neither under `src/` nor described in `spec.md`.
  - A model would therefore make every field nondeterministic. Its
    properties would then restate the two `if`s of lines 73 and 89.
- **The host scrapers** (108 lines). Each is a fixed list of
  `AppendEmpty` calls, one per state label. There is no control to check.
- **What the map leaves uncovered in the four modelled files.** It is license
  headers, imports, struct declarations, the JSON marshalling of the canned
  responses, and the testbed's YAML formatting.
- **The 12-run cap.** Every run is a distinct question. A new one would have
  to displace a finding or a passing check.
