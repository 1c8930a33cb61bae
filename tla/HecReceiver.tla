----------------------------- MODULE HecReceiver -----------------------------
(***************************************************************************)
(* The Splunk HEC receiver: concurrent handleReq goroutines                 *)
(* (receiver/splunkhecreceiver/receiver.go) composed with the lifecycle of *)
(* module HecLifecycle.                                                    *)
(*                                                                         *)
(* A request is the data the handler reads: path, method, the              *)
(* Content-Encoding and HEC token headers, whether Content-Length is 0,   *)
(* whether gzip.NewReader accepts the body's header, and the body as the   *)
(* json.Decoder sees it: a sequence of tokens, each one JSON object        *)
(* classified as a "log" or a "metric" event, a malformed object "bad", a  *)
(* stray closing delimiter "close" ('}' or ']') or a read error "ioerr"    *)
(* (corrupt gzip stream, connection closed).  The receiver instance serves *)
(* one route: newLogsReceiver sets only logsConsumer ("logs" mode),       *)
(* newMetricsReceiver only metricsConsumer ("metrics" mode).               *)
(*                                                                         *)
(* The handler is split at the points where it blocks on I/O: reading the  *)
(* headers (HandleReq), each iteration of the decode loop (DecodeNext) and *)
(* the call of the downstream consumer (Consume).                          *)
(***************************************************************************)
EXTENDS HecLifecycle, Sequences, FiniteSets

CONSTANTS
  Req,          \* the requests (model values)
  Paths,        \* request paths: "match" matches pathGlob, "other" does not
  Methods,      \* HTTP methods
  Encodings,    \* Content-Encoding values ("" when the header is absent)
  BodyTokens,   \* tokens bodies are made of
  MaxBody,      \* bound on the number of tokens in a body
  HecTokens,    \* values of the HEC token header; "none" when absent
  Modes,        \* receiver routes: subset of {"logs", "metrics"}
  Passthrough,  \* values of config.AccessTokenPassthrough
  NoRequest     \* model value: no request has arrived yet

ASSUME /\ Paths \subseteq {"match", "other"}
       /\ BodyTokens \subseteq {"log", "metric", "badvalue", "bad", "close", "ioerr"}
       /\ "none" \in HecTokens
       /\ Modes \subseteq {"logs", "metrics"} /\ Passthrough \subseteq BOOLEAN

VARIABLES
  config,    \* [mode, passthrough]: which consumer is set, the token flag
  in,        \* in[r]: request r as sent, NoRequest before it arrives
  stage,     \* stage[r]: "idle", "decoding" (in the loop) or "done"
  connGen,   \* connGen[r]: the server that accepted r's connection
  connOpen,  \* connOpen[r]: r's connection has not been closed by Shutdown
  readable,  \* readable[r]: r's body as the handler can still read it
  pos,       \* pos[r]: index of the next token dec.More() will peek at
  events,    \* events[r]: the events slice built by the decode loop
  resp,      \* resp[r]: HTTP status written to r (0: none yet)
  lost,      \* lost[r]: the response was written to a closed connection
  span,      \* span[r]: "none", "open" or "ended" (obsreport span of ctx)
  note,      \* note[r]: where failRequest's status annotation landed
  sent       \* the batches handed to the consumer, in order

reqVars == <<config, in, stage, connGen, connOpen, readable, pos, events,
             resp, lost, span, note, sent>>
vars == <<lifecycleVars, reqVars>>

(* The objects a body may hold: a log event, a metric event, and a metric *)
(* event whose value the metrics converter cannot convert (not a number). *)
EventTokens == {"log", "metric", "badvalue"}

Bodies == UNION {[1..n -> BodyTokens] : n \in 0..MaxBody}

(* The requests a client can send.  The body is enumerated only for       *)
(* requests that get past the header checks, since the handler never     *)
(* reads it otherwise; gzipOK only matters for gzip bodies and is FALSE   *)
(* for an empty one (gzip.NewReader hits EOF on it).                      *)
Requests ==
  { i \in [path : Paths, method : Methods, enc : Encodings, clenZero : BOOLEAN,
           gzipOK : BOOLEAN, hecToken : HecTokens, body : Bodies] :
      /\ i.clenZero => i.body = << >>
      /\ i.gzipOK => i.enc = "gzip" /\ ~i.clenZero
      /\ (i.path # "match" \/ i.method # "POST" \/ i.enc \notin {"", "gzip"}
            \/ (i.enc = "gzip" /\ ~i.gzipOK)) => i.body = << >> }

Batch == [req : Req, kind : Modes, events : Seq(EventTokens),
          token : HecTokens, accepted : BOOLEAN]

Statuses == {0, 200, 202, 400, 404, 415, 500}

TypeOK ==
  /\ config \in [mode : Modes, passthrough : Passthrough]
  /\ in \in [Req -> Requests \cup {NoRequest}]
  /\ stage \in [Req -> {"idle", "decoding", "done"}]
  /\ connGen \in [Req -> Gens]
  /\ connOpen \in [Req -> BOOLEAN]
  /\ readable \in [Req -> Seq(BodyTokens \cup {"ioerr"})]
  /\ pos \in [Req -> 1..MaxBody + 2]
  /\ events \in [Req -> Seq(EventTokens)]
  /\ resp \in [Req -> Statuses]
  /\ lost \in [Req -> BOOLEAN]
  /\ span \in [Req -> {"none", "open", "ended"}]
  /\ note \in [Req -> {"none", "onOpen", "onEnded"}]
  /\ sent \in Seq(Batch)
  /\ LifecycleTypeOK

-----------------------------------------------------------------------------
(* Helpers of the handler *)

\* json.Decoder.More: the next non-space byte exists (no read error, not
\* EOF) and is not a closing delimiter.
More(r) ==
  /\ pos[r] <= Len(readable[r])
  /\ readable[r][pos[r]] \in EventTokens \cup {"bad"}

\* splunk.Event.IsMetric on a decoded object.
IsMetric(tok) == tok \in {"metric", "badvalue"}

(* splunkHecToMetricsData: one data point per metric event with a        *)
(* numeric value, in order; an event with any other value is skipped.     *)
MetricsConverted(evs) == SelectSeq(evs, LAMBDA tok : tok = "metric")

\* Mutant: the AccessTokenPassthrough flag is not consulted.
ResourceTokenIgnoresPassthrough(r) == in[r].hecToken

\* createResourceCustomizer: the token inserted as a resource attribute.
ResourceToken(r) ==
  IF config.passthrough /\ in[r].hecToken # "none" THEN in[r].hecToken ELSE "none"

\* Where failRequest's attributes and status land, given the span of ctx:
\* nowhere without a span, on the span when open, on a finished span else.
NoteOn == [none |-> "none", open |-> "onOpen", ended |-> "onEnded"]

(* failRequest(ctx, resp, code, body, err): write the status and the      *)
(* canned body, annotate the span of ctx and End it; the handler returns. *)
(* sp is the state of the span when failRequest runs.                     *)
FailRequest(r, code, sp) ==
  /\ resp' = [resp EXCEPT ![r] = code]
  /\ lost' = [lost EXCEPT ![r] = ~connOpen[r]]
  /\ note' = [note EXCEPT ![r] = NoteOn[sp]]
  /\ span' = [span EXCEPT ![r] = IF sp = "none" THEN "none" ELSE "ended"]
  /\ stage' = [stage EXCEPT ![r] = "done"]

\* Mutant: the success status is http.StatusCreated.
RespondCreated(r) ==
  /\ resp' = [resp EXCEPT ![r] = 201]
  /\ lost' = [lost EXCEPT ![r] = ~connOpen[r]]
  /\ stage' = [stage EXCEPT ![r] = "done"]

(* resp.WriteHeader(202); resp.Write(okRespBody); the handler returns.    *)
RespondAccepted(r) ==
  /\ resp' = [resp EXCEPT ![r] = 202]
  /\ lost' = [lost EXCEPT ![r] = ~connOpen[r]]
  /\ stage' = [stage EXCEPT ![r] = "done"]

(* The empty-body shortcut: resp.Write(okRespBody) without WriteHeader    *)
(* (status 200) and return, leaving the span of ctx as it is.             *)
RespondEmpty(r, sp) ==
  /\ resp' = [resp EXCEPT ![r] = 200]
  /\ lost' = [lost EXCEPT ![r] = ~connOpen[r]]
  /\ UNCHANGED note
  /\ stage' = [stage EXCEPT ![r] = "done"]
  /\ span' = [span EXCEPT ![r] = sp]

\* Mutant: the consumer checks of the decode loop are missing.
RoutedWithoutCheck(tok) == TRUE

\* The receiver has a consumer for the decoded event's route.
Routed(tok) == IF IsMetric(tok) THEN config.mode = "metrics" ELSE config.mode = "logs"

\* Mutant: the consumer's error is ignored and 202 written.
AnswerIgnoresError(r, ok, spOk, spErr) ==
  RespondAccepted(r) /\ span' = [span EXCEPT ![r] = spOk] /\ UNCHANGED note

(* The consumer's result: 202 and okRespBody, or failRequest 500 with the *)
(* consumer error.  spOk and spErr are the span after success and the     *)
(* span failRequest sees.                                                 *)
Answer(r, ok, spOk, spErr) ==
  IF ok THEN RespondAccepted(r) /\ span' = [span EXCEPT ![r] = spOk] /\ UNCHANGED note
        ELSE FailRequest(r, 500, spErr)

-----------------------------------------------------------------------------
(* Actions *)

Init ==
  /\ LifecycleInit
  /\ config \in [mode : Modes, passthrough : Passthrough]
  /\ in = [r \in Req |-> NoRequest]
  /\ stage = [r \in Req |-> "idle"]
  /\ connGen = [r \in Req |-> 0]
  /\ connOpen = [r \in Req |-> TRUE]
  /\ readable = [r \in Req |-> << >>]
  /\ pos = [r \in Req |-> 1]
  /\ events = [r \in Req |-> << >>]
  /\ resp = [r \in Req |-> 0]
  /\ lost = [r \in Req |-> FALSE]
  /\ span = [r \in Req |-> "none"]
  /\ note = [r \in Req |-> "none"]
  /\ sent = << >>

(* A server accepts r's connection and runs handleReq up to the decode    *)
(* loop: StartMetricsOp (metrics route only), the path, method, encoding  *)
(* checks, gzip.NewReader, and the empty-body shortcut (resp.Write without *)
(* WriteHeader: status 200, no failRequest).                              *)
HandleReq(r) ==
  /\ stage[r] = "idle"
  /\ \E g \in Served, i \in Requests :
       LET sp == IF config.mode = "metrics" THEN "open" ELSE "none"
       IN
       /\ Accepting(g)
       /\ in' = [in EXCEPT ![r] = i]
       /\ connGen' = [connGen EXCEPT ![r] = g]
       /\ readable' = [readable EXCEPT ![r] = i.body]
       /\ CASE i.path # "match" -> FailRequest(r, 404, sp)
            [] i.method # "POST" -> FailRequest(r, 400, sp)
            [] i.enc \notin {"", "gzip"} -> FailRequest(r, 415, sp)
            [] i.enc = "gzip" /\ ~i.gzipOK -> FailRequest(r, 400, sp)
            [] i.clenZero -> RespondEmpty(r, sp)
            [] OTHER ->
                 /\ stage' = [stage EXCEPT ![r] = "decoding"]
                 /\ span' = [span EXCEPT ![r] = sp]
                 /\ UNCHANGED <<resp, lost, note>>
  /\ UNCHANGED <<lifecycleVars, config, connOpen, pos, events, sent>>

(* One iteration of `for dec.More()`: Decode the next object, reject it   *)
(* when malformed or when its route has no consumer, else append it.      *)
DecodeNext(r) ==
  /\ stage[r] = "decoding"
  /\ More(r)
  /\ LET tok == readable[r][pos[r]] IN
     \/ /\ tok = "bad"
        /\ FailRequest(r, 400, span[r])
        /\ UNCHANGED <<pos, events>>
     \/ /\ tok # "bad"
        /\ ~Routed(tok)
        /\ FailRequest(r, 400, span[r])
        /\ UNCHANGED <<pos, events>>
     \/ /\ tok # "bad"
        /\ Routed(tok)
        /\ events' = [events EXCEPT ![r] = Append(@, tok)]
        /\ pos' = [pos EXCEPT ![r] = @ + 1]
        /\ UNCHANGED <<stage, resp, lost, span, note>>
  /\ UNCHANGED <<lifecycleVars, config, in, connGen, connOpen, readable, sent>>

(* The loop has ended (dec.More() is false): consumeLogs or consumeMetrics *)
(* converts the events, calls the consumer and answers.  consumeLogs      *)
(* answers 400 when splunkHecToLogData fails; consumeMetrics discards the *)
(* converter's second result (md, _ :=), forwards what it converted, and  *)
(* ends the obsreport span (EndMetricsOp) before it looks at the          *)
(* consumer's result.                                                     *)
Consume(r) ==
  /\ stage[r] = "decoding"
  /\ ~More(r)
  /\ LET batch(evs, ok) == [req |-> r, kind |-> config.mode, events |-> evs,
                            token |-> ResourceToken(r), accepted |-> ok]
     IN
     \/ /\ config.mode = "logs"
        /\ events[r] # << >>
        /\ FailRequest(r, 400, span[r])
        /\ UNCHANGED sent
     \/ /\ config.mode = "logs"
        /\ \E ok \in BOOLEAN :
             /\ sent' = Append(sent, batch(events[r], ok))
             /\ Answer(r, ok, span[r], span[r])
     \/ /\ config.mode = "metrics"
        /\ \E ok \in BOOLEAN :
             /\ sent' = Append(sent, batch(MetricsConverted(events[r]), ok))
             /\ Answer(r, ok, "ended", "ended")
  /\ UNCHANGED <<lifecycleVars, config, in, connGen, connOpen, readable, pos, events>>

\* Mutant: Close closes the listener but not the active connections.
ReceiverShutdownListenerOnly == Shutdown /\ UNCHANGED reqVars

(* Shutdown: r.server.Close() also closes every active connection of the  *)
(* server.  A handler still in its decode loop keeps running; what it has *)
(* not yet buffered of the body becomes a read error.                     *)
ReceiverShutdown ==
  LET active == {r \in Req : stage[r] # "idle" /\ connGen[r] = gen /\ connOpen[r]}
      cutting == {r \in active : stage[r] = "decoding"}
  IN
  /\ Shutdown
  /\ connOpen' = [r \in Req |-> connOpen[r] /\ r \notin active]
  /\ \E cut \in [cutting -> 0..MaxBody + 1] :
       /\ \A r \in cutting : pos[r] - 1 <= cut[r] /\ cut[r] <= Len(readable[r])
       /\ readable' = [r \in Req |->
                         IF r \in cutting
                           THEN SubSeq(readable[r], 1, cut[r]) \o << "ioerr" >>
                           ELSE readable[r]]
  /\ UNCHANGED <<config, in, stage, connGen, pos, events, resp, lost, span, note, sent>>

\* Every request that arrived has been answered and the receiver has stopped.
Quiescent == Stopped /\ \A r \in Req : stage[r] # "decoding"

Next ==
  \/ Start /\ UNCHANGED reqVars
  \/ ReceiverShutdown
  \/ \E g \in Served :
       (ServeBegin(g) \/ ServeFail(g) \/ ServeReturn(g)) /\ UNCHANGED reqVars
  \/ \E r \in Req : HandleReq(r) \/ DecodeNext(r) \/ Consume(r)
  \/ Quiescent /\ UNCHANGED vars

(* The Serve goroutines are fair as in HecLifecycle.  A handler decodes   *)
(* on its own only once its connection is closed: what was not buffered   *)
(* is then a read error, so no byte from the client is awaited.  While    *)
(* the connection is open each Decode waits for the client's bytes, and   *)
(* the server sets no ReadTimeout (lines 169-170), so that step gets no   *)
(* fairness.  Once dec.More() is false the body is no longer read, and    *)
(* the consumer call returns by the consumer contract.  Clients, the host *)
(* and Accept failures get no fairness.                                   *)
Fairness ==
  /\ \A g \in Served : /\ WF_vars(ServeBegin(g) /\ UNCHANGED reqVars)
                       /\ WF_vars(ServeReturn(g) /\ UNCHANGED reqVars)
  /\ \A r \in Req : WF_vars(~connOpen[r] /\ DecodeNext(r)) /\ WF_vars(Consume(r))

Spec == Init /\ [][Next]_vars /\ Fairness

-----------------------------------------------------------------------------
(* Properties *)

\* The batches sent on behalf of request r.
SentFor(r) == {i \in DOMAIN sent : sent[i].req = r}

(* The response a request gets tells the sender what became of its data:  *)
(* 202 exactly when one batch of it was accepted by the consumer, 500     *)
(* exactly when one was rejected, and any other status only when nothing  *)
(* was forwarded (no partial forwarding on a rejected request).           *)
OutcomeMatchesForwarding ==
  \A r \in Req :
    /\ Cardinality(SentFor(r)) <= 1
    /\ SentFor(r) # {} => stage[r] = "done"
    /\ stage[r] = "done" =>
         /\ resp[r] = 202 <=> \E i \in SentFor(r) : sent[i].accepted
         /\ resp[r] = 500 <=> \E i \in SentFor(r) : ~sent[i].accepted

(* Spec 3 invariant: a batch goes to the consumer of the receiver's route *)
(* and holds only events of that route (a logs batch never a metric      *)
(* event and vice versa); its resource token is the HEC token of its own *)
(* request, and only when passthrough is on.                             *)
BatchMatchesRoute ==
  \A i \in DOMAIN sent :
    LET b == sent[i] IN
    /\ b.kind = config.mode
    /\ \A k \in DOMAIN b.events : IsMetric(b.events[k]) <=> b.kind = "metrics"
    /\ b.token = ResourceToken(b.req)

(* With no ReadTimeout, a client that stops sending its body holds its   *)
(* handler goroutine in dec.More() for as long as the connection lives.   *)
(* Shutdown bounds that: once the server of r's connection is closed,     *)
(* r's handler eventually returns, because Close also closes the active   *)
(* connections and the stalled read fails.                                *)
ShutdownUnblocksHandlers ==
  \A r \in Req : (stage[r] = "decoding" /\ closed[connGen[r]]) ~> stage[r] = "done"

(* Refinement.  The abstract request is the one the handler read: its body *)
(* is readable[r], which Shutdown may have cut short and ended in a read  *)
(* error.  A request becomes visible to HecAtomic when its handler is done *)
(* with it; every other step of HecReceiver is a stuttering step of it.   *)
ReadRequests ==
  Requests \cup UNION {{[i EXCEPT !.body = SubSeq(i.body, 1, c) \o <<"ioerr">>] :
                         c \in 0..Len(i.body)} : i \in Requests}

Atomic == INSTANCE HecAtomic WITH
  Requests <- ReadRequests,
  in <- [r \in Req |-> IF stage[r] = "done" THEN [in[r] EXCEPT !.body = readable[r]]
                                           ELSE NoRequest]

(* However handlers interleave with each other and with Shutdown, and     *)
(* wherever the handler is split at its blocking points, every request is *)
(* answered, and its batch forwarded, as if handleReq had run atomically  *)
(* on the body it read.                                                   *)
AtomicRefinement == Atomic!AtomicSpec

-----------------------------------------------------------------------------
(* Claims of spec.md that the code does not keep (checked as violations) *)

\* The request got past the path, method and encoding checks.
WellAddressed(r) ==
  /\ in[r] # NoRequest
  /\ in[r].path = "match" /\ in[r].method = "POST" /\ in[r].enc \in {"", "gzip"}

(* Spec 4.2 step 4 and 8: a well-addressed request with Content-Length 0 *)
(* is answered 200 before any transport decoding is attempted, gzip or   *)
(* not.                                                                   *)
EmptyBodyAnswered200 ==
  \A r \in Req : stage[r] = "done" /\ WellAddressed(r) /\ in[r].clenZero
                   => resp[r] = 200

(* Spec 4.2 steps 6-7 and 7(b): a body is forwarded all or nothing; a     *)
(* malformed object or a corrupt compression stream rejects the request, *)
(* so a forwarded batch holds every object of the body that was sent.    *)
AllOrNothing ==
  \A i \in DOMAIN sent : sent[i].events = in[sent[i].req].body

(* Spec 4.2 side effects: every terminal step annotates the request span *)
(* and closes it; so on the metrics route, whose handler opens a span,   *)
(* the span is ended once the response is written.                      *)
SpanEndedOnResponse ==
  config.mode = "metrics" => \A r \in Req : resp[r] # 0 => span[r] = "ended"

(* Spec 4.2 step 9: on a consumer failure the 500 status and the error   *)
(* are recorded on the request span (before it is closed).               *)
FailureStatusAnnotated ==
  config.mode = "metrics" => \A r \in Req : resp[r] = 500 => note[r] = "onOpen"

(* Spec 4.1 and 5: stop() closes only the listener; requests in flight   *)
(* run to completion, so their response reaches the sender.              *)
InFlightResponseDelivered ==
  \A r \in Req : resp[r] # 0 => ~lost[r]
=============================================================================
