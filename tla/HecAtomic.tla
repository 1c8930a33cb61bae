------------------------------ MODULE HecAtomic ------------------------------
(***************************************************************************)
(* What the Splunk HEC receiver promises its senders, as an abstract       *)
(* specification: each request is handled in one atomic step, on the body *)
(* as the handler read it, and the response and the forwarded batch are   *)
(* the result of handleReq's checks followed by the decode loop over that *)
(* body.  Handlers, the Serve goroutines, Start and Shutdown are not       *)
(* visible here.  HecReceiver, where handlers interleave with each other   *)
(* and with Shutdown, is shown to implement this module.                   *)
(***************************************************************************)
EXTENDS Naturals, Sequences

CONSTANTS
  Req,          \* the requests (model values)
  Requests,     \* the requests with their body as the handler reads it
  HecTokens,    \* values of the HEC token header; "none" when absent
  Modes,        \* receiver routes: subset of {"logs", "metrics"}
  Passthrough,  \* values of config.AccessTokenPassthrough
  NoRequest     \* a request not yet handled

VARIABLES
  config,   \* [mode, passthrough]
  in,       \* in[r]: request r once handled, NoRequest before
  resp,     \* resp[r]: the status r got (0: none yet)
  sent      \* the batches handed to the consumer, in order

avars == <<config, in, resp, sent>>

\* The decoded event has a consumer on this receiver (lines 235-243).
Routed(tok) ==
  IF tok \in {"metric", "badvalue"} THEN config.mode = "metrics" ELSE config.mode = "logs"

\* What the route's converter keeps of the decoded events (lines 266, 281).
Converted(evs) ==
  IF config.mode = "metrics" THEN SelectSeq(evs, LAMBDA tok : tok = "metric") ELSE evs

(* `for dec.More() { Decode; route check; append }` over the body from    *)
(* token k on: the loop stops without error at EOF, on a read error and on *)
(* a closing delimiter; a malformed or unrouted object gives 400.         *)
RECURSIVE Decode(_, _, _)
Decode(body, k, evs) ==
  IF k > Len(body) \/ body[k] \in {"close", "ioerr"}
    THEN [status |-> 0, events |-> evs]
  ELSE IF body[k] = "bad" \/ ~Routed(body[k])
    THEN [status |-> 400, events |-> evs]
  ELSE Decode(body, k + 1, Append(evs, body[k]))

(* handleReq's status before the consumer is called, 0 when the events are *)
(* handed on: the header checks, the empty-body shortcut, the decode loop, *)
(* and consumeLogs' conversion failure (convOK) on a non-empty batch.      *)
Verdict(i, convOK) ==
  CASE i.path # "match"                 -> 404
    [] i.method # "POST"                -> 400
    [] i.enc \notin {"", "gzip"}        -> 415
    [] i.enc = "gzip" /\ ~i.gzipOK      -> 400
    [] i.clenZero                       -> 200
    [] Decode(i.body, 1, <<>>).status # 0 -> 400
    [] config.mode = "logs" /\ Decode(i.body, 1, <<>>).events # <<>> /\ ~convOK -> 400
    [] OTHER                            -> 0

\* createResourceCustomizer: the token the batch carries.
TokenOf(i) == IF config.passthrough /\ i.hecToken # "none" THEN i.hecToken ELSE "none"

AtomicInit ==
  /\ config \in [mode : Modes, passthrough : Passthrough]
  /\ in = [r \in Req |-> NoRequest]
  /\ resp = [r \in Req |-> 0]
  /\ sent = <<>>

(* Request r is handled at once: rejected with the verdict's status, or    *)
(* its events forwarded as one batch and answered 202 or 500 by the        *)
(* consumer's result ok.  The request i is any of Requests; it is named   *)
(* by its value in the next state.                                         *)
Handle(r) ==
  /\ in[r] = NoRequest
  /\ in' = [in EXCEPT ![r] = in'[r]]
  /\ in'[r] \in Requests
  /\ \E ok, convOK \in BOOLEAN :
       LET i == in'[r] IN
       IF Verdict(i, convOK) # 0
         THEN resp' = [resp EXCEPT ![r] = Verdict(i, convOK)] /\ UNCHANGED sent
         ELSE /\ sent' = Append(sent, [req |-> r, kind |-> config.mode,
                                       events |-> Converted(Decode(i.body, 1, <<>>).events),
                                       token |-> TokenOf(i), accepted |-> ok])
              /\ resp' = [resp EXCEPT ![r] = IF ok THEN 202 ELSE 500]
  /\ UNCHANGED config

AtomicNext == \E r \in Req : Handle(r)

AtomicSpec == AtomicInit /\ [][AtomicNext]_avars
=============================================================================
