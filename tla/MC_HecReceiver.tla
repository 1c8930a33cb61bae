---------------------------- MODULE MC_HecReceiver ----------------------------
(* Two concurrent requests against a receiver that is started, shut down  *)
(* and restarted: a Shutdown can land while a handler is in its decode    *)
(* loop or before the Serve goroutine has begun.  Header checks are       *)
(* covered by MC_HecRequest, so the requests here are well-formed POSTs. *)
EXTENDS HecReceiver

CONSTANTS r1, r2

MCReq        == {r1, r2}
MCPaths      == {"match"}
MCMethods    == {"POST"}
MCEncodings  == {""}
MCBodyTokens == {"log", "metric"}
MCMaxBody    == 2
MCHecTokens  == {"none"}
MCModes      == {"logs", "metrics"}
MCMaxStarts  == 2
=============================================================================
