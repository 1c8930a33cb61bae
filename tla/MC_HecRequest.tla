---------------------------- MODULE MC_HecRequest ----------------------------
(* One request against one server, over every header combination the     *)
(* handler distinguishes and every body of up to two tokens, on both      *)
(* routes and with passthrough on and off.                                *)
EXTENDS HecReceiver

CONSTANTS r1

MCReq        == {r1}
MCPaths      == {"match", "other"}
MCMethods    == {"POST", "GET"}
MCEncodings  == {"", "gzip", "deflate"}
MCBodyTokens == {"log", "metric", "badvalue", "bad", "close", "ioerr"}
MCMaxBody    == 2
MCHecTokens  == {"none", "tok123"}
MCModes      == {"logs", "metrics"}
MCMaxStarts  == 1
=============================================================================
