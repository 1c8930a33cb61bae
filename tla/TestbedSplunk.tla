---------------------------- MODULE TestbedSplunk ----------------------------
(***************************************************************************)
(* The testbed's SplunkHECDataReceiver (testbed/datareceivers/splunk.go)   *)
(* composed with the HEC receiver lifecycle of HecLifecycle.               *)
(*                                                                         *)
(* Every Start creates a new splunkReceiver with the factory, stores it in *)
(* sr.receiver and starts it; Stop shuts down whatever sr.receiver holds.  *)
(* All receivers bind the same port.  A receiver whose Start failed to     *)
(* bind keeps the server built by its constructor, which was never served; *)
(* it is the server 0 of HecLifecycle, whose Close changes nothing.  So    *)
(* gen is the server of the receiver sr.receiver holds.  The endpoint is  *)
(* never empty and the harness passes a consumer, so CreateLogsReceiver   *)
(* does not fail.  The harness alternates Start and Stop, starting with   *)
(* Start (a DataReceiver is started, then stopped).                        *)
(***************************************************************************)
EXTENDS HecLifecycle

CONSTANT MaxCalls   \* bound on the number of Start and Stop calls

VARIABLES
  recv,    \* sr.receiver is set
  built,   \* the servers built by successful Starts so far
  last,    \* the harness's last call: "none", "start" or "stop"
  calls    \* the calls made so far

tbVars == <<recv, built, last, calls>>
vars == <<lifecycleVars, tbVars>>

TbInit ==
  /\ LifecycleInit
  /\ recv = FALSE
  /\ built = 0
  /\ last = "none"
  /\ calls = 0

(* Start (lines 46-60): sr.receiver is replaced by a new receiver, then   *)
(* receiver.Start binds the port and launches its Serve goroutine, or     *)
(* fails to bind and leaves the new receiver with its unserved server.    *)
TbStart ==
  /\ calls < MaxCalls
  /\ last # "start"
  /\ recv' = TRUE
  /\ \/ /\ BindFails
        /\ gen' = 0
        /\ startResult' = "bindErr"
        /\ UNCHANGED <<closed, listener, serveLoop, fatal, built>>
     \/ /\ ~BindFails
        /\ built < MaxStarts
        /\ built' = built + 1
        /\ gen' = built + 1
        /\ listener' = [listener EXCEPT ![built + 1] = "open"]
        /\ serveLoop' = [serveLoop EXCEPT ![built + 1] = "launched"]
        /\ startResult' = "ok"
        /\ UNCHANGED <<closed, fatal>>
  /\ last' = "start"
  /\ calls' = calls + 1

(* Stop (lines 63-65): sr.receiver.Shutdown, i.e. Close of the server of  *)
(* the receiver sr.receiver holds; closing a closed server does nothing.  *)
TbStop ==
  /\ calls < MaxCalls
  /\ last = "start"
  /\ recv
  /\ \/ Shutdown
     \/ closed[gen] /\ UNCHANGED lifecycleVars
  /\ last' = "stop"
  /\ calls' = calls + 1
  /\ UNCHANGED <<recv, built>>

\* The harness has made all its calls; the Serve goroutines still run.
Finished == calls = MaxCalls /\ \A g \in Served : serveLoop[g] # "launched"

TbNext ==
  \/ TbStart
  \/ TbStop
  \/ \E g \in Served : (ServeBegin(g) \/ ServeFail(g) \/ ServeReturn(g)) /\ UNCHANGED tbVars
  \/ Finished /\ UNCHANGED vars

TbSpec ==
  /\ TbInit
  /\ [][TbNext]_vars
  /\ \A g \in Served : /\ WF_vars(ServeBegin(g) /\ UNCHANGED tbVars)
                       /\ WF_vars(ServeReturn(g) /\ UNCHANGED tbVars)

-----------------------------------------------------------------------------
(* Properties *)

(* After the harness calls Stop, the port is eventually free, even when   *)
(* Stop ran before the Serve goroutine entered Serve or when the receiver *)
(* sr.receiver holds never bound the port.                                *)
PortFreedAfterStop ==
  last = "stop" ~> ~PortBound

(* "Stop the receiver" (line 62): Stop reaches every server that accepts  *)
(* connections, i.e. only the server of the receiver in sr.receiver       *)
(* accepts, although a Start that fails to bind replaces sr.receiver by a *)
(* receiver whose server never served.                                    *)
StopReachesAcceptingServer ==
  \A g \in Served : Accepting(g) => g = gen
=============================================================================
