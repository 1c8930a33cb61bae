---------------------------- MODULE HecLifecycle ----------------------------
(***************************************************************************)
(* Lifecycle of the Splunk HEC receiver                                    *)
(* (receiver/splunkhecreceiver/receiver.go, Start and Shutdown).           *)
(*                                                                         *)
(* Start binds a listener, replaces r.server by a fresh http.Server and    *)
(* launches a goroutine running server.Serve(ln); Shutdown calls           *)
(* r.server.Close().  Each http.Server that r.server has pointed to is a   *)
(* "generation": generation 0 is the server built by the constructor       *)
(* (never served), generation g > 0 the one built by the g-th successful   *)
(* Start.  The behaviour of net/http that this code relies on is modelled  *)
(* by what it does:                                                        *)
(*   - Serve closes its listener when it returns (defer l.Close());        *)
(*   - Serve on a server already closed returns ErrServerClosed at once;   *)
(*   - Close closes only the listeners Serve has begun tracking, so a      *)
(*     listener whose goroutine has not yet entered Serve stays bound;     *)
(*   - an Accept error after Close makes Serve return ErrServerClosed,     *)
(*     any other Accept error is returned as is.                           *)
(* Start and Shutdown are called by the host, one at a time.               *)
(***************************************************************************)
EXTENDS Naturals

CONSTANT MaxStarts  \* bound on the number of successful Start calls

ASSUME MaxStarts \in Nat \ {0}

Gens   == 0..MaxStarts      \* every server r.server may point to
Served == 1..MaxStarts      \* the servers built by Start

VARIABLES
  gen,          \* r.server: the generation of the current server
  closed,       \* closed[g]: Close has been called on server g
  listener,     \* listener[g]: state of the net.Listener bound by Start g
  serveLoop,    \* serveLoop[g]: the goroutine running server g's Serve
  fatal,        \* generations whose goroutine called host.ReportFatalError
  startResult   \* value returned by the last Start call

lifecycleVars == <<gen, closed, listener, serveLoop, fatal, startResult>>

LoopStates == {"none", "launched", "serving", "exitClosed", "exitFailed"}

LifecycleTypeOK ==
  /\ gen \in Gens
  /\ closed \in [Gens -> BOOLEAN]
  /\ listener \in [Served -> {"none", "open", "closed"}]
  /\ serveLoop \in [Served -> LoopStates]
  /\ fatal \subseteq Served
  /\ startResult \in {"none", "ok", "bindErr"}

\* The endpoint's port is held by some listener that is still open.
PortBound == \E g \in Served : listener[g] = "open"

\* Server g accepts new connections: its Serve loop runs and it is not closed.
Accepting(g) == g \in Served /\ serveLoop[g] = "serving" /\ ~closed[g]

LifecycleInit ==
  /\ gen = 0
  /\ closed = [g \in Gens |-> FALSE]
  /\ listener = [g \in Served |-> "none"]
  /\ serveLoop = [g \in Served |-> "none"]
  /\ fatal = {}
  /\ startResult = "none"

\* Mutant: a listener that binds even while the port is held (SO_REUSEPORT).
BindNeverFails == FALSE

\* ToListener() fails while the endpoint is still bound.
BindFails == PortBound

(* Start: bind, build the new server, launch the Serve goroutine.         *)
Start ==
  /\ gen < MaxStarts
  /\ \/ /\ BindFails
        /\ startResult' = "bindErr"
        /\ UNCHANGED <<gen, closed, listener, serveLoop, fatal>>
     \/ /\ ~BindFails
        /\ gen' = gen + 1
        /\ listener' = [listener EXCEPT ![gen + 1] = "open"]
        /\ serveLoop' = [serveLoop EXCEPT ![gen + 1] = "launched"]
        /\ startResult' = "ok"
        /\ UNCHANGED <<closed, fatal>>

\* Mutant: Serve on a closed server returns without closing ln.
ServeBeginLeaksListener(g) ==
  /\ serveLoop[g] = "launched"
  /\ serveLoop' = [serveLoop EXCEPT ![g] = IF closed[g] THEN "exitClosed" ELSE "serving"]
  /\ UNCHANGED <<gen, closed, listener, fatal, startResult>>

(* The goroutine enters server.Serve(ln).  On a closed server Serve       *)
(* returns ErrServerClosed at once, closing ln; nothing is reported.      *)
ServeBegin(g) ==
  /\ serveLoop[g] = "launched"
  /\ IF closed[g]
       THEN /\ serveLoop' = [serveLoop EXCEPT ![g] = "exitClosed"]
            /\ listener' = [listener EXCEPT ![g] = "closed"]
       ELSE /\ serveLoop' = [serveLoop EXCEPT ![g] = "serving"]
            /\ UNCHANGED listener
  /\ UNCHANGED <<gen, closed, fatal, startResult>>

(* Accept fails for a reason other than Close: Serve returns the error,   *)
(* closes ln, and the goroutine reports it to the host.                   *)
ServeFail(g) ==
  /\ Accepting(g)
  /\ serveLoop' = [serveLoop EXCEPT ![g] = "exitFailed"]
  /\ listener' = [listener EXCEPT ![g] = "closed"]
  /\ fatal' = fatal \cup {g}
  /\ UNCHANGED <<gen, closed, startResult>>

(* Accept fails because Close closed ln: Serve returns ErrServerClosed,   *)
(* which the goroutine does not report.                                   *)
ServeReturn(g) ==
  /\ serveLoop[g] = "serving"
  /\ closed[g]
  /\ serveLoop' = [serveLoop EXCEPT ![g] = "exitClosed"]
  /\ UNCHANGED <<gen, closed, listener, fatal, startResult>>

\* Mutant: a Close issued before Serve has begun is forgotten.
ShutdownLostBeforeServe ==
  /\ ~closed[gen]
  /\ closed' = [closed EXCEPT ![gen] = gen \notin Served \/ serveLoop[gen] # "launched"]
  /\ listener' = IF gen \in Served /\ serveLoop[gen] = "serving"
                   THEN [listener EXCEPT ![gen] = "closed"]
                   ELSE listener
  /\ UNCHANGED <<gen, serveLoop, fatal, startResult>>

(* Shutdown: r.server.Close() marks the current server closed and closes  *)
(* the listener its Serve tracks.  A second Close changes nothing.        *)
Shutdown ==
  /\ ~closed[gen]
  /\ closed' = [closed EXCEPT ![gen] = TRUE]
  /\ listener' = IF gen \in Served /\ serveLoop[gen] = "serving"
                   THEN [listener EXCEPT ![gen] = "closed"]
                   ELSE listener
  /\ UNCHANGED <<gen, serveLoop, fatal, startResult>>

LifecycleNext ==
  \/ Start
  \/ Shutdown
  \/ \E g \in Served : ServeBegin(g) \/ ServeFail(g) \/ ServeReturn(g)

\* Every Start has been used and every server is shut down with its Serve
\* loop returned: the receiver has stopped for good.
Stopped ==
  /\ gen = MaxStarts
  /\ closed[gen]
  /\ \A g \in Served : serveLoop[g] \in {"exitClosed", "exitFailed"}

\* The Go scheduler runs every runnable goroutine: the Serve goroutine
\* eventually enters Serve and returns once its listener is closed.
LifecycleFairness ==
  \A g \in Served : WF_lifecycleVars(ServeBegin(g)) /\ WF_lifecycleVars(ServeReturn(g))

LifecycleSpec ==
  /\ LifecycleInit
  /\ [][LifecycleNext \/ (Stopped /\ UNCHANGED lifecycleVars)]_lifecycleVars
  /\ LifecycleFairness

-----------------------------------------------------------------------------
(* Properties *)

(* Only the server r.server points to accepts connections, so Shutdown    *)
(* (which closes r.server only) can stop every server Start created.      *)
OnlyCurrentServerAccepts ==
  \A g \in Served : Accepting(g) => g = gen

(* After Shutdown of a server, its listening socket is eventually closed  *)
(* and the port released, whether or not Serve had begun.                 *)
ListenerEventuallyReleased ==
  \A g \in Served : closed[g] ~> listener[g] # "open"

(* Spec 4.1: stop() closes the listening socket, i.e. once Shutdown has   *)
(* returned, the listener of the server it closed is not open.            *)
ShutdownReleasesListener ==
  \A g \in Served : closed[g] => listener[g] # "open"
=============================================================================
