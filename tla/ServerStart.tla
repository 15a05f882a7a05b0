------------------------------ MODULE ServerStart ------------------------------
(***************************************************************************)
(* Server.Start and the waits of Server.Run: one goroutine per listener, a *)
(* combiner that waits for both of them, Start's select, and Run's two     *)
(* selects.  Channels that are only ever closed are Booleans; startErr and *)
(* errChan are sequences, one entry per goroutine that sent to it.         *)
(***************************************************************************)
EXTENDS Naturals, Sequences

CONSTANT GRPCOn   \* the configurations of interest of config.GRPCPort > 0

ASSUME ConfigAssumption == GRPCOn \subseteq BOOLEAN

Listener == {"http", "grpc"}

VARIABLES
  grpcOn,    \* config.GRPCPort > 0
  at,        \* listener goroutines: "listen", "bound", "failed", "serve", "report", "ended"
  refused,   \* the listeners whose bind failed
  ready,     \* httpReady and grpcReady, closed or not
  startErr,  \* the buffered channel of startup errors
  combiner,  \* "http", "grpc", "close", "tell", "ended"
  combined,  \* combinedReady is closed
  start,     \* Start: "select", "nil" or "error"
  readyCh,   \* the caller's channel is closed
  errChan,   \* Run's channel
  sigChan,   \* a signal has arrived
  run        \* Run: "ready", "signal", "shutdown", "failed"

startVars == <<grpcOn, at, refused, ready, startErr, combiner, combined, start, readyCh,
               errChan, sigChan, run>>

StartInit ==
  /\ grpcOn \in GRPCOn
  /\ at = [l \in Listener |-> "listen"]
  /\ refused = {}
  /\ ready = [l \in Listener |-> FALSE]
  /\ startErr = <<>> /\ errChan = <<>>
  /\ combiner = "http" /\ combined = FALSE
  /\ start = "select" /\ readyCh = FALSE
  /\ sigChan = FALSE /\ run = "ready"

callers == <<combiner, combined, start, readyCh, errChan, sigChan, run>>

----------------------------------------------------------------------------
(* The listener goroutines. *)

\* With gRPC off its goroutine only closes grpcReady.
Disabled(l) == l = "grpc" /\ ~grpcOn

Listen(l) ==
  /\ at[l] = "listen" /\ ~Disabled(l)
  /\ \/ at' = [at EXCEPT ![l] = "bound"] /\ UNCHANGED refused
     \/ at' = [at EXCEPT ![l] = "failed"] /\ refused' = refused \cup {l}
  /\ UNCHANGED <<grpcOn, ready, startErr, callers>>

\* After the ready channel: serving, or reporting the error, or nothing to do.
AfterClose(c) == CASE c = "bound" -> "serve" [] c = "failed" -> "report" [] c = "listen" -> "ended"

\* Mutant: a failed bind leaves the channel open.
CloseReadyIfBound(l) ==
  /\ at[l] \in {"bound", "failed"} \/ (at[l] = "listen" /\ Disabled(l))
  /\ ready' = [ready EXCEPT ![l] = at[l] # "failed"]
  /\ at' = [at EXCEPT ![l] = AfterClose(@)]
  /\ UNCHANGED <<grpcOn, refused, startErr, callers>>

\* The ready channel is closed whatever the outcome of the bind.
CloseReady(l) ==
  /\ at[l] \in {"bound", "failed"} \/ (at[l] = "listen" /\ Disabled(l))
  /\ ready' = [ready EXCEPT ![l] = TRUE]
  /\ at' = [at EXCEPT ![l] = AfterClose(@)]
  /\ UNCHANGED <<grpcOn, refused, startErr, callers>>

\* Serve returns an error (a shutdown's ErrServerClosed is not one).
ServeFails(l) ==
  /\ at[l] = "serve"
  /\ at' = [at EXCEPT ![l] = "report"]
  /\ UNCHANGED <<grpcOn, refused, ready, startErr, callers>>

\* Mutant: one slot, for the first error.
SlotForFirst == 1

StartErrSize == 2

Report(l) ==
  /\ at[l] = "report" /\ Len(startErr) < StartErrSize
  /\ startErr' = Append(startErr, l)
  /\ at' = [at EXCEPT ![l] = "ended"]
  /\ UNCHANGED <<grpcOn, refused, ready, callers>>

----------------------------------------------------------------------------
(* The combiner, Start and Run. *)

listeners == <<grpcOn, at, refused, ready>>

Combine ==
  /\ \/ combiner = "http" /\ ready["http"] /\ combiner' = "grpc" /\ UNCHANGED <<combined, readyCh>>
     \/ combiner = "grpc" /\ ready["grpc"] /\ combiner' = "close" /\ UNCHANGED <<combined, readyCh>>
     \/ combiner = "close" /\ combiner' = "tell" /\ combined' = TRUE /\ UNCHANGED readyCh
     \/ combiner = "tell" /\ combiner' = "ended" /\ readyCh' = TRUE /\ UNCHANGED combined
  /\ UNCHANGED <<listeners, startErr, start, errChan, sigChan, run>>

\* Start's select: either case may be taken when both are ready.
StartNil ==
  /\ start = "select" /\ combined
  /\ start' = "nil"
  /\ UNCHANGED <<listeners, startErr, combiner, combined, readyCh, errChan, sigChan, run>>

\* Run's goroutine passes the error on to errChan.
StartError ==
  /\ start = "select" /\ startErr # <<>>
  /\ startErr' = Tail(startErr)
  /\ start' = "error"
  /\ errChan' = Append(errChan, Head(startErr))
  /\ UNCHANGED <<listeners, combiner, combined, readyCh, sigChan, run>>

Signal ==
  /\ ~sigChan
  /\ sigChan' = TRUE
  /\ UNCHANGED <<listeners, startErr, combiner, combined, start, readyCh, errChan, run>>

RunReady ==
  /\ run = "ready" /\ readyCh
  /\ run' = "signal"
  /\ UNCHANGED <<listeners, startErr, combiner, combined, start, readyCh, errChan, sigChan>>

RunSignalled ==
  /\ run = "signal" /\ sigChan
  /\ run' = "shutdown"
  /\ UNCHANGED <<listeners, startErr, combiner, combined, start, readyCh, errChan, sigChan>>

\* Mutant: an error is looked for only while waiting for readiness.
RunFailsWhileStarting ==
  /\ run = "ready" /\ errChan # <<>>
  /\ errChan' = Tail(errChan)
  /\ run' = "failed"
  /\ UNCHANGED <<listeners, startErr, combiner, combined, start, readyCh, sigChan>>

\* Either select of Run may take the error.
RunFails ==
  /\ run \in {"ready", "signal"} /\ errChan # <<>>
  /\ errChan' = Tail(errChan)
  /\ run' = "failed"
  /\ UNCHANGED <<listeners, startErr, combiner, combined, start, readyCh, sigChan>>

Goroutine(l) == Listen(l) \/ CloseReady(l) \/ Report(l)

StartNext ==
  \/ \E l \in Listener : Goroutine(l) \/ ServeFails(l)
  \/ Combine \/ StartNil \/ StartError
  \/ Signal \/ RunReady \/ RunSignalled \/ RunFails

(* Goroutines that can run do run; signals and Serve failures need not come. *)
StartFairness ==
  /\ \A l \in Listener : WF_startVars(Goroutine(l))
  /\ WF_startVars(Combine) /\ WF_startVars(StartNil \/ StartError)
  /\ WF_startVars(RunReady \/ RunSignalled \/ RunFails)

StartSpec == StartInit /\ [][StartNext]_startVars /\ StartFairness

----------------------------------------------------------------------------
(* startErr "is buffered so the goroutines never block after Start returns" *)
(* (server.go:260): a goroutine with an error to report always can, also    *)
(* when both fail and nobody receives any more.                             *)
SendersNeverBlock == \A l \in Listener : at[l] = "report" => Len(startErr) < StartErrSize

(* An error that Start returned ends Run, at whichever of its two selects   *)
(* it arrives: the caller's channel may have been closed just before.       *)
StartErrorEndsRun == start = "error" ~> run \in {"failed", "shutdown"}

(* Whichever listeners fail and in whatever order, Start returns and no     *)
(* goroutine of it is left waiting: closing the ready channel on a failed   *)
(* bind is what lets the combiner end (server.go:280, grpcserver.go:67).    *)
StartReturnsCombinerEnds == <>(start # "select") /\ <>(combiner = "ended")

(* Start "returns an error if either listener fails to bind before becoming *)
(* ready" (server.go:252): nil means that every enabled listener bound.     *)
NilMeansBound == start = "nil" => refused = {}
=============================================================================
