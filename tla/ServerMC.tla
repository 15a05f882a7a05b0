------------------------------- MODULE ServerMC -------------------------------
(***************************************************************************)
(* TLC instance of a server's whole life: ServerStart until Run waits for  *)
(* a signal with both listeners serving, then Shutdown.  A start that ends *)
(* otherwise (an error, a signal before) is followed to its own end.       *)
(***************************************************************************)
EXTENDS ServerStartMC, ShutdownMC

serverVars == <<startVars, lifeVars>>

AtRest == phase = "up" /\ boots = 1 /\ InFlight(Kind) = {} /\ \A s \in Store : mem[s] = 0

Serving ==
  /\ grpcOn /\ \A l \in Listener : at[l] = "serve"
  /\ start = "nil" /\ combiner = "ended" /\ run = "signal" /\ ~sigChan
  /\ startErr = <<>> /\ errChan = <<>>

ServerInit == StartInit /\ LifeInit

ServerNext ==
  \/ AtRest /\ StartNext /\ UNCHANGED lifeVars
  \/ Serving /\ LifeNext /\ UNCHANGED startVars

\* Neither part has a fair action that can be taken while the other one moves.
ServerSpec ==
  /\ ServerInit /\ [][ServerNext]_serverVars
  /\ StartFairness /\ ServerRuns /\ ClientsLeave
=============================================================================
