---------------------------- MODULE Server_proofs ----------------------------
(***************************************************************************)
(* The server's life.  Start's goroutines and its buffered channel, with   *)
(* gRPC on or off and whichever listeners fail, at start or later: no      *)
(* goroutine is left at a send, and Start returns nil only behind both     *)
(* ready channels.  And what an orderly exit leaves on disk, for any       *)
(* stores, any work in flight and any number of starts.                    *)
(***************************************************************************)
EXTENDS ServerStart, Shutdown, SequenceTheorems, TLAPS

----------------------------------------------------------------------------
(* Start. *)

AtPlace == {"listen", "bound", "failed", "serve", "report", "ended"}

StartTyped == /\ at \in [Listener -> AtPlace]
              /\ ready \in [Listener -> BOOLEAN]
              /\ startErr \in Seq(Listener)

(* A goroutine sends at most once, and ends with it: an error in the buffer *)
(* is of a goroutine that has none to send any more.                        *)
OneEach ==
  /\ \A i \in 1 .. Len(startErr) : at[startErr[i]] = "ended"
  /\ \A i, j \in 1 .. Len(startErr) : i # j => startErr[i] # startErr[j]

(* The ready channel of a listener is closed once, when its bind is over.   *)
ClosedAfterBind ==
  \A l \in Listener : ready[l] <=> at[l] \in {"serve", "report", "ended"}

(* The combiner is past a channel only when that is closed.                 *)
CombinerWaits ==
  /\ combiner \in {"http", "grpc", "close", "tell", "ended"}
  /\ combiner # "http" => ready["http"]
  /\ combiner \notin {"http", "grpc"} => ready["grpc"]
  /\ combined => combiner \in {"tell", "ended"}
  /\ readyCh => combiner = "ended"
  /\ start = "nil" => combined

StartInv == StartTyped /\ OneEach /\ ClosedAfterBind /\ CombinerWaits

LEMMA StartInitInv == StartInit => StartInv
BY DEF StartInit, StartInv, StartTyped, OneEach, ClosedAfterBind, CombinerWaits, AtPlace, Listener

(* A goroutine before its end is not in the buffer, which has a slot for    *)
(* each of the two: so there is one for it.                                 *)
LEMMA SlotLeft ==
  ASSUME StartTyped, OneEach, NEW l \in Listener, at[l] # "ended"
  PROVE  Len(startErr) < StartErrSize /\ \A i \in 1 .. Len(startErr) : startErr[i] # l
<1>1. Len(startErr) \in Nat /\ \A i \in 1 .. Len(startErr) : startErr[i] \in Listener \ {l}
  BY DEF StartTyped, OneEach
<1>2. ASSUME Len(startErr) >= 2
      PROVE  FALSE
  <2>1. 1 \in 1 .. Len(startErr) /\ 2 \in 1 .. Len(startErr)
    BY <1>1, <1>2
  <2>2. startErr[1] # startErr[2]
    BY <2>1 DEF OneEach
  <2>3. startErr[1] \in Listener \ {l} /\ startErr[2] \in Listener \ {l}
    BY <1>1, <2>1
  <2> QED BY <2>2, <2>3 DEF Listener
<1> QED BY <1>1, <1>2 DEF StartErrSize

(* A step of a listener that sends nothing, and is not over.                *)
LEMMA StartQuietStep ==
  ASSUME StartInv, NEW l \in Listener, at[l] # "ended",
         NEW p \in AtPlace, at' = [at EXCEPT ![l] = p], UNCHANGED startErr
  PROVE  OneEach'
<1>1. \A i \in 1 .. Len(startErr) : startErr[i] \in Listener /\ startErr[i] # l
  BY SlotLeft DEF StartInv, StartTyped
<1> QED BY <1>1 DEF StartInv, StartTyped, OneEach

LEMMA StartStep == StartInv /\ [StartNext]_startVars => StartInv'
<1> SUFFICES ASSUME StartInv, [StartNext]_startVars
             PROVE  StartInv'
  OBVIOUS
<1> USE DEF callers, listeners
<1>1. ASSUME NEW l \in Listener, Listen(l)
      PROVE  StartInv'
  <2>1. PICK p \in {"bound", "failed"} : at' = [at EXCEPT ![l] = p]
    BY <1>1 DEF Listen
  <2>2. OneEach'
    BY <1>1, <2>1, StartQuietStep DEF Listen, AtPlace
  <2>3. StartTyped' /\ ClosedAfterBind'
    BY <1>1, <2>1 DEF Listen, StartInv, StartTyped, ClosedAfterBind, AtPlace
  <2>4. CombinerWaits'
    BY <1>1 DEF Listen, StartInv, CombinerWaits
  <2> QED BY <2>2, <2>3, <2>4 DEF StartInv
<1>2. ASSUME NEW l \in Listener, CloseReady(l)
      PROVE  StartInv'
  <2>1. at[l] \in {"bound", "failed", "listen"}
    BY <1>2 DEF CloseReady
  <2>2. AfterClose(at[l]) \in {"serve", "report", "ended"}
    BY <2>1 DEF AfterClose
  <2>3. /\ at' = [at EXCEPT ![l] = AfterClose(at[l])] /\ ready' = [ready EXCEPT ![l] = TRUE]
        /\ UNCHANGED <<startErr, combiner, combined, readyCh, start>>
    BY <1>2 DEF CloseReady
  <2> HIDE DEF AfterClose
  <2>4. OneEach'
    BY <2>1, <2>2, <2>3, StartQuietStep DEF AtPlace
  <2>5. StartTyped' /\ ClosedAfterBind'
    BY <2>2, <2>3 DEF StartInv, StartTyped, ClosedAfterBind, AtPlace
  <2>6. CombinerWaits'
    BY <2>3 DEF StartInv, StartTyped, CombinerWaits, Listener
  <2> QED BY <2>4, <2>5, <2>6 DEF StartInv
<1>3. ASSUME NEW l \in Listener, ServeFails(l)
      PROVE  StartInv'
  <2>1. OneEach'
    BY <1>3, StartQuietStep DEF ServeFails, AtPlace
  <2>2. StartTyped' /\ ClosedAfterBind'
    BY <1>3 DEF ServeFails, StartInv, StartTyped, ClosedAfterBind, AtPlace
  <2>3. CombinerWaits'
    BY <1>3 DEF ServeFails, StartInv, CombinerWaits
  <2> QED BY <2>1, <2>2, <2>3 DEF StartInv
<1>4. ASSUME NEW l \in Listener, Report(l)
      PROVE  StartInv'
  <2>1. /\ startErr \in Seq(Listener) /\ startErr' = Append(startErr, l)
        /\ at' = [at EXCEPT ![l] = "ended"]
        /\ UNCHANGED <<ready, combiner, combined, readyCh, start>>
    BY <1>4 DEF Report, StartInv, StartTyped
  <2>2. \A i \in 1 .. Len(startErr) : startErr[i] \in Listener /\ startErr[i] # l
    BY <1>4, <2>1, SlotLeft DEF Report, StartInv
  <2>3. /\ startErr' \in Seq(Listener) /\ Len(startErr') = Len(startErr) + 1
        /\ \A i \in 1 .. Len(startErr) : startErr'[i] = startErr[i]
        /\ startErr'[Len(startErr) + 1] = l
    BY <2>1
  <2>4. OneEach'
    BY <2>1, <2>2, <2>3 DEF StartInv, StartTyped, OneEach
  <2>5. StartTyped' /\ ClosedAfterBind'
    BY <1>4, <2>1, <2>3 DEF Report, StartInv, StartTyped, ClosedAfterBind, AtPlace
  <2>6. CombinerWaits'
    BY <2>1 DEF StartInv, CombinerWaits
  <2> QED BY <2>4, <2>5, <2>6 DEF StartInv
<1>5. CASE Combine
  <2>1. UNCHANGED <<at, ready, startErr, start>>
    BY <1>5 DEF Combine
  <2>2. StartTyped' /\ OneEach' /\ ClosedAfterBind'
    BY <2>1 DEF StartInv, StartTyped, OneEach, ClosedAfterBind
  <2>3. CombinerWaits'
    BY <1>5 DEF Combine, StartInv, CombinerWaits
  <2> QED BY <2>2, <2>3 DEF StartInv
<1>6. CASE StartNil
  BY <1>6 DEF StartNil, StartInv, StartTyped, OneEach, ClosedAfterBind, CombinerWaits
<1>7. CASE StartError
  <2>1. /\ startErr \in Seq(Listener) /\ startErr # <<>> /\ startErr' = Tail(startErr)
        /\ UNCHANGED <<at, ready, combiner, combined, readyCh>> /\ start' = "error"
    BY <1>7 DEF StartError, StartInv, StartTyped
  <2>2. /\ startErr' \in Seq(Listener) /\ Len(startErr') = Len(startErr) - 1
        /\ \A i \in 1 .. Len(startErr') : startErr'[i] = startErr[i + 1]
    BY <2>1, HeadTailProperties
  <2>3. \A i \in 1 .. Len(startErr') : i + 1 \in 1 .. Len(startErr)
    BY <2>1, <2>2
  <2>4. OneEach'
    BY <2>1, <2>2, <2>3 DEF StartInv, OneEach
  <2>5. StartTyped' /\ ClosedAfterBind' /\ CombinerWaits'
    BY <2>1, <2>2 DEF StartInv, StartTyped, ClosedAfterBind, CombinerWaits
  <2> QED BY <2>4, <2>5 DEF StartInv
<1>8. CASE Signal \/ RunReady \/ RunSignalled \/ RunFails \/ UNCHANGED startVars
  <2>1. UNCHANGED <<at, ready, startErr, combiner, combined, readyCh, start>>
    BY <1>8 DEF Signal, RunReady, RunSignalled, RunFails, startVars
  <2> QED BY <2>1 DEF StartInv, StartTyped, OneEach, ClosedAfterBind, CombinerWaits
<1> QED BY <1>1, <1>2, <1>3, <1>4, <1>5, <1>6, <1>7, <1>8 DEF StartNext, Goroutine

(* The invariant of Start's goroutines holds in every reachable state.      *)
THEOREM StartInductive == StartSpec => []StartInv
BY StartInitInv, StartStep, PTL DEF StartSpec

----------------------------------------------------------------------------
(* A goroutine with an error to report can always send it, at startup or    *)
(* long after Start returned: the buffer is the "2" of server.go:260.       *)
THEOREM SendersGetThrough == StartSpec => []SendersNeverBlock
<1>1. StartInv => SendersNeverBlock
  BY SlotLeft DEF StartInv, SendersNeverBlock
<1> QED BY <1>1, StartInductive, PTL

(* Start returns nil, and the caller's channel is closed, only when the     *)
(* bind of each listener is over: bound, failed, or not asked for.          *)
THEOREM ReadyAfterBoth ==
  StartSpec => [](start = "nil" \/ readyCh =>
                    \A l \in Listener : ready[l] /\ at[l] \in {"serve", "report", "ended"})
<1>1. StartInv => (start = "nil" \/ readyCh =>
                     \A l \in Listener : ready[l] /\ at[l] \in {"serve", "report", "ended"})
  BY DEF StartInv, ClosedAfterBind, CombinerWaits, Listener
<1> QED BY <1>1, StartInductive, PTL

(* Where the error of a bind that failed is: not sent yet, in the buffer,   *)
(* or Start has returned one; and that one is in Run's channel until a      *)
(* select of Run has taken it.                                              *)
Accounted ==
  /\ \A l \in refused : \/ at[l] \in {"failed", "report"} \/ start = "error"
                        \/ \E i \in 1 .. Len(startErr) : startErr[i] = l
  /\ start = "error" /\ run # "failed" => errChan # <<>>
  /\ refused \subseteq Listener

LEMMA AccountedStep == StartInv /\ Accounted /\ [StartNext]_startVars => Accounted'
<1> SUFFICES ASSUME StartInv, Accounted, [StartNext]_startVars PROVE Accounted'
  OBVIOUS
<1> USE DEF callers, listeners, Accounted
<1>1. ASSUME NEW l \in Listener, Listen(l) PROVE Accounted'
  <2>1. UNCHANGED <<startErr, start, run, errChan>> /\ at[l] = "listen"
    BY <1>1 DEF Listen
  <2>2. CASE at' = [at EXCEPT ![l] = "bound"] /\ refused' = refused
    <3>1. \A k \in Listener \ {l} : at'[k] = at[k]
      BY <2>2 DEF StartInv, StartTyped
    <3> QED BY <2>1, <2>2, <3>1
  <2>3. CASE at' = [at EXCEPT ![l] = "failed"] /\ refused' = refused \cup {l}
    <3>1. at'[l] = "failed" /\ \A k \in Listener \ {l} : at'[k] = at[k]
      BY <2>3 DEF StartInv, StartTyped
    <3> QED BY <2>1, <2>3, <3>1
  <2> QED BY <1>1, <2>2, <2>3 DEF Listen
<1>2. ASSUME NEW l \in Listener, CloseReady(l) \/ ServeFails(l) PROVE Accounted'
  <2>1. UNCHANGED <<refused, startErr, start, run, errChan>>
    BY <1>2 DEF CloseReady, ServeFails
  <2>2. \A k \in Listener : at[k] \in {"failed", "report"} => at'[k] \in {"failed", "report"}
    BY <1>2 DEF CloseReady, ServeFails, AfterClose, StartInv, StartTyped
  <2> QED BY <2>1, <2>2
<1>3. ASSUME NEW l \in Listener, Report(l) PROVE Accounted'
  <2>1. /\ startErr \in Seq(Listener) /\ startErr' = Append(startErr, l)
        /\ at' = [at EXCEPT ![l] = "ended"]
        /\ UNCHANGED <<refused, start, run, errChan>>
    BY <1>3 DEF Report, StartInv, StartTyped
  <2>2. /\ Len(startErr') = Len(startErr) + 1 /\ Len(startErr) \in Nat
        /\ \A i \in 1 .. Len(startErr) : startErr'[i] = startErr[i]
        /\ startErr'[Len(startErr) + 1] = l
    BY <2>1
  <2>3. \A k \in Listener \ {l} : at'[k] = at[k]
    BY <2>1 DEF StartInv, StartTyped
  <2>4. /\ Len(startErr) + 1 \in 1 .. Len(startErr')
        /\ \A i \in 1 .. Len(startErr) : i \in 1 .. Len(startErr')
    BY <2>2
  <2> QED BY <2>1, <2>2, <2>3, <2>4
<1>4. CASE StartError
  BY <1>4 DEF StartError
<1>5. CASE Combine \/ StartNil \/ Signal \/ RunReady \/ RunSignalled \/ RunFails
  BY <1>5 DEF Combine, StartNil, Signal, RunReady, RunSignalled, RunFails
<1>6. CASE UNCHANGED startVars
  BY <1>6 DEF startVars
<1> QED BY <1>1, <1>2, <1>3, <1>4, <1>5, <1>6 DEF StartNext, Goroutine

(* No error of a bind is dropped, and the one that Start returned is not    *)
(* lost between the selects of Run: a server that failed to start and waits *)
(* for a signal still has the error before it.  Only a Start that returned  *)
(* nil leaves an error unread (in startErr, for good).                      *)
THEOREM BindErrorsAccounted == StartSpec => []Accounted
<1>1. StartInit => Accounted
  BY DEF StartInit, Accounted
<1> QED BY <1>1, AccountedStep, StartInductive, PTL DEF StartSpec

----------------------------------------------------------------------------
(* Shutdown. *)

Contents == {Absent} \cup {Full(n) : n \in Nat}

\* The types, and no snapshot in place is ahead of the memory.
Stores ==
  /\ mem \in [Store -> Nat]
  /\ disk \in [Store -> Contents]
  /\ \A s \in Store : disk[s].n <= mem[s]

\* HTTP is quiet once it is drained, and all is once services are closed.
Quiet ==
  /\ phase \in {"grpc", "save"} => \A w \in Work : work[w] # "http"
  /\ phase = "save" => \A w \in Work : work[w] = None
  /\ work \in [Work -> Kind \cup {None}]

\* A service that is being closed is still to be saved, being saved, or on disk.
Closing ==
  /\ pc # "next" => phase = "save" /\ saving \in Saved
  /\ pc = "written" => tmp = Full(mem[saving])
  /\ phase = "exited" => todo = {}
  /\ phase \in {"save", "exited"} =>
       \A s \in Saved \ failed :
         s \in todo \/ (pc # "next" /\ s = saving) \/ disk[s] = Full(mem[s])
  /\ pc \in {"next", "write", "written"}

LifeInv == Stores /\ Quiet /\ Closing

(* The initial state: nothing is in flight, nothing is on disk.             *)
LEMMA InvInit == LifeInit => LifeInv
BY DEF LifeInit, LifeInv, Stores, Quiet, Closing, Contents, Full, Absent, None, Kind

(* No step puts a snapshot in place that is ahead of the memory, or takes   *)
(* memory back below the snapshot.                                          *)
LEMMA StoresStep == ASSUME LifeInv, [LifeNext]_lifeVars PROVE Stores'
<1> USE DEF LifeInv, Stores
<1>1. ASSUME NEW w \in Work, Arrive(w) \/ Finish(w) PROVE Stores'
  BY <1>1 DEF Arrive, Finish, files
<1>2. ASSUME NEW w \in Work, Write(w) PROVE Stores'
  <2>1. PICK s \in Writes(work[w]) : mem' = [mem EXCEPT ![s] = mem[s] + 1]
    BY <1>2 DEF Write
  <2>2. disk' = disk
    BY <1>2 DEF Write, files
  <2>3. mem' \in [Store -> Nat]
    <3>1. s \in Store
      BY <2>1, ShutdownAssumption DEF Writes
    <3>2. mem[s] + 1 \in Nat
      BY <3>1
    <3> QED BY <2>1, <3>2
  <2>4. \A x \in Store : disk[x].n \in Nat
    BY DEF Contents, Full, Absent
  <2>5. \A x \in Store : disk'[x].n <= mem'[x]
    BY <2>1, <2>2, <2>4
  <2> QED BY <2>2, <2>3, <2>5
<1>3. CASE Signalled \/ HTTPDrained \/ HTTPTimesOut \/ GRPCDrained \/ Exit
  BY <1>3 DEF Signalled, HTTPDrained, HTTPTimesOut, GRPCDrained, Exit, files
<1>4. CASE SaveWrites \/ SaveFails \/ Kill \/ \E s \in Saved : SaveStarts(s)
  BY <1>4 DEF SaveWrites, SaveFails, Kill, SaveStarts
<1>5. CASE SaveRenames
  <2>1. saving \in Store /\ tmp = Full(mem[saving])
    BY <1>5, ShutdownAssumption DEF SaveRenames, Closing
  <2>2. disk' = [disk EXCEPT ![saving] = Full(mem[saving])] /\ mem' = mem
    BY <1>5, <2>1 DEF SaveRenames
  <2>3. disk' \in [Store -> Contents]
    BY <2>1, <2>2 DEF Contents
  <2>4. \A x \in Store : disk'[x].n <= mem'[x]
    BY <2>1, <2>2 DEF Full
  <2> QED BY <2>2, <2>3, <2>4
<1>6. CASE Restart
  <2>1. disk' = disk /\ mem' = [s \in Store |-> Load(disk[s])]
    BY <1>6 DEF Restart, files
  <2>2. \A s \in Store : Load(disk[s]) \in Nat /\ disk[s].n <= Load(disk[s])
    BY DEF Load, Contents, Full, Absent
  <2> QED BY <2>1, <2>2
<1>7. CASE UNCHANGED lifeVars
  BY <1>7 DEF lifeVars
<1> QED BY <1>1, <1>2, <1>3, <1>4, <1>5, <1>6, <1>7 DEF LifeNext, Save

(* No work arrives once a listener is closed, and none is left when the     *)
(* step after its drain begins.                                             *)
LEMMA QuietStep == ASSUME LifeInv, [LifeNext]_lifeVars PROVE Quiet'
<1> USE DEF LifeInv, Quiet
<1>1. ASSUME NEW w \in Work, Arrive(w) PROVE Quiet'
  <2>1. PICK k \in Kind : Accepts(k) /\ work' = [work EXCEPT ![w] = k]
    BY <1>1 DEF Arrive
  <2>2. phase' = phase
    BY <1>1 DEF Arrive
  <2>3. phase \notin {"grpc", "save"}
    BY <2>1 DEF Accepts
  <2> QED BY <2>1, <2>2, <2>3
<1>2. ASSUME NEW w \in Work, Finish(w) PROVE Quiet'
  BY <1>2 DEF Finish, None
<1>3. ASSUME NEW w \in Work, Write(w) PROVE Quiet'
  BY <1>3 DEF Write
<1>4. CASE Signalled \/ HTTPTimesOut \/ Kill
  BY <1>4 DEF Signalled, HTTPTimesOut, Kill
<1>5. CASE HTTPDrained
  BY <1>5 DEF HTTPDrained, InFlight
<1>6. CASE GRPCDrained
  <2>1. \A w \in Work : work[w] \notin {"http", "rpc", "stream"}
    BY <1>6 DEF GRPCDrained, InFlight
  <2>2. \A w \in Work : work[w] = None
    BY <2>1 DEF Kind
  <2> QED BY <1>6, <2>2 DEF GRPCDrained, None
<1>7. CASE Save \/ Exit
  BY <1>7 DEF Save, SaveWrites, SaveRenames, SaveFails, SaveStarts, Exit
<1>8. CASE Restart
  BY <1>8 DEF Restart
<1>9. CASE UNCHANGED lifeVars
  BY <1>9 DEF lifeVars
<1> QED BY <1>1, <1>2, <1>3, <1>4, <1>5, <1>6, <1>7, <1>8, <1>9 DEF LifeNext

(* Closing the services: one at a time, none forgotten, none written again. *)
LEMMA ClosingStep == ASSUME LifeInv, [LifeNext]_lifeVars PROVE Closing'
<1> USE DEF LifeInv, Closing
<1>1. ASSUME NEW w \in Work, Arrive(w) \/ Finish(w) PROVE Closing'
  BY <1>1 DEF Arrive, Finish, files
<1>2. ASSUME NEW w \in Work, Write(w) PROVE Closing'
  <2>1. phase \notin {"save", "exited"}
    BY <1>2 DEF Write, Quiet, Running
  <2> QED BY <1>2, <2>1 DEF Write, files
<1>3. CASE Signalled \/ HTTPDrained \/ HTTPTimesOut
  BY <1>3 DEF Signalled, HTTPDrained, HTTPTimesOut, files
<1>4. CASE GRPCDrained
  BY <1>4 DEF GRPCDrained
<1>5. ASSUME NEW s \in Saved, SaveStarts(s) PROVE Closing'
  BY <1>5 DEF SaveStarts
<1>6. CASE SaveWrites
  BY <1>6 DEF SaveWrites
<1>7. CASE SaveFails
  BY <1>7 DEF SaveFails
<1>8. CASE SaveRenames
  <2>1. saving \in Store /\ disk' = [disk EXCEPT ![saving] = Full(mem[saving])]
    BY <1>8, ShutdownAssumption DEF SaveRenames
  <2>2. ASSUME NEW s \in Saved \ failed
        PROVE s \in todo \/ disk'[s] = Full(mem[s])
    BY <1>8, <2>1, <2>2, ShutdownAssumption DEF SaveRenames, Stores
  <2> QED BY <1>8, <2>2 DEF SaveRenames
<1>9. CASE Exit
  BY <1>9 DEF Exit, files
<1>10. CASE Kill \/ Restart
  BY <1>10 DEF Kill, Restart, files, Running
<1>11. CASE UNCHANGED lifeVars
  BY <1>11 DEF lifeVars
<1> QED
  BY <1>1, <1>2, <1>3, <1>4, <1>5, <1>6, <1>7, <1>8, <1>9, <1>10, <1>11 DEF LifeNext, Save

(* The inductive invariant of the shutdown.                                 *)
THEOREM LifeInductive == LifeSpec => []LifeInv
<1>1. LifeInv /\ [LifeNext]_lifeVars => LifeInv'
  BY StoresStep, QuietStep, ClosingStep DEF LifeInv
<1> QED BY InvInit, <1>1, PTL DEF LifeSpec

(* After an orderly exit the snapshot of every service that was registered  *)
(* holds all its memory, unless its own save failed.                        *)
THEOREM ExitPersists == LifeSpec => []OrderlyExitPersists
<1>1. LifeInv => OrderlyExitPersists
  BY DEF LifeInv, Closing, OrderlyExitPersists
<1> QED BY <1>1, LifeInductive, PTL

(* Services are closed when no handler runs.                                *)
THEOREM PeacefulSave == LifeSpec => []SavedInPeace
<1>1. LifeInv => SavedInPeace
  BY DEF LifeInv, Quiet, SavedInPeace, InFlight, Kind, None
<1> QED BY <1>1, LifeInductive, PTL

(* At no step, a crash in the middle of a save included, is a snapshot in   *)
(* place torn or taken back.                                                *)
THEOREM SnapshotsGrow == LifeSpec => SnapshotsOnlyGrow
<1>1. ASSUME LifeInv, LifeInv', [LifeNext]_lifeVars, NEW s \in Store
      PROVE disk'[s] # Torn /\ (disk[s] # Absent => disk'[s].n >= disk[s].n)
  <2>1. disk'[s] # Torn
    BY <1>1 DEF LifeInv, Stores, Contents, Torn, Absent, Full
  <2>2. disk[s].n \in Nat /\ disk[s].n <= mem[s] /\ mem[s] \in Nat
    BY <1>1 DEF LifeInv, Stores, Contents, Absent, Full
  <2>3. CASE SaveRenames
    <3>1. saving \in Saved /\ saving \in Store
      BY <1>1, <2>3, ShutdownAssumption DEF SaveRenames, LifeInv, Closing
    <3>2. disk' = [disk EXCEPT ![saving] = Full(mem[saving])]
      BY <1>1, <2>3 DEF SaveRenames, LifeInv, Closing
    <3>3. disk'[s].n = mem[s] \/ disk'[s] = disk[s]
      BY <1>1, <3>1, <3>2 DEF Full, LifeInv, Stores
    <3> QED BY <2>1, <2>2, <3>3
  <2>4. CASE ~SaveRenames
    <3>1. disk' = disk
      BY <1>1, <2>4 DEF LifeNext, lifeVars, Save, Arrive, Write, Finish, Signalled, HTTPDrained,
           HTTPTimesOut, GRPCDrained, SaveStarts, SaveWrites, SaveFails, Exit, Kill, Restart, files
    <3> QED BY <2>1, <2>2, <3>1
  <2> QED BY <2>3, <2>4
<1>2. LifeInv /\ LifeInv' /\ [LifeNext]_lifeVars =>
        [\A s \in Store : /\ disk'[s] # Torn
                          /\ disk[s] # Absent => disk'[s].n >= disk[s].n]_lifeVars
  BY <1>1
<1> QED BY <1>2, LifeInductive, PTL DEF LifeSpec, SnapshotsOnlyGrow
==============================================================================
