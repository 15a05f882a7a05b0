------------------------------- MODULE Shutdown -------------------------------
(***************************************************************************)
(* Server.Run from the signal on, Server.Shutdown, storage.Save and        *)
(* storage.Load: in-flight work is drained, every registered service saves *)
(* a snapshot (temporary file, then rename), the process exits, and the    *)
(* next one loads what is on disk.  The process can be killed at any step. *)
(* A store's content is the number of writes it contains.                  *)
(***************************************************************************)
EXTENDS Naturals, FiniteSets

CONSTANTS
  Store,      \* the stores of the process
  Saved,      \* those a registered service saves when it is closed
  ViaHTTP,    \* those an HTTP handler writes
  ViaGRPC,    \* those a gRPC handler writes
  Work,       \* slots for requests and calls in flight
  MaxWrites,  \* bound: writes to a store
  MaxBoots    \* bound: starts of the process

ASSUME ShutdownAssumption ==
  /\ Saved \subseteq Store /\ ViaHTTP \subseteq Store /\ ViaGRPC \subseteq Store
  /\ MaxWrites \in Nat /\ MaxBoots \in Nat

Kind == {"http", "rpc", "stream"}

VARIABLES
  phase,    \* "up", the steps of Shutdown "http", "grpc", "save", then "exited";
            \* "timedout" when the drain of HTTP fails, "killed"
  work,     \* slot -> "none" or the kind of work in flight
  mem,      \* the stores in memory
  disk,     \* the snapshot files: Absent, Torn, or a content
  tmp,      \* the temporary file of the save in progress
  pc,       \* the save in progress: "next", "write", "written", with
  saving,   \* its store (or None),
  todo,     \* the services not closed yet,
  failed,   \* and those whose save failed (which is only logged)
  boots

lifeVars == <<phase, work, mem, disk, tmp, pc, saving, todo, failed, boots>>

Absent == [kind |-> "absent", n |-> 0]
Torn   == [kind |-> "torn",   n |-> 0]
Full(n) == [kind |-> "full",  n |-> n]
None   == "none"

\* storage.Load: a missing file leaves the store empty, and so does an error.
Load(f) == IF f.kind = "full" THEN f.n ELSE 0

Running == phase \in {"up", "http", "grpc", "save"}
InFlight(kinds) == {w \in Work : work[w] \in kinds}

LifeInit ==
  /\ phase = "up" /\ boots = 1
  /\ work = [w \in Work |-> None]
  /\ mem = [s \in Store |-> 0]
  /\ disk = [s \in Store |-> Absent]
  /\ tmp = Absent /\ pc = "next" /\ saving = None
  /\ todo = {} /\ failed = {}

files == <<disk, tmp, pc, saving, todo, failed>>

----------------------------------------------------------------------------
(* Requests and calls. *)

\* http.Shutdown closes the HTTP listener first; gRPC accepts until GracefulStop.
Accepts(kind) == IF kind = "http" THEN phase = "up" ELSE phase \in {"up", "http"}

Arrive(w) ==
  /\ work[w] = None
  /\ \E k \in Kind : Accepts(k) /\ work' = [work EXCEPT ![w] = k]
  /\ UNCHANGED <<phase, mem, files, boots>>

Writes(k) == IF k = "http" THEN ViaHTTP ELSE ViaGRPC

Write(w) ==
  /\ Running /\ work[w] # None
  /\ \E s \in Writes(work[w]) : mem[s] < MaxWrites /\ mem' = [mem EXCEPT ![s] = @ + 1]
  /\ UNCHANGED <<phase, work, files, boots>>

\* A unary handler returns; a stream's does once its client ends the stream.
Finish(w) ==
  /\ Running /\ work[w] # None
  /\ work' = [work EXCEPT ![w] = None]
  /\ UNCHANGED <<phase, mem, files, boots>>

----------------------------------------------------------------------------
(* Run and Shutdown. *)

Signalled ==
  /\ phase = "up"
  /\ phase' = "http"
  /\ UNCHANGED <<work, mem, files, boots>>

\* Mutant: http.Shutdown is not waited for.
HTTPClosed ==
  /\ phase = "http"
  /\ phase' = "grpc"
  /\ UNCHANGED <<work, mem, files, boots>>

\* http.Shutdown returns nil.
HTTPDrained ==
  /\ phase = "http" /\ InFlight({"http"}) = {}
  /\ phase' = "grpc"
  /\ UNCHANGED <<work, mem, files, boots>>

\* The 30 seconds pass: Shutdown returns the error, main exits with status 1.
HTTPTimesOut ==
  /\ phase = "http" /\ InFlight({"http"}) # {}
  /\ phase' = "timedout"
  /\ work' = [w \in Work |-> None]
  /\ UNCHANGED <<mem, files, boots>>

\* GracefulStop returns once no call is left, streams included.
GRPCDrained ==
  /\ phase = "grpc" /\ InFlight({"rpc", "stream"}) = {}
  /\ phase' = "save" /\ todo' = Saved /\ failed' = {}
  /\ UNCHANGED <<work, mem, disk, tmp, pc, saving, boots>>

\* storage.Save: os.WriteFile truncates the temporary file before it writes it.
SaveStarts(s) ==
  /\ phase = "save" /\ pc = "next" /\ s \in todo
  /\ saving' = s /\ todo' = todo \ {s} /\ pc' = "write" /\ tmp' = Torn
  /\ UNCHANGED <<phase, work, mem, disk, failed, boots>>

SaveWrites ==
  /\ phase = "save" /\ pc = "write"
  /\ tmp' = Full(mem[saving]) /\ pc' = "written"
  /\ UNCHANGED <<phase, work, mem, disk, saving, todo, failed, boots>>

\* Mutant: the snapshot is copied over the old one, not renamed.
SaveCopies ==
  /\ phase = "save" /\ pc = "written"
  /\ IF disk[saving] # Torn
       THEN disk' = [disk EXCEPT ![saving] = Torn] /\ UNCHANGED <<tmp, pc, saving>>
       ELSE /\ disk' = [disk EXCEPT ![saving] = tmp] /\ tmp' = Absent
            /\ pc' = "next" /\ saving' = None
  /\ UNCHANGED <<phase, work, mem, todo, failed, boots>>

\* os.Rename replaces the snapshot in one step.
SaveRenames ==
  /\ phase = "save" /\ pc = "written"
  /\ disk' = [disk EXCEPT ![saving] = tmp] /\ tmp' = Absent
  /\ pc' = "next" /\ saving' = None
  /\ UNCHANGED <<phase, work, mem, todo, failed, boots>>

\* Mutant: the first failed save ends the loop.
SaveFailsFast ==
  /\ phase = "save" /\ pc \in {"write", "written"}
  /\ failed' = failed \cup {saving} /\ pc' = "next" /\ saving' = None /\ todo' = {}
  /\ UNCHANGED <<phase, work, mem, disk, tmp, boots>>

\* An error of Save is logged and the next service is closed.
SaveFails ==
  /\ phase = "save" /\ pc \in {"write", "written"}
  /\ failed' = failed \cup {saving} /\ pc' = "next" /\ saving' = None
  /\ UNCHANGED <<phase, work, mem, disk, tmp, todo, boots>>

\* Mutant: the loop is repeated until every save succeeded.
ExitIfSaved ==
  /\ phase = "save" /\ pc = "next" /\ todo = {} /\ failed = {}
  /\ phase' = "exited"
  /\ UNCHANGED <<work, mem, files, boots>>

Exit ==
  /\ phase = "save" /\ pc = "next" /\ todo = {}
  /\ phase' = "exited"
  /\ UNCHANGED <<work, mem, files, boots>>

\* SIGKILL, a panic or a fatal error: nothing is saved, tmp stays behind.
Kill ==
  /\ Running
  /\ phase' = "killed" /\ work' = [w \in Work |-> None]
  /\ pc' = "next" /\ saving' = None /\ todo' = {}
  /\ UNCHANGED <<mem, disk, tmp, failed, boots>>

\* The next process: each service loads its snapshot, the other stores are new.
Restart ==
  /\ ~Running /\ boots < MaxBoots
  /\ phase' = "up" /\ boots' = boots + 1
  /\ mem' = [s \in Store |-> Load(disk[s])]
  /\ UNCHANGED <<work, files>>

Save == SaveWrites \/ SaveRenames \/ SaveFails \/ \E s \in Saved : SaveStarts(s)

LifeNext ==
  \/ \E w \in Work : Arrive(w) \/ Write(w) \/ Finish(w)
  \/ Signalled \/ HTTPDrained \/ HTTPTimesOut \/ GRPCDrained
  \/ Save \/ Exit \/ Kill \/ Restart

LifeSpec == LifeInit /\ [][LifeNext]_lifeVars

(* The server takes its steps and unary handlers return.  A stream is open  *)
(* for as long as its client likes: ClientsLeave is about the clients.      *)
ServerRuns ==
  /\ WF_lifeVars(HTTPDrained) /\ WF_lifeVars(GRPCDrained) /\ WF_lifeVars(Save \/ Exit)
  /\ \A w \in Work : WF_lifeVars(work[w] # "stream" /\ Finish(w))

ClientsLeave == \A w \in Work : WF_lifeVars(work[w] = "stream" /\ Finish(w))

ServedSpec == LifeSpec /\ ServerRuns

----------------------------------------------------------------------------
(* After an orderly exit the snapshot of every registered service holds all *)
(* that its handlers ever answered for, even if another service's save      *)
(* failed: nothing is written after it was saved.                           *)
OrderlyExitPersists ==
  phase = "exited" => \A s \in Saved \ failed : disk[s] = Full(mem[s])

(* Services are closed only when no handler runs: the ones that save        *)
(* without taking their lock (Pub/Sub) race with nobody.                    *)
SavedInPeace == phase = "save" => InFlight(Kind) = {}

(* No crash leaves a snapshot that cannot be read, or one that holds less   *)
(* than the snapshot it replaced.                                           *)
SnapshotsOnlyGrow ==
  [][\A s \in Store : /\ disk'[s] # Torn
                      /\ disk[s] # Absent => disk'[s].n >= disk[s].n]_lifeVars

(* After the signal the process ends, by an orderly exit or when the drain  *)
(* of HTTP times out, if its clients end their streams.  Without that it    *)
(* does not "drain in-flight requests, save persistent snapshots, and stop" *)
(* (server.go:331-332): GracefulStop waits for an open stream for ever.     *)
ShutdownEnds == phase \in {"http", "grpc", "save"} ~> ~Running
=============================================================================
