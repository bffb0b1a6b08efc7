------------------------------- MODULE Server -------------------------------
(***************************************************************************)
(* The composition of the process (cmd/server/main.go): the HTTP server,   *)
(* the worker and the registry, and the order in which runServices takes   *)
(* them down once a signal arrives, the server fails or the worker ends.   *)
(* Shutdown waits for requests, but not for WebSockets, which are hijacked *)
(* connections, and for no longer than five seconds: requests it abandons  *)
(* run on while the rest goes down.                                        *)
(***************************************************************************)
EXTENDS Registry

VARIABLES
    phase,       \* of runServices
    listening,   \* the listener accepts connections
    canceled,    \* the worker's context
    abandoned    \* Shutdown ran into its timeout

server == <<phase, listening, canceled, abandoned>>
serverVars == <<vars, server>>

ServerInit ==
    /\ Init
    /\ phase = "running" /\ listening = TRUE
    /\ canceled = FALSE /\ abandoned = FALSE

-----------------------------------------------------------------------------
(* runServices                                                             *)

(* A signal, the end of the worker, or (it stops listening) of the server. *)
Trigger ==
    /\ phase = "running"
    /\ phase' = "triggered"
    /\ \/ UNCHANGED listening
       \/ listening' = FALSE
    /\ UNCHANGED <<vars, canceled, abandoned>>

Shutdown ==
    /\ phase = "triggered"
    /\ phase' = "draining" /\ listening' = FALSE
    /\ UNCHANGED <<vars, canceled, abandoned>>

(* What Shutdown waits for.                                                *)
Active == {r \in Requests : pc[r] \notin {"idle", "serving", "done"}}

Drained ==
    /\ phase = "draining" /\ Active = {}
    /\ phase' = "drained"
    /\ UNCHANGED <<vars, listening, canceled, abandoned>>

WaitForever == FALSE /\ UNCHANGED serverVars   \* mutant: Shutdown has no deadline

(* Close then cuts the connections; their handlers may run on.             *)
ShutdownTimesOut ==
    /\ phase = "draining" /\ Active # {}
    /\ phase' = "drained" /\ abandoned' = TRUE
    /\ UNCHANGED <<vars, listening, canceled>>

CancelWorker ==
    /\ phase = "drained"
    /\ phase' = "canceled" /\ canceled' = TRUE
    /\ UNCHANGED <<vars, listening, abandoned>>

(* The worker's select sees its context done.                              *)
WorkerCanceled ==
    /\ canceled /\ worker.step = "idle"
    /\ worker' = Stopped
    /\ UNCHANGED <<clock, row, used, entries, requests, closing, server>>

CloseRouterAtOnce ==                \* mutant: the worker is not awaited
    /\ phase = "canceled"
    /\ phase' = "closing"
    /\ Close
    /\ UNCHANGED <<listening, canceled, abandoned>>

CloseRouter ==
    /\ phase = "canceled" /\ worker = Stopped
    /\ phase' = "closing"
    /\ Close
    /\ UNCHANGED <<listening, canceled, abandoned>>

CloseStore ==
    /\ phase = "closing" /\ closer = "closed"
    /\ phase' = "exited"
    /\ UNCHANGED <<vars, listening, canceled, abandoned>>

RunServices ==
    \/ Shutdown \/ Drained \/ ShutdownTimesOut \/ CancelWorker \/ CloseRouter \/ CloseStore

-----------------------------------------------------------------------------

Exited == phase = "exited" /\ UNCHANGED serverVars

ServerNext ==
    \/ Trigger \/ RunServices \/ WorkerCanceled \/ Exited
    \/ /\ phase # "exited"
       /\ \/ Advance \/ RunWorker \/ CloseHubs
          \/ \E r \in Requests :
               RefuseClosed(r) \/ (Request(r) /\ (pc[r] = "idle" => listening))
       /\ UNCHANGED server

(* Nobody has to signal.  Database calls and ticks end, the worker's       *)
(* select sees that it is cancelled sooner or later, and the hub's Close   *)
(* cancels its WebSockets; plain requests may take as long as they like.   *)
ServerSpec ==
    /\ ServerInit /\ [][ServerNext]_serverVars
    /\ WF_serverVars(RunServices) /\ SF_serverVars(WorkerCanceled)
    /\ WF_serverVars(WorkerRound /\ UNCHANGED server)
    /\ WF_serverVars(CloseHubs /\ UNCHANGED server)
    /\ WF_serverVars(phase = "running" /\ worker = Stopped /\ Trigger)
    /\ \A r \in Requests : WF_serverVars((RefuseClosed(r) \/ Acquire(r)) /\ UNCHANGED server)
    /\ \A r \in WebSockets :
         WF_serverVars(lease[r] \in stopped /\ Release(r) /\ UNCHANGED server)

-----------------------------------------------------------------------------
(* Properties                                                              *)

(* The store is closed after everything that uses it: the worker is gone,  *)
(* no load or deletion is under way, no WebSocket is served, and a request *)
(* still runs only if Shutdown gave it up (runServices, main.go:180-194).  *)
StoreClosedLast ==
    phase = "exited" =>
        /\ worker = Stopped /\ Operations = {}
        /\ \A r \in Requests : pc[r] # "serving"
        /\ Active # {} => abandoned

(* When Close of the registry returns, the hub of every laboratory in      *)
(* memory is closed, of those too whose load was under way when it began   *)
(* (registry.go:119-123, 204-224).                                         *)
EveryHubClosed == closer = "closed" => runtimes \subseteq stopped

(* Once triggered, by a failed tick of the worker too, the process comes   *)
(* down, whoever holds a lease, loads a laboratory or keeps a WebSocket    *)
(* open (main.go:170-194).                                                 *)
ShutdownCompletes ==
    (phase # "running" \/ worker = Stopped) ~> phase = "exited"

=============================================================================
