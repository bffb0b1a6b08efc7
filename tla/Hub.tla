-------------------------------- MODULE Hub --------------------------------
(***************************************************************************)
(* The realtime hub of one laboratory (internal/realtime: hub.go,          *)
(* handler.go).  One handler per WebSocket client and one bridge, which    *)
(* listens to the manager's coalescing update channel, capture snapshots   *)
(* and offer them to one-slot queues; Close stops all of them.             *)
(*                                                                         *)
(* A snapshot is its sequence number and the version of the state it was   *)
(* built from.  The manager is its version, raised by ticks and commands,  *)
(* which signal, and by reads that resolve a tick, which do not.  Its      *)
(* ticks never end; the model sees MaxTicks of them, and whatever loses an *)
(* edge or changes the state without one happens before the last.          *)
(***************************************************************************)
EXTENDS Naturals, FiniteSets

CONSTANTS
    Clients,             \* WebSocket connections, each made once
    MaxTicks,            \* bound: resolutions that signal
    MaxVersion           \* bound: visible changes of the state

ASSUME HubConfig ==
    IsFiniteSet(Clients) /\ MaxTicks \in Nat \ {0} /\ MaxVersion \in Nat

Bridge == "bridge"
Nobody == "nobody"

ASSUME HubProcesses ==
    /\ Bridge \notin Clients /\ Nobody \notin Clients

VARIABLES
    version,       \* of the manager's published state
    ticks,         \* resolutions that signalled
    edge,          \* Updates() holds an edge
    closed, clients, sequence, lastSequence,    \* the Hub's fields
    mu,            \* who holds Hub.mu across steps: the one that offers
    snapshotMu,    \* who holds Hub.snapshotMu
    todo, cur,     \* the offers left and the one whose slot was full
    victims,       \* those the first Close has yet to cancel
    pc,            \* per handler, and for the bridge: where it stands
    ctxDone,       \* its context is cancelled
    hold,          \* the snapshot it captured
    queue,         \* per client: the slot, Empty or a snapshot
    got,           \* per client: the snapshot last taken from the slot
    seen,          \* per client: the version last written to the connection
    closer         \* where the owner's call of Close stands

vars == <<version, ticks, edge, closed, clients, sequence, lastSequence, mu, snapshotMu,
          todo, cur, victims, pc, ctxDone, hold, queue, got, seen, closer>>

source == <<version, ticks, edge>>
hub    == <<closed, clients, victims, lastSequence, mu, todo, cur>>
slots  == <<queue, got, seen>>

Procs == Clients \cup {Bridge}
Empty == [sequence |-> 0, version |-> 0]

(* The handlers the WaitGroup counts.                                      *)
Handlers == {c \in Clients : pc[c] \notin {"idle", "gone"}}

Init ==
    /\ version = 0 /\ ticks = 0 /\ edge = FALSE
    /\ closed = FALSE /\ clients = {} /\ sequence = 0
    /\ lastSequence = [c \in Clients |-> 0]
    /\ mu = Nobody /\ snapshotMu = Nobody
    /\ todo = {} /\ cur = Nobody
    /\ victims = {}
    /\ pc = [p \in Procs |-> "idle"]
    /\ ctxDone = [p \in Procs |-> FALSE]
    /\ hold = [p \in Procs |-> Empty]
    /\ queue = [c \in Clients |-> Empty]
    /\ got = [c \in Clients |-> Empty]
    /\ seen = [c \in Clients |-> 0]
    /\ closer = "idle"

Goto(p, where) == pc' = [pc EXCEPT ![p] = where]

-----------------------------------------------------------------------------
(* The manager, as the hub sees it                                         *)

(* What a resolution may do to the visible state.                          *)
Later == {version} \cup {v \in {version + 1} : v <= MaxVersion}

(* The worker's next tick, or a command: LastTickAt moves, so it signals   *)
(* even when nothing visible changed.                                      *)
Tick ==
    /\ ticks < MaxTicks
    /\ ticks' = ticks + 1
    /\ version' \in Later
    /\ edge' = TRUE
    /\ UNCHANGED <<hub, sequence, snapshotMu, pc, ctxDone, hold, slots, closer>>

(* A REST read resolves a tick and publishes it without an edge.           *)
Read ==
    /\ ticks < MaxTicks
    /\ version' \in Later \ {version}
    /\ UNCHANGED <<ticks, edge, hub, sequence, snapshotMu, pc, ctxDone, hold, slots, closer>>

-----------------------------------------------------------------------------
(* Snapshots: capture, publish, publishTo, offerLocked                     *)

CaptureUnlocked(p) ==               \* mutant: State is read outside snapshotMu
    /\ pc[p] = "woken" /\ ~ctxDone[p]
    /\ version' \in IF ticks < MaxTicks THEN Later ELSE {version}
    /\ hold' = [hold EXCEPT ![p] = [sequence |-> 0, version |-> version']]
    /\ Goto(p, "reading")
    /\ UNCHANGED <<ticks, edge, hub, sequence, snapshotMu, ctxDone, slots, closer>>

(* capture reads the state, resolving a tick on the way ...                *)
Capture(p) ==
    /\ pc[p] = "woken" /\ snapshotMu = Nobody /\ ~ctxDone[p]
    /\ snapshotMu' = p
    /\ version' \in IF ticks < MaxTicks THEN Later ELSE {version}
    /\ hold' = [hold EXCEPT ![p] = [sequence |-> 0, version |-> version']]
    /\ Goto(p, "reading")
    /\ UNCHANGED <<ticks, edge, hub, sequence, ctxDone, slots, closer>>

NumberLocked(p) ==                  \* mutant: snapshotMu is kept
    /\ pc[p] = "reading"
    /\ sequence' = sequence + 1
    /\ hold' = [hold EXCEPT ![p].sequence = sequence + 1]
    /\ Goto(p, "captured")
    /\ UNCHANGED <<source, hub, snapshotMu, ctxDone, slots, closer>>

(* ... builds the view and numbers it.                                     *)
Number(p) ==
    /\ pc[p] = "reading"
    /\ sequence' = sequence + 1
    /\ hold' = [hold EXCEPT ![p].sequence = sequence + 1]
    /\ snapshotMu' = Nobody
    /\ Goto(p, "captured")
    /\ UNCHANGED <<source, hub, ctxDone, slots, closer>>

BridgeGivesUp(p) ==                 \* mutant: any failed capture ends the bridge
    /\ pc[p] = "woken" /\ snapshotMu = Nobody
    /\ ctxDone[p] \/ ticks < MaxTicks
    /\ Goto(p, IF p = Bridge THEN "gone" ELSE "leaving")
    /\ UNCHANGED <<source, hub, sequence, snapshotMu, ctxDone, hold, slots, closer>>

(* State refuses a cancelled context and may fail for its own reasons: the *)
(* bridge then waits for the next edge, a handler unregisters.             *)
CaptureFails(p) ==
    /\ pc[p] = "woken" /\ snapshotMu = Nobody
    /\ ctxDone[p] \/ ticks < MaxTicks
    /\ Goto(p, IF p # Bridge THEN "leaving"
               ELSE IF ctxDone[p] THEN "gone" ELSE "listening")
    /\ UNCHANGED <<source, hub, sequence, snapshotMu, ctxDone, hold, slots, closer>>

(* Hub.mu is returned once nothing is left to offer.                       *)
Published(p) ==
    /\ mu' = Nobody
    /\ hold' = [hold EXCEPT ![p] = Empty]
    /\ Goto(p, IF p = Bridge THEN "listening" ELSE "serving")

(* The bridge publishes to every client, a handler to its own while it is  *)
(* registered.                                                             *)
Publish(p) ==
    /\ pc[p] = "captured" /\ mu = Nobody
    /\ todo' = IF p = Bridge THEN clients ELSE clients \cap {p}
    /\ \/ todo' = {} /\ Published(p)
       \/ todo' # {} /\ mu' = p /\ Goto(p, "offering") /\ UNCHANGED hold
    /\ UNCHANGED <<source, victims, closed, clients, sequence, lastSequence, snapshotMu, cur,
                   ctxDone, slots, closer>>

Offered(c) ==
    /\ todo' = todo \ {c} /\ cur' = Nobody
    /\ \/ todo' = {} /\ Published(mu)
       \/ todo' # {} /\ UNCHANGED <<mu, hold, pc>>

(* offerLocked holds Hub.mu, the handler that empties the slot does not:   *)
(* the slot may be full in its first select and empty in its second.       *)
OfferLocked(c) ==
    /\ mu # Nobody /\ cur = Nobody /\ c \in todo
    /\ \/ /\ hold[mu].sequence <= lastSequence[c]
          /\ Offered(c)
          /\ UNCHANGED <<lastSequence, queue>>
       \/ /\ hold[mu].sequence > lastSequence[c]
          /\ lastSequence' = [lastSequence EXCEPT ![c] = hold[mu].sequence]
          /\ \/ /\ queue[c] = Empty
                /\ queue' = [queue EXCEPT ![c] = hold[mu]]
                /\ Offered(c)
             \/ /\ queue[c] # Empty
                /\ cur' = c
                /\ UNCHANGED <<todo, mu, hold, pc, queue>>
    /\ UNCHANGED <<source, victims, closed, clients, sequence, snapshotMu, ctxDone,
                   got, seen, closer>>

KeepStale ==                        \* mutant: the pending snapshot is not removed
    /\ cur # Nobody
    /\ queue' = [queue EXCEPT ![cur] = IF @ = Empty THEN hold[mu] ELSE @]
    /\ Offered(cur)
    /\ UNCHANGED <<source, victims, closed, clients, lastSequence, sequence, snapshotMu,
                   ctxDone, got, seen, closer>>

(* The last two selects: what is in the slot goes, and as only a holder of *)
(* Hub.mu sends, nothing comes between that and the send.                  *)
Replace ==
    /\ cur # Nobody
    /\ queue' = [queue EXCEPT ![cur] = hold[mu]]
    /\ Offered(cur)
    /\ UNCHANGED <<source, victims, closed, clients, lastSequence, sequence, snapshotMu,
                   ctxDone, got, seen, closer>>

-----------------------------------------------------------------------------
(* The bridge: runBridge waits for an edge or its cancellation             *)

TakeEdge ==
    /\ pc[Bridge] = "listening" /\ edge
    /\ edge' = FALSE
    /\ Goto(Bridge, "woken")
    /\ UNCHANGED <<version, ticks, hub, sequence, snapshotMu, ctxDone, hold, slots, closer>>

BridgeStops ==
    /\ pc[Bridge] = "listening" /\ ctxDone[Bridge]
    /\ Goto(Bridge, "gone")
    /\ UNCHANGED <<source, hub, sequence, snapshotMu, ctxDone, hold, slots, closer>>

-----------------------------------------------------------------------------
(* A handler: ServeHTTP                                                    *)

BeginWhileClosed(c) ==              \* mutant: admission does not look at closed
    /\ pc[c] = "idle" /\ mu = Nobody
    /\ Goto(c, "accepted")
    /\ UNCHANGED <<source, hub, sequence, snapshotMu, ctxDone, hold, slots, closer>>

beginHandler(c) ==
    /\ pc[c] = "idle" /\ mu = Nobody
    /\ Goto(c, IF closed THEN "gone" ELSE "accepted")
    /\ UNCHANGED <<source, hub, sequence, snapshotMu, ctxDone, hold, slots, closer>>

AcceptFails(c) ==
    /\ pc[c] = "accepted"
    /\ Goto(c, "gone")
    /\ UNCHANGED <<source, hub, sequence, snapshotMu, ctxDone, hold, slots, closer>>

(* The first client starts the bridge.  A handler admitted before Close    *)
(* and registering after it is refused.                                    *)
Register(c) ==
    /\ pc[c] = "accepted" /\ mu = Nobody
    /\ \/ /\ closed
          /\ Goto(c, "gone")
          /\ UNCHANGED clients
       \/ /\ ~closed
          /\ clients' = clients \cup {c}
          /\ pc' = [pc EXCEPT ![c] = "woken",
                              ![Bridge] = IF @ = "idle" THEN "listening" ELSE @]
    /\ UNCHANGED <<source, victims, closed, lastSequence, mu, todo, cur, sequence, snapshotMu,
                   ctxDone, hold, slots, closer>>

Take(c) ==
    /\ pc[c] = "serving" /\ queue[c] # Empty
    /\ got' = [got EXCEPT ![c] = queue[c]]
    /\ queue' = [queue EXCEPT ![c] = Empty]
    /\ Goto(c, "writing")
    /\ UNCHANGED <<source, hub, sequence, snapshotMu, ctxDone, hold, seen, closer>>

Write(c) ==
    /\ pc[c] = "writing"
    /\ seen' = [seen EXCEPT ![c] = got[c].version]
    /\ Goto(c, "serving")
    /\ UNCHANGED <<source, hub, sequence, snapshotMu, ctxDone, hold, queue, got, closer>>

(* The write failed or its five seconds passed; or the context is done.    *)
Leave(c) ==
    /\ pc[c] = "writing" \/ (pc[c] = "serving" /\ ctxDone[c])
    /\ Goto(c, "leaving")
    /\ UNCHANGED <<source, hub, sequence, snapshotMu, ctxDone, hold, slots, closer>>

(* The client's fields go with its handler.                                *)
Unregister(c) ==
    /\ pc[c] = "leaving" /\ mu = Nobody
    /\ clients' = clients \ {c}
    /\ ctxDone' = [ctxDone EXCEPT ![c] = TRUE]
    /\ Goto(c, "gone")
    /\ lastSequence' = [lastSequence EXCEPT ![c] = 0]
    /\ queue' = [queue EXCEPT ![c] = Empty]
    /\ got' = [got EXCEPT ![c] = Empty]
    /\ seen' = [seen EXCEPT ![c] = 0]
    /\ UNCHANGED <<source, victims, closed, mu, todo, cur, sequence, snapshotMu, hold, closer>>

(* CloseRead cancels the context when the peer goes.                       *)
PeerLeaves(c) ==
    /\ c \in Handlers \ {d \in Clients : pc[d] = "accepted"} /\ ~ctxDone[c]
    /\ ctxDone' = [ctxDone EXCEPT ![c] = TRUE]
    /\ UNCHANGED <<source, hub, sequence, snapshotMu, pc, hold, slots, closer>>

-----------------------------------------------------------------------------
(* Close                                                                   *)

(* The owner may close again.  Under the mutex the first call closes and   *)
(* takes the clients ...                                                   *)
Close ==
    /\ closer \in {"idle", "returned"} /\ mu = Nobody
    /\ closer' = IF closed THEN "waiting" ELSE "cancelling"
    /\ closed' = TRUE
    /\ victims' = IF closed THEN victims
                  ELSE clients \cup {p \in {Bridge} : pc[p] # "idle"}
    /\ clients' = IF closed THEN clients ELSE {}
    /\ UNCHANGED <<source, lastSequence, mu, todo, cur, sequence, snapshotMu,
                   pc, ctxDone, hold, slots>>

CancelBridgeOnly ==              \* mutant: the clients are left to themselves
    /\ closer = "cancelling"
    /\ ctxDone' = [ctxDone EXCEPT ![Bridge] = TRUE]
    /\ victims' = {}
    /\ closer' = "waiting"
    /\ UNCHANGED <<source, closed, clients, lastSequence, mu, todo, cur, sequence,
                   snapshotMu, pc, hold, slots>>

(* ... and cancels them and the bridge, outside it.                        *)
CancelAll ==
    /\ closer = "cancelling"
    /\ ctxDone' = [p \in Procs |-> ctxDone[p] \/ p \in victims]
    /\ victims' = {}
    /\ closer' = "waiting"
    /\ UNCHANGED <<source, closed, clients, lastSequence, mu, todo, cur, sequence,
                   snapshotMu, pc, hold, slots>>

(* Every call waits for the bridge, if there is one, and for the handlers. *)
CloseReturns ==
    /\ closer = "waiting"
    /\ pc[Bridge] \in {"idle", "gone"} /\ Handlers = {}
    /\ closer' = "returned"
    /\ UNCHANGED <<source, hub, sequence, snapshotMu, pc, ctxDone, hold, slots>>

-----------------------------------------------------------------------------

(* The end of a bounded run: the last tick is delivered, clients wait for  *)
(* the next one.                                                           *)
Quiescent ==
    /\ ticks = MaxTicks
    /\ pc[Bridge] \in {"idle", "gone"} \/ (pc[Bridge] = "listening" /\ ~edge)
    /\ \A c \in Clients : pc[c] \in {"idle", "serving", "gone"}
    /\ closer \in {"idle", "returned"}
    /\ UNCHANGED vars

(* What a goroutine does once started.                                     *)
Snapshots(p) ==
    \/ Capture(p) \/ Number(p) \/ CaptureFails(p) \/ Publish(p)

Offers == (\E c \in Clients : OfferLocked(c)) \/ Replace

Handle(c) ==
    \/ Snapshots(c) \/ AcceptFails(c) \/ Register(c)
    \/ Take(c) \/ Write(c) \/ Leave(c) \/ Unregister(c)

RunBridge == Snapshots(Bridge) \/ TakeEdge \/ BridgeStops

Next ==
    \/ Tick \/ Read
    \/ RunBridge \/ Offers
    \/ \E c \in Clients : beginHandler(c) \/ Handle(c) \/ PeerLeaves(c)
    \/ Close \/ CancelAll \/ CloseReturns
    \/ Quiescent

SafetySpec == Init /\ [][Next]_vars

(* The worker ticks on, and a goroutine that can run does: every mutex is  *)
(* held for a bounded time and a write ends after five seconds.  No peer   *)
(* has to come or to go, and nobody has to call Close.                     *)
Spec ==
    /\ SafetySpec
    /\ WF_vars(Tick) /\ WF_vars(RunBridge) /\ WF_vars(Offers)
    /\ \A c \in Clients : WF_vars(Handle(c))
    /\ WF_vars(CancelAll) /\ WF_vars(CloseReturns)

-----------------------------------------------------------------------------
(* Properties                                                              *)

Snapshot == [sequence: 0..(MaxTicks + Cardinality(Clients)), version: 0..MaxVersion]

(* Every field holds a value of its type; whoever holds Hub.mu offers and  *)
(* whoever holds snapshotMu reads the state.                               *)
TypeOK ==
    /\ version \in 0..MaxVersion /\ ticks \in 0..MaxTicks
    /\ clients \subseteq Clients /\ todo \subseteq Clients /\ victims \subseteq Procs
    /\ mu \in Procs \cup {Nobody} /\ cur \in Clients \cup {Nobody}
    /\ hold \in [Procs -> Snapshot] /\ queue \in [Clients -> Snapshot]
    /\ got \in [Clients -> Snapshot] /\ seen \in [Clients -> 0..MaxVersion]
    /\ \A p \in Procs : /\ pc[p] = "offering" <=> mu = p
                        /\ snapshotMu = p => pc[p] = "reading"

(* No client is shown an older state after a newer one, although its       *)
(* handler and the bridge capture at the same time and offer in either     *)
(* order (capture under snapshotMu, the sequence check of offerLocked).    *)
NeverGoesBack == [][\A c \in Clients : pc'[c] # "gone" => seen[c] <= seen'[c]]_vars

(* The newest snapshot offered to a client is in its slot or was taken     *)
(* from it: the slot is full of something older, or its reader empties it  *)
(* between two selects, but the newest is never the one dropped            *)
(* (offerLocked, hub.go:189-207).                                          *)
NewestKept ==
    \A c \in Clients \ {cur} :
        lastSequence[c] \in {queue[c].sequence, got[c].sequence}

(* Once a call of Close has returned, no handler runs or will, the bridge  *)
(* is gone and nobody is registered, whoever connected meanwhile           *)
(* (beginHandler, register and Close, hub.go:56-67, 114-128, 215-242).     *)
CloseLeavesNothing ==
    closer = "returned" =>
        /\ Handlers = {} /\ clients = {}
        /\ pc[Bridge] \in {"idle", "gone"}

(* A connected client is eventually shown the present state or a later     *)
(* one, or is disconnected: although captures fail after the edge was      *)
(* taken, reads publish without one and edges coalesce, the next tick      *)
(* makes up for it (runBridge, hub.go:150-170).                            *)
LatestDelivered ==
    \A c \in Clients : \A v \in 1..MaxVersion :
        (pc[c] = "serving" /\ version = v) ~> (seen[c] >= v \/ pc[c] = "gone")

(* Every call of Close returns, the second as well as the first, while     *)
(* clients connect, capture, write and leave (hub.go:215-242).             *)
CloseAlwaysReturns == closer # "idle" ~> closer = "returned"

=============================================================================
