------------------------------ MODULE Registry ------------------------------
(***************************************************************************)
(* One manager and hub per laboratory (internal/labruntime/registry.go)    *)
(* over the laboratories' rows and sessions (internal/session,             *)
(* internal/persistence/session_store.go), as requests use them            *)
(* (httpapi/session_middleware.go) while one worker ticks the laboratories *)
(* in memory and deletes the expired ones (runWorkers, cmd/server/main.go).*)
(*                                                                         *)
(* A laboratory has exactly one session, so a cookie is the name of its    *)
(* laboratory.  A runtime is named after the request that loaded it.       *)
(* Registry.mu is held within one step.  An entry is known by who made it: *)
(* a request that loads, or the worker that deletes.                       *)
(***************************************************************************)
EXTENDS Integers, FiniteSets

CONSTANTS
    Requests,                \* HTTP requests
    WebSockets,              \* those that are taken over by the hub
    Labs,                    \* bound: identifiers the entropy source yields
    SessionTTL, SessionRefreshInterval,
    MaxTime,                 \* bound: the clock stops here
    None                     \* nil

ASSUME RegistryConfig ==
    /\ IsFiniteSet(Requests) /\ WebSockets \subseteq Requests
    /\ SessionTTL \in Nat /\ SessionRefreshInterval \in Nat /\ MaxTime \in Nat
    /\ 0 < SessionRefreshInterval /\ SessionRefreshInterval < SessionTTL

Worker == "worker"

(* A laboratory's row with its session's; an entry of the registry's map.  *)
Rows == [lab: Nat, session: Nat, seen: Nat]
Entries == [owner: Requests \cup {Worker}, runtime: Requests \cup {None},
            refs: Int, busy: BOOLEAN]

ASSUME RegistryNames ==
    /\ None \notin Requests \cup Labs /\ Worker \notin Requests
    /\ None \notin Rows /\ None \notin Entries

VARIABLES
    clock,
    row,        \* per laboratory: its expiry and its session's, None when there is no row
    used,       \* the laboratories ever created
    entries,    \* the map, None where it has no entry
    pc,         \* per request: where it stands
    lab,        \* per request: its cookie, then the laboratory it was resolved to
    at,         \* per request: the instant it was resolved for
    lease,      \* per request: the runtime it holds
    worker,     \* the worker's step, its laboratories left, its instant, its errors
    closer,     \* how far Close is: open, draining, closing, closed
    toClose,    \* the runtimes Close has yet to close
    stopped     \* the runtimes whose hub is closed

requests == <<pc, lab, at, lease>>
closing  == <<closer, toClose, stopped>>
vars == <<clock, row, used, entries, requests, worker, closing>>

closed == closer # "open"
Idle == [step |-> "idle", todo |-> {}, now |-> 0, lab |-> None, failed |-> FALSE]

Init ==
    /\ clock = 0
    /\ row = [l \in Labs |-> None] /\ used = {}
    /\ entries = [l \in Labs |-> None]
    /\ pc = [r \in Requests |-> "idle"]
    /\ lab = [r \in Requests |-> None]
    /\ at = [r \in Requests |-> 0]
    /\ lease = [r \in Requests |-> None]
    /\ worker = Idle
    /\ closer = "open" /\ toClose = {} /\ stopped = {}

Goto(r, where) == pc' = [pc EXCEPT ![r] = where]

(* A request that is over leaves nothing behind.                           *)
Over(r) ==
    /\ lab' = [lab EXCEPT ![r] = None]
    /\ at' = [at EXCEPT ![r] = 0]
    /\ lease' = [lease EXCEPT ![r] = None]

TurnAway(r) == Goto(r, "done") /\ Over(r)

-----------------------------------------------------------------------------
(* Sessions: Service.Resolve, ResolveSession, CreateSession                *)

(* The instant is read before the transaction begins.                      *)
Arrive(r) ==
    /\ pc[r] = "idle"
    /\ \E cookie \in used \cup {None} : lab' = [lab EXCEPT ![r] = cookie]
    /\ at' = [at EXCEPT ![r] = clock]
    /\ Goto(r, "resolving")
    /\ UNCHANGED <<clock, row, used, entries, lease, worker, closing>>

Known(l, now) ==
    /\ l # None
    /\ row[l] # None
    /\ row[l].session > now /\ row[l].lab > now

NewRow(now) == [lab |-> now + SessionTTL, session |-> now + SessionTTL, seen |-> now]

RenewSessionOnly(l, now) ==         \* mutant: labs.expires_at is not moved
    IF now - row[l].seen >= SessionRefreshInterval
    THEN [row EXCEPT ![l].session = now + SessionTTL, ![l].seen = now]
    ELSE row

Renewed(l, now) ==
    IF now - row[l].seen >= SessionRefreshInterval
    THEN [row EXCEPT ![l] = NewRow(now)]
    ELSE row

ResolveSession(r) ==
    /\ pc[r] = "resolving" /\ Known(lab[r], at[r])
    /\ row' = Renewed(lab[r], at[r])
    /\ Goto(r, "acquire")
    /\ UNCHANGED <<clock, used, entries, lab, at, lease, worker, closing>>

Fresh == CHOOSE l \in Labs : l \notin used

(* An unknown or expired cookie gets a laboratory of its own.              *)
CreateSession(r) ==
    /\ pc[r] = "resolving" /\ ~Known(lab[r], at[r]) /\ used # Labs
    /\ row' = [row EXCEPT ![Fresh] = NewRow(at[r])]
    /\ used' = used \cup {Fresh}
    /\ lab' = [lab EXCEPT ![r] = Fresh]
    /\ Goto(r, "acquire")
    /\ UNCHANGED <<clock, entries, at, lease, worker, closing>>

ResolveFails(r) ==
    /\ pc[r] = "resolving"
    /\ TurnAway(r)
    /\ UNCHANGED <<clock, row, used, entries, worker, closing>>

-----------------------------------------------------------------------------
(* Acquire and Release                                                     *)

Entry(owner, runtime, refs, busy) ==
    [owner |-> owner, runtime |-> runtime, refs |-> refs, busy |-> busy]

busy(l) == entries[l] # None /\ entries[l].busy
live(l) == entries[l] # None /\ ~entries[l].busy /\ entries[l].runtime # None

RefuseClosed(r) ==
    /\ pc[r] = "acquire" /\ closed
    /\ TurnAway(r)
    /\ UNCHANGED <<clock, row, used, entries, worker, closing>>

WaitAtGate(r) ==
    /\ pc[r] = "acquire" /\ ~closed /\ busy(lab[r])
    /\ Goto(r, "waiting")
    /\ UNCHANGED <<clock, row, used, entries, lab, at, lease, worker, closing>>

LeaseLive(r) ==
    /\ pc[r] = "acquire" /\ ~closed /\ live(lab[r])
    /\ entries' = [entries EXCEPT ![lab[r]].refs = @ + 1]
    /\ lease' = [lease EXCEPT ![r] = entries[lab[r]].runtime]
    /\ Goto(r, "leased")
    /\ UNCHANGED <<clock, row, used, lab, at, worker, closing>>

BeginLoadUngated(r) ==              \* mutant: a load does not wait for the gate
    /\ pc[r] = "acquire" /\ ~closed /\ ~live(lab[r])
    /\ entries' = [entries EXCEPT ![lab[r]] = Entry(r, None, 0, TRUE)]
    /\ Goto(r, "loading")
    /\ UNCHANGED <<clock, row, used, lab, at, lease, worker, closing>>

BeginLoad(r) ==
    /\ pc[r] = "acquire" /\ ~closed /\ ~busy(lab[r]) /\ ~live(lab[r])
    /\ entries' = [entries EXCEPT ![lab[r]] = Entry(r, None, 0, TRUE)]
    /\ Goto(r, "loading")
    /\ UNCHANGED <<clock, row, used, lab, at, lease, worker, closing>>

(* Closing the gate of laboratory l sends its waiters back to the loop;    *)
(* whoever closed it goes its own way.                                     *)
Woken(l, here) ==
    [q \in Requests |-> IF q \in DOMAIN here THEN here[q]
                        ELSE IF pc[q] = "waiting" /\ lab[q] = l THEN "acquire"
                        ELSE pc[q]]

Here(r, where) == [q \in {r} |-> where]

(* NewLabManager read the rows.  When the registry was closed meanwhile    *)
(* the runtime stays in its entry, for Close to find.                      *)
LoadDone(r) ==
    /\ pc[r] = "loading" /\ row[lab[r]] # None
    /\ entries' = [entries EXCEPT ![lab[r]] =
                     IF @ # None /\ @.owner = r
                     THEN Entry(r, r, IF closed THEN 0 ELSE 1, FALSE) ELSE @]
    /\ pc' = Woken(lab[r], Here(r, IF closed THEN "done" ELSE "leased"))
    /\ \/ closed /\ Over(r)
       \/ ~closed /\ lease' = [lease EXCEPT ![r] = r] /\ UNCHANGED <<lab, at>>
    /\ UNCHANGED <<clock, row, used, worker, closing>>

LoadFailsSilently(r) ==             \* mutant: a failed load leaves its gate shut
    /\ pc[r] = "loading"
    /\ entries' = [entries EXCEPT ![lab[r]] = None]
    /\ pc' = [pc EXCEPT ![r] = "done"]
    /\ Over(r)
    /\ UNCHANGED <<clock, row, used, worker, closing>>

(* There is no row, or the caller gave up, or the database failed: waiters *)
(* try for themselves.                                                     *)
LoadFails(r) ==
    /\ pc[r] = "loading"
    /\ entries' = [entries EXCEPT ![lab[r]] = None]
    /\ pc' = Woken(lab[r], Here(r, "done"))
    /\ Over(r)
    /\ UNCHANGED <<clock, row, used, worker, closing>>

Cancel(r) ==
    /\ pc[r] \in {"acquire", "waiting"}
    /\ TurnAway(r)
    /\ UNCHANGED <<clock, row, used, entries, worker, closing>>

(* The hub takes a WebSocket over, unless it is closed.                    *)
BeginHandler(r) ==
    /\ r \in WebSockets /\ pc[r] = "leased" /\ lease[r] \notin stopped
    /\ Goto(r, "serving")
    /\ UNCHANGED <<clock, row, used, entries, lab, at, lease, worker, closing>>

Unref(l, runtime) ==
    IF entries[l] # None /\ entries[l].runtime = runtime
    THEN [entries EXCEPT ![l].refs = @ - 1]
    ELSE entries

Release(r) ==
    /\ pc[r] \in {"leased", "serving"}
    /\ entries' = Unref(lab[r], lease[r])
    /\ TurnAway(r)
    /\ UNCHANGED <<clock, row, used, worker, closing>>

-----------------------------------------------------------------------------
(* The worker: TickAll                                                     *)

Stopped == [Idle EXCEPT !.step = "stopped"]

(* One round over; the last one ends the call, and an error the worker.    *)
AfterOne(l, failed) ==
    IF worker.todo \ {l} # {}
    THEN [worker EXCEPT !.step = IF @ = "ticking" THEN @ ELSE "sweeping",
                        !.todo = @ \ {l}, !.lab = None, !.failed = failed]
    ELSE IF failed THEN Stopped ELSE Idle

(* A failed query ends the worker.  TickAll and DeleteIfIdle also refuse a *)
(* closed registry, but Close comes after the worker's end (module Server).*)
WorkerFails ==
    /\ worker.step = "idle"
    /\ worker' = Stopped
    /\ UNCHANGED <<clock, row, used, entries, requests, closing>>

(* With no laboratory in memory a round changes nothing.                   *)
TickAll ==
    /\ worker.step = "idle" /\ ~closed
    /\ LET leased == {l \in Labs : live(l)}
       IN /\ leased # {}
          /\ entries' = [l \in Labs |-> IF l \in leased
                                        THEN [entries[l] EXCEPT !.refs = @ + 1]
                                        ELSE entries[l]]
          /\ worker' = [Idle EXCEPT !.step = "ticking", !.todo = leased]
    /\ UNCHANGED <<clock, row, used, requests, closing>>

TickOne(l) ==
    /\ worker.step = "ticking" /\ l \in worker.todo
    /\ entries' = Unref(l, entries[l].runtime)
    /\ \E failed \in {worker.failed, TRUE} : worker' = AfterOne(l, failed)
    /\ UNCHANGED <<clock, row, used, requests, closing>>

-----------------------------------------------------------------------------
(* The worker: cleanup                                                     *)

(* The instant is the one at which the cleanup ticker fired.               *)
ExpiredLabs(now) ==
    /\ worker.step = "idle"
    /\ LET expired == {l \in Labs : row[l] # None /\ row[l].lab <= now}
       IN /\ expired # {}
          /\ worker' = [Idle EXCEPT !.step = "sweeping", !.todo = expired, !.now = now]
    /\ UNCHANGED <<clock, row, used, entries, requests, closing>>

NotBusy(l) == entries[l] # None => ~entries[l].busy  \* mutant: leases are ignored

IsIdle(l) == entries[l] # None => entries[l].refs = 0 /\ ~entries[l].busy

SkipInUse(l) ==
    /\ worker.step = "sweeping" /\ l \in worker.todo /\ ~closed /\ ~IsIdle(l)
    /\ worker' = AfterOne(l, FALSE)
    /\ UNCHANGED <<clock, row, used, entries, requests, closing>>

DeleteIfLoaded(l) ==                \* mutant: only what is in memory is deleted
    /\ worker.step = "sweeping" /\ l \in worker.todo /\ ~closed /\ IsIdle(l)
    /\ entries[l] # None
    /\ entries' = [entries EXCEPT ![l].busy = TRUE]
    /\ worker' = [worker EXCEPT !.step = "deleting", !.lab = l]
    /\ UNCHANGED <<clock, row, used, requests, closing>>

DeleteIfIdle(l) ==
    /\ worker.step = "sweeping" /\ l \in worker.todo /\ ~closed /\ IsIdle(l)
    /\ entries' = [entries EXCEPT ![l] = IF @ = None THEN Entry(Worker, None, 0, TRUE)
                                         ELSE [@ EXCEPT !.busy = TRUE]]
    /\ worker' = [worker EXCEPT !.step = "deleting", !.lab = l]
    /\ UNCHANGED <<clock, row, used, requests, closing>>

(* The row goes, and its session with it, unless it was renewed.           *)
DeleteExpiredLab ==
    /\ worker.step = "deleting"
    /\ row' = [row EXCEPT ![worker.lab] =
                 IF @ # None /\ @.lab <= worker.now THEN None ELSE @]
    /\ worker' = [worker EXCEPT !.step = "evicting"]
    /\ UNCHANGED <<clock, used, entries, requests, closing>>

DeleteFails ==
    /\ worker.step = "deleting"
    /\ entries' = [entries EXCEPT ![worker.lab].busy = FALSE]
    /\ pc' = Woken(worker.lab, <<>>)
    /\ worker' = Stopped
    /\ UNCHANGED <<clock, row, used, lab, at, lease, closing>>

(* The hub's Close waits for its handlers, then the entry goes.            *)
Evict ==
    /\ worker.step = "evicting"
    /\ LET runtime == entries[worker.lab].runtime
       IN /\ \A r \in Requests : pc[r] = "serving" => lease[r] # runtime
          /\ stopped' = stopped \cup ({runtime} \ {None})
    /\ entries' = [entries EXCEPT ![worker.lab] = None]
    /\ pc' = Woken(worker.lab, <<>>)
    /\ worker' = AfterOne(worker.lab, FALSE)
    /\ UNCHANGED <<clock, row, used, lab, at, lease, closer, toClose>>

-----------------------------------------------------------------------------
(* Close, which the server calls (module Server)                           *)

(* The operations the WaitGroup counts.                                    *)
Operations ==
    {r \in Requests : pc[r] = "loading"}
      \cup {w \in {Worker} : worker.step \in {"ticking", "deleting", "evicting"}}

runtimes == {entries[l].runtime : l \in {k \in Labs : entries[k] # None}} \ {None}

Close ==
    /\ closer = "open"
    /\ closer' = "draining"
    /\ UNCHANGED <<clock, row, used, entries, requests, worker, toClose, stopped>>

CollectIdle ==                      \* mutant: hubs in use are left out, as in DeleteIfIdle
    /\ closer = "draining" /\ Operations = {}
    /\ closer' = "closing"
    /\ toClose' = {entries[l].runtime : l \in {k \in Labs : entries[k] # None /\ IsIdle(k)}}
                  \ {None}
    /\ UNCHANGED <<clock, row, used, entries, requests, worker, stopped>>

Collect ==
    /\ closer = "draining" /\ Operations = {}
    /\ closer' = "closing" /\ toClose' = runtimes
    /\ UNCHANGED <<clock, row, used, entries, requests, worker, stopped>>

(* One hub after the other: Hub.Close cancels its WebSockets and awaits    *)
(* them (module Hub).                                                      *)
CloseHub(runtime) ==
    /\ runtime \in toClose /\ toClose \cap stopped = {}
    /\ stopped' = stopped \cup {runtime}
    /\ UNCHANGED <<clock, row, used, entries, requests, worker, closer, toClose>>

HubClosed(runtime) ==
    /\ runtime \in toClose \cap stopped
    /\ \A r \in Requests : pc[r] = "serving" => lease[r] # runtime
    /\ toClose' = toClose \ {runtime}
    /\ UNCHANGED <<clock, row, used, entries, requests, worker, closer, stopped>>

CloseReturns ==
    /\ closer = "closing" /\ toClose = {}
    /\ closer' = "closed"
    /\ UNCHANGED <<clock, row, used, entries, requests, worker, toClose, stopped>>

CloseHubs ==
    \/ Collect \/ CloseReturns
    \/ \E runtime \in Requests : CloseHub(runtime) \/ HubClosed(runtime)

-----------------------------------------------------------------------------

Advance ==
    /\ clock < MaxTime
    /\ clock' = clock + 1
    /\ UNCHANGED <<row, used, entries, requests, worker, closing>>

(* Here nobody closes the registry; module Server adds RefuseClosed.       *)
Acquire(r) ==
    \/ WaitAtGate(r) \/ LeaseLive(r) \/ BeginLoad(r)
    \/ LoadDone(r) \/ LoadFails(r)

Request(r) ==
    \/ Arrive(r) \/ ResolveSession(r) \/ CreateSession(r) \/ ResolveFails(r)
    \/ Acquire(r) \/ Cancel(r) \/ BeginHandler(r) \/ Release(r)

Sweep ==
    \/ \E l \in Labs : SkipInUse(l) \/ DeleteIfIdle(l)
    \/ DeleteExpiredLab \/ DeleteFails \/ Evict

WorkerRound == (\E l \in Labs : TickOne(l)) \/ Sweep

RunWorker ==
    \/ WorkerFails \/ TickAll \/ WorkerRound
    \/ \E now \in 0..clock : ExpiredLabs(now)

(* The end of a bounded run.                                               *)
Quiescent ==
    /\ worker = Stopped /\ \A r \in Requests : pc[r] = "done"
    /\ UNCHANGED vars

Next ==
    \/ Advance \/ RunWorker \/ Quiescent
    \/ \E r \in Requests : Request(r)

SafetySpec == Init /\ [][Next]_vars

(* Database calls and ticks end, so a load and a round of the worker do.   *)
(* Its select takes the cleanup ticker again and again, however often      *)
(* ticks are ready, with the current instant.  No lease has to be given    *)
(* back and no request has to come.                                        *)
Spec ==
    /\ SafetySpec
    /\ \A r \in Requests : WF_vars(Acquire(r))
    /\ WF_vars(WorkerRound) /\ SF_vars(ExpiredLabs(clock))

-----------------------------------------------------------------------------
(* Properties                                                              *)

Holds(r, l) == pc[r] \in {"leased", "serving"} /\ lab[r] = l

(* The leases an entry should count, the worker's among them.              *)
Leases(l) ==
    Cardinality({r \in Requests : Holds(r, l)})
      + (IF worker.step = "ticking" /\ l \in worker.todo THEN 1 ELSE 0)

(* All who use a laboratory use one manager, the one later requests would  *)
(* be given, its entry counts them, and until the registry closes its hub  *)
(* is open: although loads coalesce, fail and are cancelled and an         *)
(* eviction comes between two requests (registry.go:63-133, 162-199).      *)
OneManagerPerLab ==
    /\ \A l \in Labs : entries[l] # None => entries[l].refs = Leases(l)
    /\ \A r \in Requests, l \in Labs : Holds(r, l) =>
         /\ entries[l] # None /\ entries[l].runtime = lease[r]
         /\ ~closed => lease[r] \notin stopped

(* No laboratory is deleted while someone uses it, however long ago it     *)
(* expired (DeleteIfIdle, registry.go:174-178).                            *)
UsedLabsKept == \A r \in Requests, l \in Labs : Holds(r, l) => row[l] # None

(* A request finds no laboratory to load only if more time passed since it *)
(* was resolved than renewal leaves every session at least:                *)
(* cleanup that chose its candidates before the renewal, and the gap       *)
(* between resolving and acquiring, cost nobody a laboratory               *)
(* (ResolveSession and DeleteExpiredLab, session_store.go:41-106).         *)
ResolvedLabKept ==
    \A r \in Requests : pc[r] = "loading" /\ row[lab[r]] = None =>
        clock - at[r] > SessionTTL - SessionRefreshInterval

(* Whoever asks for a laboratory gets a lease or an answer: no wake-up is  *)
(* lost when loads are cancelled or fail and deletions fail                *)
(* (registry.go:76-86, 109-128, 190-197).                                  *)
AcquireAnswered ==
    \A r \in Requests :
        pc[r] \in {"acquire", "waiting", "loading"} ~> pc[r] \in {"leased", "serving", "done"}

(* An expired laboratory goes, in memory or not, unless it is used or      *)
(* renewed or the worker ends (runWorkers, main.go:127-140).               *)
ExpiredLabsGo ==
    \A l \in Labs :
        (row[l] # None /\ row[l].lab <= clock)
          ~> \/ row[l] = None \/ row[l].lab > clock
             \/ \E r \in Requests : lab[r] = l /\ pc[r] \notin {"idle", "done"}
             \/ worker = Stopped

=============================================================================
