# Omenpath Research Lab: TLA+ specifications and proofs

This directory specifies the server of the Omenpath Research Lab
(`internal/`, `cmd/server`): a multi-session simulation in which an operator
sends observers through portals that close, drain and collapse on their own
schedule. Paths below are relative to the repository root.

## 1. The system

| Component | State it keeps | Operations | Talks to |
|---|---|---|---|
| Simulation aggregate (`internal/domain`) | portals, observers, planes, laboratory energy and Leyline Override deadline, natural generator, `LastTickAt` | `ResolveTick(now)`; stabilize, close, send, recall, open extraction | pure; called by `LabManager` |
| `LabManager` (`internal/engine/manager*.go`, `ownership.go`) | the snapshot in memory, a context-aware mutex, a checkpointable random source, an update edge | `Tick`, `Run`, `State`, `PortalState`, `Events`, five commands | aggregate, repository, hub |
| Tutorial (`internal/engine/tutorial*.go`, `domain/tutorial.go`) | step, target portal, plane, observer, mode | UI signals, hooks in tick and command, start, reset, start live | inside `LabManager` |
| Repository (`internal/persistence`) | one SQLite file: laboratories, sessions, snapshot rows, events | `Load`, `Commit`, `ResetTutorial`, session create, resolve, expire | `LabManager`, sessions |
| Realtime hub (`internal/realtime`) | clients with one-slot queues, a bridge goroutine, a sequence number | register, unregister, capture, publish, close | `LabManager.State`, `Updates` |
| Runtime registry (`internal/labruntime`) | per laboratory: runtime, lease count, busy gate | `Acquire`, `Release`, `TickAll`, `DeleteIfIdle`, `Close` | managers, hubs, store |
| Sessions (`internal/session`, `session_store.go`, middleware) | token hashes with expiry | `Resolve`, renewal, expiry | store, registry |
| Server (`cmd/server/main.go`) | workers, HTTP server | tick and cleanup loop, shutdown sequence | all |
| HTTP API, transport, recommendations | none | one manager call per request, read models | `LabManager` |
| Web client (`web/src`) | latest snapshot, connection health | REST, WebSocket, reconnection | API, hub |

What is hard in it, and where:

* **Late ticks.** A tick may come at any time after the previous one (a busy or
  restarted process). Everything that became due in between must be resolved as
  of its own instant and in an order that gives the result punctual ticks would
  have given: portal ends, arrivals, research, synchronizations, collapses that
  each empty the laboratory and restart the override.
* **A tick must never fail.** `ResolveTick` validates the whole aggregate first,
  and one failing laboratory stops the worker and with it the server
  (`cmd/server/main.go:124`). Whatever sequence of commands and ticks occurred,
  the aggregate must validate at every later instant.
* **Ties and boundaries.** A natural close wins every tie, depletion beats the
  hidden collapse, an arrival at the instant its portal ends survives, the
  override window is half open, the generator pauses at the last slot.
* **One owner, several callers.** Ticks, reads and commands queue for one mutex;
  callers give up; commits fail; the process dies between commit, publication
  and answer; ticks carry an old instant; the wall clock is stepped back.
* **Realtime.** Handlers and the bridge capture at the same time and offer in any
  order; edges coalesce, captures fail after the edge was taken, reads publish
  without one; a slot is emptied between two selects of its writer; `Close`
  meets handlers at every point.
* **Leases against cleanup.** Loads coalesce at a gate that failed loads, failed
  deletions, cancellations and shutdown must all reopen; cleanup chooses its
  candidates, then sessions are renewed, then it deletes.
* **Shutdown.** Server, worker, registry and store go down one after another; any
  of them may fail first, and requests that were given up keep running.
* **A scripted tutorial in a laboratory that lives on.** Its prepared portals
  expire, collapse, are closed or used in the wrong direction, and each
  replacement takes one more slot.
* **Events derived, not recorded.** The log is the difference of two states; a
  late tick shows only the two ends of several transitions.

`PROJECT.json` lists every hazard at its line with the properties that cover it.

## 2. Modules

| Module | Models |
|---|---|
| `Simulation` | the domain aggregate: `ResolveTick` stage by stage with its validation, and the five commands |
| `SimulationProofs` | theorems about `Simulation`: its inductive invariant, types, ticks that never fail, transits, history |
| `SimulationStepProofs` | theorems about `Simulation`: the laboratory's energy and override, losses, exploration, the generator, synchronization |
| `NumberLemmas` | minimum and maximum of a bounded set of naturals |
| `LabManager` | the manager over its repository: mutex, resolution, commit, publication, failure, crash, reload |
| `CommandLedger` | abstract specification of what the manager promises its callers |
| `LabManagerProofs` | theorems about `LabManager`, the refinement of `CommandLedger` among them |
| `MCLabManager` | symmetry of the calls, for TLC |
| `EventLog` | extends `Simulation`: the events every step is found to have caused |
| `EventLogProofs` | theorems about `EventLog`: when its events are dated, and that each is there once |
| `Tutorial` | extends `Simulation`: the ten-step script, its hooks, signals, reset and the way into Live |
| `TutorialProofs` | theorems about `Tutorial`: the target, the awaited return, ticks that never fail |
| `MCTutorialSlots` | the tutorial with its own numbers and an operator who keeps to the highlighted portal |
| `Hub` | the realtime hub of one laboratory: clients, bridge, snapshots, close |
| `HubProofs` | theorems about `Hub` |
| `Registry` | runtimes, leases, sessions, the worker's ticks and cleanup |
| `RegistryProofs` | theorems about `Registry`, and those about `Server` that rest on them |
| `Server` | extends `Registry`: start, failure and shutdown of the process |

How they fit together: `Simulation` is the laboratory; `EventLog` and `Tutorial`
are compositions with it. `LabManager` is the owner of one laboratory; `Hub`
sees it as a version number with an update edge (the `updates` variable of
`LabManager`); `Registry` makes, leases and evicts pairs of manager and hub and
uses of `Hub` only what `Hub` shows: that `Close` cancels handlers and returns
when they are gone. `Server` adds the HTTP server and the order of shutdown.

### Simulation

State: `portals` (all portals ever opened, by ID), `nextPortalID`, `observers`,
`exploredAt` (per plane), `lab`, `spawn`, `tickAt` (`LastTickAt`). Records keep
the Go field names in short form (`collapseAt` is `InstabilityCollapseAt`,
`syncedAt` is `ExtractionSynchronizedAt`, `startedAt`/`endsAt` are the phase
instants); an absent pointer is `Nil`.

`Tick(now)` is the whole of `ResolveTick`: `TickResolves(now)` is "no error"
(`ValidState` is the validation, `CollapseOrderOK` the refusal in
`ActivateLeylineOverride`, `SyncAdmitted` the refusals of a recall at
synchronization); then portals (`ResolvedPortals`), the override
(`ActivateLeylineOverride`), observers (`ResolvedObservers`), planes
(`ExploredPlanes`), synchronization (`SyncDue`, `AutoRecalls`, `Recalled`) and
the generator (`ResolveNaturalSpawn`), in that order. A command is executed by
the manager as `ResolveTick(now)` followed by the command at the same `now`;
since a second resolution of the same instant changes nothing (`TickAgain`), it
is the step `Tick(now)` followed by the command's own step at `tickAt`, and a
rejected command is the tick alone. The guards of `Stabilize`, `ClosePortal`,
`SendObserver`, `RecallObserver` and `OpenExtraction` are the checks of the
code; drawn values are existential choices from the configured ranges.

Abstractions: time is in whole seconds and energy in whole units (the code has
nanoseconds and floats; instants between two seconds are rounded down). Names,
creation stamps and identity checks that hold by the shape of the state
(unique IDs, existing planes) are left out. The number of planes (85) and slots
(7) are parameters. Derived read models are not part of the state.

### LabManager

State: `mem` and `db` are the snapshot in memory and in the store, `log` the bag
of committed events, `holder` the owner of the mutex, `work` its working copy,
`rng` how far the random source has advanced, `updates` the capacity-one edge
channel, and per call a program counter, kind and answer. The snapshot is
reduced to what the manager's own logic depends on: `LastTickAt`, the collapse
instants still ahead, the override deadline, the commands it includes and how
many random numbers it rests on. What a tick or command does to those is a
choice bounded by what `Simulation` can do.

A call is `Call`, `LockContext` (or `Cancel`), then `ResolveStale`,
`ResolveTick` or `ApplyCommand`, then `Commit` or `CommitFails`, then `Publish`;
`Crash` may come between any two and `NewLabManager` reloads the store.
`Commits` is the decision not to write a resolution that only moved
`LastTickAt`. TICK and STATE read the clock under the mutex; RUN carries an
instant captured before (`LabManager.Run`). The model is the LIVE laboratory;
tutorial hooks are not in it.

`CommandLedger` has only commands, decisions and replies. `LabManager`
implements it with the store as the witness: the decision of a command is read
off `db` and `log`, so its moment is the commit.

### EventLog

`log` is the bag of events; a step of `Simulation` adds
`EventsForStateTransition`, the comparison of the unprimed with the primed state,
event by event as in `event_transition.go`. The code compares once for the tick
and once for the command, the model once per step of `Simulation`, which are
exactly these two. Left out: the order of events stored together
(`eventDraftLess`), messages and payloads, and the override events, which
`LabManager` derives.

### Tutorial

`app` is `domain.AppState`. An operation holds the manager's mutex throughout and
works on a copy, so the model takes it apart into steps with nothing in between:
`stage` says how far it is and `saved` what it started from: a failing hook, that
of the command too, goes back there and discards the tick with it.
`Resolve(now)` is the tick at the operation's instant; `Read` ends a read there,
as reads do not advance the tutorial; `AfterTick` is `advanceTutorialAfterTick`,
after which a tick is over and a command, a signal or `StartLive` goes on at the
same instant; `AfterCommand` is `advanceTutorialAfterCommand`. The hooks are
operators on a draft (portals, next ID, `app`, error), in the order of the code;
`Apply` publishes a draft without error, `RollBack` discards one with an error.
The natural generator is paused after every operation, as `prepareTutorialSpawn`
does before every one. `SendRejected` is the one rejected command that changes
something, the SEND refused as CRITICAL that step 5 waits for; every other
rejection is the settled tick. `ResetTutorial` restarts the model's clock with
the laboratory, since nothing of the past remains. `StartTutorial` changes
nothing in TUTORIAL mode and is a rejection in LIVE. After `StartLive` the
laboratory is `Simulation` again; here only its validity is checked.

### Hub

A snapshot is its sequence number and the version of the state it shows. Each
handler and the bridge have a program counter. `Capture` and `Number` are the two
halves of `capture` under `snapshotMu`; `Publish`, `OfferLocked` and `Replace`
run under `mu`, while the handler's `Take` does not, so a slot may be emptied
between the selects of `offerLocked` (its second and third select are one step,
since only the holder of `mu` sends). `Close` is three steps: mark and take the
clients under `mu`, cancel outside it, wait. The manager's `Tick` raises the edge
even if nothing visible changed (`LastTickAt` moved), `Read` changes the state
without an edge.

### Registry and Server

`entries` is the registry's map: the runtime (named after the request that loaded
it), the lease count and the busy gate. `Woken` is the closing of a gate. A
request goes from its cookie through `ResolveSession` or `CreateSession` to
`Acquire`, cut where the code releases `Registry.mu` (at the gate and for the
database), and to `Release`; a WebSocket is then served by the hub until it
ends. The worker's `TickAll`/`TickOne` hold leases; `ExpiredLabs`, `DeleteIfIdle`,
`DeleteExpiredLab` and `Evict` are the cleanup, with `now` the instant at which
the ticker fired, which may be old. A laboratory has one session, so a cookie is
the name of its laboratory; renewal moves both expiries in one transaction.

`Server` adds the phases of `runServices`. `Shutdown` waits for requests that are
neither idle nor hijacked, or gives up (`ShutdownTimesOut`), after which abandoned
requests run on. `http.Server` is external and modelled from that use.

## 3. Runs

| Run | Configuration | What it shows |
|---|---|---|
| `sim_emergency` | one observer, two slots, three portals, unstable portals with every hidden collapse instant, creatures, 5 s | `TickNeverFails`; the override and the energy follow the latest collapse; a transit is lost exactly when its portal ends before the arrival; ended things stay as they ended; the generator is paused exactly at capacity |
| `sim_extraction` | two observers, three slots, natural and extraction portals, 9 s | `TickNeverFails`; transits stay alone in open portals; planes are dated once by the earliest return; synchronization serves the longest waiting |
| `sim_late_recall` | as above, longer research | **violated**: `ReturnFollowsResearch` |
| `sim_late_return` | as above, transits of 1 to 3 s | **violated**: `ExploredAtFirstReturn` |
| `manager_override` | three interchangeable calls, windows of 2 s in 4 s, one failed commit, one crash | memory and store agree; `LEYLINE_OVERRIDE_ENDED` is logged exactly once per window that runs out |
| `manager_calls` | two calls, a random draw, a clock stepped back, one failed commit, one crash | the manager implements `CommandLedger`; random numbers are given back; time never runs back; every caller is answered |
| `events` | one observer, two slots, three portals, natural and extraction, 7 s, ticks late by any amount | every transition is in the log exactly once and dated within the life of its portal |
| `tutorial` | two observers, three slots, six prepared portals, all commands, reads, resets and late ticks, 6 s | the step's portal is offered again after whatever ended or reversed it; step 7 waits for somebody really on the way home; `ResolveTick` never refuses the laboratory (the hook after it is the subject of `tutorial_slots`) |
| `tutorial_slots` | four slots, the tutorial's own numbers in units of 5 s | **violated**: `ScenarioRepaired` |
| `hub` | two clients, two ticks, one visible change, `Close` called any number of times | no client goes back to an older state; the newest snapshot is never the one dropped; every connected client catches up; every `Close` returns, with nothing left running |
| `registry` | three requests, one of them a WebSocket, two laboratories, sessions of 2 s renewed after 1 s | one manager per laboratory; no laboratory in use or renewed in time is deleted; nobody waits for ever at a gate; expired laboratories go |
| `server` | one request, one WebSocket, two laboratories, any failure first | shutdown completes, closes every hub, and the store last |

Bounds. `MaxTime` and `MaxPortals` bound the laboratory's history,
`MaxDraws`, `MaxCrashes`, `MaxFailures` and `MaxStepsBack` the manager's. Two
slots suffice to fill the laboratory, free a lower slot and refill it; three
portals suffice for two collapses in one tick followed by a third portal that
reuses a slot; one plane makes observers and extraction portals compete. Ranges
that the properties do not distinguish are single values. Because `Tick` may
jump from any instant to any later one, each run contains all schedules of
punctual and late ticks up to `MaxTime`. In `LabManager` three calls suffice for
a resolution that is not committed, one that fails or is cut off, and one that
repeats the work; two portals for a restarted window. Calls are interchangeable,
which the safety run uses as symmetry; the run with a liveness property does not.

For the tutorial, three slots make the slots scarce without making the script
impossible, two observers let the recalled observer differ from the tracked one,
and six portals admit every step and one replacement; the step-4 and step-5
portals have numbers of their own so that their risk bands are reached. Energy
is kept at one command's cost, so the script is interrupted where the operator
cannot pay. `tutorial_slots` needs the real proportions, since it is about how
many portals are open at the same time; four slots instead of seven shorten it
by three commands. In `Hub` two clients suffice for a registered and an
unregistered one, two ticks for an edge lost and the one that makes up for it,
and one version for old and new. In `Registry` two requests meet at a gate while
a third holds a lease or arrives after an eviction; a second laboratory is what
an expired cookie gets; a session lasts for two instants, so that one renewal
fits before expiry. `Server` needs one request of each kind, as Shutdown treats
them differently.

Deadlock is checked in every run. `Simulation` can always resolve the same
instant again; `LabManager`, `Hub` and
`Registry` may stop only when every call, client or request is over
(`Quiescent`), `Server` once the process has exited.

Fairness. Safety runs assume none. `EveryCallerAnswered` assumes weak fairness
of each call's own steps (`Serve`): the Go scheduler runs every runnable
goroutine, the holder of the token never waits for another caller, and the token
channel hands itself to waiting receivers in turn. Crashes, restarts, calls,
cancellation and the clock have no fairness.

`Hub` assumes weak fairness of every started goroutine (each mutex is held for a
bounded time, a write ends after five seconds) and of the worker's next tick;
nobody has to connect, leave or call `Close`. `Registry` assumes it of loads and
of the worker's rounds, because database calls and ticks end, and strong fairness
of the cleanup ticker: Go's select chooses among ready cases at random, so a case
that is ready again and again is taken. No lease has to be returned. `Server`
assumes weak fairness of `runServices`, loads, the worker and the closing of
hubs, that a WebSocket handler whose hub is closed releases its lease, and strong
fairness of the worker's select seeing its cancelled context. A plain request may
take for ever; that is what the five seconds are for.

Every property of a passing run is paired with a mutant of the modelled code
(`PROJECT.json`, `mutants`; the operators marked `mutant` in the modules) for
which TLC finds a violation.

## 4. Where code and documents disagree

* **`sim_late_recall`.** A tick later than both the synchronization and the end
  of some observer's research first finishes the research, then recalls that
  observer as of the synchronization instant (`internal/domain/extraction.go:199`).
  The return starts, and may end, before the research ended, although
  `internal/domain/observer_lifecycle.go:67-70` promises semantic timestamps for
  every transition.
* **`sim_late_return`.** Observers are resolved before extraction portals
  (`internal/domain/simulation.go:90`), so a return that synchronization starts
  in the past stays `RETURNING` past its end until the next tick. If another
  return is resolved first, it dates the plane, not the first one
  (`00_FINAL_SPEC_v5.md:548`). Until that next tick every command that checks
  the roster fails as well (`internal/domain/observer_commands.go:251`).

Both need a tick that is late by more than the phases involved, as after a
restart.

* **`tutorial_slots`.** While step 6 asks for a recall, each SEND through the
  highlighted portal opens another target and leaves the old one open
  (`internal/engine/tutorial.go:245`). The operator then recalls, closes that
  portal on the returning observer, and sends the replacement: when its research
  ends there is no slot for the portal to recall it through
  (`tutorial.go:140`), the tick fails, and with it the worker and the server.
  `00_FINAL_SPEC_v5.md:1010` promises that the portal is recreated and the step
  repeated after every wrong irreversible action.

Met on the way, without a run of their own: stabilizing the portal of step 4
twenty seconds or more after it opened leaves its risk HIGH, and the command is
rolled back with `ErrSimulationInvariant` and no `ACTION_REJECTED`
(`tutorial.go:201`); an automatic recall in the very tick in which the tracked
observer's research ends leaves the tutorial in WAIT_RESEARCH
(`tutorial.go:136`). `PROJECT.json` lists both among the hazards.

## 5. Proofs

TLC checks small instances; the theorems below hold for every value of the
constants that satisfies the assumptions: any configuration, any number of
observers, calls, clients, requests and laboratories, any bound on time,
crashes, failures and ticks. TLAPS checks them. `SafetySpec` is the
specification without fairness, so each theorem holds of the fair one too.

| Module | Theorem | Statement |
|---|---|---|
| `SimulationProofs` | `Inductive` | `Spec => []IInv` |
| | `TypeCorrect` | `Spec => []TypeOK` |
| | `TicksNeverFail` | `Spec => []TickNeverFails` |
| | `TransitsIntact` | `Spec => []TransitIntegrity` |
| | `HistoryIsFrozen` | `Spec => HistoryFrozen` |
| `SimulationStepProofs` | `LabInductive` | `Spec => []LabInv` |
| | `OverrideTracksCollapses` | `Spec => []OverrideTracksLatestCollapse` |
| | `EnergyRegenerates` | `Spec => []EnergyOnlyRegenerates` |
| | `LostOnlyByEarlierEnd` | `Spec => LostExactlyByEarlierEnd` |
| | `ExplorationIsDatedOnce` | `Spec => ExplorationDatedOnce` |
| | `GeneratorPausesAtCapacity` | `Spec => PausedExactlyAtCapacity` |
| | `LongestWaitingServed` | `Spec => SynchronizationServesLongest` |
| `EventLogProofs` | `LaboratoryInductive` | `LogSpec => []IInv` |
| | `LogInductive` | `LogSpec => []LogInv` |
| | `HistoryInLife` | `LogSpec => []HistoryWithinLife` |
| | `AccountInductive` | `LogSpec => []AccountInv` |
| | `EveryTransitionLoggedOnce` | `LogSpec => []LogAccountsForState` |
| `TutorialProofs` | `TutorialInductive` | `TutorialSpec => []TInv` |
| | `TargetIsOffered` | `TutorialSpec => []TargetOffered` |
| | `ReturnIsAwaited` | `TutorialSpec => []ReturnAwaited` |
| | `TutorialTicksNeverFail` | `TutorialSpec => []TutorialTickNeverFails` |
| `LabManagerProofs` | `Inductive` | `SafetySpec => []LInv` |
| | `TypeCorrect` | `SafetySpec => []TypeOK` |
| | `MemoryIsStored` | `SafetySpec => []MemoryMatchesStore` |
| | `RandomIsRestored` | `SafetySpec => []RandomMatchesState` |
| | `OverridesEndOnce` | `SafetySpec => []OverrideEndsOnce` |
| | `TimeMovesOn` | `SafetySpec => TimeNeverRunsBack` |
| | `LedgerImplemented` | `SafetySpec => LedgerKept` |
| `HubProofs` | `Inductive` | `SafetySpec => []HInv` |
| | `TypeCorrect` | `SafetySpec => []TypeOK` |
| | `NewestIsKept` | `SafetySpec => []NewestKept` |
| | `NothingIsLeft` | `SafetySpec => []CloseLeavesNothing` |
| | `ClientsNeverGoBack` | `SafetySpec => NeverGoesBack` |
| `RegistryProofs` | `Inductive` | `SafetySpec => []IInv` |
| | `OneManager` | `SafetySpec => []OneManagerPerLab` |
| | `UsedLabsAreKept` | `SafetySpec => []UsedLabsKept` |
| | `ResolvedLabsAreKept` | `SafetySpec => []ResolvedLabKept` |
| | `ServerInductive` | `ServerSpec => []SInv` |
| | `StoreLast` | `ServerSpec => []StoreClosedLast` |
| | `HubsClosedFirst` | `ServerSpec => []EveryHubClosed` |
| | `RegistryHoldsInServer` | the registry's three properties under `ServerSpec` |

### Assumptions

`Simulation`: `ConfigTypes` and `ConfigValid` are what `validSimulationConfig`
accepts. `ExtractionUsable` says that an extraction portal drawn from the
configuration is not CRITICAL when it synchronizes. The default configuration
satisfies it, the code does not demand it, and without it a tick can fail: the
recall at synchronization is refused and the whole tick with it.

`Tutorial`: `TutorialLiterals` are the types of the numbers written into
`tutorial.go` (energy 100, decay 0.1 and 120 s; 25, 1 and a collapse after 119 s
in step 4; 10 s in step 5; three creatures). `TutorialUsable` says that they fit
the configuration: a prepared portal passes the validation of `ResolveTick`, and
the one of step 5 is CRITICAL when it opens. The default configuration satisfies
it; `validSimulationConfig` does not demand it, and under a configuration that
does not, preparing a step would make the next tick fail.

`Registry` and `Hub` assume finitely many requests and clients, since leases
and sequence numbers are counted; the registry also that the refresh interval
is positive and shorter than the lifetime of a session. The remaining
assumptions (`RegistryNames`, `HubProcesses`, `ManagerNames`) say that the names
standing for "nobody", "nothing", the worker and the bridge are not those of a
request, client, laboratory or record.

### Simulation

`TickNeverFails` is not inductive: that the aggregate validates at
`tickAt` says nothing of a portal whose end is already past but not resolved, nor
of an extraction portal whose future synchronization might be refused. `IInv`
adds, for every portal, that an OPEN one is not past its end at `tickAt`
(`NotPast`), that an extraction portal still has the energy, flow and lifetime
it was opened with (`ExtractionFresh`), and that slots of OPEN portals differ;
for every observer, that whoever travels does so alone, in an OPEN portal of
the right plane (`TravelsWell`). A tick is proved stage by stage, one lemma per
stage (`PortalStage`, `ObserversStage`, `SyncAlwaysAdmitted`,
`SynchronizedGood`, `RecalledGood`, `SpawnStage`, `LabStage`, `ExploredStage`),
composed in `TickPreserves`; each command has its own lemma. `IInvResolves`
derives from `IInv` that a tick at any later instant resolves: validity is
preserved as `now` grows, no collapse predates the energy baseline because
nothing overdue is left at `tickAt`, and each synchronization is admitted
because the portal is fresh and empty.

The action properties of `SimulationStepProofs` follow from `IInv` and the same
stages, step by step. The two properties of the laboratory need `LabInv`, which
says them of the set of recorded collapse instants: only a tick adds to that set,
and because nothing overdue is left at `tickAt`, what it adds is later than
everything in it.

### EventLog

`LogSpec` takes the steps of `Simulation`, so `IInv` holds in it too.
`HistoryWithinLife` is not inductive: a portal that ends now must not end before
what the log already says of it, and an arrival is dated with the end of the
transit. `LogInv` adds that no event lies after `LastTickAt` and no transit began
before its portal opened.

`LogAccountsForState` counts copies in the bag, as the cardinality of the set of
pairs of an event and a copy's number. Appending the events of a step adds one
pair for each of them (`CountStep`), so the proof has to say, for every type, how
many events of a portal, an observer or a plane one step yields: one or none,
depending only on the two states (`ObserverAdds`, `OldPortalAccount`,
`NewPortalAccount`, `PlaneAccount`). `Moves` lists the pairs of statuses one
step can produce, those that a late tick reaches by crossing several transitions
included, and `BalanceKept` is the arithmetic over that list. Two facts had to be
added to make it inductive. Somebody OUTBOUND is owed an arrival and somebody
RETURNING a return: the property adds the two balances up, and a sum would allow
an arrival to settle a return. And the log knows nothing of a portal that does
not exist yet, which is part of `LogInv`.

### Tutorial

None of the three properties is inductive, and none can be said of the state in
the middle of an operation: after the tick the target may have ended, and after
the command it may have been used up, until the hook repairs it. `TInv` therefore
describes both ends. `Offer` says what the target is like up to what the
operation's own command (`Did`) has just done to it: that it exists on the step's
plane, is UNSTABLE in step 4 unless this command stabilized it, is STABLE and
CRITICAL in step 5, and was not used in the wrong direction by anybody else in
step 6. `Follow` says where the observer of step 7 can be: RETURNING, LOST, or
home with the plane explored. `Departed` says that a SEND or RECALL left somebody
in the corridor it names, so the hook finds whom it tracks. `SavedSound` says the
same of the laboratory and the script the operation started from, to which a
failing hook rolls back and which need not be what the current hooks looked at.

The laboratory's `IInv` is carried through the hooks as well: a prepared portal
is one more portal to validate (`PreparedGood`, `AddedGood`), the closing of an
unused one is the close of `Simulation` (`ClosedGood`). The target of step 5
stays CRITICAL because risk only grows while nothing feeds the portal
(`RiskMonotone`, `CriticalFromTheStart`), and Stabilize refuses a STABLE portal.
Each hook has a lemma (`CorridorHook`, `ResearchHook`, `ReturnHook`, `TickHook`,
`CommandHook`), each action another (`ResolveGood`, `AfterTickGood`,
`TutorialCommandGood`, `AfterCommandGood`, `SignalGood`, `StartLiveGood`,
`ResetGood`). That a hook can fail for want of a slot is no contradiction: the
operation is then rolled back, and it is what `tutorial_slots` exhibits.

### LabManager

`LInv` relates five things that move at different steps: memory, the working
copy, the store, the random source and the log. Its parts are the mutex
(`Mutex`), the position of the random source (`Random`), what memory and the
store have in common (`Stored`, `Ahead`), whether and how a command was decided
(`Decided`, `Verdicts`), and the override (`Pending`, `Drafted`, `Deadline`,
`Ended`, `Quiet`). The last group is what `OverrideEndsOnce` needs. A resolution
that only moved `LastTickAt` is not committed, so memory runs ahead of the store;
the end of a window is nevertheless neither skipped nor logged twice, because the
stored deadline is that of the last window logged (`Deadline`), exactly what ended
by the stored `LastTickAt` is in the log (`Ended`), and no window ends between the
stored instant and the one in memory (`Quiet`): a resolution that crosses an end
drafts an event and is committed.

`LedgerImplemented` shows that every step of the manager is a step of
`CommandLedger` or leaves its variables alone. The commit is the decision;
that no command is decided twice, or decided and answered otherwise, is
`Decided` and `Verdicts`.

### Hub

`NeverGoesBack` compares versions, while `offerLocked` compares sequence numbers.
What links them is `Versions`: of any two snapshots still able to reach a client,
the one with the higher number is not older, because the state is read and
numbered under one hold of `snapshotMu`. `Slots` says what the slot of a client,
the snapshot it took last and `lastSequence` have to do with each other, also
between the selects of `offerLocked`; `Numbering` bounds the sequence number by
what is left to capture, and gives `TypeOK`.

### Registry and Server

The registry's `IInv` says that reference counts are exactly the leases held
(`Counted`), that a load owns its entry (`LoadsOwn`), that a runtime in the map is
open, has a row and belongs to one laboratory (`RuntimesLive`, `RuntimesUnique`),
and that what is being deleted is used by nobody and closed to everybody
(`DeletesAlone`). `ResolvedLabKept` needs `Kept`: from the instant a session was
resolved for, its row outlives what renewal leaves it. All of it is proved for
every step the registry can take, those of `Close` included, so that
the theorems about `Server` reuse the lemmas; `SInv` adds the order of the phases, that
`Close` misses no runtime still loading when it began (`HubsClosing`), and
that nobody comes after `Shutdown` (`Quiet`).

### Only model-checked

* Liveness (`EveryCallerAnswered`, `LatestDelivered`, `CloseAlwaysReturns`,
  `AcquireAnswered`, `ExpiredLabsGo`, `ShutdownCompletes`): the prover does not
  handle fairness.

Every invariant and every safety action property of the passing runs is proved.
The assumptions can be satisfied: TLC evaluates them on the constants of every
run, which are scaled down. Only `tutorial_slots` uses the code's own numbers,
in coarser units; that `config.Default()` satisfies the assumptions was read off
the code.

## 6. Plan

Done: `Simulation`, `EventLog`, `Tutorial`, `LabManager` with `CommandLedger`,
`Hub`, `Registry` and `Server`, each with its runs and its proofs.

Worth adding: the web client's ordering of REST against WebSocket snapshots, as a
module over `Hub`; the order of the events stored together (`eventDraftLess`),
as a sequence instead of the bag of `EventLog`; the codecs of
`internal/persistence`, if the encoding of a snapshot gains versions.

## 7. Not modelled

SQL, migrations and row encoding appear only as atomic transactions. HTTP
decoding, error mapping, static files, view models, recommendations, attention
and action availability hold no state of the laboratory: one manager call per
request, and pure functions of its snapshot. Token encoding, hashing and cookie
attributes are left out of sessions. The order of events that are stored
together is left out of `EventLog`. Values drawn at random are nondeterministic;
their distribution is not modelled. The web client is a program of its own; its
reconnection and its ordering of REST against WebSocket snapshots would be a
module over `Hub`, its presentation is out of scope.
