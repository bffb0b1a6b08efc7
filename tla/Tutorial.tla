------------------------------ MODULE Tutorial ------------------------------
(***************************************************************************)
(* The tutorial of one laboratory (engine/tutorial.go,                     *)
(* engine/tutorial_lifecycle.go, domain/tutorial.go): a state machine of   *)
(* ten steps that prepares a portal for each exercise and watches what the *)
(* ticks and the operator's commands do to it.  The laboratory underneath  *)
(* is module Simulation, whose actions are the ticks and the commands.     *)
(*                                                                         *)
(* An operation works on a copy of the laboratory and holds the manager's  *)
(* mutex throughout, so its parts follow one another with nothing between: *)
(*   stage "ticked"     ResolveTick is done, advanceTutorialAfterTick is   *)
(*                      next (or nothing, when the operation is a read);   *)
(*   stage "settled"    the hook is done: a tick ends here, a command, a   *)
(*                      signal or StartLive goes on at the same instant;   *)
(*   stage "commanded"  the command is applied, advanceTutorialAfterCommand*)
(*                      is next;                                           *)
(*   stage "open"       anywhere else, no operation is under way.          *)
(* A hook that returns an error discards the copy, the tick of a command   *)
(* included: the state is again what it was when the operation started,    *)
(* kept in saved.                                                          *)
(*                                                                         *)
(* A rejected command changes nothing but, in step 5, the tutorial itself; *)
(* every other rejection is the settled tick alone.                        *)
(***************************************************************************)
EXTENDS Simulation

CONSTANTS
    TutorialEnergy, TutorialDecay,   \* every prepared portal
    TutorialTTL,                     \* all but the one of step 5
    TutorialCreatures,               \* steps 1 and 2
    UnstableEnergy, UnstableDecay, UnstableCollapse,      \* step 4
    CriticalTTL                      \* step 5

ASSUME TutorialLiterals ==
    /\ {TutorialEnergy, TutorialTTL, TutorialCreatures, UnstableEnergy,
        UnstableCollapse, CriticalTTL} \subseteq Nat
    /\ {TutorialDecay, UnstableDecay} \subseteq Nat \ {0}

VARIABLES
    app,      \* domain.AppState: mode, step, phase, target, plane, observer
    stage,    \* where the operation under way is
    op,       \* the command under way: its action, portal, outcome, portals before
    saved     \* what the operation under way started from

tutorialVars == <<vars, app, stage, op, saved>>

Phases == {"NONE", "SEND_REPLACEMENT", "WAIT_RESEARCH", "RECALL_READY"}

AppState ==
    [mode: {"TUTORIAL", "LIVE"}, step: 0..9, phase: Phases,
     portal: Nat \cup {Nil}, plane: Planes \cup {Nil}, observer: Observers \cup {Nil}]

NoOp == [action |-> "NONE", portal |-> Nil, critical |-> FALSE, before |-> << >>]
NotSaved == << >>

Snapshot ==
    [portals |-> portals, nextPortalID |-> nextPortalID, observers |-> observers,
     exploredAt |-> exploredAt, lab |-> lab, tickAt |-> tickAt, app |-> app]

Canonical(mode, step) ==
    [mode |-> mode, step |-> step, phase |-> "NONE",
     portal |-> Nil, plane |-> Nil, observer |-> Nil]

-----------------------------------------------------------------------------
(* Prepared portals.  A hook computes its outcome on a draft: the portals, *)
(* the next ID, the tutorial's own state and the error it returns.         *)

NewTutorialPortal(step, plane, slot, now) ==
    LET plain == NewPortal("NATURAL", plane, slot, now,
                           IF step = 5 THEN CriticalTTL ELSE TutorialTTL,
                           TutorialEnergy, TutorialDecay)
    IN CASE step \in {1, 2} -> [plain EXCEPT !.creatures = TutorialCreatures]
         [] step = 4 ->
              [plain EXCEPT !.energyBase = UnstableEnergy, !.decay = UnstableDecay,
                            !.stability = "UNSTABLE",
                            !.collapseAt = now + UnstableCollapse]
         [] OTHER -> plain

(* The literals of the code fit its default configuration: a prepared      *)
(* portal passes ResolveTick's validation, and the one of step 5 is        *)
(* CRITICAL from the start.  validSimulationConfig does not demand it.     *)
ASSUME TutorialUsable ==
    /\ 0 < TutorialTTL /\ 0 < CriticalTTL
    /\ TutorialEnergy <= MaxPortalEnergy /\ UnstableEnergy <= MaxPortalEnergy
    /\ TutorialCreatures <= CreatureMax
    /\ UnstableCollapse \in InstabilityMinLifetime
                             .. TutorialTTL - InstabilityCloseMargin
    /\ RiskCritical(NewTutorialPortal(5, 1, 1, 0), 0)

Draft == [ps |-> portals, next |-> nextPortalID, app |-> app, err |-> "none"]

Failing(t, err) == [t EXCEPT !.err = err]

UnexploredPlanes == {pl \in Planes : exploredAt[pl] = Nil}

firstTutorialPlane == IF UnexploredPlanes = {} THEN Nil ELSE Min(UnexploredPlanes)

createInNextSlot(t, step, plane) ==      \* mutant: gaps overlooked
    LET at == IF plane = Nil THEN firstTutorialPlane ELSE plane
    IN CASE at = Nil -> Failing(t, "ErrSimulationInvariant")
         [] at # Nil /\ AtCapacity(t.ps) -> Failing(t, "ErrNoFreePortalSlot")
         [] OTHER ->
              [t EXCEPT
                 !.ps = [i \in 1..t.next |->
                           IF i = t.next
                           THEN NewTutorialPortal(step, at, SlotByCount(t.ps), tickAt)
                           ELSE t.ps[i]],
                 !.next = t.next + 1, !.app.portal = t.next, !.app.plane = at]

createTutorialTarget(t, step, plane) ==
    LET at == IF plane = Nil THEN firstTutorialPlane ELSE plane
    IN CASE at = Nil -> Failing(t, "ErrSimulationInvariant")
         [] at # Nil /\ AtCapacity(t.ps) -> Failing(t, "ErrNoFreePortalSlot")
         [] OTHER ->
              [t EXCEPT
                 !.ps = [i \in 1..t.next |->
                           IF i = t.next
                           THEN NewTutorialPortal(step, at, FirstFreeSlot(t.ps), tickAt)
                           ELSE t.ps[i]],
                 !.next = t.next + 1, !.app.portal = t.next, !.app.plane = at]

HasTarget(t) == t.app.portal \in DOMAIN t.ps
Target(t) == t.ps[t.app.portal]

(* The status of the observer the tutorial follows.                        *)
Tracked(t) == IF t.app.observer = Nil THEN "NOBODY" ELSE observers[t.app.observer].status

(* The steps and phases whose target is prepared again when it has ended.  *)
Prepared(a) ==
    \/ a.step \in 1..5
    \/ a.step = 6 /\ a.phase \in {"RECALL_READY", "SEND_REPLACEMENT"}

recreateTerminalTutorialTarget(t) ==
    IF t.err = "none" /\ HasTarget(t) /\ ~IsOpen(Target(t)) /\ Prepared(t.app)
    THEN createTutorialTarget(t, t.app.step, Target(t).plane)
    ELSE t

-----------------------------------------------------------------------------
(* advanceTutorialAfterTick                                                *)

OfferReplacement(t) ==
    createTutorialTarget([t EXCEPT !.app.step = 6, !.app.phase = "SEND_REPLACEMENT"],
                         6, t.app.plane)

OfferReturn(t) ==
    [createTutorialTarget(t, 6, observers[t.app.observer].plane) EXCEPT
       !.app.phase = "RECALL_READY"]

CorridorCleared(t) ==
    CASE ~HasTarget(t) -> Failing(t, "ErrSimulationInvariant")
      [] HasTarget(t) /\ IsOpen(Target(t)) /\ CreaturesInside(Target(t), tickAt) = 0 ->
           [t EXCEPT !.app.step = 3]
      [] OTHER -> t

ResearchFollowed(t) ==
    CASE Tracked(t) = "LOST" ->
           IF t.app.phase = "SEND_REPLACEMENT" /\ HasTarget(t) /\ IsOpen(Target(t))
           THEN t ELSE OfferReplacement(t)
      [] Tracked(t) = "WAITING_RETURN" /\ t.app.phase = "WAIT_RESEARCH" -> OfferReturn(t)
      [] OTHER -> t

ReturnFollowed(t) ==
    CASE Tracked(t) = "NOBODY" -> Failing(t, "ErrSimulationInvariant")
      [] Tracked(t) = "LOST" -> OfferReplacement(t)
      [] Tracked(t) = "AVAILABLE" /\ exploredAt[t.app.plane] # Nil ->
           [t EXCEPT !.app.step = 8, !.app.phase = "NONE", !.app.portal = Nil]
      [] OTHER -> t

advanceTutorialAfterTick(t) ==
    LET r == recreateTerminalTutorialTarget(t)
    IN CASE t.app.step = 0 \/ r.err # "none" -> r
         [] t.app.step = 2 /\ r.err = "none" -> CorridorCleared(r)
         [] t.app.step = 6 /\ r.err = "none" -> ResearchFollowed(r)
         [] t.app.step = 7 /\ r.err = "none" -> ReturnFollowed(r)
         [] OTHER -> r

-----------------------------------------------------------------------------
(* advanceTutorialAfterCommand.  op.before holds the portals before the    *)
(* command.                                                                *)

Matched(action) == op.action = action /\ ~op.critical /\ op.portal = app.portal

(* The observer the command has just put into the target's corridor.       *)
Traveller(status) ==
    CHOOSE o \in Observers : observers[o].status = status /\ observers[o].portal = op.portal

ObserverSent(t) ==
    createTutorialTarget(
      [t EXCEPT !.app.step = 4, !.app.observer = Traveller("OUTBOUND"),
                !.app.plane = Target(t).plane], 4, Target(t).plane)

(* The exercise shows a HIGH or CRITICAL risk brought down to MEDIUM or    *)
(* LOW, or it fails.                                                       *)
RiskLowered(t) ==
    /\ RiskScore(op.before[t.app.portal], tickAt) > 50 * RiskSafeHorizon
    /\ RiskScore(Target(t), tickAt) <= 50 * RiskSafeHorizon

PortalStabilized(t) ==
    IF RiskLowered(t)
    THEN createTutorialTarget([t EXCEPT !.app.step = 5], 5, Nil)
    ELSE Failing(t, "ErrSimulationInvariant")

enterTutorialStep6(t) ==
    LET six == [t EXCEPT !.app.step = 6]
    IN CASE Tracked(t) \in {"OUTBOUND", "EXPLORING"} ->
              [six EXCEPT !.app.phase = "WAIT_RESEARCH"]
         [] Tracked(t) = "WAITING_RETURN" -> OfferReturn(six)
         [] OTHER -> OfferReplacement(six)

ReplacementSent(t) ==
    [t EXCEPT !.app.observer = Traveller("OUTBOUND"), !.app.phase = "WAIT_RESEARCH"]

RecallKeepsTracked(t) ==       \* mutant: whoever comes home is not followed
    [t EXCEPT !.app.step = 7, !.app.phase = "NONE"]

ObserverRecalled(t) ==
    [t EXCEPT !.app.observer = Traveller("RETURNING"),
              !.app.step = 7, !.app.phase = "NONE"]

DirectionKept(t) == FALSE      \* mutant: a spoilt direction is not repaired

(* The operator has used the target against the direction the phase needs. *)
DirectionBroken(t) ==
    \/ t.app.phase = "RECALL_READY" /\ Matched("SEND")
    \/ t.app.phase = "SEND_REPLACEMENT" /\ Matched("RECALL")

Step6Commanded(t) ==
    CASE t.app.phase = "SEND_REPLACEMENT" /\ Matched("SEND") -> ReplacementSent(t)
      [] t.app.phase = "RECALL_READY" /\ Matched("RECALL") -> ObserverRecalled(t)
      [] DirectionBroken(t) -> createTutorialTarget(t, 6, Target(t).plane)
      [] OTHER -> t

advanceTutorialAfterCommand(t) ==
    CASE app.step = 5 /\ op.critical /\ op.portal = app.portal -> enterTutorialStep6(t)
      [] app.step = 3 /\ Matched("SEND") -> recreateTerminalTutorialTarget(ObserverSent(t))
      [] app.step = 4 /\ Matched("STABILIZE") ->
           recreateTerminalTutorialTarget(PortalStabilized(t))
      [] app.step = 6 -> recreateTerminalTutorialTarget(Step6Commanded(t))
      [] OTHER -> recreateTerminalTutorialTarget(t)

-----------------------------------------------------------------------------
(* Operations                                                              *)

TutorialInit ==
    /\ portals = << >> /\ nextPortalID = 1
    /\ observers = [o \in Observers |-> AtHome("AVAILABLE", 0)]
    /\ exploredAt = [pl \in Planes |-> Nil]
    /\ lab = [energyBase |-> LabEnergyMax, energyBaseAt |-> 0, overrideUntil |-> Nil]
    /\ spawn = SpawnPaused
    /\ tickAt = 0
    /\ app = Canonical("TUTORIAL", 0)
    /\ stage = "open" /\ op = NoOp /\ saved = NotSaved

Idle == stage \in {"open", "settled"} /\ app.mode = "TUTORIAL"

(* Bound: the last operation may open one portal more.                     *)
Room == nextPortalID <= MaxPortals

(* Every operation first resolves the laboratory at its own now, with the  *)
(* natural generator paused; at LastTickAt that changes nothing.           *)
Resolve(now) ==
    /\ Idle /\ Room
    /\ IF now = tickAt THEN UNCHANGED vars ELSE Tick(now)
    /\ stage' = "ticked" /\ saved' = Snapshot
    /\ UNCHANGED <<app, op>>

(* State, PortalState and Portal resolve but leave the tutorial where it   *)
(* is.  The schedule they may leave behind is cleared here, as the next    *)
(* operation clears it before it looks.                                    *)
Read ==
    /\ stage = "ticked"
    /\ spawn' = SpawnPaused
    /\ stage' = "open" /\ saved' = NotSaved
    /\ UNCHANGED <<portals, nextPortalID, observers, exploredAt, lab, tickAt, app, op>>

Apply(t, next) ==
    /\ t.err = "none"
    /\ portals' = t.ps /\ nextPortalID' = t.next /\ app' = t.app
    /\ spawn' = SpawnPaused
    /\ stage' = next /\ op' = NoOp
    /\ saved' = IF next = "settled" THEN saved ELSE NotSaved
    /\ UNCHANGED <<observers, exploredAt, lab, tickAt>>

RollBack(t) ==
    /\ t.err # "none"
    /\ portals' = saved.portals /\ nextPortalID' = saved.nextPortalID
    /\ observers' = saved.observers /\ exploredAt' = saved.exploredAt
    /\ lab' = saved.lab /\ tickAt' = saved.tickAt /\ app' = saved.app
    /\ spawn' = SpawnPaused
    /\ stage' = "open" /\ op' = NoOp /\ saved' = NotSaved

AfterTick ==
    /\ stage = "ticked"
    /\ \/ Apply(advanceTutorialAfterTick(Draft), "settled")
       \/ RollBack(advanceTutorialAfterTick(Draft))

Settled == stage = "settled" /\ app.mode = "TUTORIAL"

Commanded(action, i) ==
    /\ Settled /\ Room
    /\ op' = [action |-> action, portal |-> i, critical |-> FALSE, before |-> portals]
    /\ stage' = "commanded"
    /\ UNCHANGED <<app, saved>>

SendRejected(i) ==
    /\ Settled /\ Room /\ app.step = 5 /\ i = app.portal
    /\ RosterCurrent(observers, tickAt)
    /\ IsOpen(portals[i]) /\ RiskCritical(portals[i], tickAt)
    /\ op' = [action |-> "SEND", portal |-> i, critical |-> TRUE, before |-> portals]
    /\ stage' = "commanded"
    /\ UNCHANGED <<vars, app, saved>>

TutorialCommand ==
    \/ \E i \in PortalIDs : Stabilize(i) /\ Commanded("STABILIZE", i)
    \/ \E i \in PortalIDs : ClosePortal(i, TRUE) /\ Commanded("CLOSE", i)
    \/ \E i \in PortalIDs : SendObserver(i, TRUE) /\ Commanded("SEND", i)
    \/ \E i \in PortalIDs : SendRejected(i)
    \/ \E i \in PortalIDs : RecallObserver(i, TRUE) /\ Commanded("RECALL", i)
    \/ \E plane \in Planes : OpenExtraction(plane) /\ Commanded("OPEN_EXTRACTION", Nil)

AfterCommand ==
    /\ stage = "commanded"
    /\ \/ Apply(advanceTutorialAfterCommand(Draft), "open")
       \/ RollBack(advanceTutorialAfterCommand(Draft))

(* applyTutorialSignal: a signal that does not fit the step is rejected.   *)
IntroCompleted ==
    /\ Settled /\ Room /\ app.step = 0
    /\ Apply([createTutorialTarget(Draft, 1, Nil) EXCEPT !.app.step = 1], "open")

PortalDetailsOpened(i) ==
    /\ Settled /\ app.step = 1 /\ i = app.portal
    /\ Apply([Draft EXCEPT !.app.step = 2], "open")

EventLogOpened ==
    /\ Settled /\ app.step = 8
    /\ Apply([Draft EXCEPT !.app.step = 9], "open")

TutorialSignal ==
    \/ IntroCompleted
    \/ \E i \in PortalIDs : PortalDetailsOpened(i)
    \/ EventLogOpened

(* A return already over when it is resolved here dates its plane; of      *)
(* several, the one of the lowest ID, which is resolved first.             *)
ExploredByID(os) ==
    [pl \in Planes |->
       LET home == {o \in Observers : /\ observers[o].status = "RETURNING"
                                      /\ observers[o].plane = pl
                                      /\ os[o].status = "AVAILABLE"}
       IN IF exploredAt[pl] = Nil /\ home # {} THEN observers[Min(home)].endsAt
          ELSE exploredAt[pl]]

(* The remaining portals close free of charge, whoever is inside one of    *)
(* them is resolved against it, and the natural generator starts.          *)
StartLive ==
    LET closed == [i \in PortalIDs |->
                     IF IsOpen(portals[i]) THEN Closed(portals[i], tickAt) ELSE portals[i]]
        os == [o \in Observers |->
                 IF InTransit(observers[o])
                 THEN ResolveObserverLifecycle(observers[o], closed, tickAt)
                 ELSE observers[o]]
    IN /\ Settled /\ app.step = 9
       /\ portals' = closed
       /\ observers' = os /\ exploredAt' = ExploredByID(os)
       /\ spawn' \in SpawnSchedules(tickAt)
       /\ app' = Canonical("LIVE", 9)
       /\ stage' = "open" /\ saved' = NotSaved
       /\ UNCHANGED <<nextPortalID, lab, tickAt, op>>

(* Allowed at any time and in either mode; nothing of the past remains, so *)
(* the clock of the model starts again with it.                            *)
ResetTutorial ==
    /\ stage \in {"open", "settled"}
    /\ portals' = << >> /\ nextPortalID' = 1
    /\ observers' = [o \in Observers |-> AtHome("AVAILABLE", 0)]
    /\ exploredAt' = [pl \in Planes |-> Nil]
    /\ lab' = [energyBase |-> LabEnergyMax, energyBaseAt |-> 0, overrideUntil |-> Nil]
    /\ spawn' = SpawnPaused
    /\ tickAt' = 0
    /\ app' = Canonical("TUTORIAL", 0)
    /\ stage' = "open" /\ saved' = NotSaved
    /\ UNCHANGED op

TutorialNext ==
    \/ \E now \in tickAt..MaxTime : Resolve(now)
    \/ Read
    \/ AfterTick
    \/ TutorialCommand
    \/ AfterCommand
    \/ TutorialSignal
    \/ StartLive
    \/ ResetTutorial

TutorialSpec == TutorialInit /\ [][TutorialNext]_tutorialVars

-----------------------------------------------------------------------------
(* Properties                                                              *)

(* Whatever ended, closed or reversed the prepared portal, once a tick has *)
(* settled the step's target is OPEN and still good for the step: unstable *)
(* in step 4, CRITICAL in step 5, and in step 6 free to be used in the     *)
(* direction the phase waits for (recreateTerminalTutorialTarget,          *)
(* recreateDirectionBrokenTutorialTarget).                                 *)
TargetOffered ==
    Settled /\ Prepared(app) =>
      LET p == portals[app.portal]
      IN /\ app.portal \in PortalIDs /\ IsOpen(p) /\ p.plane = app.plane
         /\ app.step = 4 => p.stability = "UNSTABLE"
         /\ app.step = 5 => RiskCritical(p, tickAt)
         /\ app.phase = "SEND_REPLACEMENT" => p.flow # "INBOUND"
         /\ app.phase = "RECALL_READY" => p.flow # "OUTBOUND"

(* Step 7 waits for somebody who is really on the way home, from the plane *)
(* whose exploration completes the step: it cannot wait for ever for an    *)
(* observer that is lost, already home or still waiting.                   *)
ReturnAwaited ==
    Settled /\ app.step = 7 =>
      /\ observers[app.observer].status = "RETURNING"
      /\ observers[app.observer].plane = app.plane

(* ResolveTick never refuses a laboratory the tutorial has prepared        *)
(* portals in, nor the one it hands over to Live, at any later instant.    *)
(* This is the validation alone: the hook after it may still fail, as      *)
(* ScenarioRepaired shows.                                                 *)
TutorialTickNeverFails ==
    stage \in {"open", "settled"} => \A now \in tickAt..MaxTime : TickResolves(now)

(* A tick always finds room for the portal the scenario needs next: a      *)
(* wrong irreversible action recreates an equivalent portal and the step   *)
(* is repeated (00_FINAL_SPEC_v5.md:1010).                                 *)
ScenarioRepaired ==
    stage = "ticked" => advanceTutorialAfterTick(Draft).err # "ErrNoFreePortalSlot"

=============================================================================
