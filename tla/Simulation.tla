----------------------------- MODULE Simulation -----------------------------
(***************************************************************************)
(* The domain aggregate of one laboratory (internal/domain): Omenpath      *)
(* portals, observers, planes, laboratory energy and the natural portal    *)
(* generator.  LabManager resolves it at a supplied time (ResolveTick) and *)
(* applies operator commands to the state resolved at that same time.      *)
(*                                                                         *)
(* Time is whole seconds since the laboratory went live.  A tick may be    *)
(* late by any amount (the process was busy, stopped or restarted), so     *)
(* Tick jumps to any later instant.  A command executes ResolveTick(now)   *)
(* and then acts at that now; because ResolveTick at LastTickAt is a no-op *)
(* (simulation.go:81), a command at a later now is the step Tick(now)      *)
(* followed by the command's own step, and a rejected command is the Tick  *)
(* alone.                                                                  *)
(*                                                                         *)
(* Energies and decay rates are integers; instants and energies of the     *)
(* code that fall between two integers are rounded down.                   *)
(***************************************************************************)
EXTENDS Integers, FiniteSets, FiniteSetsExt

CONSTANTS
    PlaneCount, ObserverCount, MaxActivePortals,
    SpawnDelayMin, SpawnDelayMax,
    NaturalTTLMin, NaturalTTLMax,
    PortalEnergyMin, PortalEnergyMax, PortalDecayMin, PortalDecayMax,
    UnstablePercent, InstabilityMinLifetime, InstabilityCloseMargin,
    CreatureMax, CreatureTransit, CreatureClearanceMargin,
    ObserverTransitMin, ObserverTransitMax, ResearchDuration,
    LabEnergyMax, LabRegenPerSec, CloseCost, StabilizeCost, ExtractionCost,
    StabilizeBoost, StabilizeMaxStartEnergy,
    ExtractionEnergyMin, ExtractionEnergyMax,
    ExtractionTTLMin, ExtractionTTLMax, ExtractionSync,
    EmergencyDuration, RiskSafeHorizon, RiskInstabilityPenalty,
    MaxTime,      \* bound: no tick is later than this
    MaxPortals    \* bound: portals ever opened

(***************************************************************************)
(* The configurations the code accepts.  MaxActivePortals is 7 and         *)
(* PlaneCount 85 in the code; the model takes any positive numbers.        *)
(***************************************************************************)
ASSUME ConfigTypes ==
    /\ PlaneCount \in Nat /\ ObserverCount \in Nat /\ MaxActivePortals \in Nat
    /\ SpawnDelayMin \in Nat /\ SpawnDelayMax \in Nat
    /\ NaturalTTLMin \in Nat /\ NaturalTTLMax \in Nat
    /\ PortalEnergyMin \in Nat /\ PortalEnergyMax \in Nat
    /\ PortalDecayMin \in Nat /\ PortalDecayMax \in Nat
    /\ UnstablePercent \in 0..100
    /\ InstabilityMinLifetime \in Nat /\ InstabilityCloseMargin \in Nat
    /\ CreatureMax \in Nat /\ CreatureTransit \in Nat
    /\ CreatureClearanceMargin \in Nat
    /\ ObserverTransitMin \in Nat /\ ObserverTransitMax \in Nat
    /\ ResearchDuration \in Nat
    /\ LabEnergyMax \in Nat /\ LabRegenPerSec \in Nat
    /\ CloseCost \in Nat /\ StabilizeCost \in Nat /\ ExtractionCost \in Nat
    /\ StabilizeBoost \in Nat /\ StabilizeMaxStartEnergy \in Nat
    /\ ExtractionEnergyMin \in Nat /\ ExtractionEnergyMax \in Nat
    /\ ExtractionTTLMin \in Nat /\ ExtractionTTLMax \in Nat
    /\ ExtractionSync \in Nat
    /\ EmergencyDuration \in Nat /\ RiskSafeHorizon \in Nat
    /\ RiskInstabilityPenalty \in Nat
    /\ MaxTime \in Nat /\ MaxPortals \in Nat

validSimulationConfig ==
    /\ PlaneCount > 0 /\ MaxActivePortals > 0 /\ ObserverCount > 0
    /\ SpawnDelayMin <= SpawnDelayMax
    /\ NaturalTTLMin > 0 /\ NaturalTTLMin <= NaturalTTLMax
    /\ PortalEnergyMin <= PortalEnergyMax
    /\ PortalDecayMin > 0 /\ PortalDecayMin <= PortalDecayMax
    /\ InstabilityMinLifetime > 0 /\ InstabilityCloseMargin > 0
    /\ NaturalTTLMin >= InstabilityMinLifetime + InstabilityCloseMargin
    /\ CreatureTransit > 0
    /\ ObserverTransitMin > 0 /\ ObserverTransitMin <= ObserverTransitMax
    /\ ResearchDuration > 0 /\ LabEnergyMax > 0
    /\ ExtractionEnergyMin <= ExtractionEnergyMax
    /\ ExtractionTTLMin > 0 /\ ExtractionTTLMin <= ExtractionTTLMax
    /\ ExtractionSync > 0
    /\ EmergencyDuration > 0 /\ RiskSafeHorizon > 0

ASSUME ConfigValid == validSimulationConfig

VARIABLES
    portals,     \* every portal ever opened, by ID
    nextPortalID,
    observers,   \* the permanent roster, by ID
    exploredAt,  \* per plane: when it became EXPLORED, Nil before
    lab,         \* laboratory energy baseline and Leyline Override deadline
    spawn,       \* the natural generator's schedule
    tickAt       \* LastTickAt

vars == <<portals, nextPortalID, observers, exploredAt, lab, spawn, tickAt>>

Nil == -1        \* an absent timestamp or ID

Planes    == 1..PlaneCount
Observers == 1..ObserverCount
Slots     == 1..MaxActivePortals
Time      == Nat
OptTime   == Nat \cup {Nil}

PortalIDs == 1..(nextPortalID - 1)

Floor0(x) == IF x < 0 THEN 0 ELSE x
Least(x, y) == IF x < y THEN x ELSE y

-----------------------------------------------------------------------------
(* Portal (portal.go, risk.go, creatures.go, slots.go, factory.go)         *)

Portal ==
    [slot: Slots, kind: {"NATURAL", "EXTRACTION"}, plane: Planes,
     energyBase: Nat, energyBaseAt: Time, decay: Nat \ {0},
     stability: {"STABLE", "UNSTABLE"}, collapseAt: OptTime,
     openedAt: Time, scheduledCloseAt: Time, creatures: Nat,
     flow: {"NONE", "OUTBOUND", "INBOUND"},
     status: {"OPEN", "CLOSED", "COLLAPSED"},
     reason: {"NONE", "NATURAL_CLOSE", "MANUAL_CLOSE",
              "ENERGY_DEPLETED", "INSTABILITY"},
     closedAt: OptTime, syncedAt: OptTime, updatedAt: Time]

IsOpen(p) == p.status = "OPEN"

CurrentEnergy(p, now) ==
    Floor0(p.energyBase - Floor0(now - p.energyBaseAt) * p.decay)

EnergyDepletionAt(p) == p.energyBaseAt + (p.energyBase \div p.decay)

EffectiveLifetime(p, now) ==
    Least(Floor0(p.scheduledCloseAt - now), CurrentEnergy(p, now) \div p.decay)

(* The risk score in hundredths of RiskSafeHorizon; 75% and below is not   *)
(* CRITICAL.  The hidden collapse instant is not part of it.               *)
RiskScore(p, now) ==
    Floor0(RiskSafeHorizon - EffectiveLifetime(p, now)) * 100
      + (IF p.stability = "UNSTABLE"
         THEN RiskInstabilityPenalty * RiskSafeHorizon ELSE 0)

RiskCritical(p, now) == RiskScore(p, now) > 75 * RiskSafeHorizon

CreaturesInside(p, now) ==
    Floor0(p.creatures - (Floor0(now - p.openedAt) \div CreatureTransit))

MaxCreaturesForTTL(ttl) ==
    Least(CreatureMax, Floor0((ttl - CreatureClearanceMargin) \div CreatureTransit))

(* The first termination scheduled for an OPEN portal.  A natural close    *)
(* wins every tie and depletion wins a tie with the hidden collapse.       *)
Termination(p) ==
    LET ends(t, s, r) == [at |-> t, status |-> s, reason |-> r]
        natural == ends(p.scheduledCloseAt, "CLOSED", "NATURAL_CLOSE")
        visible == IF EnergyDepletionAt(p) < natural.at
                   THEN ends(EnergyDepletionAt(p), "COLLAPSED", "ENERGY_DEPLETED")
                   ELSE natural
    IN IF p.stability = "UNSTABLE" /\ p.collapseAt < visible.at
       THEN ends(p.collapseAt, "COLLAPSED", "INSTABILITY")
       ELSE visible

Overdue(p, now) == IsOpen(p) /\ Termination(p).at <= now

ResolveLifecycleAgain(p, now) ==     \* mutant: a terminal portal ends again
    IF Termination(p).at <= now
    THEN [p EXCEPT !.status = Termination(p).status,
                   !.reason = Termination(p).reason,
                   !.closedAt = Termination(p).at, !.updatedAt = now]
    ELSE p

ResolveLifecycle(p, now) ==
    IF Overdue(p, now)
    THEN [p EXCEPT !.status = Termination(p).status,
                   !.reason = Termination(p).reason,
                   !.closedAt = Termination(p).at,
                   !.updatedAt = now]
    ELSE p

Closed(p, now) ==
    [p EXCEPT !.status = "CLOSED", !.reason = "MANUAL_CLOSE",
              !.closedAt = now, !.updatedAt = now]

OpenIDs(ps) == {i \in DOMAIN ps : IsOpen(ps[i])}

FreeSlots(ps) == Slots \ {ps[i].slot : i \in OpenIDs(ps)}

SlotByCount(ps) == Cardinality(OpenIDs(ps)) + 1    \* mutant: gaps overlooked

FirstFreeSlot(ps) == CHOOSE s \in FreeSlots(ps) : \A t \in FreeSlots(ps) : s <= t

AtCapacity(ps) == FreeSlots(ps) = {}

NewPortal(kind, plane, slot, now, ttl, energy, decay) ==
    [slot |-> slot, kind |-> kind, plane |-> plane,
     energyBase |-> energy, energyBaseAt |-> now, decay |-> decay,
     stability |-> "STABLE", collapseAt |-> Nil,
     openedAt |-> now, scheduledCloseAt |-> now + ttl, creatures |-> 0,
     flow |-> "NONE", status |-> "OPEN", reason |-> "NONE",
     closedAt |-> Nil, syncedAt |-> Nil, updatedAt |-> now]

(* The hidden collapse instants the factory can draw: none for a portal    *)
(* that rolls STABLE.                                                      *)
HiddenCollapses(now, ttl) ==
    (IF UnstablePercent < 100 THEN {Nil} ELSE {})
      \cup (IF UnstablePercent > 0
            THEN now + InstabilityMinLifetime
                   .. now + ttl - InstabilityCloseMargin
            ELSE {})

NewNaturalPortal(plane, slot, now, ttl, energy, decay, hidden, creatures) ==
    [NewPortal("NATURAL", plane, slot, now, ttl, energy, decay) EXCEPT
       !.stability = IF hidden = Nil THEN "STABLE" ELSE "UNSTABLE",
       !.collapseAt = hidden,
       !.creatures = creatures]

NewExtractionPortal(plane, slot, now, ttl, energy, decay) ==
    [NewPortal("EXTRACTION", plane, slot, now, ttl, energy, decay) EXCEPT
       !.flow = "INBOUND"]

(* The default configuration keeps a freshly synchronized portal usable;   *)
(* validSimulationConfig does not demand it.                               *)
ASSUME ExtractionUsable ==
    \A ttl \in ExtractionTTLMin..ExtractionTTLMax,
       energy \in ExtractionEnergyMin..ExtractionEnergyMax,
       decay \in PortalDecayMin..PortalDecayMax :
      ~RiskCritical(NewExtractionPortal(1, 1, 0, ttl, energy, decay), ExtractionSync)

Opened(ps, p) ==
    [i \in 1..nextPortalID |-> IF i = nextPortalID THEN p ELSE ps[i]]

-----------------------------------------------------------------------------
(* Laboratory energy and Leyline Override (lab.go, lab_emergency.go,       *)
(* lab_energy_commands.go)                                                 *)

Lab == [energyBase: 0..LabEnergyMax, energyBaseAt: Time, overrideUntil: OptTime]

LabEnergy(l, now) ==
    Least(LabEnergyMax, l.energyBase + Floor0(now - l.energyBaseAt) * LabRegenPerSec)

LeylineOverrideActive(l, now) ==
    /\ l.overrideUntil # Nil
    /\ l.overrideUntil - EmergencyDuration <= now
    /\ now < l.overrideUntil

EffectiveCost(l, cost, now) == IF LeylineOverrideActive(l, now) THEN 0 ELSE cost

CanAffordAnything(l, cost, now) == l.energyBaseAt <= now   \* mutant: no check

CanAfford(l, cost, now) == l.energyBaseAt <= now /\ cost <= LabEnergy(l, now)

SpendEnergyKeepingBaseline(l, cost, now) ==    \* mutant: regenerated twice
    IF cost = 0 THEN l ELSE [l EXCEPT !.energyBase = LabEnergy(l, now) - cost]

SpendEnergy(l, cost, now) ==
    IF cost = 0
    THEN l
    ELSE [l EXCEPT !.energyBase = LabEnergy(l, now) - cost, !.energyBaseAt = now]

(* The collapses of one tick are applied in the order of their instants,   *)
(* each zeroing the baseline and restarting the window, so the latest one  *)
(* is what remains.  An instant before the baseline is refused.            *)
CollapseOrderOK(l, times) == \A t \in times : l.energyBaseAt <= t

ActivateFirstOnly(l, times) ==    \* mutant: a later collapse does not restart
    IF times = {} \/ l.overrideUntil >= Min(times)
    THEN l
    ELSE [energyBase |-> 0, energyBaseAt |-> Min(times),
          overrideUntil |-> Min(times) + EmergencyDuration]

ActivateLeylineOverride(l, times) ==
    IF times = {}
    THEN l
    ELSE [energyBase |-> 0, energyBaseAt |-> Max(times),
          overrideUntil |-> Max(times) + EmergencyDuration]

-----------------------------------------------------------------------------
(* Observer (observer_lifecycle.go, observer_commands.go)                  *)

ObserverStatus ==
    {"AVAILABLE", "OUTBOUND", "EXPLORING", "WAITING_RETURN", "RETURNING", "LOST"}

Observer ==
    [status: ObserverStatus, plane: Planes \cup {Nil}, portal: Nat \cup {Nil},
     startedAt: OptTime, endsAt: OptTime, updatedAt: Time]

InTransit(o) == o.status \in {"OUTBOUND", "RETURNING"}

AtHome(status, at) ==
    [status |-> status, plane |-> Nil, portal |-> Nil,
     startedAt |-> Nil, endsAt |-> Nil, updatedAt |-> at]

StartTransit(o, status, portal, at, duration) ==
    [o EXCEPT !.status = status, !.portal = portal, !.startedAt = at,
              !.endsAt = at + duration, !.updatedAt = at]

TransitDurations == ObserverTransitMin..ObserverTransitMax

TransitFailsAtDeadline(o, p, now) ==    \* mutant: a tie loses the observer
    ~IsOpen(p) /\ p.closedAt <= o.endsAt /\ p.closedAt <= now

TransitFails(o, p, now) ==
    ~IsOpen(p) /\ p.closedAt < o.endsAt /\ p.closedAt <= now

ResolveOutbound(o, p, now) ==
    CASE TransitFails(o, p, now) -> AtHome("LOST", p.closedAt)
      [] ~TransitFails(o, p, now) /\ o.endsAt <= now ->
           [status |-> "EXPLORING", plane |-> p.plane, portal |-> Nil,
            startedAt |-> o.endsAt, endsAt |-> o.endsAt + ResearchDuration,
            updatedAt |-> o.endsAt]
      [] OTHER -> o

ResolveResearch(o, now) ==
    IF o.status = "EXPLORING" /\ o.endsAt <= now
    THEN [o EXCEPT !.status = "WAITING_RETURN", !.startedAt = o.endsAt,
                   !.endsAt = Nil, !.updatedAt = o.endsAt]
    ELSE o

ResolveReturning(o, p, now) ==
    CASE TransitFails(o, p, now) -> AtHome("LOST", p.closedAt)
      [] ~TransitFails(o, p, now) /\ o.endsAt <= now -> AtHome("AVAILABLE", o.endsAt)
      [] OTHER -> o

(* One call crosses arrival and the end of research when both have passed. *)
ResolveObserverLifecycle(o, ps, now) ==
    CASE o.status = "OUTBOUND" ->
           ResolveResearch(ResolveOutbound(o, ps[o.portal], now), now)
      [] o.status = "EXPLORING" -> ResolveResearch(o, now)
      [] o.status = "RETURNING" -> ResolveReturning(o, ps[o.portal], now)
      [] OTHER -> o

WaitingOn(os, plane) ==
    {o \in Observers : os[o].status = "WAITING_RETURN" /\ os[o].plane = plane}

WaitsLess(os, o, q) ==          \* mutant: the latest arrival goes first
    \/ os[o].startedAt > os[q].startedAt
    \/ os[o].startedAt = os[q].startedAt /\ o <= q

WaitsLonger(os, o, q) ==
    \/ os[o].startedAt < os[q].startedAt
    \/ os[o].startedAt = os[q].startedAt /\ o <= q

(* The one candidate that has waited longest; no candidate, nobody.        *)
LongestWaiting(os, candidates) ==
    {o \in candidates : \A q \in candidates : WaitsLonger(os, o, q)}

TransitThrough(os, i) == {o \in Observers : InTransit(os[o]) /\ os[o].portal = i}

(* Commands refuse to act on a roster that holds a transit past its end.   *)
RosterCurrent(os, now) == \A o \in Observers : InTransit(os[o]) => now < os[o].endsAt

-----------------------------------------------------------------------------
(* Admission of a transit through an OPEN portal, common to SEND and       *)
(* RECALL; a command also needs confirmation on an UNSTABLE portal.        *)

CorridorFreeOfCreatures(ps, os, i, against, now) ==  \* mutant: no busy check
    /\ IsOpen(ps[i])
    /\ ~RiskCritical(ps[i], now)
    /\ ps[i].flow # against
    /\ CreaturesInside(ps[i], now) = 0

CorridorFree(ps, os, i, against, now) ==
    /\ IsOpen(ps[i])
    /\ ~RiskCritical(ps[i], now)
    /\ ps[i].flow # against
    /\ CreaturesInside(ps[i], now) = 0
    /\ TransitThrough(os, i) = {}

RecallPossible(ps, os, i, now) ==
    /\ CorridorFree(ps, os, i, "OUTBOUND", now)
    /\ ps[i].kind = "EXTRACTION" => ps[i].syncedAt # Nil

-----------------------------------------------------------------------------
(* The stages of a tick (simulation.go, simulation_spawn.go)               *)

ResolvedPortals(now) == [i \in PortalIDs |-> ResolveLifecycle(portals[i], now)]

CollapseTimes(now) ==
    {Termination(portals[i]).at :
       i \in {j \in PortalIDs : /\ Overdue(portals[j], now)
                                /\ Termination(portals[j]).status = "COLLAPSED"}}

ResolvedObservers(ps, now) ==
    [o \in Observers |-> ResolveObserverLifecycle(observers[o], ps, now)]

(* The arrival times of the returns to the laboratory that os completes.   *)
ReturnTimes(os, plane) ==
    {observers[o].endsAt :
       o \in {q \in Observers : /\ observers[q].status = "RETURNING"
                                /\ observers[q].plane = plane
                                /\ os[q].status = "AVAILABLE"}}

ExploredLastReturn(os) ==       \* mutant: the last return dates the plane
    [pl \in Planes |-> IF ReturnTimes(os, pl) # {}
                       THEN Max(ReturnTimes(os, pl)) ELSE exploredAt[pl]]

ExploredPlanes(os) ==
    [pl \in Planes |->
       IF exploredAt[pl] = Nil /\ ReturnTimes(os, pl) # {}
       THEN Min(ReturnTimes(os, pl)) ELSE exploredAt[pl]]

SyncAt(p) == p.openedAt + ExtractionSync

SyncDueEvenTerminal(ps, now) ==    \* mutant: a terminal portal synchronizes
    {i \in DOMAIN ps : /\ ps[i].kind = "EXTRACTION"
                       /\ ps[i].syncedAt = Nil
                       /\ SyncAt(ps[i]) <= now}

SyncDue(ps, now) ==
    {i \in DOMAIN ps : /\ ps[i].kind = "EXTRACTION"
                       /\ IsOpen(ps[i])
                       /\ ps[i].syncedAt = Nil
                       /\ SyncAt(ps[i]) <= now}

Synchronized(ps, due) ==
    [i \in DOMAIN ps |->
       IF i \in due
       THEN [ps[i] EXCEPT !.syncedAt = SyncAt(ps[i]), !.updatedAt = SyncAt(ps[i])]
       ELSE ps[i]]

(* The portals that synchronize take their turns by ID.  Each recalls the  *)
(* longest waiting observer of its plane that no lower ID has taken, as of *)
(* the instant of synchronization; with nobody left it recalls Nil.        *)
LeftFor(ps, os, due, picks, i) ==
    {o \in WaitingOn(os, ps[i].plane) : \A j \in due : j < i => picks[j] # o}

AutoRecalls(ps, os, due) ==
    {picks \in [due -> Observers \cup {Nil}] :
       \A i \in due :
          LET left == LeftFor(ps, os, due, picks, i)
          IN IF left = {} THEN picks[i] = Nil
             ELSE picks[i] \in LongestWaiting(os, left)}

Recalled(ps, os, picks, durations) ==
    [o \in Observers |->
       IF \E i \in DOMAIN durations : picks[i] = o
       THEN LET i == CHOOSE j \in DOMAIN durations : picks[j] = o
            IN StartTransit(os[o], "RETURNING", i, SyncAt(ps[i]), durations[i])
       ELSE os[o]]

(* A synchronization whose recall is refused for any reason other than     *)
(* nobody waiting aborts the whole tick.                                   *)
SyncAdmitted(ps, os, due) ==
    \A i \in due : RecallPossible(Synchronized(ps, due), os, i, SyncAt(ps[i]))

SpawnPaused == [paused |-> TRUE, scheduledAt |-> Nil, dueAt |-> Nil]

SpawnSchedules(now) ==
    {[paused |-> FALSE, scheduledAt |-> now, dueAt |-> now + delay] :
       delay \in SpawnDelayMin..SpawnDelayMax}

SpawnDue(now) == ~spawn.paused /\ spawn.scheduledAt < now /\ spawn.dueAt <= now

SpawnNothing(ps) == portals' = ps /\ UNCHANGED nextPortalID

SpawnPortal(ps, now) ==
    /\ nextPortalID <= MaxPortals
    /\ \E pl \in Planes, ttl \in NaturalTTLMin..NaturalTTLMax,
          energy \in PortalEnergyMin..PortalEnergyMax,
          decay \in PortalDecayMin..PortalDecayMax :
         \E hidden \in HiddenCollapses(now, ttl),
            creatures \in 0..MaxCreaturesForTTL(ttl) :
           portals' = Opened(ps, NewNaturalPortal(pl, FirstFreeSlot(ps), now, ttl,
                                                  energy, decay, hidden, creatures))
    /\ nextPortalID' = nextPortalID + 1

SpawnWithoutPausing(ps, now) ==       \* mutant: the last slot does not pause it
    \/ /\ AtCapacity(ps) /\ spawn' = SpawnPaused /\ SpawnNothing(ps)
    \/ /\ ~AtCapacity(ps) /\ spawn.paused
       /\ spawn' \in SpawnSchedules(now) /\ SpawnNothing(ps)
    \/ /\ ~AtCapacity(ps) /\ ~spawn.paused /\ ~SpawnDue(now)
       /\ UNCHANGED spawn /\ SpawnNothing(ps)
    \/ /\ ~AtCapacity(ps) /\ SpawnDue(now)
       /\ SpawnPortal(ps, now) /\ spawn' \in SpawnSchedules(now)

(* At capacity the generator pauses; the first tick with a free slot only  *)
(* draws a new delay; at most one portal is opened per tick, however late. *)
ResolveNaturalSpawn(ps, now) ==
    \/ /\ AtCapacity(ps)
       /\ spawn' = SpawnPaused
       /\ SpawnNothing(ps)
    \/ /\ ~AtCapacity(ps) /\ spawn.paused
       /\ spawn' \in SpawnSchedules(now)
       /\ SpawnNothing(ps)
    \/ /\ ~AtCapacity(ps) /\ ~spawn.paused /\ ~SpawnDue(now)
       /\ UNCHANGED spawn
       /\ SpawnNothing(ps)
    \/ /\ ~AtCapacity(ps) /\ SpawnDue(now)
       /\ SpawnPortal(ps, now)
       /\ spawn' \in IF AtCapacity(portals') THEN {SpawnPaused} ELSE SpawnSchedules(now)

-----------------------------------------------------------------------------
(* What ResolveTick validates before it resolves anything                  *)
(* (validateSimulationState, validateSimulationStructure).                 *)

MaxPortalEnergy ==
    Max({PortalEnergyMax, ExtractionEnergyMax, StabilizeMaxStartEnergy + StabilizeBoost})

ValidTerminalPortal(p, now) ==
    /\ p.closedAt \in p.openedAt..now
    /\ p.closedAt <= p.updatedAt
    /\ p.energyBaseAt <= p.closedAt
    /\ p.syncedAt <= p.closedAt
    /\ \/ p.status = "CLOSED" /\ p.reason = "MANUAL_CLOSE"
       \/ Termination(p) = [at |-> p.closedAt, status |-> p.status, reason |-> p.reason]

ValidPortal(p, now) ==
    /\ p.slot \in Slots
    /\ p.openedAt <= now /\ p.openedAt < p.scheduledCloseAt
    /\ p.openedAt <= p.energyBaseAt /\ p.energyBaseAt <= p.updatedAt
    /\ p.updatedAt <= now
    /\ p.energyBase <= MaxPortalEnergy
    /\ p.creatures <= CreatureMax
    /\ IF p.stability = "STABLE" THEN p.collapseAt = Nil
       ELSE p.collapseAt \in p.openedAt + InstabilityMinLifetime
                             .. p.scheduledCloseAt - InstabilityCloseMargin
    /\ IF p.kind = "NATURAL" THEN p.syncedAt = Nil
       ELSE /\ p.stability = "STABLE" /\ p.flow = "INBOUND" /\ p.creatures = 0
            /\ p.syncedAt # Nil => p.syncedAt = SyncAt(p) /\ p.syncedAt <= now
    /\ IF IsOpen(p) THEN p.closedAt = Nil /\ p.reason = "NONE"
       ELSE ValidTerminalPortal(p, now)

ValidPhase(o, now) ==
    o.startedAt # Nil /\ o.startedAt <= now /\ o.startedAt < o.endsAt

ValidObserver(o, ps, now) ==
    /\ o.updatedAt <= now
    /\ o.portal # Nil => o.portal \in DOMAIN ps
    /\ o.status \in {"AVAILABLE", "LOST"} => o = AtHome(o.status, o.updatedAt)
    /\ o.status \in {"OUTBOUND", "EXPLORING", "RETURNING"} => ValidPhase(o, now)
    /\ o.status = "OUTBOUND" =>
         o.plane = Nil /\ o.portal # Nil /\ ps[o.portal].flow = "OUTBOUND"
    /\ o.status = "EXPLORING" => o.plane # Nil /\ o.portal = Nil
    /\ o.status = "WAITING_RETURN" =>
         /\ o.plane # Nil /\ o.portal = Nil /\ o.endsAt = Nil
         /\ o.startedAt # Nil /\ o.startedAt <= now
    /\ o.status = "RETURNING" =>
         /\ o.plane # Nil /\ o.portal # Nil
         /\ ps[o.portal].flow = "INBOUND" /\ ps[o.portal].plane = o.plane

ValidSpawn(now) ==
    IF spawn.paused THEN spawn = SpawnPaused
    ELSE /\ spawn.scheduledAt # Nil /\ spawn.scheduledAt <= now
         /\ spawn.scheduledAt <= spawn.dueAt

ValidState(now) ==
    /\ tickAt <= now
    /\ lab.energyBaseAt <= now
    /\ ValidSpawn(now)
    /\ \A pl \in Planes : exploredAt[pl] <= now
    /\ \A i \in PortalIDs : ValidPortal(portals[i], now)
    /\ \A i, j \in OpenIDs(portals) : portals[i].slot = portals[j].slot => i = j
    /\ \A o \in Observers : ValidObserver(observers[o], portals, now)

(* ResolveTick(now) returns no error.                                      *)
TickResolves(now) ==
    LET ps == ResolvedPortals(now)
    IN /\ ValidState(now)
       /\ CollapseOrderOK(lab, CollapseTimes(now))
       /\ SyncAdmitted(ps, ResolvedObservers(ps, now), SyncDue(ps, now))

-----------------------------------------------------------------------------
(* Actions                                                                 *)

Init ==
    /\ portals = << >> /\ nextPortalID = 1
    /\ observers = [o \in Observers |-> AtHome("AVAILABLE", 0)]
    /\ exploredAt = [pl \in Planes |-> Nil]
    /\ lab = [energyBase |-> LabEnergyMax, energyBaseAt |-> 0, overrideUntil |-> Nil]
    /\ spawn \in SpawnSchedules(0)
    /\ tickAt = 0

Tick(now) ==
    LET ps == ResolvedPortals(now)
        os == ResolvedObservers(ps, now)
        due == SyncDue(ps, now)
    IN /\ TickResolves(now)
       /\ lab' = ActivateLeylineOverride(lab, CollapseTimes(now))
       /\ exploredAt' = ExploredPlanes(os)
       /\ \E picks \in AutoRecalls(ps, os, due) :
            \E durations \in [{i \in due : picks[i] # Nil} -> TransitDurations] :
               observers' = Recalled(ps, os, picks, durations)
       /\ ResolveNaturalSpawn(Synchronized(ps, due), now)
       /\ tickAt' = now

(* A second resolution of the same instant changes nothing.                *)
TickAgain == UNCHANGED vars

Stabilize(i) ==
    LET p == portals[i]
        cost == EffectiveCost(lab, StabilizeCost, tickAt)
    IN /\ CanAfford(lab, cost, tickAt)
       /\ IsOpen(p)
       /\ p.stability = "UNSTABLE"
       /\ CurrentEnergy(p, tickAt) <= StabilizeMaxStartEnergy
       /\ portals' = [portals EXCEPT
                        ![i].stability = "STABLE",
                        ![i].collapseAt = Nil,
                        ![i].energyBase = CurrentEnergy(p, tickAt) + StabilizeBoost,
                        ![i].energyBaseAt = tickAt,
                        ![i].updatedAt = tickAt]
       /\ lab' = SpendEnergy(lab, cost, tickAt)
       /\ UNCHANGED <<nextPortalID, observers, exploredAt, spawn, tickAt>>

ClosePortal(i, confirm) ==
    LET cost == EffectiveCost(lab, CloseCost, tickAt)
        closed == [portals EXCEPT ![i] = Closed(portals[i], tickAt)]
    IN /\ CanAfford(lab, cost, tickAt)
       /\ RosterCurrent(observers, tickAt)
       /\ IsOpen(portals[i])
       /\ TransitThrough(observers, i) # {} => confirm
       /\ CreaturesInside(portals[i], tickAt) > 0 => confirm
       /\ portals' = closed
       /\ observers' = [o \in Observers |->
                          IF o \in TransitThrough(observers, i)
                          THEN ResolveObserverLifecycle(observers[o], closed, tickAt)
                          ELSE observers[o]]
       /\ lab' = SpendEnergy(lab, cost, tickAt)
       /\ UNCHANGED <<nextPortalID, exploredAt, spawn, tickAt>>

SetFlow(i, flow) ==
    portals' = IF portals[i].flow = "NONE"
               THEN [portals EXCEPT ![i].flow = flow, ![i].updatedAt = tickAt]
               ELSE portals

SendObserver(i, confirm) ==
    LET available == {o \in Observers : observers[o].status = "AVAILABLE"}
    IN /\ RosterCurrent(observers, tickAt)
       /\ CorridorFree(portals, observers, i, "INBOUND", tickAt)
       /\ available # {}
       /\ portals[i].stability = "UNSTABLE" => confirm
       /\ \E d \in TransitDurations :
            observers' = [observers EXCEPT
              ![Min(available)] = StartTransit(@, "OUTBOUND", i, tickAt, d)]
       /\ SetFlow(i, "OUTBOUND")
       /\ UNCHANGED <<nextPortalID, exploredAt, lab, spawn, tickAt>>

RecallObserver(i, confirm) ==
    LET waiting == WaitingOn(observers, portals[i].plane)
    IN /\ RosterCurrent(observers, tickAt)
       /\ RecallPossible(portals, observers, i, tickAt)
       /\ portals[i].stability = "UNSTABLE" => confirm
       /\ \E o \in LongestWaiting(observers, waiting), d \in TransitDurations :
            observers' = [observers EXCEPT
              ![o] = StartTransit(@, "RETURNING", i, tickAt, d)]
       /\ SetFlow(i, "INBOUND")
       /\ UNCHANGED <<nextPortalID, exploredAt, lab, spawn, tickAt>>

OpenExtraction(plane) ==
    /\ nextPortalID <= MaxPortals
    /\ RosterCurrent(observers, tickAt)
    /\ WaitingOn(observers, plane) # {}
    /\ ~AtCapacity(portals)
    /\ CanAfford(lab, ExtractionCost, tickAt)
    /\ lab' = SpendEnergy(lab, ExtractionCost, tickAt)
    /\ \E ttl \in ExtractionTTLMin..ExtractionTTLMax,
          energy \in ExtractionEnergyMin..ExtractionEnergyMax,
          decay \in PortalDecayMin..PortalDecayMax :
         portals' = Opened(portals,
                      NewExtractionPortal(plane, FirstFreeSlot(portals), tickAt,
                                          ttl, energy, decay))
    /\ nextPortalID' = nextPortalID + 1
    /\ UNCHANGED <<observers, exploredAt, spawn, tickAt>>

Command ==
    \/ \E i \in PortalIDs : Stabilize(i)
    \/ \E i \in PortalIDs, confirm \in BOOLEAN : ClosePortal(i, confirm)
    \/ \E i \in PortalIDs, confirm \in BOOLEAN : SendObserver(i, confirm)
    \/ \E i \in PortalIDs, confirm \in BOOLEAN : RecallObserver(i, confirm)
    \/ \E plane \in Planes : OpenExtraction(plane)

Next ==
    \/ \E now \in (tickAt + 1)..MaxTime : Tick(now)
    \/ TickAgain
    \/ Command

Spec == Init /\ [][Next]_vars

-----------------------------------------------------------------------------
(* Properties                                                              *)

(* Every field holds a value of its Go type, and the energy baseline never *)
(* leaves 0..LabEnergyMax: commands spend only what prepareLabEnergySpend  *)
(* finds affordable.                                                       *)
TypeOK ==
    /\ nextPortalID \in Nat \ {0}
    /\ portals \in [PortalIDs -> Portal]
    /\ observers \in [Observers -> Observer]
    /\ exploredAt \in [Planes -> OptTime]
    /\ lab \in Lab
    /\ spawn \in [paused: BOOLEAN, scheduledAt: OptTime, dueAt: OptTime]
    /\ tickAt \in Time

(* No resolution ever fails, at any instant a later tick may pick: the     *)
(* aggregate validates (validateSimulationState), no collapse predates the *)
(* energy baseline (ActivateLeylineOverride) and no synchronization is     *)
(* refused.  One failing tick stops the worker and with it the server      *)
(* (cmd/server/main.go:124).                                               *)
TickNeverFails == \A now \in tickAt..MaxTime : TickResolves(now)

(* Whoever is in transit travels alone through a portal that is still      *)
(* OPEN: SendObserver and RecallObserver admit one at a time, and a tick   *)
(* or a manual close that ends a portal ends the transit through it.       *)
TransitIntegrity ==
    \A o \in Observers : InTransit(observers[o]) =>
        /\ IsOpen(portals[observers[o].portal])
        /\ TransitThrough(observers, observers[o].portal) = {o}

(* Leyline Override runs from the latest collapse, whatever the order in   *)
(* which the portals collapsed and were resolved.                          *)
OverrideTracksLatestCollapse ==
    LET collapses == {portals[i].closedAt :
                        i \in {j \in PortalIDs : portals[j].status = "COLLAPSED"}}
    IN lab.overrideUntil = IF collapses = {} THEN Nil
                           ELSE Max(collapses) + EmergencyDuration

(* A collapse empties the laboratory: the energy on hand is at most what   *)
(* has regenerated since, however spending has moved the baseline.         *)
EnergyOnlyRegenerates ==
    \A i \in PortalIDs : portals[i].status = "COLLAPSED" =>
        LabEnergy(lab, tickAt) <= (tickAt - portals[i].closedAt) * LabRegenPerSec

(* A transit is lost exactly when its portal ended strictly before the     *)
(* arrival, whether a tick or a manual close ended it and however late the *)
(* end is noticed (resolveObserverTransitFailure).                         *)
LostExactlyByEarlierEnd ==
    [][\A o \in Observers : InTransit(observers[o]) =>
          LET p == portals'[observers[o].portal]
          IN observers'[o].status = "LOST" <=>
               ~IsOpen(p) /\ p.closedAt < observers[o].endsAt]_vars

(* What has ended stays as it ended: a terminal portal and a LOST observer *)
(* never change, and a portal never reverses its direction.                *)
HistoryFrozen ==
    [][/\ \A i \in PortalIDs :
            /\ ~IsOpen(portals[i]) => portals'[i] = portals[i]
            /\ portals[i].flow # "NONE" => portals'[i].flow = portals[i].flow
       /\ \A o \in Observers :
            observers[o].status = "LOST" => observers'[o] = observers[o]]_vars

(* A tick dates a plane's exploration with the earliest return it          *)
(* resolves, and no later return moves that date.                          *)
ExplorationDatedOnce ==
    [][\A pl \in Planes : exploredAt'[pl] # exploredAt[pl] =>
          LET returns == {observers[o].endsAt :
                            o \in {q \in Observers :
                                     /\ observers[q].status = "RETURNING"
                                     /\ observers[q].plane = pl
                                     /\ observers'[q].status = "AVAILABLE"}}
          IN /\ exploredAt[pl] = Nil
             /\ exploredAt'[pl] \in returns
             /\ \A t \in returns : exploredAt'[pl] <= t]_vars

(* After every tick the natural generator is paused exactly when all slots *)
(* are taken, and a tick opens at most one portal, never in the tick that  *)
(* finds the generator paused.                                             *)
PausedExactlyAtCapacity ==
    [][tickAt' # tickAt =>
          /\ spawn'.paused <=> AtCapacity(portals')
          /\ nextPortalID' <= nextPortalID + 1
          /\ spawn.paused => nextPortalID' = nextPortalID]_vars

(* A portal that synchronizes brings home the longest waiting observer of  *)
(* its plane: nobody who still waits there has waited longer, and if the   *)
(* portal stays empty nobody waits there at all.                           *)
SynchronizationServesLongest ==
    [][\A i \in PortalIDs :
          portals[i].syncedAt = Nil /\ portals'[i].syncedAt # Nil =>
            LET waiting == WaitingOn(observers', portals[i].plane)
                served == TransitThrough(observers', i)
                since(o) ==
                  CASE observers[o].status = "WAITING_RETURN" -> observers[o].startedAt
                    [] observers[o].status = "EXPLORING" -> observers[o].endsAt
                    [] OTHER -> observers[o].endsAt + ResearchDuration
            IN IF served = {} THEN waiting = {}
               ELSE \A o \in served, q \in waiting :
                      since(o) <= since(q)]_vars

-----------------------------------------------------------------------------
(* Statements of the repository that late ticks refute                     *)

(* Every transition is stamped with its semantic instant                   *)
(* (observer_lifecycle.go:67), so a return starts no earlier than the end  *)
(* of the observer's research.                                             *)
ReturnFollowsResearch ==
    [][\A o \in Observers :
          observers'[o].status = "RETURNING" =>
            /\ observers[o].status = "EXPLORING" =>
                 observers[o].endsAt <= observers'[o].startedAt
            /\ observers[o].status = "WAITING_RETURN" =>
                 observers[o].startedAt <= observers'[o].startedAt]_vars

(* A plane becomes EXPLORED at the moment of the first successful return   *)
(* (00_FINAL_SPEC_v5.md:548), so no return is earlier than that moment.    *)
ExploredAtFirstReturn ==
    [][\A o \in Observers :
          observers[o].status = "RETURNING" /\ observers'[o].status = "AVAILABLE"
            => exploredAt'[observers[o].plane] <= observers[o].endsAt]_vars

=============================================================================
