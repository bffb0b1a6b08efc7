--------------------------- MODULE EventLogProofs ---------------------------
(***************************************************************************)
(* That the event log of a laboratory dates everything that happened in or *)
(* through a portal within the portal's life, and holds every transition   *)
(* exactly once, however late the tick that notices it.                    *)
(*                                                                         *)
(* HistoryWithinLife alone is not inductive: a portal that ends now must   *)
(* not end before what the log already says of it, so no event may lie     *)
(* after LastTickAt; and an arrival is dated with the transit's end, so no *)
(* transit may have begun before its portal opened.  Both are added.       *)
(* LogAccountsForState needs, besides, that the log is a finite bag and    *)
(* which of its two balances the transit under way belongs to (Balanced).  *)
(***************************************************************************)
EXTENDS EventLog, SimulationStepProofs, FiniteSetTheorems

(* The event lies within the life of its portal and not in the future.     *)
Fits(e) ==
    /\ e.portal \in PortalIDs
    /\ e.at \in Nat /\ e.at <= tickAt
    /\ portals[e.portal].openedAt <= e.at
    /\ ~IsOpen(portals[e.portal]) => e.at <= portals[e.portal].closedAt

Began ==
    \A o \in Observers : InTransit(observers[o]) =>
        portals[observers[o].portal].openedAt <= observers[o].startedAt

LogInv ==
    /\ \A e \in DOMAIN log : e.portal # Nil => Fits(e)
    /\ Began

-----------------------------------------------------------------------------
(* What a step leaves of portals and transits                              *)

(* No step forgets a portal or reopens one, and none ends before the last  *)
(* tick.                                                                   *)
LEMMA PortalLives ==
    ASSUME IInv, IInv', Next, NEW i \in PortalIDs
    PROVE  /\ i \in PortalIDs' /\ tickAt \in Nat /\ tickAt' \in Nat /\ tickAt <= tickAt'
           /\ portals[i] \in Portal /\ portals'[i] \in Portal
           /\ portals'[i].openedAt = portals[i].openedAt
           /\ ~IsOpen(portals[i]) => portals'[i] = portals[i]
           /\ IsOpen(portals[i]) /\ ~IsOpen(portals'[i]) =>
                tickAt <= portals'[i].closedAt
<1>0. /\ portals \in [PortalIDs -> Portal] /\ portals' \in [PortalIDs' -> Portal]
      /\ tickAt \in Nat /\ tickAt' \in Nat
  BY DEF IInv, TypeOK, Time
<1>1. ASSUME NEW now \in (tickAt + 1)..MaxTime, Tick(now)
      PROVE  /\ i \in PortalIDs' /\ tickAt' = now /\ tickAt <= now
             /\ portals'[i].openedAt = portals[i].openedAt
             /\ ~IsOpen(portals[i]) => portals'[i] = portals[i]
             /\ IsOpen(portals[i]) /\ ~IsOpen(portals'[i]) => tickAt <= portals'[i].closedAt
  <2> DEFINE ps == ResolvedPortals(now)
  <2>1. now \in Nat /\ tickAt <= now /\ tickAt' = now
    BY <1>0, <1>1, ConfigTypes DEF Tick
  <2>2. i \in PortalIDs'
    BY <1>1, <2>1, TickPortals
  <2>3. ~IsOpen(portals[i]) => portals'[i] = portals[i]
    BY <1>1, <2>1, TickFreezes
  <2>4. portals[i] \in Portal /\ GoodPortal(portals[i], tickAt)
    BY <1>0 DEF IInv, GoodPortals
  <2>5. ps[i] = ResolveLifecycle(portals[i], now)
    BY DEF ResolvedPortals
  <2>6. IsOpen(portals[i]) /\ ~IsOpen(ps[i]) => ps[i].closedAt = Termination(portals[i]).at
    BY <1>0, <2>1, <2>4, <2>5, ResolveLifecycleGood
  <2>7. portals'[i].status = ps[i].status /\ portals'[i].closedAt = ps[i].closedAt
    BY <1>1, <2>1, TickPortals
  <2>8. portals'[i].openedAt = portals[i].openedAt
    BY <1>1, <2>1, TickPortals
  <2> HIDE DEF ps
  <2>9. IsOpen(portals[i]) /\ ~IsOpen(portals'[i]) => tickAt <= portals'[i].closedAt
    BY <2>4, <2>6, <2>7 DEF GoodPortal, NotPast, IsOpen
  <2> QED BY <2>1, <2>2, <2>3, <2>8, <2>9
<1>2. ASSUME Command
      PROVE  /\ i \in PortalIDs' /\ tickAt' = tickAt
             /\ portals'[i].openedAt = portals[i].openedAt
             /\ ~IsOpen(portals[i]) => portals'[i] = portals[i]
             /\ IsOpen(portals[i]) /\ ~IsOpen(portals'[i]) => tickAt <= portals'[i].closedAt
  <2>1. /\ ~IsOpen(portals[i]) => portals'[i] = portals[i]
        /\ portals'[i].status # portals[i].status => portals'[i].closedAt = tickAt
        /\ i \in PortalIDs' /\ tickAt' = tickAt
        /\ portals'[i].openedAt = portals[i].openedAt
    BY <1>2, CommandPortals
  <2> QED BY <1>0, <2>1 DEF IsOpen
<1>3. CASE TickAgain
  BY <1>0, <1>3 DEF TickAgain, vars, PortalIDs
<1> QED BY <1>0, <1>1, <1>2, <1>3 DEF Next

(* What a step does to a transit, and when.                                *)
LEMMA TransitStep ==
    ASSUME IInv, IInv', Next, NEW o \in Observers, InTransit(observers[o])
    PROVE  LET p == portals'[observers[o].portal]
           IN \/ observers'[o] = observers[o]
              \/ /\ observers'[o].status = "LOST" /\ ~IsOpen(p)
                 /\ observers'[o].updatedAt = p.closedAt
              \/ /\ observers'[o].status # "LOST" /\ observers[o].endsAt <= tickAt'
                 /\ ~IsOpen(p) => observers[o].endsAt <= p.closedAt
<1> DEFINE k == observers[o].portal
<1>0. /\ observers[o] \in Observer /\ k \in PortalIDs /\ IsOpen(portals[k])
      /\ observers[o].endsAt \in Nat /\ observers[o].status # "LOST"
  BY Travelling
<1>1. ASSUME NEW now \in (tickAt + 1)..MaxTime, Tick(now)
      PROVE  \/ observers'[o] = observers[o]
             \/ /\ observers'[o].status = "LOST" /\ ~IsOpen(portals'[k])
                /\ observers'[o].updatedAt = portals'[k].closedAt
             \/ /\ observers'[o].status # "LOST" /\ observers[o].endsAt <= tickAt'
                /\ ~IsOpen(portals'[k]) => observers[o].endsAt <= portals'[k].closedAt
  <2> DEFINE ps == ResolvedPortals(now)
             r == ResolvedObservers(ps, now)[o]
  <2>1. now \in Nat /\ tickAt <= now /\ tickAt' = now
    BY <1>1, ConfigTypes DEF IInv, TypeOK, Time, Tick
  <2>2. ps \in [PortalIDs -> Portal] /\ GoodPortals(ps, now)
    BY <2>1, PortalStage
  <2>3. ~IsOpen(ps[k]) => ps[k].closedAt \in Nat /\ ps[k].closedAt <= now
    BY <1>0, <2>1, <2>2, TerminalClosedAt DEF GoodPortals
  <2>4. r = ResolveObserverLifecycle(observers[o], ps, now)
    BY DEF ResolvedObservers
  <2>5. portals'[k].status = ps[k].status /\ portals'[k].closedAt = ps[k].closedAt
    BY <1>0, <1>1, <2>1, TickPortals
  <2>6. \/ observers'[o] = r
        \/ r.status = "WAITING_RETURN" /\ observers'[o].status = "RETURNING"
    BY <1>1, <2>1, TickObservers
  <2> HIDE DEF ps, r
  <2>7. \/ r = observers[o]
        \/ /\ r.status = "LOST" /\ r.updatedAt = ps[k].closedAt
           /\ ~IsOpen(ps[k])
        \/ /\ r.status \in {"EXPLORING", "WAITING_RETURN", "AVAILABLE"}
           /\ observers[o].endsAt <= now
           /\ ~IsOpen(ps[k]) => observers[o].endsAt <= ps[k].closedAt
    BY <1>0, <2>1, <2>3, <2>4, LifecycleOutcome
  <2>8. r = observers[o] => r.status # "WAITING_RETURN"
    BY DEF InTransit
  <2> QED BY <2>1, <2>5, <2>6, <2>7, <2>8 DEF IsOpen
<1>2. CASE Command
  BY <1>2, CommandTransits DEF IsOpen
<1>3. CASE TickAgain
  BY <1>3 DEF TickAgain, vars
<1> QED BY <1>1, <1>2, <1>3 DEF Next

(* Nobody else is lost, and whoever sets out travels through a portal that *)
(* had opened by then.                                                     *)
LEMMA Departures ==
    ASSUME IInv, IInv', Next, NEW o \in Observers
    PROVE  /\ observers'[o].status = "LOST" =>
                observers[o].status = "LOST" \/ InTransit(observers[o])
           /\ InTransit(observers'[o]) =>
                \/ observers'[o] = observers[o]
                \/ /\ observers'[o].portal \in PortalIDs
                   /\ portals[observers'[o].portal].openedAt <= observers'[o].startedAt
<1> DEFINE q == observers'[o]
           Set == \/ q.portal \in PortalIDs /\ portals[q.portal].openedAt <= q.startedAt
                  \/ q = observers[o]
<1>0. /\ observers \in [Observers -> Observer] /\ portals \in [PortalIDs -> Portal]
      /\ tickAt \in Nat /\ \A i \in PortalIDs : portals[i].openedAt <= tickAt
      /\ \A i \in PortalIDs : portals[i].openedAt \in Nat
  <2>1. observers \in [Observers -> Observer] /\ portals \in [PortalIDs -> Portal]
        /\ tickAt \in Nat
    BY DEF IInv, TypeOK, Time
  <2>2. \A i \in PortalIDs : GoodPortal(portals[i], tickAt)
    BY <2>1 DEF IInv, GoodPortals
  <2> QED BY <2>1, <2>2 DEF GoodPortal, ValidPortal, Portal, Time
<1>1. ASSUME NEW now \in (tickAt + 1)..MaxTime, Tick(now)
      PROVE  /\ q.status = "LOST" => observers[o].status = "LOST" \/ InTransit(observers[o])
             /\ InTransit(q) => Set
  <2> DEFINE ps == ResolvedPortals(now)
             os == ResolvedObservers(ps, now)
             r == os[o]
  <2>1. now \in Nat /\ tickAt <= now
    BY <1>1, ConfigTypes DEF IInv, TypeOK, Time
  <2>2. \/ q = r
        \/ /\ q.status = "RETURNING" /\ q.portal \in SyncDue(ps, now)
           /\ q.startedAt = SyncAt(portals[q.portal])
    BY <1>1, <2>1, TickObservers
  <2>3. InTransit(r) => r = observers[o]
    BY <2>1, ObserversStage
  <2>4. SyncDue(ps, now) \subseteq PortalIDs
    BY DEF SyncDue, ResolvedPortals
  <2>5. r = ResolveObserverLifecycle(observers[o], ps, now)
    BY DEF ResolvedObservers
  <2> HIDE DEF ps, os
  <2>6. r.status = "LOST" => observers[o].status = "LOST" \/ InTransit(observers[o])
    <3> HIDE DEF r
    <3> SUFFICES ASSUME ~InTransit(observers[o]), observers[o].status # "LOST"
                 PROVE  r.status # "LOST"
      OBVIOUS
    <3>1. CASE observers[o].status = "EXPLORING"
      BY <1>0, <2>5, <3>1 DEF ResolveObserverLifecycle, ResolveResearch, Observer
    <3>2. CASE observers[o].status # "EXPLORING"
      BY <2>5, <3>2 DEF ResolveObserverLifecycle, InTransit
    <3> QED BY <3>1, <3>2
  <2>7. q.portal \in SyncDue(ps, now) /\ q.startedAt = SyncAt(portals[q.portal]) => Set
    BY <1>0, <2>4, ConfigTypes DEF SyncAt
  <2> QED BY <2>2, <2>3, <2>6, <2>7
<1>2. ASSUME NEW i \in PortalIDs, NEW confirm \in BOOLEAN, ClosePortal(i, confirm)
      PROVE  /\ q.status = "LOST" => observers[o].status = "LOST" \/ InTransit(observers[o])
             /\ InTransit(q) => Set
  <2>1. ~InTransit(observers[o]) => q = observers[o]
    BY <1>2 DEF ClosePortal, TransitThrough
  <2>2. InTransit(observers[o]) => q = observers[o] \/ q.status = "LOST"
    BY <1>2, CommandTransits DEF Command
  <2> QED BY <2>1, <2>2 DEF InTransit
<1>3. ASSUME NEW i \in PortalIDs, NEW c \in Observers, NEW status, NEW d,
             observers' = [observers EXCEPT ![c] = StartTransit(@, status, i, tickAt, d)],
             status \in {"OUTBOUND", "RETURNING"}
      PROVE  /\ q.status = "LOST" => observers[o].status = "LOST"
             /\ InTransit(q) => Set
  <2>1. CASE o = c
    <3>1. q = StartTransit(observers[o], status, i, tickAt, d)
      BY <1>0, <1>3, <2>1
    <3>2. q.status = status /\ q.portal = i /\ q.startedAt = tickAt
      BY <1>0, <3>1 DEF StartTransit, Observer
    <3> QED BY <1>0, <1>3, <3>2
  <2>2. CASE o # c
    BY <1>0, <1>3, <2>2
  <2> QED BY <2>1, <2>2
<1>4. ASSUME NEW i \in PortalIDs, NEW confirm \in BOOLEAN, SendObserver(i, confirm)
      PROVE  /\ q.status = "LOST" => observers[o].status = "LOST" \/ InTransit(observers[o])
             /\ InTransit(q) => Set
  <2> DEFINE available == {c \in Observers : observers[c].status = "AVAILABLE"}
  <2>1. available # {} /\ \E d \in TransitDurations :
             observers' = [observers EXCEPT
               ![Min(available)] = StartTransit(@, "OUTBOUND", i, tickAt, d)]
    BY <1>4 DEF SendObserver
  <2>2. available \in SUBSET Nat /\ available \subseteq Observers
    BY DEF Observers
  <2> HIDE DEF available
  <2>3. Min(available) \in Observers
    BY <2>1, <2>2, MinNat
  <2> QED BY <1>3, <2>1, <2>3
<1>5. ASSUME NEW i \in PortalIDs, NEW confirm \in BOOLEAN, RecallObserver(i, confirm)
      PROVE  /\ q.status = "LOST" => observers[o].status = "LOST" \/ InTransit(observers[o])
             /\ InTransit(q) => Set
  <2>1. \E c \in LongestWaiting(observers, WaitingOn(observers, portals[i].plane)),
           d \in TransitDurations :
          observers' = [observers EXCEPT
            ![c] = StartTransit(@, "RETURNING", i, tickAt, d)]
    BY <1>5 DEF RecallObserver
  <2>2. LongestWaiting(observers, WaitingOn(observers, portals[i].plane)) \subseteq Observers
    BY DEF LongestWaiting, WaitingOn
  <2> QED BY <1>3, <2>1, <2>2
<1>6. ASSUME \/ \E i \in PortalIDs : Stabilize(i)
             \/ \E plane \in Planes : OpenExtraction(plane)
             \/ TickAgain
      PROVE  q = observers[o]
  BY <1>6 DEF Stabilize, OpenExtraction, TickAgain, vars
<1> QED BY <1>1, <1>2, <1>4, <1>5, <1>6 DEF Next, Command

(* Transits still begin within the life of their portal.                   *)
LEMMA BeganKept ==
    ASSUME IInv, IInv', Next, Began
    PROVE  Began'
<1> SUFFICES ASSUME NEW o \in Observers, InTransit(observers'[o])
             PROVE  portals'[observers'[o].portal].openedAt <= observers'[o].startedAt
  BY DEF Began
<1>1. CASE observers'[o] = observers[o]
  <2>1. observers[o].portal \in PortalIDs /\ InTransit(observers[o])
    BY <1>1, Travelling
  <2>2. portals[observers[o].portal].openedAt <= observers[o].startedAt
    BY <2>1 DEF Began
  <2> QED BY <1>1, <2>1, <2>2, PortalLives
<1>2. CASE /\ observers'[o].portal \in PortalIDs
           /\ portals[observers'[o].portal].openedAt <= observers'[o].startedAt
  BY <1>2, PortalLives
<1> QED BY <1>1, <1>2, Departures

-----------------------------------------------------------------------------
(* The events of a step                                                    *)

(* What the log already says of a portal stays within its life.            *)
LEMMA FitsKept ==
    ASSUME IInv, IInv', Next, NEW e, Fits(e)
    PROVE  Fits(e)'
<1>1. /\ e.portal \in PortalIDs /\ e.at \in Nat /\ e.at <= tickAt
      /\ portals[e.portal].openedAt <= e.at
      /\ ~IsOpen(portals[e.portal]) => e.at <= portals[e.portal].closedAt
  BY DEF Fits
<1> DEFINE i == e.portal
<1>2. /\ i \in PortalIDs' /\ tickAt \in Nat /\ tickAt' \in Nat /\ tickAt <= tickAt'
      /\ portals'[i].openedAt = portals[i].openedAt
      /\ ~IsOpen(portals[i]) => portals'[i] = portals[i]
      /\ IsOpen(portals[i]) /\ ~IsOpen(portals'[i]) => tickAt <= portals'[i].closedAt
      /\ portals'[i] \in Portal
  BY <1>1, PortalLives
<1>3. ~IsOpen(portals'[i]) => e.at <= portals'[i].closedAt
  <2>1. CASE ~IsOpen(portals[i])
    BY <1>1, <1>2, <2>1
  <2>2. CASE IsOpen(portals[i]) /\ ~IsOpen(portals'[i])
    <3>1. portals'[i].closedAt \in Int
      BY <1>2 DEF Portal, OptTime, Time, Nil
    <3> QED BY <1>1, <1>2, <2>2, <3>1
  <2> QED BY <2>1, <2>2
<1>4. e.at <= tickAt'
  BY <1>1, <1>2
<1> QED BY <1>1, <1>2, <1>3, <1>4 DEF Fits

(* The instants a valid portal carries lie within its life.                *)
LEMMA PortalDates ==
    ASSUME NEW p \in Portal, NEW now \in Nat, ValidPortal(p, now)
    PROVE  /\ p.openedAt \in Nat /\ p.openedAt <= now
           /\ p.updatedAt \in p.openedAt..now
           /\ ~IsOpen(p) => p.closedAt \in p.openedAt..now
           /\ p.syncedAt # Nil => /\ p.syncedAt \in p.openedAt..now
                                  /\ ~IsOpen(p) => p.syncedAt <= p.closedAt
<1>1. /\ p.openedAt \in Nat /\ p.openedAt <= now /\ p.updatedAt \in Nat
      /\ p.openedAt <= p.energyBaseAt /\ p.energyBaseAt <= p.updatedAt
      /\ p.updatedAt <= now /\ p.energyBaseAt \in Nat
  BY DEF ValidPortal, Portal, Time
<1>2. ~IsOpen(p) => p.closedAt \in p.openedAt..now /\ p.syncedAt <= p.closedAt
  BY DEF ValidPortal, ValidTerminalPortal
<1>3. p.syncedAt # Nil => p.syncedAt = SyncAt(p) /\ p.syncedAt <= now
  BY DEF ValidPortal, Portal
<1>4. p.syncedAt # Nil => p.syncedAt \in p.openedAt..now
  BY <1>1, <1>3, ConfigTypes DEF SyncAt
<1> QED BY <1>1, <1>2, <1>4

(* The portal events of a step fit (EventsForStateTransition).             *)
LEMMA PortalEventsFit ==
    ASSUME IInv, IInv', Next, NEW i \in 1..(nextPortalID' - 1), NEW e \in PortalEvents(i)
    PROVE  Fits(e)'
<1> DEFINE p == portals'[i]
<1>1. i \in PortalIDs'
  BY DEF PortalIDs
<1>2. /\ tickAt' \in Nat /\ p.openedAt \in Nat /\ p.openedAt <= tickAt'
      /\ p.updatedAt \in p.openedAt..tickAt'
      /\ ~IsOpen(p) => p.closedAt \in p.openedAt..tickAt'
      /\ p.syncedAt # Nil => /\ p.syncedAt \in p.openedAt..tickAt'
                             /\ ~IsOpen(p) => p.syncedAt <= p.closedAt
  <2>1. p \in Portal /\ tickAt' \in Nat /\ ValidPortal(p, tickAt')
    BY <1>1 DEF IInv, TypeOK, GoodPortals, GoodPortal, Time
  <2> HIDE DEF p
  <2> QED BY <2>1, PortalDates
<1> HIDE DEF p
<1>3. e.portal = i
  BY DEF PortalEvents, OpenedEvents, EndEvents, OpenPortalEvents, SynchronizedEvents,
         When, Event
<1>4. /\ e.at \in Nat /\ e.at <= tickAt' /\ p.openedAt <= e.at
      /\ ~IsOpen(p) => e.at <= p.closedAt
  <2>1. CASE e \in OpenedEvents(i)
    BY <1>2, <2>1 DEF OpenedEvents, When, Event, p
  <2>2. CASE e \in EndEvents(i)
    BY <1>2, <2>2 DEF EndEvents, When, Event, p
  <2>3. CASE e \in OpenPortalEvents(i)
    BY <1>2, <2>3 DEF OpenPortalEvents, When, Event, p
  <2>4. CASE e \in SynchronizedEvents(i)
    BY <1>2, <2>4 DEF SynchronizedEvents, When, Event, p
  <2> QED BY <2>1, <2>2, <2>3, <2>4 DEF PortalEvents
<1> QED BY <1>1, <1>3, <1>4 DEF Fits, p

(* An event of a portal at an instant within its life and before now.      *)
LEMMA FitsAt ==
    ASSUME IInv', NEW e, e.portal \in PortalIDs', e.at \in Nat, e.at <= tickAt',
           portals'[e.portal].openedAt <= e.at,
           ~IsOpen(portals'[e.portal]) => e.at <= portals'[e.portal].closedAt
    PROVE  Fits(e)'
BY DEF Fits

(* Whoever is in transit set out through a portal that is still OPEN, at   *)
(* an instant within its life.                                             *)
LEMMA DepartureFits ==
    ASSUME IInv', Began', NEW o \in Observers, InTransit(observers'[o]), NEW e,
           e.portal = observers'[o].portal, e.at = observers'[o].startedAt
    PROVE  Fits(e)'
<1>1. /\ observers'[o] \in Observer /\ portals' \in [PortalIDs' -> Portal] /\ tickAt' \in Nat
      /\ ValidObserver(observers'[o], portals', tickAt')
      /\ IsOpen(portals'[observers'[o].portal])
  BY DEF IInv, TypeOK, GoodObservers, TravelsWell, Time
<1>2. observers'[o].portal \in PortalIDs'
  BY <1>1 DEF ValidObserver, InTransit
<1>3. observers'[o].startedAt \in Nat /\ observers'[o].startedAt <= tickAt'
  BY <1>1 DEF ValidObserver, ValidPhase, InTransit, Observer, OptTime, Time
<1>4. portals'[observers'[o].portal].openedAt <= observers'[o].startedAt
  BY DEF Began
<1> QED BY <1>1, <1>2, <1>3, <1>4, FitsAt

(* An arrival is dated with the end of the transit, which lies within the  *)
(* life of the portal even if the tick that resolves both is late.         *)
LEMMA ArrivalFits ==
    ASSUME IInv, IInv', Next, Began, NEW o \in Observers, InTransit(observers[o]),
           observers'[o] # observers[o], observers'[o].status # "LOST",
           NEW e, e.portal = observers[o].portal, e.at = observers[o].endsAt
    PROVE  Fits(e)'
<1> DEFINE k == observers[o].portal
<1>1. k \in PortalIDs /\ observers[o].endsAt \in Nat /\ observers[o] \in Observer
  BY Travelling
<1>2. /\ observers[o].endsAt <= tickAt'
      /\ ~IsOpen(portals'[k]) => observers[o].endsAt <= portals'[k].closedAt
  BY TransitStep
<1>3. /\ observers[o].startedAt \in Nat /\ observers[o].startedAt < observers[o].endsAt
  BY <1>1 DEF IInv, GoodObservers, ValidObserver, ValidPhase, InTransit, Observer, OptTime, Time
<1>4. portals[k].openedAt <= observers[o].startedAt
  BY DEF Began
<1>5. /\ k \in PortalIDs' /\ portals'[k].openedAt = portals[k].openedAt
      /\ portals[k] \in Portal
  BY <1>1, PortalLives
<1>6. portals[k].openedAt \in Nat
  BY <1>5 DEF Portal, Time
<1>7. portals'[k].openedAt <= observers[o].endsAt
  BY <1>1, <1>3, <1>4, <1>5, <1>6
<1> QED BY <1>1, <1>2, <1>5, <1>7, FitsAt

(* A loss is dated with the end of the portal.                             *)
LEMMA LossFits ==
    ASSUME IInv, IInv', Next, NEW o \in Observers, observers[o].status # "LOST",
           observers'[o].status = "LOST",
           NEW e, e.portal = observers[o].portal, e.at = observers'[o].updatedAt
    PROVE  Fits(e)'
<1> DEFINE k == observers[o].portal
<1>1. InTransit(observers[o])
  BY Departures
<1>2. k \in PortalIDs
  BY <1>1, Travelling
<1>3. ~IsOpen(portals'[k]) /\ observers'[o].updatedAt = portals'[k].closedAt
  BY <1>1, TransitStep
<1>4. k \in PortalIDs'
  BY <1>2, PortalLives
<1>5. portals'[k] \in Portal /\ tickAt' \in Nat /\ ValidPortal(portals'[k], tickAt')
  BY <1>4 DEF IInv, TypeOK, GoodPortals, GoodPortal, Time
<1>6. /\ portals'[k].openedAt \in Nat
      /\ portals'[k].closedAt \in portals'[k].openedAt..tickAt'
  BY <1>3, <1>5, PortalDates
<1> QED BY <1>3, <1>4, <1>5, <1>6, FitsAt

(* The observer events of a step fit (eventsForObservers); the end of      *)
(* research names no portal.                                               *)
LEMMA ObserverEventsFit ==
    ASSUME IInv, IInv', Next, Began, Began', NEW o \in Observers,
           NEW e \in ObserverEvents(o), e.portal # Nil
    PROVE  Fits(e)'
<1>1. CASE e \in DispatchEvents(o)
  <2>1. /\ observers'[o].status = "OUTBOUND" /\ e.portal = observers'[o].portal
        /\ e.at = observers'[o].startedAt
    BY <1>1 DEF DispatchEvents, When, Event
  <2> QED BY <2>1, DepartureFits DEF InTransit
<1>2. CASE e \in ArrivalEvents(o)
  <2>1. /\ observers[o].status = "OUTBOUND"
        /\ observers'[o].status \notin {"OUTBOUND", "LOST"}
        /\ e.portal = observers[o].portal /\ e.at = observers[o].endsAt
    BY <1>2 DEF ArrivalEvents, Event
  <2> QED BY <2>1, ArrivalFits DEF InTransit
<1>3. CASE e \in ResearchEvents(o)
  <2>1. e.portal = Nil
    BY <1>3 DEF ResearchEvents, When, Event
  <2> QED BY <2>1
<1>4. CASE e \in ReturnEvents(o)
  <2>1. \/ /\ observers'[o].status = "RETURNING" /\ e.portal = observers'[o].portal
           /\ e.at = observers'[o].startedAt
        \/ /\ observers[o].status = "RETURNING" /\ observers'[o].status = "AVAILABLE"
           /\ e.portal = observers[o].portal /\ e.at = observers[o].endsAt
    BY <1>4 DEF ReturnEvents, When, Event
  <2>2. CASE /\ observers'[o].status = "RETURNING" /\ e.portal = observers'[o].portal
             /\ e.at = observers'[o].startedAt
    BY <2>2, DepartureFits DEF InTransit
  <2>3. CASE /\ observers[o].status = "RETURNING" /\ observers'[o].status = "AVAILABLE"
             /\ e.portal = observers[o].portal /\ e.at = observers[o].endsAt
    BY <2>3, ArrivalFits DEF InTransit
  <2> QED BY <2>1, <2>2, <2>3
<1>5. CASE e \in LostEvents(o)
  <2>1. /\ observers[o].status # "LOST" /\ observers'[o].status = "LOST"
        /\ e.portal = observers[o].portal /\ e.at = observers'[o].updatedAt
    BY <1>5 DEF LostEvents, When, Event
  <2> QED BY <2>1, LossFits
<1> QED BY <1>1, <1>2, <1>3, <1>4, <1>5 DEF ObserverEvents

-----------------------------------------------------------------------------
(* The theorem                                                             *)

(* The laboratory beneath the log is that of Simulation, so its invariant  *)
(* holds here as well.                                                     *)
THEOREM LaboratoryInductive == LogSpec => []IInv
<1>1. LogInit => Init
  BY DEF LogInit
<1>2. [LogNext]_logVars => [Next]_vars
  BY DEF LogNext, logVars, vars
<1> QED BY <1>1, <1>2, Inductive, PTL DEF LogSpec, Spec

(* LogInv holds in every state the log and its laboratory can reach.       *)
THEOREM LogInductive == LogSpec => []LogInv
<1>1. LogInit => LogInv
  <2> SUFFICES ASSUME LogInit PROVE LogInv
    OBVIOUS
  <2>1. DOMAIN log = {}
    BY DEF LogInit, EmptyBag, SetToBag
  <2>2. \A o \in Observers : ~InTransit(observers[o])
    BY DEF LogInit, Init, AtHome, InTransit
  <2> QED BY <2>1, <2>2 DEF LogInv, Began
<1>2. IInv /\ IInv' /\ LogInv /\ [LogNext]_logVars => LogInv'
  <2> SUFFICES ASSUME IInv, IInv', LogInv, LogNext PROVE LogInv'
    BY DEF logVars, vars, LogInv, Fits, Began, PortalIDs
  <2>1. Next /\ log' = log (+) SetToBag(EventsForStateTransition)
    BY DEF LogNext
  <2>2. DOMAIN log' = DOMAIN log \cup EventsForStateTransition
    <3> DEFINE E == EventsForStateTransition
    <3> HIDE DEF E
    <3>1. log' = log (+) SetToBag(E)
      BY <2>1 DEF E
    <3> QED BY <3>1 DEF (+), SetToBag, BagToSet, E
  <2>3. Began /\ Began'
    BY <2>1, BeganKept DEF LogInv
  <2>4. ASSUME NEW e \in DOMAIN log, e.portal # Nil PROVE Fits(e)'
    BY <2>1, <2>4, FitsKept DEF LogInv
  <2>5. ASSUME NEW e \in EventsForStateTransition, e.portal # Nil PROVE Fits(e)'
    <3>1. CASE \E i \in 1..(nextPortalID' - 1) : e \in PortalEvents(i)
      BY <2>1, <3>1, PortalEventsFit
    <3>2. CASE \E o \in Observers : e \in ObserverEvents(o)
      BY <2>1, <2>3, <2>5, <3>2, ObserverEventsFit
    <3>3. CASE \E pl \in Planes : e \in PlaneEvents(pl)
      BY <2>5, <3>3 DEF PlaneEvents, When, Event
    <3> QED BY <2>5, <3>1, <3>2, <3>3 DEF EventsForStateTransition
  <2> QED BY <2>2, <2>3, <2>4, <2>5 DEF LogInv
<1> QED BY <1>1, <1>2, LaboratoryInductive, PTL DEF LogSpec

(* Whatever tick notices it, nothing that happened in or through a portal  *)
(* is dated before the portal opened or after it ended.                    *)
THEOREM HistoryInLife == LogSpec => []HistoryWithinLife
<1>1. LogInv => HistoryWithinLife
  BY DEF LogInv, Fits, HistoryWithinLife
<1> QED BY <1>1, LogInductive, PTL

-----------------------------------------------------------------------------
(* Counting in the log                                                     *)

(* One token for every copy of every event of D, in the log L.             *)
Tokens(L, D) == UNION {{e} \X (1..L[e]) : e \in D}

(* A bag: every event it has, it has at least once.                        *)
Multiset(L) == L \in [DOMAIN L -> Nat \ {0}]

(* The log L with one more copy of each event of E.                        *)
Extended(L, E) == L (+) SetToBag(E)

(* The log is a finite bag.                                                *)
LogBag ==
    /\ Multiset(log)
    /\ IsFiniteSet(Tokens(log, DOMAIN log))

(* A token is an event with the number of one of its copies.               *)
LEMMA TokenOf ==
    ASSUME NEW L, NEW D, NEW t
    PROVE  t \in Tokens(L, D) <=> \E e \in D : \E k \in 1..L[e] : t = <<e, k>>
BY DEF Tokens

(* M is L with one more copy of each event of E, event by event.          *)
Grown(L, E, M) ==
    /\ DOMAIN M = DOMAIN L \cup E
    /\ Multiset(M)
    /\ \A e \in DOMAIN L \ E : M[e] = L[e]
    /\ \A e \in DOMAIN L \cap E : M[e] = L[e] + 1
    /\ \A e \in E \ DOMAIN L : M[e] = 1

(* Appending a set of events adds one copy of each.                        *)
LEMMA Appended ==
    ASSUME NEW L, Multiset(L), NEW E, NEW M, M = Extended(L, E)
    PROVE  Grown(L, E, M)
<1>1. M = [e \in DOMAIN L \cup E |-> (IF e \in DOMAIN L THEN L[e] ELSE 0)
                                       + (IF e \in E THEN 1 ELSE 0)]
  BY DEF Extended, (+), SetToBag, BagToSet
<1>2. DOMAIN M = DOMAIN L \cup E
  BY <1>1
<1>3. \A e \in DOMAIN L : L[e] \in Nat \ {0}
  BY DEF Multiset
<1>4. /\ \A e \in DOMAIN L \ E : M[e] = L[e]
      /\ \A e \in DOMAIN L \cap E : M[e] = L[e] + 1
      /\ \A e \in E \ DOMAIN L : M[e] = 1
  BY <1>1, <1>3
<1>5. \A e \in DOMAIN M : M[e] \in Nat \ {0}
  BY <1>2, <1>3, <1>4
<1>6. M = [e \in DOMAIN M |-> M[e]]
  BY <1>1, <1>2
<1>7. Multiset(M)
  BY <1>5, <1>6 DEF Multiset
<1> QED BY <1>2, <1>4, <1>7 DEF Grown

(* What is not among the new events is counted as before.                  *)
LEMMA CountKept ==
    ASSUME NEW L, Multiset(L), NEW E, NEW M, M = Extended(L, E),
           NEW D, D \subseteq DOMAIN M, D \cap E = {}
    PROVE  D \subseteq DOMAIN L /\ Tokens(M, D) = Tokens(L, D)
<1>1. D \subseteq DOMAIN L /\ \A e \in D : M[e] = L[e]
  <2>1. /\ DOMAIN M = DOMAIN L \cup E
        /\ Multiset(M)
        /\ \A e \in DOMAIN L \ E : M[e] = L[e]
        /\ \A e \in DOMAIN L \cap E : M[e] = L[e] + 1
        /\ \A e \in E \ DOMAIN L : M[e] = 1
    <3>1. Grown(L, E, M)
      BY Appended
    <3> QED BY <3>1 DEF Grown
  <2> QED BY <2>1
<1> QED BY <1>1 DEF Tokens

(* One new event adds one token, whether or not the log had it before.     *)
LEMMA CountGrows ==
    ASSUME NEW L, Multiset(L), NEW E, NEW M, M = Extended(L, E),
           NEW D, D \subseteq DOMAIN M, NEW x, D \cap E = {x},
           IsFiniteSet(Tokens(L, D \cap DOMAIN L))
    PROVE  Cardinality(Tokens(M, D)) = Cardinality(Tokens(L, D \cap DOMAIN L)) + 1
<1> DEFINE old == Tokens(L, D \cap DOMAIN L)
           new == <<x, M[x]>>
<1>1. /\ DOMAIN M = DOMAIN L \cup E
      /\ \A e \in DOMAIN L \ E : M[e] = L[e]
      /\ \A e \in DOMAIN L \cap E : M[e] = L[e] + 1
      /\ \A e \in E \ DOMAIN L : M[e] = 1
  <2>1. Grown(L, E, M)
    BY Appended
  <2> QED BY <2>1 DEF Grown
<1>2. x \in D /\ x \in E /\ x \in DOMAIN M
  BY <1>1
<1>3. \A e \in D : e # x => e \in DOMAIN L \ E
  BY <1>1
<1>4. x \in DOMAIN L => M[x] = L[x] + 1 /\ L[x] \in Nat \ {0}
  BY <1>1, <1>2 DEF Multiset
<1>5. x \notin DOMAIN L => M[x] = 1
  BY <1>1, <1>2
<1>6. new \notin old
  <2> SUFFICES ASSUME new \in old PROVE FALSE
    OBVIOUS
  <2>1. PICK e \in D \cap DOMAIN L : \E k \in 1..L[e] : new = <<e, k>>
    BY TokenOf
  <2>2. e = x /\ M[x] \in 1..L[x]
    BY <2>1
  <2> QED BY <1>4, <2>1, <2>2
<1>7. Tokens(M, D) = old \cup {new}
  <2>1. ASSUME NEW t \in Tokens(M, D) PROVE t \in old \cup {new}
    <3>1. PICK e \in D : \E k \in 1..M[e] : t = <<e, k>>
      BY <2>1, TokenOf
    <3>2. PICK k \in 1..M[e] : t = <<e, k>>
      BY <3>1
    <3>3. CASE e # x
      <4>1. e \in D \cap DOMAIN L /\ k \in 1..L[e]
        BY <1>1, <1>3, <3>2, <3>3
      <4> QED BY <3>2, <4>1, TokenOf
    <3>4. CASE e = x /\ k = M[x]
      BY <3>2, <3>4
    <3>5. CASE e = x /\ k # M[x]
      <4>1. x \in DOMAIN L
        BY <1>5, <3>2, <3>5
      <4>2. k \in 1..L[x]
        BY <1>4, <3>2, <3>5, <4>1
      <4> QED BY <1>2, <3>2, <3>5, <4>1, <4>2, TokenOf
    <3> QED BY <3>3, <3>4, <3>5
  <2>2. ASSUME NEW t \in old PROVE t \in Tokens(M, D)
    <3>1. PICK e \in D \cap DOMAIN L : \E k \in 1..L[e] : t = <<e, k>>
      BY <2>2, TokenOf
    <3>2. PICK k \in 1..L[e] : t = <<e, k>>
      BY <3>1
    <3>3. L[e] \in Nat /\ (M[e] = L[e] \/ M[e] = L[e] + 1)
      BY <1>1 DEF Multiset
    <3>4. k \in 1..M[e]
      BY <3>2, <3>3
    <3> QED BY <3>2, <3>4, TokenOf
  <2>3. new \in Tokens(M, D)
    <3>1. M[x] \in 1..M[x]
      BY <1>4, <1>5
    <3> QED BY <1>2, <3>1, TokenOf
  <2> QED BY <2>1, <2>2, <2>3
<1> HIDE DEF old, new
<1>8. IsFiniteSet(old)
  BY DEF old
<1>9. Cardinality(old \cup {new}) = Cardinality(old) + 1
  BY <1>6, <1>8, FS_AddElement
<1> QED BY <1>7, <1>9 DEF old

(* The log stays a finite bag if the new events are finitely many.         *)
LEMMA BagKept ==
    ASSUME NEW L, Multiset(L), IsFiniteSet(Tokens(L, DOMAIN L)),
           NEW E, IsFiniteSet(E), NEW M, M = Extended(L, E)
    PROVE  Multiset(M) /\ IsFiniteSet(Tokens(M, DOMAIN M))
<1> DEFINE old == Tokens(L, DOMAIN L)
           new == {<<e, M[e]>> : e \in E}
<1>1. /\ DOMAIN M = DOMAIN L \cup E
      /\ Multiset(M)
      /\ \A e \in DOMAIN L \ E : M[e] = L[e]
      /\ \A e \in DOMAIN L \cap E : M[e] = L[e] + 1
      /\ \A e \in E \ DOMAIN L : M[e] = 1
  <2>1. Grown(L, E, M)
    BY Appended
  <2> QED BY <2>1 DEF Grown
<1>2. IsFiniteSet(new)
  <2> DEFINE f == [e \in E |-> <<e, M[e]>>]
  <2>1. f \in Surjection(E, new)
    BY DEF Surjection
  <2> HIDE DEF f, new
  <2> QED BY <2>1, FS_Surjection
<1>3. Tokens(M, DOMAIN M) \subseteq old \cup new
  <2> SUFFICES ASSUME NEW t \in Tokens(M, DOMAIN M) PROVE t \in old \cup new
    OBVIOUS
  <2>1. PICK e \in DOMAIN M : \E k \in 1..M[e] : t = <<e, k>>
    BY TokenOf
  <2>2. PICK k \in 1..M[e] : t = <<e, k>>
    BY <2>1
  <2>3. CASE e \in DOMAIN L /\ k \in 1..L[e]
    BY <2>2, <2>3, TokenOf
  <2>4. CASE e \in E /\ k = M[e]
    BY <2>2, <2>4
  <2>5. (e \in DOMAIN L /\ k \in 1..L[e]) \/ (e \in E /\ k = M[e])
    <3>1. CASE e \in DOMAIN L \ E
      BY <1>1, <2>2, <3>1
    <3>2. CASE e \in DOMAIN L \cap E
      <4>1. M[e] = L[e] + 1 /\ L[e] \in Nat
        BY <1>1, <3>2 DEF Multiset
      <4> QED BY <2>2, <3>2, <4>1
    <3>3. CASE e \in E \ DOMAIN L
      BY <1>1, <2>2, <3>3
    <3> QED BY <1>1, <3>1, <3>2, <3>3
  <2> QED BY <2>3, <2>4, <2>5
<1> HIDE DEF old, new
<1>4. IsFiniteSet(old \cup new)
  BY <1>2, FS_Union DEF old
<1>5. IsFiniteSet(Tokens(M, DOMAIN M))
  BY <1>3, <1>4, FS_Subset
<1> QED BY <1>1, <1>5

(* The union of a finite family of finite sets.                            *)
LEMMA FamilyFinite ==
    ASSUME NEW I, IsFiniteSet(I), NEW F, \A i \in I : IsFiniteSet(F[i])
    PROVE  IsFiniteSet(UNION {F[i] : i \in I})
<1> DEFINE f == [i \in I |-> F[i]]
           T == {F[i] : i \in I}
<1>1. f \in Surjection(I, T)
  BY DEF Surjection
<1>2. \A t \in T : IsFiniteSet(t)
  OBVIOUS
<1> HIDE DEF f, T
<1>3. IsFiniteSet(T)
  BY <1>1, FS_Surjection
<1>4. IsFiniteSet(UNION T)
  BY <1>2, <1>3, FS_UNION
<1> QED BY <1>4 DEF T

(* A step logs finitely many events of one portal.                         *)
LEMMA PortalEventsFinite ==
    ASSUME NEW i
    PROVE  IsFiniteSet(PortalEvents(i))
<1>1. IsFiniteSet(OpenedEvents(i))
  BY FS_EmptySet, FS_Singleton DEF OpenedEvents, When
<1>2. IsFiniteSet(EndEvents(i))
  BY FS_EmptySet, FS_Singleton DEF EndEvents, When
<1>3. IsFiniteSet(OpenPortalEvents(i))
  <2> DEFINE p == portals'[i]
             open == IsOpen(portals[i]) /\ IsOpen(p)
             A == When(open /\ portals[i].stability = "UNSTABLE" /\ p.stability = "STABLE",
                       Event("PORTAL_STABILIZED", i, Nil, p.plane, p.updatedAt))
             B == When(open /\ RiskLevel(portals[i], tickAt) # RiskLevel(p, tickAt'),
                       Event("RISK_LEVEL_CHANGED", i, Nil, p.plane, tickAt'))
  <2>1. OpenPortalEvents(i) = A \cup B
    BY DEF OpenPortalEvents
  <2>2. IsFiniteSet(A) /\ IsFiniteSet(B)
    BY FS_EmptySet, FS_Singleton DEF When
  <2> HIDE DEF A, B
  <2> QED BY <2>1, <2>2, FS_Union
<1>4. IsFiniteSet(SynchronizedEvents(i))
  BY FS_EmptySet, FS_Singleton DEF SynchronizedEvents, When
<1>5. IsFiniteSet(EndEvents(i) \cup OpenPortalEvents(i))
  BY <1>2, <1>3, FS_Union
<1>6. IsFiniteSet(EndEvents(i) \cup OpenPortalEvents(i) \cup SynchronizedEvents(i))
  BY <1>4, <1>5, FS_Union
<1> QED BY <1>1, <1>6 DEF PortalEvents

(* A step logs finitely many events of one observer.                       *)
LEMMA ObserverEventsFinite ==
    ASSUME NEW o
    PROVE  IsFiniteSet(ObserverEvents(o))
<1>1. IsFiniteSet(DispatchEvents(o))
  BY FS_EmptySet, FS_Singleton DEF DispatchEvents, When
<1>2. IsFiniteSet(ArrivalEvents(o))
  <2> DEFINE plane == portals[observers[o].portal].plane
             a == Event("OBSERVER_ARRIVED", observers[o].portal, o, plane, observers[o].endsAt)
             b == Event("RESEARCH_STARTED", observers[o].portal, o, plane, observers[o].endsAt)
  <2>1. ArrivalEvents(o) = {} \/ ArrivalEvents(o) = {a, b}
    BY DEF ArrivalEvents
  <2> HIDE DEF a, b
  <2>2. IsFiniteSet({a} \cup {b}) /\ {a, b} = {a} \cup {b}
    BY FS_Singleton, FS_Union
  <2> QED BY <2>1, <2>2, FS_EmptySet
<1>3. IsFiniteSet(ResearchEvents(o))
  <2> DEFINE A == When(observers[o].status = "EXPLORING"
                         /\ observers'[o].status \notin {"EXPLORING", "LOST"},
                       Event("RESEARCH_COMPLETED", Nil, o, observers[o].plane,
                             observers[o].endsAt))
             B == When(observers[o].status = "OUTBOUND"
                         /\ observers'[o].status \notin {"OUTBOUND", "LOST", "EXPLORING"},
                       Event("RESEARCH_COMPLETED", Nil, o, observers'[o].plane,
                             observers[o].endsAt + ResearchDuration))
  <2>1. ResearchEvents(o) = A \cup B
    BY DEF ResearchEvents
  <2>2. IsFiniteSet(A) /\ IsFiniteSet(B)
    BY FS_EmptySet, FS_Singleton DEF When
  <2> HIDE DEF A, B
  <2> QED BY <2>1, <2>2, FS_Union
<1>4. IsFiniteSet(ReturnEvents(o))
  <2> DEFINE A == When(observers[o].status \in {"WAITING_RETURN", "EXPLORING", "OUTBOUND"}
                         /\ observers'[o].status = "RETURNING",
                       Event("OBSERVER_RETURN_STARTED", observers'[o].portal, o,
                             observers'[o].plane, observers'[o].startedAt))
             B == When(observers[o].status = "RETURNING" /\ observers'[o].status = "AVAILABLE",
                       Event("OBSERVER_RETURNED", observers[o].portal, o,
                             observers[o].plane, observers[o].endsAt))
  <2>1. ReturnEvents(o) = A \cup B
    BY DEF ReturnEvents
  <2>2. IsFiniteSet(A) /\ IsFiniteSet(B)
    BY FS_EmptySet, FS_Singleton DEF When
  <2> HIDE DEF A, B
  <2> QED BY <2>1, <2>2, FS_Union
<1>5. IsFiniteSet(LostEvents(o))
  BY FS_EmptySet, FS_Singleton DEF LostEvents, When
<1>6. IsFiniteSet(DispatchEvents(o) \cup ArrivalEvents(o))
  BY <1>1, <1>2, FS_Union
<1>7. IsFiniteSet(DispatchEvents(o) \cup ArrivalEvents(o) \cup ResearchEvents(o))
  BY <1>3, <1>6, FS_Union
<1>8. IsFiniteSet(DispatchEvents(o) \cup ArrivalEvents(o) \cup ResearchEvents(o)
                    \cup ReturnEvents(o))
  BY <1>4, <1>7, FS_Union
<1>9. IsFiniteSet(DispatchEvents(o) \cup ArrivalEvents(o) \cup ResearchEvents(o)
                    \cup ReturnEvents(o) \cup LostEvents(o))
  BY <1>5, <1>8, FS_Union
<1> QED BY <1>9 DEF ObserverEvents

(* A step is found to have done finitely many things.                      *)
LEMMA EventsFinite ==
    ASSUME nextPortalID' \in Nat
    PROVE  IsFiniteSet(EventsForStateTransition)
<1> DEFINE I == 1..(nextPortalID' - 1)
           P == [i \in I |-> PortalEvents(i)]
           O == [o \in Observers |-> ObserverEvents(o)]
           Q == [pl \in Planes |-> PlaneEvents(pl)]
<1>1. IsFiniteSet(I) /\ IsFiniteSet(Observers) /\ IsFiniteSet(Planes)
  <2>1. 1 \in Int /\ nextPortalID' - 1 \in Int /\ ObserverCount \in Int /\ PlaneCount \in Int
    BY ConfigTypes
  <2>2. IsFiniteSet(1..(nextPortalID' - 1)) /\ IsFiniteSet(1..ObserverCount)
        /\ IsFiniteSet(1..PlaneCount)
    BY <2>1, FS_Interval
  <2> QED BY <2>2 DEF Observers, Planes
<1>2. \A i \in I : P[i] = PortalEvents(i) /\ IsFiniteSet(P[i])
  BY PortalEventsFinite
<1>3. \A o \in Observers : O[o] = ObserverEvents(o) /\ IsFiniteSet(O[o])
  BY ObserverEventsFinite
<1>4. \A pl \in Planes : Q[pl] = PlaneEvents(pl) /\ IsFiniteSet(Q[pl])
  BY FS_EmptySet, FS_Singleton DEF PlaneEvents, When
<1> HIDE DEF P, O, Q, I
<1>5. /\ {P[i] : i \in I} = {PortalEvents(i) : i \in I}
      /\ {O[o] : o \in Observers} = {ObserverEvents(o) : o \in Observers}
      /\ {Q[pl] : pl \in Planes} = {PlaneEvents(pl) : pl \in Planes}
  BY <1>2, <1>3, <1>4
<1>6. IsFiniteSet(UNION {P[i] : i \in I})
  BY <1>1, <1>2, FamilyFinite
<1>7. IsFiniteSet(UNION {O[o] : o \in Observers})
  BY <1>1, <1>3, FamilyFinite
<1>8. IsFiniteSet(UNION {Q[pl] : pl \in Planes})
  BY <1>1, <1>4, FamilyFinite
<1>9. IsFiniteSet((UNION {P[i] : i \in I}) \cup (UNION {O[o] : o \in Observers}))
  BY <1>6, <1>7, FS_Union
<1>10. IsFiniteSet((UNION {P[i] : i \in I}) \cup (UNION {O[o] : o \in Observers})
                     \cup (UNION {Q[pl] : pl \in Planes}))
  BY <1>8, <1>9, FS_Union
<1> QED BY <1>5, <1>10 DEF EventsForStateTransition, I

-----------------------------------------------------------------------------
(* What one step adds to the counts                                        *)

(* The statuses one step can take an observer through: a late tick crosses *)
(* arrival, research and automatic recall at once, but never comes home in *)
(* the tick that sets out.                                                 *)
Moves(s, t) ==
    \/ t = s
    \/ s = "AVAILABLE" /\ t = "OUTBOUND"
    \/ s = "OUTBOUND" /\ t \in {"EXPLORING", "WAITING_RETURN", "RETURNING", "LOST"}
    \/ s = "EXPLORING" /\ t \in {"WAITING_RETURN", "RETURNING"}
    \/ s = "WAITING_RETURN" /\ t = "RETURNING"
    \/ s = "RETURNING" /\ t \in {"AVAILABLE", "LOST"}

(* What the observer stage makes of a status (ResolveObserverLifecycle).   *)
LEMMA ResolvedStatus ==
    ASSUME NEW o \in Observer, NEW ps, NEW now,
           NEW r, r = ResolveObserverLifecycle(o, ps, now)
    PROVE  \/ r.status = o.status
           \/ o.status = "OUTBOUND" /\ r.status \in {"EXPLORING", "WAITING_RETURN", "LOST"}
           \/ o.status = "EXPLORING" /\ r.status = "WAITING_RETURN"
           \/ o.status = "RETURNING" /\ r.status \in {"AVAILABLE", "LOST"}
<1>1. ASSUME NEW q, q.status = "EXPLORING" \/ q.status = "LOST" \/ q = o,
             \/ q = o
             \/ DOMAIN q = {"status", "plane", "portal", "startedAt", "endsAt", "updatedAt"}
      PROVE  \/ ResolveResearch(q, now) = q
             \/ q.status = "EXPLORING" /\ ResolveResearch(q, now).status = "WAITING_RETURN"
  BY <1>1 DEF ResolveResearch, Observer
<1>2. CASE o.status = "OUTBOUND"
  <2> DEFINE q == ResolveOutbound(o, ps[o.portal], now)
  <2>1. r = ResolveResearch(q, now)
    BY <1>2 DEF ResolveObserverLifecycle
  <2>2. /\ q.status = "EXPLORING" \/ q.status = "LOST" \/ q = o
        /\ \/ q = o
           \/ DOMAIN q = {"status", "plane", "portal", "startedAt", "endsAt", "updatedAt"}
    BY DEF ResolveOutbound, AtHome
  <2> HIDE DEF q
  <2>3. r = q \/ (q.status = "EXPLORING" /\ r.status = "WAITING_RETURN")
    BY <1>1, <2>1, <2>2
  <2> QED BY <1>2, <2>2, <2>3
<1>3. CASE o.status = "EXPLORING"
  <2>1. r = ResolveResearch(o, now)
    BY <1>3 DEF ResolveObserverLifecycle
  <2> QED BY <1>1, <1>3, <2>1
<1>4. CASE o.status = "RETURNING"
  <2>1. r = ResolveReturning(o, ps[o.portal], now)
    BY <1>4 DEF ResolveObserverLifecycle
  <2> QED BY <1>4, <2>1 DEF ResolveReturning, AtHome
<1>5. CASE o.status \notin {"OUTBOUND", "EXPLORING", "RETURNING"}
  BY <1>5 DEF ResolveObserverLifecycle
<1> QED BY <1>2, <1>3, <1>4, <1>5

(* Every step moves every observer along Moves, ticks and commands alike.  *)
LEMMA StatusMoves ==
    ASSUME IInv, Next, NEW o \in Observers
    PROVE  Moves(observers[o].status, observers'[o].status)
<1> DEFINE s == observers[o].status
           t == observers'[o].status
<1>0. observers \in [Observers -> Observer] /\ observers[o] \in Observer
  BY DEF IInv, TypeOK
<1>1. ASSUME NEW now \in (tickAt + 1)..MaxTime, Tick(now) PROVE Moves(s, t)
  <2> DEFINE r == ResolvedObservers(ResolvedPortals(now), now)[o]
  <2>1. now \in Nat /\ tickAt <= now
    BY ConfigTypes DEF IInv, TypeOK, Time
  <2>2. r = ResolveObserverLifecycle(observers[o], ResolvedPortals(now), now)
    BY DEF ResolvedObservers
  <2>3. \/ observers'[o] = r
        \/ r.status = "WAITING_RETURN" /\ t = "RETURNING"
    BY <1>1, <2>1, TickObservers
  <2> HIDE DEF r
  <2>4. \/ r.status = s
        \/ s = "OUTBOUND" /\ r.status \in {"EXPLORING", "WAITING_RETURN", "LOST"}
        \/ s = "EXPLORING" /\ r.status = "WAITING_RETURN"
        \/ s = "RETURNING" /\ r.status \in {"AVAILABLE", "LOST"}
    BY <1>0, <2>2, ResolvedStatus
  <2> QED BY <2>3, <2>4 DEF Moves
<1>2. ASSUME NEW i \in PortalIDs, NEW confirm \in BOOLEAN, ClosePortal(i, confirm)
      PROVE  Moves(s, t)
  <2>1. ~InTransit(observers[o]) => observers'[o] = observers[o]
    BY <1>2 DEF ClosePortal, TransitThrough
  <2>2. InTransit(observers[o]) => observers'[o] = observers[o] \/ t = "LOST"
    BY <1>2, CommandTransits DEF Command
  <2> QED BY <2>1, <2>2 DEF InTransit, Moves
<1>3. ASSUME NEW i, NEW c \in Observers, NEW status, NEW d,
             observers' = [observers EXCEPT ![c] = StartTransit(@, status, i, tickAt, d)]
      PROVE  t = s \/ (c = o /\ t = status)
  <2>1. CASE o = c
    <3>1. observers'[o] = StartTransit(observers[o], status, i, tickAt, d)
      BY <1>0, <1>3, <2>1
    <3> QED BY <1>0, <2>1, <3>1 DEF StartTransit, Observer
  <2>2. CASE o # c
    BY <1>0, <1>3, <2>2
  <2> QED BY <2>1, <2>2
<1>4. ASSUME NEW i \in PortalIDs, NEW confirm \in BOOLEAN, SendObserver(i, confirm)
      PROVE  Moves(s, t)
  <2> DEFINE available == {c \in Observers : observers[c].status = "AVAILABLE"}
  <2>1. available # {} /\ \E d \in TransitDurations :
             observers' = [observers EXCEPT
               ![Min(available)] = StartTransit(@, "OUTBOUND", i, tickAt, d)]
    BY <1>4 DEF SendObserver
  <2>2. available \in SUBSET Nat
    BY DEF Observers
  <2>3. \A c \in available : c \in Observers /\ observers[c].status = "AVAILABLE"
    OBVIOUS
  <2> HIDE DEF available
  <2>4. Min(available) \in Observers /\ observers[Min(available)].status = "AVAILABLE"
    BY <2>1, <2>2, <2>3, MinNat
  <2>5. t = s \/ (Min(available) = o /\ t = "OUTBOUND")
    <3>1. PICK d \in TransitDurations :
             observers' = [observers EXCEPT
               ![Min(available)] = StartTransit(@, "OUTBOUND", i, tickAt, d)]
      BY <2>1
    <3> QED BY <1>3, <2>4, <3>1
  <2> QED BY <2>4, <2>5 DEF Moves
<1>5. ASSUME NEW i \in PortalIDs, NEW confirm \in BOOLEAN, RecallObserver(i, confirm)
      PROVE  Moves(s, t)
  <2> DEFINE W == LongestWaiting(observers, WaitingOn(observers, portals[i].plane))
  <2>1. \E c \in W, d \in TransitDurations :
          observers' = [observers EXCEPT ![c] = StartTransit(@, "RETURNING", i, tickAt, d)]
    BY <1>5 DEF RecallObserver
  <2>2. \A c \in W : c \in Observers /\ observers[c].status = "WAITING_RETURN"
    BY DEF LongestWaiting, WaitingOn
  <2> HIDE DEF W
  <2>3. PICK c \in W : \E d \in TransitDurations :
          observers' = [observers EXCEPT ![c] = StartTransit(@, "RETURNING", i, tickAt, d)]
    BY <2>1
  <2>4. t = s \/ (c = o /\ t = "RETURNING")
    <3>1. PICK d \in TransitDurations :
             observers' = [observers EXCEPT ![c] = StartTransit(@, "RETURNING", i, tickAt, d)]
      BY <2>3
    <3> QED BY <1>3, <2>2, <3>1
  <2> QED BY <2>2, <2>4 DEF Moves
<1>6. ASSUME \/ \E i \in PortalIDs : Stabilize(i)
             \/ \E plane \in Planes : OpenExtraction(plane)
             \/ TickAgain
      PROVE  t = s
  BY <1>6 DEF Stabilize, OpenExtraction, TickAgain, vars
<1> QED BY <1>1, <1>2, <1>4, <1>5, <1>6 DEF Next, Command, Moves

(* A portal ends and synchronizes at most once, and a new one is OPEN and  *)
(* has not synchronized.                                                   *)
LEMMA PortalMoves ==
    ASSUME IInv, Next, NEW i \in PortalIDs'
    PROVE  /\ i \in PortalIDs =>
                /\ ~IsOpen(portals[i]) => portals'[i] = portals[i]
                /\ portals[i].syncedAt # Nil => portals'[i].syncedAt # Nil
           /\ i \notin PortalIDs => IsOpen(portals'[i]) /\ portals'[i].syncedAt = Nil
<1>1. ASSUME NEW now \in (tickAt + 1)..MaxTime, Tick(now)
      PROVE  /\ i \in PortalIDs =>
                  /\ ~IsOpen(portals[i]) => portals'[i] = portals[i]
                  /\ portals[i].syncedAt # Nil => portals'[i].syncedAt # Nil
             /\ i \notin PortalIDs => IsOpen(portals'[i]) /\ portals'[i].syncedAt = Nil
  <2> DEFINE ps == ResolvedPortals(now)
  <2>1. now \in Nat /\ tickAt <= now
    BY ConfigTypes DEF IInv, TypeOK, Time
  <2>2. i \in PortalIDs => ps[i].syncedAt = portals[i].syncedAt
    BY <2>1, PortalStage
  <2>3. i \in SyncDue(ps, now) => ps[i].syncedAt = Nil
    BY DEF SyncDue
  <2>4. i \in PortalIDs /\ i \notin SyncDue(ps, now) => portals'[i].syncedAt = portals[i].syncedAt
    BY <1>1, <2>1, TickPortals
  <2>5. i \in PortalIDs /\ ~IsOpen(portals[i]) => portals'[i] = portals[i]
    BY <1>1, <2>1, TickFreezes
  <2>6. i \notin PortalIDs => IsOpen(portals'[i]) /\ portals'[i].syncedAt = Nil
    BY <1>1, <2>1, TickPortals
  <2> QED BY <2>2, <2>3, <2>4, <2>5, <2>6
<1>2. CASE Command
  BY <1>2, CommandPortals
<1>3. CASE TickAgain
  BY <1>3 DEF TickAgain, vars, PortalIDs
<1> QED BY <1>1, <1>2, <1>3 DEF Next

(* A plane stays explored.                                                 *)
LEMMA ExploredStays ==
    ASSUME IInv, Next, NEW pl \in Planes, exploredAt[pl] # Nil
    PROVE  exploredAt'[pl] # Nil
<1>1. ASSUME NEW now \in (tickAt + 1)..MaxTime, Tick(now) PROVE exploredAt'[pl] # Nil
  BY <1>1 DEF Tick, ExploredPlanes
<1>2. CASE Command
  BY <1>2, CommandPortals
<1>3. CASE TickAgain
  BY <1>3 DEF TickAgain, vars
<1> QED BY <1>1, <1>2, <1>3 DEF Next

(* A set of events of the new log gains what the step adds to it.          *)
LEMMA CountStep ==
    ASSUME LogBag, LogNext, NEW D, D \subseteq DOMAIN log', NEW c \in BOOLEAN, NEW x,
           D \cap EventsForStateTransition = IF c THEN {x} ELSE {}
    PROVE  /\ Cardinality(Tokens(log, D \cap DOMAIN log)) \in Nat
           /\ Cardinality(Tokens(log', D)) = Cardinality(Tokens(log, D \cap DOMAIN log)) + Once(c)
<1> DEFINE E == EventsForStateTransition
           C == D \cap DOMAIN log
<1>1. Multiset(log) /\ log' = Extended(log, E)
  BY DEF LogBag, LogNext, Extended
<1>2. IsFiniteSet(Tokens(log, C))
  <2>1. Tokens(log, C) \subseteq Tokens(log, DOMAIN log)
    BY DEF Tokens
  <2> QED BY <2>1, FS_Subset DEF LogBag
<1>3. Cardinality(Tokens(log, C)) \in Nat
  BY <1>2, FS_CardinalityType
<1> HIDE DEF E
<1>4. CASE c
  <2>1. D \cap E = {x}
    BY <1>4 DEF E
  <2>2. Cardinality(Tokens(log', D)) = Cardinality(Tokens(log, C)) + 1
    BY <1>1, <1>2, <2>1, CountGrows
  <2> QED BY <1>3, <1>4, <2>2 DEF Once
<1>5. CASE ~c
  <2>1. D \cap E = {}
    BY <1>5 DEF E
  <2>2. D \subseteq DOMAIN log /\ Tokens(log', D) = Tokens(log, D)
    BY <1>1, <2>1, CountKept
  <2>3. C = D
    BY <2>2
  <2>4. Cardinality(Tokens(log', D)) = Cardinality(Tokens(log, C))
    BY <2>2, <2>3
  <2> HIDE DEF C
  <2> QED BY <1>3, <1>5, <2>4 DEF Once, C
<1> QED BY <1>4, <1>5

(* The events of the new log are those of the old one and of the step.     *)
LEMMA LogDomain ==
    ASSUME LogBag, LogNext
    PROVE  DOMAIN log' = DOMAIN log \cup EventsForStateTransition
<1> DEFINE E == EventsForStateTransition
<1>1. Multiset(log) /\ log' = Extended(log, E)
  BY DEF LogBag, LogNext, Extended
<1> HIDE DEF E
<1>2. Grown(log, E, log')
  BY <1>1, Appended
<1> QED BY <1>2 DEF Grown, E

(* The count of one type of events of an observer grows by what the step   *)
(* adds.                                                                   *)
LEMMA ObserverCounted ==
    ASSUME LogBag, LogNext, NEW o, NEW type, NEW c \in BOOLEAN, NEW x,
           {e \in EventsForStateTransition : e.observer = o /\ e.type = type}
              = IF c THEN {x} ELSE {}
    PROVE  /\ OfObserver(o, type) \in Nat
           /\ OfObserver(o, type)' = OfObserver(o, type) + Once(c)
<1> DEFINE D == {e \in DOMAIN log' : e.observer = o /\ e.type = type}
<1>1. /\ D \cap DOMAIN log = {e \in DOMAIN log : e.observer = o /\ e.type = type}
      /\ D \cap EventsForStateTransition
           = {e \in EventsForStateTransition : e.observer = o /\ e.type = type}
  BY LogDomain
<1>2. /\ OfObserver(o, type) = Cardinality(Tokens(log, D \cap DOMAIN log))
      /\ OfObserver(o, type)' = Cardinality(Tokens(log', D))
  BY <1>1 DEF OfObserver, Copies, Tokens
<1>3. D \subseteq DOMAIN log'
  OBVIOUS
<1> HIDE DEF D
<1>4. D \cap EventsForStateTransition = IF c THEN {x} ELSE {}
  BY <1>1
<1>5. /\ Cardinality(Tokens(log, D \cap DOMAIN log)) \in Nat
      /\ Cardinality(Tokens(log', D)) = Cardinality(Tokens(log, D \cap DOMAIN log)) + Once(c)
  BY <1>3, <1>4, CountStep
<1> QED BY <1>2, <1>5

(* The count of some types of events of a portal grows by what the step    *)
(* adds.                                                                   *)
LEMMA PortalCounted ==
    ASSUME LogBag, LogNext, NEW i, NEW types, NEW c \in BOOLEAN, NEW x,
           {e \in EventsForStateTransition : e.portal = i /\ e.type \in types}
              = IF c THEN {x} ELSE {}
    PROVE  /\ OfPortal(i, types) \in Nat
           /\ OfPortal(i, types)' = OfPortal(i, types) + Once(c)
<1> DEFINE D == {e \in DOMAIN log' : e.portal = i /\ e.type \in types}
<1>1. /\ D \cap DOMAIN log = {e \in DOMAIN log : e.portal = i /\ e.type \in types}
      /\ D \cap EventsForStateTransition
           = {e \in EventsForStateTransition : e.portal = i /\ e.type \in types}
  BY LogDomain
<1>2. /\ OfPortal(i, types) = Cardinality(Tokens(log, D \cap DOMAIN log))
      /\ OfPortal(i, types)' = Cardinality(Tokens(log', D))
  BY <1>1 DEF OfPortal, Copies, Tokens
<1>3. D \subseteq DOMAIN log'
  OBVIOUS
<1> HIDE DEF D
<1>4. D \cap EventsForStateTransition = IF c THEN {x} ELSE {}
  BY <1>1
<1>5. /\ Cardinality(Tokens(log, D \cap DOMAIN log)) \in Nat
      /\ Cardinality(Tokens(log', D)) = Cardinality(Tokens(log, D \cap DOMAIN log)) + Once(c)
  BY <1>3, <1>4, CountStep
<1> QED BY <1>2, <1>5

(* The count of the explorations of a plane grows by what the step adds.   *)
LEMMA PlaneCounted ==
    ASSUME LogBag, LogNext, NEW pl, NEW c \in BOOLEAN, NEW x,
           {e \in EventsForStateTransition : e.plane = pl /\ e.type = "PLANE_EXPLORED"}
              = IF c THEN {x} ELSE {}
    PROVE  /\ OfPlane(pl) \in Nat
           /\ OfPlane(pl)' = OfPlane(pl) + Once(c)
<1> DEFINE D == {e \in DOMAIN log' : e.plane = pl /\ e.type = "PLANE_EXPLORED"}
<1>1. /\ D \cap DOMAIN log = {e \in DOMAIN log : e.plane = pl /\ e.type = "PLANE_EXPLORED"}
      /\ D \cap EventsForStateTransition
           = {e \in EventsForStateTransition : e.plane = pl /\ e.type = "PLANE_EXPLORED"}
  BY LogDomain
<1>2. /\ OfPlane(pl) = Cardinality(Tokens(log, D \cap DOMAIN log))
      /\ OfPlane(pl)' = Cardinality(Tokens(log', D))
  BY <1>1 DEF OfPlane, Copies, Tokens
<1>3. D \subseteq DOMAIN log'
  OBVIOUS
<1> HIDE DEF D
<1>4. D \cap EventsForStateTransition = IF c THEN {x} ELSE {}
  BY <1>1
<1>5. /\ Cardinality(Tokens(log, D \cap DOMAIN log)) \in Nat
      /\ Cardinality(Tokens(log', D)) = Cardinality(Tokens(log, D \cap DOMAIN log)) + Once(c)
  BY <1>3, <1>4, CountStep
<1> QED BY <1>2, <1>5

(* What a step logs of an observer.                                        *)
LEMMA EventsOfObserver ==
    ASSUME NEW o \in Observers, NEW type
    PROVE  {e \in EventsForStateTransition : e.observer = o /\ e.type = type}
             = {e \in ObserverEvents(o) : e.type = type}
<1>1. o # Nil
  BY ConfigTypes DEF Observers, Nil
<1>2. \A i : \A e \in PortalEvents(i) : e.observer = Nil
  BY DEF PortalEvents, OpenedEvents, EndEvents, OpenPortalEvents, SynchronizedEvents,
         When, Event
<1>3. \A pl : \A e \in PlaneEvents(pl) : e.observer = Nil
  BY DEF PlaneEvents, When, Event
<1>4. \A q : \A e \in ObserverEvents(q) : e.observer = q
  <2> SUFFICES ASSUME NEW q, NEW e \in ObserverEvents(q) PROVE e.observer = q
    OBVIOUS
  <2>1. CASE e \in DispatchEvents(q) BY <2>1 DEF DispatchEvents, When, Event
  <2>2. CASE e \in ArrivalEvents(q) BY <2>2 DEF ArrivalEvents, Event
  <2>3. CASE e \in ResearchEvents(q) BY <2>3 DEF ResearchEvents, When, Event
  <2>4. CASE e \in ReturnEvents(q) BY <2>4 DEF ReturnEvents, When, Event
  <2>5. CASE e \in LostEvents(q) BY <2>5 DEF LostEvents, When, Event
  <2> QED BY <2>1, <2>2, <2>3, <2>4, <2>5 DEF ObserverEvents
<1>5. \A e : e \in EventsForStateTransition /\ e.observer = o <=> e \in ObserverEvents(o)
  <2>1. \A e \in ObserverEvents(o) : e \in EventsForStateTransition
    BY DEF EventsForStateTransition
  <2>2. ASSUME NEW e \in EventsForStateTransition, e.observer = o PROVE e \in ObserverEvents(o)
    BY <1>1, <1>2, <1>3, <1>4, <2>2 DEF EventsForStateTransition
  <2> QED BY <1>4, <2>1, <2>2
<1> QED BY <1>5

(* The types of the events each part of ObserverEvents yields.             *)
LEMMA ObserverEventTypes ==
    ASSUME NEW o
    PROVE  /\ \A e \in DispatchEvents(o) : e.type = "OBSERVER_DISPATCHED"
           /\ \A e \in ArrivalEvents(o) : e.type \in {"OBSERVER_ARRIVED", "RESEARCH_STARTED"}
           /\ \A e \in ResearchEvents(o) : e.type = "RESEARCH_COMPLETED"
           /\ \A e \in ReturnEvents(o) :
                e.type \in {"OBSERVER_RETURN_STARTED", "OBSERVER_RETURNED"}
           /\ \A e \in LostEvents(o) : e.type = "OBSERVER_LOST"
<1>1. \A e \in DispatchEvents(o) : e.type = "OBSERVER_DISPATCHED"
  BY DEF DispatchEvents, When, Event
<1>2. \A e \in ArrivalEvents(o) : e.type \in {"OBSERVER_ARRIVED", "RESEARCH_STARTED"}
  BY DEF ArrivalEvents, Event
<1>3. \A e \in ResearchEvents(o) : e.type = "RESEARCH_COMPLETED"
  BY DEF ResearchEvents, When, Event
<1>4. \A e \in ReturnEvents(o) : e.type \in {"OBSERVER_RETURN_STARTED", "OBSERVER_RETURNED"}
  BY DEF ReturnEvents, When, Event
<1>5. \A e \in LostEvents(o) : e.type = "OBSERVER_LOST"
  BY DEF LostEvents, When, Event
<1> QED BY <1>1, <1>2, <1>3, <1>4, <1>5

(* The count of one type of events of an observer grows by one exactly if  *)
(* c holds.                                                                *)
Added(o, type, c) == OfObserver(o, type) \in Nat
                       /\ OfObserver(o, type)' = OfObserver(o, type) + Once(c)

(* What one step adds to the seven counts of an observer whose status goes *)
(* from s to t.                                                            *)
LEMMA ObserverAdds ==
    ASSUME LogBag, LogNext, NEW o \in Observers, NEW s, NEW t,
           s = observers[o].status, t = observers'[o].status
    PROVE  /\ Added(o, "OBSERVER_DISPATCHED", s = "AVAILABLE" /\ t = "OUTBOUND")
           /\ Added(o, "OBSERVER_ARRIVED", s = "OUTBOUND" /\ t \notin {"OUTBOUND", "LOST"})
           /\ Added(o, "RESEARCH_STARTED", s = "OUTBOUND" /\ t \notin {"OUTBOUND", "LOST"})
           /\ Added(o, "RESEARCH_COMPLETED",
                    \/ s = "EXPLORING" /\ t \notin {"EXPLORING", "LOST"}
                    \/ s = "OUTBOUND" /\ t \notin {"OUTBOUND", "LOST", "EXPLORING"})
           /\ Added(o, "OBSERVER_RETURN_STARTED",
                    s \in {"WAITING_RETURN", "EXPLORING", "OUTBOUND"} /\ t = "RETURNING")
           /\ Added(o, "OBSERVER_RETURNED", s = "RETURNING" /\ t = "AVAILABLE")
           /\ Added(o, "OBSERVER_LOST", s # "LOST" /\ t = "LOST")
<1> DEFINE E == EventsForStateTransition
           d == Event("OBSERVER_DISPATCHED", observers'[o].portal, o,
                      portals'[observers'[o].portal].plane, observers'[o].startedAt)
           a(type) == Event(type, observers[o].portal, o, portals[observers[o].portal].plane,
                            observers[o].endsAt)
           c == IF s = "EXPLORING"
                THEN Event("RESEARCH_COMPLETED", Nil, o, observers[o].plane, observers[o].endsAt)
                ELSE Event("RESEARCH_COMPLETED", Nil, o, observers'[o].plane,
                           observers[o].endsAt + ResearchDuration)
           b == Event("OBSERVER_RETURN_STARTED", observers'[o].portal, o,
                      observers'[o].plane, observers'[o].startedAt)
           r == Event("OBSERVER_RETURNED", observers[o].portal, o,
                      observers[o].plane, observers[o].endsAt)
           l == Event("OBSERVER_LOST", observers[o].portal, o,
                      portals[observers[o].portal].plane, observers'[o].updatedAt)
           Of(type) == {e \in ObserverEvents(o) : e.type = type}
<1>1. \A type : {e \in E : e.observer = o /\ e.type = type} = Of(type)
  BY EventsOfObserver
<1>2. Of("OBSERVER_DISPATCHED") = DispatchEvents(o)
  BY ObserverEventTypes DEF ObserverEvents
<1>3. DispatchEvents(o) = IF s = "AVAILABLE" /\ t = "OUTBOUND" THEN {d} ELSE {}
  BY DEF DispatchEvents, When
<1>4. \A type \in {"OBSERVER_ARRIVED", "RESEARCH_STARTED"} :
        Of(type) = {e \in ArrivalEvents(o) : e.type = type}
  BY ObserverEventTypes DEF ObserverEvents
<1>5. \A type \in {"OBSERVER_ARRIVED", "RESEARCH_STARTED"} :
        {e \in ArrivalEvents(o) : e.type = type}
          = IF s = "OUTBOUND" /\ t \notin {"OUTBOUND", "LOST"} THEN {a(type)} ELSE {}
  BY DEF ArrivalEvents, Event
<1>6. Of("RESEARCH_COMPLETED") = ResearchEvents(o)
  BY ObserverEventTypes DEF ObserverEvents
<1>7. ResearchEvents(o)
        = IF \/ s = "EXPLORING" /\ t \notin {"EXPLORING", "LOST"}
             \/ s = "OUTBOUND" /\ t \notin {"OUTBOUND", "LOST", "EXPLORING"}
          THEN {c} ELSE {}
  BY DEF ResearchEvents, When
<1>8. \A type \in {"OBSERVER_RETURN_STARTED", "OBSERVER_RETURNED"} :
        Of(type) = {e \in ReturnEvents(o) : e.type = type}
  BY ObserverEventTypes DEF ObserverEvents
<1>9. /\ {e \in ReturnEvents(o) : e.type = "OBSERVER_RETURN_STARTED"}
           = IF s \in {"WAITING_RETURN", "EXPLORING", "OUTBOUND"} /\ t = "RETURNING"
             THEN {b} ELSE {}
      /\ {e \in ReturnEvents(o) : e.type = "OBSERVER_RETURNED"}
           = IF s = "RETURNING" /\ t = "AVAILABLE" THEN {r} ELSE {}
  BY DEF ReturnEvents, When, Event
<1>10. Of("OBSERVER_LOST") = LostEvents(o)
  BY ObserverEventTypes DEF ObserverEvents
<1>11. LostEvents(o) = IF s # "LOST" /\ t = "LOST" THEN {l} ELSE {}
  BY DEF LostEvents, When
<1> HIDE DEF d, a, c, b, r, l, Of, E
<1>12. ASSUME NEW type, NEW k \in BOOLEAN, NEW x, Of(type) = IF k THEN {x} ELSE {}
       PROVE  Added(o, type, k)
  <2>1. {e \in EventsForStateTransition : e.observer = o /\ e.type = type}
          = IF k THEN {x} ELSE {}
    BY <1>1, <1>12 DEF E
  <2> QED BY <2>1, ObserverCounted DEF Added
<1>13. Added(o, "OBSERVER_DISPATCHED", s = "AVAILABLE" /\ t = "OUTBOUND")
  BY <1>2, <1>3, <1>12
<1>14. /\ Added(o, "OBSERVER_ARRIVED", s = "OUTBOUND" /\ t \notin {"OUTBOUND", "LOST"})
       /\ Added(o, "RESEARCH_STARTED", s = "OUTBOUND" /\ t \notin {"OUTBOUND", "LOST"})
  BY <1>4, <1>5, <1>12
<1>15. Added(o, "RESEARCH_COMPLETED",
             \/ s = "EXPLORING" /\ t \notin {"EXPLORING", "LOST"}
             \/ s = "OUTBOUND" /\ t \notin {"OUTBOUND", "LOST", "EXPLORING"})
  BY <1>6, <1>7, <1>12
<1>16. Added(o, "OBSERVER_RETURN_STARTED",
             s \in {"WAITING_RETURN", "EXPLORING", "OUTBOUND"} /\ t = "RETURNING")
  BY <1>8, <1>9, <1>12
<1>17. Added(o, "OBSERVER_RETURNED", s = "RETURNING" /\ t = "AVAILABLE")
  BY <1>8, <1>9, <1>12
<1>18. Added(o, "OBSERVER_LOST", s # "LOST" /\ t = "LOST")
  BY <1>10, <1>11, <1>12
<1> QED BY <1>13, <1>14, <1>15, <1>16, <1>17, <1>18

(* The counts of an observer with the given status: dispatched, arrived,   *)
(* research started and completed, return started, returned, lost.  That   *)
(* somebody on the way out is owed an arrival, and somebody on the way     *)
(* home a return, is what LogAccountsForState leaves open.                 *)
Balanced(status, d, a, s, c, b, r, l) ==
    /\ d - a >= 0 /\ b - r >= 0
    /\ (d - a) + (b - r) = l + Once(status \in {"OUTBOUND", "RETURNING"})
    /\ l = Once(status = "LOST")
    /\ s = a
    /\ s - c = Once(status = "EXPLORING")
    /\ c - b = Once(status = "WAITING_RETURN")
    /\ status = "OUTBOUND" => d - a = 1
    /\ status = "RETURNING" => b - r = 1

(* The account of observer o.                                              *)
BalancedFor(o) ==
    Balanced(observers[o].status,
             OfObserver(o, "OBSERVER_DISPATCHED"), OfObserver(o, "OBSERVER_ARRIVED"),
             OfObserver(o, "RESEARCH_STARTED"), OfObserver(o, "RESEARCH_COMPLETED"),
             OfObserver(o, "OBSERVER_RETURN_STARTED"), OfObserver(o, "OBSERVER_RETURNED"),
             OfObserver(o, "OBSERVER_LOST"))

(* The arithmetic of one step: every move leaves the account balanced.     *)
LEMMA BalanceKept ==
    ASSUME NEW p, NEW q, Moves(p, q),
           NEW d \in Nat, NEW a \in Nat, NEW s \in Nat, NEW c \in Nat,
           NEW b \in Nat, NEW r \in Nat, NEW l \in Nat,
           Balanced(p, d, a, s, c, b, r, l)
    PROVE  Balanced(q,
             d + Once(p = "AVAILABLE" /\ q = "OUTBOUND"),
             a + Once(p = "OUTBOUND" /\ q \notin {"OUTBOUND", "LOST"}),
             s + Once(p = "OUTBOUND" /\ q \notin {"OUTBOUND", "LOST"}),
             c + Once(\/ p = "EXPLORING" /\ q \notin {"EXPLORING", "LOST"}
                      \/ p = "OUTBOUND" /\ q \notin {"OUTBOUND", "LOST", "EXPLORING"}),
             b + Once(p \in {"WAITING_RETURN", "EXPLORING", "OUTBOUND"} /\ q = "RETURNING"),
             r + Once(p = "RETURNING" /\ q = "AVAILABLE"),
             l + Once(p # "LOST" /\ q = "LOST"))
<1>1. CASE q = p
  BY <1>1 DEF Balanced, Once
<1>2. CASE p = "AVAILABLE" /\ q = "OUTBOUND"
  BY <1>2 DEF Balanced, Once
<1>3. CASE p = "OUTBOUND" /\ q = "EXPLORING"
  BY <1>3 DEF Balanced, Once
<1>4. CASE p = "OUTBOUND" /\ q = "WAITING_RETURN"
  BY <1>4 DEF Balanced, Once
<1>5. CASE p = "OUTBOUND" /\ q = "RETURNING"
  BY <1>5 DEF Balanced, Once
<1>6. CASE p = "OUTBOUND" /\ q = "LOST"
  BY <1>6 DEF Balanced, Once
<1>7. CASE p = "EXPLORING" /\ q = "WAITING_RETURN"
  BY <1>7 DEF Balanced, Once
<1>8. CASE p = "EXPLORING" /\ q = "RETURNING"
  BY <1>8 DEF Balanced, Once
<1>9. CASE p = "WAITING_RETURN" /\ q = "RETURNING"
  BY <1>9 DEF Balanced, Once
<1>10. CASE p = "RETURNING" /\ q = "AVAILABLE"
  BY <1>10 DEF Balanced, Once
<1>11. CASE p = "RETURNING" /\ q = "LOST"
  BY <1>11 DEF Balanced, Once
<1> QED BY <1>1, <1>2, <1>3, <1>4, <1>5, <1>6, <1>7, <1>8, <1>9, <1>10, <1>11 DEF Moves

(* Every step keeps every observer's account.                              *)
LEMMA ObserverBalanced ==
    ASSUME IInv, LogBag, LogNext, NEW o \in Observers, BalancedFor(o)
    PROVE  BalancedFor(o)'
<1> DEFINE p == observers[o].status
           q == observers'[o].status
           n(type) == OfObserver(o, type)
           m(type) == OfObserver(o, type)'
<1>1. Moves(p, q)
  BY StatusMoves DEF LogNext
<1>2. /\ Added(o, "OBSERVER_DISPATCHED", p = "AVAILABLE" /\ q = "OUTBOUND")
      /\ Added(o, "OBSERVER_ARRIVED", p = "OUTBOUND" /\ q \notin {"OUTBOUND", "LOST"})
      /\ Added(o, "RESEARCH_STARTED", p = "OUTBOUND" /\ q \notin {"OUTBOUND", "LOST"})
      /\ Added(o, "RESEARCH_COMPLETED",
               \/ p = "EXPLORING" /\ q \notin {"EXPLORING", "LOST"}
               \/ p = "OUTBOUND" /\ q \notin {"OUTBOUND", "LOST", "EXPLORING"})
      /\ Added(o, "OBSERVER_RETURN_STARTED",
               p \in {"WAITING_RETURN", "EXPLORING", "OUTBOUND"} /\ q = "RETURNING")
      /\ Added(o, "OBSERVER_RETURNED", p = "RETURNING" /\ q = "AVAILABLE")
      /\ Added(o, "OBSERVER_LOST", p # "LOST" /\ q = "LOST")
  BY ObserverAdds
<1>3. /\ n("OBSERVER_DISPATCHED") \in Nat /\ n("OBSERVER_ARRIVED") \in Nat
      /\ n("RESEARCH_STARTED") \in Nat /\ n("RESEARCH_COMPLETED") \in Nat
      /\ n("OBSERVER_RETURN_STARTED") \in Nat /\ n("OBSERVER_RETURNED") \in Nat
      /\ n("OBSERVER_LOST") \in Nat
  BY <1>2 DEF Added
<1>4. /\ m("OBSERVER_DISPATCHED")
           = n("OBSERVER_DISPATCHED") + Once(p = "AVAILABLE" /\ q = "OUTBOUND")
      /\ m("OBSERVER_ARRIVED")
           = n("OBSERVER_ARRIVED") + Once(p = "OUTBOUND" /\ q \notin {"OUTBOUND", "LOST"})
      /\ m("RESEARCH_STARTED")
           = n("RESEARCH_STARTED") + Once(p = "OUTBOUND" /\ q \notin {"OUTBOUND", "LOST"})
      /\ m("RESEARCH_COMPLETED")
           = n("RESEARCH_COMPLETED")
               + Once(\/ p = "EXPLORING" /\ q \notin {"EXPLORING", "LOST"}
                      \/ p = "OUTBOUND" /\ q \notin {"OUTBOUND", "LOST", "EXPLORING"})
      /\ m("OBSERVER_RETURN_STARTED")
           = n("OBSERVER_RETURN_STARTED")
               + Once(p \in {"WAITING_RETURN", "EXPLORING", "OUTBOUND"} /\ q = "RETURNING")
      /\ m("OBSERVER_RETURNED")
           = n("OBSERVER_RETURNED") + Once(p = "RETURNING" /\ q = "AVAILABLE")
      /\ m("OBSERVER_LOST") = n("OBSERVER_LOST") + Once(p # "LOST" /\ q = "LOST")
  BY <1>2 DEF Added
<1>5. Balanced(p, n("OBSERVER_DISPATCHED"), n("OBSERVER_ARRIVED"), n("RESEARCH_STARTED"),
               n("RESEARCH_COMPLETED"), n("OBSERVER_RETURN_STARTED"), n("OBSERVER_RETURNED"),
               n("OBSERVER_LOST"))
  BY DEF BalancedFor
<1>6. BalancedFor(o)' =
        Balanced(q, m("OBSERVER_DISPATCHED"), m("OBSERVER_ARRIVED"), m("RESEARCH_STARTED"),
                 m("RESEARCH_COMPLETED"), m("OBSERVER_RETURN_STARTED"), m("OBSERVER_RETURNED"),
                 m("OBSERVER_LOST"))
  BY DEF BalancedFor, Balanced
<1> DEFINE d == n("OBSERVER_DISPATCHED")
           a == n("OBSERVER_ARRIVED")
           s == n("RESEARCH_STARTED")
           c == n("RESEARCH_COMPLETED")
           b == n("OBSERVER_RETURN_STARTED")
           r == n("OBSERVER_RETURNED")
           l == n("OBSERVER_LOST")
<1> HIDE DEF p, q, n, m
<1>7. Balanced(q,
        d + Once(p = "AVAILABLE" /\ q = "OUTBOUND"),
        a + Once(p = "OUTBOUND" /\ q \notin {"OUTBOUND", "LOST"}),
        s + Once(p = "OUTBOUND" /\ q \notin {"OUTBOUND", "LOST"}),
        c + Once(\/ p = "EXPLORING" /\ q \notin {"EXPLORING", "LOST"}
                 \/ p = "OUTBOUND" /\ q \notin {"OUTBOUND", "LOST", "EXPLORING"}),
        b + Once(p \in {"WAITING_RETURN", "EXPLORING", "OUTBOUND"} /\ q = "RETURNING"),
        r + Once(p = "RETURNING" /\ q = "AVAILABLE"),
        l + Once(p # "LOST" /\ q = "LOST"))
  <2>1. /\ d \in Nat /\ a \in Nat /\ s \in Nat /\ c \in Nat /\ b \in Nat /\ r \in Nat
        /\ l \in Nat
    BY <1>3
  <2>2. Balanced(p, d, a, s, c, b, r, l)
    BY <1>5
  <2> HIDE DEF d, a, s, c, b, r, l
  <2> QED BY <1>1, <2>1, <2>2, BalanceKept
<1>8. Balanced(q, m("OBSERVER_DISPATCHED"), m("OBSERVER_ARRIVED"), m("RESEARCH_STARTED"),
               m("RESEARCH_COMPLETED"), m("OBSERVER_RETURN_STARTED"), m("OBSERVER_RETURNED"),
               m("OBSERVER_LOST"))
  BY <1>4, <1>7, Zenon
<1> QED BY <1>6, <1>8

(* What a step logs of the life of a portal: the events of the observers   *)
(* who travel through it are of other types.                               *)
LEMMA EventsOfPortal ==
    ASSUME NEW i \in 1..(nextPortalID' - 1), NEW types,
           types \subseteq {"PORTAL_OPENED", "EXTRACTION_PORTAL_OPENED", "PORTAL_CLOSED",
                            "PORTAL_COLLAPSED", "EXTRACTION_SYNCHRONIZED"}
    PROVE  {e \in EventsForStateTransition : e.portal = i /\ e.type \in types}
             = {e \in PortalEvents(i) : e.type \in types}
<1>1. i # Nil
  BY DEF Nil
<1>2. \A j : \A e \in PortalEvents(j) : e.portal = j
  BY DEF PortalEvents, OpenedEvents, EndEvents, OpenPortalEvents, SynchronizedEvents,
         When, Event
<1>3. \A pl : \A e \in PlaneEvents(pl) : e.portal = Nil
  BY DEF PlaneEvents, When, Event
<1>4. \A o : \A e \in ObserverEvents(o) : e.type \notin types
  BY ObserverEventTypes DEF ObserverEvents
<1>5. \A e \in PortalEvents(i) : e \in EventsForStateTransition
  BY DEF EventsForStateTransition
<1>6. ASSUME NEW e \in EventsForStateTransition, e.portal = i, e.type \in types
      PROVE  e \in PortalEvents(i)
  BY <1>1, <1>2, <1>3, <1>4, <1>6 DEF EventsForStateTransition
<1> QED BY <1>2, <1>5, <1>6

(* A portal is opened by the generator or by an operator.                  *)
OpenTypes == {"PORTAL_OPENED", "EXTRACTION_PORTAL_OPENED"}

(* The log holds the opening, the end and the synchronization of portal i, *)
(* each as often as it has happened.                                       *)
PortalAccount(i) ==
    /\ OfPortal(i, OpenTypes) = 1
    /\ OfPortal(i, {"PORTAL_CLOSED"}) = Once(portals[i].status = "CLOSED")
    /\ OfPortal(i, {"PORTAL_COLLAPSED"}) = Once(portals[i].status = "COLLAPSED")
    /\ OfPortal(i, {"EXTRACTION_SYNCHRONIZED"}) = Once(portals[i].syncedAt # Nil)

(* Every step keeps the account of the portals it finds.                   *)
LEMMA OldPortalAccount ==
    ASSUME IInv, IInv', LogBag, LogNext, NEW i \in PortalIDs, PortalAccount(i)
    PROVE  PortalAccount(i)'
<1> DEFINE p == portals'[i]
           end(type) == Event(type, i, Nil, p.plane, p.closedAt)
           sync == Event("EXTRACTION_SYNCHRONIZED", i, Nil, portals[i].plane, p.syncedAt)
           Of(types) == {e \in PortalEvents(i) : e.type \in types}
           closes == IsOpen(portals[i]) /\ p.status = "CLOSED"
           collapses == IsOpen(portals[i]) /\ p.status = "COLLAPSED"
           syncs == portals[i].syncedAt = Nil /\ p.syncedAt # Nil
<1>1. Next
  BY DEF LogNext
<1>2. i \in PortalIDs' /\ portals[i] \in Portal /\ p \in Portal
  BY <1>1, PortalLives
<1>3. i \in 1..(nextPortalID' - 1)
  BY <1>2 DEF PortalIDs
<1>4. /\ ~IsOpen(portals[i]) => p = portals[i]
      /\ portals[i].syncedAt # Nil => p.syncedAt # Nil
  BY <1>1, <1>2, PortalMoves
<1>5. portals[i].status \in {"OPEN", "CLOSED", "COLLAPSED"}
      /\ p.status \in {"OPEN", "CLOSED", "COLLAPSED"}
  BY <1>2 DEF Portal
<1>6. PortalEvents(i) = EndEvents(i) \cup OpenPortalEvents(i) \cup SynchronizedEvents(i)
  BY DEF PortalEvents
<1>7. \A e \in OpenPortalEvents(i) : e.type \in {"PORTAL_STABILIZED", "RISK_LEVEL_CHANGED"}
  BY DEF OpenPortalEvents, When, Event
<1>8. EndEvents(i) = IF closes THEN {end("PORTAL_CLOSED")}
                     ELSE IF collapses THEN {end("PORTAL_COLLAPSED")} ELSE {}
  <2>1. EndEvents(i) = IF IsOpen(portals[i]) /\ ~IsOpen(p)
                       THEN {end(IF p.status = "COLLAPSED" THEN "PORTAL_COLLAPSED"
                                 ELSE "PORTAL_CLOSED")}
                       ELSE {}
    BY DEF EndEvents, When
  <2> HIDE DEF end, p
  <2> QED BY <1>5, <2>1 DEF IsOpen
<1>9. SynchronizedEvents(i) = IF syncs THEN {sync} ELSE {}
  BY DEF SynchronizedEvents, When
<1>10. /\ end("PORTAL_CLOSED").type = "PORTAL_CLOSED"
       /\ end("PORTAL_COLLAPSED").type = "PORTAL_COLLAPSED"
       /\ sync.type = "EXTRACTION_SYNCHRONIZED"
  BY DEF Event
<1>11. closes \in BOOLEAN /\ collapses \in BOOLEAN /\ syncs \in BOOLEAN
       /\ ~(closes /\ collapses)
  BY DEF IsOpen
<1> HIDE DEF p, end, sync, closes, collapses, syncs
<1>12. /\ Of(OpenTypes) = {}
       /\ Of({"PORTAL_CLOSED"}) = IF closes THEN {end("PORTAL_CLOSED")} ELSE {}
       /\ Of({"PORTAL_COLLAPSED"}) = IF collapses THEN {end("PORTAL_COLLAPSED")} ELSE {}
       /\ Of({"EXTRACTION_SYNCHRONIZED"}) = IF syncs THEN {sync} ELSE {}
  <2>1. Of(OpenTypes) = {}
    BY <1>6, <1>7, <1>8, <1>9, <1>10, <1>11 DEF OpenTypes
  <2>2. Of({"PORTAL_CLOSED"}) = IF closes THEN {end("PORTAL_CLOSED")} ELSE {}
    BY <1>6, <1>7, <1>8, <1>9, <1>10, <1>11
  <2>3. Of({"PORTAL_COLLAPSED"}) = IF collapses THEN {end("PORTAL_COLLAPSED")} ELSE {}
    BY <1>6, <1>7, <1>8, <1>9, <1>10, <1>11
  <2>4. Of({"EXTRACTION_SYNCHRONIZED"}) = IF syncs THEN {sync} ELSE {}
    BY <1>6, <1>7, <1>8, <1>9, <1>10, <1>11
  <2> QED BY <2>1, <2>2, <2>3, <2>4
<1>13. ASSUME NEW types, NEW k \in BOOLEAN, NEW x, Of(types) = IF k THEN {x} ELSE {},
              types \subseteq {"PORTAL_OPENED", "EXTRACTION_PORTAL_OPENED", "PORTAL_CLOSED",
                               "PORTAL_COLLAPSED", "EXTRACTION_SYNCHRONIZED"}
       PROVE  OfPortal(i, types) \in Nat /\ OfPortal(i, types)' = OfPortal(i, types) + Once(k)
  <2>1. {e \in EventsForStateTransition : e.portal = i /\ e.type \in types}
          = IF k THEN {x} ELSE {}
    BY <1>3, <1>13, EventsOfPortal
  <2> QED BY <2>1, PortalCounted
<1> HIDE DEF Of
<1>14. OfPortal(i, OpenTypes)' = 1
  <2>1. OpenTypes \subseteq {"PORTAL_OPENED", "EXTRACTION_PORTAL_OPENED", "PORTAL_CLOSED",
                             "PORTAL_COLLAPSED", "EXTRACTION_SYNCHRONIZED"}
    BY DEF OpenTypes
  <2>2. Of(OpenTypes) = IF FALSE THEN {0} ELSE {}
    BY <1>12
  <2>3. OfPortal(i, OpenTypes)' = OfPortal(i, OpenTypes) + Once(FALSE)
    BY <1>13, <2>1, <2>2
  <2> QED BY <2>3 DEF PortalAccount, Once
<1>15. OfPortal(i, {"PORTAL_CLOSED"})' = Once(p.status = "CLOSED")
  <2>1. OfPortal(i, {"PORTAL_CLOSED"})' = OfPortal(i, {"PORTAL_CLOSED"}) + Once(closes)
    BY <1>11, <1>12, <1>13
  <2> QED BY <1>4, <1>5, <2>1 DEF PortalAccount, Once, closes, IsOpen
<1>16. OfPortal(i, {"PORTAL_COLLAPSED"})' = Once(p.status = "COLLAPSED")
  <2>1. OfPortal(i, {"PORTAL_COLLAPSED"})' = OfPortal(i, {"PORTAL_COLLAPSED"}) + Once(collapses)
    BY <1>11, <1>12, <1>13
  <2> QED BY <1>4, <1>5, <2>1 DEF PortalAccount, Once, collapses, IsOpen
<1>17. OfPortal(i, {"EXTRACTION_SYNCHRONIZED"})' = Once(p.syncedAt # Nil)
  <2>1. OfPortal(i, {"EXTRACTION_SYNCHRONIZED"})'
          = OfPortal(i, {"EXTRACTION_SYNCHRONIZED"}) + Once(syncs)
    BY <1>11, <1>12, <1>13
  <2> QED BY <1>4, <2>1 DEF PortalAccount, Once, syncs
<1> QED BY <1>14, <1>15, <1>16, <1>17 DEF PortalAccount, p

(* A portal that opens is logged as opened and as nothing else; the log    *)
(* knew nothing of it.                                                     *)
LEMMA NewPortalAccount ==
    ASSUME IInv, IInv', LogInv, LogBag, LogNext, NEW i \in PortalIDs', i \notin PortalIDs
    PROVE  PortalAccount(i)'
<1> DEFINE p == portals'[i]
           x == Event(IF p.kind = "EXTRACTION" THEN "EXTRACTION_PORTAL_OPENED"
                      ELSE "PORTAL_OPENED", i, Nil, p.plane, p.openedAt)
<1>1. i \in 1..(nextPortalID' - 1) /\ i # Nil
  BY DEF PortalIDs, Nil
<1>2. IsOpen(p) /\ p.syncedAt = Nil
  BY PortalMoves DEF LogNext
<1>3. PortalEvents(i) = {x} /\ x.type \in OpenTypes
  BY <1>2 DEF PortalEvents, OpenedEvents, When, Event, OpenTypes
<1> HIDE DEF x, p
<1>4. \A types : OfPortal(i, types) = 0
  <2> SUFFICES ASSUME NEW types PROVE OfPortal(i, types) = 0
    OBVIOUS
  <2>1. {e \in DOMAIN log : e.portal = i /\ e.type \in types} = {}
    BY <1>1 DEF LogInv, Fits
  <2>2. OfPortal(i, types) = Cardinality({})
    BY <2>1 DEF OfPortal, Copies
  <2> QED BY <2>2, FS_EmptySet
<1>5. ASSUME NEW types, NEW k \in BOOLEAN,
             {e \in PortalEvents(i) : e.type \in types} = IF k THEN {x} ELSE {},
             types \subseteq {"PORTAL_OPENED", "EXTRACTION_PORTAL_OPENED", "PORTAL_CLOSED",
                              "PORTAL_COLLAPSED", "EXTRACTION_SYNCHRONIZED"}
      PROVE  OfPortal(i, types)' = Once(k)
  <2>1. {e \in EventsForStateTransition : e.portal = i /\ e.type \in types}
          = IF k THEN {x} ELSE {}
    BY <1>1, <1>5, EventsOfPortal
  <2>2. OfPortal(i, types)' = OfPortal(i, types) + Once(k)
    BY <2>1, PortalCounted
  <2> QED BY <1>4, <2>2 DEF Once
<1>6. OfPortal(i, OpenTypes)' = 1
  <2>1. OpenTypes \subseteq {"PORTAL_OPENED", "EXTRACTION_PORTAL_OPENED", "PORTAL_CLOSED",
                             "PORTAL_COLLAPSED", "EXTRACTION_SYNCHRONIZED"}
    BY DEF OpenTypes
  <2>2. {e \in PortalEvents(i) : e.type \in OpenTypes} = IF TRUE THEN {x} ELSE {}
    BY <1>3
  <2>3. OfPortal(i, OpenTypes)' = Once(TRUE)
    BY <1>5, <2>1, <2>2
  <2> QED BY <2>3 DEF Once
<1>7. ASSUME NEW type \in {"PORTAL_CLOSED", "PORTAL_COLLAPSED", "EXTRACTION_SYNCHRONIZED"}
      PROVE  OfPortal(i, {type})' = 0
  <2>1. {type} \subseteq {"PORTAL_OPENED", "EXTRACTION_PORTAL_OPENED", "PORTAL_CLOSED",
                          "PORTAL_COLLAPSED", "EXTRACTION_SYNCHRONIZED"}
    OBVIOUS
  <2>2. {e \in PortalEvents(i) : e.type \in {type}} = IF FALSE THEN {x} ELSE {}
    BY <1>3 DEF OpenTypes
  <2>3. OfPortal(i, {type})' = Once(FALSE)
    BY <1>5, <2>1, <2>2
  <2> QED BY <2>3 DEF Once
<1>8. /\ OfPortal(i, {"PORTAL_CLOSED"})' = 0
      /\ OfPortal(i, {"PORTAL_COLLAPSED"})' = 0
      /\ OfPortal(i, {"EXTRACTION_SYNCHRONIZED"})' = 0
  BY <1>7
<1>9. /\ Once(p.status = "CLOSED") = 0 /\ Once(p.status = "COLLAPSED") = 0
      /\ Once(p.syncedAt # Nil) = 0
  BY <1>2 DEF Once, IsOpen
<1> QED BY <1>6, <1>8, <1>9 DEF PortalAccount, p

(* A plane is logged as explored when it becomes EXPLORED.                 *)
LEMMA PlaneAccount ==
    ASSUME IInv, LogBag, LogNext, NEW pl \in Planes, OfPlane(pl) = Once(exploredAt[pl] # Nil)
    PROVE  OfPlane(pl)' = Once(exploredAt'[pl] # Nil)
<1> DEFINE c == exploredAt[pl] = Nil /\ exploredAt'[pl] # Nil
           x == Event("PLANE_EXPLORED", Nil, Nil, pl, exploredAt'[pl])
<1>1. \A i : \A e \in PortalEvents(i) : e.type # "PLANE_EXPLORED"
  BY DEF PortalEvents, OpenedEvents, EndEvents, OpenPortalEvents, SynchronizedEvents,
         When, Event
<1>2. \A o : \A e \in ObserverEvents(o) : e.type # "PLANE_EXPLORED"
  BY ObserverEventTypes DEF ObserverEvents
<1>3. \A q : \A e \in PlaneEvents(q) : e.plane = q /\ e.type = "PLANE_EXPLORED"
  BY DEF PlaneEvents, When, Event
<1>4. \A e \in PlaneEvents(pl) : e \in EventsForStateTransition
  BY DEF EventsForStateTransition
<1>5. ASSUME NEW e \in EventsForStateTransition, e.plane = pl, e.type = "PLANE_EXPLORED"
      PROVE  e \in PlaneEvents(pl)
  BY <1>1, <1>2, <1>3, <1>5 DEF EventsForStateTransition
<1>6. {e \in EventsForStateTransition : e.plane = pl /\ e.type = "PLANE_EXPLORED"}
        = PlaneEvents(pl)
  BY <1>3, <1>4, <1>5
<1>7. PlaneEvents(pl) = IF c THEN {x} ELSE {}
  BY DEF PlaneEvents, When
<1>8. c \in BOOLEAN
  OBVIOUS
<1>9. exploredAt[pl] # Nil => exploredAt'[pl] # Nil
  BY ExploredStays DEF LogNext
<1> HIDE DEF c, x
<1>10. OfPlane(pl)' = OfPlane(pl) + Once(c)
  BY <1>6, <1>7, <1>8, PlaneCounted
<1> QED BY <1>9, <1>10 DEF Once, c

-----------------------------------------------------------------------------
(* The log accounts for the state                                          *)

(* The inductive invariant: the log accounts for portals, observers and    *)
(* planes.                                                                 *)
AccountInv ==
    /\ LogBag
    /\ \A i \in PortalIDs : PortalAccount(i)
    /\ \A o \in Observers : BalancedFor(o)
    /\ \A pl \in Planes : OfPlane(pl) = Once(exploredAt[pl] # Nil)

(* The empty log accounts for the new laboratory.                          *)
LEMMA AccountStarts ==
    ASSUME LogInit
    PROVE  AccountInv
<1>1. log = << >> /\ DOMAIN log = {}
  BY DEF LogInit, EmptyBag, SetToBag
<1>2. Tokens(log, {}) = {} /\ Tokens(log, DOMAIN log) = {}
  BY <1>1 DEF Tokens
<1>3. LogBag
  BY <1>1, <1>2, FS_EmptySet DEF LogBag, Multiset
<1>4. PortalIDs = {}
  BY DEF LogInit, Init, PortalIDs
<1>5. \A o, type : OfObserver(o, type) = 0
  <2> SUFFICES ASSUME NEW o, NEW type PROVE OfObserver(o, type) = 0
    OBVIOUS
  <2>1. OfObserver(o, type) = Cardinality({})
    BY <1>1 DEF OfObserver, Copies
  <2> QED BY <2>1, FS_EmptySet
<1>6. \A pl : OfPlane(pl) = 0
  <2> SUFFICES ASSUME NEW pl PROVE OfPlane(pl) = 0
    OBVIOUS
  <2>1. OfPlane(pl) = Cardinality({})
    BY <1>1 DEF OfPlane, Copies
  <2> QED BY <2>1, FS_EmptySet
<1>7. \A o \in Observers : observers[o].status = "AVAILABLE"
  BY DEF LogInit, Init, AtHome
<1>8. \A o \in Observers : BalancedFor(o)
  BY <1>5, <1>7 DEF BalancedFor, Balanced, Once
<1>9. \A pl \in Planes : OfPlane(pl) = Once(exploredAt[pl] # Nil)
  BY <1>6 DEF LogInit, Init, Once
<1> QED BY <1>3, <1>4, <1>8, <1>9 DEF AccountInv

(* AccountInv holds in every state the log and its laboratory can reach.   *)
THEOREM AccountInductive == LogSpec => []AccountInv
<1>1. LogInit => AccountInv
  BY AccountStarts
<1>2. IInv /\ IInv' /\ LogInv /\ AccountInv /\ [LogNext]_logVars => AccountInv'
  <2> SUFFICES ASSUME IInv, IInv', LogInv, AccountInv, [LogNext]_logVars PROVE AccountInv'
    OBVIOUS
  <2>1. CASE LogNext
    <3>1. LogBag'
      <4> DEFINE E == EventsForStateTransition
      <4>1. Multiset(log) /\ IsFiniteSet(Tokens(log, DOMAIN log)) /\ log' = Extended(log, E)
        BY <2>1 DEF AccountInv, LogBag, LogNext, Extended
      <4>2. IsFiniteSet(E)
        BY EventsFinite DEF IInv, TypeOK
      <4> HIDE DEF E
      <4>3. Multiset(log') /\ IsFiniteSet(Tokens(log', DOMAIN log'))
        BY <4>1, <4>2, BagKept
      <4> QED BY <4>3 DEF LogBag, Multiset, Tokens
    <3>2. ASSUME NEW i \in PortalIDs' PROVE PortalAccount(i)'
      <4>1. CASE i \in PortalIDs
        BY <2>1, <4>1, OldPortalAccount DEF AccountInv
      <4>2. CASE i \notin PortalIDs
        BY <2>1, <4>2, NewPortalAccount DEF AccountInv
      <4> QED BY <4>1, <4>2
    <3>3. ASSUME NEW o \in Observers PROVE BalancedFor(o)'
      BY <2>1, ObserverBalanced DEF AccountInv
    <3>4. ASSUME NEW pl \in Planes PROVE OfPlane(pl)' = Once(exploredAt'[pl] # Nil)
      BY <2>1, PlaneAccount DEF AccountInv
    <3>5. \A pl \in Planes : (OfPlane(pl) = Once(exploredAt[pl] # Nil))'
      BY <3>4 DEF Once
    <3> QED BY <3>1, <3>2, <3>3, <3>5 DEF AccountInv
  <2>2. CASE UNCHANGED logVars
    <3>1. /\ log' = log /\ portals' = portals /\ nextPortalID' = nextPortalID
          /\ observers' = observers /\ exploredAt' = exploredAt
      BY <2>2 DEF logVars, vars
    <3>2. LogBag'
      BY <3>1 DEF AccountInv, LogBag, Multiset, Tokens
    <3>3. /\ \A i, types : OfPortal(i, types)' = OfPortal(i, types)
          /\ \A o, type : OfObserver(o, type)' = OfObserver(o, type)
          /\ \A pl : OfPlane(pl)' = OfPlane(pl)
      BY <3>1 DEF OfPortal, OfObserver, OfPlane, Copies
    <3>4. (\A i \in PortalIDs : PortalAccount(i))'
      BY <3>1, <3>3 DEF AccountInv, PortalIDs, PortalAccount, Once
    <3>5. (\A o \in Observers : BalancedFor(o))'
      BY <3>1, <3>3 DEF AccountInv, BalancedFor, Balanced, Once
    <3>6. (\A pl \in Planes : OfPlane(pl) = Once(exploredAt[pl] # Nil))'
      BY <3>1, <3>3 DEF AccountInv, Once
    <3> QED BY <3>2, <3>4, <3>5, <3>6 DEF AccountInv
  <2> QED BY <2>1, <2>2
<1> QED BY <1>1, <1>2, LaboratoryInductive, LogInductive, PTL DEF LogSpec

(* Every transition is logged exactly once, however many of them one late  *)
(* tick jumps over (EventsForStateTransition).                             *)
THEOREM EveryTransitionLoggedOnce == LogSpec => []LogAccountsForState
<1>1. AccountInv => LogAccountsForState
  <2> SUFFICES ASSUME AccountInv PROVE LogAccountsForState
    OBVIOUS
  <2>1. \A i \in PortalIDs : PortalAccount(i)
    BY DEF AccountInv
  <2>2. \A o \in Observers : BalancedFor(o)
    BY DEF AccountInv
  <2> QED BY <2>1, <2>2 DEF AccountInv, LogAccountsForState, PortalAccount, OpenTypes,
                            BalancedFor, Balanced, InTransit
<1> QED BY <1>1, AccountInductive, PTL

=============================================================================
