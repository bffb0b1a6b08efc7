-------------------------- MODULE SimulationProofs --------------------------
(***************************************************************************)
(* What TLAPS proves of Simulation, for every configuration the code       *)
(* accepts and every value of the bounds.                                  *)
(*                                                                         *)
(* The inductive invariant IInv says that the aggregate ResolveTick        *)
(* validates is valid at LastTickAt, and adds what validity alone does not *)
(* carry from one step to the next: an OPEN portal never ends before       *)
(* LastTickAt (NotPast), an extraction portal is still as it was drawn     *)
(* (ExtractionFresh), and a transit is alone in an OPEN portal which, if   *)
(* it is an extraction, has synchronized (TravelsWell).  A tick is proved  *)
(* stage by stage, in the order of ResolveTick.                            *)
(***************************************************************************)
EXTENDS Simulation, NumberLemmas, TLAPS

-----------------------------------------------------------------------------
(* Numbers                                                                 *)

(* Integer division stays within the natural numbers.                      *)
LEMMA DivNat ==
    ASSUME NEW a \in Nat, NEW b \in Nat \ {0}
    PROVE  a \div b \in Nat
OBVIOUS

-----------------------------------------------------------------------------
(* Portals                                                                 *)

(* A valid portal has one scheduled termination, at a proper instant (the  *)
(* candidates of ResolveLifecycle, portal.go).                             *)
LEMMA TerminationType ==
    ASSUME NEW p \in Portal, NEW now \in Nat, ValidPortal(p, now)
    PROVE  /\ Termination(p).at \in Nat
           /\ Termination(p).status \in {"CLOSED", "COLLAPSED"}
           /\ Termination(p).reason \in
                {"NATURAL_CLOSE", "ENERGY_DEPLETED", "INSTABILITY"}
           /\ Termination(p) = [at |-> Termination(p).at,
                                status |-> Termination(p).status,
                                reason |-> Termination(p).reason]
<1>1. EnergyDepletionAt(p) \in Nat
  BY DivNat DEF Portal, EnergyDepletionAt, Time
<1>2. p.stability = "UNSTABLE" => p.collapseAt \in Nat
  BY ConfigTypes DEF ValidPortal, Portal, OptTime, Time, Nil
<1> QED BY <1>1, <1>2 DEF Termination, Portal, Time

(* The largest energy validSimulationPortal accepts covers every way a     *)
(* portal gets its energy: both factories and Stabilize.                   *)
LEMMA MaxPortalEnergyBounds ==
    /\ MaxPortalEnergy \in Nat
    /\ PortalEnergyMax <= MaxPortalEnergy
    /\ ExtractionEnergyMax <= MaxPortalEnergy
    /\ StabilizeMaxStartEnergy + StabilizeBoost <= MaxPortalEnergy
<1> DEFINE S == {PortalEnergyMax, ExtractionEnergyMax,
                 StabilizeMaxStartEnergy + StabilizeBoost}
           b == PortalEnergyMax + ExtractionEnergyMax
                  + StabilizeMaxStartEnergy + StabilizeBoost
<1>1. S \in SUBSET Nat /\ S # {} /\ b \in Nat /\ \A x \in S : x <= b
  BY ConfigTypes
<1>2. Max(S) \in S /\ \A y \in S : y <= Max(S)
  <2> HIDE DEF S, b
  <2> QED BY <1>1, MaxNat
<1>3. MaxPortalEnergy = Max(S)
  BY DEF MaxPortalEnergy
<1> QED BY <1>1, <1>2, <1>3

(* An extraction portal keeps the parameters OpenExtractionPortal drew: it *)
(* is STABLE, so Stabilize never rewrites its energy.                      *)
ExtractionFresh(p) ==
    p.kind = "EXTRACTION" =>
      /\ p.energyBaseAt = p.openedAt
      /\ p.scheduledCloseAt - p.openedAt \in ExtractionTTLMin..ExtractionTTLMax
      /\ p.energyBase \in ExtractionEnergyMin..ExtractionEnergyMax
      /\ p.decay \in PortalDecayMin..PortalDecayMax

(* An OPEN portal has no termination before the last tick.                 *)
NotPast(p, now) == IsOpen(p) => now <= Termination(p).at

GoodPortal(p, now) ==
    ValidPortal(p, now) /\ ExtractionFresh(p) /\ NotPast(p, now)

(* Portal.ResolveLifecycle at a later instant keeps a good portal good,    *)
(* keeps what identifies it, and leaves OPEN only what does not end by     *)
(* then.                                                                   *)
LEMMA ResolveLifecycleGood ==
    ASSUME NEW p \in Portal, NEW t \in Nat, NEW now \in Nat, t <= now,
           GoodPortal(p, t),
           NEW r, r = ResolveLifecycle(p, now)
    PROVE  /\ r \in Portal
           /\ GoodPortal(r, now)
           /\ ~IsOpen(p) => r = p
           /\ IsOpen(r) => r = p /\ now < Termination(p).at
           /\ IsOpen(p) /\ ~IsOpen(r) => /\ r.closedAt = Termination(p).at
                                         /\ r.status = Termination(p).status
           /\ r.kind = p.kind /\ r.plane = p.plane /\ r.slot = p.slot
           /\ r.flow = p.flow /\ r.syncedAt = p.syncedAt
           /\ r.openedAt = p.openedAt
<1>1. /\ Termination(p).at \in Nat
      /\ Termination(p).status \in {"CLOSED", "COLLAPSED"}
      /\ Termination(p).reason \in
            {"NATURAL_CLOSE", "ENERGY_DEPLETED", "INSTABILITY"}
      /\ Termination(p) = [at |-> Termination(p).at,
                           status |-> Termination(p).status,
                           reason |-> Termination(p).reason]
  BY TerminationType DEF GoodPortal
<1>2. CASE ~Overdue(p, now)
  <2>1. r = p
    BY <1>2 DEF ResolveLifecycle
  <2>2. ValidPortal(p, now)
    BY DEF GoodPortal, ValidPortal, ValidTerminalPortal, Portal, Time, OptTime, Nil
  <2>3. IsOpen(p) => now < Termination(p).at
    BY <1>1, <1>2 DEF Overdue
  <2> QED BY <1>1, <2>1, <2>2, <2>3 DEF GoodPortal, NotPast
<1>3. CASE Overdue(p, now)
  <2>1. r = [p EXCEPT !.status = Termination(p).status,
                      !.reason = Termination(p).reason,
                      !.closedAt = Termination(p).at,
                      !.updatedAt = now]
    BY <1>3 DEF ResolveLifecycle
  <2>2. r \in Portal
    <3> DEFINE at == Termination(p).at
               status == Termination(p).status
               reason == Termination(p).reason
    <3>1. /\ at \in OptTime /\ now \in Time /\ status \in {"CLOSED", "COLLAPSED"}
          /\ reason \in {"NATURAL_CLOSE", "ENERGY_DEPLETED", "INSTABILITY"}
      BY <1>1 DEF Time, OptTime
    <3>2. r = [p EXCEPT !.status = status, !.reason = reason,
                        !.closedAt = at, !.updatedAt = now]
      BY <2>1
    <3> HIDE DEF at, status, reason
    <3>3. [p EXCEPT !.status = status, !.reason = reason,
                    !.closedAt = at, !.updatedAt = now] \in Portal
      BY <3>1 DEF Portal
    <3> QED BY <3>2, <3>3
  <2>3. /\ r.kind = p.kind /\ r.plane = p.plane /\ r.slot = p.slot
        /\ r.flow = p.flow /\ r.syncedAt = p.syncedAt
        /\ r.openedAt = p.openedAt /\ r.scheduledCloseAt = p.scheduledCloseAt
        /\ r.energyBase = p.energyBase /\ r.energyBaseAt = p.energyBaseAt
        /\ r.decay = p.decay /\ r.stability = p.stability
        /\ r.collapseAt = p.collapseAt /\ r.creatures = p.creatures
        /\ r.status = Termination(p).status /\ r.reason = Termination(p).reason
        /\ r.closedAt = Termination(p).at /\ r.updatedAt = now
    BY <2>1 DEF Portal
  <2>4. Termination(r) = Termination(p)
    BY <2>3 DEF Termination, EnergyDepletionAt
  <2>5. ~IsOpen(r)
    BY <1>1, <2>3 DEF IsOpen
  <2>6. t <= Termination(p).at /\ Termination(p).at <= now
    BY <1>3 DEF Overdue, GoodPortal, NotPast
  <2>7. ValidTerminalPortal(r, now)
    BY <1>1, <2>2, <2>3, <2>4, <2>6 DEF GoodPortal, ValidPortal, ValidTerminalPortal,
       Portal, Time, OptTime, Nil
  <2>8. ValidPortal(r, now)
    BY <2>2, <2>3, <2>5, <2>7 DEF GoodPortal, ValidPortal, Portal, Time, OptTime, Nil, SyncAt
  <2>9. ExtractionFresh(r) /\ NotPast(r, now)
    BY <2>3, <2>5 DEF GoodPortal, ExtractionFresh, NotPast
  <2>10. IsOpen(p)
    BY <1>3 DEF Overdue
  <2> QED BY <2>2, <2>3, <2>5, <2>8, <2>9, <2>10 DEF GoodPortal
<1> QED BY <1>2, <1>3

-----------------------------------------------------------------------------
(* Observers                                                               *)

(* A terminal portal has ended, at an instant not in the future.           *)
LEMMA TerminalClosedAt ==
    ASSUME NEW p \in Portal, NEW now \in Nat, GoodPortal(p, now), ~IsOpen(p)
    PROVE  p.closedAt \in Nat /\ p.closedAt <= now
BY DEF GoodPortal, ValidPortal, ValidTerminalPortal, Portal, Time

(* The end of research leaves a valid observer who is not in transit.      *)
LEMMA ResolveResearchGood ==
    ASSUME NEW o \in Observer, NEW ps, NEW now \in Nat, ValidObserver(o, ps, now),
           o.status \in {"EXPLORING", "LOST"},
           NEW r, r = ResolveResearch(o, now)
    PROVE  r \in Observer /\ ValidObserver(r, ps, now) /\ ~InTransit(r)
<1>1. CASE o.status = "EXPLORING" /\ o.endsAt <= now
  <2>1. r = [o EXCEPT !.status = "WAITING_RETURN", !.startedAt = o.endsAt,
                      !.endsAt = Nil, !.updatedAt = o.endsAt]
    BY <1>1 DEF ResolveResearch
  <2>2. o.endsAt \in Nat /\ o.plane # Nil /\ o.portal = Nil
    BY <1>1 DEF ValidObserver, ValidPhase, Observer, OptTime, Time, Nil
  <2>3. r \in Observer
    BY <2>1, <2>2 DEF Observer, ObserverStatus, OptTime, Time, Nil
  <2>4. /\ r.status = "WAITING_RETURN" /\ r.plane = o.plane /\ r.portal = Nil
        /\ r.startedAt = o.endsAt /\ r.endsAt = Nil /\ r.updatedAt = o.endsAt
    BY <2>1, <2>2 DEF Observer
  <2> QED BY <1>1, <2>2, <2>3, <2>4 DEF ValidObserver, InTransit, Nil
<1>2. CASE ~(o.status = "EXPLORING" /\ o.endsAt <= now)
  BY <1>2 DEF ResolveResearch, InTransit
<1> QED BY <1>1, <1>2

(* An observer back home, or LOST, is valid.                               *)
LEMMA AtHomeGood ==
    ASSUME NEW status \in {"AVAILABLE", "LOST"}, NEW at \in Nat, NEW now \in Nat,
           at <= now, NEW ps
    PROVE  /\ AtHome(status, at) \in Observer
           /\ ValidObserver(AtHome(status, at), ps, now)
           /\ ~InTransit(AtHome(status, at))
           /\ AtHome(status, at).status = status
BY DEF AtHome, Observer, ValidObserver, InTransit, ObserverStatus, OptTime, Time, Nil

(* ResolveObserverLifecycle on one observer: the result is valid among the *)
(* resolved portals, and whoever is still in transit is unchanged and      *)
(* travels through a portal that is still OPEN.                            *)
LEMMA ObserverStage ==
    ASSUME NEW D, NEW qs \in [D -> Portal], NEW ps \in [D -> Portal],
           NEW t \in Nat, NEW now \in Nat, t <= now,
           \A i \in D : /\ GoodPortal(ps[i], now)
                        /\ ps[i].flow = qs[i].flow
                        /\ ps[i].plane = qs[i].plane,
           NEW o \in Observer, ValidObserver(o, qs, t),
           NEW r, r = ResolveObserverLifecycle(o, ps, now)
    PROVE  /\ r \in Observer
           /\ ValidObserver(r, ps, now)
           /\ InTransit(r) => r = o /\ IsOpen(ps[r.portal]) /\ now < o.endsAt
<1>0. ValidObserver(o, ps, now)
  BY DEF ValidObserver, ValidPhase, Observer, OptTime, Time, Nil, AtHome
<1>1. CASE o.status \in {"OUTBOUND", "RETURNING"}
  <2> DEFINE p == ps[o.portal]
  <2>1. /\ o.portal \in D /\ o.endsAt \in Nat /\ p \in Portal
    BY <1>1 DEF ValidObserver, ValidPhase, Observer, OptTime, Time, Nil
  <2>2. ~IsOpen(p) => p.closedAt \in Nat /\ p.closedAt <= now
    BY <2>1, TerminalClosedAt
  <2> HIDE DEF p
  <2>3. CASE TransitFails(o, p, now)
    <3>1. AtHome("LOST", p.closedAt) \in Observer
          /\ ValidObserver(AtHome("LOST", p.closedAt), ps, now)
          /\ ~InTransit(AtHome("LOST", p.closedAt))
          /\ AtHome("LOST", p.closedAt).status = "LOST"
      BY <2>2, <2>3, AtHomeGood DEF TransitFails
    <3>2. CASE o.status = "OUTBOUND"
      <4>1. r = ResolveResearch(AtHome("LOST", p.closedAt), now)
        BY <3>2, <2>3 DEF ResolveObserverLifecycle, ResolveOutbound, p
      <4> QED BY <3>1, <4>1, ResolveResearchGood
    <3>3. CASE o.status = "RETURNING"
      <4>1. r = AtHome("LOST", p.closedAt)
        BY <3>3, <2>3 DEF ResolveObserverLifecycle, ResolveReturning, p
      <4> QED BY <3>1, <4>1
    <3> QED BY <1>1, <3>2, <3>3
  <2>4. CASE ~TransitFails(o, p, now) /\ o.endsAt <= now
    <3>1. CASE o.status = "OUTBOUND"
      <4> DEFINE e == [status |-> "EXPLORING", plane |-> p.plane, portal |-> Nil,
                startedAt |-> o.endsAt, endsAt |-> o.endsAt + ResearchDuration,
                updatedAt |-> o.endsAt]
      <4>1. r = ResolveResearch(e, now)
        BY <3>1, <2>4 DEF ResolveObserverLifecycle, ResolveOutbound, p
      <4>2. e \in Observer /\ p.plane # Nil
        BY <2>1, ConfigTypes DEF Observer, ObserverStatus, Portal, OptTime, Time, Nil, Planes
      <4>3. ValidObserver(e, ps, now)
        BY <2>1, <2>4, <4>2, ConfigTypes, ConfigValid
           DEF ValidObserver, ValidPhase, Nil, validSimulationConfig
      <4>4. e.status = "EXPLORING"
        OBVIOUS
      <4> HIDE DEF e
      <4> QED BY <4>1, <4>2, <4>3, <4>4, ResolveResearchGood
    <3>2. CASE o.status = "RETURNING"
      <4>1. r = AtHome("AVAILABLE", o.endsAt)
        BY <3>2, <2>4 DEF ResolveObserverLifecycle, ResolveReturning, p
      <4> QED BY <2>1, <2>4, <4>1, AtHomeGood
    <3> QED BY <1>1, <3>1, <3>2
  <2>5. CASE ~TransitFails(o, p, now) /\ ~(o.endsAt <= now)
    <3>1. IsOpen(p) /\ now < o.endsAt
      BY <2>1, <2>2, <2>5 DEF TransitFails
    <3>2. CASE o.status = "OUTBOUND"
      <4>1. r = ResolveResearch(o, now)
        BY <3>2, <2>5 DEF ResolveObserverLifecycle, ResolveOutbound, p
      <4>2. r = o
        BY <3>2, <4>1 DEF ResolveResearch
      <4> QED BY <1>0, <3>1, <4>2 DEF p
    <3>3. CASE o.status = "RETURNING"
      <4>1. r = o
        BY <3>3, <2>5 DEF ResolveObserverLifecycle, ResolveReturning, p
      <4> QED BY <1>0, <3>1, <4>1 DEF p
    <3> QED BY <1>1, <3>2, <3>3
  <2> QED BY <2>3, <2>4, <2>5
<1>2. CASE o.status = "EXPLORING"
  <2>1. r = ResolveResearch(o, now)
    BY <1>2 DEF ResolveObserverLifecycle
  <2> QED BY <1>0, <1>2, <2>1, ResolveResearchGood
<1>3. CASE o.status \notin {"OUTBOUND", "RETURNING", "EXPLORING"}
  <2>1. r = o
    BY <1>3 DEF ResolveObserverLifecycle
  <2> QED BY <1>0, <1>3, <2>1 DEF InTransit
<1> QED BY <1>1, <1>2, <1>3

-----------------------------------------------------------------------------
(* The invariant, and why no tick fails                                    *)

(* The risk of an extraction portal at its synchronization is that of the  *)
(* same draw opened at instant zero, which ExtractionUsable bounds.        *)
LEMMA UsableAtSync ==
    ASSUME NEW p \in Portal, p.kind = "EXTRACTION", p.stability = "STABLE",
           ExtractionFresh(p)
    PROVE  ~RiskCritical(p, SyncAt(p))
<1> DEFINE ttl == p.scheduledCloseAt - p.openedAt
           n == NewExtractionPortal(1, 1, 0, ttl, p.energyBase, p.decay)
<1>1. ~RiskCritical(n, ExtractionSync)
  <2>1. /\ ttl \in ExtractionTTLMin..ExtractionTTLMax
        /\ p.energyBase \in ExtractionEnergyMin..ExtractionEnergyMax
        /\ p.decay \in PortalDecayMin..PortalDecayMax
    BY DEF ExtractionFresh
  <2> HIDE DEF ttl
  <2> QED BY <2>1, ExtractionUsable
<1>2. /\ n.energyBase = p.energyBase /\ n.energyBaseAt = 0 /\ n.decay = p.decay
      /\ n.scheduledCloseAt = 0 + ttl /\ n.stability = "STABLE"
  BY DEF NewExtractionPortal, NewPortal
<1> HIDE DEF n
<1>3. /\ p.openedAt \in Nat /\ p.scheduledCloseAt \in Nat /\ p.energyBaseAt = p.openedAt
      /\ p.energyBase \in Nat /\ p.decay \in Nat /\ ExtractionSync \in Nat
  BY ConfigTypes DEF Portal, Time, ExtractionFresh
<1>4. CurrentEnergy(p, SyncAt(p)) = CurrentEnergy(n, ExtractionSync)
  <2>1. SyncAt(p) - p.energyBaseAt = ExtractionSync - n.energyBaseAt
    BY <1>2, <1>3 DEF SyncAt
  <2> QED BY <1>2, <2>1 DEF CurrentEnergy
<1>5. p.scheduledCloseAt - SyncAt(p) = n.scheduledCloseAt - ExtractionSync
  BY <1>2, <1>3 DEF SyncAt
<1>6. EffectiveLifetime(p, SyncAt(p)) = EffectiveLifetime(n, ExtractionSync)
  BY <1>2, <1>4, <1>5 DEF EffectiveLifetime
<1>7. RiskScore(p, SyncAt(p)) = RiskScore(n, ExtractionSync)
  BY <1>2, <1>6 DEF RiskScore
<1> QED BY <1>1, <1>7 DEF RiskCritical

(* No two OPEN portals share a slot.                                       *)
DistinctSlots(ps) ==
    \A i, j \in OpenIDs(ps) : ps[i].slot = ps[j].slot => i = j

GoodPortals(ps, now) ==
    /\ \A i \in DOMAIN ps : GoodPortal(ps[i], now)
    /\ DistinctSlots(ps)

(* Whoever is in transit is alone in an OPEN portal; through an extraction *)
(* only after its synchronization.                                         *)
TravelsWell(os, ps) ==
    \A o \in Observers : InTransit(os[o]) =>
        /\ IsOpen(ps[os[o].portal])
        /\ ps[os[o].portal].kind = "EXTRACTION" => ps[os[o].portal].syncedAt # Nil
        /\ \A q \in Observers :
             InTransit(os[q]) /\ os[q].portal = os[o].portal => q = o

GoodObservers(os, ps, now) ==
    /\ \A o \in Observers : ValidObserver(os[o], ps, now)
    /\ TravelsWell(os, ps)

(* The energy baseline, the spawn schedule and the exploration dates do    *)
(* not lie in the future.                                                  *)
GoodRest ==
    /\ lab.energyBaseAt <= tickAt
    /\ ValidSpawn(tickAt)
    /\ \A pl \in Planes : exploredAt[pl] <= tickAt

(* The inductive invariant.                                                *)
IInv ==
    /\ TypeOK
    /\ GoodPortals(portals, tickAt)
    /\ GoodObservers(observers, portals, tickAt)
    /\ GoodRest

(* The portal stage of a tick (resolvePortalStage).                        *)
LEMMA PortalStage ==
    ASSUME IInv, NEW now \in Nat, tickAt <= now,
           NEW ps, ps = ResolvedPortals(now)
    PROVE  /\ ps \in [PortalIDs -> Portal]
           /\ GoodPortals(ps, now)
           /\ \A i \in PortalIDs :
                /\ ~IsOpen(portals[i]) => ps[i] = portals[i]
                /\ IsOpen(ps[i]) => ps[i] = portals[i]
                /\ ps[i].kind = portals[i].kind /\ ps[i].plane = portals[i].plane
                /\ ps[i].flow = portals[i].flow /\ ps[i].syncedAt = portals[i].syncedAt
                /\ ps[i].openedAt = portals[i].openedAt
<1>1. ASSUME NEW i \in PortalIDs
      PROVE  /\ ps[i] \in Portal
             /\ GoodPortal(ps[i], now)
             /\ ~IsOpen(portals[i]) => ps[i] = portals[i]
             /\ IsOpen(ps[i]) => ps[i] = portals[i]
             /\ ps[i].kind = portals[i].kind /\ ps[i].plane = portals[i].plane
             /\ ps[i].flow = portals[i].flow /\ ps[i].syncedAt = portals[i].syncedAt
             /\ ps[i].openedAt = portals[i].openedAt
  <2>1. ps[i] = ResolveLifecycle(portals[i], now)
    BY DEF ResolvedPortals
  <2>2. portals[i] \in Portal /\ GoodPortal(portals[i], tickAt) /\ tickAt \in Nat
    BY DEF IInv, TypeOK, GoodPortals, Time
  <2> QED BY <2>1, <2>2, ResolveLifecycleGood
<1>2. ps \in [PortalIDs -> Portal]
  BY <1>1 DEF ResolvedPortals
<1>3. DistinctSlots(ps)
  <2>1. DistinctSlots(portals) /\ DOMAIN portals = PortalIDs
    BY DEF IInv, GoodPortals, TypeOK
  <2>2. OpenIDs(ps) \subseteq OpenIDs(portals)
    BY <1>1, <1>2, <2>1 DEF OpenIDs
  <2> QED BY <1>1, <1>2, <2>1, <2>2 DEF DistinctSlots, OpenIDs
<1> QED BY <1>1, <1>2, <1>3 DEF GoodPortals

(* The observer stage of a tick (resolveObserverStage) on the portals that *)
(* the portal stage left.                                                  *)
LEMMA ObserversStage ==
    ASSUME IInv, NEW now \in Nat, tickAt <= now,
           NEW ps, ps = ResolvedPortals(now),
           NEW os, os = ResolvedObservers(ps, now)
    PROVE  /\ os \in [Observers -> Observer]
           /\ GoodObservers(os, ps, now)
           /\ \A o \in Observers : InTransit(os[o]) => os[o] = observers[o]
<1>0. ps \in [PortalIDs -> Portal] /\ GoodPortals(ps, now)
  BY PortalStage
<1>1. ASSUME NEW o \in Observers
      PROVE  /\ os[o] \in Observer
             /\ ValidObserver(os[o], ps, now)
             /\ InTransit(os[o]) => os[o] = observers[o] /\ IsOpen(ps[os[o].portal])
  <2>1. os[o] = ResolveObserverLifecycle(observers[o], ps, now)
    BY DEF ResolvedObservers
  <2>2. /\ observers[o] \in Observer /\ portals \in [PortalIDs -> Portal]
        /\ ValidObserver(observers[o], portals, tickAt) /\ tickAt \in Nat
    BY DEF IInv, TypeOK, GoodObservers, Time
  <2>3. \A i \in PortalIDs : /\ GoodPortal(ps[i], now)
                             /\ ps[i].flow = portals[i].flow
                             /\ ps[i].plane = portals[i].plane
    BY <1>0, PortalStage DEF GoodPortals
  <2> QED BY <1>0, <2>1, <2>2, <2>3, ObserverStage
<1>2. TravelsWell(os, ps)
  <2> SUFFICES ASSUME NEW o \in Observers, InTransit(os[o])
               PROVE  /\ ps[os[o].portal].kind = "EXTRACTION" =>
                            ps[os[o].portal].syncedAt # Nil
                      /\ \A q \in Observers :
                           InTransit(os[q]) /\ os[q].portal = os[o].portal => q = o
    BY <1>1 DEF TravelsWell
  <2>1. TravelsWell(observers, portals)
    BY DEF IInv, GoodObservers
  <2>2. os[o].portal \in PortalIDs
    BY <1>0, <1>1 DEF ValidObserver, InTransit
  <2>3. ps[os[o].portal] = portals[os[o].portal]
    BY <1>1, <2>2, PortalStage
  <2> QED BY <1>1, <2>1, <2>3 DEF TravelsWell
<1> QED BY <1>1, <1>2 DEF GoodObservers, ResolvedObservers

(* A portal opened without creatures has none inside.                      *)
LEMMA NothingInsideExtraction ==
    ASSUME NEW p \in Portal, p.creatures = 0, NEW now \in Nat
    PROVE  CreaturesInside(p, now) = 0
<1>1. Floor0(now - p.openedAt) \in Nat
  BY DEF Floor0, Portal, Time
<1>2. CreatureTransit \in Nat \ {0}
  BY ConfigTypes, ConfigValid DEF validSimulationConfig
<1>3. Floor0(now - p.openedAt) \div CreatureTransit \in Nat
  BY <1>1, <1>2, DivNat
<1> QED BY <1>3 DEF CreaturesInside, Floor0

(* The automatic recall of a synchronizing portal                          *)
(* (resolveExtractionSynchronization) is never refused for any reason but  *)
(* an empty plane, and nobody is inside the portal.                        *)
LEMMA SyncAlwaysAdmitted ==
    ASSUME IInv, NEW now \in Nat, tickAt <= now,
           NEW ps, ps = ResolvedPortals(now),
           NEW os, os = ResolvedObservers(ps, now)
    PROVE  /\ SyncAdmitted(ps, os, SyncDue(ps, now))
           /\ \A i \in SyncDue(ps, now) : TransitThrough(os, i) = {}
<1> DEFINE due == SyncDue(ps, now)
<1>0. /\ ps \in [PortalIDs -> Portal] /\ GoodPortals(ps, now)
      /\ os \in [Observers -> Observer] /\ GoodObservers(os, ps, now)
  BY PortalStage, ObserversStage
<1>1. \A i \in due : /\ i \in PortalIDs /\ ps[i].kind = "EXTRACTION" /\ IsOpen(ps[i])
                     /\ ps[i].syncedAt = Nil /\ SyncAt(ps[i]) <= now
  BY <1>0 DEF SyncDue
<1> HIDE DEF due
<1>2. ASSUME NEW i \in due
      PROVE  TransitThrough(os, i) = {}
  BY <1>0, <1>1 DEF TransitThrough, GoodObservers, TravelsWell
<1>3. ASSUME NEW i \in due
      PROVE  RecallPossible(Synchronized(ps, due), os, i, SyncAt(ps[i]))
  <2> DEFINE p == ps[i]
             s == Synchronized(ps, due)[i]
             at == SyncAt(ps[i])
  <2>1. p \in Portal /\ GoodPortal(p, now) /\ p.kind = "EXTRACTION" /\ IsOpen(p)
    BY <1>0, <1>1 DEF GoodPortals
  <2>2. /\ p.stability = "STABLE" /\ p.flow = "INBOUND" /\ p.creatures = 0
        /\ ExtractionFresh(p)
    BY <2>1 DEF GoodPortal, ValidPortal
  <2>3. at \in Nat
    BY <2>1, ConfigTypes DEF SyncAt, Portal, Time
  <2>4. s = [p EXCEPT !.syncedAt = SyncAt(p), !.updatedAt = SyncAt(p)]
    BY <1>0, <1>1 DEF Synchronized
  <2>5. s \in Portal
    <3>1. at \in OptTime /\ at \in Time /\ s = [p EXCEPT !.syncedAt = at, !.updatedAt = at]
      BY <2>3, <2>4 DEF OptTime, Time
    <3> HIDE DEF at, p, s
    <3>2. [p EXCEPT !.syncedAt = at, !.updatedAt = at] \in Portal
      BY <2>1, <3>1 DEF Portal
    <3> QED BY <3>1, <3>2
  <2>6. /\ s.stability = "STABLE" /\ s.flow = "INBOUND" /\ s.creatures = 0
        /\ s.kind = "EXTRACTION" /\ s.status = p.status /\ s.openedAt = p.openedAt
        /\ s.energyBaseAt = p.energyBaseAt /\ s.energyBase = p.energyBase
        /\ s.decay = p.decay /\ s.scheduledCloseAt = p.scheduledCloseAt
        /\ s.syncedAt = at
    BY <2>1, <2>2, <2>4 DEF Portal
  <2>7. ExtractionFresh(s) /\ SyncAt(s) = at /\ IsOpen(s)
    BY <2>1, <2>2, <2>6 DEF ExtractionFresh, SyncAt, IsOpen
  <2> HIDE DEF s
  <2>8. ~RiskCritical(s, at)
    BY <2>5, <2>6, <2>7, UsableAtSync
  <2>9. CreaturesInside(s, at) = 0
    BY <2>3, <2>5, <2>6, NothingInsideExtraction
  <2>10. CorridorFree(Synchronized(ps, due), os, i, "OUTBOUND", at)
    <3>1. s.flow # "OUTBOUND" BY <2>6
    <3> QED BY <1>2, <2>7, <2>8, <2>9, <3>1 DEF CorridorFree, s
  <2>11. s.syncedAt # Nil
    BY <2>3, <2>6 DEF Nil
  <2> QED BY <2>10, <2>11 DEF RecallPossible, s
<1> QED BY <1>2, <1>3 DEF SyncAdmitted, due

(* In a good state ResolveTick succeeds at every later instant.            *)
LEMMA IInvResolves ==
    ASSUME IInv, NEW now \in Nat, tickAt <= now
    PROVE  TickResolves(now)
<1> DEFINE ps == ResolvedPortals(now)
           os == ResolvedObservers(ps, now)
<1>1. ValidState(now)
  <2>1. tickAt \in Nat /\ lab.energyBaseAt \in Nat
    BY DEF IInv, TypeOK, Lab, Time
  <2>2. lab.energyBaseAt <= now
    BY <2>1 DEF IInv, GoodRest
  <2>3. ValidSpawn(now)
    BY <2>1 DEF IInv, GoodRest, ValidSpawn, TypeOK, OptTime, Time, Nil
  <2>4. \A pl \in Planes : exploredAt[pl] <= now
    BY <2>1 DEF IInv, GoodRest, TypeOK, OptTime, Time, Nil
  <2>5. \A i \in PortalIDs : ValidPortal(portals[i], now)
    <3> SUFFICES ASSUME NEW i \in PortalIDs PROVE ValidPortal(portals[i], now)
      OBVIOUS
    <3>1. portals[i] \in Portal /\ ValidPortal(portals[i], tickAt)
      BY DEF IInv, GoodPortals, GoodPortal, TypeOK
    <3> QED BY <2>1, <3>1 DEF ValidPortal, ValidTerminalPortal, Portal, Time, OptTime, Nil
  <2>6. \A o \in Observers : ValidObserver(observers[o], portals, now)
    <3> SUFFICES ASSUME NEW o \in Observers
                 PROVE  ValidObserver(observers[o], portals, now)
      OBVIOUS
    <3>1. observers[o] \in Observer /\ ValidObserver(observers[o], portals, tickAt)
      BY DEF IInv, GoodObservers, TypeOK
    <3> QED BY <2>1, <3>1 DEF ValidObserver, ValidPhase, Observer, OptTime, Time, Nil
  <2>7. \A i, j \in OpenIDs(portals) : portals[i].slot = portals[j].slot => i = j
    BY DEF IInv, GoodPortals, DistinctSlots
  <2> QED BY <2>2, <2>3, <2>4, <2>5, <2>6, <2>7 DEF ValidState
<1>2. CollapseOrderOK(lab, CollapseTimes(now))
  <2> SUFFICES ASSUME NEW i \in PortalIDs, Overdue(portals[i], now)
               PROVE  lab.energyBaseAt <= Termination(portals[i]).at
    BY DEF CollapseOrderOK, CollapseTimes
  <2>1. portals[i] \in Portal /\ GoodPortal(portals[i], tickAt)
    BY DEF IInv, GoodPortals, TypeOK
  <2>2. tickAt <= Termination(portals[i]).at
    BY <2>1 DEF GoodPortal, NotPast, Overdue
  <2>3. Termination(portals[i]).at \in Nat /\ tickAt \in Nat /\ lab.energyBaseAt \in Nat
    BY <2>1, TerminationType DEF GoodPortal, IInv, TypeOK, Lab, Time
  <2> QED BY <2>2, <2>3 DEF IInv, GoodRest
<1>3. SyncAdmitted(ps, os, SyncDue(ps, now))
  BY SyncAlwaysAdmitted
<1> QED BY <1>1, <1>2, <1>3 DEF TickResolves

-----------------------------------------------------------------------------
(* The later stages of a tick                                              *)

(* Synchronization keeps the portals good and opens the way for returns.   *)
LEMMA SynchronizedGood ==
    ASSUME NEW ps \in [PortalIDs -> Portal], NEW now \in Nat, GoodPortals(ps, now),
           NEW due, due = SyncDue(ps, now),
           NEW sy, sy = Synchronized(ps, due)
    PROVE  /\ sy \in [PortalIDs -> Portal]
           /\ GoodPortals(sy, now)
           /\ \A i \in PortalIDs :
                /\ sy[i].status = ps[i].status /\ sy[i].kind = ps[i].kind
                /\ sy[i].plane = ps[i].plane /\ sy[i].flow = ps[i].flow
                /\ i \notin due => sy[i] = ps[i]
           /\ \A i \in due :
                /\ i \in PortalIDs /\ IsOpen(sy[i]) /\ sy[i].syncedAt # Nil
                /\ sy[i].flow = "INBOUND"
                /\ SyncAt(ps[i]) \in Nat /\ SyncAt(ps[i]) <= now
<1>1. \A i \in due : /\ i \in PortalIDs /\ ps[i].kind = "EXTRACTION" /\ IsOpen(ps[i])
                     /\ ps[i].syncedAt = Nil /\ SyncAt(ps[i]) <= now
  BY DEF SyncDue
<1>2. ASSUME NEW i \in due
      PROVE  /\ sy[i] \in Portal /\ GoodPortal(sy[i], now)
             /\ sy[i].status = ps[i].status /\ sy[i].kind = ps[i].kind
             /\ sy[i].plane = ps[i].plane /\ sy[i].flow = ps[i].flow
             /\ sy[i].slot = ps[i].slot
             /\ IsOpen(sy[i]) /\ sy[i].syncedAt # Nil /\ sy[i].flow = "INBOUND"
             /\ SyncAt(ps[i]) \in Nat
  <2> DEFINE p == ps[i]
             q == sy[i]
  <2>1. p \in Portal /\ GoodPortal(p, now) /\ p.kind = "EXTRACTION" /\ IsOpen(p)
        /\ SyncAt(p) <= now
    BY <1>1 DEF GoodPortals
  <2>2. SyncAt(p) \in Nat /\ p.energyBaseAt = p.openedAt /\ p.openedAt <= SyncAt(p)
    BY <2>1, ConfigTypes DEF SyncAt, Portal, Time, GoodPortal, ExtractionFresh
  <2>3. q = [p EXCEPT !.syncedAt = SyncAt(p), !.updatedAt = SyncAt(p)]
    BY <1>1 DEF Synchronized
  <2> HIDE DEF p, q
  <2>4. q \in Portal
    BY <2>1, <2>2, <2>3 DEF Portal, OptTime, Time
  <2>5. /\ q.kind = p.kind /\ q.plane = p.plane /\ q.slot = p.slot
        /\ q.flow = p.flow /\ q.syncedAt = SyncAt(p)
        /\ q.openedAt = p.openedAt /\ q.scheduledCloseAt = p.scheduledCloseAt
        /\ q.energyBase = p.energyBase /\ q.energyBaseAt = p.energyBaseAt
        /\ q.decay = p.decay /\ q.stability = p.stability
        /\ q.collapseAt = p.collapseAt /\ q.creatures = p.creatures
        /\ q.status = p.status /\ q.reason = p.reason
        /\ q.closedAt = p.closedAt /\ q.updatedAt = SyncAt(p)
    BY <2>1, <2>3 DEF Portal
  <2>6. Termination(q) = Termination(p) /\ SyncAt(q) = SyncAt(p) /\ IsOpen(q)
    BY <2>1, <2>5 DEF Termination, EnergyDepletionAt, SyncAt, IsOpen
  <2>7. ValidPortal(q, now)
    BY <2>1, <2>2, <2>4, <2>5, <2>6 DEF ValidPortal, GoodPortal, Portal, OptTime, Time, Nil
  <2>8. ExtractionFresh(q) /\ NotPast(q, now)
    BY <2>1, <2>5, <2>6 DEF ExtractionFresh, NotPast, GoodPortal
  <2>9. q.syncedAt # Nil /\ q.flow = "INBOUND"
    BY <2>1, <2>2, <2>5 DEF Nil, GoodPortal, ValidPortal
  <2> QED BY <2>2, <2>4, <2>5, <2>6, <2>7, <2>8, <2>9 DEF GoodPortal, p, q
<1>3. ASSUME NEW i \in PortalIDs, i \notin due
      PROVE  sy[i] = ps[i]
  BY <1>3 DEF Synchronized
<1>4. sy \in [PortalIDs -> Portal]
  BY <1>2, <1>3 DEF Synchronized
<1>5. \A i \in PortalIDs : /\ sy[i].status = ps[i].status /\ sy[i].kind = ps[i].kind
                           /\ sy[i].plane = ps[i].plane /\ sy[i].flow = ps[i].flow
                           /\ sy[i].slot = ps[i].slot
  BY <1>2, <1>3
<1>6. OpenIDs(sy) = OpenIDs(ps)
  BY <1>4, <1>5 DEF OpenIDs, IsOpen
<1>7. DistinctSlots(sy)
  BY <1>5, <1>6 DEF DistinctSlots, GoodPortals, OpenIDs
<1>8. \A i \in PortalIDs : GoodPortal(sy[i], now)
  BY <1>2, <1>3 DEF GoodPortals
<1> QED BY <1>1, <1>2, <1>3, <1>4, <1>5, <1>7, <1>8 DEF GoodPortals

(* StartOutbound and StartReturning give a valid observer in transit.      *)
LEMMA StartTransitGood ==
    ASSUME NEW ps, NEW i \in Nat, i \in DOMAIN ps,
           NEW at \in Nat, NEW now \in Nat, at <= now,
           NEW duration \in TransitDurations,
           NEW o \in Observer, ValidObserver(o, ps, now),
           NEW status \in {"OUTBOUND", "RETURNING"},
           status = "OUTBOUND" => o.status = "AVAILABLE" /\ ps[i].flow = "OUTBOUND",
           status = "RETURNING" => /\ o.status = "WAITING_RETURN"
                                   /\ ps[i].flow = "INBOUND"
                                   /\ o.plane = ps[i].plane,
           NEW r, r = StartTransit(o, status, i, at, duration)
    PROVE  /\ r \in Observer
           /\ ValidObserver(r, ps, now)
           /\ InTransit(r) /\ r.portal = i /\ r.endsAt = at + duration
<1>1. duration \in Nat /\ duration > 0
  BY ConfigTypes, ConfigValid DEF TransitDurations, validSimulationConfig
<1>2. r \in Observer
  <2>1. /\ i \in Nat \cup {Nil} /\ at \in OptTime /\ at \in Time
        /\ at + duration \in OptTime /\ status \in ObserverStatus
    BY <1>1 DEF OptTime, Time, ObserverStatus
  <2> QED BY <2>1 DEF StartTransit, Observer
<1>3. /\ r.status = status /\ r.plane = o.plane /\ r.portal = i
      /\ r.startedAt = at /\ r.endsAt = at + duration /\ r.updatedAt = at
  BY DEF StartTransit, Observer
<1>4. o.status = "AVAILABLE" => o.plane = Nil
  <2>1. o.status = "AVAILABLE" => o = AtHome(o.status, o.updatedAt)
    BY DEF ValidObserver
  <2> QED BY <2>1 DEF AtHome
<1>5. o.status = "WAITING_RETURN" => o.plane # Nil
  BY DEF ValidObserver
<1>6. i # Nil /\ at # Nil
  BY DEF Nil
<1>7. ValidPhase(r, now)
  BY <1>1, <1>3, <1>6 DEF ValidPhase
<1> HIDE DEF StartTransit
<1>8. ValidObserver(r, ps, now)
  BY <1>3, <1>4, <1>5, <1>6, <1>7 DEF ValidObserver
<1> QED BY <1>2, <1>3, <1>8 DEF InTransit

(* The extraction stage (resolveExtractionStage): portals take their turns *)
(* by ID and never the same observer, so every portal carries at most one. *)
LEMMA RecalledGood ==
    ASSUME nextPortalID \in Nat,
           NEW ps \in [PortalIDs -> Portal], NEW now \in Nat,
           GoodPortals(ps, now),
           NEW os \in [Observers -> Observer], GoodObservers(os, ps, now),
           NEW due, due = SyncDue(ps, now),
           \A i \in due : TransitThrough(os, i) = {},
           NEW picks \in AutoRecalls(ps, os, due),
           NEW durations \in [{i \in due : picks[i] # Nil} -> TransitDurations],
           NEW sy, sy = Synchronized(ps, due),
           NEW rs, rs = Recalled(ps, os, picks, durations)
    PROVE  rs \in [Observers -> Observer] /\ GoodObservers(rs, sy, now)
<1> DEFINE Taken(o) == \E i \in DOMAIN durations : picks[i] = o
           By(o) == CHOOSE j \in DOMAIN durations : picks[j] = o
<1>1. /\ sy \in [PortalIDs -> Portal]
      /\ \A i \in PortalIDs : /\ sy[i].status = ps[i].status /\ sy[i].kind = ps[i].kind
                              /\ sy[i].plane = ps[i].plane /\ sy[i].flow = ps[i].flow
                              /\ i \notin due => sy[i] = ps[i]
      /\ \A i \in due : /\ i \in PortalIDs /\ IsOpen(sy[i]) /\ sy[i].syncedAt # Nil
                        /\ sy[i].flow = "INBOUND"
                        /\ SyncAt(ps[i]) \in Nat /\ SyncAt(ps[i]) <= now
  BY SynchronizedGood
<1>2. \A i \in due : picks[i] # Nil =>
          /\ picks[i] \in Observers
          /\ os[picks[i]].status = "WAITING_RETURN"
          /\ os[picks[i]].plane = ps[i].plane
          /\ \A j \in due : j < i => picks[j] # picks[i]
  <2> SUFFICES ASSUME NEW i \in due, picks[i] # Nil
               PROVE  picks[i] \in LeftFor(ps, os, due, picks, i)
    BY DEF LeftFor, WaitingOn
  <2> QED BY DEF AutoRecalls, LongestWaiting
<1>3. DOMAIN durations = {i \in due : picks[i] # Nil}
  OBVIOUS
<1>4. ASSUME NEW i \in DOMAIN durations, NEW j \in DOMAIN durations, picks[i] = picks[j]
      PROVE  i = j
  <2>1. i \in due /\ j \in due /\ picks[i] # Nil /\ picks[j] # Nil
    BY <1>3
  <2>2. i \in Nat /\ j \in Nat
    BY <1>1, <2>1 DEF PortalIDs
  <2>3. ~(i < j) /\ ~(j < i)
    BY <1>2, <1>4, <2>1
  <2> QED BY <2>2, <2>3
<1>5. ASSUME NEW o \in Observers, Taken(o)
      PROVE  /\ By(o) \in due /\ picks[By(o)] = o /\ By(o) \in DOMAIN durations
             /\ rs[o] = StartTransit(os[o], "RETURNING", By(o), SyncAt(ps[By(o)]),
                                     durations[By(o)])
  BY <1>3, <1>5 DEF Recalled
<1>6. ASSUME NEW o \in Observers, ~Taken(o)
      PROVE  rs[o] = os[o]
  BY <1>6 DEF Recalled
<1> HIDE DEF Taken, By
<1>7. ASSUME NEW o \in Observers
      PROVE  ValidObserver(os[o], sy, now)
  <2>1. ValidObserver(os[o], ps, now) /\ DOMAIN ps = PortalIDs /\ DOMAIN sy = PortalIDs
    BY <1>1 DEF GoodObservers
  <2>2. os[o].portal \in PortalIDs => /\ sy[os[o].portal].flow = ps[os[o].portal].flow
                                      /\ sy[os[o].portal].plane = ps[os[o].portal].plane
    BY <1>1
  <2> QED BY <2>1, <2>2 DEF ValidObserver
<1>8. ASSUME NEW o \in Observers, Taken(o)
      PROVE  /\ rs[o] \in Observer /\ ValidObserver(rs[o], sy, now)
             /\ rs[o].portal = By(o)
  <2>1. /\ By(o) \in PortalIDs /\ durations[By(o)] \in TransitDurations
        /\ os[o].status = "WAITING_RETURN" /\ os[o].plane = sy[By(o)].plane
        /\ sy[By(o)].flow = "INBOUND"
    BY <1>1, <1>2, <1>3, <1>5, <1>8
  <2>2. SyncAt(ps[By(o)]) \in Nat /\ SyncAt(ps[By(o)]) <= now
    BY <1>1, <1>5, <1>8
  <2>3. os[o] \in Observer /\ ValidObserver(os[o], sy, now)
    BY <1>7
  <2>4. rs[o] = StartTransit(os[o], "RETURNING", By(o), SyncAt(ps[By(o)]),
                             durations[By(o)])
    BY <1>5, <1>8
  <2> DEFINE i == By(o)
             at == SyncAt(ps[i])
             d == durations[i]
  <2>6. /\ i \in DOMAIN sy /\ i \in Nat /\ at \in Nat /\ at <= now /\ d \in TransitDurations
        /\ rs[o] = StartTransit(os[o], "RETURNING", i, at, d)
        /\ sy[i].flow = "INBOUND" /\ os[o].plane = sy[i].plane
    BY <1>1, <2>1, <2>2, <2>4 DEF PortalIDs
  <2> HIDE DEF i, at, d
  <2>7. rs[o] \in Observer /\ ValidObserver(rs[o], sy, now) /\ rs[o].portal = i
    BY <2>1, <2>3, <2>6, StartTransitGood
  <2> QED BY <2>7 DEF i
<1>9. rs \in [Observers -> Observer] /\ \A o \in Observers : ValidObserver(rs[o], sy, now)
  <2>1. \A o \in Observers : rs[o] \in Observer
    BY <1>6, <1>8
  <2>2. rs = [o \in Observers |-> rs[o]]
    BY DEF Recalled
  <2> QED BY <1>6, <1>7, <1>8, <2>1, <2>2
<1>10. TravelsWell(rs, sy)
  <2> SUFFICES ASSUME NEW o \in Observers, InTransit(rs[o])
               PROVE  /\ IsOpen(sy[rs[o].portal])
                      /\ sy[rs[o].portal].kind = "EXTRACTION" =>
                            sy[rs[o].portal].syncedAt # Nil
                      /\ \A q \in Observers :
                           InTransit(rs[q]) /\ rs[q].portal = rs[o].portal => q = o
    BY DEF TravelsWell
  <2>1. TravelsWell(os, ps)
    BY DEF GoodObservers
  <2>2. \A q \in Observers : ~Taken(q) /\ InTransit(rs[q]) =>
            rs[q] = os[q] /\ rs[q].portal \notin due /\ rs[q].portal \in PortalIDs
    <3> SUFFICES ASSUME NEW q \in Observers, ~Taken(q), InTransit(rs[q])
                 PROVE  rs[q] = os[q] /\ rs[q].portal \notin due /\ rs[q].portal \in PortalIDs
      OBVIOUS
    <3>1. rs[q] = os[q] BY <1>6
    <3>2. os[q].portal \in PortalIDs
      BY <3>1 DEF GoodObservers, ValidObserver, InTransit
    <3>3. os[q].portal \notin due
      BY <3>1 DEF TransitThrough
    <3> QED BY <3>1, <3>2, <3>3
  <2>3. CASE Taken(o)
    <3>1. By(o) \in due /\ rs[o].portal = By(o) /\ picks[By(o)] = o
          /\ By(o) \in DOMAIN durations
      BY <1>5, <1>8, <2>3
    <3>2. ASSUME NEW q \in Observers, InTransit(rs[q]), rs[q].portal = rs[o].portal
          PROVE  q = o
      <4>1. Taken(q) BY <2>2, <3>1, <3>2
      <4>2. rs[q].portal = By(q) /\ picks[By(q)] = q
        BY <1>5, <1>8, <4>1
      <4> QED BY <3>1, <3>2, <4>2
    <3> QED BY <1>1, <3>1, <3>2
  <2>4. CASE ~Taken(o)
    <3>1. rs[o] = os[o] /\ rs[o].portal \notin due /\ rs[o].portal \in PortalIDs
      BY <2>2, <2>4
    <3>2. sy[rs[o].portal] = ps[rs[o].portal]
      BY <1>1, <3>1
    <3>3. ASSUME NEW q \in Observers, InTransit(rs[q]), rs[q].portal = rs[o].portal
          PROVE  q = o
      <4>1. ~Taken(q) BY <1>5, <1>8, <3>1, <3>3
      <4>2. rs[q] = os[q] BY <1>6, <4>1
      <4> QED BY <2>1, <3>1, <3>3, <4>2 DEF TravelsWell
    <3> QED BY <2>1, <3>1, <3>2, <3>3 DEF TravelsWell
  <2> QED BY <2>3, <2>4
<1> QED BY <1>9, <1>10 DEF GoodObservers

(* FirstFreeSlot returns a free slot when there is one.                    *)
LEMMA FirstFreeSlotFree ==
    ASSUME NEW ps, ~AtCapacity(ps)
    PROVE  FirstFreeSlot(ps) \in FreeSlots(ps) /\ FirstFreeSlot(ps) \in Slots
<1>1. FreeSlots(ps) \in SUBSET Nat /\ FreeSlots(ps) # {} /\ FreeSlots(ps) \subseteq Slots
  BY ConfigTypes DEF AtCapacity, FreeSlots, Slots
<1>2. \E s \in FreeSlots(ps) : \A t \in FreeSlots(ps) : s <= t
  <2> DEFINE F == FreeSlots(ps)
  <2> HIDE DEF F
  <2>1. F \in SUBSET Nat /\ F # {} BY <1>1 DEF F
  <2>2. Min(F) \in F /\ \A t \in F : Min(F) <= t BY <2>1, MinNat
  <2> QED BY <2>2 DEF F
<1> QED BY <1>1, <1>2 DEF FirstFreeSlot

(* Adding a good portal in a free slot keeps everything good.              *)
LEMMA AddedGood ==
    ASSUME NEW n \in Nat \ {0},
           NEW ps \in [1..(n - 1) -> Portal], NEW now \in Nat, GoodPortals(ps, now),
           NEW os \in [Observers -> Observer], GoodObservers(os, ps, now),
           NEW p \in Portal, GoodPortal(p, now), p.slot \in FreeSlots(ps),
           NEW qs, qs = [i \in 1..n |-> IF i = n THEN p ELSE ps[i]]
    PROVE  /\ qs \in [1..n -> Portal]
           /\ GoodPortals(qs, now)
           /\ GoodObservers(os, qs, now)
<1> DEFINE IDs == 1..(n - 1)
<1>1. /\ n \notin IDs
      /\ 1..n = IDs \cup {n}
  OBVIOUS
<1> HIDE DEF IDs
<1>2. qs[n] = p /\ \A i \in IDs : qs[i] = ps[i]
  BY <1>1
<1>3. qs \in [1..n -> Portal] /\ ps \in [IDs -> Portal]
  BY <1>1 DEF IDs
<1>4. \A i \in DOMAIN qs : GoodPortal(qs[i], now)
  BY <1>1, <1>2, <1>3 DEF GoodPortals
<1>5. DistinctSlots(qs)
  <2> SUFFICES ASSUME NEW i \in OpenIDs(qs), NEW j \in OpenIDs(qs),
                      qs[i].slot = qs[j].slot
               PROVE  i = j
    BY DEF DistinctSlots
  <2>1. /\ i \in IDs \/ i = n
        /\ j \in IDs \/ j = n
    BY <1>1, <1>3 DEF OpenIDs
  <2>2. \A k \in IDs : k \in OpenIDs(qs) => k \in OpenIDs(ps)
    BY <1>2, <1>3 DEF OpenIDs
  <2>3. \A k \in OpenIDs(ps) : ps[k].slot # p.slot
    BY DEF FreeSlots
  <2>4. DistinctSlots(ps)
    BY DEF GoodPortals
  <2> QED BY <1>1, <1>2, <2>1, <2>2, <2>3, <2>4 DEF DistinctSlots
<1>6. \A o \in Observers : os[o].portal # Nil => os[o].portal \in IDs
  BY <1>3 DEF GoodObservers, ValidObserver
<1>7. ASSUME NEW o \in Observers
      PROVE  ValidObserver(os[o], qs, now)
  <2>1. ValidObserver(os[o], ps, now) /\ DOMAIN ps = IDs
        /\ DOMAIN qs = 1..n
    BY <1>3 DEF GoodObservers
  <2>2. os[o].portal # Nil => /\ os[o].portal \in DOMAIN qs
                              /\ qs[os[o].portal] = ps[os[o].portal]
    BY <1>1, <1>2, <1>6, <2>1
  <2> QED BY <2>1, <2>2 DEF ValidObserver
<1>8. TravelsWell(os, qs)
  <2>1. \A o \in Observers : InTransit(os[o]) => qs[os[o].portal] = ps[os[o].portal]
    BY <1>2, <1>6 DEF InTransit, GoodObservers, ValidObserver
  <2> QED BY <2>1 DEF GoodObservers, TravelsWell
<1> QED BY <1>3, <1>4, <1>5, <1>7, <1>8 DEF GoodPortals, GoodObservers

(* Opening a good portal in a free slot keeps everything good.             *)
LEMMA OpenedGood ==
    ASSUME nextPortalID \in Nat \ {0},
           NEW ps \in [PortalIDs -> Portal], NEW now \in Nat, GoodPortals(ps, now),
           NEW os \in [Observers -> Observer], GoodObservers(os, ps, now),
           NEW p \in Portal, GoodPortal(p, now), p.slot \in FreeSlots(ps),
           NEW qs, qs = Opened(ps, p)
    PROVE  /\ qs \in [1..nextPortalID -> Portal]
           /\ GoodPortals(qs, now)
           /\ GoodObservers(os, qs, now)
BY AddedGood DEF PortalIDs, Opened

(* The fields of a new portal.                                             *)
LEMMA NewPortalFields ==
    ASSUME NEW kind, NEW plane, NEW slot, NEW now, NEW ttl, NEW energy, NEW decay,
           NEW n, n = NewPortal(kind, plane, slot, now, ttl, energy, decay)
    PROVE  /\ n.slot = slot /\ n.kind = kind /\ n.plane = plane
           /\ n.energyBase = energy /\ n.energyBaseAt = now /\ n.decay = decay
           /\ n.stability = "STABLE" /\ n.collapseAt = Nil /\ n.openedAt = now
           /\ n.scheduledCloseAt = now + ttl /\ n.creatures = 0
           /\ n.flow = "NONE" /\ n.status = "OPEN" /\ n.reason = "NONE"
           /\ n.closedAt = Nil /\ n.syncedAt = Nil /\ n.updatedAt = now
BY DEF NewPortal

(* A portal whose energy baseline is now does not end before now.          *)
LEMMA FreshNotPast ==
    ASSUME NEW p \in Portal, NEW now \in Nat, ValidPortal(p, now),
           p.energyBaseAt = now, p.scheduledCloseAt >= now,
           p.stability = "UNSTABLE" => p.collapseAt >= now
    PROVE  NotPast(p, now)
<1>1. p.energyBase \div p.decay \in Nat
  BY DivNat DEF Portal
<1>2. EnergyDepletionAt(p) \in Nat /\ EnergyDepletionAt(p) >= now
  BY <1>1 DEF EnergyDepletionAt
<1>3. Termination(p).at \in {p.scheduledCloseAt, EnergyDepletionAt(p)}
      \/ (p.stability = "UNSTABLE" /\ Termination(p).at = p.collapseAt)
  BY DEF Termination
<1>4. p.scheduledCloseAt \in Nat
  BY DEF Portal, Time
<1>5. p.stability = "UNSTABLE" => p.collapseAt \in Nat
  BY ConfigTypes DEF ValidPortal, Portal, OptTime, Time, Nil
<1> QED BY <1>2, <1>3, <1>4, <1>5 DEF NotPast

(* NewExtractionPortal draws a good portal.                                *)
LEMMA NewExtractionGood ==
    ASSUME NEW plane \in Planes, NEW slot \in Slots, NEW now \in Nat,
           NEW ttl \in ExtractionTTLMin..ExtractionTTLMax,
           NEW energy \in ExtractionEnergyMin..ExtractionEnergyMax,
           NEW decay \in PortalDecayMin..PortalDecayMax,
           NEW p, p = NewExtractionPortal(plane, slot, now, ttl, energy, decay)
    PROVE  p \in Portal /\ GoodPortal(p, now) /\ p.slot = slot
<1> DEFINE n == NewPortal("EXTRACTION", plane, slot, now, ttl, energy, decay)
<1>0. /\ ttl \in Nat /\ ttl > 0 /\ energy \in Nat /\ decay \in Nat \ {0}
      /\ energy <= MaxPortalEnergy
  BY ConfigTypes, ConfigValid, MaxPortalEnergyBounds DEF validSimulationConfig
<1>1. n \in Portal
  BY <1>0 DEF NewPortal, Portal, Time, OptTime
<1>2. p = [n EXCEPT !.flow = "INBOUND"]
  BY DEF NewExtractionPortal
<1>3. /\ n.slot = slot /\ n.kind = "EXTRACTION" /\ n.plane = plane
      /\ n.energyBase = energy /\ n.energyBaseAt = now /\ n.decay = decay
      /\ n.stability = "STABLE" /\ n.collapseAt = Nil /\ n.openedAt = now
      /\ n.scheduledCloseAt = now + ttl /\ n.creatures = 0
      /\ n.flow = "NONE" /\ n.status = "OPEN" /\ n.reason = "NONE"
      /\ n.closedAt = Nil /\ n.syncedAt = Nil /\ n.updatedAt = now
  BY NewPortalFields
<1> HIDE DEF n
<1>4. p \in Portal
  BY <1>1, <1>2 DEF Portal
<1>5. /\ p.slot = slot /\ p.kind = "EXTRACTION" /\ p.plane = plane
      /\ p.energyBase = energy /\ p.energyBaseAt = now /\ p.decay = decay
      /\ p.stability = "STABLE" /\ p.collapseAt = Nil /\ p.openedAt = now
      /\ p.scheduledCloseAt = now + ttl /\ p.creatures = 0
      /\ p.flow = "INBOUND" /\ p.status = "OPEN" /\ p.reason = "NONE"
      /\ p.closedAt = Nil /\ p.syncedAt = Nil /\ p.updatedAt = now
  BY <1>1, <1>2, <1>3 DEF Portal
<1>6. ValidPortal(p, now)
  BY <1>0, <1>5, ConfigTypes DEF ValidPortal, IsOpen, Nil
<1>7. ExtractionFresh(p)
  BY <1>0, <1>5 DEF ExtractionFresh
<1>8. NotPast(p, now)
  BY <1>0, <1>4, <1>5, <1>6, FreshNotPast
<1> QED BY <1>4, <1>5, <1>6, <1>7, <1>8 DEF GoodPortal

(* NewNaturalPortal draws a good portal.                                   *)
LEMMA NewNaturalGood ==
    ASSUME NEW plane \in Planes, NEW slot \in Slots, NEW now \in Nat,
           NEW ttl \in NaturalTTLMin..NaturalTTLMax,
           NEW energy \in PortalEnergyMin..PortalEnergyMax,
           NEW decay \in PortalDecayMin..PortalDecayMax,
           NEW hidden \in HiddenCollapses(now, ttl),
           NEW creatures \in 0..MaxCreaturesForTTL(ttl),
           NEW p, p = NewNaturalPortal(plane, slot, now, ttl, energy, decay,
                                       hidden, creatures)
    PROVE  p \in Portal /\ GoodPortal(p, now) /\ p.slot = slot
<1> DEFINE n == NewPortal("NATURAL", plane, slot, now, ttl, energy, decay)
           st == IF hidden = Nil THEN "STABLE" ELSE "UNSTABLE"
<1>0. /\ ttl \in Nat /\ ttl > 0 /\ energy \in Nat /\ decay \in Nat \ {0}
      /\ energy <= MaxPortalEnergy
  BY ConfigTypes, ConfigValid, MaxPortalEnergyBounds DEF validSimulationConfig
<1>1. n \in Portal
  BY <1>0 DEF NewPortal, Portal, Time, OptTime
<1>2. p = [n EXCEPT !.stability = st, !.collapseAt = hidden, !.creatures = creatures]
  BY DEF NewNaturalPortal
<1>3. /\ n.slot = slot /\ n.kind = "NATURAL" /\ n.plane = plane
      /\ n.energyBase = energy /\ n.energyBaseAt = now /\ n.decay = decay
      /\ n.stability = "STABLE" /\ n.collapseAt = Nil /\ n.openedAt = now
      /\ n.scheduledCloseAt = now + ttl /\ n.creatures = 0
      /\ n.flow = "NONE" /\ n.status = "OPEN" /\ n.reason = "NONE"
      /\ n.closedAt = Nil /\ n.syncedAt = Nil /\ n.updatedAt = now
  BY NewPortalFields
<1>4. hidden = Nil \/ hidden \in now + InstabilityMinLifetime
                                   .. now + ttl - InstabilityCloseMargin
  BY DEF HiddenCollapses
<1>5. hidden \in OptTime
  BY <1>0, <1>4, ConfigTypes DEF OptTime, Time
<1>6. creatures \in Nat /\ creatures <= CreatureMax
  <2>1. (ttl - CreatureClearanceMargin) \div CreatureTransit \in Int
    BY <1>0, ConfigTypes, ConfigValid DEF validSimulationConfig
  <2> QED BY <2>1, ConfigTypes DEF MaxCreaturesForTTL, Least, Floor0
<1> HIDE DEF n
<1>7. p \in Portal
  <2>1. st \in {"STABLE", "UNSTABLE"}
    OBVIOUS
  <2> HIDE DEF st
  <2>2. [n EXCEPT !.stability = st, !.collapseAt = hidden, !.creatures = creatures] \in Portal
    BY <1>1, <1>5, <1>6, <2>1 DEF Portal
  <2> QED BY <1>2, <2>2
<1>8. /\ p.slot = slot /\ p.kind = "NATURAL" /\ p.plane = plane
      /\ p.energyBase = energy /\ p.energyBaseAt = now /\ p.decay = decay
      /\ p.stability = st /\ p.collapseAt = hidden /\ p.openedAt = now
      /\ p.scheduledCloseAt = now + ttl /\ p.creatures = creatures
      /\ p.flow = "NONE" /\ p.status = "OPEN" /\ p.reason = "NONE"
      /\ p.closedAt = Nil /\ p.syncedAt = Nil /\ p.updatedAt = now
  BY <1>1, <1>2, <1>3 DEF Portal
<1>9. ValidPortal(p, now)
  BY <1>0, <1>4, <1>6, <1>8, ConfigTypes DEF ValidPortal, IsOpen, Nil
<1>10. ExtractionFresh(p)
  BY <1>8 DEF ExtractionFresh
<1>11. p.stability = "UNSTABLE" => p.collapseAt >= now
  BY <1>0, <1>4, <1>8, ConfigTypes
<1>12. NotPast(p, now)
  BY <1>0, <1>7, <1>8, <1>9, <1>11, FreshNotPast
<1> QED BY <1>7, <1>8, <1>9, <1>10, <1>12 DEF GoodPortal

SpawnState == [paused: BOOLEAN, scheduledAt: OptTime, dueAt: OptTime]

(* A newly drawn spawn delay gives a valid schedule.                       *)
LEMMA SpawnSchedulesGood ==
    ASSUME NEW now \in Nat, NEW s \in SpawnSchedules(now)
    PROVE  /\ s \in SpawnState /\ ~s.paused
           /\ s.scheduledAt = now /\ s.scheduledAt <= s.dueAt
<1>1. PICK delay \in SpawnDelayMin..SpawnDelayMax :
         s = [paused |-> FALSE, scheduledAt |-> now, dueAt |-> now + delay]
  BY DEF SpawnSchedules
<1>2. delay \in Nat /\ now + delay \in Nat
  BY ConfigTypes
<1> QED BY <1>1, <1>2 DEF SpawnState, OptTime, Time

(* The natural spawn stage (ResolveNaturalSpawn).                          *)
LEMMA SpawnStage ==
    ASSUME nextPortalID \in Nat \ {0}, spawn \in SpawnState, ValidSpawn(tickAt),
           tickAt \in Nat,
           NEW ps \in [PortalIDs -> Portal], NEW now \in Nat, tickAt <= now,
           GoodPortals(ps, now),
           NEW os \in [Observers -> Observer], GoodObservers(os, ps, now),
           ResolveNaturalSpawn(ps, now)
    PROVE  /\ nextPortalID' \in Nat \ {0}
           /\ portals' \in [PortalIDs' -> Portal]
           /\ GoodPortals(portals', now)
           /\ GoodObservers(os, portals', now)
           /\ spawn' \in SpawnState
           /\ ValidSpawn(now)'
<1>1. spawn' = SpawnPaused \/ spawn' \in SpawnSchedules(now) \/ spawn' = spawn
  BY Zenon DEF ResolveNaturalSpawn
<1>2. spawn' \in SpawnState /\ ValidSpawn(now)'
  <2>1. CASE spawn' = SpawnPaused
    BY <2>1 DEF SpawnPaused, SpawnState, ValidSpawn, OptTime, Time
  <2>2. CASE spawn' \in SpawnSchedules(now)
    <3>1. /\ spawn' \in SpawnState /\ ~spawn'.paused
          /\ spawn'.scheduledAt = now /\ spawn'.scheduledAt <= spawn'.dueAt
      BY <2>2, SpawnSchedulesGood
    <3> QED BY <3>1 DEF ValidSpawn, Nil
  <2>3. CASE spawn' = spawn
    BY <2>3 DEF ValidSpawn, SpawnState, OptTime, Time, Nil
  <2> QED BY <1>1, <2>1, <2>2, <2>3
<1>3. SpawnNothing(ps) \/ (~AtCapacity(ps) /\ SpawnPortal(ps, now))
  BY Zenon DEF ResolveNaturalSpawn
<1>4. CASE SpawnNothing(ps)
  <2>1. portals' = ps /\ nextPortalID' = nextPortalID /\ PortalIDs' = PortalIDs
    BY <1>4 DEF SpawnNothing, PortalIDs
  <2> QED BY <1>2, <2>1
<1>5. CASE ~AtCapacity(ps) /\ SpawnPortal(ps, now)
  <2>1. PICK pl \in Planes, ttl \in NaturalTTLMin..NaturalTTLMax,
             energy \in PortalEnergyMin..PortalEnergyMax,
             decay \in PortalDecayMin..PortalDecayMax :
          \E hidden \in HiddenCollapses(now, ttl),
             creatures \in 0..MaxCreaturesForTTL(ttl) :
            portals' = Opened(ps, NewNaturalPortal(pl, FirstFreeSlot(ps), now, ttl,
                                                   energy, decay, hidden, creatures))
    BY <1>5 DEF SpawnPortal
  <2>2. PICK hidden \in HiddenCollapses(now, ttl),
             creatures \in 0..MaxCreaturesForTTL(ttl) :
            portals' = Opened(ps, NewNaturalPortal(pl, FirstFreeSlot(ps), now, ttl,
                                                   energy, decay, hidden, creatures))
    BY <2>1
  <2> DEFINE slot == FirstFreeSlot(ps)
             p == NewNaturalPortal(pl, slot, now, ttl, energy, decay, hidden, creatures)
  <2>3. slot \in FreeSlots(ps) /\ slot \in Slots
    BY <1>5, FirstFreeSlotFree
  <2>4. portals' = Opened(ps, p)
    BY <2>2
  <2> HIDE DEF slot
  <2>5. p \in Portal /\ GoodPortal(p, now) /\ p.slot = slot
    BY <2>3, NewNaturalGood
  <2> HIDE DEF p
  <2>6. nextPortalID' = nextPortalID + 1 /\ PortalIDs' = 1..nextPortalID
    BY <1>5 DEF SpawnPortal, PortalIDs
  <2>7. /\ portals' \in [1..nextPortalID -> Portal]
        /\ GoodPortals(portals', now) /\ GoodObservers(os, portals', now)
    BY <2>3, <2>4, <2>5, OpenedGood
  <2> QED BY <1>2, <2>6, <2>7
<1> QED BY <1>3, <1>4, <1>5

(* No collapse that a tick resolves predates the previous tick.            *)
LEMMA CollapseTimesGood ==
    ASSUME IInv, NEW now \in Nat, tickAt <= now
    PROVE  CollapseTimes(now) \in SUBSET (tickAt..now)
<1> SUFFICES ASSUME NEW i \in PortalIDs, Overdue(portals[i], now)
             PROVE  Termination(portals[i]).at \in tickAt..now
  BY DEF CollapseTimes
<1>1. portals[i] \in Portal /\ GoodPortal(portals[i], tickAt) /\ tickAt \in Nat
  BY DEF IInv, GoodPortals, TypeOK, Time
<1>2. Termination(portals[i]).at \in Nat
  BY <1>1, TerminationType DEF GoodPortal
<1> QED BY <1>1, <1>2 DEF GoodPortal, NotPast, Overdue

(* Leyline Override activation leaves a proper laboratory baseline.        *)
LEMMA LabStage ==
    ASSUME IInv, NEW now \in Nat, tickAt <= now,
           lab' = ActivateLeylineOverride(lab, CollapseTimes(now))
    PROVE  lab' \in Lab /\ lab'.energyBaseAt <= now
<1> DEFINE times == CollapseTimes(now)
<1>1. times \in SUBSET (tickAt..now) /\ tickAt \in Nat
  BY CollapseTimesGood DEF IInv, TypeOK, Time
<1>2. lab \in Lab /\ lab.energyBaseAt <= tickAt
  BY DEF IInv, TypeOK, GoodRest
<1> HIDE DEF times
<1>3. CASE times = {}
  <2>1. lab' = lab BY <1>3 DEF ActivateLeylineOverride, times
  <2> QED BY <1>1, <1>2, <2>1 DEF Lab, Time
<1>4. CASE times # {}
  <2>1. times \in SUBSET Nat /\ \A x \in times : x <= now
    BY <1>1
  <2>2. Max(times) \in times
    BY <1>4, <2>1, MaxNat
  <2>3. lab' = [energyBase |-> 0, energyBaseAt |-> Max(times),
                overrideUntil |-> Max(times) + EmergencyDuration]
    BY <1>4 DEF ActivateLeylineOverride, times
  <2>4. Max(times) \in Nat /\ Max(times) <= now
    BY <2>1, <2>2
  <2> QED BY <2>3, <2>4, ConfigTypes DEF Lab, OptTime, Time
<1> QED BY <1>3, <1>4

(* Exploration dates are arrival times that have passed.                   *)
LEMMA ExploredStage ==
    ASSUME IInv, NEW now \in Nat, tickAt <= now,
           NEW ps, ps = ResolvedPortals(now),
           NEW os, os = ResolvedObservers(ps, now)
    PROVE  /\ ExploredPlanes(os) \in [Planes -> OptTime]
           /\ \A pl \in Planes : ExploredPlanes(os)[pl] <= now
<1>1. ASSUME NEW pl \in Planes
      PROVE  ReturnTimes(os, pl) \in SUBSET (0..now)
  <2> SUFFICES ASSUME NEW o \in Observers, observers[o].status = "RETURNING",
                      os[o].status = "AVAILABLE"
               PROVE  observers[o].endsAt \in 0..now
    BY DEF ReturnTimes
  <2>1. /\ observers[o] \in Observer /\ ValidObserver(observers[o], portals, tickAt)
    BY DEF IInv, TypeOK, GoodObservers
  <2>2. observers[o].endsAt \in Nat
    BY <2>1 DEF ValidObserver, ValidPhase, Observer, OptTime, Time, Nil
  <2>3. os[o] = ResolveReturning(observers[o], ps[observers[o].portal], now)
    BY DEF ResolvedObservers, ResolveObserverLifecycle
  <2>4. observers[o].endsAt <= now
    BY <2>3 DEF ResolveReturning, AtHome
  <2> QED BY <2>2, <2>4
<1>2. ASSUME NEW pl \in Planes
      PROVE  /\ ExploredPlanes(os)[pl] \in OptTime
             /\ ExploredPlanes(os)[pl] <= now
  <2> DEFINE R == ReturnTimes(os, pl)
  <2>1. R \in SUBSET (0..now) BY <1>1
  <2>2. ExploredPlanes(os)[pl] = IF exploredAt[pl] = Nil /\ R # {} THEN Min(R)
                                 ELSE exploredAt[pl]
    BY DEF ExploredPlanes
  <2> HIDE DEF R
  <2>3. R # {} => Min(R) \in R
    <3>1. R \in SUBSET Nat BY <2>1
    <3> QED BY <3>1, MinNat
  <2>4. exploredAt[pl] \in OptTime /\ exploredAt[pl] <= tickAt /\ tickAt \in Nat
    BY DEF IInv, TypeOK, GoodRest, Time
  <2>5. ASSUME R # {} PROVE Min(R) \in Nat /\ Min(R) <= now
    <3>1. Min(R) \in 0..now BY <2>1, <2>3, <2>5
    <3> QED BY <3>1
  <2>6. exploredAt[pl] <= now
    BY <2>4 DEF OptTime, Time, Nil
  <2>7. CASE exploredAt[pl] = Nil /\ R # {}
    BY <2>2, <2>5, <2>7 DEF OptTime, Time
  <2>8. CASE ~(exploredAt[pl] = Nil /\ R # {})
    BY <2>2, <2>4, <2>6, <2>8
  <2> QED BY <2>7, <2>8
<1> QED BY <1>2 DEF ExploredPlanes

(* A tick keeps the invariant, stage by stage.                             *)
LEMMA TickPreserves ==
    ASSUME IInv, NEW now \in Nat, tickAt <= now, Tick(now)
    PROVE  IInv'
<1> DEFINE ps == ResolvedPortals(now)
           os == ResolvedObservers(ps, now)
           due == SyncDue(ps, now)
           sy == Synchronized(ps, due)
<1>1. /\ ps \in [PortalIDs -> Portal] /\ GoodPortals(ps, now)
      /\ os \in [Observers -> Observer] /\ GoodObservers(os, ps, now)
      /\ \A i \in due : TransitThrough(os, i) = {}
  BY PortalStage, ObserversStage, SyncAlwaysAdmitted
<1>2. /\ tickAt \in Nat /\ nextPortalID \in Nat \ {0} /\ spawn \in SpawnState
      /\ ValidSpawn(tickAt)
  BY DEF IInv, TypeOK, GoodRest, SpawnState, Time
<1>3. /\ lab' = ActivateLeylineOverride(lab, CollapseTimes(now))
      /\ exploredAt' = ExploredPlanes(os)
      /\ \E picks \in AutoRecalls(ps, os, due) :
           \E durations \in [{i \in due : picks[i] # Nil} -> TransitDurations] :
              observers' = Recalled(ps, os, picks, durations)
      /\ ResolveNaturalSpawn(sy, now)
      /\ tickAt' = now
  BY DEF Tick
<1>4. lab' \in Lab /\ lab'.energyBaseAt <= now
  BY <1>3, LabStage
<1>5. exploredAt' \in [Planes -> OptTime] /\ \A pl \in Planes : exploredAt'[pl] <= now
  BY <1>3, ExploredStage
<1> HIDE DEF ps, os
<1>6. sy \in [PortalIDs -> Portal] /\ GoodPortals(sy, now)
  BY <1>1, SynchronizedGood
<1>7. observers' \in [Observers -> Observer] /\ GoodObservers(observers', sy, now)
  <2>1. PICK picks \in AutoRecalls(ps, os, due) :
           \E durations \in [{i \in due : picks[i] # Nil} -> TransitDurations] :
              observers' = Recalled(ps, os, picks, durations)
    BY <1>3
  <2>2. PICK durations \in [{i \in due : picks[i] # Nil} -> TransitDurations] :
              observers' = Recalled(ps, os, picks, durations)
    BY <2>1
  <2>3. nextPortalID \in Nat BY <1>2
  <2> QED BY <1>1, <2>2, <2>3, RecalledGood
<1> HIDE DEF sy
<1>8. /\ nextPortalID' \in Nat \ {0}
      /\ portals' \in [PortalIDs' -> Portal]
      /\ GoodPortals(portals', now)
      /\ GoodObservers(observers', portals', now)
      /\ spawn' \in SpawnState
      /\ ValidSpawn(now)'
  BY <1>2, <1>3, <1>6, <1>7, SpawnStage
<1>9. TypeOK'
  BY <1>3, <1>4, <1>5, <1>7, <1>8 DEF TypeOK, SpawnState, Time
<1>10. GoodPortals(portals, tickAt)' /\ GoodObservers(observers, portals, tickAt)'
  BY <1>3, <1>8
<1>11. GoodRest'
  BY <1>3, <1>4, <1>5, <1>8 DEF GoodRest, ValidSpawn
<1> QED BY <1>9, <1>10, <1>11 DEF IInv

-----------------------------------------------------------------------------
(* Commands                                                                *)

(* Spending what CanAfford admits stays within 0..LabEnergyMax.            *)
LEMMA SpendEnergyGood ==
    ASSUME NEW l \in Lab, NEW now \in Nat, NEW cost \in Nat, CanAfford(l, cost, now),
           NEW m, m = SpendEnergy(l, cost, now)
    PROVE  m \in Lab /\ m.energyBaseAt <= now
<1>1. l.energyBase \in 0..LabEnergyMax /\ l.energyBaseAt \in Nat /\ l.energyBaseAt <= now
  BY DEF Lab, Time, CanAfford
<1>2. LabEnergy(l, now) \in 0..LabEnergyMax
  <2>1. Floor0(now - l.energyBaseAt) \in Nat
    BY <1>1 DEF Floor0
  <2>2. Floor0(now - l.energyBaseAt) * LabRegenPerSec \in Nat
    BY <2>1, ConfigTypes
  <2> QED BY <1>1, <2>2, ConfigTypes DEF LabEnergy, Least
<1>3. LabEnergy(l, now) - cost \in 0..LabEnergyMax
  BY <1>2, ConfigTypes DEF CanAfford
<1>4. CASE cost = 0
  BY <1>1, <1>4 DEF SpendEnergy
<1>5. CASE cost # 0
  <2>1. m = [l EXCEPT !.energyBase = LabEnergy(l, now) - cost, !.energyBaseAt = now]
    BY <1>5 DEF SpendEnergy
  <2> DEFINE x == LabEnergy(l, now) - cost
  <2>2. m = [l EXCEPT !.energyBase = x, !.energyBaseAt = now] /\ x \in 0..LabEnergyMax
    BY <1>3, <2>1
  <2> HIDE DEF x
  <2>3. m \in Lab BY <2>2 DEF Lab, Time
  <2>4. m.energyBaseAt = now BY <2>2 DEF Lab
  <2> QED BY <2>3, <2>4
<1> QED BY <1>4, <1>5

(* The cost under Leyline Override is still a natural number.              *)
LEMMA EffectiveCostNat ==
    ASSUME NEW l, NEW cost \in Nat, NEW now
    PROVE  EffectiveCost(l, cost, now) \in Nat
BY DEF EffectiveCost

(* A portal changed in place, in the same slot, keeps the portals good.    *)
LEMMA ReplacedGood ==
    ASSUME IInv, NEW i \in PortalIDs, NEW q \in Portal, GoodPortal(q, tickAt),
           q.slot = portals[i].slot,
           IsOpen(q) => IsOpen(portals[i]),
           NEW ps, ps = [portals EXCEPT ![i] = q]
    PROVE  ps \in [PortalIDs -> Portal] /\ GoodPortals(ps, tickAt)
<1>1. portals \in [PortalIDs -> Portal] /\ GoodPortals(portals, tickAt)
  BY DEF IInv, TypeOK
<1>2. /\ ps \in [PortalIDs -> Portal] /\ ps[i] = q
      /\ \A j \in PortalIDs : j # i => ps[j] = portals[j]
  BY <1>1
<1>3. \A j \in PortalIDs : GoodPortal(ps[j], tickAt) /\ ps[j].slot = portals[j].slot
  BY <1>1, <1>2 DEF GoodPortals
<1>4. \A j \in OpenIDs(ps) : j \in OpenIDs(portals)
  BY <1>1, <1>2 DEF OpenIDs
<1>5. DistinctSlots(ps)
  BY <1>1, <1>2, <1>3, <1>4 DEF DistinctSlots, GoodPortals, OpenIDs
<1> QED BY <1>2, <1>3, <1>5 DEF GoodPortals

(* Stabilize keeps the invariant.                                          *)
LEMMA StabilizePreserves ==
    ASSUME IInv, NEW i \in PortalIDs, Stabilize(i)
    PROVE  IInv'
<1> DEFINE p == portals[i]
           e == CurrentEnergy(p, tickAt) + StabilizeBoost
           q == [p EXCEPT !.stability = "STABLE", !.collapseAt = Nil, !.energyBase = e,
                          !.energyBaseAt = tickAt, !.updatedAt = tickAt]
           cost == EffectiveCost(lab, StabilizeCost, tickAt)
<1>1. /\ p \in Portal /\ GoodPortal(p, tickAt) /\ tickAt \in Nat /\ lab \in Lab
      /\ portals \in [PortalIDs -> Portal]
  BY DEF IInv, TypeOK, GoodPortals, Time
<1>2. /\ CanAfford(lab, cost, tickAt) /\ IsOpen(p) /\ p.stability = "UNSTABLE"
      /\ CurrentEnergy(p, tickAt) <= StabilizeMaxStartEnergy
      /\ lab' = SpendEnergy(lab, cost, tickAt)
      /\ UNCHANGED <<nextPortalID, observers, exploredAt, spawn, tickAt>>
  BY DEF Stabilize
<1>3. portals' = [portals EXCEPT ![i] = q]
  BY <1>1 DEF Stabilize
<1> HIDE DEF p
<1>4. CurrentEnergy(p, tickAt) \in Nat
  <2>1. /\ p.energyBase \in Nat /\ p.energyBaseAt \in Nat /\ p.decay \in Nat
    BY <1>1 DEF Portal, Time
  <2>2. Floor0(tickAt - p.energyBaseAt) \in Nat
    BY <1>1, <2>1 DEF Floor0
  <2>3. Floor0(tickAt - p.energyBaseAt) * p.decay \in Nat
    BY <2>1, <2>2
  <2> QED BY <2>1, <2>3 DEF CurrentEnergy, Floor0
<1>5. e \in Nat /\ e <= MaxPortalEnergy
  BY <1>2, <1>4, ConfigTypes, MaxPortalEnergyBounds
<1> HIDE DEF e, cost
<1>6. q \in Portal
  BY <1>1, <1>5 DEF Portal, OptTime, Time
<1>7. /\ q.kind = p.kind /\ q.plane = p.plane /\ q.slot = p.slot
      /\ q.flow = p.flow /\ q.syncedAt = p.syncedAt
      /\ q.openedAt = p.openedAt /\ q.scheduledCloseAt = p.scheduledCloseAt
      /\ q.energyBase = e /\ q.energyBaseAt = tickAt
      /\ q.decay = p.decay /\ q.stability = "STABLE"
      /\ q.collapseAt = Nil /\ q.creatures = p.creatures
      /\ q.status = p.status /\ q.reason = p.reason
      /\ q.closedAt = p.closedAt /\ q.updatedAt = tickAt
  BY <1>1 DEF Portal
<1> HIDE DEF q
<1>8. p.kind = "NATURAL" /\ IsOpen(q)
  BY <1>1, <1>2, <1>7 DEF Portal, GoodPortal, ValidPortal, IsOpen
<1>9. ValidPortal(q, tickAt)
  BY <1>1, <1>2, <1>5, <1>6, <1>7, <1>8 DEF GoodPortal, ValidPortal, Portal, Time, OptTime, Nil
<1>10. ExtractionFresh(q)
  BY <1>7, <1>8 DEF ExtractionFresh
<1>11. p.scheduledCloseAt >= tickAt
  <2>1. tickAt <= Termination(p).at /\ Termination(p).at \in Nat
    BY <1>1, <1>2, TerminationType DEF GoodPortal, NotPast
  <2>2. EnergyDepletionAt(p) \in Nat
    BY <1>1, DivNat DEF Portal, EnergyDepletionAt, Time
  <2>3. Termination(p).at <= p.scheduledCloseAt
    <3>1. p.scheduledCloseAt \in Nat BY <1>1 DEF Portal, Time
    <3>2. p.collapseAt \in Int BY <1>1 DEF Portal, OptTime, Time, Nil
    <3> QED BY <2>2, <3>1, <3>2 DEF Termination
  <2> QED BY <1>1, <2>1, <2>3 DEF Portal, Time
<1>12. NotPast(q, tickAt)
  BY <1>1, <1>6, <1>7, <1>9, <1>11, FreshNotPast
<1>13. GoodPortal(q, tickAt)
  BY <1>9, <1>10, <1>12 DEF GoodPortal
<1>14. portals' \in [PortalIDs -> Portal] /\ GoodPortals(portals', tickAt)
  BY <1>2, <1>3, <1>6, <1>7, <1>13, ReplacedGood DEF p
<1>15. /\ portals'[i] = q /\ \A j \in PortalIDs : j # i => portals'[j] = portals[j]
       /\ DOMAIN portals' = DOMAIN portals /\ DOMAIN portals = PortalIDs
  BY <1>1, <1>3
<1>16. GoodObservers(observers, portals', tickAt)
  <2>1. \A j \in PortalIDs : /\ portals'[j].flow = portals[j].flow
                             /\ portals'[j].plane = portals[j].plane
                             /\ portals'[j].kind = portals[j].kind
                             /\ portals'[j].syncedAt = portals[j].syncedAt
                             /\ portals'[j].status = portals[j].status
    BY <1>7, <1>15 DEF p
  <2>2. \A o \in Observers : ValidObserver(observers[o], portals, tickAt)
    BY DEF IInv, GoodObservers
  <2>3. ASSUME NEW o \in Observers PROVE ValidObserver(observers[o], portals', tickAt)
    BY <1>15, <2>1, <2>2 DEF ValidObserver
  <2>4. \A o \in Observers : InTransit(observers[o]) => observers[o].portal \in PortalIDs
    BY <1>15, <2>2 DEF ValidObserver, InTransit
  <2>5. TravelsWell(observers, portals')
    BY <2>1, <2>4 DEF TravelsWell, IInv, GoodObservers, IsOpen
  <2> QED BY <2>3, <2>5 DEF GoodObservers
<1>17. lab' \in Lab /\ lab'.energyBaseAt <= tickAt
  <2>1. cost \in Nat BY ConfigTypes, EffectiveCostNat DEF cost
  <2> QED BY <1>1, <1>2, <2>1, SpendEnergyGood
<1>18. PortalIDs' = PortalIDs
  BY <1>2 DEF PortalIDs
<1>19. TypeOK'
  BY <1>2, <1>14, <1>17, <1>18 DEF TypeOK, IInv
<1>20. GoodRest'
  BY <1>2, <1>17 DEF GoodRest, IInv, ValidSpawn
<1> QED BY <1>2, <1>14, <1>16, <1>19, <1>20 DEF IInv

(* A portal closed by hand is a good terminal portal.                      *)
LEMMA ClosedGood ==
    ASSUME NEW p \in Portal, NEW now \in Nat, GoodPortal(p, now), IsOpen(p),
           NEW q, q = Closed(p, now)
    PROVE  /\ q \in Portal /\ GoodPortal(q, now) /\ ~IsOpen(q)
           /\ q.kind = p.kind /\ q.plane = p.plane /\ q.slot = p.slot
           /\ q.flow = p.flow /\ q.syncedAt = p.syncedAt /\ q.closedAt = now
<1>1. q \in Portal
  BY DEF Closed, Portal, OptTime, Time
<1>2. /\ q.kind = p.kind /\ q.plane = p.plane /\ q.slot = p.slot
      /\ q.flow = p.flow /\ q.syncedAt = p.syncedAt
      /\ q.openedAt = p.openedAt /\ q.scheduledCloseAt = p.scheduledCloseAt
      /\ q.energyBase = p.energyBase /\ q.energyBaseAt = p.energyBaseAt
      /\ q.decay = p.decay /\ q.stability = p.stability
      /\ q.collapseAt = p.collapseAt /\ q.creatures = p.creatures
      /\ q.status = "CLOSED" /\ q.reason = "MANUAL_CLOSE"
      /\ q.closedAt = now /\ q.updatedAt = now
  BY DEF Closed, Portal
<1>3. GoodPortal(q, now) /\ ~IsOpen(q)
  <2>1. ~IsOpen(q)
    BY <1>2 DEF IsOpen
  <2>2. p.syncedAt <= now
    BY DEF GoodPortal, ValidPortal, Portal, Nil
  <2>3. ValidTerminalPortal(q, now)
    BY <1>1, <1>2, <2>2 DEF GoodPortal, ValidPortal, ValidTerminalPortal,
       Portal, Time, OptTime, Nil
  <2>4. ValidPortal(q, now)
    BY <1>1, <1>2, <2>1, <2>3 DEF GoodPortal, ValidPortal, Portal, Time,
       OptTime, Nil, SyncAt
  <2>5. ExtractionFresh(q) /\ NotPast(q, now)
    BY <1>2, <2>1 DEF GoodPortal, ExtractionFresh, NotPast
  <2> QED BY <2>1, <2>4, <2>5 DEF GoodPortal
<1> QED BY <1>1, <1>2, <1>3

(* A manual close keeps the invariant: the transit inside is LOST with the *)
(* portal.                                                                 *)
LEMMA ClosePreserves ==
    ASSUME IInv, NEW i \in PortalIDs, NEW confirm, ClosePortal(i, confirm)
    PROVE  IInv'
<1> DEFINE p == portals[i]
           q == Closed(p, tickAt)
           cost == EffectiveCost(lab, CloseCost, tickAt)
           closed == [portals EXCEPT ![i] = q]
<1>1. /\ p \in Portal /\ GoodPortal(p, tickAt) /\ tickAt \in Nat /\ lab \in Lab
      /\ portals \in [PortalIDs -> Portal] /\ observers \in [Observers -> Observer]
  BY DEF IInv, TypeOK, GoodPortals, Time
<1>3. /\ CanAfford(lab, cost, tickAt) /\ RosterCurrent(observers, tickAt) /\ IsOpen(p)
      /\ portals' = closed
      /\ observers' = [o \in Observers |->
                         IF o \in TransitThrough(observers, i)
                         THEN ResolveObserverLifecycle(observers[o], closed, tickAt)
                         ELSE observers[o]]
      /\ lab' = SpendEnergy(lab, cost, tickAt)
      /\ UNCHANGED <<nextPortalID, exploredAt, spawn, tickAt>>
  BY DEF ClosePortal
<1> HIDE DEF p, cost
<1>4. /\ q \in Portal /\ GoodPortal(q, tickAt) /\ ~IsOpen(q)
      /\ q.plane = p.plane /\ q.slot = p.slot /\ q.flow = p.flow
  BY <1>1, <1>3, ClosedGood
<1> HIDE DEF q
<1>7. closed \in [PortalIDs -> Portal] /\ GoodPortals(closed, tickAt)
  BY <1>4, ReplacedGood DEF p
<1>8. /\ closed[i] = q /\ \A j \in PortalIDs : j # i => closed[j] = portals[j]
  BY <1>1
<1> HIDE DEF closed
<1>9. \A j \in PortalIDs : /\ GoodPortal(closed[j], tickAt)
                           /\ closed[j].flow = portals[j].flow
                           /\ closed[j].plane = portals[j].plane
  BY <1>4, <1>7, <1>8 DEF p, GoodPortals
<1>10. ASSUME NEW o \in Observers
       PROVE  ValidObserver(observers[o], portals, tickAt) /\ observers[o] \in Observer
  BY <1>1 DEF IInv, GoodObservers
<1>11. ASSUME NEW o \in TransitThrough(observers, i)
       PROVE  /\ o \in Observers /\ observers'[o] \in Observer
              /\ ValidObserver(observers'[o], closed, tickAt)
              /\ ~InTransit(observers'[o])
  <2>1. o \in Observers /\ InTransit(observers[o]) /\ observers[o].portal = i
    BY DEF TransitThrough
  <2>2. observers'[o] = ResolveObserverLifecycle(observers[o], closed, tickAt)
    BY <1>3, <2>1
  <2>3. /\ observers'[o] \in Observer
        /\ ValidObserver(observers'[o], closed, tickAt)
        /\ InTransit(observers'[o]) => /\ observers'[o] = observers[o]
                                       /\ IsOpen(closed[observers'[o].portal])
    BY <1>1, <1>7, <1>9, <1>10, <2>1, <2>2, ObserverStage
  <2> QED BY <1>4, <1>8, <2>1, <2>3
<1>12. ASSUME NEW o \in Observers, o \notin TransitThrough(observers, i)
       PROVE  /\ observers'[o] = observers[o]
              /\ ValidObserver(observers[o], closed, tickAt)
  <2>1. DOMAIN closed = PortalIDs /\ DOMAIN portals = PortalIDs
    BY <1>1, <1>7
  <2>2. ValidObserver(observers[o], closed, tickAt)
    BY <1>9, <1>10, <2>1 DEF ValidObserver
  <2> QED BY <1>3, <1>12, <2>2
<1>13. observers' \in [Observers -> Observer]
  <2>1. \A o \in Observers : observers'[o] \in Observer
    BY <1>10, <1>11, <1>12
  <2>2. observers' = [o \in Observers |-> observers'[o]]
    BY <1>3
  <2> QED BY <2>1, <2>2
<1>14. TravelsWell(observers', closed)
  <2>1. \A o \in Observers : InTransit(observers'[o]) =>
           /\ observers'[o] = observers[o] /\ observers[o].portal # i
           /\ observers[o].portal \in PortalIDs
    BY <1>1, <1>10, <1>11, <1>12 DEF TransitThrough, ValidObserver, InTransit
  <2> QED BY <1>8, <2>1 DEF TravelsWell, IInv, GoodObservers
<1>15. GoodObservers(observers', portals', tickAt)
  BY <1>3, <1>11, <1>12, <1>14 DEF GoodObservers
<1>16. lab' \in Lab /\ lab'.energyBaseAt <= tickAt
  <2>1. cost \in Nat BY ConfigTypes, EffectiveCostNat DEF cost
  <2> QED BY <1>1, <1>3, <2>1, SpendEnergyGood
<1>17. PortalIDs' = PortalIDs
  BY <1>3 DEF PortalIDs
<1>18. TypeOK'
  BY <1>3, <1>7, <1>13, <1>16, <1>17 DEF TypeOK, IInv
<1>19. GoodRest'
  BY <1>3, <1>16 DEF GoodRest, IInv, ValidSpawn
<1> QED BY <1>3, <1>7, <1>15, <1>18, <1>19 DEF IInv

(* Fixing the direction of an empty portal disturbs nobody.                *)
LEMMA SetFlowGood ==
    ASSUME IInv, NEW i \in PortalIDs, NEW flow \in {"OUTBOUND", "INBOUND"},
           IsOpen(portals[i]), portals[i].flow \in {"NONE", flow},
           TransitThrough(observers, i) = {}, SetFlow(i, flow)
    PROVE  /\ portals' \in [PortalIDs -> Portal] /\ GoodPortals(portals', tickAt)
           /\ portals'[i].flow = flow
           /\ \A j \in PortalIDs : /\ j # i => portals'[j] = portals[j]
                                   /\ portals'[j].plane = portals[j].plane
                                   /\ portals'[j].kind = portals[j].kind
                                   /\ portals'[j].status = portals[j].status
                                   /\ portals'[j].syncedAt = portals[j].syncedAt
           /\ \A o \in Observers : ValidObserver(observers[o], portals', tickAt)
<1> DEFINE p == portals[i]
           q == [p EXCEPT !.flow = flow, !.updatedAt = tickAt]
<1>1. /\ p \in Portal /\ GoodPortal(p, tickAt) /\ tickAt \in Nat
      /\ portals \in [PortalIDs -> Portal] /\ GoodPortals(portals, tickAt)
      /\ \A o \in Observers : ValidObserver(observers[o], portals, tickAt)
  BY DEF IInv, TypeOK, GoodPortals, GoodObservers, Time
<1>2. CASE p.flow # "NONE"
  <2>1. portals' = portals BY <1>2 DEF SetFlow
  <2> QED BY <1>1, <1>2, <2>1
<1>3. CASE p.flow = "NONE"
  <2>1. portals' = [portals EXCEPT ![i] = q]
    BY <1>1, <1>3 DEF SetFlow
  <2>2. IsOpen(p) OBVIOUS
  <2> HIDE DEF p
  <2>3. q \in Portal
    BY <1>1 DEF Portal, OptTime, Time
  <2>4. /\ q.kind = p.kind /\ q.plane = p.plane /\ q.slot = p.slot
        /\ q.flow = flow /\ q.syncedAt = p.syncedAt
        /\ q.openedAt = p.openedAt /\ q.scheduledCloseAt = p.scheduledCloseAt
        /\ q.energyBase = p.energyBase /\ q.energyBaseAt = p.energyBaseAt
        /\ q.decay = p.decay /\ q.stability = p.stability
        /\ q.collapseAt = p.collapseAt /\ q.creatures = p.creatures
        /\ q.status = p.status /\ q.reason = p.reason
        /\ q.closedAt = p.closedAt /\ q.updatedAt = tickAt
    BY <1>1 DEF Portal
  <2> HIDE DEF q
  <2>5. IsOpen(q) /\ Termination(q) = Termination(p)
    BY <2>2, <2>4 DEF IsOpen, Termination, EnergyDepletionAt
  <2>6. p.kind = "NATURAL"
    BY <1>1, <1>3 DEF GoodPortal, ValidPortal, Portal
  <2>7. ValidPortal(q, tickAt)
    BY <1>1, <2>3, <2>4, <2>5, <2>6, <2>2 DEF GoodPortal, ValidPortal, Portal, Time,
       OptTime, Nil
  <2>8. ExtractionFresh(q) /\ NotPast(q, tickAt)
    BY <1>1, <2>2, <2>4, <2>5, <2>6 DEF GoodPortal, ExtractionFresh, NotPast
  <2>9. GoodPortal(q, tickAt)
    BY <2>7, <2>8 DEF GoodPortal
  <2>10. portals' \in [PortalIDs -> Portal] /\ GoodPortals(portals', tickAt)
    BY <2>1, <2>2, <2>3, <2>4, <2>9, ReplacedGood DEF p
  <2>11. portals'[i] = q /\ \A j \in PortalIDs : j # i => portals'[j] = portals[j]
    BY <1>1, <2>1
  <2>12. ASSUME NEW o \in Observers
         PROVE  ValidObserver(observers[o], portals', tickAt)
    <3>1. ValidObserver(observers[o], portals, tickAt)
          /\ DOMAIN portals = PortalIDs /\ DOMAIN portals' = PortalIDs
      BY <1>1, <2>10
    <3>2. observers[o].portal # Nil /\ InTransit(observers[o]) =>
             /\ observers[o].portal # i
             /\ portals'[observers[o].portal] = portals[observers[o].portal]
      BY <2>11, <3>1 DEF TransitThrough, ValidObserver
    <3> QED BY <3>1, <3>2 DEF ValidObserver, InTransit
  <2> QED BY <2>4, <2>10, <2>11, <2>12 DEF p
<1> QED BY <1>2, <1>3

(* One observer departing through an empty OPEN portal keeps the           *)
(* invariant.                                                              *)
LEMMA DepartureGood ==
    ASSUME IInv, NEW i \in PortalIDs, NEW status \in {"OUTBOUND", "RETURNING"},
           NEW o \in Observers, NEW d \in TransitDurations,
           observers' = [observers EXCEPT ![o] = StartTransit(@, status, i, tickAt, d)],
           status = "OUTBOUND" => /\ observers[o].status = "AVAILABLE"
                                  /\ portals'[i].flow = "OUTBOUND",
           status = "RETURNING" => /\ observers[o].status = "WAITING_RETURN"
                                   /\ portals'[i].flow = "INBOUND"
                                   /\ observers[o].plane = portals'[i].plane,
           IsOpen(portals[i]), TransitThrough(observers, i) = {},
           portals[i].kind = "EXTRACTION" => portals[i].syncedAt # Nil,
           portals' \in [PortalIDs -> Portal], GoodPortals(portals', tickAt),
           \A j \in PortalIDs : /\ j # i => portals'[j] = portals[j]
                                /\ portals'[j].kind = portals[j].kind
                                /\ portals'[j].status = portals[j].status
                                /\ portals'[j].syncedAt = portals[j].syncedAt,
           \A q \in Observers : ValidObserver(observers[q], portals', tickAt),
           UNCHANGED <<nextPortalID, exploredAt, lab, spawn, tickAt>>
    PROVE  IInv'
<1> DEFINE r == StartTransit(observers[o], status, i, tickAt, d)
<1>1. observers \in [Observers -> Observer] /\ tickAt \in Nat /\ i \in Nat
  BY DEF IInv, TypeOK, PortalIDs, Time
<1>2. /\ observers' = [observers EXCEPT ![o] = r]
      /\ observers'[o] = r /\ \A q \in Observers : q # o => observers'[q] = observers[q]
  BY <1>1
<1>3. /\ r \in Observer /\ ValidObserver(r, portals', tickAt)
      /\ InTransit(r) /\ r.portal = i
  <2>1. i \in DOMAIN portals' /\ tickAt <= tickAt
    BY <1>1
  <2>2. observers[o] \in Observer /\ ValidObserver(observers[o], portals', tickAt)
    BY <1>1
  <2> QED BY <1>1, <2>1, <2>2, StartTransitGood
<1> HIDE DEF r
<1>4. observers' \in [Observers -> Observer]
  BY <1>1, <1>2, <1>3
<1>5. \A q \in Observers : ValidObserver(observers'[q], portals', tickAt)
  BY <1>2, <1>3
<1>6. TravelsWell(observers', portals')
  <2>1. \A q \in Observers : q # o /\ InTransit(observers'[q]) =>
           /\ observers'[q] = observers[q] /\ observers[q].portal # i
           /\ observers[q].portal \in PortalIDs
    BY <1>2 DEF TransitThrough, InTransit, ValidObserver
  <2>2. IsOpen(portals'[i]) /\ (portals'[i].kind = "EXTRACTION" =>
                                  portals'[i].syncedAt # Nil)
    BY DEF IsOpen
  <2> QED BY <1>2, <1>3, <2>1, <2>2 DEF TravelsWell, IInv, GoodObservers
<1>7. GoodObservers(observers', portals', tickAt)
  BY <1>5, <1>6 DEF GoodObservers
<1>8. PortalIDs' = PortalIDs
  BY DEF PortalIDs
<1>9. TypeOK'
  BY <1>4, <1>8 DEF TypeOK, IInv
<1>10. GoodRest'
  BY DEF GoodRest, IInv, ValidSpawn
<1> QED BY <1>7, <1>9, <1>10 DEF IInv

(* SendObserver keeps the invariant.                                       *)
LEMMA SendPreserves ==
    ASSUME IInv, NEW i \in PortalIDs, NEW confirm, SendObserver(i, confirm)
    PROVE  IInv'
<1> DEFINE available == {o \in Observers : observers[o].status = "AVAILABLE"}
           o == Min(available)
<1>1. /\ CorridorFree(portals, observers, i, "INBOUND", tickAt)
      /\ available # {} /\ SetFlow(i, "OUTBOUND")
      /\ \E d \in TransitDurations :
           observers' = [observers EXCEPT ![o] = StartTransit(@, "OUTBOUND", i, tickAt, d)]
      /\ UNCHANGED <<nextPortalID, exploredAt, lab, spawn, tickAt>>
  BY DEF SendObserver
<1>2. o \in available
  <2>1. available \in SUBSET Nat BY ConfigTypes DEF Observers
  <2> HIDE DEF available
  <2> QED BY <1>1, <2>1, MinNat
<1> HIDE DEF o
<1>3. o \in Observers /\ observers[o].status = "AVAILABLE"
  BY <1>2
<1>4. portals[i] \in Portal /\ ValidPortal(portals[i], tickAt)
  BY DEF IInv, TypeOK, GoodPortals, GoodPortal
<1>5. /\ IsOpen(portals[i]) /\ portals[i].flow \in {"NONE", "OUTBOUND"}
      /\ TransitThrough(observers, i) = {} /\ portals[i].kind # "EXTRACTION"
  BY <1>1, <1>4 DEF CorridorFree, Portal, ValidPortal
<1>6. PICK d \in TransitDurations :
           observers' = [observers EXCEPT ![o] = StartTransit(@, "OUTBOUND", i, tickAt, d)]
  BY <1>1
<1>7. /\ portals' \in [PortalIDs -> Portal] /\ GoodPortals(portals', tickAt)
      /\ portals'[i].flow = "OUTBOUND"
      /\ \A j \in PortalIDs : /\ j # i => portals'[j] = portals[j]
                              /\ portals'[j].plane = portals[j].plane
                              /\ portals'[j].kind = portals[j].kind
                              /\ portals'[j].status = portals[j].status
                              /\ portals'[j].syncedAt = portals[j].syncedAt
      /\ \A q \in Observers : ValidObserver(observers[q], portals', tickAt)
  BY <1>1, <1>5, SetFlowGood
<1>8. UNCHANGED <<nextPortalID, exploredAt, lab, spawn, tickAt>>
  BY <1>1
<1> HIDE DEF available
<1> QED BY <1>3, <1>5, <1>6, <1>7, <1>8, DepartureGood

(* RecallObserver keeps the invariant.                                     *)
LEMMA RecallPreserves ==
    ASSUME IInv, NEW i \in PortalIDs, NEW confirm, RecallObserver(i, confirm)
    PROVE  IInv'
<1> DEFINE waiting == WaitingOn(observers, portals[i].plane)
<1>1. /\ CorridorFree(portals, observers, i, "OUTBOUND", tickAt)
      /\ portals[i].kind = "EXTRACTION" => portals[i].syncedAt # Nil
      /\ SetFlow(i, "INBOUND")
      /\ \E o \in LongestWaiting(observers, waiting), d \in TransitDurations :
           observers' = [observers EXCEPT ![o] = StartTransit(@, "RETURNING", i, tickAt, d)]
      /\ UNCHANGED <<nextPortalID, exploredAt, lab, spawn, tickAt>>
  BY DEF RecallObserver, RecallPossible
<1>2. PICK o \in LongestWaiting(observers, waiting), d \in TransitDurations :
           observers' = [observers EXCEPT ![o] = StartTransit(@, "RETURNING", i, tickAt, d)]
  BY <1>1
<1>3. /\ o \in Observers /\ observers[o].status = "WAITING_RETURN"
      /\ observers[o].plane = portals[i].plane
  BY DEF LongestWaiting, WaitingOn
<1>4. portals[i] \in Portal
  BY DEF IInv, TypeOK
<1>5. /\ IsOpen(portals[i]) /\ portals[i].flow \in {"NONE", "INBOUND"}
      /\ TransitThrough(observers, i) = {}
  BY <1>1, <1>4 DEF CorridorFree, Portal
<1>6. /\ portals' \in [PortalIDs -> Portal] /\ GoodPortals(portals', tickAt)
      /\ portals'[i].flow = "INBOUND"
      /\ \A j \in PortalIDs : /\ j # i => portals'[j] = portals[j]
                              /\ portals'[j].plane = portals[j].plane
                              /\ portals'[j].kind = portals[j].kind
                              /\ portals'[j].status = portals[j].status
                              /\ portals'[j].syncedAt = portals[j].syncedAt
      /\ \A q \in Observers : ValidObserver(observers[q], portals', tickAt)
  BY <1>1, <1>5, SetFlowGood
<1>7. observers[o].plane = portals'[i].plane
  BY <1>3, <1>6
<1>8. /\ portals[i].kind = "EXTRACTION" => portals[i].syncedAt # Nil
      /\ UNCHANGED <<nextPortalID, exploredAt, lab, spawn, tickAt>>
  BY <1>1
<1> HIDE DEF waiting
<1> QED BY <1>2, <1>3, <1>5, <1>6, <1>7, <1>8, DepartureGood

(* OpenExtractionPortal keeps the invariant.                               *)
LEMMA OpenExtractionPreserves ==
    ASSUME IInv, NEW plane \in Planes, OpenExtraction(plane)
    PROVE  IInv'
<1>1. /\ ~AtCapacity(portals) /\ CanAfford(lab, ExtractionCost, tickAt)
      /\ lab' = SpendEnergy(lab, ExtractionCost, tickAt)
      /\ nextPortalID' = nextPortalID + 1
      /\ UNCHANGED <<observers, exploredAt, spawn, tickAt>>
  BY DEF OpenExtraction
<1>2. PICK ttl \in ExtractionTTLMin..ExtractionTTLMax,
           energy \in ExtractionEnergyMin..ExtractionEnergyMax,
           decay \in PortalDecayMin..PortalDecayMax :
         portals' = Opened(portals, NewExtractionPortal(plane, FirstFreeSlot(portals),
                                                        tickAt, ttl, energy, decay))
  BY DEF OpenExtraction
<1> DEFINE slot == FirstFreeSlot(portals)
           p == NewExtractionPortal(plane, slot, tickAt, ttl, energy, decay)
<1>3. slot \in FreeSlots(portals) /\ slot \in Slots
  BY <1>1, FirstFreeSlotFree
<1>4. portals' = Opened(portals, p)
  BY <1>2
<1> HIDE DEF slot
<1>5. /\ tickAt \in Nat /\ nextPortalID \in Nat \ {0} /\ lab \in Lab
      /\ portals \in [PortalIDs -> Portal] /\ GoodPortals(portals, tickAt)
      /\ observers \in [Observers -> Observer]
      /\ GoodObservers(observers, portals, tickAt)
  BY DEF IInv, TypeOK, Time
<1>6. p \in Portal /\ GoodPortal(p, tickAt) /\ p.slot = slot
  BY <1>3, <1>5, NewExtractionGood
<1> HIDE DEF p
<1>7. PortalIDs' = 1..nextPortalID /\ nextPortalID' \in Nat \ {0}
  BY <1>1, <1>5 DEF PortalIDs
<1>8. /\ portals' \in [1..nextPortalID -> Portal]
      /\ GoodPortals(portals', tickAt) /\ GoodObservers(observers, portals', tickAt)
  BY <1>3, <1>4, <1>5, <1>6, OpenedGood
<1>9. lab' \in Lab /\ lab'.energyBaseAt <= tickAt
  BY <1>1, <1>5, ConfigTypes, SpendEnergyGood
<1>10. TypeOK'
  BY <1>1, <1>7, <1>8, <1>9 DEF TypeOK, IInv
<1>11. GoodRest'
  BY <1>1, <1>9 DEF GoodRest, IInv, ValidSpawn
<1> QED BY <1>1, <1>8, <1>10, <1>11 DEF IInv

-----------------------------------------------------------------------------
(* Theorems                                                                *)

(* A laboratory that goes live satisfies the invariant.                    *)
LEMMA InitIInv ==
    ASSUME Init
    PROVE  IInv
<1>1. PortalIDs = {}
  BY DEF Init, PortalIDs
<1>2. portals \in [PortalIDs -> Portal] /\ DOMAIN portals = {}
  <2>1. portals = << >> BY DEF Init
  <2> QED BY <1>1, <2>1
<1>3. GoodPortals(portals, tickAt)
  BY <1>2 DEF GoodPortals, DistinctSlots, OpenIDs
<1>4. ASSUME NEW o \in Observers
      PROVE  /\ observers[o] \in Observer /\ ValidObserver(observers[o], portals, tickAt)
             /\ ~InTransit(observers[o])
  <2>1. observers[o] = AtHome("AVAILABLE", 0) /\ tickAt = 0
    BY DEF Init
  <2> QED BY <2>1, AtHomeGood
<1>5. observers \in [Observers -> Observer]
  BY <1>4 DEF Init
<1>6. GoodObservers(observers, portals, tickAt)
  BY <1>4 DEF GoodObservers, TravelsWell
<1>7. spawn \in SpawnState /\ ~spawn.paused /\ spawn.scheduledAt = 0
      /\ spawn.scheduledAt <= spawn.dueAt
  BY SpawnSchedulesGood DEF Init
<1>8. lab \in Lab /\ lab.energyBaseAt = 0
  BY ConfigTypes DEF Init, Lab, OptTime, Time
<1>9. TypeOK
  BY <1>2, <1>5, <1>7, <1>8 DEF TypeOK, Init, SpawnState, OptTime, Time
<1>10. GoodRest
  BY <1>7, <1>8 DEF GoodRest, Init, ValidSpawn, Nil
<1> QED BY <1>3, <1>6, <1>9, <1>10 DEF IInv

(* IInv holds in every state that ticks and commands can reach.            *)
THEOREM Inductive == Spec => []IInv
<1>1. Init => IInv
  BY InitIInv
<1>2. IInv /\ [Next]_vars => IInv'
  <2> SUFFICES ASSUME IInv, [Next]_vars PROVE IInv'
    OBVIOUS
  <2>1. ASSUME NEW now \in (tickAt + 1)..MaxTime, Tick(now) PROVE IInv'
    <3>1. now \in Nat /\ tickAt <= now
      BY ConfigTypes DEF IInv, TypeOK, Time
    <3> QED BY <2>1, <3>1, TickPreserves
  <2>2. ASSUME NEW i \in PortalIDs, Stabilize(i) PROVE IInv'
    BY <2>2, StabilizePreserves
  <2>3. ASSUME NEW i \in PortalIDs, NEW confirm \in BOOLEAN, ClosePortal(i, confirm)
        PROVE  IInv'
    BY <2>3, ClosePreserves
  <2>4. ASSUME NEW i \in PortalIDs, NEW confirm \in BOOLEAN, SendObserver(i, confirm)
        PROVE  IInv'
    BY <2>4, SendPreserves
  <2>5. ASSUME NEW i \in PortalIDs, NEW confirm \in BOOLEAN, RecallObserver(i, confirm)
        PROVE  IInv'
    BY <2>5, RecallPreserves
  <2>6. ASSUME NEW plane \in Planes, OpenExtraction(plane) PROVE IInv'
    BY <2>6, OpenExtractionPreserves
  <2>7. ASSUME UNCHANGED vars PROVE IInv'
    BY <2>7 DEF vars, IInv, TypeOK, PortalIDs, GoodRest, ValidSpawn
  <2> QED BY <2>1, <2>2, <2>3, <2>4, <2>5, <2>6, <2>7 DEF Next, Command, TickAgain
<1> QED BY <1>1, <1>2, PTL DEF Spec

(* Every field keeps its type and the energy baseline stays within         *)
(* 0..LabEnergyMax.                                                        *)
THEOREM TypeCorrect == Spec => []TypeOK
<1>1. IInv => TypeOK
  BY DEF IInv
<1> QED BY <1>1, Inductive, PTL

(* ResolveTick never returns an error, however late it runs and whatever   *)
(* the operator did before: one failing tick would stop the server.        *)
THEOREM TicksNeverFail == Spec => []TickNeverFails
<1>1. IInv => TickNeverFails
  <2> SUFFICES ASSUME IInv, NEW now \in tickAt..MaxTime PROVE TickResolves(now)
    BY DEF TickNeverFails
  <2>1. now \in Nat /\ tickAt <= now
    BY ConfigTypes DEF IInv, TypeOK, Time
  <2> QED BY <2>1, IInvResolves
<1> QED BY <1>1, Inductive, PTL

(* An observer in transit is alone in a portal that is still OPEN.         *)
THEOREM TransitsIntact == Spec => []TransitIntegrity
<1>1. IInv => TransitIntegrity
  BY DEF IInv, GoodObservers, TravelsWell, TransitIntegrity, TransitThrough
<1> QED BY <1>1, Inductive, PTL

(* A tick changes no terminal portal, no direction and no LOST observer.   *)
LEMMA TickFreezes ==
    ASSUME IInv, NEW now \in Nat, tickAt <= now, Tick(now)
    PROVE  /\ \A i \in PortalIDs :
                /\ ~IsOpen(portals[i]) => portals'[i] = portals[i]
                /\ portals'[i].flow = portals[i].flow
           /\ \A o \in Observers :
                observers[o].status = "LOST" => observers'[o] = observers[o]
<1> DEFINE ps == ResolvedPortals(now)
           os == ResolvedObservers(ps, now)
           due == SyncDue(ps, now)
           sy == Synchronized(ps, due)
<1>1. /\ \E picks \in AutoRecalls(ps, os, due) :
           \E durations \in [{i \in due : picks[i] # Nil} -> TransitDurations] :
              observers' = Recalled(ps, os, picks, durations)
      /\ ResolveNaturalSpawn(sy, now)
  BY DEF Tick
<1>2. /\ ps \in [PortalIDs -> Portal] /\ GoodPortals(ps, now)
      /\ \A i \in PortalIDs : /\ ~IsOpen(portals[i]) => ps[i] = portals[i]
                              /\ ps[i].flow = portals[i].flow
  BY PortalStage
<1>3. \A o \in Observers : observers[o].status = "LOST" => os[o] = observers[o]
  BY DEF ResolvedObservers, ResolveObserverLifecycle
<1> HIDE DEF ps
<1>4. \A i \in PortalIDs : /\ ~IsOpen(ps[i]) => sy[i] = ps[i]
                           /\ sy[i].flow = ps[i].flow
  BY <1>2, SynchronizedGood DEF SyncDue
<1>5. \A i \in PortalIDs : portals'[i] = sy[i]
  <2>1. SpawnNothing(sy) \/ SpawnPortal(sy, now)
    BY <1>1, Zenon DEF ResolveNaturalSpawn
  <2>2. CASE SpawnNothing(sy)
    BY <2>2 DEF SpawnNothing
  <2> HIDE DEF sy
  <2>3. CASE SpawnPortal(sy, now)
    <3>1. \E p : portals' = Opened(sy, p)
      BY <2>3 DEF SpawnPortal
    <3>2. nextPortalID \in Nat
      BY DEF IInv, TypeOK
    <3> QED BY <3>1, <3>2 DEF Opened, PortalIDs
  <2> QED BY <2>1, <2>2, <2>3
<1>6. ASSUME NEW o \in Observers, observers[o].status = "LOST"
      PROVE  observers'[o] = observers[o]
  <2>1. PICK picks \in AutoRecalls(ps, os, due) :
           \E durations \in [{i \in due : picks[i] # Nil} -> TransitDurations] :
              observers' = Recalled(ps, os, picks, durations)
    BY <1>1
  <2>2. PICK durations \in [{i \in due : picks[i] # Nil} -> TransitDurations] :
              observers' = Recalled(ps, os, picks, durations)
    BY <2>1
  <2>3. os[o] = observers[o]
    BY <1>3, <1>6
  <2> HIDE DEF os, due
  <2>4. ASSUME NEW i \in DOMAIN durations
        PROVE  picks[i] # o
    <3>1. i \in due /\ picks[i] # Nil
      BY <2>2
    <3>2. picks[i] \in LeftFor(ps, os, due, picks, i)
      BY <3>1 DEF AutoRecalls, LongestWaiting
    <3>3. os[picks[i]].status = "WAITING_RETURN"
      BY <3>2 DEF LeftFor, WaitingOn
    <3> QED BY <1>6, <2>3, <3>3
  <2> QED BY <2>2, <2>3, <2>4 DEF Recalled
<1>7. ASSUME NEW i \in PortalIDs
      PROVE  /\ ~IsOpen(portals[i]) => portals'[i] = portals[i]
             /\ portals'[i].flow = portals[i].flow
  BY <1>2, <1>4, <1>5
<1> QED BY <1>6, <1>7

(* Terminal portals and LOST observers never change and a portal never     *)
(* reverses its direction, under ticks and commands alike.                 *)
THEOREM HistoryIsFrozen == Spec => HistoryFrozen
<1> DEFINE Frozen ==
      /\ \A i \in PortalIDs :
           /\ ~IsOpen(portals[i]) => portals'[i] = portals[i]
           /\ portals[i].flow # "NONE" => portals'[i].flow = portals[i].flow
      /\ \A o \in Observers :
           observers[o].status = "LOST" => observers'[o] = observers[o]
<1>1. IInv /\ [Next]_vars => [Frozen]_vars
  <2> SUFFICES ASSUME IInv, Next PROVE Frozen
    OBVIOUS
  <2>0. portals \in [PortalIDs -> Portal] /\ observers \in [Observers -> Observer]
    BY DEF IInv, TypeOK
  <2>1. ASSUME NEW now \in (tickAt + 1)..MaxTime, Tick(now) PROVE Frozen
    <3>1. now \in Nat /\ tickAt <= now
      BY ConfigTypes DEF IInv, TypeOK, Time
    <3> QED BY <2>1, <3>1, TickFreezes
  <2>2. ASSUME NEW i \in PortalIDs, Stabilize(i) PROVE Frozen
    <3>1. IsOpen(portals[i]) /\ observers' = observers
      BY <2>2 DEF Stabilize
    <3>2. \A j \in PortalIDs : /\ j # i => portals'[j] = portals[j]
                               /\ portals'[j].flow = portals[j].flow
      BY <2>0, <2>2 DEF Stabilize, Portal
    <3> QED BY <3>1, <3>2
  <2>3. ASSUME NEW i \in PortalIDs, NEW confirm \in BOOLEAN, ClosePortal(i, confirm)
        PROVE  Frozen
    <3>1. /\ IsOpen(portals[i])
          /\ portals' = [portals EXCEPT ![i] = Closed(portals[i], tickAt)]
          /\ \A o \in Observers : observers'[o] # observers[o] => InTransit(observers[o])
      BY <2>3 DEF ClosePortal, TransitThrough
    <3>2. \A j \in PortalIDs : /\ j # i => portals'[j] = portals[j]
                               /\ portals'[j].flow = portals[j].flow
      BY <2>0, <3>1 DEF Closed, Portal
    <3> QED BY <3>1, <3>2 DEF InTransit
  <2>4. ASSUME NEW i \in PortalIDs, NEW flow, IsOpen(portals[i]), SetFlow(i, flow)
        PROVE  \A j \in PortalIDs :
                 /\ ~IsOpen(portals[j]) => portals'[j] = portals[j]
                 /\ portals[j].flow # "NONE" => portals'[j].flow = portals[j].flow
    <3>1. CASE portals[i].flow # "NONE"
      BY <2>4, <3>1 DEF SetFlow
    <3>2. CASE portals[i].flow = "NONE"
      <4>1. portals' = [portals EXCEPT ![i].flow = flow, ![i].updatedAt = tickAt]
        BY <2>4, <3>2 DEF SetFlow
      <4>2. \A j \in PortalIDs : j # i => portals'[j] = portals[j]
        BY <2>0, <4>1
      <4> QED BY <2>4, <3>2, <4>2
    <3> QED BY <3>1, <3>2
  <2>5. ASSUME NEW i \in PortalIDs, NEW confirm \in BOOLEAN, SendObserver(i, confirm)
        PROVE  Frozen
    <3> DEFINE available == {o \in Observers : observers[o].status = "AVAILABLE"}
    <3>1. /\ IsOpen(portals[i]) /\ SetFlow(i, "OUTBOUND") /\ available # {}
          /\ \A o \in Observers : o # Min(available) => observers'[o] = observers[o]
      BY <2>0, <2>5 DEF SendObserver, CorridorFree
    <3>2. Min(available) \in available
      <4>1. available \in SUBSET Nat BY ConfigTypes DEF Observers
      <4> HIDE DEF available
      <4> QED BY <3>1, <4>1, MinNat
    <3> QED BY <2>4, <3>1, <3>2
  <2>6. ASSUME NEW i \in PortalIDs, NEW confirm \in BOOLEAN, RecallObserver(i, confirm)
        PROVE  Frozen
    <3>1. IsOpen(portals[i]) /\ SetFlow(i, "INBOUND")
      BY <2>6 DEF RecallObserver, RecallPossible, CorridorFree
    <3>2. \A o \in Observers : observers'[o] # observers[o] =>
            observers[o].status = "WAITING_RETURN"
      BY <2>0, <2>6 DEF RecallObserver, LongestWaiting, WaitingOn
    <3> QED BY <2>4, <3>1, <3>2
  <2>7. ASSUME NEW plane \in Planes, OpenExtraction(plane) PROVE Frozen
    <3>1. observers' = observers /\ \E p : portals' = Opened(portals, p)
      BY <2>7 DEF OpenExtraction
    <3>2. \A j \in PortalIDs : portals'[j] = portals[j]
      BY <3>1 DEF Opened, PortalIDs, IInv, TypeOK
    <3> QED BY <3>1, <3>2
  <2>8. ASSUME UNCHANGED vars PROVE Frozen
    BY <2>8 DEF vars
  <2> QED BY <2>1, <2>2, <2>3, <2>5, <2>6, <2>7, <2>8 DEF Next, Command, TickAgain
<1> QED BY <1>1, Inductive, PTL DEF Spec, HistoryFrozen

=============================================================================
