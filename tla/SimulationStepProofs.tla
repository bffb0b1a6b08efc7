------------------------ MODULE SimulationStepProofs ------------------------
(***************************************************************************)
(* What ticks and commands do to the laboratory's energy, its observers    *)
(* and its generator, proved from the inductive invariant of               *)
(* SimulationProofs.                                                       *)
(***************************************************************************)
EXTENDS SimulationProofs

-----------------------------------------------------------------------------
(* The shape of a step                                                     *)

(* Both factories draw OPEN portals that have not synchronized.            *)
LEMMA NewPortalsOpen ==
    ASSUME NEW plane, NEW slot, NEW now, NEW ttl, NEW energy, NEW decay, NEW hidden,
           NEW creatures
    PROVE  LET natural == NewNaturalPortal(plane, slot, now, ttl, energy, decay,
                                           hidden, creatures)
               extraction == NewExtractionPortal(plane, slot, now, ttl, energy, decay)
           IN /\ IsOpen(natural) /\ natural.syncedAt = Nil
              /\ IsOpen(extraction) /\ extraction.syncedAt = Nil
BY DEF NewNaturalPortal, NewExtractionPortal, NewPortal, IsOpen

(* A tick leaves of every portal what its stages made of it, and opens at  *)
(* most one, which is OPEN (resolvePortalStage, resolveExtractionStage,    *)
(* resolveNaturalSpawn).                                                   *)
LEMMA TickPortals ==
    ASSUME IInv, NEW now \in Nat, tickAt <= now, Tick(now)
    PROVE  /\ \A i \in PortalIDs :
                /\ portals'[i].status = ResolvedPortals(now)[i].status
                /\ portals'[i].closedAt = ResolvedPortals(now)[i].closedAt
                /\ i \notin SyncDue(ResolvedPortals(now), now) =>
                     portals'[i].syncedAt = portals[i].syncedAt
                /\ portals'[i].plane = portals[i].plane
                /\ portals'[i].openedAt = portals[i].openedAt
           /\ PortalIDs \subseteq PortalIDs'
           /\ \A i \in PortalIDs' \ PortalIDs :
                IsOpen(portals'[i]) /\ portals'[i].syncedAt = Nil
<1> DEFINE ps == ResolvedPortals(now)
           due == SyncDue(ps, now)
           sy == Synchronized(ps, due)
<1>1. ResolveNaturalSpawn(sy, now)
  BY DEF Tick
<1>2. ps \in [PortalIDs -> Portal] /\ GoodPortals(ps, now)
  BY PortalStage
<1>3. \A i \in PortalIDs : /\ ps[i].syncedAt = portals[i].syncedAt
                           /\ ps[i].plane = portals[i].plane
                           /\ ps[i].openedAt = portals[i].openedAt
  BY PortalStage
<1> HIDE DEF ps
<1>4. \A i \in PortalIDs :
        /\ sy[i].status = ps[i].status /\ sy[i].closedAt = ps[i].closedAt
        /\ i \notin due => sy[i].syncedAt = ps[i].syncedAt
        /\ sy[i].plane = ps[i].plane /\ sy[i].openedAt = ps[i].openedAt
  BY <1>2 DEF Synchronized, Portal
<1> HIDE DEF sy, due
<1>5. nextPortalID \in Nat \ {0}
  BY DEF IInv, TypeOK
<1>6. SpawnNothing(sy) \/ SpawnPortal(sy, now)
  BY <1>1, Zenon DEF ResolveNaturalSpawn
<1>7. /\ \A i \in PortalIDs : portals'[i] = sy[i]
      /\ PortalIDs \subseteq PortalIDs'
      /\ \A i \in PortalIDs' \ PortalIDs :
           IsOpen(portals'[i]) /\ portals'[i].syncedAt = Nil
  <2>1. CASE SpawnNothing(sy)
    BY <2>1 DEF SpawnNothing, PortalIDs
  <2>2. CASE SpawnPortal(sy, now)
    <3>0. PICK pl \in Planes, ttl \in NaturalTTLMin..NaturalTTLMax,
               energy \in PortalEnergyMin..PortalEnergyMax,
               decay \in PortalDecayMin..PortalDecayMax :
            \E hidden \in HiddenCollapses(now, ttl),
               creatures \in 0..MaxCreaturesForTTL(ttl) :
              portals' = Opened(sy, NewNaturalPortal(pl, FirstFreeSlot(sy), now, ttl,
                                                     energy, decay, hidden, creatures))
      BY <2>2 DEF SpawnPortal
    <3>1. PICK p : portals' = Opened(sy, p) /\ IsOpen(p) /\ p.syncedAt = Nil
      BY <3>0, NewPortalsOpen
    <3>2. nextPortalID' = nextPortalID + 1
      BY <2>2 DEF SpawnPortal
    <3> QED
      BY <1>5, <3>1, <3>2 DEF Opened, PortalIDs
  <2> QED
    BY <1>6, <2>1, <2>2
<1> QED
  BY <1>3, <1>4, <1>7 DEF due, ps

(* The observers a tick recalls were waiting, and are on their way home;   *)
(* nobody else is touched after the observer stage.                        *)
LEMMA TickObservers ==
    ASSUME IInv, NEW now \in Nat, tickAt <= now, Tick(now), NEW o \in Observers
    PROVE  LET r == ResolvedObservers(ResolvedPortals(now), now)[o]
           IN \/ observers'[o] = r
              \/ /\ r.status = "WAITING_RETURN" /\ observers'[o].status = "RETURNING"
                 /\ observers'[o].portal \in SyncDue(ResolvedPortals(now), now)
                 /\ observers'[o].startedAt = SyncAt(portals[observers'[o].portal])
<1> DEFINE ps == ResolvedPortals(now)
           os == ResolvedObservers(ps, now)
           due == SyncDue(ps, now)
<1>1. PICK picks \in AutoRecalls(ps, os, due) :
        \E durations \in [{i \in due : picks[i] # Nil} -> TransitDurations] :
           observers' = Recalled(ps, os, picks, durations)
  BY DEF Tick
<1>2. PICK durations \in [{i \in due : picks[i] # Nil} -> TransitDurations] :
           observers' = Recalled(ps, os, picks, durations)
  BY <1>1
<1>3. os[o] \in Observer
  BY ObserversStage
<1> HIDE DEF ps, os, due
<1>4. CASE ~\E i \in DOMAIN durations : picks[i] = o
  BY <1>2, <1>4 DEF Recalled, ps, os
<1>5. CASE \E i \in DOMAIN durations : picks[i] = o
  <2>1. PICK i \in DOMAIN durations : picks[i] = o
    BY <1>5
  <2>2. i \in due /\ picks[i] # Nil
    BY <1>2, <2>1
  <2>3. picks[i] \in LeftFor(ps, os, due, picks, i)
    BY <2>2 DEF AutoRecalls, LongestWaiting
  <2>4. os[o].status = "WAITING_RETURN"
    BY <2>1, <2>3 DEF LeftFor, WaitingOn
  <2> DEFINE j == CHOOSE k \in DOMAIN durations : picks[k] = o
  <2>5. j \in due
    BY <1>2, <1>5
  <2>6. observers'[o] = StartTransit(os[o], "RETURNING", j, SyncAt(ps[j]), durations[j])
    BY <1>2, <1>5 DEF Recalled
  <2> HIDE DEF j
  <2>7. /\ observers'[o].status = "RETURNING" /\ observers'[o].portal = j
        /\ observers'[o].startedAt = SyncAt(ps[j])
    BY <1>3, <2>6 DEF StartTransit, Observer
  <2>8. j \in PortalIDs /\ ps[j].openedAt = portals[j].openedAt
    BY <2>5, PortalStage DEF due, ps, SyncDue
  <2> QED
    BY <2>4, <2>5, <2>7, <2>8 DEF os, ps, due, SyncAt
<1> QED
  BY <1>4, <1>5

(* A command opens at most one portal, ends at most one and that by a      *)
(* manual close, synchronizes none, and spends energy the laboratory has.  *)
LEMMA CommandPortals ==
    ASSUME IInv, Command
    PROVE  /\ \A i \in PortalIDs :
                /\ ~IsOpen(portals[i]) => portals'[i] = portals[i]
                /\ portals'[i].status # portals[i].status =>
                     portals'[i].status = "CLOSED" /\ portals'[i].closedAt = tickAt
                /\ portals'[i].syncedAt = portals[i].syncedAt
                /\ portals'[i].openedAt = portals[i].openedAt
           /\ PortalIDs \subseteq PortalIDs'
           /\ \A i \in PortalIDs' \ PortalIDs :
                IsOpen(portals'[i]) /\ portals'[i].syncedAt = Nil
           /\ exploredAt' = exploredAt /\ tickAt' = tickAt
           /\ \/ lab' = lab
              \/ \E cost \in Nat : /\ CanAfford(lab, cost, tickAt)
                                   /\ lab' = SpendEnergy(lab, cost, tickAt)
<1> DEFINE Shape ==
      /\ \A i \in PortalIDs :
           /\ ~IsOpen(portals[i]) => portals'[i] = portals[i]
           /\ portals'[i].status # portals[i].status =>
                portals'[i].status = "CLOSED" /\ portals'[i].closedAt = tickAt
           /\ portals'[i].syncedAt = portals[i].syncedAt
           /\ portals'[i].openedAt = portals[i].openedAt
      /\ PortalIDs \subseteq PortalIDs'
      /\ \A i \in PortalIDs' \ PortalIDs :
           IsOpen(portals'[i]) /\ portals'[i].syncedAt = Nil
    Purse ==
      \/ lab' = lab
      \/ \E cost \in Nat : /\ CanAfford(lab, cost, tickAt)
                           /\ lab' = SpendEnergy(lab, cost, tickAt)
    Kept == exploredAt' = exploredAt /\ tickAt' = tickAt
<1> SUFFICES Shape /\ Purse /\ Kept
  OBVIOUS
<1>0. nextPortalID \in Nat \ {0} /\ portals \in [PortalIDs -> Portal]
  BY DEF IInv, TypeOK
<1>1. ASSUME NEW i \in PortalIDs, Stabilize(i) PROVE Shape /\ Purse /\ Kept
  <2>1. PortalIDs' = PortalIDs /\ Kept /\ IsOpen(portals[i])
    BY <1>1 DEF Stabilize, PortalIDs
  <2>2. Purse
    BY <1>1, EffectiveCostNat, ConfigTypes DEF Stabilize
  <2>3. \A j \in PortalIDs : /\ j # i => portals'[j] = portals[j]
                             /\ portals'[j].status = portals[j].status
                             /\ portals'[j].syncedAt = portals[j].syncedAt
                             /\ portals'[j].openedAt = portals[j].openedAt
    BY <1>0, <1>1 DEF Stabilize, Portal
  <2> QED BY <2>1, <2>2, <2>3
<1>2. ASSUME NEW i \in PortalIDs, NEW confirm \in BOOLEAN, ClosePortal(i, confirm)
      PROVE  Shape /\ Purse /\ Kept
  <2>1. PortalIDs' = PortalIDs /\ Kept /\ IsOpen(portals[i])
    BY <1>2 DEF ClosePortal, PortalIDs
  <2>2. Purse
    BY <1>2, EffectiveCostNat, ConfigTypes DEF ClosePortal
  <2>3. portals' = [portals EXCEPT ![i] = Closed(portals[i], tickAt)]
    BY <1>2 DEF ClosePortal
  <2>4. \A j \in PortalIDs : /\ j # i => portals'[j] = portals[j]
                             /\ portals'[j].syncedAt = portals[j].syncedAt
                             /\ portals'[j].openedAt = portals[j].openedAt
    BY <1>0, <2>3 DEF Closed, Portal
  <2>5. portals'[i].status = "CLOSED" /\ portals'[i].closedAt = tickAt
    BY <1>0, <2>3 DEF Closed, Portal
  <2> QED BY <2>1, <2>2, <2>4, <2>5
<1>3. ASSUME NEW i \in PortalIDs, NEW flow, IsOpen(portals[i]), SetFlow(i, flow),
             nextPortalID' = nextPortalID
      PROVE  Shape
  <2>1. PortalIDs' = PortalIDs
    BY <1>3 DEF PortalIDs
  <2>2. \A j \in PortalIDs : /\ j # i => portals'[j] = portals[j]
                             /\ portals'[j].status = portals[j].status
                             /\ portals'[j].syncedAt = portals[j].syncedAt
                             /\ portals'[j].openedAt = portals[j].openedAt
    BY <1>0, <1>3 DEF SetFlow, Portal
  <2> QED BY <1>3, <2>1, <2>2
<1>4. ASSUME NEW i \in PortalIDs, NEW confirm \in BOOLEAN, SendObserver(i, confirm)
      PROVE  Shape /\ Purse /\ Kept
  <2>1. IsOpen(portals[i]) /\ SetFlow(i, "OUTBOUND") /\ nextPortalID' = nextPortalID
    BY <1>4 DEF SendObserver, CorridorFree
  <2> QED BY <1>3, <1>4, <2>1 DEF SendObserver
<1>5. ASSUME NEW i \in PortalIDs, NEW confirm \in BOOLEAN, RecallObserver(i, confirm)
      PROVE  Shape /\ Purse /\ Kept
  <2>1. IsOpen(portals[i]) /\ SetFlow(i, "INBOUND") /\ nextPortalID' = nextPortalID
    BY <1>5 DEF RecallObserver, RecallPossible, CorridorFree
  <2> QED BY <1>3, <1>5, <2>1 DEF RecallObserver
<1>6. ASSUME NEW plane \in Planes, OpenExtraction(plane)
      PROVE  Shape /\ Purse /\ Kept
  <2>1. PICK p : portals' = Opened(portals, p) /\ IsOpen(p) /\ p.syncedAt = Nil
    BY <1>6, NewPortalsOpen DEF OpenExtraction
  <2>2. nextPortalID' = nextPortalID + 1
    BY <1>6 DEF OpenExtraction
  <2>3. Shape
    BY <1>0, <2>1, <2>2 DEF Opened, PortalIDs
  <2> QED BY <1>6, <2>3, ConfigTypes DEF OpenExtraction
<1> QED BY <1>1, <1>2, <1>4, <1>5, <1>6 DEF Command

-----------------------------------------------------------------------------
(* Leyline Override and laboratory energy                                  *)

(* Regeneration is monotone in the time it takes.                          *)
LEMMA MulMono ==
    ASSUME NEW a \in Int, NEW b \in Int, a <= b, NEW r \in Nat
    PROVE  a * r <= b * r /\ a * r \in Int /\ b * r \in Int
OBVIOUS

(* Regeneration over two spans in a row.                                   *)
LEMMA MulSplit ==
    ASSUME NEW a \in Int, NEW b \in Int, NEW r \in Nat
    PROVE  (a + b) * r = a * r + b * r
OBVIOUS

(* The instants of the collapses on record.                                *)
Collapses ==
    {portals[i].closedAt : i \in {j \in PortalIDs : portals[j].status = "COLLAPSED"}}

(* Every recorded collapse lies in the past.                               *)
LEMMA CollapsesPast ==
    ASSUME IInv
    PROVE  Collapses \in SUBSET (0..tickAt)
<1> SUFFICES ASSUME NEW i \in PortalIDs, portals[i].status = "COLLAPSED"
             PROVE  portals[i].closedAt \in 0..tickAt
  BY DEF Collapses
<1>1. portals[i] \in Portal /\ tickAt \in Nat /\ GoodPortal(portals[i], tickAt)
  BY DEF IInv, TypeOK, GoodPortals, Time
<1>2. ~IsOpen(portals[i])
  BY DEF IsOpen
<1> QED BY <1>1, <1>2, TerminalClosedAt

(* A tick records exactly the collapses it passes to                       *)
(* ActivateLeylineOverride.                                                *)
LEMMA TickCollapses ==
    ASSUME IInv, NEW now \in Nat, tickAt <= now, Tick(now)
    PROVE  Collapses' = Collapses \cup CollapseTimes(now)
<1> DEFINE ps == ResolvedPortals(now)
<1>1. /\ \A i \in PortalIDs : /\ portals'[i].status = ps[i].status
                              /\ portals'[i].closedAt = ps[i].closedAt
      /\ PortalIDs \subseteq PortalIDs'
      /\ \A i \in PortalIDs' \ PortalIDs : portals'[i].status = "OPEN"
  BY TickPortals DEF IsOpen
<1>2. ASSUME NEW i \in PortalIDs
      PROVE  /\ ~Overdue(portals[i], now) => ps[i] = portals[i]
             /\ Overdue(portals[i], now) =>
                  /\ ps[i].status = Termination(portals[i]).status
                  /\ ps[i].closedAt = Termination(portals[i]).at
                  /\ portals[i].status = "OPEN"
  <2>1. portals[i] \in Portal
    BY DEF IInv, TypeOK
  <2>2. ps[i] = ResolveLifecycle(portals[i], now)
    BY DEF ResolvedPortals
  <2> QED BY <2>1, <2>2 DEF ResolveLifecycle, Portal, Overdue, IsOpen
<1> HIDE DEF ps
<1>3. Collapses' = {portals'[i].closedAt :
                      i \in {j \in PortalIDs' : portals'[j].status = "COLLAPSED"}}
  BY DEF Collapses
<1>4. ASSUME NEW t \in Collapses' PROVE t \in Collapses \cup CollapseTimes(now)
  <2>1. PICK i \in PortalIDs' : portals'[i].status = "COLLAPSED" /\ t = portals'[i].closedAt
    BY <1>3, <1>4
  <2>2. i \in PortalIDs
    BY <1>1, <2>1
  <2> QED BY <1>1, <1>2, <2>1, <2>2 DEF Collapses, CollapseTimes
<1>5. ASSUME NEW t \in Collapses PROVE t \in Collapses'
  <2>1. PICK i \in PortalIDs : portals[i].status = "COLLAPSED" /\ t = portals[i].closedAt
    BY <1>5 DEF Collapses
  <2>2. ~Overdue(portals[i], now)
    BY <2>1 DEF Overdue, IsOpen
  <2> QED BY <1>1, <1>2, <1>3, <2>1, <2>2
<1>6. ASSUME NEW t \in CollapseTimes(now) PROVE t \in Collapses'
  <2>1. PICK i \in PortalIDs : /\ Overdue(portals[i], now)
                               /\ Termination(portals[i]).status = "COLLAPSED"
                               /\ t = Termination(portals[i]).at
    BY <1>6 DEF CollapseTimes
  <2> QED BY <1>1, <1>2, <1>3, <2>1
<1> QED BY <1>4, <1>5, <1>6


(* A command records no collapse.                                          *)
LEMMA CommandCollapses ==
    ASSUME IInv, Command
    PROVE  Collapses' = Collapses
<1>1. /\ \A i \in PortalIDs :
           /\ portals[i].status # "OPEN" => portals'[i] = portals[i]
           /\ portals[i].status = "OPEN" => portals'[i].status # "COLLAPSED"
      /\ PortalIDs \subseteq PortalIDs'
      /\ \A i \in PortalIDs' \ PortalIDs : portals'[i].status # "COLLAPSED"
  BY CommandPortals DEF IsOpen
<1>2. Collapses' = {portals'[i].closedAt :
                      i \in {j \in PortalIDs' : portals'[j].status = "COLLAPSED"}}
  BY DEF Collapses
<1>3. ASSUME NEW t \in Collapses' PROVE t \in Collapses
  <2>1. PICK i \in PortalIDs' : portals'[i].status = "COLLAPSED" /\ t = portals'[i].closedAt
    BY <1>2, <1>3
  <2> QED BY <1>1, <2>1 DEF Collapses
<1>4. ASSUME NEW t \in Collapses PROVE t \in Collapses'
  <2>1. PICK i \in PortalIDs : portals[i].status = "COLLAPSED" /\ t = portals[i].closedAt
    BY <1>4 DEF Collapses
  <2> QED BY <1>1, <1>2, <2>1
<1> QED BY <1>3, <1>4

(* Both properties of the laboratory in terms of Collapses, so that a step *)
(* that leaves Collapses alone leaves them alone.                          *)
LabInv ==
    /\ lab.overrideUntil = IF Collapses = {} THEN Nil
                           ELSE Max(Collapses) + EmergencyDuration
    /\ \A t \in Collapses : LabEnergy(lab, tickAt) <= (tickAt - t) * LabRegenPerSec

(* Waiting regenerates at most LabRegenPerSec for every second.            *)
LEMMA EnergyLater ==
    ASSUME NEW l \in Lab, NEW t \in Nat, NEW now \in Nat, l.energyBaseAt <= t, t <= now
    PROVE  /\ LabEnergy(l, t) \in Int /\ LabEnergy(l, now) \in Int
           /\ LabEnergy(l, now) <= LabEnergy(l, t) + (now - t) * LabRegenPerSec
<1> DEFINE at == l.energyBaseAt
           base == l.energyBase
           r == LabRegenPerSec
<1>1. at \in Nat /\ base \in Nat /\ r \in Nat /\ LabEnergyMax \in Nat
  BY ConfigTypes DEF Lab, Time
<1>2. Floor0(t - at) = t - at /\ Floor0(now - at) = now - at
  BY <1>1 DEF Floor0
<1>3. LabEnergy(l, t) = Least(LabEnergyMax, base + (t - at) * r)
  BY <1>2 DEF LabEnergy
<1>4. LabEnergy(l, now) = Least(LabEnergyMax, base + (now - at) * r)
  BY <1>2 DEF LabEnergy
<1>5. ((t - at) + (now - t)) * r = (t - at) * r + (now - t) * r
  BY <1>1, MulSplit
<1>6. (t - at) + (now - t) = now - at
  BY <1>1
<1>7. 0 * r <= (now - t) * r /\ 0 * r = 0
  BY <1>1, MulMono
<1> DEFINE x == (t - at) * r
           y == (now - t) * r
           z == (now - at) * r
<1>8. x \in Int /\ y \in Int /\ z \in Int /\ z = x + y /\ 0 <= y
  BY <1>1, <1>5, <1>6, <1>7
<1> HIDE DEF x, y, z, at, base, r
<1> QED BY <1>1, <1>3, <1>4, <1>8 DEF Least, x, y, z, r

(* Spending lowers the energy on hand.                                     *)
LEMMA SpendingLowers ==
    ASSUME NEW l \in Lab, NEW now \in Nat, NEW cost \in Nat, CanAfford(l, cost, now),
           NEW m, m = SpendEnergy(l, cost, now)
    PROVE  LabEnergy(m, now) <= LabEnergy(l, now) /\ m.overrideUntil = l.overrideUntil
<1>1. LabEnergy(l, now) \in Int
  BY EnergyLater DEF CanAfford
<1>2. CASE cost = 0
  BY <1>1, <1>2 DEF SpendEnergy
<1>3. CASE cost # 0
  <2>1. m = [l EXCEPT !.energyBase = LabEnergy(l, now) - cost, !.energyBaseAt = now]
    BY <1>3 DEF SpendEnergy
  <2>2. /\ m.energyBase = LabEnergy(l, now) - cost /\ m.energyBaseAt = now
        /\ m.overrideUntil = l.overrideUntil
    BY <2>1 DEF Lab
  <2>3. Floor0(now - m.energyBaseAt) * LabRegenPerSec = 0
    BY <2>2, ConfigTypes DEF Floor0
  <2>4. LabEnergy(m, now) = Least(LabEnergyMax, LabEnergy(l, now) - cost)
    BY <1>1, <2>2, <2>3 DEF LabEnergy
  <2>5. LabEnergyMax \in Nat
    BY ConfigTypes
  <2> QED BY <1>1, <2>2, <2>4, <2>5 DEF Least
<1> QED BY <1>2, <1>3

(* Activation empties the laboratory as of the latest collapse of the      *)
(* tick, and no collapse on record is later.                               *)
LEMMA TickLab ==
    ASSUME IInv, LabInv, NEW now \in Nat, tickAt <= now, Tick(now)
    PROVE  LabInv'
<1> DEFINE times == CollapseTimes(now)
<1>1. /\ lab' = ActivateLeylineOverride(lab, times) /\ tickAt' = now
      /\ Collapses' = Collapses \cup times
  BY TickCollapses DEF Tick
<1>2. Collapses \in SUBSET (0..tickAt) /\ times \in SUBSET (tickAt..now)
  BY CollapsesPast, CollapseTimesGood
<1>3. tickAt \in Nat /\ lab \in Lab /\ lab.energyBaseAt <= tickAt
  BY DEF IInv, TypeOK, GoodRest, Time
<1> HIDE DEF times
<1>4. CASE times = {}
  <2>1. lab' = lab /\ Collapses' = Collapses
    BY <1>1, <1>4 DEF ActivateLeylineOverride
  <2>2. ASSUME NEW t \in Collapses
        PROVE  LabEnergy(lab, now) <= (now - t) * LabRegenPerSec
    <3>1. /\ LabEnergy(lab, tickAt) \in Int /\ LabEnergy(lab, now) \in Int
          /\ LabEnergy(lab, now) <= LabEnergy(lab, tickAt) + (now - tickAt) * LabRegenPerSec
      BY <1>3, EnergyLater
    <3>2. LabEnergy(lab, tickAt) <= (tickAt - t) * LabRegenPerSec
      BY DEF LabInv
    <3>3. t \in Int /\ (tickAt - t) + (now - tickAt) = now - t
      BY <1>2, <1>3
    <3>4. ((tickAt - t) + (now - tickAt)) * LabRegenPerSec
            = (tickAt - t) * LabRegenPerSec + (now - tickAt) * LabRegenPerSec
      BY <1>3, <3>3, MulSplit, ConfigTypes
    <3>5. (tickAt - t) * LabRegenPerSec \in Int /\ (now - tickAt) * LabRegenPerSec \in Int
      BY <1>3, <3>3, ConfigTypes
    <3> DEFINE x == (tickAt - t) * LabRegenPerSec
               y == (now - tickAt) * LabRegenPerSec
               z == (now - t) * LabRegenPerSec
    <3>6. z = x + y /\ x \in Int /\ y \in Int
      BY <3>3, <3>4, <3>5
    <3> SUFFICES LabEnergy(lab, now) <= z
      OBVIOUS
    <3>7. LabEnergy(lab, now) <= LabEnergy(lab, tickAt) + y /\ LabEnergy(lab, tickAt) <= x
      BY <3>1, <3>2
    <3> HIDE DEF x, y, z
    <3> QED BY <3>1, <3>6, <3>7
  <2>3. LabEnergy(lab', tickAt') = LabEnergy(lab, now)
    BY <1>1, <2>1
  <2> QED BY <1>1, <2>1, <2>2, <2>3 DEF LabInv
<1>5. CASE times # {}
  <2> DEFINE m == Max(times)
  <2>1. m \in times /\ \A t \in times : t <= m
    <3>1. times \in SUBSET Nat /\ \A t \in times : t <= now
      BY <1>2, <1>3
    <3> QED BY <1>5, <3>1, MaxNat
  <2>2. /\ lab'.energyBase = 0 /\ lab'.energyBaseAt = m
        /\ lab'.overrideUntil = m + EmergencyDuration
    BY <1>1, <1>5 DEF ActivateLeylineOverride
  <2> HIDE DEF m
  <2>3. m \in Nat /\ m <= now /\ tickAt <= m
    BY <1>2, <1>3, <2>1
  <2>4. \A t \in Collapses' : t \in Nat /\ t <= m
    BY <1>1, <1>2, <1>3, <2>1, <2>3
  <2>5. Max(Collapses') = m
    <3>1. m \in Collapses'
      BY <1>1, <2>1
    <3>2. Collapses' \in SUBSET Nat
      BY <2>4
    <3>3. Max(Collapses') \in Collapses' /\ \A t \in Collapses' : t <= Max(Collapses')
      BY <2>3, <2>4, <3>1, <3>2, MaxNat
    <3>4. Max(Collapses') \in Nat /\ Max(Collapses') <= m /\ m <= Max(Collapses')
      BY <2>4, <3>1, <3>3
    <3> QED BY <2>3, <3>4
  <2>6. ASSUME NEW t \in Collapses'
        PROVE  LabEnergy(lab', now) <= (now - t) * LabRegenPerSec
    <3>1. Floor0(now - m) = now - m
      BY <2>3 DEF Floor0
    <3>2. LabEnergy(lab', now) = Least(LabEnergyMax, 0 + (now - m) * LabRegenPerSec)
      BY <2>2, <3>1 DEF LabEnergy
    <3>3. /\ (now - m) * LabRegenPerSec <= (now - t) * LabRegenPerSec
          /\ (now - m) * LabRegenPerSec \in Int /\ (now - t) * LabRegenPerSec \in Int
      BY <2>3, <2>4, MulMono, ConfigTypes
    <3> DEFINE x == (now - m) * LabRegenPerSec
               y == (now - t) * LabRegenPerSec
    <3>4. x <= y /\ x \in Int /\ y \in Int /\ LabEnergy(lab', now) = Least(LabEnergyMax, 0 + x)
      BY <3>2, <3>3
    <3> SUFFICES LabEnergy(lab', now) <= y
      OBVIOUS
    <3> HIDE DEF x, y
    <3> QED BY <3>4, ConfigTypes DEF Least
  <2>7. Collapses' # {}
    BY <1>1, <1>5
  <2> QED BY <1>1, <2>2, <2>5, <2>6, <2>7 DEF LabInv
<1> QED BY <1>4, <1>5

(* Commands spend; they neither record a collapse nor touch the deadline.  *)
LEMMA CommandLab ==
    ASSUME IInv, LabInv, Command
    PROVE  LabInv'
<1>1. Collapses' = Collapses /\ tickAt' = tickAt
  BY CommandCollapses, CommandPortals
<1>2. tickAt \in Nat /\ lab \in Lab /\ lab.energyBaseAt <= tickAt
  BY DEF IInv, TypeOK, GoodRest, Time
<1>3. LabEnergy(lab', tickAt) <= LabEnergy(lab, tickAt) /\ lab'.overrideUntil = lab.overrideUntil
  <2>1. LabEnergy(lab, tickAt) \in Int
    BY <1>2, EnergyLater
  <2>2. CASE lab' = lab
    BY <2>1, <2>2
  <2>3. CASE \E cost \in Nat : /\ CanAfford(lab, cost, tickAt)
                               /\ lab' = SpendEnergy(lab, cost, tickAt)
    BY <1>2, <2>3, SpendingLowers
  <2> QED BY <2>2, <2>3, CommandPortals
<1>4. lab' \in Lab /\ lab'.energyBaseAt <= tickAt
  <2>1. CASE lab' = lab
    BY <1>2, <2>1
  <2>2. CASE \E cost \in Nat : /\ CanAfford(lab, cost, tickAt)
                               /\ lab' = SpendEnergy(lab, cost, tickAt)
    BY <1>2, <2>2, SpendEnergyGood
  <2> QED BY <2>1, <2>2, CommandPortals
<1>5. LabEnergy(lab, tickAt) \in Int /\ LabEnergy(lab', tickAt) \in Int
  BY <1>2, <1>4, EnergyLater
<1>6. ASSUME NEW t \in Collapses
      PROVE  LabEnergy(lab', tickAt) <= (tickAt - t) * LabRegenPerSec
  <2>1. t \in Int
    BY <1>2, CollapsesPast
  <2>2. LabEnergy(lab, tickAt) <= (tickAt - t) * LabRegenPerSec
    BY DEF LabInv
  <2> DEFINE x == (tickAt - t) * LabRegenPerSec
  <2>3. x \in Int
    BY <1>2, <2>1, ConfigTypes
  <2> SUFFICES LabEnergy(lab', tickAt) <= x
    OBVIOUS
  <2>4. LabEnergy(lab, tickAt) <= x
    BY <2>2
  <2> HIDE DEF x
  <2> QED BY <1>3, <1>5, <2>3, <2>4
<1>7. LabEnergy(lab', tickAt') = LabEnergy(lab', tickAt)
  BY <1>1
<1> QED BY <1>1, <1>3, <1>6, <1>7 DEF LabInv

(* The deadline and the energy agree with the collapses on record in every *)
(* state that ticks and commands can reach.                                *)
THEOREM LabInductive == Spec => []LabInv
<1>1. Init => LabInv
  <2> SUFFICES ASSUME Init PROVE LabInv
    OBVIOUS
  <2>1. PortalIDs = {} /\ lab.overrideUntil = Nil
    BY DEF Init, PortalIDs
  <2>2. Collapses = {}
    BY <2>1 DEF Collapses
  <2> QED BY <2>1, <2>2 DEF LabInv
<1>2. IInv /\ LabInv /\ [Next]_vars => LabInv'
  <2> SUFFICES ASSUME IInv, LabInv, [Next]_vars PROVE LabInv'
    OBVIOUS
  <2>1. ASSUME NEW now \in (tickAt + 1)..MaxTime, Tick(now) PROVE LabInv'
    <3>1. now \in Nat /\ tickAt <= now
      BY ConfigTypes DEF IInv, TypeOK, Time
    <3> QED BY <2>1, <3>1, TickLab
  <2>2. ASSUME Command PROVE LabInv'
    BY <2>2, CommandLab
  <2>3. ASSUME UNCHANGED vars PROVE LabInv'
    BY <2>3 DEF vars, LabInv, Collapses, PortalIDs
  <2> QED BY <2>1, <2>2, <2>3 DEF Next, TickAgain
<1> QED BY <1>1, <1>2, Inductive, PTL DEF Spec

(* However many portals collapse in one tick and in whatever order, and    *)
(* however late the tick is, Leyline Override ends EmergencyDuration after *)
(* the latest collapse on record.                                          *)
THEOREM OverrideTracksCollapses == Spec => []OverrideTracksLatestCollapse
<1>1. LabInv => OverrideTracksLatestCollapse
  BY DEF LabInv, OverrideTracksLatestCollapse, Collapses
<1> QED BY <1>1, LabInductive, PTL

(* No sequence of spending, waiting and free commands leaves the           *)
(* laboratory more energy than it regenerated since any collapse.          *)
THEOREM EnergyRegenerates == Spec => []EnergyOnlyRegenerates
<1>1. LabInv => EnergyOnlyRegenerates
  BY DEF LabInv, EnergyOnlyRegenerates, Collapses
<1> QED BY <1>1, LabInductive, PTL


-----------------------------------------------------------------------------
(* The natural generator                                                   *)

(* Only a tick moves LastTickAt, and a tick leaves the generator paused    *)
(* exactly at capacity; it opens at most one portal, and none when it      *)
(* found the generator paused, so a late tick never catches up.            *)
THEOREM GeneratorPausesAtCapacity == Spec => PausedExactlyAtCapacity
<1> DEFINE Paused ==
      tickAt' # tickAt =>
        /\ spawn'.paused <=> AtCapacity(portals')
        /\ nextPortalID' <= nextPortalID + 1
        /\ spawn.paused => nextPortalID' = nextPortalID
<1>1. IInv /\ [Next]_vars => [Paused]_vars
  <2> SUFFICES ASSUME IInv, Next PROVE Paused
    OBVIOUS
  <2>1. ASSUME NEW now \in (tickAt + 1)..MaxTime, Tick(now) PROVE Paused
    <3> DEFINE sy == Synchronized(ResolvedPortals(now), SyncDue(ResolvedPortals(now), now))
    <3>1. ResolveNaturalSpawn(sy, now)
      BY <2>1 DEF Tick
    <3>2. nextPortalID \in Nat
      BY DEF IInv, TypeOK
    <3>3. \A s \in SpawnSchedules(now) : s.paused = FALSE
      BY DEF SpawnSchedules
    <3>4. SpawnPaused.paused = TRUE
      BY DEF SpawnPaused
    <3> HIDE DEF sy
    <3>5. CASE AtCapacity(sy) /\ spawn' = SpawnPaused /\ SpawnNothing(sy)
      BY <3>2, <3>4, <3>5 DEF SpawnNothing
    <3>6. CASE ~AtCapacity(sy) /\ spawn' \in SpawnSchedules(now) /\ SpawnNothing(sy)
      BY <3>2, <3>3, <3>6 DEF SpawnNothing
    <3>7. CASE ~AtCapacity(sy) /\ ~spawn.paused /\ spawn' = spawn /\ SpawnNothing(sy)
      BY <3>2, <3>7 DEF SpawnNothing
    <3>8. CASE /\ SpawnDue(now) /\ SpawnPortal(sy, now)
               /\ spawn' \in IF AtCapacity(portals') THEN {SpawnPaused}
                             ELSE SpawnSchedules(now)
      <4>1. nextPortalID' = nextPortalID + 1 /\ ~spawn.paused
        BY <3>8 DEF SpawnDue, SpawnPortal
      <4>2. spawn'.paused <=> AtCapacity(portals')
        BY <3>3, <3>4, <3>8
      <4> QED BY <3>2, <4>1, <4>2
    <3> QED BY <3>1, <3>5, <3>6, <3>7, <3>8, Zenon DEF ResolveNaturalSpawn
  <2>2. CASE Command
    BY <2>2, CommandPortals
  <2>3. CASE TickAgain
    BY <2>3 DEF TickAgain, vars
  <2> QED BY <2>1, <2>2, <2>3 DEF Next
<1> QED BY <1>1, Inductive, PTL DEF Spec, PausedExactlyAtCapacity

-----------------------------------------------------------------------------
(* Observers                                                               *)

(* A transit goes on, is lost at the end of its portal, or arrives no      *)
(* later than now and no later than the end of its portal.                 *)
LEMMA LifecycleOutcome ==
    ASSUME NEW o \in Observer, InTransit(o), o.endsAt \in Nat, NEW ps, NEW now \in Nat,
           ~IsOpen(ps[o.portal]) =>
              ps[o.portal].closedAt \in Nat /\ ps[o.portal].closedAt <= now,
           NEW r, r = ResolveObserverLifecycle(o, ps, now)
    PROVE  LET p == ps[o.portal]
           IN \/ /\ r = o
                 /\ ~IsOpen(p) => o.endsAt <= p.closedAt
              \/ /\ r.status = "LOST" /\ r.updatedAt = p.closedAt
                 /\ ~IsOpen(p) /\ p.closedAt < o.endsAt
              \/ /\ r.status \in {"EXPLORING", "WAITING_RETURN", "AVAILABLE"}
                 /\ o.endsAt <= now
                 /\ ~IsOpen(p) => o.endsAt <= p.closedAt
<1> DEFINE p == ps[o.portal]
           Home == AtHome("LOST", p.closedAt)
<1>1. Home.status = "LOST" /\ Home.updatedAt = p.closedAt
  BY DEF AtHome
<1>2. ~TransitFails(o, p, now) => (~IsOpen(p) => o.endsAt <= p.closedAt)
  BY DEF TransitFails
<1>3. TransitFails(o, p, now) => ~IsOpen(p) /\ p.closedAt < o.endsAt
  BY DEF TransitFails
<1> HIDE DEF Home
<1>4. CASE o.status = "OUTBOUND"
  <2> DEFINE a == ResolveOutbound(o, p, now)
  <2>1. r = ResolveResearch(a, now)
    BY <1>4 DEF ResolveObserverLifecycle
  <2>2. CASE TransitFails(o, p, now)
    <3>1. a = Home
      BY <2>2 DEF ResolveOutbound, Home
    <3>2. r = Home
      BY <1>1, <2>1, <3>1 DEF ResolveResearch
    <3> QED BY <1>1, <1>3, <2>2, <3>2
  <2>3. CASE ~TransitFails(o, p, now) /\ o.endsAt <= now
    <3>1. /\ a.status = "EXPLORING"
          /\ DOMAIN a = {"status", "plane", "portal", "startedAt", "endsAt", "updatedAt"}
      BY <2>3 DEF ResolveOutbound
    <3> HIDE DEF a
    <3>2. r.status \in {"EXPLORING", "WAITING_RETURN"}
      BY <2>1, <3>1 DEF ResolveResearch
    <3> QED BY <1>2, <2>3, <3>2
  <2>4. CASE ~TransitFails(o, p, now) /\ ~(o.endsAt <= now)
    <3>1. a = o
      BY <2>4 DEF ResolveOutbound
    <3> QED BY <1>2, <1>4, <2>1, <2>4, <3>1 DEF ResolveResearch
  <2> QED BY <2>2, <2>3, <2>4
<1>5. CASE o.status = "RETURNING"
  <2>1. r = ResolveReturning(o, p, now)
    BY <1>5 DEF ResolveObserverLifecycle
  <2>2. CASE TransitFails(o, p, now)
    <3>1. r = Home
      BY <2>1, <2>2 DEF ResolveReturning, Home
    <3> QED BY <1>1, <1>3, <2>2, <3>1
  <2>3. CASE ~TransitFails(o, p, now) /\ o.endsAt <= now
    <3>1. r = AtHome("AVAILABLE", o.endsAt)
      BY <2>1, <2>3 DEF ResolveReturning
    <3>2. r.status = "AVAILABLE"
      BY <3>1 DEF AtHome
    <3> QED BY <1>2, <2>3, <3>2
  <2>4. CASE ~TransitFails(o, p, now) /\ ~(o.endsAt <= now)
    <3>1. r = o
      BY <2>1, <2>4 DEF ResolveReturning
    <3> QED BY <1>2, <2>4, <3>1
  <2> QED BY <2>2, <2>3, <2>4
<1> QED BY <1>4, <1>5 DEF InTransit

(* What the invariant says of somebody in transit.                         *)
LEMMA Travelling ==
    ASSUME IInv, NEW o \in Observers, InTransit(observers[o])
    PROVE  /\ observers[o] \in Observer /\ observers[o].portal \in PortalIDs
           /\ IsOpen(portals[observers[o].portal]) /\ observers[o].endsAt \in Nat
           /\ observers[o].status # "LOST"
<1>1. /\ observers[o] \in Observer /\ portals \in [PortalIDs -> Portal]
      /\ ValidObserver(observers[o], portals, tickAt)
      /\ IsOpen(portals[observers[o].portal]) /\ tickAt \in Nat
  BY DEF IInv, TypeOK, GoodObservers, TravelsWell, Time
<1>2. observers[o].portal \in PortalIDs
  BY <1>1 DEF ValidObserver, InTransit
<1>3. observers[o].endsAt \in Nat
  BY <1>1 DEF ValidObserver, ValidPhase, InTransit, Observer, OptTime, Time, Nil
<1> QED BY <1>1, <1>2, <1>3 DEF InTransit

(* Commands other than a close leave every transit and its portal's status *)
(* alone.                                                                  *)
LEMMA CommandTransits ==
    ASSUME IInv, Command, NEW o \in Observers, InTransit(observers[o])
    PROVE  \/ /\ observers'[o] = observers[o]
              /\ portals'[observers[o].portal].status = "OPEN"
           \/ /\ portals'[observers[o].portal].status = "CLOSED"
              /\ portals'[observers[o].portal].closedAt = tickAt
              /\ tickAt < observers[o].endsAt
              /\ observers'[o].status = "LOST" /\ observers'[o].updatedAt = tickAt
<1> DEFINE k == observers[o].portal
           Goal == \/ observers'[o] = observers[o] /\ portals'[k].status = "OPEN"
                   \/ /\ portals'[k].status = "CLOSED" /\ portals'[k].closedAt = tickAt
                      /\ tickAt < observers[o].endsAt
                      /\ observers'[o].status = "LOST" /\ observers'[o].updatedAt = tickAt
<1>0. /\ nextPortalID \in Nat \ {0} /\ portals \in [PortalIDs -> Portal]
      /\ observers \in [Observers -> Observer] /\ tickAt \in Nat
  BY DEF IInv, TypeOK, Time
<1>1. /\ observers[o] \in Observer /\ k \in PortalIDs
      /\ portals[k].status = "OPEN" /\ observers[o].endsAt \in Nat
  BY Travelling DEF IsOpen
<1> HIDE DEF k
<1> SUFFICES Goal
  BY DEF k
<1>2. ASSUME NEW i \in PortalIDs, Stabilize(i) PROVE Goal
  <2>1. portals'[k].status = portals[k].status
    BY <1>0, <1>1, <1>2 DEF Stabilize, Portal
  <2> QED BY <1>1, <1>2, <2>1 DEF Stabilize
<1>3. ASSUME NEW i \in PortalIDs, NEW confirm \in BOOLEAN, ClosePortal(i, confirm)
      PROVE  Goal
  <2> DEFINE closed == [portals EXCEPT ![i] = Closed(portals[i], tickAt)]
  <2>1. /\ portals' = closed /\ tickAt < observers[o].endsAt
        /\ observers'[o] = IF o \in TransitThrough(observers, i)
                           THEN ResolveObserverLifecycle(observers[o], closed, tickAt)
                           ELSE observers[o]
    BY <1>3 DEF ClosePortal, RosterCurrent
  <2>2. closed[i].status = "CLOSED" /\ closed[i].closedAt = tickAt
    BY <1>0 DEF Closed, Portal
  <2>3. \A j \in PortalIDs : j # i => closed[j] = portals[j]
    BY <1>0
  <2> HIDE DEF closed
  <2>4. CASE k = i
    <3>1. o \in TransitThrough(observers, i)
      BY <2>4 DEF TransitThrough, k
    <3>2. ~IsOpen(closed[observers[o].portal]) /\ closed[observers[o].portal].closedAt = tickAt
      BY <2>2, <2>4 DEF IsOpen, k
    <3> DEFINE r == ResolveObserverLifecycle(observers[o], closed, tickAt)
    <3>3. r.status = "LOST" /\ r.updatedAt = tickAt
      BY <1>0, <1>1, <2>1, <3>2, LifecycleOutcome
    <3> QED BY <2>1, <2>2, <2>4, <3>1, <3>3
  <2>5. CASE k # i
    <3>1. o \notin TransitThrough(observers, i)
      BY <2>5 DEF TransitThrough, k
    <3> QED BY <1>1, <2>1, <2>3, <2>5, <3>1
  <2> QED BY <2>4, <2>5
<1>4. ASSUME NEW i \in PortalIDs, NEW flow, SetFlow(i, flow)
      PROVE  portals'[k].status = "OPEN"
  BY <1>0, <1>1, <1>4 DEF SetFlow, Portal
<1>5. ASSUME NEW i \in PortalIDs, NEW confirm \in BOOLEAN, SendObserver(i, confirm)
      PROVE  Goal
  <2> DEFINE available == {q \in Observers : observers[q].status = "AVAILABLE"}
  <2>1. /\ available # {} /\ SetFlow(i, "OUTBOUND")
        /\ \E d \in TransitDurations :
             observers' = [observers EXCEPT
               ![Min(available)] = StartTransit(@, "OUTBOUND", i, tickAt, d)]
    BY <1>5 DEF SendObserver
  <2>2. available \in SUBSET Nat
    BY DEF Observers
  <2>3. Min(available) \in available
    <3> HIDE DEF available
    <3> QED BY <2>1, <2>2, MinNat
  <2>4. Min(available) # o
    BY <2>3 DEF InTransit
  <2> HIDE DEF available
  <2>5. observers'[o] = observers[o]
    BY <1>0, <2>1, <2>4
  <2> QED BY <1>4, <2>1, <2>5
<1>6. ASSUME NEW i \in PortalIDs, NEW confirm \in BOOLEAN, RecallObserver(i, confirm)
      PROVE  Goal
  <2>1. /\ SetFlow(i, "INBOUND")
        /\ \E q \in LongestWaiting(observers, WaitingOn(observers, portals[i].plane)),
              d \in TransitDurations :
             observers' = [observers EXCEPT
               ![q] = StartTransit(@, "RETURNING", i, tickAt, d)]
    BY <1>6 DEF RecallObserver
  <2>2. o \notin LongestWaiting(observers, WaitingOn(observers, portals[i].plane))
    BY DEF LongestWaiting, WaitingOn, InTransit
  <2>3. observers'[o] = observers[o]
    BY <1>0, <2>1, <2>2
  <2> QED BY <1>4, <2>1, <2>3
<1>7. ASSUME NEW plane \in Planes, OpenExtraction(plane) PROVE Goal
  <2>1. \E p : portals' = Opened(portals, p)
    BY <1>7 DEF OpenExtraction
  <2>2. portals'[k] = portals[k]
    BY <1>0, <1>1, <2>1 DEF Opened, PortalIDs
  <2> QED BY <1>1, <1>7, <2>2 DEF OpenExtraction
<1> QED BY <1>2, <1>3, <1>5, <1>6, <1>7 DEF Command

(* A transit is lost if and only if its portal ended strictly before the   *)
(* arrival: by a late tick, which judges by the instants and not by when   *)
(* it runs, and by a manual close, which refuses a roster not up to date.  *)
THEOREM LostOnlyByEarlierEnd == Spec => LostExactlyByEarlierEnd
<1> DEFINE Fair(o) ==
      InTransit(observers[o]) =>
        LET p == portals'[observers[o].portal]
        IN observers'[o].status = "LOST" <=> ~IsOpen(p) /\ p.closedAt < observers[o].endsAt
<1>1. IInv /\ [Next]_vars => [\A o \in Observers : Fair(o)]_vars
  <2> SUFFICES ASSUME IInv, Next, NEW o \in Observers, InTransit(observers[o])
               PROVE  Fair(o)
    OBVIOUS
  <2> DEFINE k == observers[o].portal
  <2>0. /\ observers[o] \in Observer /\ k \in PortalIDs /\ IsOpen(portals[k])
        /\ observers[o].endsAt \in Nat /\ observers[o].status # "LOST"
    BY Travelling
  <2>1. ASSUME NEW now \in (tickAt + 1)..MaxTime, Tick(now) PROVE Fair(o)
    <3> DEFINE ps == ResolvedPortals(now)
               r == ResolvedObservers(ps, now)[o]
    <3>1. now \in Nat /\ tickAt <= now
      BY ConfigTypes DEF IInv, TypeOK, Time
    <3>2. ps \in [PortalIDs -> Portal] /\ GoodPortals(ps, now)
      BY <3>1, PortalStage
    <3>3. ~IsOpen(ps[k]) => ps[k].closedAt \in Nat /\ ps[k].closedAt <= now
      BY <2>0, <3>1, <3>2, TerminalClosedAt DEF GoodPortals
    <3>4. r = ResolveObserverLifecycle(observers[o], ps, now)
      BY DEF ResolvedObservers
    <3>5. portals'[k].status = ps[k].status /\ portals'[k].closedAt = ps[k].closedAt
      BY <2>0, <2>1, <3>1, TickPortals
    <3>6. \/ observers'[o] = r
          \/ r.status = "WAITING_RETURN" /\ observers'[o].status = "RETURNING"
      BY <2>1, <3>1, TickObservers
    <3> HIDE DEF ps, r
    <3>7. r.status = "LOST" <=> ~IsOpen(ps[k]) /\ ps[k].closedAt < observers[o].endsAt
      BY <2>0, <3>1, <3>3, <3>4, LifecycleOutcome
    <3> QED BY <3>5, <3>6, <3>7 DEF IsOpen
  <2>2. CASE Command
    <3>1. \/ /\ observers'[o] = observers[o]
             /\ portals'[k].status = "OPEN"
          \/ /\ portals'[k].status = "CLOSED"
             /\ portals'[k].closedAt = tickAt
             /\ tickAt < observers[o].endsAt
             /\ observers'[o].status = "LOST"
      BY <2>2, CommandTransits
    <3> QED BY <2>0, <3>1 DEF IsOpen
  <2>3. CASE TickAgain
    BY <2>0, <2>3 DEF TickAgain, vars
  <2> QED BY <2>1, <2>2, <2>3 DEF Next
<1> QED BY <1>1, Inductive, PTL DEF Spec, LostExactlyByEarlierEnd


(* The returns a tick resolves arrive at proper instants.                  *)
LEMMA ReturnTimesNat ==
    ASSUME IInv, NEW os, NEW pl
    PROVE  ReturnTimes(os, pl) \in SUBSET Nat
<1> SUFFICES ASSUME NEW o \in Observers, observers[o].status = "RETURNING"
             PROVE  observers[o].endsAt \in Nat
  BY DEF ReturnTimes
<1> QED BY Travelling DEF InTransit

(* Only a tick dates a plane, only once, and with the earliest of the      *)
(* returns it resolves together (resolveObserverStage).                    *)
THEOREM ExplorationIsDatedOnce == Spec => ExplorationDatedOnce
<1> DEFINE Returns(pl) ==
      {observers[o].endsAt :
         o \in {q \in Observers : /\ observers[q].status = "RETURNING"
                                  /\ observers[q].plane = pl
                                  /\ observers'[q].status = "AVAILABLE"}}
    Dated(pl) ==
      exploredAt'[pl] # exploredAt[pl] =>
        /\ exploredAt[pl] = Nil
        /\ exploredAt'[pl] \in Returns(pl)
        /\ \A t \in Returns(pl) : exploredAt'[pl] <= t
<1>1. IInv /\ [Next]_vars => [\A pl \in Planes : Dated(pl)]_vars
  <2> SUFFICES ASSUME IInv, Next, NEW pl \in Planes PROVE Dated(pl)
    OBVIOUS
  <2>1. ASSUME NEW now \in (tickAt + 1)..MaxTime, Tick(now) PROVE Dated(pl)
    <3> DEFINE os == ResolvedObservers(ResolvedPortals(now), now)
               times == ReturnTimes(os, pl)
    <3>1. now \in Nat /\ tickAt <= now
      BY ConfigTypes DEF IInv, TypeOK, Time
    <3>2. \A q \in Observers : observers'[q].status = "AVAILABLE"
                                 <=> os[q].status = "AVAILABLE"
      BY <2>1, <3>1, TickObservers
    <3>3. exploredAt' = ExploredPlanes(os)
      BY <2>1 DEF Tick
    <3> HIDE DEF os
    <3>4. Returns(pl) = times
      BY <3>2 DEF ReturnTimes
    <3>5. exploredAt'[pl] = IF exploredAt[pl] = Nil /\ times # {}
                            THEN Min(times) ELSE exploredAt[pl]
      BY <3>3 DEF ExploredPlanes
    <3>6. times \in SUBSET Nat
      BY ReturnTimesNat
    <3> HIDE DEF times, Returns
    <3>7. CASE exploredAt[pl] = Nil /\ times # {}
      <4>1. Min(times) \in times /\ \A t \in times : Min(times) <= t
        BY <3>6, <3>7, MinNat
      <4> QED BY <3>4, <3>5, <3>7, <4>1
    <3> QED BY <3>5, <3>7
  <2>2. CASE Command
    BY <2>2, CommandPortals
  <2>3. CASE TickAgain
    BY <2>3 DEF TickAgain, vars
  <2> QED BY <2>1, <2>2, <2>3 DEF Next
<1> QED BY <1>1, Inductive, PTL DEF Spec, ExplorationDatedOnce

-----------------------------------------------------------------------------
(* The synchronization of extraction portals                               *)

(* Since when somebody who waits after the observer stage has been         *)
(* waiting, from what was known of them before it.                         *)
WaitingSince(o) ==
    CASE o.status = "WAITING_RETURN" -> o.startedAt
      [] o.status = "EXPLORING" -> o.endsAt
      [] OTHER -> o.endsAt + ResearchDuration

(* The wait begins when the research ended, however many transitions the   *)
(* observer stage crossed in one tick.                                     *)
LEMMA WaitingFromResearch ==
    ASSUME NEW o \in Observer, NEW ps, NEW now,
           ResolveObserverLifecycle(o, ps, now).status = "WAITING_RETURN"
    PROVE  ResolveObserverLifecycle(o, ps, now).startedAt = WaitingSince(o)
<1> DEFINE r == ResolveObserverLifecycle(o, ps, now)
<1>1. CASE o.status = "OUTBOUND"
  <2> DEFINE a == ResolveOutbound(o, ps[o.portal], now)
  <2>1. r = ResolveResearch(a, now)
    BY <1>1 DEF ResolveObserverLifecycle
  <2>2. CASE a.status # "EXPLORING"
    <3>1. r = a
      BY <2>1, <2>2 DEF ResolveResearch
    <3>2. a.status \in {"LOST", "EXPLORING", "OUTBOUND"}
      BY <1>1 DEF ResolveOutbound, AtHome
    <3> QED BY <3>1, <3>2
  <2>3. CASE a.status = "EXPLORING"
    <3>1. a.endsAt = o.endsAt + ResearchDuration
      BY <1>1, <2>3 DEF ResolveOutbound, AtHome
    <3>2. DOMAIN a = {"status", "plane", "portal", "startedAt", "endsAt", "updatedAt"}
      BY <1>1, <2>3 DEF ResolveOutbound, AtHome
    <3> HIDE DEF a
    <3>3. r.startedAt = a.endsAt
      BY <2>1, <2>3, <3>2 DEF ResolveResearch
    <3> QED BY <1>1, <3>1, <3>3 DEF WaitingSince
  <2> QED BY <2>2, <2>3
<1>2. CASE o.status = "EXPLORING"
  <2>1. r = ResolveResearch(o, now)
    BY <1>2 DEF ResolveObserverLifecycle
  <2>2. r.startedAt = o.endsAt
    BY <1>2, <2>1 DEF ResolveResearch, Observer
  <2> QED BY <1>2, <2>2 DEF WaitingSince
<1>3. CASE o.status = "RETURNING"
  <2>1. r.status \in {"LOST", "AVAILABLE", "RETURNING"}
    BY <1>3 DEF ResolveObserverLifecycle, ResolveReturning, AtHome
  <2> QED BY <2>1
<1>4. CASE o.status \notin {"OUTBOUND", "EXPLORING", "RETURNING"}
  <2>1. r = o
    BY <1>4 DEF ResolveObserverLifecycle
  <2> QED BY <2>1 DEF WaitingSince
<1> QED BY <1>1, <1>2, <1>3, <1>4

(* Two portals never recall the same observer: a portal chooses among      *)
(* those no lower ID has taken.                                            *)
LEMMA PicksDiffer ==
    ASSUME NEW ps, NEW os, NEW due \in SUBSET Nat, NEW picks \in AutoRecalls(ps, os, due),
           NEW i \in due, NEW j \in due, picks[i] = picks[j], picks[i] # Nil
    PROVE  i = j
<1>1. \A k \in due : picks[k] # Nil => picks[k] \in LeftFor(ps, os, due, picks, k)
  BY DEF AutoRecalls, LongestWaiting
<1>2. ~(i < j) /\ ~(j < i)
  BY <1>1 DEF LeftFor
<1> QED BY <1>2

(* The portals that synchronize in a tick serve in turn: whoever a portal  *)
(* brings home waited longest of those no lower ID took, and an empty      *)
(* portal leaves nobody waiting.                                           *)
LEMMA TickServes ==
    ASSUME IInv, NEW now \in Nat, tickAt <= now, Tick(now), NEW i \in PortalIDs,
           portals[i].syncedAt = Nil, portals'[i].syncedAt # Nil
    PROVE  LET waiting == WaitingOn(observers', portals[i].plane)
               served == TransitThrough(observers', i)
           IN IF served = {} THEN waiting = {}
              ELSE \A o \in served, q \in waiting :
                     WaitingSince(observers[o]) <= WaitingSince(observers[q])
<1> DEFINE ps == ResolvedPortals(now)
           os == ResolvedObservers(ps, now)
           due == SyncDue(ps, now)
           waiting == WaitingOn(observers', portals[i].plane)
           served == TransitThrough(observers', i)
<1>1. PICK picks \in AutoRecalls(ps, os, due) :
        \E durations \in [{j \in due : picks[j] # Nil} -> TransitDurations] :
           observers' = Recalled(ps, os, picks, durations)
  BY DEF Tick
<1>2. PICK durations \in [{j \in due : picks[j] # Nil} -> TransitDurations] :
           observers' = Recalled(ps, os, picks, durations)
  BY <1>1
<1>3. i \in due
  BY TickPortals
<1>4. /\ ps \in [PortalIDs -> Portal] /\ ps[i].plane = portals[i].plane
      /\ \A o \in Observers : os[o] = ResolveObserverLifecycle(observers[o], ps, now)
  BY PortalStage DEF ResolvedObservers
<1>5. /\ os \in [Observers -> Observer]
      /\ \A o \in Observers : ValidObserver(os[o], ps, now)
      /\ TransitThrough(os, i) = {}
  BY <1>3, ObserversStage, SyncAlwaysAdmitted DEF GoodObservers
<1>6. due \in SUBSET Nat
  BY <1>4 DEF SyncDue, PortalIDs
<1>7. \A o \in Observers : observers[o] \in Observer
  BY DEF IInv, TypeOK
<1> HIDE DEF ps, os, due
<1>8. DOMAIN durations = {j \in due : picks[j] # Nil} /\ Nil \notin Observers
  BY <1>2 DEF Observers, Nil
<1>9. \A j \in DOMAIN durations : picks[j] \in LeftFor(ps, os, due, picks, j)
  BY <1>8 DEF AutoRecalls, LongestWaiting
(* Who is recalled travels through the portal that picked them.            *)
<1>10. ASSUME NEW j \in DOMAIN durations
       PROVE  /\ picks[j] \in Observers
              /\ InTransit(observers'[picks[j]]) /\ observers'[picks[j]].portal = j
  <2> DEFINE o == picks[j]
  <2>1. o \in Observers
    BY <1>9, <1>10 DEF LeftFor, WaitingOn
  <2>2. \A k \in DOMAIN durations : picks[k] = o => k = j
    BY <1>6, <1>8, PicksDiffer
  <2>3. (CHOOSE k \in DOMAIN durations : picks[k] = o) = j
    BY <2>2
  <2>4. observers'[o] = StartTransit(os[o], "RETURNING", j, SyncAt(ps[j]), durations[j])
    BY <1>2, <2>1, <2>3 DEF Recalled
  <2> HIDE DEF o
  <2>5. observers'[o].status = "RETURNING" /\ observers'[o].portal = j
    BY <1>5, <2>1, <2>4 DEF StartTransit, Observer
  <2> QED BY <2>1, <2>5 DEF InTransit, o
<1>11. \A o \in Observers : (\A j \in DOMAIN durations : picks[j] # o) => observers'[o] = os[o]
  BY <1>2 DEF Recalled
(* Who still waits was left for portal i.                                  *)
<1>12. waiting \subseteq LeftFor(ps, os, due, picks, i)
  <2> SUFFICES ASSUME NEW q \in waiting PROVE q \in LeftFor(ps, os, due, picks, i)
    OBVIOUS
  <2>1. q \in Observers /\ ~InTransit(observers'[q])
        /\ observers'[q].status = "WAITING_RETURN" /\ observers'[q].plane = portals[i].plane
    BY DEF WaitingOn, InTransit
  <2>2. \A j \in DOMAIN durations : picks[j] # q
    BY <1>10, <2>1
  <2>3. \A j \in due : picks[j] # q
    BY <1>8, <2>1, <2>2
  <2> QED BY <1>4, <1>11, <2>1, <2>2, <2>3 DEF LeftFor, WaitingOn
<1>13. CASE served = {}
  <2>1. i \notin DOMAIN durations
    BY <1>10, <1>13 DEF TransitThrough
  <2>2. LeftFor(ps, os, due, picks, i) = {}
    <3> SUFFICES ASSUME LeftFor(ps, os, due, picks, i) # {} PROVE FALSE
      OBVIOUS
    <3>1. picks[i] \in LongestWaiting(os, LeftFor(ps, os, due, picks, i))
      BY <1>3 DEF AutoRecalls
    <3>2. picks[i] \in Observers
      BY <3>1 DEF LongestWaiting, LeftFor, WaitingOn
    <3> QED BY <1>3, <1>8, <2>1, <3>2
  <2> QED BY <1>12, <1>13, <2>2
<1>14. ASSUME NEW o \in served, NEW q \in waiting
       PROVE  WaitingSince(observers[o]) <= WaitingSince(observers[q])
  <2>1. o \in Observers /\ InTransit(observers'[o]) /\ observers'[o].portal = i
    BY <1>14 DEF TransitThrough
  <2>2. observers'[o] # os[o]
    BY <1>5, <2>1 DEF TransitThrough
  <2>3. PICK j \in DOMAIN durations : picks[j] = o
    BY <1>11, <2>1, <2>2
  <2>4. picks[i] = o /\ i \in DOMAIN durations
    BY <1>10, <2>1, <2>3
  <2> DEFINE left == LeftFor(ps, os, due, picks, i)
  <2>5. o \in left /\ q \in left
    BY <1>9, <1>12, <1>14, <2>4
  <2>6. o \in LongestWaiting(os, left)
    BY <1>3, <2>4, <2>5 DEF AutoRecalls
  <2>7. WaitsLonger(os, o, q)
    BY <2>5, <2>6 DEF LongestWaiting
  <2>8. \A p \in left : p \in Observers /\ os[p].status = "WAITING_RETURN"
    BY DEF LeftFor, WaitingOn
  <2> HIDE DEF left
  <2>9. \A p \in left : os[p].startedAt \in Nat /\ os[p].startedAt = WaitingSince(observers[p])
    <3> SUFFICES ASSUME NEW p \in left
                 PROVE  os[p].startedAt \in Nat /\ os[p].startedAt = WaitingSince(observers[p])
      OBVIOUS
    <3>1. os[p].startedAt \in Nat
      BY <1>5, <2>8 DEF ValidObserver, Observer, OptTime, Time
    <3> QED BY <1>4, <1>7, <2>8, <3>1, WaitingFromResearch
  <2> QED BY <2>5, <2>7, <2>9 DEF WaitsLonger
<1> QED BY <1>13, <1>14

(* A portal that synchronizes brings home whoever has waited longest on    *)
(* its plane, also when several portals to one plane synchronize in the    *)
(* same late tick (resolveExtractionStage).                                *)
THEOREM LongestWaitingServed == Spec => SynchronizationServesLongest
<1> DEFINE Served(i) ==
      portals[i].syncedAt = Nil /\ portals'[i].syncedAt # Nil =>
        LET waiting == WaitingOn(observers', portals[i].plane)
            served == TransitThrough(observers', i)
            since(o) ==
              CASE observers[o].status = "WAITING_RETURN" -> observers[o].startedAt
                [] observers[o].status = "EXPLORING" -> observers[o].endsAt
                [] OTHER -> observers[o].endsAt + ResearchDuration
        IN IF served = {} THEN waiting = {}
           ELSE \A o \in served, q \in waiting : since(o) <= since(q)
<1>1. IInv /\ [Next]_vars => [\A i \in PortalIDs : Served(i)]_vars
  <2> SUFFICES ASSUME IInv, Next, NEW i \in PortalIDs PROVE Served(i)
    OBVIOUS
  <2>1. ASSUME NEW now \in (tickAt + 1)..MaxTime, Tick(now) PROVE Served(i)
    <3>1. now \in Nat /\ tickAt <= now
      BY ConfigTypes DEF IInv, TypeOK, Time
    <3> QED BY <2>1, <3>1, TickServes DEF WaitingSince
  <2>2. CASE Command
    BY <2>2, CommandPortals
  <2>3. CASE TickAgain
    BY <2>3 DEF TickAgain, vars
  <2> QED BY <2>1, <2>2, <2>3 DEF Next
<1> QED BY <1>1, Inductive, PTL DEF Spec, SynchronizationServesLongest

=============================================================================
