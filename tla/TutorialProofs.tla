--------------------------- MODULE TutorialProofs ---------------------------
(***************************************************************************)
(* What TLAPS proves of Tutorial, for every configuration the code accepts *)
(* in which the prepared portals are usable, every number of planes,       *)
(* observers and slots and every value of the bounds.                      *)
(*                                                                         *)
(* The inductive invariant TInv carries the laboratory's own invariant     *)
(* IInv through the hooks that put portals into it, and describes what the *)
(* scenario may rely on in the middle of an operation, when a tick has     *)
(* ended or a command has used up the target and the hook that repairs it  *)
(* is still to come (Offer, Follow).  The same is said of the state a      *)
(* failing hook rolls back to.                                             *)
(***************************************************************************)
EXTENDS Tutorial, SimulationStepProofs

-----------------------------------------------------------------------------
(* The inductive invariant                                                 *)

(* IInv without the spawn schedule, of the state an operation would roll   *)
(* back to.                                                                *)
SoundLab(s) ==
    /\ s.nextPortalID \in Nat \ {0}
    /\ s.portals \in [1..(s.nextPortalID - 1) -> Portal]
    /\ s.observers \in [Observers -> Observer]
    /\ s.exploredAt \in [Planes -> OptTime]
    /\ s.lab \in Lab
    /\ s.tickAt \in Time
    /\ GoodPortals(s.portals, s.tickAt)
    /\ GoodObservers(s.observers, s.portals, s.tickAt)
    /\ s.lab.energyBaseAt <= s.tickAt
    /\ \A pl \in Planes : s.exploredAt[pl] <= s.tickAt

(* What the command under way has done with the target.                    *)
Did == IF op.portal = app.portal /\ ~op.critical THEN op.action ELSE "NONE"

(* The target of a step that needs one exists and serves its purpose,      *)
(* except that it may have ended, or that the command under way (did) has  *)
(* just used it.                                                           *)
Offer(a, ps, now, did) ==
    Prepared(a) =>
      /\ a.portal \in DOMAIN ps
      /\ ps[a.portal].plane = a.plane
      /\ a.step = 4 => ps[a.portal].stability = "UNSTABLE" \/ did = "STABILIZE"
      /\ a.step = 5 => /\ ps[a.portal].stability = "STABLE"
                       /\ RiskCritical(ps[a.portal], now)
      /\ a.phase = "SEND_REPLACEMENT" => ps[a.portal].flow # "INBOUND" \/ did = "RECALL"
      /\ a.phase = "RECALL_READY" => ps[a.portal].flow # "OUTBOUND" \/ did = "SEND"

(* Step 7 follows somebody who is on the way home from the step's plane,   *)
(* is lost, or has come home and made the plane explored.                  *)
Follow(a, os, ex) ==
    a.step = 7 =>
      /\ a.observer \in Observers /\ a.plane \in Planes
      /\ \/ os[a.observer].status = "RETURNING" /\ os[a.observer].plane = a.plane
         \/ os[a.observer].status = "LOST"
         \/ os[a.observer].status = "AVAILABLE" /\ ex[a.plane] # Nil

(* The fields of the script and their stages.                              *)
ScriptTypes ==
    /\ app \in AppState
    /\ stage \in {"open", "ticked", "settled", "commanded"}
    /\ stage # "commanded" => op = NoOp
    /\ app.step # 6 => app.phase = "NONE"

(* A command that moved an observer left it in the corridor it names.      *)
Departed ==
    stage = "commanded" /\ ~op.critical =>
      /\ op.action = "SEND" =>
           \E o \in Observers : /\ observers[o].status = "OUTBOUND"
                                /\ observers[o].portal = op.portal
      /\ op.action = "RECALL" =>
           \E o \in Observers : /\ observers[o].status = "RETURNING"
                                /\ observers[o].portal = op.portal

(* What an operation started from is sound, the script included.           *)
SoundStart(s) ==
    /\ SoundLab(s)
    /\ s.app \in AppState
    /\ s.app.step # 6 => s.app.phase = "NONE"
    /\ Offer(s.app, s.portals, s.tickAt, "NONE")
    /\ Follow(s.app, s.observers, s.exploredAt)

(* The state to roll back to is as good as the one the operation found.    *)
SavedSound == stage # "open" => SoundStart(saved)

TInv ==
    /\ IInv
    /\ ScriptTypes
    /\ Offer(app, portals, tickAt, Did)
    /\ Follow(app, observers, exploredAt)
    /\ Departed
    /\ SavedSound
    /\ TargetOffered
    /\ ReturnAwaited

-----------------------------------------------------------------------------
(* The laboratory's invariant across an operation                          *)

(* What an operation keeps to roll back to is sound.                       *)
LEMMA SnapshotSound ==
    ASSUME IInv
    PROVE  SoundLab(Snapshot)
BY DEF SoundLab, Snapshot, IInv, TypeOK, GoodRest, PortalIDs

(* A sound laboratory whose generator is paused satisfies the invariant.   *)
LEMMA SoundNext ==
    ASSUME NEW s, SoundLab(s),
           portals' = s.portals, nextPortalID' = s.nextPortalID,
           observers' = s.observers, exploredAt' = s.exploredAt,
           lab' = s.lab, tickAt' = s.tickAt, spawn' = SpawnPaused
    PROVE  IInv'
<1>1. TypeOK'
  BY DEF SoundLab, TypeOK, PortalIDs, SpawnPaused, OptTime, Time
<1>2. GoodRest'
  <2>1. spawn'.paused BY DEF SpawnPaused
  <2> QED BY <2>1 DEF SoundLab, GoodRest, ValidSpawn
<1> QED BY <1>1, <1>2 DEF IInv, SoundLab

(* The laboratory in which the tutorial starts.                            *)
Fresh ==
    [portals |-> << >>, nextPortalID |-> 1,
     observers |-> [o \in Observers |-> AtHome("AVAILABLE", 0)],
     exploredAt |-> [pl \in Planes |-> Nil],
     lab |-> [energyBase |-> LabEnergyMax, energyBaseAt |-> 0, overrideUntil |-> Nil],
     tickAt |-> 0, app |-> Canonical("TUTORIAL", 0)]

(* NewTutorialState is a sound laboratory.                                 *)
LEMMA FreshSound == SoundLab(Fresh)
<1> DEFINE os == [o \in Observers |-> AtHome("AVAILABLE", 0)]
<1>1. << >> \in [1..0 -> Portal] /\ DOMAIN << >> = {}
  OBVIOUS
<1>2. GoodPortals(<< >>, 0)
  BY <1>1 DEF GoodPortals, DistinctSlots, OpenIDs
<1>3. ASSUME NEW o \in Observers
      PROVE  os[o] \in Observer /\ ValidObserver(os[o], << >>, 0) /\ ~InTransit(os[o])
  BY AtHomeGood
<1>4. os \in [Observers -> Observer] /\ GoodObservers(os, << >>, 0)
  BY <1>3 DEF GoodObservers, TravelsWell
<1>5. Fresh.lab \in Lab /\ Fresh.lab.energyBaseAt = 0
  BY ConfigTypes DEF Fresh, Lab, OptTime, Time
<1>6. Fresh.exploredAt \in [Planes -> OptTime] /\ \A pl \in Planes : Fresh.exploredAt[pl] <= 0
  BY DEF Fresh, OptTime, Time, Nil
<1> QED BY <1>1, <1>2, <1>4, <1>5, <1>6 DEF SoundLab, Fresh, Time

-----------------------------------------------------------------------------
(* Prepared portals                                                        *)

(* A quotient grows with its dividend.                                     *)
LEMMA DivMono ==
    ASSUME NEW a \in Nat, NEW b \in Nat, a <= b, NEW d \in Nat \ {0}
    PROVE  a \div d <= b \div d
<1> DEFINE q == a \div d
           r == b \div d
<1>1. q \in Nat /\ r \in Nat
  BY DivNat
<1>2. q * d <= a
  OBVIOUS
<1>3. b < (r + 1) * d
  OBVIOUS
<1> HIDE DEF q, r
<1>4. CASE r + 1 <= q
  <2>1. (r + 1) * d <= q * d
    BY <1>1, <1>4, MulMono
  <2>2. (r + 1) * d \in Nat /\ q * d \in Nat
    BY <1>1
  <2> QED BY <1>2, <1>3, <2>1, <2>2
<1>5. CASE ~(r + 1 <= q)
  BY <1>1, <1>5 DEF q, r
<1> QED BY <1>4, <1>5

(* The risk of a portal that is left alone never falls.                    *)
LEMMA RiskMonotone ==
    ASSUME NEW p \in Portal, NEW t \in Nat, NEW now \in Nat, t <= now, RiskCritical(p, t)
    PROVE  RiskCritical(p, now)
<1> DEFINE gone(x) == Floor0(x - p.energyBaseAt)
           left(x) == Floor0(p.scheduledCloseAt - x)
           last(x) == CurrentEnergy(p, x) \div p.decay
<1>1. /\ p.energyBase \in Nat /\ p.energyBaseAt \in Nat /\ p.decay \in Nat \ {0}
      /\ p.scheduledCloseAt \in Nat /\ RiskSafeHorizon \in Nat
      /\ RiskInstabilityPenalty \in Nat
  BY ConfigTypes DEF Portal, Time
<1>2. gone(t) \in Nat /\ gone(now) \in Nat /\ gone(t) <= gone(now)
  BY <1>1 DEF Floor0
<1>3. gone(t) * p.decay <= gone(now) * p.decay
      /\ gone(t) * p.decay \in Int /\ gone(now) * p.decay \in Int
  <2> HIDE DEF gone
  <2> QED BY <1>1, <1>2, MulMono
<1>4. /\ CurrentEnergy(p, t) \in Nat /\ CurrentEnergy(p, now) \in Nat
      /\ CurrentEnergy(p, now) <= CurrentEnergy(p, t)
  <2> DEFINE u == gone(t) * p.decay
             v == gone(now) * p.decay
  <2>1. CurrentEnergy(p, t) = Floor0(p.energyBase - u)
        /\ CurrentEnergy(p, now) = Floor0(p.energyBase - v)
    BY DEF CurrentEnergy
  <2>2. u \in Int /\ v \in Int /\ u <= v BY <1>3
  <2> HIDE DEF u, v
  <2> QED BY <1>1, <2>1, <2>2 DEF Floor0
<1>5. last(t) \in Nat /\ last(now) \in Nat /\ last(now) <= last(t)
  BY <1>1, <1>4, DivNat, DivMono
<1>6. left(t) \in Nat /\ left(now) \in Nat /\ left(now) <= left(t)
  BY <1>1 DEF Floor0
<1>7. /\ EffectiveLifetime(p, t) = Least(left(t), last(t))
      /\ EffectiveLifetime(p, now) = Least(left(now), last(now))
  BY DEF EffectiveLifetime
<1> HIDE DEF gone, left, last
<1>8. /\ EffectiveLifetime(p, t) \in Nat /\ EffectiveLifetime(p, now) \in Nat
      /\ EffectiveLifetime(p, now) <= EffectiveLifetime(p, t)
  BY <1>5, <1>6, <1>7 DEF Least
<1> DEFINE extra == IF p.stability = "UNSTABLE"
                    THEN RiskInstabilityPenalty * RiskSafeHorizon ELSE 0
<1>9. extra \in Nat
  BY <1>1
<1>10. /\ RiskScore(p, t) = Floor0(RiskSafeHorizon - EffectiveLifetime(p, t)) * 100 + extra
       /\ RiskScore(p, now) = Floor0(RiskSafeHorizon - EffectiveLifetime(p, now)) * 100 + extra
  BY DEF RiskScore
<1> HIDE DEF extra
<1>11. /\ RiskScore(p, t) \in Nat /\ RiskScore(p, now) \in Nat
       /\ RiskScore(p, t) <= RiskScore(p, now)
  BY <1>1, <1>8, <1>9, <1>10 DEF Floor0
<1> QED BY <1>1, <1>11 DEF RiskCritical

(* The portal of step 5 is CRITICAL whenever it is opened, as the same     *)
(* portal opened at instant zero is (TutorialUsable).                      *)
LEMMA CriticalFromTheStart ==
    ASSUME NEW p \in Portal, NEW now \in Nat,
           p.energyBase = TutorialEnergy, p.energyBaseAt = now, p.decay = TutorialDecay,
           p.stability = "STABLE", p.scheduledCloseAt = now + CriticalTTL
    PROVE  RiskCritical(p, now)
<1> DEFINE n == NewTutorialPortal(5, 1, 1, 0)
<1>1. RiskCritical(n, 0)
  BY TutorialUsable
<1>2. /\ n.energyBase = TutorialEnergy /\ n.energyBaseAt = 0 /\ n.decay = TutorialDecay
      /\ n.stability = "STABLE" /\ n.scheduledCloseAt = 0 + CriticalTTL
  BY DEF NewTutorialPortal, NewPortal
<1> HIDE DEF n
<1>3. CriticalTTL \in Nat /\ now - now = 0 /\ (now + CriticalTTL) - now = CriticalTTL
      /\ (0 + CriticalTTL) - 0 = CriticalTTL /\ 0 - 0 = 0
  BY TutorialLiterals
<1>4. CurrentEnergy(p, now) = CurrentEnergy(n, 0)
  BY <1>2, <1>3 DEF CurrentEnergy
<1>5. EffectiveLifetime(p, now) = EffectiveLifetime(n, 0)
  BY <1>2, <1>3, <1>4 DEF EffectiveLifetime
<1>6. RiskScore(p, now) = RiskScore(n, 0)
  BY <1>2, <1>5 DEF RiskScore
<1> QED BY <1>1, <1>6 DEF RiskCritical

(* NewTutorialPortal makes a good portal, fit for its step.                *)
LEMMA PreparedGood ==
    ASSUME NEW step \in 1..6, NEW plane \in Planes, NEW slot \in Slots, NEW now \in Nat,
           NEW p, p = NewTutorialPortal(step, plane, slot, now)
    PROVE  /\ p \in Portal /\ GoodPortal(p, now)
           /\ p.slot = slot /\ p.plane = plane /\ p.flow = "NONE" /\ IsOpen(p)
           /\ step = 4 => p.stability = "UNSTABLE"
           /\ step = 5 => p.stability = "STABLE" /\ RiskCritical(p, now)
<1> DEFINE ttl == IF step = 5 THEN CriticalTTL ELSE TutorialTTL
           n == NewPortal("NATURAL", plane, slot, now, ttl, TutorialEnergy, TutorialDecay)
           energy == IF step = 4 THEN UnstableEnergy ELSE TutorialEnergy
           decay == IF step = 4 THEN UnstableDecay ELSE TutorialDecay
           st == IF step = 4 THEN "UNSTABLE" ELSE "STABLE"
           hidden == IF step = 4 THEN now + UnstableCollapse ELSE Nil
           creatures == IF step \in {1, 2} THEN TutorialCreatures ELSE 0
<1>0. /\ ttl \in Nat /\ ttl > 0 /\ energy \in Nat /\ decay \in Nat \ {0}
      /\ energy <= MaxPortalEnergy /\ hidden \in OptTime
      /\ creatures \in Nat /\ creatures <= CreatureMax
      /\ TutorialEnergy \in Nat /\ TutorialDecay \in Nat \ {0}
      /\ UnstableEnergy \in Nat /\ UnstableDecay \in Nat \ {0}
      /\ TutorialCreatures \in Nat /\ now + UnstableCollapse \in Nat
  BY TutorialLiterals, TutorialUsable, ConfigTypes, MaxPortalEnergyBounds DEF OptTime, Time
<1>1. n \in Portal
  BY <1>0 DEF NewPortal, Portal, Time, OptTime
<1>2. /\ n.slot = slot /\ n.kind = "NATURAL" /\ n.plane = plane
      /\ n.energyBase = TutorialEnergy /\ n.energyBaseAt = now /\ n.decay = TutorialDecay
      /\ n.stability = "STABLE" /\ n.collapseAt = Nil /\ n.openedAt = now
      /\ n.scheduledCloseAt = now + ttl /\ n.creatures = 0
      /\ n.flow = "NONE" /\ n.status = "OPEN" /\ n.reason = "NONE"
      /\ n.closedAt = Nil /\ n.syncedAt = Nil /\ n.updatedAt = now
  BY NewPortalFields
<1>3. /\ step \in {1, 2} => p = [n EXCEPT !.creatures = TutorialCreatures]
      /\ step = 4 => p = [n EXCEPT !.energyBase = UnstableEnergy, !.decay = UnstableDecay,
                                   !.stability = "UNSTABLE",
                                   !.collapseAt = now + UnstableCollapse]
      /\ step \in {3, 5, 6} => p = n
  BY DEF NewTutorialPortal
<1> HIDE DEF n, ttl
<1>4. p \in Portal
      /\ p.slot = slot /\ p.kind = "NATURAL" /\ p.plane = plane
      /\ p.energyBase = energy /\ p.energyBaseAt = now /\ p.decay = decay
      /\ p.stability = st /\ p.collapseAt = hidden /\ p.openedAt = now
      /\ p.scheduledCloseAt = now + ttl /\ p.creatures = creatures
      /\ p.flow = "NONE" /\ p.status = "OPEN" /\ p.reason = "NONE"
      /\ p.closedAt = Nil /\ p.syncedAt = Nil /\ p.updatedAt = now
  <2>1. CASE step \in {1, 2}
    BY <1>0, <1>1, <1>2, <1>3, <2>1 DEF Portal
  <2>2. CASE step = 4
    <3> DEFINE h == now + UnstableCollapse
    <3>1. p = [n EXCEPT !.energyBase = UnstableEnergy, !.decay = UnstableDecay,
                        !.stability = "UNSTABLE", !.collapseAt = h]
      BY <1>3, <2>2
    <3>2. /\ energy = UnstableEnergy /\ decay = UnstableDecay /\ st = "UNSTABLE"
          /\ hidden = h /\ creatures = 0 /\ h \in OptTime
      BY <1>0, <2>2 DEF OptTime, Time
    <3>3. UnstableEnergy \in Nat /\ UnstableDecay \in Nat \ {0}
      BY <1>0
    <3> HIDE DEF h, energy, decay, st, hidden, creatures
    <3>4. p \in Portal
      <4>1. [n EXCEPT !.energyBase = UnstableEnergy, !.decay = UnstableDecay,
                      !.stability = "UNSTABLE", !.collapseAt = h] \in Portal
        BY <1>1, <3>2, <3>3 DEF Portal
      <4> QED BY <3>1, <4>1
    <3> QED BY <1>1, <1>2, <3>1, <3>2, <3>4 DEF Portal
  <2>3. CASE step \in {3, 5, 6}
    BY <1>0, <1>1, <1>2, <1>3, <2>3
  <2> QED BY <2>1, <2>2, <2>3
<1>5. step = 4 => hidden \in now + InstabilityMinLifetime
                              .. now + ttl - InstabilityCloseMargin
  BY TutorialLiterals, TutorialUsable, ConfigTypes DEF ttl
<1> HIDE DEF energy, decay, creatures
<1>6. ValidPortal(p, now)
  BY <1>0, <1>4, <1>5, ConfigTypes DEF ValidPortal, IsOpen, Nil
<1>7. ExtractionFresh(p)
  BY <1>4 DEF ExtractionFresh
<1>8. p.stability = "UNSTABLE" => p.collapseAt >= now
  BY <1>0, <1>4, <1>5, ConfigTypes
<1>9. NotPast(p, now)
  BY <1>0, <1>4, <1>6, <1>8, FreshNotPast
<1>10. step = 5 => RiskCritical(p, now)
  BY <1>4, CriticalFromTheStart DEF energy, decay, ttl
<1> QED BY <1>4, <1>6, <1>7, <1>9, <1>10 DEF GoodPortal, IsOpen

-----------------------------------------------------------------------------
(* Drafts                                                                  *)

(* A hook's draft is a laboratory as sound as the one it started from.     *)
GoodDraft(t) ==
    /\ t = [ps |-> t.ps, next |-> t.next, app |-> t.app, err |-> t.err]
    /\ t.next \in Nat \ {0}
    /\ t.ps \in [1..(t.next - 1) -> Portal]
    /\ GoodPortals(t.ps, tickAt)
    /\ GoodObservers(observers, t.ps, tickAt)
    /\ t.app \in AppState

(* The target is as createTutorialTarget makes it for the step.            *)
NewlyOffered(t, step) ==
    /\ t.app.portal \in DOMAIN t.ps
    /\ Target(t).plane = t.app.plane /\ IsOpen(Target(t)) /\ Target(t).flow = "NONE"
    /\ step = 4 => Target(t).stability = "UNSTABLE"
    /\ step = 5 => Target(t).stability = "STABLE" /\ RiskCritical(Target(t), tickAt)

(* The part of the tutorial's state a new target leaves alone.             *)
SameScript(a, b) ==
    /\ a.mode = b.mode /\ a.step = b.step /\ a.phase = b.phase
    /\ a.observer = b.observer

(* The plane of the first target, when one is left, is a plane.            *)
LEMMA FirstPlane == firstTutorialPlane \in Planes \cup {Nil}
<1> DEFINE U == UnexploredPlanes
<1>1. U \in SUBSET Nat /\ U \subseteq Planes
  BY ConfigTypes DEF UnexploredPlanes, Planes
<1>2. firstTutorialPlane = IF U = {} THEN Nil ELSE Min(U)
  BY DEF firstTutorialPlane
<1> HIDE DEF U
<1>3. U # {} => Min(U) \in U
  BY <1>1, MinNat
<1> QED BY <1>1, <1>2, <1>3

(* createTutorialTarget either fails or adds one good portal, fit for the  *)
(* step, and names it.                                                     *)
LEMMA TargetCreated ==
    ASSUME IInv, NEW t, GoodDraft(t), NEW step \in 1..6, NEW plane \in Planes \cup {Nil},
           NEW r, r = createTutorialTarget(t, step, plane), r.err = "none"
    PROVE  /\ GoodDraft(r) /\ NewlyOffered(r, step)
           /\ SameScript(r.app, t.app)
           /\ r.app.plane \in Planes
           /\ plane # Nil => r.app.plane = plane
<1> DEFINE at == IF plane = Nil THEN firstTutorialPlane ELSE plane
           slot == FirstFreeSlot(t.ps)
           p == NewTutorialPortal(step, at, slot, tickAt)
           qs == [i \in 1..t.next |-> IF i = t.next THEN p ELSE t.ps[i]]
<1>1. /\ t = [ps |-> t.ps, next |-> t.next, app |-> t.app, err |-> t.err]
      /\ t.next \in Nat \ {0}
      /\ t.ps \in [1..(t.next - 1) -> Portal]
      /\ GoodPortals(t.ps, tickAt) /\ GoodObservers(observers, t.ps, tickAt)
      /\ t.app \in AppState
  BY DEF GoodDraft
<1>2. tickAt \in Nat /\ observers \in [Observers -> Observer]
  BY DEF IInv, TypeOK, Time
<1>3. at \in Planes \cup {Nil}
  BY FirstPlane
<1>4. /\ at = Nil => r = Failing(t, "ErrSimulationInvariant")
      /\ at # Nil /\ AtCapacity(t.ps) => r = Failing(t, "ErrNoFreePortalSlot")
      /\ at # Nil /\ ~AtCapacity(t.ps) =>
           r = [t EXCEPT !.ps = qs, !.next = t.next + 1,
                         !.app.portal = t.next, !.app.plane = at]
  BY DEF createTutorialTarget
<1> HIDE DEF at
<1>5. at \in Planes /\ at # Nil /\ ~AtCapacity(t.ps)
  <2>1. Failing(t, "ErrSimulationInvariant").err # "none"
        /\ Failing(t, "ErrNoFreePortalSlot").err # "none"
    BY <1>1 DEF Failing
  <2> QED BY <1>3, <1>4, <2>1
<1>6. slot \in FreeSlots(t.ps) /\ slot \in Slots
  BY <1>5, FirstFreeSlotFree
<1> HIDE DEF slot
<1>7. /\ p \in Portal /\ GoodPortal(p, tickAt)
      /\ p.slot = slot /\ p.plane = at /\ p.flow = "NONE" /\ IsOpen(p)
      /\ step = 4 => p.stability = "UNSTABLE"
      /\ step = 5 => p.stability = "STABLE" /\ RiskCritical(p, tickAt)
  BY <1>2, <1>5, <1>6, PreparedGood
<1> HIDE DEF p
<1>8. /\ qs \in [1..t.next -> Portal] /\ GoodPortals(qs, tickAt)
      /\ GoodObservers(observers, qs, tickAt)
  BY <1>1, <1>2, <1>6, <1>7, AddedGood
<1>9. qs[t.next] = p /\ t.next \in DOMAIN qs
  BY <1>1
<1> HIDE DEF qs
<1> DEFINE a == [t.app EXCEPT !.portal = t.next, !.plane = at]
<1>10. r = [ps |-> qs, next |-> t.next + 1, app |-> a, err |-> t.err]
  BY <1>1, <1>4, <1>5
<1>11. /\ a \in AppState /\ a.portal = t.next /\ a.plane = at
       /\ SameScript(a, t.app)
  BY <1>1, <1>5 DEF AppState, SameScript
<1> HIDE DEF a
<1>12. /\ r.ps = qs /\ r.next = t.next + 1 /\ r.app = a /\ r.err = t.err
  BY <1>10
<1>13. GoodDraft(r)
  <2>1. (t.next + 1) - 1 = t.next /\ t.next + 1 \in Nat \ {0}
    BY <1>1
  <2> QED BY <1>8, <1>10, <1>11, <1>12, <2>1 DEF GoodDraft
<1>14. NewlyOffered(r, step)
  <2>1. Target(r) = p
    BY <1>9, <1>11, <1>12 DEF Target
  <2> QED BY <1>7, <1>9, <1>11, <1>12, <2>1 DEF NewlyOffered
<1> QED BY <1>5, <1>11, <1>12, <1>13, <1>14 DEF at

(* The draft a hook starts from.                                           *)
LEMMA DraftGood ==
    ASSUME IInv, app \in AppState
    PROVE  /\ GoodDraft(Draft) /\ Draft.err = "none" /\ Draft.app = app
           /\ Draft.ps = portals /\ Draft.next = nextPortalID
BY DEF GoodDraft, Draft, IInv, TypeOK, PortalIDs

(* Moving the script leaves the laboratory of a draft alone.               *)
LEMMA ScriptMoved ==
    ASSUME NEW t, GoodDraft(t), NEW a \in AppState, NEW u, u = [t EXCEPT !.app = a]
    PROVE  /\ GoodDraft(u) /\ u.app = a /\ u.ps = t.ps /\ u.err = t.err
           /\ Target(u) = t.ps[a.portal]
<1>1. t = [ps |-> t.ps, next |-> t.next, app |-> t.app, err |-> t.err]
  BY DEF GoodDraft
<1>2. u = [ps |-> t.ps, next |-> t.next, app |-> a, err |-> t.err]
  BY <1>1
<1>3. u.ps = t.ps /\ u.next = t.next /\ u.app = a /\ u.err = t.err
  BY <1>2
<1> QED BY <1>2, <1>3 DEF GoodDraft, Target

(* What a hook must have restored before the operation ends.               *)
ScriptKept(t) ==
    /\ GoodDraft(t)
    /\ t.app.step # 6 => t.app.phase = "NONE"
    /\ Offer(t.app, t.ps, tickAt, "NONE")
    /\ Follow(t.app, observers, exploredAt)

TargetOpen(t) == Prepared(t.app) => IsOpen(Target(t))

(* A new target is on offer.                                               *)
LEMMA NewTargetOffered ==
    ASSUME NEW t, NewlyOffered(t, t.app.step)
    PROVE  Offer(t.app, t.ps, tickAt, "NONE") /\ TargetOpen(t)
BY DEF NewlyOffered, Offer, TargetOpen, Target

(* recreateTerminalTutorialTarget leaves an OPEN target of the same plane. *)
LEMMA TargetRecreated ==
    ASSUME IInv, NEW t, GoodDraft(t), t.err = "none",
           Offer(t.app, t.ps, tickAt, "NONE"),
           NEW r, r = recreateTerminalTutorialTarget(t), r.err = "none"
    PROVE  /\ GoodDraft(r) /\ SameScript(r.app, t.app)
           /\ Offer(r.app, r.ps, tickAt, "NONE") /\ TargetOpen(r)
           /\ r.app.plane = t.app.plane
           /\ ~Prepared(t.app) => r = t
<1>1. CASE HasTarget(t) /\ ~IsOpen(Target(t)) /\ Prepared(t.app)
  <2>1. r = createTutorialTarget(t, t.app.step, Target(t).plane)
    BY <1>1 DEF recreateTerminalTutorialTarget
  <2>2. /\ t.app.step \in 1..6 /\ Target(t).plane \in Planes
        /\ Target(t).plane = t.app.plane
    BY <1>1 DEF Prepared, HasTarget, Target, Offer, GoodDraft, Portal
  <2>3. Target(t).plane # Nil
    BY <2>2 DEF Planes, Nil
  <2>4. /\ GoodDraft(r) /\ NewlyOffered(r, t.app.step)
        /\ SameScript(r.app, t.app) /\ r.app.plane = t.app.plane
    BY <2>1, <2>2, <2>3, TargetCreated
  <2>5. r.app.step = t.app.step
    BY <2>4 DEF SameScript
  <2> QED BY <1>1, <2>4, <2>5, NewTargetOffered
<1>2. CASE ~(HasTarget(t) /\ ~IsOpen(Target(t)) /\ Prepared(t.app))
  <2>1. r = t
    BY <1>2 DEF recreateTerminalTutorialTarget
  <2>2. Prepared(t.app) => HasTarget(t)
    BY DEF Offer, HasTarget
  <2> QED BY <1>2, <2>1, <2>2 DEF SameScript, TargetOpen
<1> QED BY <1>1, <1>2

(* A replacement is asked for: step 6 with a new target.                   *)
LEMMA ReplacementOffered ==
    ASSUME IInv, NEW t, GoodDraft(t),
           NEW r, r = OfferReplacement(t), r.err = "none"
    PROVE  /\ ScriptKept(r) /\ TargetOpen(r)
           /\ r.app.mode = t.app.mode /\ r.app.step = 6
<1> DEFINE u == [t EXCEPT !.app.step = 6, !.app.phase = "SEND_REPLACEMENT"]
           a == [t.app EXCEPT !.step = 6, !.phase = "SEND_REPLACEMENT"]
<1>1. /\ t = [ps |-> t.ps, next |-> t.next, app |-> t.app, err |-> t.err]
      /\ t.app \in AppState
  BY DEF GoodDraft
<1>2. u = [t EXCEPT !.app = a]
  BY <1>1
<1>3. a \in AppState /\ a.step = 6 /\ a.mode = t.app.mode
  <2>1. a.step = 6 /\ a.mode = t.app.mode
    BY <1>1 DEF AppState
  <2>2. 6 \in 0..9 /\ "SEND_REPLACEMENT" \in Phases
    BY DEF Phases
  <2>3. a \in AppState
    BY <1>1, <2>2 DEF AppState
  <2> QED BY <2>1, <2>3
<1> HIDE DEF a, u
<1>4. GoodDraft(u) /\ u.app = a
  BY <1>2, <1>3, ScriptMoved
<1>5. r = createTutorialTarget(u, 6, t.app.plane) /\ t.app.plane \in Planes \cup {Nil}
  BY <1>1 DEF OfferReplacement, AppState, u
<1>6. GoodDraft(r) /\ NewlyOffered(r, 6) /\ SameScript(r.app, u.app)
  BY <1>4, <1>5, TargetCreated
<1>7. r.app.step = 6 /\ r.app.mode = t.app.mode
  BY <1>3, <1>4, <1>6 DEF SameScript
<1> QED BY <1>6, <1>7, NewTargetOffered DEF ScriptKept, Follow

(* A return is asked for: a new target on the observer's plane.            *)
LEMMA ReturnOffered ==
    ASSUME IInv, NEW t, GoodDraft(t), t.app.step = 6, Tracked(t) = "WAITING_RETURN",
           NEW r, r = OfferReturn(t), r.err = "none"
    PROVE  /\ ScriptKept(r) /\ TargetOpen(r)
           /\ r.app.mode = t.app.mode /\ r.app.step = 6
<1> DEFINE o == t.app.observer
           u == createTutorialTarget(t, 6, observers[o].plane)
           a == [u.app EXCEPT !.phase = "RECALL_READY"]
<1>1. o \in Observers /\ observers[o].status = "WAITING_RETURN"
  BY DEF Tracked, GoodDraft, AppState
<1>2. observers[o].plane \in Planes
  BY <1>1 DEF IInv, TypeOK, Observer, GoodObservers, ValidObserver
<1>3. r = [u EXCEPT !.app.phase = "RECALL_READY"]
  BY DEF OfferReturn
<1> HIDE DEF u
<1>4. u.err = "none"
  BY <1>3
<1>5. GoodDraft(u) /\ NewlyOffered(u, 6) /\ SameScript(u.app, t.app)
  BY <1>2, <1>4, TargetCreated DEF u
<1>6. /\ u = [ps |-> u.ps, next |-> u.next, app |-> u.app, err |-> u.err]
      /\ u.app \in AppState
  BY <1>5 DEF GoodDraft
<1>7. r = [u EXCEPT !.app = a]
  BY <1>3, <1>6
<1>8. /\ a \in AppState /\ a.step = u.app.step /\ a.mode = u.app.mode
      /\ a.portal = u.app.portal /\ a.plane = u.app.plane
  BY <1>6 DEF AppState, Phases
<1> HIDE DEF a
<1>9. GoodDraft(r) /\ r.app = a /\ r.ps = u.ps
  BY <1>5, <1>7, <1>8, ScriptMoved
<1>10. NewlyOffered(r, 6) /\ r.app.step = 6 /\ r.app.mode = t.app.mode
  BY <1>5, <1>8, <1>9 DEF NewlyOffered, Target, SameScript
<1> QED BY <1>9, <1>10, NewTargetOffered DEF ScriptKept, Follow

-----------------------------------------------------------------------------
(* The hook after a tick                                                   *)

(* Step 7 has somebody to wait for.                                        *)
ReturnUnderWay(t) ==
    t.app.step = 7 => /\ observers[t.app.observer].status = "RETURNING"
                      /\ observers[t.app.observer].plane = t.app.plane

(* What a settled tick promises of the script.                             *)
Restored(t) ==
    ScriptKept(t) /\ TargetOpen(t) /\ ReturnUnderWay(t) /\ t.app.mode = app.mode

(* The script as an operation finds it between two hooks.                  *)
ScriptFound ==
    /\ IInv /\ app \in AppState
    /\ app.step # 6 => app.phase = "NONE"
    /\ Offer(app, portals, tickAt, "NONE")
    /\ Follow(app, observers, exploredAt)

(* Recreating a terminal target keeps the script.                          *)
LEMMA RecreationKeeps ==
    ASSUME ScriptFound, NEW r, r = recreateTerminalTutorialTarget(Draft), r.err = "none"
    PROVE  /\ ScriptKept(r) /\ TargetOpen(r) /\ SameScript(r.app, app)
           /\ r.app.plane = app.plane
           /\ ~Prepared(app) => r = Draft
<1>1. /\ GoodDraft(Draft) /\ Draft.err = "none" /\ Draft.app = app /\ Draft.ps = portals
  BY DraftGood DEF ScriptFound
<1>2. /\ GoodDraft(r) /\ SameScript(r.app, app)
      /\ Offer(r.app, r.ps, tickAt, "NONE") /\ TargetOpen(r)
      /\ r.app.plane = app.plane
      /\ ~Prepared(app) => r = Draft
  BY <1>1, TargetRecreated DEF ScriptFound
<1>3. Follow(r.app, observers, exploredAt) /\ (r.app.step # 6 => r.app.phase = "NONE")
  BY <1>2 DEF ScriptFound, Follow, SameScript
<1> QED BY <1>2, <1>3 DEF ScriptKept

(* Step 2 ends when the corridor is empty.                                 *)
LEMMA CorridorHook ==
    ASSUME IInv, NEW r, ScriptKept(r), TargetOpen(r), r.app.step = 2,
           NEW u, u = CorridorCleared(r), u.err = "none"
    PROVE  /\ ScriptKept(u) /\ TargetOpen(u) /\ u.app.step \in {2, 3}
           /\ u.app.mode = r.app.mode
<1> DEFINE a == [r.app EXCEPT !.step = 3]
<1>1. GoodDraft(r) /\ Offer(r.app, r.ps, tickAt, "NONE") /\ HasTarget(r)
  BY DEF ScriptKept, Offer, Prepared, HasTarget
<1>2. u = r \/ u = [r EXCEPT !.app.step = 3]
  BY <1>1 DEF CorridorCleared
<1>3. CASE u = r
  BY <1>3
<1>4. CASE u = [r EXCEPT !.app.step = 3]
  <2>0. /\ r = [ps |-> r.ps, next |-> r.next, app |-> r.app, err |-> r.err]
        /\ r.app \in AppState
    BY <1>1 DEF GoodDraft
  <2>1. /\ a \in AppState /\ a.step = 3 /\ a.phase = "NONE" /\ a.mode = r.app.mode
        /\ a.portal = r.app.portal /\ a.plane = r.app.plane
    BY <2>0 DEF AppState, ScriptKept
  <2>2. u = [r EXCEPT !.app = a]
    BY <1>4, <2>0
  <2> HIDE DEF a
  <2>3. GoodDraft(u) /\ u.app = a /\ u.ps = r.ps /\ Target(u) = r.ps[a.portal]
    BY <1>1, <2>1, <2>2, ScriptMoved
  <2>4. Prepared(r.app) /\ Target(u) = Target(r)
    BY <2>1, <2>3 DEF Prepared, Target
  <2>5. /\ r.app.portal \in DOMAIN r.ps /\ r.ps[r.app.portal].plane = r.app.plane
        /\ IsOpen(Target(r))
    BY <1>1, <2>4 DEF Offer, TargetOpen
  <2>6. Offer(a, r.ps, tickAt, "NONE")
    BY <2>1, <2>5 DEF Offer
  <2>7. Offer(u.app, u.ps, tickAt, "NONE") /\ TargetOpen(u)
    BY <2>3, <2>4, <2>5, <2>6 DEF TargetOpen
  <2> QED BY <2>1, <2>3, <2>7 DEF ScriptKept, Follow
<1> QED BY <1>2, <1>3, <1>4

(* Step 6 follows the observer through research.                           *)
LEMMA ResearchHook ==
    ASSUME IInv, NEW r, ScriptKept(r), TargetOpen(r), r.app.step = 6,
           NEW u, u = ResearchFollowed(r), u.err = "none"
    PROVE  /\ ScriptKept(u) /\ TargetOpen(u) /\ u.app.step = 6
           /\ u.app.mode = r.app.mode
<1>0. GoodDraft(r)
  BY DEF ScriptKept
<1>1. \/ u = r
      \/ u = OfferReplacement(r)
      \/ u = OfferReturn(r) /\ Tracked(r) = "WAITING_RETURN"
  BY Zenon DEF ResearchFollowed
<1>2. CASE u = r
  BY <1>2
<1>3. CASE u = OfferReplacement(r)
  BY <1>0, <1>3, ReplacementOffered
<1>4. CASE u = OfferReturn(r) /\ Tracked(r) = "WAITING_RETURN"
  BY <1>0, <1>4, ReturnOffered
<1> QED BY <1>1, <1>2, <1>3, <1>4

(* Step 7 ends when the observer is home, and begins again with another    *)
(* one when it is lost.                                                    *)
LEMMA ReturnHook ==
    ASSUME IInv, NEW r, ScriptKept(r), TargetOpen(r), r.app.step = 7,
           NEW u, u = ReturnFollowed(r), u.err = "none"
    PROVE  /\ ScriptKept(u) /\ TargetOpen(u) /\ ReturnUnderWay(u)
           /\ u.app.mode = r.app.mode
<1> DEFINE o == r.app.observer
           a == [r.app EXCEPT !.step = 8, !.phase = "NONE", !.portal = Nil]
<1>0. GoodDraft(r) /\ Follow(r.app, observers, exploredAt)
  BY DEF ScriptKept
<1>1. /\ o \in Observers
      /\ \/ observers[o].status = "RETURNING" /\ observers[o].plane = r.app.plane
         \/ observers[o].status = "LOST"
         \/ observers[o].status = "AVAILABLE" /\ exploredAt[r.app.plane] # Nil
  BY <1>0 DEF Follow
<1>2. Tracked(r) = observers[o].status
  BY <1>1 DEF Tracked, Observers, Nil
<1>3. CASE observers[o].status = "RETURNING" /\ observers[o].plane = r.app.plane
  <2>1. u = r
    BY <1>2, <1>3 DEF ReturnFollowed
  <2> QED BY <1>3, <2>1 DEF ReturnUnderWay
<1>4. CASE observers[o].status = "LOST"
  <2>1. u = OfferReplacement(r)
    BY <1>2, <1>4 DEF ReturnFollowed
  <2> QED BY <1>0, <2>1, ReplacementOffered DEF ReturnUnderWay
<1>5. CASE observers[o].status = "AVAILABLE" /\ exploredAt[r.app.plane] # Nil
  <2>1. u = [r EXCEPT !.app.step = 8, !.app.phase = "NONE", !.app.portal = Nil]
    BY <1>2, <1>5 DEF ReturnFollowed
  <2>2. /\ r = [ps |-> r.ps, next |-> r.next, app |-> r.app, err |-> r.err]
        /\ r.app \in AppState
    BY <1>0 DEF GoodDraft
  <2>3. /\ a.step = 8 /\ a.phase = "NONE" /\ a.mode = r.app.mode
    BY <2>2 DEF AppState
  <2>4. a \in AppState
    <3>1. 8 \in 0..9 /\ "NONE" \in Phases
      BY DEF Phases
    <3> QED BY <2>2, <3>1 DEF AppState
  <2>5. u = [r EXCEPT !.app = a]
    BY <2>1, <2>2
  <2> HIDE DEF a
  <2>6. GoodDraft(u) /\ u.app = a
    BY <1>0, <2>4, <2>5, ScriptMoved
  <2>7. ~Prepared(u.app) /\ u.app.step # 7
    BY <2>3, <2>6 DEF Prepared
  <2> QED BY <2>3, <2>6, <2>7 DEF ScriptKept, TargetOpen, ReturnUnderWay, Offer, Follow
<1> QED BY <1>1, <1>3, <1>4, <1>5

(* advanceTutorialAfterTick, when it does not fail, leaves a target that   *)
(* is OPEN and fit for the step, or somebody to wait for.                  *)
LEMMA TickHook ==
    ASSUME ScriptFound, NEW u, u = advanceTutorialAfterTick(Draft), u.err = "none"
    PROVE  Restored(u)
<1> DEFINE r == recreateTerminalTutorialTarget(Draft)
<1>1. Draft.app = app /\ IInv
  BY DraftGood DEF ScriptFound
<1>2. CASE r.err # "none"
  <2>1. u = r
    BY <1>2 DEF advanceTutorialAfterTick
  <2> QED BY <1>2, <2>1
<1>3. /\ app.step = 2 /\ r.err = "none" => u = CorridorCleared(r)
      /\ app.step = 6 /\ r.err = "none" => u = ResearchFollowed(r)
      /\ app.step = 7 /\ r.err = "none" => u = ReturnFollowed(r)
      /\ app.step \notin {2, 6, 7} => u = r
  BY <1>1 DEF advanceTutorialAfterTick
<1> SUFFICES ASSUME r.err = "none" PROVE Restored(u)
  BY <1>2
<1>5. /\ ScriptKept(r) /\ TargetOpen(r) /\ SameScript(r.app, app)
  BY RecreationKeeps
<1> HIDE DEF r
<1>6. r.app.mode = app.mode /\ r.app.step = app.step
  BY <1>5 DEF SameScript
<1>7. CASE app.step = 7
  <2>1. u = ReturnFollowed(r)
    BY <1>3, <1>7
  <2> QED BY <1>1, <1>5, <1>6, <1>7, <2>1, ReturnHook DEF Restored
<1>8. CASE app.step \notin {2, 6, 7}
  BY <1>3, <1>5, <1>6, <1>8 DEF Restored, ReturnUnderWay
<1>9. CASE app.step = 2
  BY <1>1, <1>3, <1>5, <1>6, <1>9, CorridorHook DEF Restored, ReturnUnderWay
<1>10. CASE app.step = 6
  BY <1>1, <1>3, <1>5, <1>6, <1>10, ResearchHook DEF Restored, ReturnUnderWay
<1> QED BY <1>7, <1>8, <1>9, <1>10

-----------------------------------------------------------------------------
(* The hook after a command                                                *)

(* A draft that has failed is not repaired.                                *)
LEMMA FailureStays ==
    ASSUME NEW v, NEW u, u = recreateTerminalTutorialTarget(v), u.err = "none"
    PROVE  v.err = "none"
BY DEF recreateTerminalTutorialTarget

(* Repairing the target of a script that is kept keeps it.                 *)
LEMMA RepairKeeps ==
    ASSUME IInv, NEW v, ScriptKept(v),
           NEW u, u = recreateTerminalTutorialTarget(v), u.err = "none"
    PROVE  ScriptKept(u) /\ u.app.mode = v.app.mode
<1>1. v.err = "none"
  BY FailureStays
<1>2. /\ GoodDraft(u) /\ SameScript(u.app, v.app)
      /\ Offer(u.app, u.ps, tickAt, "NONE") /\ u.app.plane = v.app.plane
  BY <1>1, TargetRecreated DEF ScriptKept
<1>3. Follow(u.app, observers, exploredAt) /\ (u.app.step # 6 => u.app.phase = "NONE")
  BY <1>2 DEF ScriptKept, Follow, SameScript
<1> QED BY <1>2, <1>3 DEF ScriptKept, SameScript

(* A new target for the step the script is in keeps it.                    *)
LEMMA NewTargetKeeps ==
    ASSUME IInv, NEW t, GoodDraft(t), t.app.step \in 1..6,
           t.app.step # 6 => t.app.phase = "NONE",
           NEW plane \in Planes \cup {Nil},
           NEW v, v = createTutorialTarget(t, t.app.step, plane), v.err = "none"
    PROVE  ScriptKept(v) /\ v.app.mode = t.app.mode
<1>1. GoodDraft(v) /\ NewlyOffered(v, t.app.step) /\ SameScript(v.app, t.app)
  BY TargetCreated
<1>2. v.app.step = t.app.step /\ v.app.phase = t.app.phase /\ v.app.mode = t.app.mode
  BY <1>1 DEF SameScript
<1>3. Offer(v.app, v.ps, tickAt, "NONE")
  BY <1>1, <1>2, NewTargetOffered
<1> QED BY <1>1, <1>2, <1>3 DEF ScriptKept, Follow

(* The command under way and the target it names.                          *)
LEMMA MatchedDid ==
    ASSUME NEW action, action # "NONE"
    PROVE  Matched(action) <=> Did = action
BY DEF Matched, Did

(* The script as advanceTutorialAfterCommand finds it.                     *)
ScriptCommanded ==
    /\ IInv /\ app \in AppState
    /\ app.step # 6 => app.phase = "NONE"
    /\ stage = "commanded"
    /\ Offer(app, portals, tickAt, Did)
    /\ Follow(app, observers, exploredAt)
    /\ Departed

(* A matched SEND or RECALL names a traveller.                             *)
LEMMA TravellerFound ==
    ASSUME ScriptCommanded,
           NEW status, \/ Matched("SEND") /\ status = "OUTBOUND"
                       \/ Matched("RECALL") /\ status = "RETURNING"
    PROVE  /\ Traveller(status) \in Observers
           /\ observers[Traveller(status)].status = status
           /\ observers[Traveller(status)].portal = app.portal
<1>1. \E o \in Observers : observers[o].status = status /\ observers[o].portal = op.portal
  BY DEF ScriptCommanded, Departed, Matched
<1>2. op.portal = app.portal
  BY DEF Matched
<1> QED BY <1>1, <1>2 DEF Traveller

(* Step 5 ends with the rejected SEND.                                     *)
LEMMA EnterStep6 ==
    ASSUME IInv, NEW t, GoodDraft(t), NEW u, u = enterTutorialStep6(t), u.err = "none"
    PROVE  ScriptKept(u) /\ u.app.mode = t.app.mode
<1> DEFINE six == [t EXCEPT !.app.step = 6]
           a == [t.app EXCEPT !.step = 6]
           b == [a EXCEPT !.phase = "WAIT_RESEARCH"]
<1>1. /\ t = [ps |-> t.ps, next |-> t.next, app |-> t.app, err |-> t.err]
      /\ t.app \in AppState
  BY DEF GoodDraft
<1>2. a \in AppState /\ a.step = 6 /\ a.mode = t.app.mode /\ a.observer = t.app.observer
  BY <1>1 DEF AppState
<1>3. six = [t EXCEPT !.app = a]
  BY <1>1
<1>4. \/ u = [six EXCEPT !.app.phase = "WAIT_RESEARCH"]
      \/ u = OfferReturn(six) /\ Tracked(t) = "WAITING_RETURN"
      \/ u = OfferReplacement(six)
  BY Zenon DEF enterTutorialStep6
<1> HIDE DEF a, six
<1>5. GoodDraft(six) /\ six.app = a
  BY <1>2, <1>3, ScriptMoved
<1>6. CASE u = [six EXCEPT !.app.phase = "WAIT_RESEARCH"]
  <2>1. /\ b \in AppState /\ b.step = 6 /\ b.phase = "WAIT_RESEARCH"
        /\ b.mode = t.app.mode
    BY <1>2 DEF AppState, Phases
  <2>2. u = [six EXCEPT !.app = b]
    <3>1. six = [ps |-> six.ps, next |-> six.next, app |-> six.app, err |-> six.err]
      BY <1>5 DEF GoodDraft
    <3> QED BY <1>5, <1>6, <3>1
  <2> HIDE DEF b
  <2>3. GoodDraft(u) /\ u.app = b
    BY <1>5, <2>1, <2>2, ScriptMoved
  <2>4. ~Prepared(u.app)
    BY <2>1, <2>3 DEF Prepared
  <2> QED BY <2>1, <2>3, <2>4 DEF ScriptKept, Offer, Follow
<1>7. CASE u = OfferReturn(six) /\ Tracked(t) = "WAITING_RETURN"
  <2>1. Tracked(six) = "WAITING_RETURN"
    BY <1>2, <1>5, <1>7 DEF Tracked
  <2> QED BY <1>2, <1>5, <1>7, <2>1, ReturnOffered
<1>8. CASE u = OfferReplacement(six)
  BY <1>2, <1>5, <1>8, ReplacementOffered
<1> QED BY <1>4, <1>6, <1>7, <1>8

(* Step 3 ends with an observer on the way; step 4 gets its target.        *)
LEMMA SentKeeps ==
    ASSUME ScriptCommanded, app.step = 3, Matched("SEND"),
           NEW v, v = ObserverSent(Draft), v.err = "none"
    PROVE  ScriptKept(v) /\ v.app.mode = app.mode
<1> DEFINE t == Draft
           pl == Target(t).plane
           o == Traveller("OUTBOUND")
           a == [t.app EXCEPT !.step = 4, !.observer = o, !.plane = pl]
           w == [t EXCEPT !.app.step = 4, !.app.observer = o, !.app.plane = pl]
<1>1. /\ GoodDraft(t) /\ t.app = app /\ t.ps = portals /\ IInv
  BY DraftGood DEF ScriptCommanded
<1>2. app.portal \in DOMAIN portals /\ portals \in [PortalIDs -> Portal]
  BY DEF ScriptCommanded, Offer, Prepared, IInv, TypeOK
<1>3. pl \in Planes
  BY <1>1, <1>2 DEF Target, Portal
<1>4. o \in Observers
  BY TravellerFound
<1>5. v = createTutorialTarget(w, 4, pl)
  BY DEF ObserverSent
<1> HIDE DEF o, pl, t
<1>6. /\ t = [ps |-> t.ps, next |-> t.next, app |-> t.app, err |-> t.err]
      /\ t.app \in AppState /\ t.app.phase = "NONE"
  BY <1>1 DEF GoodDraft, ScriptCommanded
<1>7. a \in AppState /\ a.step = 4 /\ a.phase = "NONE" /\ a.mode = app.mode
  <2>1. a.step = 4 /\ a.phase = "NONE" /\ a.mode = app.mode
    BY <1>1, <1>6 DEF AppState
  <2>2. 4 \in 0..9
    OBVIOUS
  <2>3. a \in AppState
    BY <1>3, <1>4, <1>6, <2>2 DEF AppState
  <2> QED BY <2>1, <2>3
<1>8. w = [t EXCEPT !.app = a]
  BY <1>6
<1> HIDE DEF a, w
<1>9. GoodDraft(w) /\ w.app = a
  BY <1>1, <1>7, <1>8, ScriptMoved
<1> QED BY <1>1, <1>3, <1>5, <1>7, <1>9, NewTargetKeeps

(* Step 4 ends with the risk brought down; step 5 gets its target.         *)
LEMMA StabilizedKeeps ==
    ASSUME ScriptCommanded, app.step = 4,
           NEW v, v = PortalStabilized(Draft), v.err = "none"
    PROVE  ScriptKept(v) /\ v.app.mode = app.mode
<1> DEFINE t == Draft
           a == [t.app EXCEPT !.step = 5]
           w == [t EXCEPT !.app.step = 5]
<1>1. /\ GoodDraft(t) /\ t.app = app /\ IInv
  BY DraftGood DEF ScriptCommanded
<1>2. /\ t = [ps |-> t.ps, next |-> t.next, app |-> t.app, err |-> t.err]
      /\ t.app \in AppState /\ t.app.phase = "NONE"
  BY <1>1 DEF GoodDraft, ScriptCommanded
<1>3. v = createTutorialTarget(w, 5, Nil)
  <2>1. v = createTutorialTarget(w, 5, Nil) \/ v = Failing(t, "ErrSimulationInvariant")
    BY DEF PortalStabilized
  <2> HIDE DEF t
  <2>2. Failing(t, "ErrSimulationInvariant").err # "none"
    BY <1>2 DEF Failing
  <2> QED BY <2>1, <2>2
<1> HIDE DEF t
<1>4. a \in AppState /\ a.step = 5 /\ a.phase = "NONE" /\ a.mode = app.mode
  BY <1>1, <1>2 DEF AppState
<1>5. w = [t EXCEPT !.app = a]
  BY <1>2
<1> HIDE DEF a, w
<1>6. GoodDraft(w) /\ w.app = a
  BY <1>1, <1>4, <1>5, ScriptMoved
<1> QED BY <1>1, <1>3, <1>4, <1>6, NewTargetKeeps

(* A replacement is on the way: nothing to offer until its research ends.  *)
LEMMA ReplacementKeeps ==
    ASSUME ScriptCommanded, app.step = 6, Matched("SEND")
    PROVE  ScriptKept(ReplacementSent(Draft)) /\ ReplacementSent(Draft).app.mode = app.mode
<1> DEFINE t == Draft
           o == Traveller("OUTBOUND")
           a == [t.app EXCEPT !.observer = o, !.phase = "WAIT_RESEARCH"]
           v == [t EXCEPT !.app.observer = o, !.app.phase = "WAIT_RESEARCH"]
<1>1. /\ GoodDraft(t) /\ t.app = app /\ IInv
  BY DraftGood DEF ScriptCommanded
<1>2. o \in Observers
  BY TravellerFound
<1>3. ReplacementSent(Draft) = v
  BY DEF ReplacementSent
<1> HIDE DEF o, t
<1>4. /\ t = [ps |-> t.ps, next |-> t.next, app |-> t.app, err |-> t.err]
      /\ t.app \in AppState
  BY <1>1 DEF GoodDraft
<1>5. a \in AppState /\ a.step = 6 /\ a.phase = "WAIT_RESEARCH" /\ a.mode = app.mode
  BY <1>1, <1>2, <1>4 DEF AppState, Phases
<1>6. v = [t EXCEPT !.app = a]
  BY <1>4
<1> HIDE DEF a, v
<1>7. GoodDraft(v) /\ v.app = a
  BY <1>1, <1>5, <1>6, ScriptMoved
<1>8. ~Prepared(v.app)
  BY <1>5, <1>7 DEF Prepared
<1> QED BY <1>3, <1>5, <1>7, <1>8 DEF ScriptKept, Offer, Follow

(* Step 7 follows the observer that the recall has put on the way home     *)
(* from the plane of the target.                                           *)
LEMMA RecalledKeeps ==
    ASSUME ScriptCommanded, app.step = 6, app.phase = "RECALL_READY", Matched("RECALL")
    PROVE  /\ ScriptKept(ObserverRecalled(Draft))
           /\ ObserverRecalled(Draft).app.mode = app.mode
<1> DEFINE t == Draft
           o == Traveller("RETURNING")
           a == [t.app EXCEPT !.observer = o, !.step = 7, !.phase = "NONE"]
           v == [t EXCEPT !.app.observer = o, !.app.step = 7, !.app.phase = "NONE"]
<1>1. /\ GoodDraft(t) /\ t.app = app /\ IInv
  BY DraftGood DEF ScriptCommanded
<1>2. o \in Observers /\ observers[o].status = "RETURNING" /\ observers[o].portal = app.portal
  BY TravellerFound
<1>3. ObserverRecalled(Draft) = v
  BY DEF ObserverRecalled
<1> HIDE DEF o, t
<1>4. /\ app.portal \in DOMAIN portals /\ portals[app.portal].plane = app.plane
      /\ portals \in [PortalIDs -> Portal]
  BY DEF ScriptCommanded, Offer, Prepared, IInv, TypeOK
<1>5. observers[o].plane = app.plane /\ app.plane \in Planes
  <2>1. ValidObserver(observers[o], portals, tickAt)
    BY <1>1, <1>2 DEF IInv, GoodObservers
  <2> QED BY <1>2, <1>4, <2>1 DEF ValidObserver, Portal
<1>6. /\ t = [ps |-> t.ps, next |-> t.next, app |-> t.app, err |-> t.err]
      /\ t.app \in AppState
  BY <1>1 DEF GoodDraft
<1>7. /\ a.step = 7 /\ a.phase = "NONE" /\ a.mode = app.mode
      /\ a.observer = o /\ a.plane = app.plane
  BY <1>1, <1>6 DEF AppState
<1>8. a \in AppState
  <2>1. 7 \in 0..9 /\ "NONE" \in Phases
    BY DEF Phases
  <2> QED BY <1>2, <1>6, <2>1 DEF AppState
<1>9. v = [t EXCEPT !.app = a]
  BY <1>6
<1> HIDE DEF a, v
<1>10. GoodDraft(v) /\ v.app = a
  BY <1>1, <1>8, <1>9, ScriptMoved
<1>11. ~Prepared(v.app)
  BY <1>7, <1>10 DEF Prepared
<1>12. Follow(v.app, observers, exploredAt)
  BY <1>2, <1>5, <1>7, <1>10 DEF Follow
<1> QED BY <1>3, <1>7, <1>10, <1>11, <1>12 DEF ScriptKept, Offer

(* A command that is none of the script's leaves it kept.                  *)
LEMMA OtherKeeps ==
    ASSUME ScriptCommanded,
           app.step = 4 => Did # "STABILIZE",
           app.phase = "SEND_REPLACEMENT" => Did # "RECALL",
           app.phase = "RECALL_READY" => Did # "SEND"
    PROVE  ScriptKept(Draft) /\ Draft.app.mode = app.mode
<1>1. /\ GoodDraft(Draft) /\ Draft.app = app /\ Draft.ps = portals
  BY DraftGood DEF ScriptCommanded
<1>2. Offer(app, portals, tickAt, "NONE")
  BY DEF ScriptCommanded, Offer
<1> QED BY <1>1, <1>2 DEF ScriptKept, ScriptCommanded

(* Step 6 after a command.                                                 *)
LEMMA Step6Keeps ==
    ASSUME ScriptCommanded, app.step = 6,
           NEW v, v = Step6Commanded(Draft), v.err = "none"
    PROVE  ScriptKept(v) /\ v.app.mode = app.mode
<1>1. GoodDraft(Draft) /\ Draft.app = app /\ Draft.ps = portals /\ IInv
  BY DraftGood DEF ScriptCommanded
<1>2. CASE app.phase = "SEND_REPLACEMENT" /\ Matched("SEND")
  <2>0. ~DirectionBroken(Draft) /\ app.phase # "RECALL_READY"
    BY <1>1, <1>2 DEF DirectionBroken, Matched
  <2>1. v = ReplacementSent(Draft)
    BY <1>1, <1>2, <2>0 DEF Step6Commanded
  <2> QED BY <1>2, <2>1, ReplacementKeeps
<1>3. CASE app.phase = "RECALL_READY" /\ Matched("RECALL")
  <2>0. ~DirectionBroken(Draft) /\ app.phase # "SEND_REPLACEMENT"
    BY <1>1, <1>3 DEF DirectionBroken, Matched
  <2>1. v = ObserverRecalled(Draft)
    BY <1>1, <1>3, <2>0 DEF Step6Commanded
  <2> QED BY <1>3, <2>1, RecalledKeeps
<1>4. CASE DirectionBroken(Draft)
  <2>1. ~Matched("SEND") \/ ~Matched("RECALL")
    BY DEF Matched
  <2>2. /\ ~(app.phase = "SEND_REPLACEMENT" /\ Matched("SEND"))
        /\ ~(app.phase = "RECALL_READY" /\ Matched("RECALL"))
    BY <1>1, <1>4, <2>1 DEF DirectionBroken
  <2>3. v = createTutorialTarget(Draft, app.step, Target(Draft).plane)
    BY <1>1, <1>4, <2>2 DEF Step6Commanded
  <2>4. app.portal \in DOMAIN portals /\ portals \in [PortalIDs -> Portal]
    BY <1>1, <1>4 DEF DirectionBroken, ScriptCommanded, Offer, Prepared, IInv, TypeOK
  <2>5. Target(Draft).plane \in Planes
    BY <1>1, <2>4 DEF Target, Portal
  <2> QED BY <1>1, <2>3, <2>5, NewTargetKeeps
<1>5. CASE /\ ~(app.phase = "SEND_REPLACEMENT" /\ Matched("SEND"))
           /\ ~(app.phase = "RECALL_READY" /\ Matched("RECALL"))
           /\ ~DirectionBroken(Draft)
  <2>1. v = Draft
    BY <1>1, <1>5 DEF Step6Commanded
  <2>2. /\ app.phase = "SEND_REPLACEMENT" => Did # "RECALL"
        /\ app.phase = "RECALL_READY" => Did # "SEND"
    BY <1>1, <1>5, MatchedDid DEF DirectionBroken
  <2> QED BY <2>1, <2>2, OtherKeeps
<1> QED BY <1>2, <1>3, <1>4, <1>5

(* advanceTutorialAfterCommand, when it does not fail, keeps the script.   *)
LEMMA CommandHook ==
    ASSUME ScriptCommanded,
           NEW u, u = advanceTutorialAfterCommand(Draft), u.err = "none"
    PROVE  ScriptKept(u) /\ u.app.mode = app.mode
<1>1. GoodDraft(Draft) /\ Draft.app = app /\ IInv
  BY DraftGood DEF ScriptCommanded
<1>2. CASE app.step = 5 /\ op.critical /\ op.portal = app.portal
  <2>1. u = enterTutorialStep6(Draft)
    BY <1>2 DEF advanceTutorialAfterCommand
  <2> QED BY <1>1, <2>1, EnterStep6
<1>3. CASE app.step = 3 /\ Matched("SEND")
  <2>1. u = recreateTerminalTutorialTarget(ObserverSent(Draft))
    BY <1>3 DEF advanceTutorialAfterCommand
  <2>2. ObserverSent(Draft).err = "none"
    BY <2>1, FailureStays
  <2> QED BY <1>1, <1>3, <2>1, <2>2, SentKeeps, RepairKeeps
<1>4. CASE app.step = 4 /\ Matched("STABILIZE")
  <2>1. u = recreateTerminalTutorialTarget(PortalStabilized(Draft))
    BY <1>4 DEF advanceTutorialAfterCommand
  <2>2. PortalStabilized(Draft).err = "none"
    BY <2>1, FailureStays
  <2> QED BY <1>1, <1>4, <2>1, <2>2, StabilizedKeeps, RepairKeeps
<1>5. CASE app.step = 6
  <2>1. u = recreateTerminalTutorialTarget(Step6Commanded(Draft))
    BY <1>5 DEF advanceTutorialAfterCommand
  <2>2. Step6Commanded(Draft).err = "none"
    BY <2>1, FailureStays
  <2> QED BY <1>1, <1>5, <2>1, <2>2, Step6Keeps, RepairKeeps
<1>6. CASE /\ ~(app.step = 5 /\ op.critical /\ op.portal = app.portal)
           /\ ~(app.step = 3 /\ Matched("SEND"))
           /\ ~(app.step = 4 /\ Matched("STABILIZE"))
           /\ app.step # 6
  <2>1. u = recreateTerminalTutorialTarget(Draft)
    BY <1>6 DEF advanceTutorialAfterCommand
  <2>2. app.phase = "NONE" /\ (app.step = 4 => Did # "STABILIZE")
    BY <1>6, MatchedDid DEF ScriptCommanded
  <2>3. ScriptKept(Draft) /\ Draft.app.mode = app.mode
    BY <2>2, OtherKeeps
  <2> QED BY <1>1, <2>1, <2>3, RepairKeeps
<1> QED BY <1>2, <1>3, <1>4, <1>5, <1>6

-----------------------------------------------------------------------------
(* The steps of the tutorial                                               *)

(* Applying a draft that keeps the script.                                 *)
LEMMA ApplyGood ==
    ASSUME IInv, NEW t, ScriptKept(t), NEW next \in {"open", "settled"}, Apply(t, next),
           next = "settled" => TargetOpen(t) /\ ReturnUnderWay(t) /\ SoundStart(saved)
    PROVE  TInv'
<1> DEFINE s == [portals |-> t.ps, nextPortalID |-> t.next, observers |-> observers,
                 exploredAt |-> exploredAt, lab |-> lab, tickAt |-> tickAt]
<1>1. /\ portals' = t.ps /\ nextPortalID' = t.next /\ app' = t.app
      /\ spawn' = SpawnPaused /\ stage' = next /\ op' = NoOp
      /\ observers' = observers /\ exploredAt' = exploredAt
      /\ lab' = lab /\ tickAt' = tickAt
      /\ next = "settled" => saved' = saved
  BY DEF Apply
<1>2. SoundLab(s)
  BY DEF SoundLab, ScriptKept, GoodDraft, IInv, TypeOK, GoodRest
<1>3. IInv'
  BY <1>1, <1>2, SoundNext
<1>4. ScriptTypes'
  BY <1>1 DEF ScriptTypes, ScriptKept, GoodDraft
<1>5. Offer(app, portals, tickAt, Did)'
  <2>1. Did' = "NONE"
    BY <1>1 DEF Did, NoOp
  <2>2. Offer(app', portals', tickAt', "NONE")
    BY <1>1 DEF ScriptKept
  <2> QED BY <2>1, <2>2
<1>6. Follow(app, observers, exploredAt)'
  BY <1>1 DEF ScriptKept
<1>7. Departed' /\ SavedSound'
  BY <1>1 DEF Departed, SavedSound
<1>8. TargetOffered'
  <2> SUFFICES ASSUME Settled', Prepared(app)' PROVE TargetOffered'
    BY DEF TargetOffered
  <2>1. next = "settled" /\ Prepared(t.app) /\ IsOpen(t.ps[t.app.portal])
    BY <1>1 DEF Settled, TargetOpen, Target
  <2>2. Offer(t.app, t.ps, tickAt, "NONE")
    BY DEF ScriptKept
  <2>3. PortalIDs' = DOMAIN t.ps
    BY <1>1 DEF PortalIDs, ScriptKept, GoodDraft
  <2> QED BY <1>1, <2>1, <2>2, <2>3 DEF TargetOffered, Offer
<1>9. ReturnAwaited'
  BY <1>1 DEF ReturnAwaited, Settled, ReturnUnderWay
<1> QED BY <1>3, <1>4, <1>5, <1>6, <1>7, <1>8, <1>9 DEF TInv

(* A failing hook restores what the operation found.                       *)
LEMMA RollBackGood ==
    ASSUME TInv, stage # "open", NEW t, RollBack(t)
    PROVE  TInv'
<1>1. /\ portals' = saved.portals /\ nextPortalID' = saved.nextPortalID
      /\ observers' = saved.observers /\ exploredAt' = saved.exploredAt
      /\ lab' = saved.lab /\ tickAt' = saved.tickAt
      /\ spawn' = SpawnPaused /\ stage' = "open" /\ op' = NoOp /\ app' = saved.app
  BY DEF RollBack
<1>2. /\ SoundLab(saved) /\ saved.app \in AppState
      /\ saved.app.step # 6 => saved.app.phase = "NONE"
      /\ Offer(saved.app, saved.portals, saved.tickAt, "NONE")
      /\ Follow(saved.app, saved.observers, saved.exploredAt)
  BY DEF TInv, SavedSound, SoundStart
<1>3. IInv'
  BY <1>1, <1>2, SoundNext
<1>4. ScriptTypes'
  BY <1>1, <1>2 DEF ScriptTypes
<1>5. Offer(app, portals, tickAt, Did)' /\ Follow(app, observers, exploredAt)'
  <2>1. Did' = "NONE"
    BY <1>1 DEF Did, NoOp
  <2> QED BY <1>1, <1>2, <2>1
<1>6. Departed' /\ SavedSound' /\ TargetOffered' /\ ReturnAwaited'
  BY <1>1 DEF Departed, SavedSound, TargetOffered, ReturnAwaited, Settled
<1> QED BY <1>3, <1>4, <1>5, <1>6 DEF TInv

(* Between two operations no command is under way.                         *)
LEMMA FoundBetween ==
    ASSUME TInv, stage # "commanded"
    PROVE  ScriptFound /\ Did = "NONE"
<1>1. Did = "NONE"
  BY DEF TInv, ScriptTypes, Did, NoOp
<1> QED BY <1>1 DEF TInv, ScriptTypes, ScriptFound

(* The hook after a tick.                                                  *)
LEMMA AfterTickGood ==
    ASSUME TInv, AfterTick
    PROVE  TInv'
<1> DEFINE u == advanceTutorialAfterTick(Draft)
<1>1. stage = "ticked" /\ (Apply(u, "settled") \/ RollBack(u))
  BY DEF AfterTick
<1>2. CASE Apply(u, "settled")
  <2>1. u.err = "none"
    BY <1>2 DEF Apply
  <2>2. ScriptFound
    BY <1>1, FoundBetween
  <2>3. Restored(u)
    BY <2>1, <2>2, TickHook
  <2>4. SoundStart(saved)
    BY <1>1 DEF TInv, SavedSound
  <2> HIDE DEF u
  <2> QED BY <1>2, <2>2, <2>3, <2>4, ApplyGood DEF Restored, ScriptFound
<1>3. CASE RollBack(u)
  BY <1>1, <1>3, RollBackGood
<1> QED BY <1>1, <1>2, <1>3

(* The hook after a command.                                               *)
LEMMA AfterCommandGood ==
    ASSUME TInv, AfterCommand
    PROVE  TInv'
<1> DEFINE u == advanceTutorialAfterCommand(Draft)
<1>1. stage = "commanded" /\ (Apply(u, "open") \/ RollBack(u))
  BY DEF AfterCommand
<1>2. CASE Apply(u, "open")
  <2>1. u.err = "none"
    BY <1>2 DEF Apply
  <2>2. ScriptCommanded
    BY <1>1 DEF TInv, ScriptTypes, ScriptCommanded
  <2>3. ScriptKept(u)
    BY <2>1, <2>2, CommandHook
  <2> HIDE DEF u
  <2> QED BY <1>2, <2>2, <2>3, ApplyGood DEF ScriptCommanded
<1>3. CASE RollBack(u)
  BY <1>1, <1>3, RollBackGood
<1> QED BY <1>1, <1>2, <1>3

(* A read leaves the script where it is.                                   *)
LEMMA ReadGood ==
    ASSUME TInv, Read
    PROVE  TInv'
<1>1. /\ stage = "ticked" /\ spawn' = SpawnPaused /\ stage' = "open"
      /\ UNCHANGED <<portals, nextPortalID, observers, exploredAt, lab, tickAt, app, op>>
  BY DEF Read
<1>2. SoundLab(Snapshot)
  BY SnapshotSound DEF TInv
<1>3. IInv'
  <2> DEFINE s == Snapshot
  <2>1. /\ s.portals = portals' /\ s.nextPortalID = nextPortalID'
        /\ s.observers = observers' /\ s.exploredAt = exploredAt'
        /\ s.lab = lab' /\ s.tickAt = tickAt'
    BY <1>1 DEF Snapshot
  <2> HIDE DEF s
  <2>2. SoundLab(s) BY <1>2 DEF s
  <2> QED BY <1>1, <2>1, <2>2, SoundNext
<1>4. ScriptTypes'
  BY <1>1 DEF TInv, ScriptTypes
<1>5. Offer(app, portals, tickAt, Did)' /\ Follow(app, observers, exploredAt)'
  <2>1. Did' = Did
    BY <1>1 DEF Did
  <2> QED BY <1>1, <2>1 DEF TInv
<1>6. Departed' /\ SavedSound' /\ TargetOffered' /\ ReturnAwaited'
  BY <1>1 DEF Departed, SavedSound, TargetOffered, ReturnAwaited, Settled
<1> QED BY <1>3, <1>4, <1>5, <1>6 DEF TInv

(* A signal that fits its step keeps the script.                           *)
LEMMA SignalGood ==
    ASSUME TInv, TutorialSignal
    PROVE  TInv'
<1> DEFINE t == Draft
<1>0. Settled /\ ScriptFound
  <2>1. Settled
    BY DEF TutorialSignal, IntroCompleted, PortalDetailsOpened, EventLogOpened
  <2> QED BY <2>1, FoundBetween DEF Settled
<1>1. /\ GoodDraft(t) /\ t.app = app /\ t.ps = portals /\ t.err = "none" /\ IInv
  BY <1>0, DraftGood DEF ScriptFound
<1>2. /\ t = [ps |-> t.ps, next |-> t.next, app |-> t.app, err |-> t.err]
      /\ t.app \in AppState
  BY <1>1 DEF GoodDraft
<1>3. CASE IntroCompleted
  <2> DEFINE u == createTutorialTarget(t, 1, Nil)
             v == [u EXCEPT !.app.step = 1]
             a == [u.app EXCEPT !.step = 1]
  <2>1. app.step = 0 /\ Apply(v, "open")
    BY <1>3 DEF IntroCompleted
  <2>2. v.err = "none"
    BY <2>1 DEF Apply
  <2> HIDE DEF t, u
  <2>3. u.err = "none"
    BY <2>2
  <2>4. GoodDraft(u) /\ NewlyOffered(u, 1) /\ SameScript(u.app, app)
    BY <1>1, <2>3, TargetCreated DEF u
  <2>5. /\ u = [ps |-> u.ps, next |-> u.next, app |-> u.app, err |-> u.err]
        /\ u.app \in AppState
    BY <2>4 DEF GoodDraft
  <2>6. u.app.phase = "NONE"
    BY <1>0, <2>1, <2>4 DEF SameScript, ScriptFound
  <2>7. /\ a.step = 1 /\ a.phase = "NONE" /\ a.portal = u.app.portal /\ a.plane = u.app.plane
    BY <2>5, <2>6 DEF AppState
  <2>8. a \in AppState
    <3>1. 1 \in 0..9
      OBVIOUS
    <3> QED BY <2>5, <3>1 DEF AppState
  <2>9. v = [u EXCEPT !.app = a]
    BY <2>5
  <2> HIDE DEF v, a
  <2>10. GoodDraft(v) /\ v.app = a /\ v.ps = u.ps
    BY <2>4, <2>8, <2>9, ScriptMoved
  <2>11. NewlyOffered(v, v.app.step)
    BY <2>4, <2>7, <2>10 DEF NewlyOffered, Target
  <2>12. ScriptKept(v)
    BY <2>7, <2>10, <2>11, NewTargetOffered DEF ScriptKept, Follow
  <2> QED BY <1>1, <2>1, <2>12, ApplyGood
<1>4. CASE \E i \in PortalIDs : PortalDetailsOpened(i)
  <2> DEFINE v == [t EXCEPT !.app.step = 2]
             a == [t.app EXCEPT !.step = 2]
  <2>1. app.step = 1 /\ Apply(v, "open")
    BY <1>4 DEF PortalDetailsOpened
  <2> HIDE DEF t
  <2>2. /\ a.step = 2 /\ a.phase = "NONE" /\ a.portal = app.portal /\ a.plane = app.plane
    BY <1>0, <1>1, <1>2, <2>1 DEF AppState, ScriptFound
  <2>3. a \in AppState
    <3>1. 2 \in 0..9
      OBVIOUS
    <3> QED BY <1>2, <3>1 DEF AppState
  <2>4. v = [t EXCEPT !.app = a]
    BY <1>2
  <2> HIDE DEF v, a
  <2>5. GoodDraft(v) /\ v.app = a /\ v.ps = portals
    BY <1>1, <2>3, <2>4, ScriptMoved
  <2>6. app.portal \in DOMAIN portals /\ portals[app.portal].plane = app.plane
    BY <1>0, <2>1 DEF ScriptFound, Offer, Prepared
  <2>7. ScriptKept(v)
    BY <2>2, <2>5, <2>6 DEF ScriptKept, Follow, Offer
  <2> QED BY <1>1, <2>1, <2>7, ApplyGood
<1>5. CASE EventLogOpened
  <2> DEFINE v == [t EXCEPT !.app.step = 9]
             a == [t.app EXCEPT !.step = 9]
  <2>1. app.step = 8 /\ Apply(v, "open")
    BY <1>5 DEF EventLogOpened
  <2> HIDE DEF t
  <2>2. a.step = 9 /\ a.phase = "NONE"
    BY <1>0, <1>1, <1>2, <2>1 DEF AppState, ScriptFound
  <2>3. a \in AppState
    <3>1. 9 \in 0..9
      OBVIOUS
    <3> QED BY <1>2, <3>1 DEF AppState
  <2>4. v = [t EXCEPT !.app = a]
    BY <1>2
  <2> HIDE DEF v, a
  <2>5. GoodDraft(v) /\ v.app = a
    BY <1>1, <2>3, <2>4, ScriptMoved
  <2>6. ScriptKept(v)
    BY <2>2, <2>5 DEF ScriptKept, Follow, Offer, Prepared
  <2> QED BY <1>1, <2>1, <2>6, ApplyGood
<1> QED BY <1>3, <1>4, <1>5 DEF TutorialSignal

(* A script in step 0 or 9 asks nothing of the laboratory.                 *)
LEMMA CanonicalKept ==
    ASSUME NEW mode \in {"TUTORIAL", "LIVE"}, NEW step \in {0, 9}
    PROVE  /\ Canonical(mode, step) \in AppState
           /\ Canonical(mode, step).step = step /\ Canonical(mode, step).phase = "NONE"
           /\ ~Prepared(Canonical(mode, step))
<1>1. Canonical(mode, step).step = step /\ Canonical(mode, step).phase = "NONE"
  BY DEF Canonical
<1>2. Canonical(mode, step) \in AppState
  BY DEF Canonical, AppState, Phases
<1> QED BY <1>1, <1>2 DEF Prepared

(* A reset begins the tutorial again.                                      *)
LEMMA ResetGood ==
    ASSUME TInv, ResetTutorial
    PROVE  TInv'
<1>1. /\ app' = Canonical("TUTORIAL", 0) /\ stage' = "open" /\ op' = op
      /\ stage # "commanded"
  BY DEF ResetTutorial
<1>2. IInv'
  <2> DEFINE s == Fresh
  <2>1. /\ portals' = s.portals /\ nextPortalID' = s.nextPortalID
        /\ observers' = s.observers /\ exploredAt' = s.exploredAt
        /\ lab' = s.lab /\ tickAt' = s.tickAt /\ spawn' = SpawnPaused
    BY DEF ResetTutorial, Fresh
  <2>2. SoundLab(s)
    BY FreshSound
  <2> HIDE DEF s
  <2> QED BY <2>1, <2>2, SoundNext
<1>3. /\ app' \in AppState /\ app'.step = 0 /\ app'.phase = "NONE" /\ ~Prepared(app')
  BY <1>1, CanonicalKept
<1>4. ScriptTypes'
  BY <1>1, <1>3 DEF TInv, ScriptTypes
<1>5. Offer(app, portals, tickAt, Did)' /\ Follow(app, observers, exploredAt)'
  BY <1>3 DEF Offer, Follow
<1>6. Departed' /\ SavedSound' /\ TargetOffered' /\ ReturnAwaited'
  BY <1>1 DEF Departed, SavedSound, TargetOffered, ReturnAwaited, Settled
<1> QED BY <1>2, <1>4, <1>5, <1>6 DEF TInv

(* A new tutorial satisfies the invariant.                                 *)
LEMMA TutorialStarts ==
    ASSUME TutorialInit
    PROVE  TInv
<1>1. /\ app = Canonical("TUTORIAL", 0) /\ stage = "open" /\ op = NoOp
      /\ spawn = SpawnPaused
  BY DEF TutorialInit
<1>2. IInv
  <2>1. Snapshot = Fresh
    BY DEF TutorialInit, Snapshot, Fresh
  <2>2. SoundLab(Snapshot)
    BY <2>1, FreshSound
  <2>3. spawn.paused /\ spawn \in SpawnState
    BY <1>1 DEF SpawnPaused, SpawnState, OptTime, Time
  <2>4. TypeOK
    BY <2>2, <2>3 DEF SoundLab, Snapshot, TypeOK, PortalIDs, SpawnState
  <2> QED BY <1>1, <2>2, <2>3, <2>4 DEF SoundLab, Snapshot, IInv, GoodRest, ValidSpawn
<1>3. /\ app \in AppState /\ app.step = 0 /\ app.phase = "NONE" /\ ~Prepared(app)
  BY <1>1, CanonicalKept
<1> QED BY <1>1, <1>2, <1>3 DEF TInv, ScriptTypes, Offer, Follow, Departed, SavedSound,
     TargetOffered, ReturnAwaited, Settled

(* StartLive closes every portal, resolves whoever is inside against it    *)
(* and hands a valid laboratory over to the natural generator.             *)
LEMMA StartLiveLab ==
    ASSUME IInv, StartLive
    PROVE  IInv'
<1> DEFINE closed == [i \in PortalIDs |->
                        IF IsOpen(portals[i]) THEN Closed(portals[i], tickAt) ELSE portals[i]]
           os == [o \in Observers |->
                    IF InTransit(observers[o])
                    THEN ResolveObserverLifecycle(observers[o], closed, tickAt)
                    ELSE observers[o]]
<1>1. /\ portals' = closed /\ observers' = os /\ exploredAt' = ExploredByID(os)
      /\ spawn' \in SpawnSchedules(tickAt)
      /\ UNCHANGED <<nextPortalID, lab, tickAt>>
  BY DEF StartLive
<1>2. /\ tickAt \in Nat /\ portals \in [PortalIDs -> Portal]
      /\ observers \in [Observers -> Observer]
      /\ \A i \in PortalIDs : GoodPortal(portals[i], tickAt)
      /\ \A o \in Observers : ValidObserver(observers[o], portals, tickAt)
  BY DEF IInv, TypeOK, GoodPortals, GoodObservers, Time
<1>3. ASSUME NEW i \in PortalIDs
      PROVE  /\ closed[i] \in Portal /\ GoodPortal(closed[i], tickAt)
             /\ ~IsOpen(closed[i])
             /\ closed[i].flow = portals[i].flow /\ closed[i].plane = portals[i].plane
  <2>1. CASE IsOpen(portals[i])
    BY <1>2, <2>1, ClosedGood
  <2>2. CASE ~IsOpen(portals[i])
    BY <1>2, <2>2
  <2> QED BY <2>1, <2>2
<1>4. closed \in [PortalIDs -> Portal]
  BY <1>3
<1> HIDE DEF closed
<1>5. GoodPortals(closed, tickAt)
  BY <1>3, <1>4 DEF GoodPortals, DistinctSlots, OpenIDs
<1>6. ASSUME NEW o \in Observers
      PROVE  /\ os[o] \in Observer /\ ValidObserver(os[o], closed, tickAt)
             /\ ~InTransit(os[o])
  <2>1. CASE InTransit(observers[o])
    <3>1. os[o] = ResolveObserverLifecycle(observers[o], closed, tickAt)
      BY <2>1
    <3>2. /\ observers[o] \in Observer /\ ValidObserver(observers[o], portals, tickAt)
          /\ \A i \in PortalIDs : /\ GoodPortal(closed[i], tickAt)
                                  /\ closed[i].flow = portals[i].flow
                                  /\ closed[i].plane = portals[i].plane
      BY <1>2, <1>3
    <3> HIDE DEF os
    <3>3. /\ os[o] \in Observer /\ ValidObserver(os[o], closed, tickAt)
          /\ InTransit(os[o]) => IsOpen(closed[os[o].portal])
      BY <1>2, <1>4, <3>1, <3>2, ObserverStage
    <3>4. InTransit(os[o]) => os[o].portal \in PortalIDs
      BY <1>4, <3>3 DEF ValidObserver, InTransit
    <3> QED BY <1>3, <3>3, <3>4
  <2>2. CASE ~InTransit(observers[o])
    <3>1. os[o] = observers[o]
      BY <2>2
    <3>2. DOMAIN closed = PortalIDs /\ DOMAIN portals = PortalIDs
      BY <1>2, <1>4
    <3>3. ValidObserver(observers[o], closed, tickAt)
      BY <1>2, <1>3, <3>2 DEF ValidObserver
    <3> QED BY <1>2, <2>2, <3>1, <3>3
  <2> QED BY <2>1, <2>2
<1>7. os \in [Observers -> Observer] /\ GoodObservers(os, closed, tickAt)
  BY <1>6 DEF GoodObservers, TravelsWell
<1>8. ASSUME NEW pl \in Planes
      PROVE  ExploredByID(os)[pl] \in OptTime /\ ExploredByID(os)[pl] <= tickAt
  <2> DEFINE home == {o \in Observers : /\ observers[o].status = "RETURNING"
                                        /\ observers[o].plane = pl
                                        /\ os[o].status = "AVAILABLE"}
             m == Min(home)
  <2>1. ExploredByID(os)[pl] = IF exploredAt[pl] = Nil /\ home # {} THEN observers[m].endsAt
                               ELSE exploredAt[pl]
    BY DEF ExploredByID
  <2>2. exploredAt[pl] \in OptTime /\ exploredAt[pl] <= tickAt
    BY DEF IInv, TypeOK, GoodRest
  <2>3. ASSUME home # {}
        PROVE  m \in home
    <3>1. home \in SUBSET Nat
      BY ConfigTypes DEF Observers
    <3> HIDE DEF home
    <3> QED BY <2>3, <3>1, MinNat
  <2>4. ASSUME NEW o \in home
        PROVE  observers[o].endsAt \in Nat /\ observers[o].endsAt <= tickAt
    <3>1. /\ o \in Observers /\ observers[o].status = "RETURNING"
          /\ os[o].status = "AVAILABLE"
      BY <2>4
    <3>2. os[o] = ResolveReturning(observers[o], closed[observers[o].portal], tickAt)
      BY <3>1 DEF InTransit, ResolveObserverLifecycle
    <3>3. observers[o].endsAt \in Nat
      BY <1>2, <3>1 DEF ValidObserver, ValidPhase, Observer, OptTime, Time, Nil
    <3> HIDE DEF os
    <3>4. observers[o].endsAt <= tickAt
      BY <3>1, <3>2 DEF ResolveReturning, AtHome
    <3> QED BY <3>3, <3>4
  <2> HIDE DEF home, m
  <2>5. CASE exploredAt[pl] = Nil /\ home # {}
    BY <2>1, <2>3, <2>4, <2>5 DEF OptTime, Time
  <2>6. CASE ~(exploredAt[pl] = Nil /\ home # {})
    BY <2>1, <2>2, <2>6
  <2> QED BY <2>5, <2>6
<1>9. ExploredByID(os) \in [Planes -> OptTime]
  BY <1>8 DEF ExploredByID
<1> HIDE DEF os
<1>10. /\ spawn' \in SpawnState /\ ~spawn'.paused
       /\ spawn'.scheduledAt = tickAt /\ spawn'.scheduledAt <= spawn'.dueAt
  BY <1>1, <1>2, SpawnSchedulesGood
<1>11. PortalIDs' = PortalIDs
  BY <1>1 DEF PortalIDs
<1>12. TypeOK'
  BY <1>1, <1>4, <1>7, <1>9, <1>10, <1>11 DEF TypeOK, IInv, SpawnState
<1>13. GoodRest'
  BY <1>1, <1>2, <1>8, <1>10 DEF GoodRest, ValidSpawn, IInv, Nil
<1> QED BY <1>1, <1>5, <1>7, <1>12, <1>13 DEF IInv

(* The tutorial ends in Live mode, with nothing left to prepare.           *)
LEMMA StartLiveGood ==
    ASSUME TInv, StartLive
    PROVE  TInv'
<1>1. /\ app' = Canonical("LIVE", 9) /\ stage' = "open" /\ op' = op /\ Settled
  BY DEF StartLive
<1>2. IInv'
  BY StartLiveLab DEF TInv
<1>3. /\ app' \in AppState /\ app'.step = 9 /\ app'.phase = "NONE" /\ ~Prepared(app')
  BY <1>1, CanonicalKept
<1>4. ScriptTypes'
  BY <1>1, <1>3 DEF TInv, ScriptTypes, Settled
<1>5. Offer(app, portals, tickAt, Did)' /\ Follow(app, observers, exploredAt)'
  BY <1>3 DEF Offer, Follow
<1>6. Departed' /\ SavedSound' /\ TargetOffered' /\ ReturnAwaited'
  BY <1>1 DEF Departed, SavedSound, TargetOffered, ReturnAwaited, Settled
<1> QED BY <1>2, <1>4, <1>5, <1>6 DEF TInv

-----------------------------------------------------------------------------
(* Ticks under the script                                                  *)

(* What the risk of a portal depends on.                                   *)
SameRisk(p, q) ==
    /\ p.energyBase = q.energyBase /\ p.energyBaseAt = q.energyBaseAt
    /\ p.decay = q.decay /\ p.scheduledCloseAt = q.scheduledCloseAt
    /\ p.stability = q.stability

(* Two portals that agree on it are equally risky.                         *)
LEMMA RiskAgrees ==
    ASSUME NEW p, NEW q, SameRisk(p, q), NEW now
    PROVE  RiskCritical(p, now) <=> RiskCritical(q, now)
<1>1. CurrentEnergy(p, now) = CurrentEnergy(q, now)
  BY DEF SameRisk, CurrentEnergy
<1>2. EffectiveLifetime(p, now) = EffectiveLifetime(q, now)
  BY <1>1 DEF SameRisk, EffectiveLifetime
<1>3. RiskScore(p, now) = RiskScore(q, now)
  BY <1>2 DEF SameRisk, RiskScore
<1> QED BY <1>3 DEF RiskCritical

(* A tick leaves a portal its plane, its direction and its risk.           *)
LEMMA TickLeavesPortal ==
    ASSUME IInv, NEW now \in Nat, tickAt <= now, Tick(now), NEW i \in PortalIDs
    PROVE  /\ i \in PortalIDs' /\ portals'[i].plane = portals[i].plane
           /\ portals'[i].flow = portals[i].flow /\ SameRisk(portals'[i], portals[i])
<1> DEFINE ps == ResolvedPortals(now)
           due == SyncDue(ps, now)
           sy == Synchronized(ps, due)
<1>1. ResolveNaturalSpawn(sy, now)
  BY DEF Tick
<1>2. portals \in [PortalIDs -> Portal] /\ nextPortalID \in Nat
  BY DEF IInv, TypeOK
<1>3. ps \in [PortalIDs -> Portal]
  BY PortalStage
<1>4. SameRisk(ps[i], portals[i])
  <2>1. ps[i] = ResolveLifecycle(portals[i], now)
    BY DEF ResolvedPortals
  <2> QED BY <1>2, <2>1 DEF ResolveLifecycle, SameRisk, Portal
<1> HIDE DEF ps
<1>5. SameRisk(sy[i], ps[i])
  BY <1>3 DEF Synchronized, SameRisk, Portal
<1> HIDE DEF sy
<1>6. portals'[i] = sy[i]
  <2>1. SpawnNothing(sy) \/ SpawnPortal(sy, now)
    BY <1>1, Zenon DEF ResolveNaturalSpawn
  <2>2. CASE SpawnNothing(sy)
    BY <2>2 DEF SpawnNothing
  <2>3. CASE SpawnPortal(sy, now)
    <3>1. \E p : portals' = Opened(sy, p)
      BY <2>3 DEF SpawnPortal
    <3> QED BY <1>2, <3>1 DEF Opened, PortalIDs
  <2> QED BY <2>1, <2>2, <2>3
<1>7. /\ portals'[i].plane = portals[i].plane /\ i \in PortalIDs'
      /\ portals'[i].flow = portals[i].flow
  BY TickPortals, TickFreezes
<1> QED BY <1>4, <1>5, <1>6, <1>7 DEF SameRisk

(* A tick keeps what is on offer, except that the target may end.          *)
LEMMA TickKeepsOffer ==
    ASSUME IInv, NEW now \in Nat, tickAt <= now, Tick(now),
           Offer(app, portals, tickAt, "NONE")
    PROVE  Offer(app, portals', now, "NONE")
<1> DEFINE i == app.portal
<1> SUFFICES ASSUME Prepared(app) PROVE Offer(app, portals', now, "NONE")
  BY DEF Offer
<1>1. IInv'
  BY TickPreserves
<1>2. /\ portals \in [PortalIDs -> Portal] /\ DOMAIN portals' = PortalIDs' /\ tickAt \in Nat
  BY <1>1 DEF IInv, TypeOK, Time
<1>3. i \in PortalIDs
  BY <1>2 DEF Offer
<1>4. /\ i \in PortalIDs' /\ portals'[i].plane = portals[i].plane
      /\ portals'[i].flow = portals[i].flow /\ SameRisk(portals'[i], portals[i])
  BY <1>3, TickLeavesPortal
<1>5. RiskCritical(portals[i], tickAt) => RiskCritical(portals'[i], now)
  BY <1>2, <1>3, <1>4, RiskMonotone, RiskAgrees
<1> HIDE DEF i
<1> QED BY <1>2, <1>4, <1>5 DEF Offer, i, SameRisk

(* A tick keeps the observer that is followed: still on the way, lost, or  *)
(* home with the plane explored.                                           *)
LEMMA TickKeepsFollow ==
    ASSUME IInv, NEW now \in Nat, tickAt <= now, Tick(now),
           Follow(app, observers, exploredAt)
    PROVE  Follow(app, observers', exploredAt')
<1> SUFFICES ASSUME app.step = 7 PROVE Follow(app, observers', exploredAt')
  BY DEF Follow
<1> DEFINE o == app.observer
           pl == app.plane
           ps == ResolvedPortals(now)
           os == ResolvedObservers(ps, now)
           r == os[o]
<1>1. /\ o \in Observers /\ pl \in Planes
      /\ \/ observers[o].status = "RETURNING" /\ observers[o].plane = pl
         \/ observers[o].status = "LOST"
         \/ observers[o].status = "AVAILABLE" /\ exploredAt[pl] # Nil
  BY DEF Follow
<1>2. exploredAt' = ExploredPlanes(os)
  BY DEF Tick
<1>3. observers'[o] = r \/ r.status = "WAITING_RETURN"
  BY <1>1, TickObservers
<1>4. r = ResolveObserverLifecycle(observers[o], ps, now)
  BY <1>1 DEF ResolvedObservers
<1>5. exploredAt'[pl] = IF exploredAt[pl] = Nil /\ ReturnTimes(os, pl) # {}
                        THEN Min(ReturnTimes(os, pl)) ELSE exploredAt[pl]
  BY <1>1, <1>2 DEF ExploredPlanes
<1>6. ReturnTimes(os, pl) # {} => Min(ReturnTimes(os, pl)) # Nil
  <2> DEFINE R == ReturnTimes(os, pl)
  <2>1. R \in SUBSET Nat
    BY ReturnTimesNat
  <2> HIDE DEF R
  <2>2. R # {} => Min(R) \in R
    BY <2>1, MinNat
  <2>3. R # {} => Min(R) # Nil
    BY <2>1, <2>2 DEF Nil
  <2> QED BY <2>3 DEF R
<1>7. CASE observers[o].status = "RETURNING" /\ observers[o].plane = pl
  <2>1. r = ResolveReturning(observers[o], ps[observers[o].portal], now)
    BY <1>4, <1>7 DEF ResolveObserverLifecycle
  <2>2. r = observers[o] \/ r.status = "LOST" \/ r.status = "AVAILABLE"
    BY <2>1 DEF ResolveReturning, AtHome
  <2>3. observers'[o] = r
    BY <1>3, <1>7, <2>2
  <2>4. ASSUME r.status = "AVAILABLE" PROVE exploredAt'[pl] # Nil
    <3>1. observers[o].endsAt \in ReturnTimes(os, pl)
      BY <1>1, <1>7, <2>4 DEF ReturnTimes
    <3> QED BY <1>5, <1>6, <3>1
  <2> HIDE DEF o, pl, r
  <2> QED BY <1>1, <1>7, <2>2, <2>3, <2>4 DEF Follow, o, pl
<1>8. CASE observers[o].status = "LOST"
  <2>1. observers'[o] = observers[o]
    BY <1>1, <1>8, TickFreezes
  <2> QED BY <1>1, <1>8, <2>1 DEF Follow
<1>9. CASE observers[o].status = "AVAILABLE" /\ exploredAt[pl] # Nil
  <2>1. r = observers[o]
    BY <1>4, <1>9 DEF ResolveObserverLifecycle
  <2>2. observers'[o] = observers[o] /\ exploredAt'[pl] = exploredAt[pl]
    BY <1>3, <1>5, <1>9, <2>1
  <2> QED BY <1>1, <1>9, <2>2 DEF Follow
<1> QED BY <1>1, <1>7, <1>8, <1>9

(* Every operation begins with the tick at its own instant.                *)
LEMMA ResolveGood ==
    ASSUME TInv, NEW now \in tickAt..MaxTime, Resolve(now)
    PROVE  TInv'
<1>1. /\ Idle /\ stage' = "ticked" /\ saved' = Snapshot /\ app' = app /\ op' = op
      /\ IF now = tickAt THEN UNCHANGED vars ELSE Tick(now)
  BY DEF Resolve
<1>2. ScriptFound /\ Did = "NONE" /\ IInv
  BY <1>1, FoundBetween DEF Idle, ScriptFound
<1>3. now \in Nat /\ tickAt <= now
  BY <1>2, ConfigTypes DEF IInv, TypeOK, Time
<1>4. /\ IInv' /\ Offer(app, portals', tickAt', "NONE")
      /\ Follow(app, observers', exploredAt')
  <2>1. CASE now = tickAt
    <3>1. UNCHANGED vars
      BY <1>1, <2>1
    <3>2. IInv'
      BY <1>2, <3>1 DEF vars, IInv, TypeOK, PortalIDs, GoodRest, ValidSpawn
    <3> QED BY <1>2, <3>1, <3>2 DEF vars, ScriptFound
  <2>2. CASE now # tickAt
    <3>1. Tick(now) /\ tickAt' = now
      BY <1>1, <2>2 DEF Tick
    <3> QED BY <1>2, <1>3, <3>1, TickPreserves, TickKeepsOffer, TickKeepsFollow DEF ScriptFound
  <2> QED BY <2>1, <2>2
<1>5. Did' = "NONE"
  BY <1>1, <1>2 DEF Did
<1>6. ScriptTypes'
  BY <1>1 DEF TInv, ScriptTypes, Idle
<1>7. Offer(app, portals, tickAt, Did)' /\ Follow(app, observers, exploredAt)'
  BY <1>1, <1>4, <1>5
<1>8. SavedSound'
  <2>1. SoundLab(Snapshot)
    BY <1>2, SnapshotSound
  <2>2. /\ Snapshot.app = app /\ Snapshot.portals = portals /\ Snapshot.tickAt = tickAt
        /\ Snapshot.observers = observers /\ Snapshot.exploredAt = exploredAt
    BY DEF Snapshot
  <2>3. SoundStart(Snapshot)
    BY <1>2, <2>1, <2>2 DEF SoundStart, ScriptFound
  <2> QED BY <1>1, <2>3 DEF SavedSound
<1>9. Departed' /\ TargetOffered' /\ ReturnAwaited'
  BY <1>1 DEF Departed, TargetOffered, ReturnAwaited, Settled
<1> QED BY <1>4, <1>6, <1>7, <1>8, <1>9 DEF TInv

-----------------------------------------------------------------------------
(* Commands under the script                                               *)

(* What a command may do to a portal, did being the command if the portal  *)
(* is the one it names.                                                    *)
UsedAs(p, q, did) ==
    /\ q.plane = p.plane
    /\ SameRisk(q, p) \/ (p.stability = "UNSTABLE" /\ did = "STABILIZE")
    /\ \/ q.flow = p.flow
       \/ did = "SEND" /\ q.flow = "OUTBOUND"
       \/ did = "RECALL" /\ q.flow = "INBOUND"

(* The portals that are not named are left alone.                          *)
LEMMA LeftAlone ==
    ASSUME NEW p, NEW did
    PROVE  UsedAs(p, p, did)
BY DEF UsedAs, SameRisk

(* Stabilize takes an UNSTABLE portal.                                     *)
LEMMA StabilizeUses ==
    ASSUME IInv, NEW i \in PortalIDs, Stabilize(i), NEW j \in PortalIDs
    PROVE  /\ j \in PortalIDs'
           /\ UsedAs(portals[j], portals'[j], IF j = i THEN "STABILIZE" ELSE "NONE")
<1> DEFINE e == CurrentEnergy(portals[i], tickAt) + StabilizeBoost
<1>1. /\ portals[i].stability = "UNSTABLE" /\ nextPortalID' = nextPortalID
      /\ portals' = [portals EXCEPT ![i].stability = "STABLE", ![i].collapseAt = Nil,
                                    ![i].energyBase = e, ![i].energyBaseAt = tickAt,
                                    ![i].updatedAt = tickAt]
  BY DEF Stabilize
<1> HIDE DEF e
<1>2. portals \in [PortalIDs -> Portal] /\ PortalIDs' = PortalIDs
  BY <1>1 DEF IInv, TypeOK, PortalIDs
<1>3. CASE j # i
  <2>1. portals'[j] = portals[j]
    BY <1>1, <1>2, <1>3
  <2> QED BY <1>2, <2>1, LeftAlone
<1>4. CASE j = i
  <2>1. portals'[i].plane = portals[i].plane /\ portals'[i].flow = portals[i].flow
    BY <1>1, <1>2 DEF Portal
  <2> QED BY <1>1, <1>2, <1>4, <2>1 DEF UsedAs
<1> QED BY <1>3, <1>4

(* A manual close ends a portal and changes nothing else of it.            *)
LEMMA CloseUses ==
    ASSUME IInv, NEW i \in PortalIDs, NEW confirm, ClosePortal(i, confirm),
           NEW j \in PortalIDs, NEW did
    PROVE  j \in PortalIDs' /\ UsedAs(portals[j], portals'[j], did)
<1>1. /\ portals' = [portals EXCEPT ![i] = Closed(portals[i], tickAt)]
      /\ nextPortalID' = nextPortalID
  BY DEF ClosePortal
<1>2. portals \in [PortalIDs -> Portal] /\ PortalIDs' = PortalIDs
  BY <1>1 DEF IInv, TypeOK, PortalIDs
<1>3. CASE j # i
  <2>1. portals'[j] = portals[j]
    BY <1>1, <1>2, <1>3
  <2> QED BY <1>2, <2>1, LeftAlone
<1>4. CASE j = i
  <2>1. portals'[i] = Closed(portals[i], tickAt) /\ portals[i] \in Portal
    BY <1>1, <1>2
  <2>2. /\ portals'[i].plane = portals[i].plane /\ portals'[i].flow = portals[i].flow
        /\ SameRisk(portals'[i], portals[i])
    BY <2>1 DEF Closed, Portal, SameRisk
  <2> QED BY <1>2, <1>4, <2>2 DEF UsedAs
<1> QED BY <1>3, <1>4

(* A transit fixes the direction of its portal.                            *)
LEMMA FlowUses ==
    ASSUME IInv, NEW i \in PortalIDs, NEW flow, SetFlow(i, flow), nextPortalID' = nextPortalID,
           NEW action, \/ action = "SEND" /\ flow = "OUTBOUND"
                       \/ action = "RECALL" /\ flow = "INBOUND",
           NEW j \in PortalIDs
    PROVE  j \in PortalIDs' /\ UsedAs(portals[j], portals'[j], IF j = i THEN action ELSE "NONE")
<1>1. portals \in [PortalIDs -> Portal] /\ PortalIDs' = PortalIDs
  BY DEF IInv, TypeOK, PortalIDs
<1>2. CASE portals' = portals
  BY <1>1, <1>2, LeftAlone
<1>3. CASE portals' = [portals EXCEPT ![i].flow = flow, ![i].updatedAt = tickAt]
  <2>1. CASE j # i
    <3>1. portals'[j] = portals[j]
      BY <1>1, <1>3, <2>1
    <3> QED BY <1>1, <3>1, LeftAlone
  <2>2. CASE j = i
    <3>1. /\ portals'[i].plane = portals[i].plane /\ portals'[i].flow = flow
          /\ SameRisk(portals'[i], portals[i])
      BY <1>1, <1>3 DEF Portal, SameRisk
    <3> QED BY <1>1, <2>2, <3>1 DEF UsedAs
  <2> QED BY <2>1, <2>2
<1> QED BY <1>2, <1>3 DEF SetFlow

(* An extraction portal is added beside the others.                        *)
LEMMA ExtractionUses ==
    ASSUME IInv, NEW plane \in Planes, OpenExtraction(plane), NEW j \in PortalIDs, NEW did
    PROVE  j \in PortalIDs' /\ UsedAs(portals[j], portals'[j], did)
<1>1. (\E p : portals' = Opened(portals, p)) /\ nextPortalID' = nextPortalID + 1
  BY DEF OpenExtraction
<1>2. nextPortalID \in Nat
  BY DEF IInv, TypeOK
<1>3. j \in PortalIDs' /\ portals'[j] = portals[j]
  BY <1>1, <1>2 DEF Opened, PortalIDs
<1> QED BY <1>3, LeftAlone

(* What is on offer after a command, given what it has done to the target. *)
LEMMA OfferAfterCommand ==
    ASSUME IInv, IInv', tickAt' = tickAt, app' = app,
           Offer(app, portals, tickAt, "NONE"),
           \A j \in PortalIDs :
              j = app.portal => j \in PortalIDs' /\ UsedAs(portals[j], portals'[j], Did')
    PROVE  Offer(app, portals, tickAt, Did)'
<1> DEFINE i == app.portal
           did == Did'
<1> SUFFICES ASSUME Prepared(app) PROVE Offer(app, portals', tickAt, did)
  BY DEF Offer
<1>1. DOMAIN portals = PortalIDs /\ DOMAIN portals' = PortalIDs'
  BY DEF IInv, TypeOK
<1>2. /\ i \in PortalIDs /\ portals[i].plane = app.plane
      /\ app.step = 4 => portals[i].stability = "UNSTABLE"
      /\ app.step = 5 => portals[i].stability = "STABLE" /\ RiskCritical(portals[i], tickAt)
      /\ app.phase = "SEND_REPLACEMENT" => portals[i].flow # "INBOUND"
      /\ app.phase = "RECALL_READY" => portals[i].flow # "OUTBOUND"
  BY <1>1 DEF Offer
<1>3. i \in PortalIDs' /\ UsedAs(portals[i], portals'[i], did)
  BY <1>2
<1>4. SameRisk(portals'[i], portals[i]) =>
        /\ portals'[i].stability = portals[i].stability
        /\ RiskCritical(portals'[i], tickAt) <=> RiskCritical(portals[i], tickAt)
  BY RiskAgrees DEF SameRisk
<1> HIDE DEF i, did
<1> QED BY <1>1, <1>2, <1>3, <1>4 DEF Offer, UsedAs, i

(* Step 7 keeps somebody to follow through a command.                      *)
LEMMA FollowAfterCommand ==
    ASSUME TInv, Settled, Command
    PROVE  Follow(app, observers', exploredAt')
<1> SUFFICES ASSUME app.step = 7 PROVE Follow(app, observers', exploredAt')
  BY DEF Follow
<1> DEFINE o == app.observer
<1>1. /\ o \in Observers /\ app.plane \in Planes
      /\ observers[o].status = "RETURNING" /\ observers[o].plane = app.plane
  BY DEF TInv, Follow, ReturnAwaited
<1>2. observers'[o] = observers[o] \/ observers'[o].status = "LOST"
  BY <1>1, CommandTransits DEF InTransit, TInv
<1> QED BY <1>1, <1>2 DEF Follow

(* A command under way.                                                    *)
LEMMA CommandedGood ==
    ASSUME TInv, Settled, IInv', Offer(app, portals, tickAt, Did)',
           Follow(app, observers', exploredAt'), Departed',
           stage' = "commanded", saved' = saved, app' = app
    PROVE  TInv'
<1>1. ScriptTypes'
  BY DEF TInv, ScriptTypes
<1>2. Follow(app, observers, exploredAt)'
  BY DEF Follow
<1>3. SavedSound'
  BY DEF TInv, SavedSound, Settled
<1>4. TargetOffered' /\ ReturnAwaited'
  BY DEF TargetOffered, ReturnAwaited, Settled
<1> QED BY <1>1, <1>2, <1>3, <1>4 DEF TInv

(* A SEND or RECALL leaves its traveller in the corridor.                  *)
LEMMA DepartureSeen ==
    ASSUME NEW o \in Observers, observers \in [Observers -> Observer],
           NEW status, NEW i, NEW at, NEW d,
           observers' = [observers EXCEPT ![o] = StartTransit(@, status, i, at, d)]
    PROVE  observers'[o].status = status /\ observers'[o].portal = i
<1>1. observers'[o] = StartTransit(observers[o], status, i, at, d) /\ observers[o] \in Observer
  OBVIOUS
<1> QED BY <1>1 DEF StartTransit, Observer

(* Every command, and the rejected SEND of step 5, keeps the invariant     *)
(* until its hook has run.                                                 *)
LEMMA TutorialCommandGood ==
    ASSUME TInv, TutorialCommand
    PROVE  TInv'
<1>0. IInv /\ observers \in [Observers -> Observer]
  BY DEF TInv, IInv, TypeOK
<1>1. ASSUME Settled PROVE Offer(app, portals, tickAt, "NONE")
  <2>1. ScriptFound BY <1>1, FoundBetween DEF Settled
  <2> QED BY <2>1 DEF ScriptFound
<1>2. ASSUME NEW action, NEW i, Commanded(action, i)
      PROVE  /\ Settled /\ stage' = "commanded" /\ saved' = saved /\ app' = app
             /\ op'.action = action /\ op'.portal = i /\ op'.critical = FALSE
             /\ Did' = IF app.portal = i THEN action ELSE "NONE"
  <2>1. /\ Settled /\ stage' = "commanded" /\ saved' = saved /\ app' = app
        /\ op' = [action |-> action, portal |-> i, critical |-> FALSE, before |-> portals]
    BY <1>2 DEF Commanded
  <2>2. op'.action = action /\ op'.portal = i /\ op'.critical = FALSE
    BY <2>1
  <2> QED BY <2>1, <2>2 DEF Did
<1>3. ASSUME NEW i \in PortalIDs, Stabilize(i), Commanded("STABILIZE", i) PROVE TInv'
  <2>0. /\ Settled /\ stage' = "commanded" /\ saved' = saved /\ app' = app
        /\ op'.action = "STABILIZE" /\ op'.portal = i /\ op'.critical = FALSE
        /\ Did' = IF app.portal = i THEN "STABILIZE" ELSE "NONE"
    BY <1>2, <1>3
  <2>1. Command /\ tickAt' = tickAt /\ IInv'
    BY <1>0, <1>3, StabilizePreserves DEF Command, Stabilize
  <2>2. Offer(app, portals, tickAt, Did)'
    <3>1. \A j \in PortalIDs :
             /\ j \in PortalIDs'
             /\ UsedAs(portals[j], portals'[j], IF j = i THEN "STABILIZE" ELSE "NONE")
      BY <1>0, <1>3, StabilizeUses
    <3>2. \A j \in PortalIDs :
             j = app.portal => j \in PortalIDs' /\ UsedAs(portals[j], portals'[j], Did')
      BY <2>0, <3>1
    <3>3. Offer(app, portals, tickAt, "NONE")
      BY <1>1, <2>0
    <3> QED BY <1>0, <2>0, <2>1, <3>2, <3>3, OfferAfterCommand
  <2>3. Follow(app, observers', exploredAt')
    BY <2>0, <1>3, <2>1, FollowAfterCommand
  <2>4. Departed'
    <3>1. op'.action # "SEND" /\ op'.action # "RECALL"
      BY <2>0
    <3> QED BY <3>1 DEF Departed
  <2> QED BY <2>0, <1>3, <2>1, <2>2, <2>3, <2>4, CommandedGood
<1>4. ASSUME NEW i \in PortalIDs, ClosePortal(i, TRUE), Commanded("CLOSE", i) PROVE TInv'
  <2>0. /\ Settled /\ stage' = "commanded" /\ saved' = saved /\ app' = app
        /\ op'.action = "CLOSE" /\ op'.portal = i /\ op'.critical = FALSE
        /\ Did' = IF app.portal = i THEN "CLOSE" ELSE "NONE"
    BY <1>2, <1>4
  <2>1. Command /\ tickAt' = tickAt /\ IInv'
    BY <1>0, <1>4, ClosePreserves DEF Command, ClosePortal
  <2>2. Offer(app, portals, tickAt, Did)'
    <3>1. \A j \in PortalIDs :
             j \in PortalIDs' /\ UsedAs(portals[j], portals'[j], IF j = i THEN "CLOSE" ELSE "NONE")
      BY <1>0, <1>4, CloseUses
    <3>2. \A j \in PortalIDs :
             j = app.portal => j \in PortalIDs' /\ UsedAs(portals[j], portals'[j], Did')
      BY <2>0, <3>1
    <3>3. Offer(app, portals, tickAt, "NONE")
      BY <1>1, <2>0
    <3> QED BY <1>0, <2>0, <2>1, <3>2, <3>3, OfferAfterCommand
  <2>3. Follow(app, observers', exploredAt')
    BY <2>0, <1>4, <2>1, FollowAfterCommand
  <2>4. Departed'
    <3>1. op'.action # "SEND" /\ op'.action # "RECALL"
      BY <2>0
    <3> QED BY <3>1 DEF Departed
  <2> QED BY <2>0, <1>4, <2>1, <2>2, <2>3, <2>4, CommandedGood
<1>5. ASSUME NEW i \in PortalIDs, SendObserver(i, TRUE), Commanded("SEND", i) PROVE TInv'
  <2>0. /\ Settled /\ stage' = "commanded" /\ saved' = saved /\ app' = app
        /\ op'.action = "SEND" /\ op'.portal = i /\ op'.critical = FALSE
        /\ Did' = IF app.portal = i THEN "SEND" ELSE "NONE"
    BY <1>2, <1>5
  <2>1. Command /\ tickAt' = tickAt /\ IInv' /\ SetFlow(i, "OUTBOUND")
        /\ nextPortalID' = nextPortalID
    BY <1>0, <1>5, SendPreserves DEF Command, SendObserver
  <2>2. Offer(app, portals, tickAt, Did)'
    <3>1. \A j \in PortalIDs :
             j \in PortalIDs' /\ UsedAs(portals[j], portals'[j], IF j = i THEN "SEND" ELSE "NONE")
      BY <1>0, <2>1, FlowUses
    <3>2. \A j \in PortalIDs :
             j = app.portal => j \in PortalIDs' /\ UsedAs(portals[j], portals'[j], Did')
      BY <2>0, <3>1
    <3>3. Offer(app, portals, tickAt, "NONE")
      BY <1>1, <2>0
    <3> QED BY <1>0, <2>0, <2>1, <3>2, <3>3, OfferAfterCommand
  <2>3. Follow(app, observers', exploredAt')
    BY <2>0, <1>5, <2>1, FollowAfterCommand
  <2>4. \E o \in Observers : observers'[o].status = "OUTBOUND" /\ observers'[o].portal = i
    <3> DEFINE available == {o \in Observers : observers[o].status = "AVAILABLE"}
    <3>1. /\ available # {}
          /\ \E d \in TransitDurations :
               observers' = [observers EXCEPT
                 ![Min(available)] = StartTransit(@, "OUTBOUND", i, tickAt, d)]
      BY <1>5 DEF SendObserver
    <3>2. available \in SUBSET Nat /\ available \subseteq Observers
      BY ConfigTypes DEF Observers
    <3> HIDE DEF available
    <3>3. Min(available) \in Observers
      BY <3>1, <3>2, MinNat
    <3> QED BY <1>0, <3>1, <3>3, DepartureSeen
  <2>5. Departed'
    <3>1. op'.action # "RECALL" /\ op'.portal = i
      BY <2>0
    <3> QED BY <2>0, <2>4, <3>1 DEF Departed
  <2> QED BY <2>0, <1>5, <2>1, <2>2, <2>3, <2>5, CommandedGood
<1>6. ASSUME NEW i \in PortalIDs, SendRejected(i) PROVE TInv'
  <2>1. /\ Settled /\ stage' = "commanded" /\ saved' = saved
        /\ op' = [action |-> "SEND", portal |-> i, critical |-> TRUE, before |-> portals]
        /\ UNCHANGED <<vars, app>>
    BY <1>6 DEF SendRejected
  <2>2. op'.critical
    BY <2>1
  <2>3. Did' = "NONE" /\ Departed'
    BY <2>2 DEF Did, Departed
  <2>4. /\ portals' = portals /\ observers' = observers /\ exploredAt' = exploredAt
        /\ tickAt' = tickAt /\ app' = app
    BY <2>1 DEF vars
  <2>5. IInv'
    BY <1>0, <2>1 DEF vars, IInv, TypeOK, PortalIDs, GoodRest, ValidSpawn
  <2>6. Offer(app, portals, tickAt, Did)' /\ Follow(app, observers', exploredAt')
    BY <1>1, <2>1, <2>3, <2>4 DEF TInv
  <2> QED BY <2>1, <2>3, <2>4, <2>5, <2>6, CommandedGood
<1>7. ASSUME NEW i \in PortalIDs, RecallObserver(i, TRUE), Commanded("RECALL", i) PROVE TInv'
  <2>0. /\ Settled /\ stage' = "commanded" /\ saved' = saved /\ app' = app
        /\ op'.action = "RECALL" /\ op'.portal = i /\ op'.critical = FALSE
        /\ Did' = IF app.portal = i THEN "RECALL" ELSE "NONE"
    BY <1>2, <1>7
  <2>1. Command /\ tickAt' = tickAt /\ IInv' /\ SetFlow(i, "INBOUND")
        /\ nextPortalID' = nextPortalID
    BY <1>0, <1>7, RecallPreserves DEF Command, RecallObserver
  <2>2. Offer(app, portals, tickAt, Did)'
    <3>1. \A j \in PortalIDs :
             j \in PortalIDs' /\ UsedAs(portals[j], portals'[j], IF j = i THEN "RECALL" ELSE "NONE")
      BY <1>0, <2>1, FlowUses
    <3>2. \A j \in PortalIDs :
             j = app.portal => j \in PortalIDs' /\ UsedAs(portals[j], portals'[j], Did')
      BY <2>0, <3>1
    <3>3. Offer(app, portals, tickAt, "NONE")
      BY <1>1, <2>0
    <3> QED BY <1>0, <2>0, <2>1, <3>2, <3>3, OfferAfterCommand
  <2>3. Follow(app, observers', exploredAt')
    BY <2>0, <1>7, <2>1, FollowAfterCommand
  <2>4. \E o \in Observers : observers'[o].status = "RETURNING" /\ observers'[o].portal = i
    <3> DEFINE W == LongestWaiting(observers, WaitingOn(observers, portals[i].plane))
    <3>1. \E o \in W, d \in TransitDurations :
             observers' = [observers EXCEPT ![o] = StartTransit(@, "RETURNING", i, tickAt, d)]
      BY <1>7 DEF RecallObserver
    <3>2. W \subseteq Observers
      BY DEF LongestWaiting, WaitingOn
    <3> HIDE DEF W
    <3>3. PICK o \in W, d \in TransitDurations :
             observers' = [observers EXCEPT ![o] = StartTransit(@, "RETURNING", i, tickAt, d)]
      BY <3>1
    <3>4. o \in Observers
      BY <3>2
    <3> QED BY <1>0, <3>3, <3>4, DepartureSeen
  <2>5. Departed'
    <3>1. op'.action # "SEND" /\ op'.portal = i
      BY <2>0
    <3> QED BY <2>0, <2>4, <3>1 DEF Departed
  <2> QED BY <2>0, <1>7, <2>1, <2>2, <2>3, <2>5, CommandedGood
<1>8. ASSUME NEW plane \in Planes, OpenExtraction(plane), Commanded("OPEN_EXTRACTION", Nil)
      PROVE  TInv'
  <2>0. /\ Settled /\ stage' = "commanded" /\ saved' = saved /\ app' = app
        /\ op'.action = "OPEN_EXTRACTION" /\ op'.portal = Nil /\ op'.critical = FALSE
        /\ Did' = IF app.portal = Nil THEN "OPEN_EXTRACTION" ELSE "NONE"
    BY <1>2, <1>8
  <2>1. Command /\ tickAt' = tickAt /\ IInv'
    BY <1>0, <1>8, OpenExtractionPreserves DEF Command, OpenExtraction
  <2>2. Offer(app, portals, tickAt, Did)'
    BY <1>0, <1>1, <2>0, <1>8, <2>1, ExtractionUses, OfferAfterCommand
  <2>3. Follow(app, observers', exploredAt')
    BY <2>0, <1>8, <2>1, FollowAfterCommand
  <2>4. Departed'
    <3>1. op'.action # "SEND" /\ op'.action # "RECALL"
      BY <2>0
    <3> QED BY <3>1 DEF Departed
  <2> QED BY <2>0, <1>8, <2>1, <2>2, <2>3, <2>4, CommandedGood
<1> QED BY <1>3, <1>4, <1>5, <1>6, <1>7, <1>8 DEF TutorialCommand

-----------------------------------------------------------------------------
(* Theorems                                                                *)

(* TInv holds in every state of the tutorial, in the middle of operations  *)
(* too.                                                                    *)
THEOREM TutorialInductive == TutorialSpec => []TInv
<1>1. TutorialInit => TInv
  BY TutorialStarts
<1>2. TInv /\ [TutorialNext]_tutorialVars => TInv'
  <2> SUFFICES ASSUME TInv, [TutorialNext]_tutorialVars PROVE TInv'
    OBVIOUS
  <2>1. CASE TutorialNext
    BY <2>1, ResolveGood, ReadGood, AfterTickGood, TutorialCommandGood, AfterCommandGood,
       SignalGood, StartLiveGood, ResetGood DEF TutorialNext
  <2>2. CASE UNCHANGED tutorialVars
    <3>1. UNCHANGED vars /\ app' = app /\ stage' = stage /\ op' = op /\ saved' = saved
      BY <2>2 DEF tutorialVars
    <3>2. /\ portals' = portals /\ nextPortalID' = nextPortalID /\ observers' = observers
          /\ exploredAt' = exploredAt /\ tickAt' = tickAt /\ PortalIDs' = PortalIDs
      BY <3>1 DEF vars, PortalIDs
    <3>3. IInv'
      BY <3>1 DEF TInv, vars, IInv, TypeOK, PortalIDs, GoodRest, ValidSpawn
    <3>4. ScriptTypes' /\ Departed' /\ SavedSound'
      BY <3>1, <3>2 DEF TInv, ScriptTypes, Departed, SavedSound
    <3>5. Offer(app, portals, tickAt, Did)' /\ Follow(app, observers, exploredAt)'
      BY <3>1, <3>2 DEF TInv, Did
    <3>6. TargetOffered' /\ ReturnAwaited'
      BY <3>1, <3>2 DEF TInv, TargetOffered, ReturnAwaited, Settled
    <3> QED BY <3>3, <3>4, <3>5, <3>6 DEF TInv
  <2> QED BY <2>1, <2>2
<1> QED BY <1>1, <1>2, PTL DEF TutorialSpec

(* Whatever ended, closed or reversed the prepared portal, a settled tick  *)
(* leaves the step a target that is OPEN and fit for it                    *)
(* (advanceTutorialAfterTick, advanceTutorialAfterCommand).                *)
THEOREM TargetIsOffered == TutorialSpec => []TargetOffered
<1>1. TInv => TargetOffered
  BY DEF TInv
<1> QED BY <1>1, TutorialInductive, PTL

(* Step 7 waits for an observer who is really on the way home from the     *)
(* plane that completes it.                                                *)
THEOREM ReturnIsAwaited == TutorialSpec => []ReturnAwaited
<1>1. TInv => ReturnAwaited
  BY DEF TInv
<1> QED BY <1>1, TutorialInductive, PTL

(* ResolveTick refuses no laboratory the tutorial put portals into, nor    *)
(* the one StartLive hands over.                                           *)
THEOREM TutorialTicksNeverFail == TutorialSpec => []TutorialTickNeverFails
<1>1. TInv => TutorialTickNeverFails
  <2> SUFFICES ASSUME TInv, NEW now \in tickAt..MaxTime PROVE TickResolves(now)
    BY DEF TutorialTickNeverFails
  <2>1. IInv /\ now \in Nat /\ tickAt <= now
    BY ConfigTypes DEF TInv, IInv, TypeOK, Time
  <2> QED BY <2>1, IInvResolves
<1> QED BY <1>1, TutorialInductive, PTL

=============================================================================
