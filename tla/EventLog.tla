------------------------------ MODULE EventLog ------------------------------
(***************************************************************************)
(* The event log of a laboratory (domain/event_transition.go).  Events are *)
(* not written by the code that changes the state: every committed step is *)
(* compared with the state before it, and the log is what the comparison   *)
(* finds.  A late tick shows only the two ends of what may have been       *)
(* several transitions.                                                    *)
(*                                                                         *)
(* The laboratory is module Simulation; a step of it appends the events of *)
(* that step.  The log is a bag: the order in which it is read (by instant,*)
(* rank and ID, eventDraftLess) is left out, and so are the events of      *)
(* Leyline Override, which module LabManager derives.                      *)
(***************************************************************************)
EXTENDS Simulation, Bags

VARIABLE log     \* the committed events, a bag

logVars == <<vars, log>>

Event(type, portal, observer, plane, at) ==
    [type |-> type, portal |-> portal, observer |-> observer, plane |-> plane, at |-> at]

When(condition, event) == IF condition THEN {event} ELSE {}

RiskLevel(p, now) ==
    CASE RiskScore(p, now) <= 25 * RiskSafeHorizon -> "LOW"
      [] RiskScore(p, now) \in 25 * RiskSafeHorizon + 1 .. 50 * RiskSafeHorizon -> "MEDIUM"
      [] RiskScore(p, now) \in 50 * RiskSafeHorizon + 1 .. 75 * RiskSafeHorizon -> "HIGH"
      [] OTHER -> "CRITICAL"

-----------------------------------------------------------------------------
(* What one step is found to have done (EventsForStateTransition)          *)

OpenedEvents(i) ==
    LET p == portals'[i]
        type == IF p.kind = "EXTRACTION" THEN "EXTRACTION_PORTAL_OPENED" ELSE "PORTAL_OPENED"
    IN When(IsOpen(p), Event(type, i, Nil, p.plane, p.openedAt))

EndEvents(i) ==
    LET p == portals'[i]
        type == IF p.status = "COLLAPSED" THEN "PORTAL_COLLAPSED" ELSE "PORTAL_CLOSED"
    IN When(IsOpen(portals[i]) /\ ~IsOpen(p), Event(type, i, Nil, p.plane, p.closedAt))

(* An open portal that was stabilized or whose risk is in another band.    *)
OpenPortalEvents(i) ==
    LET prior == portals[i]
        p == portals'[i]
        open == IsOpen(prior) /\ IsOpen(p)
    IN When(open /\ prior.stability = "UNSTABLE" /\ p.stability = "STABLE",
            Event("PORTAL_STABILIZED", i, Nil, p.plane, p.updatedAt))
       \cup
       When(open /\ RiskLevel(prior, tickAt) # RiskLevel(p, tickAt'),
            Event("RISK_LEVEL_CHANGED", i, Nil, p.plane, tickAt'))

SynchronizedEvents(i) ==
    When(portals[i].syncedAt = Nil /\ portals'[i].syncedAt # Nil,
         Event("EXTRACTION_SYNCHRONIZED", i, Nil, portals[i].plane, portals'[i].syncedAt))

PortalEvents(i) ==
    IF i \notin PortalIDs THEN OpenedEvents(i)
    ELSE EndEvents(i) \cup OpenPortalEvents(i) \cup SynchronizedEvents(i)

DispatchEvents(o) ==
    LET q == observers'[o]
    IN When(observers[o].status = "AVAILABLE" /\ q.status = "OUTBOUND",
            Event("OBSERVER_DISPATCHED", q.portal, o, portals'[q.portal].plane, q.startedAt))

ArrivalDatedNow(o) ==      \* mutant: an arrival is dated with the tick
    LET prior == observers[o]
        q == observers'[o]
        plane == portals[prior.portal].plane
    IN IF prior.status # "OUTBOUND" \/ q.status \in {"OUTBOUND", "LOST"} THEN {}
       ELSE {Event("OBSERVER_ARRIVED", prior.portal, o, plane, tickAt'),
             Event("RESEARCH_STARTED", prior.portal, o, plane, tickAt')}

ArrivalEvents(o) ==
    LET prior == observers[o]
        q == observers'[o]
        plane == portals[prior.portal].plane
    IN IF prior.status # "OUTBOUND" \/ q.status \in {"OUTBOUND", "LOST"} THEN {}
       ELSE {Event("OBSERVER_ARRIVED", prior.portal, o, plane, prior.endsAt),
             Event("RESEARCH_STARTED", prior.portal, o, plane, prior.endsAt)}

ResearchSeenOnly(o) ==     \* mutant: research that a late tick skips is not logged
    LET prior == observers[o]
    IN When(prior.status = "EXPLORING" /\ observers'[o].status \notin {"EXPLORING", "LOST"},
            Event("RESEARCH_COMPLETED", Nil, o, prior.plane, prior.endsAt))

(* Research that began and ended between the two states is completed too.  *)
ResearchEvents(o) ==
    LET prior == observers[o]
        q == observers'[o]
    IN When(prior.status = "EXPLORING" /\ q.status \notin {"EXPLORING", "LOST"},
            Event("RESEARCH_COMPLETED", Nil, o, prior.plane, prior.endsAt))
       \cup
       When(prior.status = "OUTBOUND" /\ q.status \notin {"OUTBOUND", "LOST", "EXPLORING"},
            Event("RESEARCH_COMPLETED", Nil, o, q.plane, prior.endsAt + ResearchDuration))

ReturnEvents(o) ==
    LET prior == observers[o]
        q == observers'[o]
    IN When(prior.status \in {"WAITING_RETURN", "EXPLORING", "OUTBOUND"}
              /\ q.status = "RETURNING",
            Event("OBSERVER_RETURN_STARTED", q.portal, o, q.plane, q.startedAt))
       \cup
       When(prior.status = "RETURNING" /\ q.status = "AVAILABLE",
            Event("OBSERVER_RETURNED", prior.portal, o, prior.plane, prior.endsAt))

LostEvents(o) ==
    LET prior == observers[o]
    IN When(prior.status # "LOST" /\ observers'[o].status = "LOST",
            Event("OBSERVER_LOST", prior.portal, o, portals[prior.portal].plane,
                  observers'[o].updatedAt))

ObserverEvents(o) ==
    DispatchEvents(o) \cup ArrivalEvents(o) \cup ResearchEvents(o)
      \cup ReturnEvents(o) \cup LostEvents(o)

PlaneEvents(pl) ==
    When(exploredAt[pl] = Nil /\ exploredAt'[pl] # Nil,
         Event("PLANE_EXPLORED", Nil, Nil, pl, exploredAt'[pl]))

EventsForStateTransition ==
    (UNION {PortalEvents(i) : i \in 1..(nextPortalID' - 1)})
      \cup (UNION {ObserverEvents(o) : o \in Observers})
      \cup (UNION {PlaneEvents(pl) : pl \in Planes})

-----------------------------------------------------------------------------

LogInit == Init /\ log = EmptyBag

LogNext == Next /\ log' = log (+) SetToBag(EventsForStateTransition)

LogSpec == LogInit /\ [][LogNext]_logVars

-----------------------------------------------------------------------------
(* Properties                                                              *)

(* How often the log holds events of a set: each counts once for each copy.*)
Copies(events) == Cardinality(UNION {{e} \X (1..log[e]) : e \in events})

OfPortal(i, types) == Copies({e \in DOMAIN log : e.portal = i /\ e.type \in types})
OfObserver(o, type) == Copies({e \in DOMAIN log : e.observer = o /\ e.type = type})
OfPlane(pl) == Copies({e \in DOMAIN log : e.plane = pl /\ e.type = "PLANE_EXPLORED"})

Once(condition) == IF condition THEN 1 ELSE 0

(* Every transition is logged exactly once, however many of them one late  *)
(* tick jumps over: the counts of the log add up to the state of every     *)
(* portal, observer and plane.                                             *)
LogAccountsForState ==
    /\ \A i \in PortalIDs :
         /\ OfPortal(i, {"PORTAL_OPENED", "EXTRACTION_PORTAL_OPENED"}) = 1
         /\ OfPortal(i, {"PORTAL_CLOSED"}) = Once(portals[i].status = "CLOSED")
         /\ OfPortal(i, {"PORTAL_COLLAPSED"}) = Once(portals[i].status = "COLLAPSED")
         /\ OfPortal(i, {"EXTRACTION_SYNCHRONIZED"}) = Once(portals[i].syncedAt # Nil)
    /\ \A o \in Observers :
         LET status == observers[o].status
             out == OfObserver(o, "OBSERVER_DISPATCHED") - OfObserver(o, "OBSERVER_ARRIVED")
             back == OfObserver(o, "OBSERVER_RETURN_STARTED") - OfObserver(o, "OBSERVER_RETURNED")
             lost == OfObserver(o, "OBSERVER_LOST")
         IN /\ out >= 0 /\ back >= 0
            /\ out + back = lost + Once(InTransit(observers[o]))
            /\ lost = Once(status = "LOST")
            /\ OfObserver(o, "RESEARCH_STARTED") = OfObserver(o, "OBSERVER_ARRIVED")
            /\ OfObserver(o, "RESEARCH_STARTED") - OfObserver(o, "RESEARCH_COMPLETED")
                 = Once(status = "EXPLORING")
            /\ OfObserver(o, "RESEARCH_COMPLETED") - OfObserver(o, "OBSERVER_RETURN_STARTED")
                 = Once(status = "WAITING_RETURN")
    /\ \A pl \in Planes : OfPlane(pl) = Once(exploredAt[pl] # Nil)

(* The history of a portal lies within its life: whatever tick notices it, *)
(* nothing that happened in or through a portal is dated before it opened  *)
(* or after it ended.                                                      *)
HistoryWithinLife ==
    \A e \in DOMAIN log : e.portal # Nil =>
      /\ portals[e.portal].openedAt <= e.at
      /\ ~IsOpen(portals[e.portal]) => e.at <= portals[e.portal].closedAt

=============================================================================
