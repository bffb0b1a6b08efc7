----------------------------- MODULE LabManager -----------------------------
(***************************************************************************)
(* The owner of one laboratory's state (internal/engine: manager.go,       *)
(* manager_commands.go, ownership.go) over its repository                  *)
(* (internal/persistence: state.go, load.go).  Callers queue for one       *)
(* context-aware mutex; the holder resolves a tick on a copy of the        *)
(* snapshot in memory, applies a command to the copy, commits copy and     *)
(* event drafts in one transaction, publishes the copy, signals, unlocks.  *)
(* Between any two of these steps the process may die; a commit may fail   *)
(* and a waiting caller may give up.  The laboratory is LIVE: the tutorial *)
(* hooks of both paths do nothing.                                         *)
(*                                                                         *)
(* The snapshot is abstracted to what the manager's own logic and its      *)
(* event log depend on.  What ResolveTick and a command do to portals is   *)
(* the subject of module Simulation; here they move the pending collapse   *)
(* instants, which drive the Leyline Override and its events.              *)
(***************************************************************************)
EXTENDS Integers, FiniteSets, FiniteSetsExt, Bags

CONSTANTS
    Requests,            \* every call made to the manager, each made once
    EmergencyDuration,
    MaxTime,             \* bound: the wall clock stops here
    MaxDraws,            \* bound: random numbers the laboratory rests on
    MaxCrashes, MaxFailures, MaxStepsBack   \* bounds: what goes wrong, how often

ASSUME ManagerConfig ==
    /\ EmergencyDuration \in Nat \ {0}
    /\ MaxTime \in Nat /\ MaxDraws \in Nat
    /\ MaxCrashes \in Nat /\ MaxFailures \in Nat /\ MaxStepsBack \in Nat

VARIABLES
    clock,     \* the wall clock, which may be stepped back
    up,        \* the process runs
    mem,       \* LabManager.snapshot
    db,        \* the committed snapshot
    log,       \* the committed events, as a bag
    rng,       \* random numbers drawn by this process and not given back
    holder,    \* who holds the mutex, Nobody when the token is in its channel
    work,      \* the holder's working copy
    pc,        \* per request: where its call stands
    req,       \* per request: its kind, and the instant a RUN tick carries
    answer,    \* per request: what its caller was told
    updates,   \* the coalescing channel of capacity 1 holds an edge
    mishaps    \* crashes, failed commits and clock steps so far

vars == <<clock, up, mem, db, log, rng, holder, work, pc, req, answer, updates, mishaps>>

Nobody == "nobody"
Nil    == -1
Times  == 0..MaxTime

ASSUME ManagerNames == Nobody \notin Requests

(* TICK and STATE read the clock under the mutex; a tick delivered to Run  *)
(* carries an instant read before it.                                      *)
Kinds == {"TICK", "RUN", "STATE", "COMMAND"}

(* due: the collapse instants of the OPEN portals; until: the override     *)
(* deadline; applied: the commands the state includes; draws: the random   *)
(* numbers it rests on.                                                    *)
Snapshot ==
    [tickAt: Times, due: SUBSET Times,
     until: Nat \cup {Nil}, applied: SUBSET Requests, draws: 0..MaxDraws]

Event(type, at, id) == [type |-> type, at |-> at, id |-> id]

NoWork == [snap |-> [tickAt |-> 0, due |-> {}, until |-> Nil, applied |-> {}, draws |-> 0],
           drafts |-> {}, verdict |-> "ok"]

-----------------------------------------------------------------------------
(* The domain, as far as the manager sees it                               *)

Hits(s, now) == {t \in s.due : t <= now}

(* eventsForOverride: every collapse starts a window; a window ends at its *)
(* deadline unless a collapse inside it restarted it.  Collapses at one    *)
(* instant count as one.                                                   *)
OverrideEvents(s, now) ==
    LET hits == Hits(s, now)
        open == {t + EmergencyDuration : t \in hits}
                  \cup (IF s.tickAt < s.until THEN {s.until} ELSE {})
        ended == {d \in open : /\ d <= now
                               /\ \A t \in hits : t <= d - EmergencyDuration \/ d <= t}
    IN {Event("STARTED", t, Nobody) : t \in hits}
         \cup {Event("ENDED", d, Nobody) : d \in ended}

(* ResolveTick: a second resolution of the same instant changes nothing.   *)
(* Otherwise the overdue portals collapse, and the generator may draw: a   *)
(* new delay or a new portal, which may have a collapse ahead.             *)
Ticked(s, now) ==
    IF now = s.tickAt
    THEN {s}
    ELSE LET hits == Hits(s, now)
             base == [s EXCEPT !.tickAt = now, !.due = @ \ hits,
                               !.until = IF hits = {} THEN @
                                         ELSE Max(hits) + EmergencyDuration]
         IN {base} \cup
            {[base EXCEPT !.draws = @ + 1, !.due = @ \cup new] :
               new \in IF s.draws < MaxDraws
                       THEN {{}} \cup {{t} : t \in (now + 1)..MaxTime}
                       ELSE {}}

(* An admitted command may remove a collapse instant (close, stabilize) or *)
(* draw (a transit's duration, an extraction portal).                      *)
Applied(s, r, now) ==
    LET done == [s EXCEPT !.applied = @ \cup {r}]
    IN {[done EXCEPT !.due = @ \ gone] : gone \in {{}} \cup {{t} : t \in s.due}}
         \cup {[done EXCEPT !.draws = @ + 1, !.due = @ \cup new] :
                 new \in IF s.draws < MaxDraws
                         THEN {{}} \cup {{t} : t \in (now + 1)..MaxTime}
                         ELSE {}}

NoRejectionEvent(r, now) == {}      \* mutant: a refusal leaves no trace

NewActionRejectedEvent(r, now) == {Event("REJECTED", now, r)}

-----------------------------------------------------------------------------
(* Calls                                                                   *)

(* A laboratory just loaded, with up to two portals bound to collapse.     *)
Init ==
    /\ clock = 0 /\ up = TRUE
    /\ db \in [tickAt: {0}, due: {{}} \cup {{t, u} : t, u \in 1..MaxTime}, until: {Nil},
               applied: {{}}, draws: {0}]
    /\ mem = db
    /\ log = EmptyBag /\ rng = 0
    /\ holder = Nobody /\ work = NoWork
    /\ pc = [r \in Requests |-> "idle"]
    /\ req = [r \in Requests |-> [kind |-> "STATE", at |-> Nil]]
    /\ answer = [r \in Requests |-> "none"]
    /\ updates = FALSE
    /\ mishaps = [crashes |-> 0, failures |-> 0, stepsBack |-> 0]

Call(r, kind) ==
    /\ up /\ pc[r] = "idle"
    /\ pc' = [pc EXCEPT ![r] = "waiting"]
    /\ req' = [req EXCEPT ![r] = [kind |-> kind,
                                  at |-> IF kind = "RUN" THEN clock ELSE Nil]]
    /\ UNCHANGED <<clock, up, mem, db, log, rng, holder, work, answer, updates, mishaps>>

(* LockContext returns the caller's cancellation, before or after it took  *)
(* the token.                                                              *)
Cancel(r) ==
    /\ pc[r] = "waiting"
    /\ pc' = [pc EXCEPT ![r] = "done"]
    /\ answer' = [answer EXCEPT ![r] = "error"]
    /\ UNCHANGED <<clock, up, mem, db, log, rng, holder, work, req, updates, mishaps>>

LockContextBarging(r) ==            \* mutant: the token is not awaited
    /\ pc[r] = "waiting"
    /\ holder' = r
    /\ pc' = [pc EXCEPT ![r] = "locked"]
    /\ UNCHANGED <<clock, up, mem, db, log, rng, work, req, answer, updates, mishaps>>

LockContext(r) ==
    /\ pc[r] = "waiting" /\ holder = Nobody
    /\ holder' = r
    /\ pc' = [pc EXCEPT ![r] = "locked"]
    /\ UNCHANGED <<clock, up, mem, db, log, rng, work, req, answer, updates, mishaps>>

Unlock(r, told) ==
    /\ holder' = Nobody
    /\ work' = NoWork
    /\ pc' = [pc EXCEPT ![r] = "done"]
    /\ answer' = [answer EXCEPT ![r] = told]
    /\ UNCHANGED <<clock, up, req>>

Now(r) == IF req[r].kind = "RUN" THEN req[r].at ELSE clock

NeverStale(r) == FALSE              \* mutant: an old instant is resolved anyway

Stale(r) == Now(r) < mem.tickAt

(* A tick or read older than the state is ignored; a command has no such   *)
(* path, ResolveTick refuses it.                                           *)
ResolveStale(r) ==
    /\ pc[r] = "locked" /\ Stale(r)
    /\ Unlock(r, IF req[r].kind = "COMMAND" THEN "error" ELSE "ok")
    /\ UNCHANGED <<mem, db, log, rng, updates, mishaps>>

Resolved(r, snap, drafts, verdict) ==
    /\ work' = [snap |-> snap, drafts |-> drafts, verdict |-> verdict]
    /\ rng' = rng + (snap.draws - mem.draws)
    /\ pc' = [pc EXCEPT ![r] = "resolved"]
    /\ UNCHANGED <<clock, up, mem, db, log, holder, req, answer, updates, mishaps>>

ResolveTick(r) ==
    /\ pc[r] = "locked" /\ ~Stale(r) /\ req[r].kind # "COMMAND"
    /\ \E ticked \in Ticked(mem, Now(r)) :
         Resolved(r, ticked, OverrideEvents(mem, Now(r)), "ok")

ApplyCommand(r) ==
    /\ pc[r] = "locked" /\ ~Stale(r) /\ req[r].kind = "COMMAND"
    /\ \E ticked \in Ticked(mem, clock) :
         \/ \E applied \in Applied(ticked, r, clock) :
              Resolved(r, applied,
                       OverrideEvents(mem, clock) \cup {Event("APPLIED", clock, r)}, "ok")
         \/ Resolved(r, ticked,
                     OverrideEvents(mem, clock) \cup NewActionRejectedEvent(r, clock),
                     "rejected")

meaningfulSnapshotChange(before, after) == [after EXCEPT !.tickAt = before.tickAt] # before

CommitsOnChangeOnly(r) ==           \* mutant: events alone are not committed
    req[r].kind = "COMMAND" \/ meaningfulSnapshotChange(mem, work.snap)

Commits(r) ==
    \/ req[r].kind = "COMMAND"
    \/ meaningfulSnapshotChange(mem, work.snap)
    \/ work.drafts # {}

(* One transaction stores the snapshot and inserts the drafts.             *)
Commit(r) ==
    /\ pc[r] = "resolved" /\ Commits(r)
    /\ db' = work.snap
    /\ log' = log (+) SetToBag(work.drafts)
    /\ pc' = [pc EXCEPT ![r] = "committed"]
    /\ UNCHANGED <<clock, up, mem, rng, holder, work, req, answer, updates, mishaps>>

CommitFailsPublishing(r) ==         \* mutant: memory keeps what the store refused
    /\ pc[r] = "resolved" /\ Commits(r)
    /\ mishaps.failures < MaxFailures
    /\ mishaps' = [mishaps EXCEPT !.failures = @ + 1]
    /\ mem' = work.snap
    /\ Unlock(r, "error")
    /\ UNCHANGED <<db, log, rng, updates>>

CommitFailsKeepingDraws(r) ==       \* mutant: the random source is not restored
    /\ pc[r] = "resolved" /\ Commits(r)
    /\ mishaps.failures < MaxFailures
    /\ mishaps' = [mishaps EXCEPT !.failures = @ + 1]
    /\ Unlock(r, "error")
    /\ UNCHANGED <<mem, db, log, rng, updates>>

CommitFailsLocked(r) ==             \* mutant: the error path keeps the mutex
    /\ pc[r] = "resolved" /\ Commits(r)
    /\ mishaps.failures < MaxFailures
    /\ mishaps' = [mishaps EXCEPT !.failures = @ + 1]
    /\ rng' = mem.draws
    /\ pc' = [pc EXCEPT ![r] = "done"]
    /\ answer' = [answer EXCEPT ![r] = "error"]
    /\ UNCHANGED <<clock, up, mem, db, log, holder, work, req, updates>>

(* The transaction rolls back, the random source returns to its checkpoint *)
(* and memory keeps the state it had.                                      *)
CommitFails(r) ==
    /\ pc[r] = "resolved" /\ Commits(r)
    /\ mishaps.failures < MaxFailures
    /\ mishaps' = [mishaps EXCEPT !.failures = @ + 1]
    /\ rng' = mem.draws
    /\ Unlock(r, "error")
    /\ UNCHANGED <<mem, db, log, updates>>

(* A resolution that only moved LastTickAt is published without a commit.  *)
(* Reads do not signal, nor does a resolution that changed nothing.        *)
Publish(r) ==
    /\ pc[r] = "committed" \/ (pc[r] = "resolved" /\ ~Commits(r))
    /\ mem' = work.snap
    /\ updates' = (updates \/ (req[r].kind # "STATE"
                               /\ (pc[r] = "committed" \/ mem # work.snap)))
    /\ Unlock(r, work.verdict)
    /\ UNCHANGED <<db, log, rng, mishaps>>

-----------------------------------------------------------------------------
(* Surroundings                                                            *)

(* The realtime bridge takes the edge.                                     *)
DrainUpdates ==
    /\ up /\ updates
    /\ updates' = FALSE
    /\ UNCHANGED <<clock, up, mem, db, log, rng, holder, work, pc, req, answer, mishaps>>

Advance ==
    /\ clock < MaxTime
    /\ \E t \in (clock + 1)..MaxTime : clock' = t
    /\ UNCHANGED <<up, mem, db, log, rng, holder, work, pc, req, answer, updates, mishaps>>

StepBack ==
    /\ clock > 0 /\ mishaps.stepsBack < MaxStepsBack
    /\ clock' = clock - 1
    /\ mishaps' = [mishaps EXCEPT !.stepsBack = @ + 1]
    /\ UNCHANGED <<up, mem, db, log, rng, holder, work, pc, req, answer, updates>>

Crash ==
    /\ up /\ mishaps.crashes < MaxCrashes
    /\ up' = FALSE
    /\ mishaps' = [mishaps EXCEPT !.crashes = @ + 1]
    /\ holder' = Nobody /\ work' = NoWork /\ updates' = FALSE
    /\ answer' = [r \in Requests |->
                    IF pc[r] \in {"idle", "done"} THEN answer[r] ELSE "lost"]
    /\ pc' = [r \in Requests |-> IF pc[r] = "idle" THEN "idle" ELSE "done"]
    /\ UNCHANGED <<clock, mem, db, log, rng, req>>

(* NewLabManager loads the committed snapshot and is given a fresh random  *)
(* source, whose draws are counted on from those the snapshot rests on.    *)
NewLabManager ==
    /\ ~up
    /\ up' = TRUE
    /\ mem' = db
    /\ rng' = db.draws
    /\ UNCHANGED <<clock, db, log, holder, work, pc, req, answer, updates, mishaps>>

(* The end of a bounded run: every call is over.                           *)
Quiescent ==
    /\ \A r \in Requests : pc[r] = "done"
    /\ UNCHANGED vars

Serve(r) ==
    \/ LockContext(r) \/ ResolveStale(r) \/ ResolveTick(r) \/ ApplyCommand(r)
    \/ Commit(r) \/ CommitFails(r) \/ Publish(r)

Next ==
    \/ \E r \in Requests :
         \/ \E kind \in Kinds : Call(r, kind)
         \/ Cancel(r)
         \/ Serve(r)
    \/ DrainUpdates \/ Advance \/ StepBack \/ Crash \/ NewLabManager \/ Quiescent

(* A caller in the queue is served and the mutex holder runs on: the token *)
(* channel hands itself to its waiting receivers in turn.                  *)
SafetySpec == Init /\ [][Next]_vars

Spec == SafetySpec /\ \A r \in Requests : WF_vars(Serve(r))

-----------------------------------------------------------------------------
(* Properties                                                              *)

(* Every field holds a value of its type, and only the request that holds  *)
(* the mutex is past LockContext.                                          *)
TypeOK ==
    /\ clock \in Times /\ up \in BOOLEAN /\ updates \in BOOLEAN
    /\ mem \in Snapshot /\ db \in Snapshot /\ work.snap \in Snapshot
    /\ rng \in 0..MaxDraws
    /\ holder \in Requests \cup {Nobody}
    /\ pc \in [Requests -> {"idle", "waiting", "locked", "resolved", "committed", "done"}]
    /\ \A r \in Requests : pc[r] \in {"locked", "resolved", "committed"} <=> holder = r

(* Memory and store hold the same laboratory whenever nobody is between    *)
(* commit and publication; only LastTickAt may be ahead in memory, because *)
(* a resolution that changed nothing else is not committed (manager.go:    *)
(* 182-234).                                                               *)
MemoryMatchesStore ==
    up /\ (\A r \in Requests : pc[r] # "committed") =>
        /\ ~meaningfulSnapshotChange(mem, db)
        /\ db.tickAt <= mem.tickAt

(* How often the end of a window was logged.                               *)
Endings(deadline) ==
    LET e == Event("ENDED", deadline, Nobody) IN IF BagIn(e, log) THEN log[e] ELSE 0

(* LEYLINE_OVERRIDE_ENDED is logged exactly once for every window that ran *)
(* to its deadline and never for one that a collapse restarted, although   *)
(* the tick that logs it may fail, be repeated after a crash from an older *)
(* LastTickAt, or arrive late (event_transition.go:143).                   *)
OverrideEndsOnce ==
    LET starts == {e.at : e \in {f \in BagToSet(log) : f.type = "STARTED"}}
        restarted(t) == \E s \in starts : t < s /\ s < t + EmergencyDuration
        seen == Max({mem.tickAt, db.tickAt})
    IN /\ \A t \in starts :
            Endings(t + EmergencyDuration) =
              IF t + EmergencyDuration <= seen /\ ~restarted(t) THEN 1 ELSE 0
       /\ \A e \in BagToSet(log) : e.type = "ENDED" => e.at - EmergencyDuration \in starts

(* A failed operation gives its random numbers back: between operations    *)
(* the source stands where the published state left it (randomTransaction, *)
(* manager.go:236-262).                                                    *)
RandomMatchesState == up /\ holder = Nobody => rng = mem.draws

(* While the process lives its laboratory never runs backwards, although a *)
(* tick may be delivered after a newer command and the clock may be        *)
(* stepped back (manager.go:188).                                          *)
TimeNeverRunsBack ==
    [][up /\ up' => mem.tickAt <= mem'.tickAt /\ mem.applied \subseteq mem'.applied]_vars

(* The ledger's view of the manager: the commands sent, what the store     *)
(* says of them and what their callers were told.                          *)
Sent == {r \in Requests : req[r].kind = "COMMAND"}

Decision ==
    [r \in Requests |->
       CASE r \in db.applied -> "applied"
         [] \E e \in BagToSet(log) : e.type = "REJECTED" /\ e.id = r -> "rejected"
         [] OTHER -> "none"]

Told ==
    [r \in Requests |->
       CASE pc[r] = "idle" -> "unsent"
         [] pc[r] = "done" -> answer[r]
         [] OTHER -> "pending"]

Ledger == INSTANCE CommandLedger WITH commands <- Sent, decision <- Decision, reply <- Told

(* Commands are decided at most once and durably, and every answer is true *)
(* of the store: executeCommand implements CommandLedger, its commit being *)
(* the moment of decision.                                                 *)
LedgerKept == Ledger!Spec

(* Every caller that waits for the mutex is eventually answered, cut off   *)
(* by a crash or gives up: every path of resolveLocked and executeCommand  *)
(* returns the mutex.                                                      *)
EveryCallerAnswered == \A r \in Requests : pc[r] = "waiting" ~> pc[r] = "done"

=============================================================================
