-------------------------- MODULE LabManagerProofs --------------------------
(***************************************************************************)
(* Proofs about module LabManager, for any number of calls, any duration   *)
(* of the override and any number of crashes, failures and clock steps.    *)
(***************************************************************************)
EXTENDS LabManager, NumberLemmas, TLAPS

-----------------------------------------------------------------------------
(* The inductive invariant                                                 *)

Places == {"idle", "waiting", "locked", "resolved", "committed", "done"}
Answers == {"none", "ok", "rejected", "error", "lost"}

Types ==
    /\ clock \in Times /\ up \in BOOLEAN /\ updates \in BOOLEAN
    /\ mem \in Snapshot /\ db \in Snapshot /\ work.snap \in Snapshot
    /\ work.verdict \in {"ok", "rejected"}
    /\ rng \in 0..MaxDraws
    /\ holder \in Requests \cup {Nobody}
    /\ pc \in [Requests -> Places]
    /\ req \in [Requests -> [kind: Kinds, at: Times \cup {Nil}]]
    /\ \A r \in Requests : req[r].kind = "RUN" => req[r].at \in Times
    /\ answer \in [Requests -> Answers]

(* Only the holder is past LockContext, and no call outlives the process.  *)
Mutex ==
    /\ \A r \in Requests : pc[r] \in {"locked", "resolved", "committed"} <=> holder = r
    /\ ~up => \A r \in Requests : pc[r] \in {"idle", "done"}

(* The working copy is ahead in the steps between ResolveTick and Unlock.  *)
Working(r) == pc[r] \in {"resolved", "committed"}

Random ==
    /\ \A r \in Requests : Working(r) => rng = work.snap.draws
    /\ up /\ (\A r \in Requests : ~Working(r)) => rng = mem.draws

Same(s, t) ==
    s.due = t.due /\ s.until = t.until /\ s.applied = t.applied /\ s.draws = t.draws

Stored ==
    /\ up /\ (\A r \in Requests : pc[r] # "committed") =>
         Same(mem, db) /\ db.tickAt <= mem.tickAt
    /\ \A r \in Requests : pc[r] = "committed" => db = work.snap

Ahead ==
    \A r \in Requests : Working(r) =>
        mem.tickAt <= work.snap.tickAt /\ mem.applied \subseteq work.snap.applied

(* Whether a set of events refuses a command.                              *)
Refuses(events, r) == \E e \in events : e.type = "REJECTED" /\ e.id = r

(* Only a command that was sent, and committed, is decided, and only once. *)
Decided ==
    \A r \in Requests :
        /\ pc[r] = "idle" => req[r].kind # "COMMAND"
        /\ r \in db.applied \/ Refuses(BagToSet(log), r) =>
             req[r].kind = "COMMAND" /\ pc[r] \in {"committed", "done"}
        /\ ~(r \in db.applied /\ Refuses(BagToSet(log), r))

(* The verdict is that of the working copy and its drafts, then that of    *)
(* the store.                                                              *)
Verdicts ==
    \A r \in Requests :
        /\ Working(r) /\ req[r].kind # "COMMAND" => work.verdict = "ok"
        /\ pc[r] = "resolved" =>
             /\ work.snap.applied = IF req[r].kind = "COMMAND" /\ work.verdict = "ok"
                                    THEN mem.applied \cup {r} ELSE mem.applied
             /\ \A q \in Requests :
                  Refuses(work.drafts, q) <=> q = r /\ work.verdict = "rejected"
        /\ pc[r] = "committed" =>
             /\ req[r].kind = "COMMAND" /\ work.verdict = "ok" => r \in db.applied
             /\ work.verdict = "rejected" => r \notin db.applied /\ Refuses(BagToSet(log), r)

(* What is due is due after the last tick.                                 *)
NothingOverdue(s) == \A t \in s.due : s.tickAt < t

Pending ==
    /\ NothingOverdue(mem) /\ NothingOverdue(db)
    /\ \A r \in Requests : Working(r) => NothingOverdue(work.snap)

(* The deadline a tick leaves (ResolveTick).                               *)
Until(s, now) ==
    IF Hits(s, now) = {} THEN s.until ELSE Max(Hits(s, now)) + EmergencyDuration

(* The drafts tell of the override what happened since the state in        *)
(* memory.                                                                 *)
Overrides(events) == {e \in events : e.type \in {"STARTED", "ENDED"}}

Drafted ==
    \A r \in Requests : pc[r] = "resolved" =>
        /\ Overrides(work.drafts) = OverrideEvents(mem, work.snap.tickAt)
        /\ work.snap.until = Until(mem, work.snap.tickAt)

(* The log in terms of the stored snapshot: its deadline is that of the    *)
(* last window, and what ended by its last tick is logged.                 *)
Starts == {e.at : e \in {f \in BagToSet(log) : f.type = "STARTED"}}

Restarted(t) == \E s \in Starts : t < s /\ s < t + EmergencyDuration

Deadline ==
    /\ Starts \subseteq Times
    /\ Starts = {} => db.until = Nil
    /\ Starts # {} => /\ db.until - EmergencyDuration \in Starts
                      /\ db.until - EmergencyDuration <= db.tickAt
                      /\ \A t \in Starts : t <= db.until - EmergencyDuration

Ended ==
    /\ \A t \in Starts :
         Endings(t + EmergencyDuration) =
           IF t + EmergencyDuration <= db.tickAt /\ ~Restarted(t) THEN 1 ELSE 0
    /\ \A e \in BagToSet(log) : e.type = "ENDED" => e.at - EmergencyDuration \in Starts

(* No window ends between the stored state and a later one in memory.      *)
Quiet ==
    mem.tickAt <= db.tickAt \/ db.until <= db.tickAt \/ mem.tickAt < db.until

LInv ==
    /\ Types /\ Mutex /\ Random /\ Stored /\ Ahead
    /\ Decided /\ Verdicts
    /\ Pending /\ Drafted /\ Deadline /\ Ended /\ Quiet

-----------------------------------------------------------------------------
(* What a resolution computes                                              *)

(* meaningfulSnapshotChange looks at every field but LastTickAt.           *)
LEMMA ChangeIsDifference ==
    ASSUME NEW s \in Snapshot, NEW t \in Snapshot
    PROVE  ~meaningfulSnapshotChange(s, t) <=> Same(s, t)
  BY DEF meaningfulSnapshotChange, Same, Snapshot

(* The latest of the collapses is one of them.                             *)
LEMMA LatestHit ==
    ASSUME NEW s \in Snapshot, NEW now \in Times, Hits(s, now) # {}
    PROVE  /\ Max(Hits(s, now)) \in Hits(s, now)
           /\ \A t \in Hits(s, now) : t <= Max(Hits(s, now))
<1>1. Hits(s, now) \in SUBSET Nat /\ \A t \in Hits(s, now) : t <= now
  BY ManagerConfig DEF Hits, Snapshot, Times
<1>2. now \in Nat
  BY ManagerConfig DEF Times
<1> QED
  BY <1>1, <1>2, MaxNat

(* It is an instant.                                                      *)
LEMMA UntilType ==
    ASSUME NEW s \in Snapshot, NEW now \in Times
    PROVE  Until(s, now) \in Nat \cup {Nil}
<1>1. CASE Hits(s, now) = {}
  BY <1>1 DEF Until, Snapshot
<1>2. CASE Hits(s, now) # {}
  <2>1. Max(Hits(s, now)) \in Nat
    BY <1>2, LatestHit, ManagerConfig DEF Hits, Snapshot, Times
  <2> QED
    BY <1>2, <2>1, ManagerConfig DEF Until
<1> QED
  BY <1>1, <1>2

(* A tick resolves to a snapshot of its instant, with nothing overdue and  *)
(* no command applied.                                                     *)
LEMMA TickedResult ==
    ASSUME NEW s \in Snapshot, NothingOverdue(s),
           NEW now \in Times, s.tickAt <= now, NEW t \in Ticked(s, now)
    PROVE  /\ t \in Snapshot /\ NothingOverdue(t)
           /\ t.tickAt = now /\ t.until = Until(s, now) /\ t.applied = s.applied
<1> USE ManagerConfig
<1>1. CASE now = s.tickAt
  <2>1. t = s
    BY <1>1 DEF Ticked
  <2>2. Hits(s, now) = {}
    BY <1>1 DEF Hits, NothingOverdue, Snapshot, Times
  <2> QED
    BY <1>1, <2>1, <2>2 DEF Until
<1>2. CASE now # s.tickAt
  <2> DEFINE hits == Hits(s, now)
             base == [s EXCEPT !.tickAt = now, !.due = @ \ hits,
                               !.until = IF hits = {} THEN @ ELSE Max(hits) + EmergencyDuration]
  <2>1. base = [s EXCEPT !.tickAt = now, !.due = s.due \ hits, !.until = Until(s, now)]
    BY DEF Snapshot, Until
  <2>2. /\ base \in Snapshot /\ NothingOverdue(base) /\ base.tickAt = now
        /\ base.until = Until(s, now) /\ base.applied = s.applied /\ base.draws = s.draws
    <3> HIDE DEF base
    <3>1. s.due \ hits \in SUBSET Times /\ \A u \in s.due \ hits : now < u
      BY DEF Snapshot, Hits, Times
    <3> HIDE DEF hits
    <3> QED
      BY <2>1, <3>1, UntilType DEF Snapshot, NothingOverdue
  <2>3. \/ t = base
        \/ \E new \in SUBSET ((now + 1)..MaxTime) :
             s.draws < MaxDraws /\ t = [base EXCEPT !.draws = @ + 1, !.due = @ \cup new]
    <3> HIDE DEF hits
    <3>1. t \in {base} \cup
            {[base EXCEPT !.draws = @ + 1, !.due = @ \cup new] :
               new \in IF s.draws < MaxDraws
                       THEN {{}} \cup {{u} : u \in (now + 1)..MaxTime}
                       ELSE {}}
      BY <1>2 DEF Ticked, hits
    <3> HIDE DEF base
    <3> QED
      BY <3>1
  <2> HIDE DEF base, hits
  <2>4. CASE t = base
    BY <2>2, <2>4
  <2>5. ASSUME NEW new \in SUBSET ((now + 1)..MaxTime), s.draws < MaxDraws,
               t = [base EXCEPT !.draws = @ + 1, !.due = @ \cup new]
        PROVE  /\ t \in Snapshot /\ NothingOverdue(t)
               /\ t.tickAt = now /\ t.until = Until(s, now) /\ t.applied = s.applied
    <3>1. new \in SUBSET Times /\ \A u \in new : now < u
      BY DEF Times
    <3>2. s.draws + 1 \in 0..MaxDraws
      BY <2>5 DEF Snapshot
    <3>3. t = [base EXCEPT !.draws = base.draws + 1, !.due = base.due \cup new]
      BY <2>5, <2>2 DEF Snapshot
    <3> QED
      BY <3>3, <2>2, <3>1, <3>2 DEF Snapshot, NothingOverdue
  <2> QED
    BY <2>3, <2>4, <2>5
<1> QED
  BY <1>1, <1>2

(* A command admitted after the tick leaves the instant and the deadline.  *)
LEMMA AppliedResult ==
    ASSUME NEW s \in Snapshot, NothingOverdue(s), NEW r \in Requests,
           NEW now \in Times, s.tickAt = now, NEW a \in Applied(s, r, now)
    PROVE  /\ a \in Snapshot /\ NothingOverdue(a)
           /\ a.tickAt = now /\ a.until = s.until /\ a.applied = s.applied \cup {r}
<1> USE ManagerConfig
<1> DEFINE done == [s EXCEPT !.applied = @ \cup {r}]
<1>1. /\ done \in Snapshot /\ done.tickAt = now /\ done.due = s.due /\ done.until = s.until
      /\ done.applied = s.applied \cup {r} /\ done.draws = s.draws
  BY DEF Snapshot
<1>2. \/ \E gone : a = [done EXCEPT !.due = @ \ gone]
      \/ \E new \in SUBSET ((now + 1)..MaxTime) :
           s.draws < MaxDraws /\ a = [done EXCEPT !.draws = @ + 1, !.due = @ \cup new]
  <2>1. a \in {[done EXCEPT !.due = @ \ gone] : gone \in {{}} \cup {{t} : t \in s.due}}
          \cup {[done EXCEPT !.draws = @ + 1, !.due = @ \cup new] :
                  new \in IF s.draws < MaxDraws
                          THEN {{}} \cup {{t} : t \in (now + 1)..MaxTime}
                          ELSE {}}
    BY DEF Applied
  <2> HIDE DEF done
  <2>2. ASSUME a \in {[done EXCEPT !.due = @ \ gone] : gone \in {{}} \cup {{t} : t \in s.due}}
        PROVE  \E gone : a = [done EXCEPT !.due = @ \ gone]
    BY <2>2
  <2>3. ASSUME a \in {[done EXCEPT !.draws = @ + 1, !.due = @ \cup new] :
                        new \in IF s.draws < MaxDraws
                                THEN {{}} \cup {{t} : t \in (now + 1)..MaxTime}
                                ELSE {}}
        PROVE  \E new \in SUBSET ((now + 1)..MaxTime) :
                 s.draws < MaxDraws /\ a = [done EXCEPT !.draws = @ + 1, !.due = @ \cup new]
    <3> DEFINE more == IF s.draws < MaxDraws
                       THEN {{}} \cup {{t} : t \in (now + 1)..MaxTime}
                       ELSE {}
    <3>1. \A new \in more : s.draws < MaxDraws /\ new \in SUBSET ((now + 1)..MaxTime)
      OBVIOUS
    <3> HIDE DEF more
    <3>2. PICK new \in more : a = [done EXCEPT !.draws = @ + 1, !.due = @ \cup new]
      BY <2>3 DEF more
    <3> QED
      BY <3>1, <3>2
  <2> QED
    BY <2>1, <2>2, <2>3
<1> HIDE DEF done
<1>3. ASSUME NEW gone, a = [done EXCEPT !.due = @ \ gone]
      PROVE  /\ a \in Snapshot /\ NothingOverdue(a)
             /\ a.tickAt = now /\ a.until = s.until /\ a.applied = s.applied \cup {r}
  BY <1>1, <1>3 DEF Snapshot, NothingOverdue
<1>4. ASSUME NEW new \in SUBSET ((now + 1)..MaxTime), s.draws < MaxDraws,
             a = [done EXCEPT !.draws = @ + 1, !.due = @ \cup new]
      PROVE  /\ a \in Snapshot /\ NothingOverdue(a)
             /\ a.tickAt = now /\ a.until = s.until /\ a.applied = s.applied \cup {r}
  <2>1. new \in SUBSET Times /\ \A u \in new : now < u
    BY DEF Times
  <2>2. s.draws + 1 \in 0..MaxDraws
    BY <1>4 DEF Snapshot
  <2> QED
    BY <1>1, <1>4, <2>1, <2>2 DEF Snapshot, NothingOverdue
<1> QED
  BY <1>2, <1>3, <1>4

(* The override's events start or end a window.                            *)
LEMMA OverrideEventTypes ==
    ASSUME NEW s, NEW now, NEW e \in OverrideEvents(s, now)
    PROVE  e.type \in {"STARTED", "ENDED"}
  BY DEF OverrideEvents, Event

(* Without events no portal collapsed and no window ended.                 *)
LEMMA NoEvents ==
    ASSUME NEW s \in Snapshot, NEW now \in Times, OverrideEvents(s, now) = {}
    PROVE  Hits(s, now) = {} /\ (s.tickAt < s.until => now < s.until)
<1>1. Hits(s, now) = {}
  BY DEF OverrideEvents
<1>2. s.tickAt < s.until => now < s.until
  <2> SUFFICES ASSUME s.tickAt < s.until, ~(now < s.until) PROVE FALSE
    OBVIOUS
  <2>1. s.until <= now
    BY ManagerConfig DEF Snapshot, Times, Nil
  <2>2. Event("ENDED", s.until, Nobody) \in OverrideEvents(s, now)
    BY <1>1, <2>1 DEF OverrideEvents
  <2> QED
    BY <2>2
<1> QED
  BY <1>1, <1>2

(* A window open at or after the last tick ends at its deadline, unless a  *)
(* collapse restarted it.                                                  *)
Ends(s, now, d) ==
    /\ (\E t \in Hits(s, now) : d = t + EmergencyDuration) \/ (d = s.until /\ s.tickAt < d)
    /\ d <= now
    /\ \A t \in Hits(s, now) : t <= d - EmergencyDuration \/ d <= t

(* The collapses start the windows, and those that end are logged.         *)
LEMMA EventsOfOverride ==
    ASSUME NEW s, NEW now, NEW e
    PROVE  e \in OverrideEvents(s, now) <=>
             \/ \E t \in Hits(s, now) : e = Event("STARTED", t, Nobody)
             \/ \E d : Ends(s, now, d) /\ e = Event("ENDED", d, Nobody)
<1> DEFINE hits == Hits(s, now)
           open == {t + EmergencyDuration : t \in hits}
                     \cup (IF s.tickAt < s.until THEN {s.until} ELSE {})
           ended == {d \in open : /\ d <= now
                                  /\ \A t \in hits : t <= d - EmergencyDuration \/ d <= t}
<1>1. \A d : d \in ended <=> Ends(s, now, d)
  BY DEF Ends
<1>2. OverrideEvents(s, now) = {Event("STARTED", t, Nobody) : t \in hits}
                                 \cup {Event("ENDED", d, Nobody) : d \in ended}
  BY DEF OverrideEvents
<1> HIDE DEF ended
<1>3. \/ e \in {Event("STARTED", t, Nobody) : t \in hits}
      \/ e \in {Event("ENDED", d, Nobody) : d \in ended}
      <=>
      \/ \E t \in hits : e = Event("STARTED", t, Nobody)
      \/ \E d \in ended : e = Event("ENDED", d, Nobody)
  OBVIOUS
<1> QED
  BY <1>1, <1>2, <1>3

(* An event is what it was made of.                                        *)
LEMMA EventFields ==
    \A type, at, id : Event(type, at, id).type = type /\ Event(type, at, id).at = at
  BY DEF Event

(* A tick drafts one start for every collapse it resolves ...              *)
LEMMA StartsOfEvents ==
    ASSUME NEW s, NEW now, NEW t
    PROVE  (\E e \in OverrideEvents(s, now) : e.type = "STARTED" /\ e.at = t)
             <=> t \in Hits(s, now)
  BY EventsOfOverride, EventFields

(* ... and the end of every window that runs out by then.                  *)
LEMMA EndsOfEvents ==
    ASSUME NEW s, NEW now
    PROVE  /\ \A d : Event("ENDED", d, Nobody) \in OverrideEvents(s, now) <=> Ends(s, now, d)
           /\ \A e \in OverrideEvents(s, now) : e.type = "ENDED" => Ends(s, now, e.at)
<1>1. ASSUME NEW d PROVE Event("ENDED", d, Nobody) \in OverrideEvents(s, now) <=> Ends(s, now, d)
  BY EventsOfOverride, EventFields
<1>2. ASSUME NEW e \in OverrideEvents(s, now), e.type = "ENDED" PROVE Ends(s, now, e.at)
  BY <1>2, EventsOfOverride, EventFields
<1> QED
  BY <1>1, <1>2

(* What a commit adds to the log.                                          *)
LEMMA LogGrows ==
    ASSUME NEW events, log' = log (+) SetToBag(events)
    PROVE  /\ BagToSet(log)' = BagToSet(log) \cup events
           /\ \A d : Endings(d) \in Nat =>
                Endings(d)' = Endings(d) + (IF Event("ENDED", d, Nobody) \in events THEN 1 ELSE 0)
<1>1. BagToSet(log)' = BagToSet(log) \cup events
  BY DEF BagToSet, (+), SetToBag
<1>2. \A e \in BagToSet(log) \cup events :
        log'[e] = (IF e \in BagToSet(log) THEN log[e] ELSE 0) + (IF e \in events THEN 1 ELSE 0)
  BY DEF BagToSet, (+), SetToBag
<1> QED
  BY <1>1, <1>2 DEF Endings, BagIn

-----------------------------------------------------------------------------
(* Each action keeps the invariant                                         *)

(* A call joins the queue.                                                 *)
LEMMA CallKeeps ==
    ASSUME LInv, NEW r \in Requests, NEW kind \in Kinds, Call(r, kind)
    PROVE  LInv'
<1> USE ManagerConfig, ManagerNames DEF LInv
<1>1. Types'
  BY DEF Call, Types, Places
<1>2. Mutex'
  BY DEF Call, Mutex
<1>3. Random'
  BY DEF Call, Random, Working
<1>4. Stored'
  BY DEF Call, Stored
<1>5. Ahead'
  BY DEF Call, Ahead, Working
<1>6. Decided'
  BY DEF Call, Types, Decided
<1>7. Verdicts'
  <2>1. /\ pc[r] = "idle" /\ pc'[r] = "waiting"
        /\ \A q \in Requests \ {r} : pc'[q] = pc[q] /\ req'[q] = req[q]
        /\ UNCHANGED <<mem, db, log, work>>
    BY DEF Call, Types
  <2> QED
    BY <2>1 DEF Verdicts, Working, Refuses
<1>8. Pending'
  BY DEF Call, Pending, Working
<1>9. Drafted'
  BY DEF Call, Drafted
<1>10. Deadline'
  BY DEF Call, Deadline, Starts
<1>11. Ended'
  BY DEF Call, Ended, Starts, Restarted, Endings
<1>12. Quiet'
  BY DEF Call, Quiet
<1> QED
  BY <1>1, <1>2, <1>3, <1>4, <1>5, <1>6, <1>7, <1>8,
     <1>9, <1>10, <1>11, <1>12

(* A caller gives up before it holds the mutex.                            *)
LEMMA CancelKeeps ==
    ASSUME LInv, NEW r \in Requests, Cancel(r)
    PROVE  LInv'
<1> USE ManagerConfig, ManagerNames DEF LInv
<1>1. Types'
  BY DEF Cancel, Types, Places, Answers
<1>2. Mutex'
  BY DEF Cancel, Mutex
<1>3. Random'
  BY DEF Cancel, Random, Working
<1>4. Stored'
  BY DEF Cancel, Stored
<1>5. Ahead'
  BY DEF Cancel, Ahead, Working
<1>6. Decided'
  BY DEF Cancel, Decided
<1>7. Verdicts'
  BY DEF Cancel, Mutex, Verdicts, Working
<1>8. Pending'
  BY DEF Cancel, Pending, Working
<1>9. Drafted'
  BY DEF Cancel, Drafted
<1>10. Deadline'
  BY DEF Cancel, Deadline, Starts
<1>11. Ended'
  BY DEF Cancel, Ended, Starts, Restarted, Endings
<1>12. Quiet'
  BY DEF Cancel, Quiet
<1> QED
  BY <1>1, <1>2, <1>3, <1>4, <1>5, <1>6, <1>7, <1>8,
     <1>9, <1>10, <1>11, <1>12

(* The token has one taker.                                                *)
LEMMA LockContextKeeps ==
    ASSUME LInv, NEW r \in Requests, LockContext(r)
    PROVE  LInv'
<1> USE ManagerConfig, ManagerNames DEF LInv
<1>1. Types'
  BY DEF LockContext, Types, Places
<1>2. Mutex'
  BY DEF LockContext, Types, Mutex
<1>3. Random'
  BY DEF LockContext, Random, Working
<1>4. Stored'
  BY DEF LockContext, Stored
<1>5. Ahead'
  BY DEF LockContext, Ahead, Working
<1>6. Decided'
  BY DEF LockContext, Decided
<1>7. Verdicts'
  BY DEF LockContext, Mutex, Verdicts, Working
<1>8. Pending'
  BY DEF LockContext, Pending, Working
<1>9. Drafted'
  BY DEF LockContext, Drafted
<1>10. Deadline'
  BY DEF LockContext, Deadline, Starts
<1>11. Ended'
  BY DEF LockContext, Ended, Starts, Restarted, Endings
<1>12. Quiet'
  BY DEF LockContext, Quiet
<1> QED
  BY <1>1, <1>2, <1>3, <1>4, <1>5, <1>6, <1>7, <1>8,
     <1>9, <1>10, <1>11, <1>12

(* A stale instant leaves everything as it is.                             *)
LEMMA ResolveStaleKeeps ==
    ASSUME LInv, NEW r \in Requests, ResolveStale(r)
    PROVE  LInv'
<1> USE ManagerConfig, ManagerNames DEF LInv
<1>1. Types'
  BY DEF ResolveStale, Unlock, Types, Places, Answers, NoWork, Snapshot, Times
<1>2. Mutex'
  BY DEF ResolveStale, Unlock, Types, Mutex
<1>3. Random'
  BY DEF ResolveStale, Unlock, Mutex, Random, Working
<1>4. Stored'
  BY DEF ResolveStale, Unlock, Mutex, Stored
<1>5. Ahead'
  BY DEF ResolveStale, Unlock, Mutex, Ahead, Working
<1>6. Decided'
  BY DEF ResolveStale, Unlock, Decided
<1>7. Verdicts'
  BY DEF ResolveStale, Unlock, Mutex, Verdicts, Working
<1>8. Pending'
  BY DEF ResolveStale, Unlock, Mutex, Pending, Working
<1>9. Drafted'
  BY DEF ResolveStale, Unlock, Mutex, Drafted
<1>10. Deadline'
  BY DEF ResolveStale, Deadline, Starts
<1>11. Ended'
  BY DEF ResolveStale, Ended, Starts, Restarted, Endings
<1>12. Quiet'
  BY DEF ResolveStale, Quiet
<1> QED
  BY <1>1, <1>2, <1>3, <1>4, <1>5, <1>6, <1>7, <1>8,
     <1>9, <1>10, <1>11, <1>12

(* A resolution works on a copy: what it made of the state in memory is    *)
(* all the invariant needs to know.                                        *)
LEMMA ResolvedKeeps ==
    ASSUME LInv, NEW r \in Requests, pc[r] = "locked",
           NEW snap \in Snapshot, NEW drafts, NEW verdict \in {"ok", "rejected"},
           Resolved(r, snap, drafts, verdict),
           NothingOverdue(snap), mem.tickAt <= snap.tickAt,
           snap.until = Until(mem, snap.tickAt),
           snap.applied = IF req[r].kind = "COMMAND" /\ verdict = "ok"
                          THEN mem.applied \cup {r} ELSE mem.applied,
           Overrides(drafts) = OverrideEvents(mem, snap.tickAt),
           \A q \in Requests : Refuses(drafts, q) <=> q = r /\ verdict = "rejected",
           req[r].kind # "COMMAND" => verdict = "ok"
    PROVE  LInv'
<1> USE ManagerConfig, ManagerNames DEF LInv
<1>1. /\ work' = [snap |-> snap, drafts |-> drafts, verdict |-> verdict]
      /\ pc' = [pc EXCEPT ![r] = "resolved"]
      /\ UNCHANGED <<clock, up, mem, db, log, holder, req, answer, updates>>
  BY DEF Resolved
<1>2. /\ pc'[r] = "resolved" /\ \A q \in Requests \ {r} : pc'[q] = pc[q]
      /\ \A q \in Requests \ {r} : pc[q] \notin {"locked", "resolved", "committed"}
  BY <1>1 DEF Types, Mutex
<1>3. rng = mem.draws /\ rng' = snap.draws
  <2>1. up
    BY DEF Mutex
  <2>2. rng = mem.draws
    BY <1>2, <2>1 DEF Random, Working
  <2> QED
    BY <2>2 DEF Resolved, Types, Snapshot
<1>4. Types' /\ Mutex'
  BY <1>1, <1>2, <1>3 DEF Types, Mutex, Places, Snapshot
<1>5. Random' /\ Ahead' /\ Pending'
  BY <1>1, <1>2, <1>3 DEF Random, Ahead, Pending, Working
<1>6. Stored'
  BY <1>1, <1>2 DEF Stored
<1>7. Decided'
  BY <1>1, <1>2 DEF Decided
<1>8. Verdicts'
  BY <1>1, <1>2 DEF Verdicts, Refuses, Working
<1>9. Drafted'
  BY <1>1, <1>2 DEF Drafted
<1>10. Deadline' /\ Ended' /\ Quiet'
  BY <1>1 DEF Deadline, Ended, Quiet, Starts, Restarted, Endings
<1> QED
  BY <1>4, <1>5, <1>6, <1>7, <1>8, <1>9, <1>10

(* The instant a call resolves is a proper one.                            *)
LEMMA NowType ==
    ASSUME LInv, NEW r \in Requests, ~Stale(r)
    PROVE  Now(r) \in Times /\ mem.tickAt <= Now(r)
<1>1. Now(r) \in Times
  BY DEF LInv, Types, Now
<1> QED
  BY <1>1, ManagerConfig DEF LInv, Types, Snapshot, Stale, Times

(* A tick or a read decides nothing.                                       *)
LEMMA ResolveTickKeeps ==
    ASSUME LInv, NEW r \in Requests, ResolveTick(r)
    PROVE  LInv'
<1>1. PICK ticked \in Ticked(mem, Now(r)) :
        Resolved(r, ticked, OverrideEvents(mem, Now(r)), "ok")
  BY DEF ResolveTick
<1>2. pc[r] = "locked" /\ ~Stale(r) /\ req[r].kind # "COMMAND"
  BY DEF ResolveTick
<1>3. /\ ticked \in Snapshot /\ NothingOverdue(ticked) /\ ticked.tickAt = Now(r)
      /\ ticked.until = Until(mem, Now(r)) /\ ticked.applied = mem.applied
      /\ mem.tickAt <= Now(r)
  BY <1>2, NowType, TickedResult DEF LInv, Types, Pending
<1>4. /\ Overrides(OverrideEvents(mem, Now(r))) = OverrideEvents(mem, Now(r))
      /\ \A q : ~Refuses(OverrideEvents(mem, Now(r)), q)
  BY OverrideEventTypes DEF Overrides, Refuses
<1> QED
  BY <1>1, <1>2, <1>3, <1>4, ResolvedKeeps

(* A command is applied, or refused with an event, on top of a tick.       *)
LEMMA ApplyCommandKeeps ==
    ASSUME LInv, NEW r \in Requests, ApplyCommand(r)
    PROVE  LInv'
<1>1. pc[r] = "locked" /\ ~Stale(r) /\ req[r].kind = "COMMAND" /\ Now(r) = clock
  BY DEF ApplyCommand, Now
<1>2. PICK ticked \in Ticked(mem, clock) :
        \/ \E applied \in Applied(ticked, r, clock) :
             Resolved(r, applied,
                      OverrideEvents(mem, clock) \cup {Event("APPLIED", clock, r)}, "ok")
        \/ Resolved(r, ticked,
                    OverrideEvents(mem, clock) \cup NewActionRejectedEvent(r, clock),
                    "rejected")
  BY DEF ApplyCommand
<1>3. /\ ticked \in Snapshot /\ NothingOverdue(ticked) /\ ticked.tickAt = clock
      /\ ticked.until = Until(mem, clock) /\ ticked.applied = mem.applied
      /\ mem.tickAt <= clock /\ clock \in Times
  BY <1>1, NowType, TickedResult DEF LInv, Types, Pending
<1>4. ASSUME NEW applied \in Applied(ticked, r, clock),
             Resolved(r, applied,
                      OverrideEvents(mem, clock) \cup {Event("APPLIED", clock, r)}, "ok")
      PROVE  LInv'
  <2> DEFINE e == Event("APPLIED", clock, r)
  <2>1. e.type = "APPLIED"
    BY DEF Event
  <2> HIDE DEF e
  <2>2. /\ Overrides(OverrideEvents(mem, clock) \cup {e}) = OverrideEvents(mem, clock)
        /\ \A q : ~Refuses(OverrideEvents(mem, clock) \cup {e}, q)
    BY <2>1, OverrideEventTypes DEF Overrides, Refuses
  <2>3. /\ applied \in Snapshot /\ NothingOverdue(applied) /\ applied.tickAt = clock
        /\ applied.until = Until(mem, clock) /\ applied.applied = mem.applied \cup {r}
    BY <1>3, AppliedResult
  <2>4. Resolved(r, applied, OverrideEvents(mem, clock) \cup {e}, "ok")
    BY <1>4 DEF e
  <2> QED
    BY <1>1, <1>3, <2>2, <2>3, <2>4, ResolvedKeeps
<1>5. ASSUME Resolved(r, ticked,
                      OverrideEvents(mem, clock) \cup NewActionRejectedEvent(r, clock),
                      "rejected")
      PROVE  LInv'
  <2> DEFINE e == Event("REJECTED", clock, r)
  <2>1. e.type = "REJECTED" /\ e.id = r
    BY DEF Event
  <2>2. Resolved(r, ticked, OverrideEvents(mem, clock) \cup {e}, "rejected")
    BY <1>5 DEF NewActionRejectedEvent
  <2> HIDE DEF e
  <2>3. /\ Overrides(OverrideEvents(mem, clock) \cup {e}) = OverrideEvents(mem, clock)
        /\ \A q : Refuses(OverrideEvents(mem, clock) \cup {e}, q) <=> q = r
    BY <2>1, OverrideEventTypes DEF Overrides, Refuses
  <2> QED
    BY <1>1, <1>3, <2>2, <2>3, ResolvedKeeps
<1> QED
  BY <1>2, <1>4, <1>5


(* The committed log accounts for the windows of the committed snapshot.   *)
LEMMA CommitCounts ==
    ASSUME LInv, NEW r \in Requests, Commit(r)
    PROVE  Deadline' /\ Ended'
<1> USE ManagerConfig DEF LInv
<1> DEFINE now == work.snap.tickAt
           hits == Hits(mem, now)
           last == db.until - EmergencyDuration
<1>1. pc[r] = "resolved" /\ db' = work.snap /\ log' = log (+) SetToBag(work.drafts)
  BY DEF Commit
<1>2. /\ db.until = mem.until /\ db.tickAt <= mem.tickAt /\ mem.tickAt <= now
      /\ db.until \in Nat \cup {Nil} /\ EmergencyDuration \in Nat \ {0}
      /\ now \in Nat /\ db.tickAt \in Nat /\ mem.tickAt \in Nat
  BY <1>1 DEF Types, Mutex, Stored, Same, Ahead, Working, Snapshot, Times
<1>3. /\ hits \subseteq Times /\ hits \subseteq Nat
      /\ \A t \in hits : mem.tickAt < t /\ t <= now
  BY DEF Hits, Types, Snapshot, Times, Pending, NothingOverdue
<1>4. /\ Overrides(work.drafts) = OverrideEvents(mem, now)
      /\ work.snap.until = Until(mem, now)
  BY <1>1 DEF Drafted
<1>5. Starts' = Starts \cup hits
  <2>1. \A t : t \in Starts <=> \E e \in BagToSet(log) : e.type = "STARTED" /\ e.at = t
    BY DEF Starts
  <2>2. \A t : t \in Starts' <=> \E e \in BagToSet(log)' : e.type = "STARTED" /\ e.at = t
    BY DEF Starts
  <2>3. \A t : t \in hits <=> \E e \in work.drafts : e.type = "STARTED" /\ e.at = t
    <3>1. \A t : t \in hits <=> \E e \in OverrideEvents(mem, now) : e.type = "STARTED" /\ e.at = t
      BY StartsOfEvents
    <3> QED
      BY <1>4, <3>1 DEF Overrides
  <2>4. BagToSet(log)' = BagToSet(log) \cup work.drafts
    BY <1>1, LogGrows
  <2> HIDE DEF hits
  <2> QED
    BY <2>1, <2>2, <2>3, <2>4
<1>6. \A t \in Starts : t \in Nat /\ t <= last /\ last <= db.tickAt /\ last \in Starts
  BY DEF Deadline, Times
<1>7. Deadline'
  <2>1. CASE hits = {}
    <3>1. work.snap.until = db.until /\ Starts' = Starts
      BY <1>2, <1>4, <1>5, <2>1 DEF Until
    <3>2. Starts # {} => db.until - EmergencyDuration <= now
      BY <1>2, <1>6
    <3> QED
      BY <1>1, <3>1, <3>2 DEF Deadline
  <2>2. CASE hits # {}
    <3>1. Max(hits) \in hits /\ \A t \in hits : t <= Max(hits)
      BY <2>2, LatestHit DEF Types, Snapshot
    <3>2. work.snap.until = Max(hits) + EmergencyDuration
      BY <1>4, <2>2 DEF Until
    <3> HIDE DEF hits
    <3>3. work.snap.until - EmergencyDuration = Max(hits) /\ Max(hits) \in Nat
      <4>1. Max(hits) \in Nat
        BY <1>3, <3>1
      <4> QED
        BY <3>2, <4>1
    <3>4. \A t \in Starts : t <= Max(hits)
      BY <1>2, <1>3, <1>6, <3>1, <3>3
    <3> QED
      BY <1>1, <1>3, <1>5, <3>1, <3>3, <3>4 DEF Deadline
  <2> QED
    BY <2>1, <2>2
<1>8. \A d : Endings(d) \in Nat =>
        Endings(d)' = Endings(d) + (IF Ends(mem, now, d) THEN 1 ELSE 0)
  <2>1. \A d : Event("ENDED", d, Nobody) \in work.drafts <=> Ends(mem, now, d)
    <3>1. \A d : Event("ENDED", d, Nobody) \in work.drafts
                   <=> Event("ENDED", d, Nobody) \in OverrideEvents(mem, now)
      BY <1>4 DEF Overrides, Event
    <3> QED
      BY <3>1, EndsOfEvents
  <2> QED
    BY <1>1, <2>1, LogGrows
<1> HIDE DEF hits, now, last
<1>9. \A t \in Starts \cup hits : t \in Nat /\ t + EmergencyDuration \in Nat
  <2> SUFFICES ASSUME NEW t \in Starts \cup hits
               PROVE  t \in Nat /\ t + EmergencyDuration \in Nat
    OBVIOUS
  <2>1. t \in Nat
    BY <1>3, <1>6
  <2> QED
    BY <2>1
<1>10. \A t : Restarted(t)' <=> Restarted(t) \/ \E u \in hits : t < u /\ u < t + EmergencyDuration
  BY <1>5 DEF Restarted
<1>11. \A d : Ends(mem, now, d) <=>
         /\ (\E t \in hits : d = t + EmergencyDuration) \/ (d = db.until /\ mem.tickAt < d)
         /\ d <= now
         /\ \A t \in hits : t <= d - EmergencyDuration \/ d <= t
  BY <1>2 DEF Ends, hits
<1>12. ASSUME NEW t \in hits
       PROVE  Endings(t + EmergencyDuration)' =
                IF t + EmergencyDuration <= now /\ ~Restarted(t)' THEN 1 ELSE 0
  <2>1. t \notin Starts
    BY <1>2, <1>3, <1>6, <1>9
  <2>2. Endings(t + EmergencyDuration) = 0
    <3>1. ~BagIn(Event("ENDED", t + EmergencyDuration, Nobody), log)
      <4> DEFINE e == Event("ENDED", t + EmergencyDuration, Nobody)
      <4>1. e.type = "ENDED" /\ e.at = t + EmergencyDuration
        BY DEF Event
      <4>2. e.at - EmergencyDuration = t
        BY <1>2, <1>9, <4>1
      <4> HIDE DEF e
      <4>3. e \notin BagToSet(log)
        BY <2>1, <4>1, <4>2 DEF Ended
      <4> QED
        BY <4>3 DEF BagIn, e
    <3> QED
      BY <3>1 DEF Endings
  <2>3. ~Restarted(t)
    BY <1>2, <1>3, <1>6, <1>9 DEF Restarted
  <2>4. Ends(mem, now, t + EmergencyDuration) <=>
          t + EmergencyDuration <= now /\ ~Restarted(t)'
    <3>1. ~Restarted(t)' <=> \A u \in hits : u <= t \/ t + EmergencyDuration <= u
      BY <1>2, <1>9, <1>10, <2>3
    <3>2. (t + EmergencyDuration) - EmergencyDuration = t
      BY <1>2, <1>9
    <3> QED
      BY <1>11, <3>1, <3>2
  <2> QED
    BY <1>8, <2>2, <2>4
<1>13. ASSUME NEW t \in Starts
       PROVE  Endings(t + EmergencyDuration)' =
                IF t + EmergencyDuration <= now /\ ~Restarted(t)' THEN 1 ELSE 0
  <2> DEFINE d == t + EmergencyDuration
  <2> SUFFICES Endings(d)' = IF d <= now /\ ~Restarted(t)' THEN 1 ELSE 0
    OBVIOUS
  <2>1. Endings(d) = IF d <= db.tickAt /\ ~Restarted(t) THEN 1 ELSE 0
    BY DEF Ended
  <2>2. \A u \in hits : d # u + EmergencyDuration /\ t < u /\ db.tickAt < u
    BY <1>2, <1>3, <1>6, <1>9
  <2>3. d \in Nat /\ t \in Nat /\ t <= last /\ last <= db.tickAt /\ last \in Starts
        /\ last \in Nat /\ db.until = last + EmergencyDuration
    BY <1>2, <1>6, <1>9 DEF last, Nil
  <2>4. Ends(mem, now, d) <=> /\ d = db.until /\ mem.tickAt < d /\ d <= now
                              /\ \A u \in hits : d <= u
    <3>1. d - EmergencyDuration = t
      BY <1>2, <2>3
    <3>2. \A u \in hits : ~(u <= t)
      BY <1>3, <2>2, <2>3
    <3> HIDE DEF d
    <3> QED
      BY <1>11, <2>2, <3>1, <3>2
  <2>5. Restarted(t)' <=> Restarted(t) \/ \E u \in hits : u < d
    BY <1>10, <2>2
  <2>6. CASE Restarted(t)
    <3>1. t # last
      BY <1>2, <1>6, <2>3, <2>6 DEF Restarted
    <3>2. d # db.until
      BY <1>2, <2>3, <3>1
    <3> HIDE DEF d
    <3> QED
      BY <1>8, <2>1, <2>4, <2>5, <2>6, <3>2
  <2>7. CASE ~Restarted(t) /\ t # last
    <3>1. d <= last
      BY <1>2, <2>3, <2>7 DEF Restarted
    <3>2. d # db.until /\ d <= db.tickAt /\ d <= now
      BY <1>2, <2>3, <3>1
    <3>3. \A u \in hits : ~(u < d)
      BY <1>2, <1>3, <2>2, <2>3, <3>2
    <3> HIDE DEF d
    <3> QED
      BY <1>8, <2>1, <2>4, <2>5, <2>7, <3>2, <3>3
  <2>8. CASE ~Restarted(t) /\ t = last
    <3>1. d = db.until
      BY <2>3, <2>8
    <3>2. CASE d <= db.tickAt
      <4>1. \A u \in hits : ~(u < d)
        BY <1>2, <1>3, <2>2, <2>3, <3>2
      <4>2. d <= now /\ ~(mem.tickAt < d)
        BY <1>2, <2>3, <3>2
      <4> HIDE DEF d
      <4> QED
        BY <1>8, <2>1, <2>4, <2>5, <2>8, <3>2, <4>1, <4>2
    <3>3. CASE ~(d <= db.tickAt)
      <4>1. mem.tickAt < d
        BY <1>2, <2>3, <3>1, <3>3 DEF Quiet
      <4>2. (\A u \in hits : d <= u) <=> ~(\E u \in hits : u < d)
        BY <1>3, <2>3
      <4> HIDE DEF d
      <4> QED
        BY <1>8, <2>1, <2>4, <2>5, <2>8, <3>1, <3>3, <4>1, <4>2
    <3> QED
      BY <3>2, <3>3
  <2> QED
    BY <2>6, <2>7, <2>8
<1>14. \A e \in BagToSet(log)' : e.type = "ENDED" => e.at - EmergencyDuration \in Starts'
  <2> SUFFICES ASSUME NEW e \in BagToSet(log)', e.type = "ENDED"
               PROVE  e.at - EmergencyDuration \in Starts \cup hits
    BY <1>5
  <2>1. CASE e \in BagToSet(log)
    BY <2>1 DEF Ended
  <2>2. CASE e \in work.drafts
    <3>1. Ends(mem, now, e.at)
      BY <1>4, <2>2, EndsOfEvents DEF Overrides
    <3>2. CASE \E t \in hits : e.at = t + EmergencyDuration
      BY <1>2, <1>9, <3>2
    <3>3. CASE e.at = db.until /\ mem.tickAt < e.at
      <4>1. Starts # {}
        BY <1>2, <3>3 DEF Deadline, Nil
      <4> QED
        BY <3>3, <4>1 DEF Deadline
    <3> QED
      BY <1>11, <3>1, <3>2, <3>3
  <2> QED
    BY <1>1, <2>1, <2>2, LogGrows
<1>15. Ended'
  BY <1>1, <1>5, <1>12, <1>13, <1>14 DEF Ended, now
<1> QED
  BY <1>7, <1>15

(* A commit makes the working copy and its drafts durable together.        *)
LEMMA CommitKeeps ==
    ASSUME LInv, NEW r \in Requests, Commit(r)
    PROVE  LInv'
<1> USE ManagerConfig, ManagerNames DEF LInv
<1>1. /\ pc[r] = "resolved" /\ db' = work.snap
      /\ pc' = [pc EXCEPT ![r] = "committed"]
      /\ UNCHANGED <<clock, up, mem, rng, holder, work, req, answer, updates>>
  BY DEF Commit
<1>2. /\ pc'[r] = "committed" /\ \A q \in Requests \ {r} : pc'[q] = pc[q]
      /\ \A q \in Requests \ {r} : pc[q] \notin {"locked", "resolved", "committed"}
  BY <1>1 DEF Types, Mutex
<1>3. Types' /\ Mutex'
  BY <1>1, <1>2 DEF Types, Mutex, Places
<1>4. Random' /\ Stored' /\ Ahead' /\ Pending'
  BY <1>1, <1>2 DEF Random, Stored, Ahead, Pending, Working
<1>5. mem.applied = db.applied
  BY <1>1, <1>2 DEF Mutex, Stored, Same
<1>6. \A q \in Requests : Refuses(BagToSet(log), q)' <=>
        Refuses(BagToSet(log), q) \/ (q = r /\ work.verdict = "rejected")
  <2>1. BagToSet(log)' = BagToSet(log) \cup work.drafts
    BY LogGrows DEF Commit
  <2>2. \A q \in Requests : Refuses(work.drafts, q) <=> q = r /\ work.verdict = "rejected"
    BY <1>1 DEF Verdicts
  <2> QED
    BY <2>1, <2>2 DEF Refuses
<1>7. ~(r \in db.applied)
  BY <1>1 DEF Decided
<1>8. Decided'
  <2>1. \A q \in Requests : q \in db'.applied =>
          q \in db.applied \/ (q = r /\ req[r].kind = "COMMAND")
    BY <1>1, <1>5 DEF Verdicts
  <2>2. work.verdict = "rejected" => req[r].kind = "COMMAND"
    BY <1>1 DEF Verdicts, Working
  <2>3. work.verdict = "rejected" => r \notin db'.applied
    BY <1>1, <1>5, <1>7 DEF Verdicts
  <2>4. ~Refuses(BagToSet(log), r)
    BY <1>1 DEF Decided
  <2>5. r \in db'.applied => work.verdict = "ok"
    BY <2>3 DEF Types
  <2> QED
    BY <1>1, <1>2, <1>6, <2>1, <2>2, <2>4, <2>5 DEF Decided
<1>11. Verdicts'
  <2>1. req[r].kind = "COMMAND" /\ work.verdict = "ok" => r \in db'.applied
    BY <1>1 DEF Verdicts
  <2>2. work.verdict = "rejected" => r \notin db'.applied /\ Refuses(BagToSet(log), r)'
    BY <1>1, <1>5, <1>6, <1>7 DEF Verdicts
  <2> QED
    BY <1>1, <1>2, <2>1, <2>2 DEF Verdicts, Working
<1>9. Drafted'
  BY <1>1, <1>2 DEF Drafted
<1>10. Quiet'
  BY <1>1 DEF Quiet, Ahead, Working
<1> QED
  BY <1>3, <1>4, <1>8, <1>9, <1>10, <1>11, CommitCounts


(* A refused transaction leaves memory, store and source where they were.  *)
LEMMA CommitFailsKeeps ==
    ASSUME LInv, NEW r \in Requests, CommitFails(r)
    PROVE  LInv'
<1> USE ManagerConfig, ManagerNames DEF LInv
<1>1. Types'
  BY DEF CommitFails, Unlock, Types, Places, Answers, NoWork, Snapshot, Times
<1>2. Mutex'
  BY DEF CommitFails, Unlock, Types, Mutex
<1>3. Random'
  BY DEF CommitFails, Unlock, Types, Mutex, Random, Working
<1>4. Stored'
  BY DEF CommitFails, Unlock, Mutex, Stored
<1>5. Ahead'
  BY DEF CommitFails, Unlock, Types, Mutex, Ahead, Working
<1>6. Decided'
  BY DEF CommitFails, Unlock, Decided
<1>7. Verdicts'
  BY DEF CommitFails, Unlock, Types, Mutex, Verdicts, Working
<1>8. Pending'
  BY DEF CommitFails, Unlock, Types, Mutex, Pending, Working
<1>9. Drafted'
  BY DEF CommitFails, Unlock, Types, Mutex, Drafted
<1>10. Deadline'
  BY DEF CommitFails, Deadline, Starts
<1>11. Ended'
  BY DEF CommitFails, Ended, Starts, Restarted, Endings
<1>12. Quiet'
  BY DEF CommitFails, Quiet
<1> QED
  BY <1>1, <1>2, <1>3, <1>4, <1>5, <1>6, <1>7, <1>8,
     <1>9, <1>10, <1>11, <1>12

(* Publication makes memory what was committed, or moves only its last tick.*)
LEMMA PublishKeeps ==
    ASSUME LInv, NEW r \in Requests, Publish(r)
    PROVE  LInv'
<1> USE ManagerConfig, ManagerNames DEF LInv
<1>1. Types'
  BY DEF Publish, Unlock, Types, Places, Answers, NoWork, Snapshot, Times
<1>2. Mutex'
  BY DEF Publish, Unlock, Types, Mutex
<1>3. Random'
  BY DEF Publish, Unlock, Types, Mutex, Random, Working
<1>4. Stored'
  <2>1. \A q \in Requests : pc'[q] \notin {"locked", "resolved", "committed"}
    BY DEF Publish, Unlock, Types, Mutex
  <2>2. CASE pc[r] = "committed"
    BY <2>1, <2>2 DEF Publish, Types, Stored, Same, Snapshot, Times
  <2>3. CASE pc[r] = "resolved" /\ ~Commits(r)
    <3>1. Same(mem, work.snap)
      BY <2>3, ChangeIsDifference DEF Commits, Types
    <3>2. Same(mem, db) /\ db.tickAt <= mem.tickAt /\ mem.tickAt <= work.snap.tickAt
      BY <2>3 DEF Mutex, Stored, Ahead, Working
    <3> QED
      BY <2>1, <3>1, <3>2 DEF Publish, Types, Stored, Same, Snapshot, Times
  <2> QED
    BY <2>2, <2>3 DEF Publish
<1>5. Ahead'
  BY DEF Publish, Unlock, Types, Mutex, Ahead, Working
<1>6. Decided'
  BY DEF Publish, Unlock, Decided
<1>7. Verdicts'
  BY DEF Publish, Unlock, Types, Mutex, Verdicts, Working
<1>8. Pending'
  BY DEF Publish, Unlock, Types, Mutex, Pending, Working
<1>9. Drafted'
  BY DEF Publish, Unlock, Types, Mutex, Drafted
<1>10. Deadline'
  BY DEF Publish, Deadline, Starts
<1>11. Ended'
  BY DEF Publish, Ended, Starts, Restarted, Endings
<1>12. Quiet'
  <2>1. mem' = work.snap /\ db' = db
    BY DEF Publish
  <2>2. CASE pc[r] = "committed"
    BY <2>1, <2>2 DEF Types, Stored, Quiet, Snapshot, Times
  <2>3. CASE pc[r] = "resolved" /\ ~Commits(r)
    <3>1. OverrideEvents(mem, work.snap.tickAt) = {}
      BY <2>3 DEF Commits, Drafted, Overrides
    <3>2. mem.tickAt < mem.until => work.snap.tickAt < mem.until
      BY <3>1, NoEvents DEF Types, Snapshot
    <3>3. mem.until = db.until
      BY <2>3 DEF Mutex, Stored, Same
    <3> QED
      BY <2>1, <3>2, <3>3 DEF Types, Quiet, Snapshot, Times, Nil
  <2> QED
    BY <2>2, <2>3 DEF Publish
<1> QED
  BY <1>1, <1>2, <1>3, <1>4, <1>5, <1>6, <1>7, <1>8,
     <1>9, <1>10, <1>11, <1>12

(* The bridge takes the edge.                                              *)
LEMMA DrainUpdatesKeeps ==
    ASSUME LInv, DrainUpdates
    PROVE  LInv'
<1> USE ManagerConfig, ManagerNames DEF LInv
<1>1. Types'
  BY DEF DrainUpdates, Types
<1>2. Mutex'
  BY DEF DrainUpdates, Mutex
<1>3. Random'
  BY DEF DrainUpdates, Random, Working
<1>4. Stored'
  BY DEF DrainUpdates, Stored
<1>5. Ahead'
  BY DEF DrainUpdates, Ahead, Working
<1>6. Decided'
  BY DEF DrainUpdates, Decided
<1>7. Verdicts'
  BY DEF DrainUpdates, Verdicts, Working
<1>8. Pending'
  BY DEF DrainUpdates, Pending, Working
<1>9. Drafted'
  BY DEF DrainUpdates, Drafted
<1>10. Deadline'
  BY DEF DrainUpdates, Deadline, Starts
<1>11. Ended'
  BY DEF DrainUpdates, Ended, Starts, Restarted, Endings
<1>12. Quiet'
  BY DEF DrainUpdates, Quiet
<1> QED
  BY <1>1, <1>2, <1>3, <1>4, <1>5, <1>6, <1>7, <1>8,
     <1>9, <1>10, <1>11, <1>12

(* Time passes.                                                            *)
LEMMA AdvanceKeeps ==
    ASSUME LInv, Advance
    PROVE  LInv'
<1> USE ManagerConfig, ManagerNames DEF LInv
<1>1. Types'
  BY DEF Advance, Types, Times
<1>2. Mutex'
  BY DEF Advance, Mutex
<1>3. Random'
  BY DEF Advance, Random, Working
<1>4. Stored'
  BY DEF Advance, Stored
<1>5. Ahead'
  BY DEF Advance, Ahead, Working
<1>6. Decided'
  BY DEF Advance, Decided
<1>7. Verdicts'
  BY DEF Advance, Verdicts, Working
<1>8. Pending'
  BY DEF Advance, Pending, Working
<1>9. Drafted'
  BY DEF Advance, Drafted
<1>10. Deadline'
  BY DEF Advance, Deadline, Starts
<1>11. Ended'
  BY DEF Advance, Ended, Starts, Restarted, Endings
<1>12. Quiet'
  BY DEF Advance, Quiet
<1> QED
  BY <1>1, <1>2, <1>3, <1>4, <1>5, <1>6, <1>7, <1>8,
     <1>9, <1>10, <1>11, <1>12

(* The clock is stepped back.                                              *)
LEMMA StepBackKeeps ==
    ASSUME LInv, StepBack
    PROVE  LInv'
<1> USE ManagerConfig, ManagerNames DEF LInv
<1>1. Types'
  BY DEF StepBack, Types, Times
<1>2. Mutex'
  BY DEF StepBack, Mutex
<1>3. Random'
  BY DEF StepBack, Random, Working
<1>4. Stored'
  BY DEF StepBack, Stored
<1>5. Ahead'
  BY DEF StepBack, Ahead, Working
<1>6. Decided'
  BY DEF StepBack, Decided
<1>7. Verdicts'
  BY DEF StepBack, Verdicts, Working
<1>8. Pending'
  BY DEF StepBack, Pending, Working
<1>9. Drafted'
  BY DEF StepBack, Drafted
<1>10. Deadline'
  BY DEF StepBack, Deadline, Starts
<1>11. Ended'
  BY DEF StepBack, Ended, Starts, Restarted, Endings
<1>12. Quiet'
  BY DEF StepBack, Quiet
<1> QED
  BY <1>1, <1>2, <1>3, <1>4, <1>5, <1>6, <1>7, <1>8,
     <1>9, <1>10, <1>11, <1>12

(* The process dies and its calls with it.                                 *)
LEMMA CrashKeeps ==
    ASSUME LInv, Crash
    PROVE  LInv'
<1> USE ManagerConfig, ManagerNames DEF LInv
<1>1. Types'
  <2>1. work'.snap \in Snapshot /\ work'.verdict \in {"ok", "rejected"}
    BY DEF Crash, NoWork, Snapshot, Times
  <2>2. answer' \in [Requests -> Answers] /\ pc' \in [Requests -> Places]
    BY DEF Crash, Types, Answers, Places
  <2> QED
    BY <2>1, <2>2 DEF Crash, Types
<1>2. Mutex'
  BY DEF Crash, Mutex
<1>3. Random'
  BY DEF Crash, Random, Working
<1>4. Stored'
  BY DEF Crash, Stored
<1>5. Ahead'
  BY DEF Crash, Ahead, Working
<1>6. Decided'
  BY DEF Crash, Decided
<1>7. Verdicts'
  BY DEF Crash, NoWork, Verdicts
<1>8. Pending'
  BY DEF Crash, NoWork, Pending, NothingOverdue
<1>9. Drafted'
  BY DEF Crash, Drafted
<1>10. Deadline'
  BY DEF Crash, Deadline, Starts
<1>11. Ended'
  BY DEF Crash, Ended, Starts, Restarted, Endings
<1>12. Quiet'
  BY DEF Crash, Quiet
<1> QED
  BY <1>1, <1>2, <1>3, <1>4, <1>5, <1>6, <1>7, <1>8,
     <1>9, <1>10, <1>11, <1>12

(* The stored snapshot is loaded.                                          *)
LEMMA NewLabManagerKeeps ==
    ASSUME LInv, NewLabManager
    PROVE  LInv'
<1> USE ManagerConfig, ManagerNames DEF LInv
<1>1. Types'
  BY DEF NewLabManager, Types, Snapshot
<1>2. Mutex'
  BY DEF NewLabManager, Mutex
<1>3. Random'
  BY DEF NewLabManager, Mutex, Random, Working
<1>4. Stored'
  BY DEF NewLabManager, Types, Stored, Same, Snapshot, Times
<1>5. Ahead'
  BY DEF NewLabManager, Mutex, Ahead, Working
<1>6. Decided'
  BY DEF NewLabManager, Decided
<1>7. Verdicts'
  BY DEF NewLabManager, Mutex, Verdicts, Working
<1>8. Pending'
  BY DEF NewLabManager, Pending, Working
<1>9. Drafted'
  BY DEF NewLabManager, Mutex, Drafted
<1>10. Deadline'
  BY DEF NewLabManager, Deadline, Starts
<1>11. Ended'
  BY DEF NewLabManager, Ended, Starts, Restarted, Endings
<1>12. Quiet'
  BY DEF NewLabManager, Types, Quiet, Snapshot, Times
<1> QED
  BY <1>1, <1>2, <1>3, <1>4, <1>5, <1>6, <1>7, <1>8,
     <1>9, <1>10, <1>11, <1>12

-----------------------------------------------------------------------------
(* The invariant holds                                                     *)

(* A laboratory just loaded: memory is the store, and no window was ever   *)
(* open.                                                                   *)
LEMMA InitHolds == Init => LInv
<1> SUFFICES ASSUME Init PROVE LInv
  OBVIOUS
<1> USE ManagerConfig, ManagerNames DEF Init
<1>1. /\ db.tickAt = 0 /\ db.until = Nil /\ db.applied = {} /\ db.draws = 0
      /\ db.due \in SUBSET (1..MaxTime) /\ mem = db
      /\ db = [tickAt |-> db.tickAt, due |-> db.due, until |-> db.until,
               applied |-> db.applied, draws |-> db.draws]
  OBVIOUS
<1>2. db \in Snapshot
  BY <1>1 DEF Snapshot, Times, Nil
<1>3. Types
  <2>1. work.snap \in Snapshot /\ work.verdict = "ok"
    BY DEF NoWork, Snapshot, Times, Nil
  <2> QED
    <3>1. pc \in [Requests -> Places] /\ answer \in [Requests -> Answers]
      BY DEF Places, Answers
    <3>2. req \in [Requests -> [kind: Kinds, at: Times \cup {Nil}]]
      BY DEF Kinds
    <3>3. \A r \in Requests : req[r].kind # "RUN"
      OBVIOUS
    <3>4. clock \in Times /\ rng \in 0..MaxDraws
      BY DEF Times
    <3> QED
      BY <1>1, <1>2, <2>1, <3>1, <3>2, <3>3, <3>4 DEF Types
<1>4. Mutex /\ Random /\ Stored /\ Ahead
  BY <1>1 DEF Mutex, Random, Stored, Ahead, Working, Same
<1>5. BagToSet(log) = {}
  BY DEF EmptyBag, SetToBag, BagToSet
<1>6. Decided /\ Verdicts
  BY <1>1, <1>5 DEF Decided, Verdicts, Refuses, Working
<1>7. Pending /\ Drafted
  BY <1>1 DEF Pending, NothingOverdue, Drafted, Working
<1>8. Deadline /\ Ended /\ Quiet
  BY <1>1, <1>5 DEF Deadline, Ended, Quiet, Starts
<1> QED
  BY <1>3, <1>4, <1>6, <1>7, <1>8 DEF LInv

(* Every step keeps it.                                                    *)
LEMMA NextKeeps ==
    ASSUME LInv, [Next]_vars
    PROVE  LInv'
<1>1. CASE UNCHANGED vars
  <2>1. Types' /\ Mutex' /\ Random' /\ Stored' /\ Ahead'
    BY <1>1 DEF vars, LInv, Types, Mutex, Random, Stored, Ahead, Working
  <2>2. Decided' /\ Verdicts'
    BY <1>1 DEF vars, LInv, Decided, Verdicts, Working
  <2>3. Pending' /\ Drafted'
    BY <1>1 DEF vars, LInv, Pending, NothingOverdue, Drafted, Working
  <2>4. Deadline' /\ Ended' /\ Quiet'
    BY <1>1 DEF vars, LInv, Deadline, Ended, Starts, Restarted, Endings, Quiet
  <2> QED
    BY <2>1, <2>2, <2>3, <2>4 DEF LInv
<1>2. ASSUME NEW r \in Requests, NEW kind \in Kinds, Call(r, kind)
      PROVE  LInv'
  BY <1>2, CallKeeps
<1>3. ASSUME NEW r \in Requests, Cancel(r) \/ Serve(r)
      PROVE  LInv'
  BY <1>3, CancelKeeps, LockContextKeeps, ResolveStaleKeeps, ResolveTickKeeps, ApplyCommandKeeps,
     CommitKeeps, CommitFailsKeeps, PublishKeeps DEF Serve
<1>4. CASE DrainUpdates \/ Advance \/ StepBack \/ Crash \/ NewLabManager
  BY <1>4, DrainUpdatesKeeps, AdvanceKeeps, StepBackKeeps, CrashKeeps, NewLabManagerKeeps
<1>5. CASE Quiescent
  BY <1>1, <1>5 DEF Quiescent
<1> QED
  BY <1>1, <1>2, <1>3, <1>4, <1>5 DEF Next

(* The inductive invariant holds in every reachable state of a laboratory  *)
(* (internal/engine/manager.go over internal/persistence), whatever fails. *)
THEOREM Inductive == SafetySpec => []LInv
  BY InitHolds, NextKeeps, PTL DEF SafetySpec

-----------------------------------------------------------------------------
(* What follows from it                                                    *)

(* Every field has its type and only the holder of the mutex is past       *)
(* LockContext (ownership.go).                                             *)
THEOREM TypeCorrect == SafetySpec => []TypeOK
<1>1. LInv => TypeOK
  BY DEF LInv, Types, Mutex, Places, TypeOK
<1> QED
  BY <1>1, Inductive, PTL

(* Memory and store agree on all but LastTickAt whenever nobody is between *)
(* commit and publication (manager.go:182-234).                            *)
THEOREM MemoryIsStored == SafetySpec => []MemoryMatchesStore
<1>1. LInv => MemoryMatchesStore
  BY ChangeIsDifference DEF LInv, Types, Stored, MemoryMatchesStore
<1> QED
  BY <1>1, Inductive, PTL

(* However many operations fail, between two of them the random source     *)
(* stands where the published state left it (randomTransaction, manager.go *)
(* :236-262).                                                              *)
THEOREM RandomIsRestored == SafetySpec => []RandomMatchesState
<1>1. LInv => RandomMatchesState
  BY ManagerNames DEF LInv, Types, Mutex, Random, Working, RandomMatchesState
<1> QED
  BY <1>1, Inductive, PTL

(* The later of the two last ticks is past a deadline only if the stored   *)
(* one is.                                                                 *)
LEMMA EndsFollow == LInv => OverrideEndsOnce
<1> SUFFICES ASSUME LInv PROVE OverrideEndsOnce
  OBVIOUS
<1> USE ManagerConfig DEF LInv
<1> DEFINE seen == Max({mem.tickAt, db.tickAt})
<1>1. /\ db.tickAt \in Nat /\ mem.tickAt \in Nat /\ EmergencyDuration \in Nat
      /\ db.until \in Nat \cup {Nil}
  BY DEF Types, Snapshot, Times
<1>2. seen \in {mem.tickAt, db.tickAt} /\ mem.tickAt <= seen /\ db.tickAt <= seen
  <2>1. \A x \in {mem.tickAt, db.tickAt} : x <= mem.tickAt + db.tickAt
    BY <1>1
  <2>2. {mem.tickAt, db.tickAt} \in SUBSET Nat /\ mem.tickAt + db.tickAt \in Nat
    BY <1>1
  <2> QED
    BY <2>1, <2>2, MaxNat
<1> HIDE DEF seen
<1>3. ASSUME NEW t \in Starts, ~Restarted(t)
      PROVE  t + EmergencyDuration <= seen <=> t + EmergencyDuration <= db.tickAt
  <2> DEFINE last == db.until - EmergencyDuration
  <2>1. /\ t \in Nat /\ last \in Starts /\ last \in Nat /\ t <= last /\ last <= db.tickAt
        /\ db.until = last + EmergencyDuration
    BY <1>1 DEF Deadline, Times, Nil
  <2>2. CASE t = last
    <3>1. t + EmergencyDuration = db.until
      BY <2>1, <2>2
    <3> QED
      BY <1>1, <1>2, <2>1, <3>1 DEF Quiet
  <2>3. CASE t # last
    <3>1. t + EmergencyDuration <= last
      BY <1>1, <1>3, <2>1, <2>3 DEF Restarted
    <3> QED
      BY <1>1, <1>2, <2>1, <3>1
  <2> QED
    BY <2>2, <2>3
<1>4. \A t \in Starts : Endings(t + EmergencyDuration) =
        IF t + EmergencyDuration <= seen /\ ~Restarted(t) THEN 1 ELSE 0
  BY <1>3 DEF Ended
<1> QED
  BY <1>4 DEF OverrideEndsOnce, Ended, Starts, Restarted, seen

(* Every window of the Leyline Override that ran to its deadline has one   *)
(* LEYLINE_OVERRIDE_ENDED in the log and a restarted one has none,         *)
(* whatever was late, failed or was repeated (event_transition.go:143).    *)
THEOREM OverridesEndOnce == SafetySpec => []OverrideEndsOnce
  BY EndsFollow, Inductive, PTL

(* Memory moves on to what was worked out from it.                         *)
LEMMA MemoryMovesOn ==
    ASSUME LInv, [Next]_vars, up, up'
    PROVE  mem.tickAt <= mem'.tickAt /\ mem.applied \subseteq mem'.applied
<1>1. mem.tickAt <= mem.tickAt
  BY ManagerConfig DEF LInv, Types, Snapshot, Times
<1>2. UNCHANGED mem \/ \E r \in Requests : Publish(r)
  BY DEF Next, vars, Call, Cancel, Serve, LockContext, ResolveStale, ResolveTick, ApplyCommand,
         Resolved, Commit, CommitFails, DrainUpdates, Advance, StepBack, Crash, NewLabManager,
         Quiescent
<1>3. ASSUME NEW r \in Requests, Publish(r)
      PROVE  mem.tickAt <= mem'.tickAt /\ mem.applied \subseteq mem'.applied
  BY <1>3 DEF Publish, LInv, Ahead, Working
<1> QED
  BY <1>1, <1>2, <1>3

(* While the process lives its laboratory never runs backwards, however    *)
(* late a tick is delivered and however the clock is stepped (manager.go:  *)
(* 188).                                                                   *)
THEOREM TimeMovesOn == SafetySpec => TimeNeverRunsBack
<1>1. LInv /\ [Next]_vars =>
        [up /\ up' => mem.tickAt <= mem'.tickAt /\ mem.applied \subseteq mem'.applied]_vars
  BY MemoryMovesOn
<1> QED
  BY <1>1, Inductive, PTL DEF SafetySpec, TimeNeverRunsBack

-----------------------------------------------------------------------------
(* LabManager implements CommandLedger                                     *)

(* What the ledger sees of one command, before and after a step.           *)
LEMMA DecisionValue ==
    ASSUME LInv
    PROVE  \A r \in Requests :
             /\ Decision[r] = "applied" <=> r \in db.applied
             /\ Decision[r] = "rejected" <=> Refuses(BagToSet(log), r)
             /\ Decision[r] \in {"applied", "rejected", "none"}
<1> SUFFICES ASSUME NEW r \in Requests
             PROVE  /\ Decision[r] = "applied" <=> r \in db.applied
                    /\ Decision[r] = "rejected" <=> Refuses(BagToSet(log), r)
                    /\ Decision[r] \in {"applied", "rejected", "none"}
  OBVIOUS
<1>1. ~(r \in db.applied /\ Refuses(BagToSet(log), r))
  BY DEF LInv, Decided
<1> QED
  BY <1>1 DEF Decision, Refuses

(* What the ledger sees of one caller.                                     *)
LEMMA ToldValue ==
    ASSUME LInv
    PROVE  \A r \in Requests :
             /\ Told[r] = "unsent" <=> pc[r] = "idle"
             /\ Told[r] = "pending" <=> pc[r] \notin {"idle", "done"}
             /\ pc[r] = "done" => Told[r] = answer[r]
  BY DEF LInv, Types, Answers, Told

(* A call that ends is a reply, if what it tells is true of the decision.  *)
LEMMA ReplyImplements ==
    ASSUME LInv, NEW r \in Requests, pc[r] \notin {"idle", "done"},
           NEW told \in {"ok", "rejected", "error"},
           pc' = [pc EXCEPT ![r] = "done"], answer' = [answer EXCEPT ![r] = told],
           UNCHANGED <<db, log, req>>,
           told = "ok" => Decision[r] = "applied" \/ req[r].kind # "COMMAND",
           told = "rejected" => Decision[r] = "rejected",
           told = "error" => Decision[r] = "none"
    PROVE  Ledger!Reply(r)
<1>1. Told' = [Told EXCEPT ![r] = told] /\ Told[r] = "pending"
  BY DEF LInv, Types, Told
<1>2. Sent' = Sent /\ Decision' = Decision
  BY DEF Sent, Decision
<1>3. Decision[r] \in {"applied", "rejected", "none"}
  BY DecisionValue
<1>4. req[r].kind # "COMMAND" => Decision[r] = "none"
  BY DecisionValue DEF LInv, Decided
<1>5. r \in Sent <=> req[r].kind = "COMMAND"
  BY DEF Sent
<1>6. told \in Ledger!Outcomes(r)
  <2>1. CASE Decision[r] = "applied"
    BY <2>1, <1>4, <1>5 DEF Ledger!Outcomes
  <2>2. CASE Decision[r] = "rejected"
    BY <2>2, <1>4, <1>5 DEF Ledger!Outcomes
  <2>3. CASE Decision[r] = "none"
    BY <2>3, <1>5 DEF Ledger!Outcomes
  <2> QED
    BY <1>3, <2>1, <2>2, <2>3
<1> QED
  BY <1>1, <1>2, <1>6 DEF Ledger!Reply

(* The commit of a command is its decision; that of a tick decides         *)
(* nothing.                                                                *)
LEMMA CommitImplements ==
    ASSUME LInv, NEW r \in Requests, Commit(r)
    PROVE  Ledger!Decide(r) \/ UNCHANGED <<Sent, Decision, Told>>
<1>1. pc[r] = "resolved" /\ pc' = [pc EXCEPT ![r] = "committed"] /\ UNCHANGED <<req, answer, work>>
      /\ db' = work.snap /\ log' = log (+) SetToBag(work.drafts) /\ mem.applied = db.applied
  BY DEF Commit, LInv, Types, Mutex, Stored, Same
<1>2. Sent' = Sent /\ Told' = Told /\ Told[r] = "pending"
  BY <1>1 DEF Sent, Told, LInv, Types
<1>3. \A q \in Requests : Refuses(BagToSet(log), q)' <=>
        Refuses(BagToSet(log), q) \/ (q = r /\ work.verdict = "rejected")
  <2>1. BagToSet(log)' = BagToSet(log) \cup work.drafts
    BY <1>1, LogGrows
  <2> QED
    BY <1>1, <2>1 DEF LInv, Refuses, Verdicts
<1>4. \A q \in Requests : q \in db'.applied <=>
        q \in db.applied \/ (q = r /\ req[r].kind = "COMMAND" /\ work.verdict = "ok")
  BY <1>1 DEF LInv, Verdicts
<1>5. r \notin db.applied /\ ~Refuses(BagToSet(log), r) /\ Decision[r] = "none"
  BY <1>1, DecisionValue DEF LInv, Decided
<1>6. \A q \in Requests \ {r} : Decision'[q] = Decision[q]
  BY <1>3, <1>4 DEF Decision, Refuses
<1>7. CASE req[r].kind # "COMMAND"
  <2>1. work.verdict = "ok"
    BY <1>1, <1>7 DEF LInv, Verdicts, Working
  <2>2. Decision'[r] = Decision[r]
    BY <1>3, <1>4, <1>5, <1>7, <2>1 DEF Decision, Refuses
  <2>3. Decision' = Decision
    BY <1>6, <2>2 DEF Decision
  <2> QED
    BY <1>2, <2>3
<1>8. CASE req[r].kind = "COMMAND"
  <2>1. r \in Sent
    BY <1>8 DEF Sent
  <2>2. Decision'[r] \in {"applied", "rejected"}
    <3>1. CASE work.verdict = "ok"
      BY <1>3, <1>4, <1>5, <1>8, <3>1 DEF Decision, Refuses
    <3>2. CASE work.verdict = "rejected"
      BY <1>3, <1>4, <1>5, <1>8, <3>2 DEF Decision, Refuses
    <3> QED
      BY <3>1, <3>2 DEF LInv, Types
  <2>3. Decision' = [Decision EXCEPT ![r] = Decision'[r]]
    <3>1. /\ Decision = [q \in Requests |-> Decision[q]]
          /\ Decision' = [q \in Requests |-> Decision'[q]]
      BY DEF Decision
    <3> QED
      BY <1>6, <3>1
  <2> QED
    BY <1>2, <1>5, <2>1, <2>2, <2>3 DEF Ledger!Decide
<1> QED
  BY <1>7, <1>8

(* Every step of the manager is a step of the ledger or none.              *)
LEMMA StepImplements ==
    ASSUME LInv, [Next]_vars
    PROVE  Ledger!Next \/ UNCHANGED <<Sent, Decision, Told>>
<1>1. ASSUME NEW r \in Requests, NEW kind \in Kinds, Call(r, kind)
      PROVE  Ledger!Send(r)
  <2>1. pc[r] = "idle" /\ UNCHANGED <<db, log, answer>>
    BY <1>1 DEF Call
  <2>2. Told' = [Told EXCEPT ![r] = "pending"] /\ Told[r] = "unsent"
    BY <1>1 DEF Call, LInv, Types, Told
  <2>3. Decision' = Decision
    BY <2>1 DEF Decision
  <2>4. \A q \in Requests : q \in Sent' <=>
          (q \in Sent /\ q # r) \/ (q = r /\ kind = "COMMAND")
    BY <1>1 DEF Call, LInv, Types, Sent
  <2>5. r \notin Sent
    BY <2>1 DEF LInv, Decided, Sent
  <2>6. Sent' \in {Sent, Sent \cup {r}}
    BY <2>4, <2>5 DEF Sent
  <2> QED
    BY <2>2, <2>3, <2>6 DEF Ledger!Send
<1>2. ASSUME NEW r \in Requests, Cancel(r)
      PROVE  Ledger!Reply(r)
  <2>1. Decision[r] = "none"
    BY <1>2, DecisionValue DEF Cancel, LInv, Decided
  <2> QED
    BY <1>2, <2>1, ReplyImplements DEF Cancel
<1>3. ASSUME NEW r \in Requests, ResolveStale(r) \/ CommitFails(r)
      PROVE  Ledger!Reply(r)
  <2>1. Decision[r] = "none"
    BY <1>3, DecisionValue DEF ResolveStale, CommitFails, LInv, Decided
  <2>2. CASE ResolveStale(r)
    <3> DEFINE told == IF req[r].kind = "COMMAND" THEN "error" ELSE "ok"
    <3>1. told \in {"error", "ok"} /\ (told = "ok" => req[r].kind # "COMMAND")
      OBVIOUS
    <3>2. /\ pc[r] = "locked" /\ pc' = [pc EXCEPT ![r] = "done"]
          /\ answer' = [answer EXCEPT ![r] = told] /\ UNCHANGED <<db, log, req>>
      BY <2>2 DEF ResolveStale, Unlock
    <3> HIDE DEF told
    <3> QED
      BY <2>1, <3>1, <3>2, ReplyImplements
  <2>3. CASE CommitFails(r)
    BY <2>1, <2>3, ReplyImplements DEF CommitFails, Unlock
  <2> QED
    BY <1>3, <2>2, <2>3
<1>4. ASSUME NEW r \in Requests, Publish(r)
      PROVE  Ledger!Reply(r)
  <2>1. /\ pc[r] \in {"resolved", "committed"} /\ pc' = [pc EXCEPT ![r] = "done"]
        /\ answer' = [answer EXCEPT ![r] = work.verdict] /\ UNCHANGED <<db, log, req>>
    BY <1>4 DEF Publish, Unlock
  <2>2. work.verdict \in {"ok", "rejected"}
    BY DEF LInv, Types
  <2>3. CASE pc[r] = "committed"
    <3>1. /\ req[r].kind = "COMMAND" /\ work.verdict = "ok" => Decision[r] = "applied"
          /\ work.verdict = "rejected" => Decision[r] = "rejected"
      BY <2>3, DecisionValue DEF LInv, Verdicts
    <3> QED
      BY <2>1, <2>2, <3>1, ReplyImplements
  <2>4. CASE pc[r] = "resolved" /\ ~Commits(r)
    <3>1. req[r].kind # "COMMAND" /\ work.verdict = "ok"
      BY <2>4 DEF Commits, LInv, Verdicts, Working
    <3> QED
      BY <2>1, <2>2, <3>1, ReplyImplements
  <2> QED
    BY <1>4, <2>3, <2>4 DEF Publish
<1>5. CASE Crash
  <2>1. Told' = [r \in Requests |-> IF Told[r] = "pending" THEN "lost" ELSE Told[r]]
    <3>1. \A r \in Requests : Told'[r] = IF Told[r] = "pending" THEN "lost" ELSE Told[r]
      BY <1>5 DEF Crash, LInv, Types, Places, Answers, Told
    <3> QED
      BY <3>1 DEF Told
  <2>2. Sent' = Sent /\ Decision' = Decision
    BY <1>5 DEF Crash, Sent, Decision
  <2> QED
    BY <2>1, <2>2 DEF Ledger!Next, Ledger!Crash
<1>6. ASSUME NEW r \in Requests, LockContext(r) \/ ResolveTick(r) \/ ApplyCommand(r)
      PROVE  UNCHANGED <<Sent, Decision, Told>>
  <2>1. /\ pc[r] \in {"waiting", "locked"} /\ UNCHANGED <<db, log, req, answer>>
        /\ pc' \in {[pc EXCEPT ![r] = "locked"], [pc EXCEPT ![r] = "resolved"]}
    BY <1>6 DEF LockContext, ResolveTick, ApplyCommand, Resolved
  <2>2. Told' = Told
    BY <2>1 DEF Told, LInv, Types
  <2> QED
    BY <2>1, <2>2 DEF Sent, Decision
<1>7. CASE \/ DrainUpdates \/ Advance \/ StepBack \/ NewLabManager \/ Quiescent
           \/ UNCHANGED vars
  <2>1. UNCHANGED <<db, log, req, pc, answer>>
    BY <1>7 DEF DrainUpdates, Advance, StepBack, NewLabManager, Quiescent, vars
  <2> QED
    BY <2>1 DEF Sent, Decision, Told
<1>8. ASSUME NEW r \in Requests, Serve(r)
      PROVE  Ledger!Reply(r) \/ Ledger!Decide(r) \/ UNCHANGED <<Sent, Decision, Told>>
  BY <1>3, <1>4, <1>6, <1>8, CommitImplements DEF Serve
<1> QED
  BY <1>1, <1>2, <1>5, <1>7, <1>8 DEF Next, Ledger!Next

(* A laboratory just loaded has decided nothing yet.                       *)
LEMMA InitImplements == Init => Ledger!Init
<1> SUFFICES ASSUME Init PROVE Ledger!Init
  OBVIOUS
<1>1. BagToSet(log) = {} /\ db.applied = {}
  BY DEF Init, EmptyBag, SetToBag, BagToSet
<1>2. Decision = [r \in Requests |-> "none"]
  BY <1>1 DEF Decision
<1>3. Sent = {} /\ Told = [r \in Requests |-> "unsent"]
  BY DEF Init, Sent, Told
<1> QED
  BY <1>2, <1>3 DEF Ledger!Init

(* The manager implements CommandLedger: a command is decided at most      *)
(* once, by the commit of executeCommand, the decision is never undone and *)
(* every caller is told the truth of it, through crashes, failed commits   *)
(* and cancellations (manager_commands.go, manager.go).                    *)
THEOREM LedgerImplemented == SafetySpec => LedgerKept
<1>1. LInv /\ [Next]_vars => [Ledger!Next]_<<Sent, Decision, Told>>
  BY StepImplements
<1> QED
  BY <1>1, Inductive, InitImplements, PTL DEF SafetySpec, LedgerKept, Ledger!Spec, Ledger!vars

=============================================================================
