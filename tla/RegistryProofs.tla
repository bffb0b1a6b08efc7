--------------------------- MODULE RegistryProofs ---------------------------
(***************************************************************************)
(* Proofs about modules Registry and Server.  The registry's invariant is  *)
(* shown for every step the registry can take, Close and what follows it   *)
(* included, so that the second part, on the order in which the process    *)
(* comes down, rests on the same lemmas.                                   *)
(***************************************************************************)
EXTENDS Server, FiniteSetTheorems, TLAPS

(* A step of the registry, whoever takes it.                               *)
AnyStep ==
    \/ Next \/ Close \/ CloseHubs
    \/ \E r \in Requests : RefuseClosed(r)

-----------------------------------------------------------------------------
(* The inductive invariant                                                 *)

Places == {"idle", "resolving", "acquire", "waiting", "loading", "leased", "serving", "done"}

(* Where a request that has loaded a runtime can be.                       *)
Loaded == {"leased", "serving", "done"}

Workers == [step: {"idle", "ticking", "sweeping", "deleting", "evicting", "stopped"},
            todo: SUBSET Labs, now: Nat, lab: Labs \cup {None}, failed: BOOLEAN]

Types ==
    /\ clock \in Nat /\ used \in SUBSET Labs
    /\ row \in [Labs -> Rows \cup {None}]
    /\ entries \in [Labs -> Entries \cup {None}]
    /\ pc \in [Requests -> Places]
    /\ lab \in [Requests -> Labs \cup {None}]
    /\ at \in [Requests -> Nat]
    /\ lease \in [Requests -> Requests \cup {None}]
    /\ worker \in Workers
    /\ closer \in {"open", "draining", "closing", "closed"}
    /\ toClose \in SUBSET Requests /\ stopped \in SUBSET Requests

(* A row is one of a laboratory ever created and expires SessionTTL after  *)
(* it was last renewed; a cookie and a resolved laboratory were created.   *)
Created ==
    /\ \A l \in Labs : row[l] # None =>
         l \in used /\ row[l].lab = row[l].seen + SessionTTL
    /\ \A r \in Requests : pc[r] = "resolving" => lab[r] \in used \cup {None}
    /\ \A r \in Requests : pc[r] \in Places \ {"idle", "resolving", "done"} => lab[r] \in used
    /\ worker.now <= clock

(* What renewal leaves every session that is resolved.                     *)
Left == SessionTTL - SessionRefreshInterval

(* Who was resolved and holds no lease yet has a row that lives longer     *)
(* than that from the instant it was resolved for, or that time is over.   *)
Kept ==
    \A r \in Requests : pc[r] \in {"acquire", "waiting", "loading"} =>
        IF row[lab[r]] = None THEN clock - at[r] > Left
        ELSE row[lab[r]].lab > at[r] + Left

(* A load owns its entry and keeps others from it.                         *)
LoadsOwn ==
    \A r \in Requests : pc[r] = "loading" =>
        /\ entries[lab[r]] # None
        /\ entries[lab[r]].owner = r /\ entries[lab[r]].runtime = None /\ entries[lab[r]].busy

HasRuntime(l) == entries[l] # None /\ entries[l].runtime # None

(* A runtime in the map was loaded, has a row unless it is being evicted,  *)
(* and is open until the registry closes.                                  *)
RuntimesLive ==
    \A l \in Labs : HasRuntime(l) =>
        /\ pc[entries[l].runtime] \in Loaded
        /\ row[l] = None => worker.step = "evicting" /\ worker.lab = l
        /\ entries[l].runtime \in stopped => closed

RuntimesUnique ==
    \A k \in Labs, l \in Labs :
        HasRuntime(k) /\ HasRuntime(l) /\ entries[k].runtime = entries[l].runtime => k = l

(* Only what was loaded is stopped or to be closed, and only a registry    *)
(* that closes has hubs to close.                                          *)
StoppedLoaded ==
    /\ \A runtime \in stopped \cup toClose : pc[runtime] \in Loaded
    /\ toClose # {} => closer = "closing"

(* Who uses a laboratory uses the runtime of its entry ...                 *)
LeasesServed ==
    \A r \in Requests, l \in Labs : Holds(r, l) =>
        HasRuntime(l) /\ entries[l].runtime = lease[r]

(* ... the worker too ...                                                  *)
TicksServed == worker.step = "ticking" => \A l \in worker.todo : HasRuntime(l)

(* ... and what it deletes is neither used nor being loaded.               *)
DeletesAlone ==
    worker.step \in {"deleting", "evicting"} =>
        /\ worker.lab \in Labs /\ entries[worker.lab] # None
        /\ entries[worker.lab].busy /\ entries[worker.lab].refs = 0
        /\ entries[worker.lab].owner = Worker \/ entries[worker.lab].runtime # None

(* Left behind by a deletion that failed, an entry without a runtime is    *)
(* the worker's.                                                           *)
NilEntries ==
    \A l \in Labs : entries[l] # None /\ entries[l].runtime = None =>
        entries[l].busy \/ entries[l].owner = Worker

Counted == \A l \in Labs : entries[l] # None => entries[l].refs = Leases(l)

IInv ==
    /\ Types /\ Created /\ Kept /\ LoadsOwn
    /\ RuntimesLive /\ RuntimesUnique /\ StoppedLoaded
    /\ LeasesServed /\ TicksServed /\ DeletesAlone /\ NilEntries /\ Counted

-----------------------------------------------------------------------------
(* Counting leases                                                         *)

Holders(l) == {r \in Requests : Holds(r, l)}
Ticking(l) == worker.step = "ticking" /\ l \in worker.todo

(* The users of a laboratory are finitely many, so their count is a        *)
(* number.                                                                 *)
LEMMA LeasesType ==
    \A l \in Labs : IsFiniteSet(Holders(l)) /\ Cardinality(Holders(l)) \in Nat
                   /\ Leases(l) = Cardinality(Holders(l)) + (IF Ticking(l) THEN 1 ELSE 0)
  <1> TAKE l \in Labs
  <1>1. Holders(l) \in SUBSET Requests
    BY DEF Holders
  <1>2. IsFiniteSet(Holders(l)) /\ Cardinality(Holders(l)) \in Nat
    BY <1>1, RegistryConfig, FS_Subset, FS_CardinalityType
  <1>3. Leases(l) = Cardinality(Holders(l)) + (IF Ticking(l) THEN 1 ELSE 0)
    BY DEF Leases, Holders, Ticking
  <1> QED
    BY <1>2, <1>3

(* A laboratory counts no lease exactly when nobody uses it.               *)
LEMMA NoLeases ==
    \A l \in Labs : Leases(l) = 0 <=> (\A r \in Requests : ~Holds(r, l)) /\ ~Ticking(l)
  <1> TAKE l \in Labs
  <1>1. Cardinality(Holders(l)) = 0 <=> Holders(l) = {}
    BY LeasesType, FS_EmptySet
  <1>2. Holders(l) = {} <=> \A r \in Requests : ~Holds(r, l)
    BY DEF Holders
  <1> QED
    BY <1>1, <1>2, LeasesType

(* A step that changes nobody's use of a laboratory changes no count.      *)
LEMMA LeasesSame ==
    \A l \in Labs :
        (\A r \in Requests : Holds(r, l)' <=> Holds(r, l)) /\ (Ticking(l)' <=> Ticking(l))
          => Leases(l)' = Leases(l)
  <1> SUFFICES ASSUME NEW l \in Labs,
                      \A r \in Requests : Holds(r, l)' <=> Holds(r, l),
                      Ticking(l)' <=> Ticking(l)
               PROVE  Leases(l)' = Leases(l)
    OBVIOUS
  <1>1. Holders(l)' = Holders(l)
    BY DEF Holders
  <1>2. Leases(l)' = Cardinality(Holders(l)') + (IF Ticking(l)' THEN 1 ELSE 0)
    BY DEF Leases, Holders, Ticking
  <1> QED
    BY <1>1, <1>2, LeasesType

(* One who begins to use a laboratory adds one to its count.               *)
LEMMA LeasesMore ==
    \A l \in Labs, q \in Requests :
        (/\ ~Holds(q, l) /\ Holds(q, l)'
         /\ \A r \in Requests \ {q} : Holds(r, l)' <=> Holds(r, l)
         /\ Ticking(l)' <=> Ticking(l))
          => Leases(l)' = Leases(l) + 1
  <1> SUFFICES ASSUME NEW l \in Labs, NEW q \in Requests,
                      ~Holds(q, l), Holds(q, l)',
                      \A r \in Requests \ {q} : Holds(r, l)' <=> Holds(r, l),
                      Ticking(l)' <=> Ticking(l)
               PROVE  Leases(l)' = Leases(l) + 1
    OBVIOUS
  <1>1. Holders(l)' = Holders(l) \cup {q} /\ q \notin Holders(l)
    BY DEF Holders
  <1>2. Leases(l)' = Cardinality(Holders(l)') + (IF Ticking(l)' THEN 1 ELSE 0)
    BY DEF Leases, Holders, Ticking
  <1>3. Cardinality(Holders(l) \cup {q}) = Cardinality(Holders(l)) + 1
    BY <1>1, LeasesType, FS_AddElement
  <1> QED
    BY <1>1, <1>2, <1>3, LeasesType

(* One who stops using a laboratory takes one from its count.              *)
LEMMA LeasesLess ==
    \A l \in Labs, q \in Requests :
        (/\ Holds(q, l) /\ ~Holds(q, l)'
         /\ \A r \in Requests \ {q} : Holds(r, l)' <=> Holds(r, l)
         /\ Ticking(l)' <=> Ticking(l))
          => Leases(l)' = Leases(l) - 1
  <1> SUFFICES ASSUME NEW l \in Labs, NEW q \in Requests,
                      Holds(q, l), ~Holds(q, l)',
                      \A r \in Requests \ {q} : Holds(r, l)' <=> Holds(r, l),
                      Ticking(l)' <=> Ticking(l)
               PROVE  Leases(l)' = Leases(l) - 1
    OBVIOUS
  <1>1. Holders(l)' = Holders(l) \ {q} /\ q \in Holders(l)
    BY DEF Holders
  <1>2. Leases(l)' = Cardinality(Holders(l)') + (IF Ticking(l)' THEN 1 ELSE 0)
    BY DEF Leases, Holders, Ticking
  <1>3. Cardinality(Holders(l) \ {q}) = Cardinality(Holders(l)) - 1
    BY <1>1, LeasesType, FS_RemoveElement
  <1> QED
    BY <1>1, <1>2, <1>3, LeasesType

(* The worker's lease counts like a request's.                             *)
LEMMA WorkerLeases ==
    \A l \in Labs :
        (\A r \in Requests : Holds(r, l)' <=> Holds(r, l))
          => /\ ~Ticking(l) /\ Ticking(l)' => Leases(l)' = Leases(l) + 1
             /\ Ticking(l) /\ ~Ticking(l)' => Leases(l)' = Leases(l) - 1
  <1> SUFFICES ASSUME NEW l \in Labs,
                      \A r \in Requests : Holds(r, l)' <=> Holds(r, l)
               PROVE  /\ ~Ticking(l) /\ Ticking(l)' => Leases(l)' = Leases(l) + 1
                      /\ Ticking(l) /\ ~Ticking(l)' => Leases(l)' = Leases(l) - 1
    OBVIOUS
  <1>1. Holders(l)' = Holders(l)
    BY DEF Holders
  <1>2. Leases(l)' = Cardinality(Holders(l)') + (IF Ticking(l)' THEN 1 ELSE 0)
    BY DEF Leases, Holders, Ticking
  <1> QED
    BY <1>1, <1>2, LeasesType

-----------------------------------------------------------------------------
(* Steps of a request that leave the map alone                             *)

(* A request past its resolution has a laboratory.                         *)
LEMMA ResolvedHasLab ==
    ASSUME IInv
    PROVE  \A r \in Requests :
             pc[r] \in Places \ {"idle", "resolving", "done"} => lab[r] \in Labs
  BY DEF IInv, Types, Created

(* Moving the request around without a lease disturbs nothing.             *)
LEMMA RequestMoves ==
    ASSUME IInv, NEW r \in Requests,
           Arrive(r) \/ ResolveFails(r) \/ RefuseClosed(r) \/ WaitAtGate(r) \/ Cancel(r)
    PROVE  IInv'
  <1> USE DEF IInv, Arrive, ResolveFails, RefuseClosed, WaitAtGate, Cancel,
              TurnAway, Goto, Over, closing, Places
  <1>1. Types'
    BY DEF Types
  <1>2. Created'
    BY DEF Types, Created
  <1>3. Kept'
    BY DEF Types, Kept
  <1>4. LoadsOwn'
    BY DEF Types, LoadsOwn
  <1>5. RuntimesLive' /\ RuntimesUnique' /\ StoppedLoaded'
    BY DEF Types, Entries, RuntimesLive, RuntimesUnique, StoppedLoaded, HasRuntime, Loaded,
           closed
  <1>6. LeasesServed' /\ TicksServed' /\ DeletesAlone' /\ NilEntries'
    BY DEF Types, LeasesServed, TicksServed, DeletesAlone, NilEntries, HasRuntime, Holds
  <1>7. Counted'
    BY LeasesSame DEF Types, Counted, Holds, Ticking
  <1> QED
    BY <1>1, <1>2, <1>3, <1>4, <1>5, <1>6, <1>7

(* Renewing a session never brings its end nearer, and leaves a session    *)
(* that is not renewed at least Left.                                      *)
LEMMA ResolveSessionKeeps ==
    ASSUME IInv, NEW r \in Requests, ResolveSession(r)
    PROVE  IInv'
  <1> USE DEF IInv, ResolveSession, Goto, closing, Places
  <1> DEFINE l == lab[r]
  <1>1. l \in Labs /\ l \in used /\ row[l] \in Rows /\ row[l] # None
    BY DEF Types, Created, Known
  <1>2. row' \in [Labs -> Rows \cup {None}] /\ row'[l] \in Rows /\ row'[l] # None
    <2>1. NewRow(at[r]) \in Rows
      BY RegistryConfig DEF Types, NewRow, Rows
    <2> QED
      BY <1>1, <2>1, RegistryNames DEF Types, Renewed
  <1>3. \A k \in Labs \ {l} : row'[k] = row[k]
    BY <1>1 DEF Types, Renewed
  <1>4. /\ row'[l].lab = row'[l].seen + SessionTTL
        /\ row'[l].lab > at[r] + Left
        /\ row'[l].lab >= row[l].lab
    <2>1. row[l].lab = row[l].seen + SessionTTL
      BY <1>1 DEF Created
    <2>2. CASE at[r] - row[l].seen >= SessionRefreshInterval
      <3>1. row'[l] = NewRow(at[r])
        BY <1>1, <2>2 DEF Types, Renewed
      <3> QED
        BY <3>1, <2>1, <2>2, <1>1, RegistryConfig DEF Types, NewRow, Left, Rows
    <2>3. CASE ~(at[r] - row[l].seen >= SessionRefreshInterval)
      <3>1. row'[l] = row[l]
        BY <1>1, <2>3 DEF Types, Renewed
      <3> QED
        BY <3>1, <2>1, <2>3, <1>1, RegistryConfig DEF Types, Left, Rows
    <2> QED
      BY <2>2, <2>3
  <1> HIDE DEF l
  <1>5. lab[r] = l
    BY DEF l
  <1>6. Types'
    BY <1>2 DEF Types
  <1>7. Created'
    BY <1>1, <1>3, <1>4, <1>5 DEF Types, Created
  <1>8. Kept'
    <2> SUFFICES ASSUME NEW q \in Requests, pc'[q] \in {"acquire", "waiting", "loading"}
                 PROVE  IF row'[lab[q]] = None THEN clock - at[q] > Left
                        ELSE row'[lab[q]].lab > at[q] + Left
      BY DEF Kept
    <2>1. CASE q = r
      BY <2>1, <1>2, <1>4, <1>5
    <2>2. CASE q # r
      <3>1. pc[q] = pc'[q] /\ lab[q] \in Labs
        BY <2>2 DEF Types, Created
      <3>2. CASE lab[q] = l
        BY <3>1, <3>2, <1>1, <1>2, <1>4, RegistryConfig DEF Types, Kept, Rows, Left
      <3>3. CASE lab[q] # l
        BY <3>1, <3>3, <1>3 DEF Kept
      <3> QED
        BY <3>2, <3>3
    <2> QED
      BY <2>1, <2>2
  <1>9. LoadsOwn'
    BY DEF Types, LoadsOwn
  <1>10. RuntimesLive' /\ RuntimesUnique' /\ StoppedLoaded'
    BY <1>2, <1>3
    DEF Types, Entries, RuntimesLive, RuntimesUnique, StoppedLoaded, HasRuntime, Loaded, closed
  <1>11. LeasesServed' /\ TicksServed' /\ DeletesAlone' /\ NilEntries'
    BY DEF Types, LeasesServed, TicksServed, DeletesAlone, NilEntries, HasRuntime, Holds
  <1>12. Counted'
    BY LeasesSame DEF Types, Counted, Holds, Ticking
  <1> QED
    BY <1>6, <1>7, <1>8, <1>9, <1>10, <1>11, <1>12

(* A new laboratory is not one that anybody was resolved to.               *)
LEMMA CreateSessionKeeps ==
    ASSUME IInv, NEW r \in Requests, CreateSession(r)
    PROVE  IInv'
  <1> USE DEF IInv, CreateSession, Goto, closing, Places
  <1> DEFINE l == Fresh
  <1>1. l \in Labs /\ l \notin used
    BY DEF Types, Fresh
  <1>2. row'[l] = NewRow(at[r]) /\ row' \in [Labs -> Rows \cup {None}] /\ row'[l] # None
    BY <1>1, RegistryConfig, RegistryNames DEF Types, NewRow, Rows
  <1>3. \A k \in Labs \ {l} : row'[k] = row[k]
    BY <1>1 DEF Types
  <1>4. /\ row'[l].lab = row'[l].seen + SessionTTL
        /\ row'[l].lab > at[r] + Left
    BY <1>1, <1>2, RegistryConfig DEF Types, NewRow, Left
  <1>5. lab' = [lab EXCEPT ![r] = l] /\ used' = used \cup {l}
    OBVIOUS
  <1> HIDE DEF l
  <1>6. Types'
    BY <1>1, <1>2, <1>5 DEF Types
  <1>7. Created'
    BY <1>1, <1>3, <1>4, <1>5 DEF Types, Created
  <1>8. Kept'
    <2> SUFFICES ASSUME NEW q \in Requests, pc'[q] \in {"acquire", "waiting", "loading"}
                 PROVE  IF row'[lab'[q]] = None THEN clock - at[q] > Left
                        ELSE row'[lab'[q]].lab > at[q] + Left
      BY DEF Kept
    <2>1. CASE q = r
      BY <2>1, <1>2, <1>4, <1>5 DEF Types
    <2>2. CASE q # r
      <3>1. pc[q] = pc'[q] /\ lab'[q] = lab[q] /\ lab[q] \in Labs \ {l}
        BY <2>2, <1>1, <1>5 DEF Types, Created
      <3> QED
        BY <3>1, <1>3 DEF Kept
    <2> QED
      BY <2>1, <2>2
  <1>9. LoadsOwn'
    BY <1>5 DEF Types, LoadsOwn
  <1>10. RuntimesLive' /\ RuntimesUnique' /\ StoppedLoaded'
    BY <1>2, <1>3
    DEF Types, Entries, RuntimesLive, RuntimesUnique, StoppedLoaded, HasRuntime, Loaded, closed
  <1>11. LeasesServed' /\ TicksServed' /\ DeletesAlone' /\ NilEntries'
    BY <1>5 DEF Types, LeasesServed, TicksServed, DeletesAlone, NilEntries, HasRuntime, Holds
  <1>12. Counted'
    BY <1>5, LeasesSame DEF Types, Counted, Holds, Ticking
  <1> QED
    BY <1>6, <1>7, <1>8, <1>9, <1>10, <1>11, <1>12

(* A WebSocket keeps its lease when the hub takes it over.                 *)
LEMMA BeginHandlerKeeps ==
    ASSUME IInv, NEW r \in Requests, BeginHandler(r)
    PROVE  IInv'
  <1> USE DEF IInv, BeginHandler, Goto, closing, Places
  <1>1. Types' /\ Created' /\ Kept' /\ LoadsOwn'
    BY DEF Types, Created, Kept, LoadsOwn
  <1>2. RuntimesLive' /\ RuntimesUnique' /\ StoppedLoaded'
    BY DEF Types, Entries, RuntimesLive, RuntimesUnique, StoppedLoaded, HasRuntime, Loaded,
           closed
  <1>3. LeasesServed' /\ TicksServed' /\ DeletesAlone' /\ NilEntries'
    BY DEF Types, LeasesServed, TicksServed, DeletesAlone, NilEntries, HasRuntime, Holds
  <1>4. Counted'
    BY LeasesSame DEF Types, Counted, Holds, Ticking
  <1> QED
    BY <1>1, <1>2, <1>3, <1>4

-----------------------------------------------------------------------------
(* Steps of a request on its entry                                         *)

(* An entry changed in its count or its gate alone is an entry.            *)
LEMMA EntriesType ==
    \A e \in Entries :
        /\ \A n \in Int : [e EXCEPT !.refs = n] \in Entries
        /\ \A b \in BOOLEAN : [e EXCEPT !.busy = b] \in Entries
  BY DEF Entries

(* One more lease of a runtime in memory.                                  *)
LEMMA LeaseLiveKeeps ==
    ASSUME IInv, NEW r \in Requests, LeaseLive(r)
    PROVE  IInv'
  <1> USE DEF IInv, LeaseLive, Goto, closing, Places
  <1> DEFINE l == lab[r]
             e == entries[l]
             f == [e EXCEPT !.refs = e.refs + 1]
  <1>1. l \in Labs /\ e \in Entries /\ e.runtime \in Requests /\ ~e.busy
    BY ResolvedHasLab DEF Types, live, Entries
  <1>2. f \in Entries /\ f # None
    BY <1>1, EntriesType, RegistryNames DEF Entries
  <1>3. entries' = [entries EXCEPT ![l] = f]
    BY DEF Types
  <1>4. f.owner = e.owner /\ f.runtime = e.runtime /\ f.busy = e.busy /\ f.refs = e.refs + 1
    BY <1>1 DEF Entries
  <1>5. lab[r] = l /\ e = entries[l] /\ e # None /\ lease' = [lease EXCEPT ![r] = e.runtime]
    BY <1>1, RegistryNames
  <1> HIDE DEF f, e, l
  <1>6. Types'
    BY <1>1, <1>2, <1>3, <1>5 DEF Types
  <1>7. Created' /\ Kept'
    BY DEF Types, Created, Kept
  <1>8. LoadsOwn'
    BY <1>1, <1>2, <1>3, <1>4, <1>5 DEF Types, LoadsOwn
  <1>9. RuntimesLive' /\ RuntimesUnique' /\ StoppedLoaded'
    BY <1>1, <1>2, <1>3, <1>4, <1>5
    DEF Types, Entries, RuntimesLive, RuntimesUnique, StoppedLoaded, HasRuntime, Loaded, closed
  <1>10. LeasesServed' /\ TicksServed' /\ DeletesAlone' /\ NilEntries'
    <2>1. LeasesServed'
      BY <1>1, <1>2, <1>3, <1>4, <1>5, RegistryNames DEF Types, LeasesServed, HasRuntime, Holds
    <2>2. TicksServed'
      BY <1>1, <1>2, <1>3, <1>4, <1>5 DEF Types, Workers, TicksServed, HasRuntime
    <2>3. DeletesAlone'
      BY <1>1, <1>3, <1>5 DEF Types, DeletesAlone
    <2>4. NilEntries'
      <3>1. \A k \in Labs : entries'[k] = IF k = l THEN f ELSE entries[k]
        BY <1>1, <1>3 DEF Types
      <3>2. f.runtime # None
        BY <1>1, <1>4, RegistryNames
      <3> QED
        BY <3>1, <3>2 DEF NilEntries
    <2> QED
      BY <2>1, <2>2, <2>3, <2>4
  <1>11. Counted'
    <2> SUFFICES ASSUME NEW k \in Labs, entries'[k] # None
                 PROVE  entries'[k].refs = Leases(k)'
      BY DEF Counted
    <2>1. CASE k = l
      <3>1. Leases(k)' = Leases(k) + 1
        BY <2>1, <1>5, LeasesMore DEF Types, Holds, Ticking
      <3> QED
        BY <2>1, <3>1, <1>1, <1>3, <1>4, <1>5 DEF Types, Counted
    <2>2. CASE k # l
      <3>1. Leases(k)' = Leases(k)
        BY <2>2, <1>5, LeasesSame DEF Types, Holds, Ticking
      <3> QED
        BY <2>2, <3>1, <1>1, <1>3 DEF Types, Counted
    <2> QED
      BY <2>1, <2>2
  <1> QED
    BY <1>6, <1>7, <1>8, <1>9, <1>10, <1>11

(* A load begins where there is no runtime, and so nobody's lease.         *)
LEMMA BeginLoadKeeps ==
    ASSUME IInv, NEW r \in Requests, BeginLoad(r)
    PROVE  IInv'
  <1> USE DEF IInv, BeginLoad, Goto, closing, Places
  <1> DEFINE l == lab[r]
             f == Entry(r, None, 0, TRUE)
  <1>1. l \in Labs /\ ~HasRuntime(l) /\ ~busy(l)
    BY ResolvedHasLab DEF Types, busy, live, HasRuntime
  <1>2. f \in Entries /\ f # None
    <2>1. f \in Entries
      BY DEF Entry, Entries
    <2> QED
      BY <2>1, RegistryNames
  <1>3. entries' = [entries EXCEPT ![l] = f] /\ lab[r] = l
    OBVIOUS
  <1>4. f.owner = r /\ f.runtime = None /\ f.busy /\ f.refs = 0
    BY DEF Entry
  <1> HIDE DEF f, l
  <1>5. worker.step \in {"deleting", "evicting"} => worker.lab # l
    BY <1>1 DEF DeletesAlone, busy
  <1>6. Types'
    <2>1. entries' \in [Labs -> Entries \cup {None}]
      BY <1>1, <1>2, <1>3 DEF Types
    <2>2. pc' \in [Requests -> Places]
      BY DEF Types
    <2> QED
      BY <2>1, <2>2 DEF Types
  <1>7. Created' /\ Kept'
    BY DEF Types, Created, Kept
  <1>8. LoadsOwn'
    <2> SUFFICES ASSUME NEW q \in Requests, pc'[q] = "loading"
                 PROVE  /\ entries'[lab[q]] # None
                        /\ entries'[lab[q]].owner = q
                        /\ entries'[lab[q]].runtime = None /\ entries'[lab[q]].busy
      <3>1. lab' = lab
        OBVIOUS
      <3> HIDE DEF IInv, BeginLoad
      <3> QED
        BY <3>1 DEF LoadsOwn
    <2>1. CASE q = r
      <3>1. entries'[lab[q]] = f
        BY <2>1, <1>1, <1>3 DEF Types
      <3> QED
        BY <2>1, <3>1, <1>2, <1>4
    <2>2. CASE q # r
      <3>1. pc[q] = "loading" /\ lab[q] \in Labs
        BY <2>2, ResolvedHasLab DEF Types
      <3>2. lab[q] # l
        BY <3>1, <1>1 DEF LoadsOwn, busy
      <3> QED
        BY <3>1, <3>2, <1>1, <1>3 DEF Types, LoadsOwn
    <2> QED
      BY <2>1, <2>2
  <1>9. \A k \in Labs : HasRuntime(k)' => HasRuntime(k) /\ k # l /\ entries'[k] = entries[k]
    BY <1>1, <1>3, <1>4 DEF Types, HasRuntime
  <1>10. RuntimesLive' /\ RuntimesUnique' /\ StoppedLoaded'
    <2>1. \A q \in Requests : pc[q] \in Loaded => pc'[q] \in Loaded
      BY DEF Types, Loaded
    <2>2. \A k \in Labs : HasRuntime(k) => entries[k].runtime \in Requests
      BY DEF Types, Entries, HasRuntime
    <2>3. RuntimesLive'
      <3> SUFFICES ASSUME NEW k \in Labs, HasRuntime(k)'
                   PROVE  /\ pc'[entries'[k].runtime] \in Loaded
                          /\ row[k] = None => worker.step = "evicting" /\ worker.lab = k
                          /\ entries'[k].runtime \in stopped => closed
        BY DEF RuntimesLive, closed
      <3> QED
        BY <1>9, <2>1, <2>2 DEF RuntimesLive
    <2>4. RuntimesUnique'
      BY <1>9 DEF RuntimesUnique
    <2>5. StoppedLoaded'
      BY <2>1 DEF Types, StoppedLoaded
    <2> QED
      BY <2>3, <2>4, <2>5
  <1>11. LeasesServed' /\ TicksServed' /\ DeletesAlone' /\ NilEntries'
    <2>1. \A k \in Labs : HasRuntime(k) => HasRuntime(k)' /\ entries'[k] = entries[k]
      BY <1>1, <1>3 DEF Types, HasRuntime
    <2>2. \A q \in Requests, k \in Labs : Holds(q, k)' => Holds(q, k)
      BY DEF Types, Holds
    <2>3. LeasesServed'
      BY <2>1, <2>2 DEF LeasesServed
    <2>4. TicksServed'
      BY <2>1 DEF Types, Workers, TicksServed
    <2>5. DeletesAlone'
      BY <1>3, <1>5 DEF Types, DeletesAlone
    <2>6. NilEntries'
      BY <1>3, <1>4 DEF Types, NilEntries
    <2> QED
      BY <2>3, <2>4, <2>5, <2>6
  <1>12. Counted'
    <2> SUFFICES ASSUME NEW k \in Labs, entries'[k] # None
                 PROVE  entries'[k].refs = Leases(k)'
      BY DEF Counted
    <2>1. Leases(k)' = Leases(k)
      BY LeasesSame DEF Types, Holds, Ticking
    <2>2. CASE k = l
      <3>1. Leases(k) = 0
        BY <2>2, <1>1, NoLeases DEF LeasesServed, TicksServed, Ticking
      <3> QED
        BY <2>1, <2>2, <3>1, <1>3, <1>4 DEF Types
    <2>3. CASE k # l
      BY <2>1, <2>3, <1>3 DEF Types, Counted
    <2> QED
      BY <2>2, <2>3
  <1> QED
    BY <1>6, <1>7, <1>8, <1>10, <1>11, <1>12

(* A load that ends publishes its runtime in its own entry, which nobody   *)
(* used meanwhile, and is the first lease of it unless the registry was    *)
(* closed; waiters go back to the loop.                                    *)
LEMMA LoadDoneKeeps ==
    ASSUME IInv, NEW r \in Requests, LoadDone(r)
    PROVE  IInv'
  <1> USE DEF IInv, LoadDone, closing, Places
  <1> DEFINE l == lab[r]
             n == IF closed THEN 0 ELSE 1
             f == Entry(r, r, n, FALSE)
  <1>1. l \in Labs /\ entries[l] # None /\ entries[l].owner = r /\ ~HasRuntime(l)
    BY ResolvedHasLab DEF LoadsOwn, HasRuntime
  <1>2. f \in Entries /\ f # None
    <2>1. f \in Entries
      BY DEF Entry, Entries
    <2> QED
      BY <2>1, RegistryNames
  <1>3. entries' = [entries EXCEPT ![l] = f] /\ lab[r] = l /\ row[l] # None
    BY <1>1 DEF Types
  <1>4. f.owner = r /\ f.runtime = r /\ ~f.busy /\ f.refs = n
    BY DEF Entry
  <1>5. /\ pc' \in [Requests -> Places] /\ pc'[r] = IF closed THEN "done" ELSE "leased"
        /\ \A q \in Requests \ {r} :
             pc'[q] = IF pc[q] = "waiting" /\ lab[q] = l THEN "acquire" ELSE pc[q]
    BY DEF Types, Woken, Here
  <1>6. /\ closed => Over(r)
        /\ ~closed => lease' = [lease EXCEPT ![r] = r] /\ UNCHANGED <<lab, at>>
        /\ pc[r] = "loading" /\ UNCHANGED <<clock, row, used, worker, closing>>
    OBVIOUS
  <1> HIDE DEF f, n, l, LoadDone
  <1>7. worker.step \in {"deleting", "evicting"} => worker.lab # l
    BY <1>1, RegistryNames DEF DeletesAlone, HasRuntime
  <1>8. \A k \in Labs \ {l} : entries'[k] = entries[k]
    BY <1>1, <1>3 DEF Types
  <1>9. entries'[l] = f
    BY <1>1, <1>3 DEF Types
  <1>10. Types'
    <2>1. entries' \in [Labs -> Entries \cup {None}]
      BY <1>1, <1>2, <1>3 DEF Types
    <2>2. /\ lab' \in [Requests -> Labs \cup {None}] /\ at' \in [Requests -> Nat]
          /\ lease' \in [Requests -> Requests \cup {None}]
      BY <1>6 DEF Types, Over
    <2> QED
      BY <2>1, <2>2, <1>5, <1>6 DEF Types
  <1>11. Created'
    BY <1>3, <1>5, <1>6 DEF Types, Created, Over
  <1>12. Kept'
    BY <1>3, <1>5, <1>6 DEF Types, Kept, Over
  <1>13. LoadsOwn'
    <2> SUFFICES ASSUME NEW q \in Requests, pc'[q] = "loading"
                 PROVE  /\ entries'[lab'[q]] # None
                        /\ entries'[lab'[q]].owner = q
                        /\ entries'[lab'[q]].runtime = None /\ entries'[lab'[q]].busy
      BY DEF LoadsOwn
    <2>1. q # r /\ pc[q] = "loading"
      BY <1>5
    <2>2. lab'[q] = lab[q] /\ lab[q] \in Labs
      BY <2>1, <1>6, ResolvedHasLab DEF Types, Over
    <2>3. lab[q] # l
      BY <2>1, <1>1 DEF LoadsOwn
    <2>4. entries'[lab'[q]] = entries[lab[q]]
      BY <2>2, <2>3, <1>8
    <2> QED
      BY <2>1, <2>4 DEF LoadsOwn
  <1>14. RuntimesLive' /\ RuntimesUnique' /\ StoppedLoaded'
    <2>1. r \notin stopped /\ \A k \in Labs : HasRuntime(k) => entries[k].runtime # r
      BY <1>6 DEF RuntimesLive, StoppedLoaded, Loaded
    <2>2. \A q \in Requests : pc[q] \in Loaded => pc'[q] \in Loaded
      BY <1>5 DEF Loaded
    <2>3. pc'[r] \in Loaded
      BY <1>5 DEF Loaded
    <2>4. \A k \in Labs \ {l} : HasRuntime(k)' => HasRuntime(k) /\ entries'[k] = entries[k]
      BY <1>8 DEF HasRuntime
    <2>5. RuntimesLive'
      <3> SUFFICES ASSUME NEW k \in Labs, HasRuntime(k)'
                   PROVE  /\ pc'[entries'[k].runtime] \in Loaded
                          /\ row[k] = None => worker.step = "evicting" /\ worker.lab = k
                          /\ entries'[k].runtime \in stopped => closed
        BY <1>6 DEF RuntimesLive, closed
      <3>1. CASE k = l
        BY <3>1, <1>3, <1>4, <1>9, <2>1, <2>3
      <3>2. CASE k # l
        <4>1. HasRuntime(k) /\ entries'[k] = entries[k] /\ entries[k].runtime \in Requests
          BY <3>2, <2>4 DEF Types, Entries, HasRuntime
        <4> QED
          BY <4>1, <2>2 DEF RuntimesLive
      <3> QED
        BY <3>1, <3>2
    <2>6. RuntimesUnique'
      <3> SUFFICES ASSUME NEW j \in Labs, NEW k \in Labs, HasRuntime(j)', HasRuntime(k)',
                          entries'[j].runtime = entries'[k].runtime
                   PROVE  j = k
        BY DEF RuntimesUnique
      <3>1. CASE j # l /\ k # l
        BY <3>1, <2>4 DEF RuntimesUnique
      <3>2. CASE j = l \/ k = l
        BY <3>2, <2>1, <2>4, <1>4, <1>9
      <3> QED
        BY <3>1, <3>2
    <2>7. StoppedLoaded'
      BY <2>2, <1>6 DEF Types, StoppedLoaded
    <2> QED
      BY <2>5, <2>6, <2>7
  <1>15. LeasesServed' /\ TicksServed' /\ DeletesAlone' /\ NilEntries'
    <2>1. ASSUME NEW q \in Requests, NEW k \in Labs, Holds(q, k)'
          PROVE  HasRuntime(k)' /\ entries'[k].runtime = lease'[q]
      <3>1. CASE q = r
        <4>1. ~closed /\ k = l /\ lease'[r] = r
          BY <2>1, <3>1, <1>3, <1>5, <1>6 DEF Types, Holds
        <4> QED
          BY <3>1, <4>1, <1>2, <1>4, <1>9, RegistryNames DEF HasRuntime
      <3>2. CASE q # r
        <4>1. Holds(q, k) /\ lease'[q] = lease[q]
          BY <2>1, <3>2, <1>5, <1>6 DEF Types, Holds, Over
        <4>2. HasRuntime(k) /\ entries[k].runtime = lease[q]
          BY <4>1 DEF LeasesServed
        <4>3. k # l
          BY <4>2, <1>1
        <4> QED
          BY <4>1, <4>2, <4>3, <1>8 DEF HasRuntime
      <3> QED
        BY <3>1, <3>2
    <2>2. worker.step = "ticking" => \A k \in worker.todo : HasRuntime(k)'
      <3>1. worker.step = "ticking" => \A k \in worker.todo : k \in Labs \ {l} /\ HasRuntime(k)
        BY <1>1 DEF Types, Workers, TicksServed
      <3> QED
        BY <3>1, <1>8 DEF HasRuntime
    <2>3. DeletesAlone'
      BY <1>6, <1>7, <1>8 DEF DeletesAlone
    <2>4. NilEntries'
      BY <1>4, <1>8, <1>9, RegistryNames DEF NilEntries
    <2> QED
      BY <1>6, <2>1, <2>2, <2>3, <2>4 DEF LeasesServed, TicksServed
  <1>16. Counted'
    <2> SUFFICES ASSUME NEW k \in Labs, entries'[k] # None
                 PROVE  entries'[k].refs = Leases(k)'
      BY DEF Counted
    <2>1. \A q \in Requests \ {r} : Holds(q, k)' <=> Holds(q, k)
      BY <1>5, <1>6 DEF Types, Holds, Over
    <2>2. ~Holds(r, k) /\ (Ticking(k)' <=> Ticking(k))
      BY <1>6 DEF Holds, Ticking
    <2>3. CASE k # l
      <3>1. ~Holds(r, k)'
        BY <2>3, <1>3, <1>5, <1>6 DEF Types, Holds, Over
      <3>2. Leases(k)' = Leases(k)
        BY <2>1, <2>2, <3>1, LeasesSame
      <3> QED
        BY <2>3, <3>2, <1>8 DEF Counted
    <2>4. CASE k = l
      <3>1. Leases(k) = 0
        BY <2>4, <1>1, NoLeases DEF LeasesServed, TicksServed, Ticking
      <3>2. CASE closed
        <4>1. ~Holds(r, k)'
          BY <3>2, <1>5 DEF Holds
        <4>2. Leases(k)' = Leases(k)
          BY <2>1, <2>2, <4>1, LeasesSame
        <4>3. n = 0
          BY <3>2 DEF n
        <4> QED
          BY <2>4, <3>1, <4>2, <4>3, <1>4, <1>9
      <3>3. CASE ~closed
        <4>1. Holds(r, k)'
          BY <2>4, <3>3, <1>3, <1>5, <1>6 DEF Holds
        <4>2. Leases(k)' = Leases(k) + 1
          BY <2>1, <2>2, <4>1, LeasesMore
        <4>3. n = 1
          BY <3>3 DEF n
        <4> QED
          BY <2>4, <3>1, <4>2, <4>3, <1>4, <1>9
      <3> QED
        BY <3>2, <3>3
    <2> QED
      BY <2>3, <2>4
  <1> QED
    BY <1>10, <1>11, <1>12, <1>13, <1>14, <1>15, <1>16

(* A load that fails takes its own entry away, which nobody used.          *)
LEMMA LoadFailsKeeps ==
    ASSUME IInv, NEW r \in Requests, LoadFails(r)
    PROVE  IInv'
  <1> USE DEF IInv, closing, Places
  <1> DEFINE l == lab[r]
  <1>1. l \in Labs /\ entries[l].owner = r /\ ~HasRuntime(l)
    BY ResolvedHasLab DEF LoadFails, LoadsOwn, HasRuntime
  <1>2. /\ entries' = [entries EXCEPT ![l] = None]
        /\ pc[r] = "loading" /\ UNCHANGED <<clock, row, used, worker, closing>> /\ Over(r)
    BY DEF LoadFails
  <1>3. /\ pc' \in [Requests -> Places] /\ pc'[r] = "done"
        /\ \A q \in Requests \ {r} :
             pc'[q] = IF pc[q] = "waiting" /\ lab[q] = l THEN "acquire" ELSE pc[q]
    BY DEF LoadFails, Types, Woken, Here
  <1> HIDE DEF l
  <1>4. worker.step \in {"deleting", "evicting"} => worker.lab # l
    BY <1>1, RegistryNames DEF DeletesAlone, HasRuntime
  <1>5. entries'[l] = None /\ \A k \in Labs \ {l} : entries'[k] = entries[k]
    BY <1>1, <1>2 DEF Types
  <1>6. \A k \in Labs :
          HasRuntime(k)' <=> HasRuntime(k) /\ k # l /\ entries'[k] = entries[k]
    BY <1>1, <1>5 DEF HasRuntime
  <1>7. \A q \in Requests, k \in Labs : Holds(q, k)' <=> Holds(q, k)
    BY <1>2, <1>3 DEF Types, Holds, Over
  <1>8. \A q \in Requests : pc[q] \in Loaded => pc'[q] \in Loaded
    BY <1>3 DEF Loaded
  <1>9. \A k \in Labs : HasRuntime(k) => k # l
    BY <1>1
  <1>10. Types'
    BY <1>2, <1>3 DEF Types, Over
  <1>11. Created' /\ Kept'
    BY <1>2, <1>3 DEF Types, Created, Kept, Over
  <1>12. LoadsOwn'
    <2> SUFFICES ASSUME NEW q \in Requests, pc'[q] = "loading"
                 PROVE  /\ entries'[lab'[q]] # None
                        /\ entries'[lab'[q]].owner = q
                        /\ entries'[lab'[q]].runtime = None /\ entries'[lab'[q]].busy
      BY DEF LoadsOwn
    <2>1. q # r /\ pc[q] = "loading"
      BY <1>3
    <2>2. lab'[q] = lab[q] /\ lab[q] \in Labs
      BY <2>1, <1>2, ResolvedHasLab DEF Types, Over
    <2>3. lab[q] # l
      BY <2>1, <1>1 DEF LoadsOwn
    <2>4. entries'[lab'[q]] = entries[lab[q]]
      BY <2>2, <2>3, <1>5
    <2> QED
      BY <2>1, <2>4 DEF LoadsOwn
  <1>13. RuntimesLive' /\ RuntimesUnique' /\ StoppedLoaded'
    <2>1. \A k \in Labs : HasRuntime(k) => entries[k].runtime \in Requests
      BY DEF Types, Entries, HasRuntime
    <2>2. RuntimesLive'
      BY <1>2, <1>6, <1>8, <2>1 DEF RuntimesLive, closed
    <2>3. RuntimesUnique'
      BY <1>6 DEF RuntimesUnique
    <2>4. StoppedLoaded'
      BY <1>2, <1>8 DEF Types, StoppedLoaded
    <2> QED
      BY <2>2, <2>3, <2>4
  <1>14. LeasesServed' /\ TicksServed' /\ DeletesAlone' /\ NilEntries'
    <2>1. \A q \in Requests, k \in Labs : Holds(q, k)' => lease'[q] = lease[q]
      BY <1>2, <1>3 DEF Types, Holds, Over
    <2>2. LeasesServed'
      BY <1>5, <1>6, <1>7, <1>9, <2>1 DEF LeasesServed
    <2>3. TicksServed'
      BY <1>2, <1>5, <1>6, <1>9 DEF Types, Workers, TicksServed
    <2>4. DeletesAlone'
      BY <1>2, <1>4, <1>5 DEF DeletesAlone
    <2>5. NilEntries'
      BY <1>5 DEF NilEntries
    <2> QED
      BY <2>2, <2>3, <2>4, <2>5
  <1>15. Counted'
    <2>1. \A k \in Labs : Leases(k)' = Leases(k)
      BY <1>2, <1>7, LeasesSame DEF Ticking
    <2> QED
      BY <1>5, <2>1 DEF Counted
  <1> QED
    BY <1>10, <1>11, <1>12, <1>13, <1>14, <1>15

(* Unref finds the entry of the runtime and counts it down.                *)
LEMMA UnrefCountsDown ==
    ASSUME NEW l, entries[l] # None
    PROVE  Unref(l, entries[l].runtime) =
             [entries EXCEPT ![l] = [entries[l] EXCEPT !.refs = entries[l].refs - 1]]
  BY DEF Unref

(* A lease given back is taken off the entry it was counted in.            *)
LEMMA ReleaseKeeps ==
    ASSUME IInv, NEW r \in Requests, Release(r)
    PROVE  IInv'
  <1> USE DEF IInv, closing, Places
  <1> DEFINE l == lab[r]
             e == entries[l]
             f == [e EXCEPT !.refs = e.refs - 1]
  <1>1. l \in Labs /\ Holds(r, l)
    BY ResolvedHasLab DEF Release, Holds
  <1>2. e \in Entries /\ e # None /\ e.runtime = lease[r] /\ e.runtime # None
    BY <1>1 DEF Types, LeasesServed, HasRuntime
  <1>3. f \in Entries /\ f # None
    BY <1>2, EntriesType, RegistryNames DEF Entries
  <1>4. f.owner = e.owner /\ f.runtime = e.runtime /\ f.busy = e.busy /\ f.refs = e.refs - 1
    BY <1>2 DEF Entries
  <1>5. entries' = [entries EXCEPT ![l] = f]
    BY <1>2, UnrefCountsDown DEF Release
  <1>6. /\ pc' = [pc EXCEPT ![r] = "done"] /\ Over(r)
        /\ pc[r] \in {"leased", "serving"} /\ UNCHANGED <<clock, row, used, worker, closing>>
    BY DEF Release, TurnAway, Goto
  <1>7. entries'[l] = f /\ e = entries[l] /\ \A k \in Labs \ {l} : entries'[k] = entries[k]
    BY <1>1, <1>5 DEF Types
  <1> HIDE DEF f, e, l
  <1>8. \A k \in Labs :
          /\ HasRuntime(k)' <=> HasRuntime(k)
          /\ entries'[k] = None <=> entries[k] = None
          /\ entries[k] # None => /\ entries'[k].runtime = entries[k].runtime
                                  /\ entries'[k].owner = entries[k].owner
                                  /\ entries'[k].busy = entries[k].busy
    BY <1>2, <1>3, <1>4, <1>7 DEF HasRuntime
  <1>9. \A q \in Requests : pc[q] \in Loaded => pc'[q] \in Loaded
    BY <1>6 DEF Types, Loaded
  <1>10. \A q \in Requests \ {r}, k \in Labs : Holds(q, k)' <=> Holds(q, k)
    BY <1>6 DEF Types, Holds, Over
  <1>11. \A k \in Labs : ~Holds(r, k)' /\ (k # l => ~Holds(r, k))
    BY <1>6 DEF Types, Holds, l
  <1>12. Types'
    BY <1>1, <1>3, <1>5, <1>6 DEF Types, Over
  <1>13. Created' /\ Kept'
    BY <1>6 DEF Types, Created, Kept, Over
  <1>14. LoadsOwn'
    <2>1. \A q \in Requests : pc'[q] = "loading" =>
            pc[q] = "loading" /\ lab'[q] = lab[q] /\ lab[q] \in Labs
      BY <1>6, ResolvedHasLab DEF Types, Over
    <2> QED
      BY <2>1, <1>8 DEF LoadsOwn
  <1>15. RuntimesLive' /\ RuntimesUnique' /\ StoppedLoaded'
    <2>1. \A k \in Labs : HasRuntime(k) =>
            entries[k].runtime \in Requests /\ entries'[k].runtime = entries[k].runtime
      BY <1>8 DEF Types, Entries, HasRuntime
    <2>2. RuntimesLive'
      BY <1>6, <1>8, <1>9, <2>1 DEF RuntimesLive, closed
    <2>3. RuntimesUnique'
      BY <1>8, <2>1 DEF RuntimesUnique
    <2>4. StoppedLoaded'
      BY <1>6, <1>9 DEF Types, StoppedLoaded
    <2> QED
      BY <2>2, <2>3, <2>4
  <1>16. LeasesServed' /\ TicksServed' /\ DeletesAlone' /\ NilEntries'
    <2>1. LeasesServed'
      <3>1. \A q \in Requests, k \in Labs : Holds(q, k)' => Holds(q, k) /\ lease'[q] = lease[q]
        BY <1>6, <1>10, <1>11 DEF Types, Over
      <3> QED
        BY <3>1, <1>8 DEF LeasesServed, HasRuntime
    <2>2. TicksServed'
      BY <1>6, <1>8 DEF Types, Workers, TicksServed
    <2>3. worker.step \in {"deleting", "evicting"} => worker.lab # l
      BY <1>1, <1>2, NoLeases DEF DeletesAlone, Counted
    <2>4. DeletesAlone'
      BY <1>6, <1>7, <2>3 DEF DeletesAlone
    <2>5. NilEntries'
      BY <1>8 DEF NilEntries
    <2> QED
      BY <2>1, <2>2, <2>4, <2>5
  <1>17. Counted'
    <2> SUFFICES ASSUME NEW k \in Labs, entries'[k] # None
                 PROVE  entries'[k].refs = Leases(k)'
      BY DEF Counted
    <2>1. Ticking(k)' <=> Ticking(k)
      BY <1>6 DEF Ticking
    <2>2. CASE k = l
      <3>1. Leases(k)' = Leases(k) - 1
        BY <2>1, <2>2, <1>1, <1>10, <1>11, LeasesLess
      <3>2. e.refs = Leases(k)
        BY <2>2, <1>2, <1>7 DEF Counted
      <3> QED
        BY <2>2, <3>1, <3>2, <1>4, <1>7
    <2>3. CASE k # l
      <3>1. Leases(k)' = Leases(k)
        BY <2>1, <2>3, <1>10, <1>11, LeasesSame
      <3> QED
        BY <2>3, <3>1, <1>7 DEF Counted
    <2> QED
      BY <2>2, <2>3
  <1> QED
    BY <1>12, <1>13, <1>14, <1>15, <1>16, <1>17

-----------------------------------------------------------------------------
(* Steps of the worker                                                     *)

(* What follows one round of the worker: it ticks or sweeps on, or is at   *)
(* rest, with one laboratory fewer to go and none in deletion.             *)
LEMMA AfterOneGoesOn ==
    ASSUME IInv, NEW l \in Labs, NEW failed \in BOOLEAN, worker' = AfterOne(l, failed)
    PROVE  /\ worker' \in Workers /\ worker'.now <= clock
           /\ worker'.step = "ticking" => worker.step = "ticking"
           /\ worker'.step \notin {"deleting", "evicting"}
           /\ \A k \in Labs : Ticking(k)' <=> Ticking(k) /\ k # l
  <1> USE DEF IInv, Types, Created, Workers, AfterOne, Stopped, Idle
  <1>1. CASE worker.todo \ {l} # {}
    BY <1>1 DEF Ticking
  <1>2. CASE worker.todo \ {l} = {}
    <2>1. \A k \in Labs : Ticking(k) => k = l
      BY <1>2 DEF Ticking
    <2>2. worker' \in {Stopped, Idle}
      BY <1>2
    <2>3. Stopped \in Workers /\ Idle \in Workers /\ Stopped.now = 0 /\ Idle.now = 0
          /\ Stopped.step = "stopped" /\ Idle.step = "idle"
      OBVIOUS
    <2> HIDE DEF Stopped, Idle, AfterOne
    <2>4. /\ worker' \in Workers /\ worker'.now <= clock
          /\ worker'.step \in {"idle", "stopped"}
      BY <2>2, <2>3
    <2> QED
      BY <2>1, <2>4 DEF Ticking
  <1> QED
    BY <1>1, <1>2

(* The worker at rest, or about to look through laboratories, disturbs     *)
(* nobody.                                                                 *)
LEMMA WorkerMoves ==
    ASSUME IInv,
           \/ WorkerFails
           \/ \E now \in 0..clock : ExpiredLabs(now)
           \/ \E l \in Labs : SkipInUse(l)
    PROVE  IInv'
  <1> USE DEF IInv, requests, closing
  <1> DEFINE moved == /\ worker' \in Workers /\ worker'.now <= clock
                      /\ worker'.step \notin {"ticking", "deleting", "evicting"}
  <1>1. /\ UNCHANGED <<clock, row, used, entries, requests, closing>>
        /\ worker.step \notin {"ticking", "deleting", "evicting"}
        /\ moved
    <2>1. CASE WorkerFails
      <3>1. worker' = Stopped
        BY <2>1 DEF WorkerFails
      <3>2. Stopped \in Workers /\ Stopped.now = 0 /\ Stopped.step = "stopped"
        BY DEF Stopped, Idle, Workers
      <3>3. moved
        BY <3>1, <3>2 DEF Types
      <3> QED
        BY <2>1, <3>3 DEF WorkerFails
    <2>2. CASE \E now \in 0..clock : ExpiredLabs(now)
      <3>1. PICK now \in 0..clock : ExpiredLabs(now)
        BY <2>2
      <3>2. PICK expired \in SUBSET Labs :
              worker' = [Idle EXCEPT !.step = "sweeping", !.todo = expired, !.now = now]
        BY <3>1 DEF ExpiredLabs
      <3>3. now \in Nat /\ now <= clock
        BY DEF Types
      <3>4. moved
        BY <3>2, <3>3 DEF Workers, Idle
      <3> QED
        BY <3>1, <3>4 DEF ExpiredLabs
    <2>3. CASE \E l \in Labs : SkipInUse(l)
      <3>1. PICK l \in Labs : SkipInUse(l)
        BY <2>3
      <3>2. worker' = AfterOne(l, FALSE) /\ worker.step = "sweeping"
        BY <3>1 DEF SkipInUse
      <3>3. moved
        BY <3>2, AfterOneGoesOn
      <3> QED
        BY <3>1, <3>3 DEF SkipInUse
    <2> QED
      BY <2>1, <2>2, <2>3
  <1>2. Types' /\ Created' /\ Kept' /\ LoadsOwn'
    BY <1>1 DEF Types, Created, Kept, LoadsOwn
  <1>3. RuntimesLive' /\ RuntimesUnique' /\ StoppedLoaded'
    BY <1>1 DEF RuntimesLive, RuntimesUnique, StoppedLoaded, HasRuntime, closed
  <1>4. LeasesServed' /\ TicksServed' /\ DeletesAlone' /\ NilEntries'
    BY <1>1 DEF LeasesServed, TicksServed, DeletesAlone, NilEntries, HasRuntime, Holds
  <1>5. Counted'
    BY <1>1, LeasesSame DEF Counted, Holds, Ticking
  <1> QED
    BY <1>2, <1>3, <1>4, <1>5

(* The worker takes a lease of every runtime in memory.                    *)
LEMMA TickAllKeeps ==
    ASSUME IInv, TickAll
    PROVE  IInv'
  <1> USE DEF IInv, requests, closing
  <1> DEFINE ticked == {l \in Labs : live(l)}
  <1>1. /\ entries' = [l \in Labs |-> IF l \in ticked THEN [entries[l] EXCEPT !.refs = @ + 1]
                                      ELSE entries[l]]
        /\ worker' = [Idle EXCEPT !.step = "ticking", !.todo = ticked]
        /\ worker.step = "idle" /\ UNCHANGED <<clock, row, used, requests, closing>>
    BY DEF TickAll
  <1>2. \A k \in ticked : HasRuntime(k) /\ entries[k] \in Entries
    BY DEF live, HasRuntime, Types
  <1>3. \A k \in Labs :
          /\ k \in ticked => /\ entries'[k] \in Entries /\ entries'[k] # None
                             /\ entries'[k].refs = entries[k].refs + 1
                             /\ entries'[k].owner = entries[k].owner
                             /\ entries'[k].runtime = entries[k].runtime
                             /\ entries'[k].busy = entries[k].busy
          /\ k \notin ticked => entries'[k] = entries[k]
    <2> SUFFICES ASSUME NEW k \in ticked
                 PROVE  /\ entries'[k] \in Entries /\ entries'[k] # None
                        /\ entries'[k].refs = entries[k].refs + 1
                        /\ entries'[k].owner = entries[k].owner
                        /\ entries'[k].runtime = entries[k].runtime
                        /\ entries'[k].busy = entries[k].busy
      BY <1>1
    <2>1. entries'[k] = [entries[k] EXCEPT !.refs = entries[k].refs + 1]
      BY <1>1
    <2>2. entries[k] \in Entries /\ entries[k].refs + 1 \in Int
      BY <1>2 DEF Entries
    <2>3. entries'[k] \in Entries
      BY <2>1, <2>2, EntriesType
    <2> QED
      BY <2>1, <2>2, <2>3, RegistryNames DEF Entries
  <1>4. /\ worker' \in Workers /\ worker'.now = 0
        /\ worker'.step = "ticking" /\ worker'.todo = ticked
    BY <1>1 DEF Workers, Idle
  <1>5. ticked \in SUBSET Labs
    OBVIOUS
  <1> HIDE DEF ticked
  <1>6. \A k \in Labs :
          /\ HasRuntime(k)' <=> HasRuntime(k)
          /\ entries'[k] = None <=> entries[k] = None
          /\ entries[k] # None => /\ entries'[k].runtime = entries[k].runtime
                                  /\ entries'[k].owner = entries[k].owner
                                  /\ entries'[k].busy = entries[k].busy
    BY <1>2, <1>3 DEF HasRuntime
  <1>7. Types'
    <2>1. entries' \in [Labs -> Entries \cup {None}]
      BY <1>1, <1>3 DEF Types
    <2> QED
      BY <2>1, <1>1, <1>4 DEF Types
  <1>8. Created' /\ Kept'
    BY <1>1, <1>4 DEF Types, Created, Kept
  <1>9. LoadsOwn'
    BY <1>1, <1>6, ResolvedHasLab DEF LoadsOwn, Places
  <1>10. RuntimesLive' /\ RuntimesUnique' /\ StoppedLoaded'
    <2>1. \A k \in Labs : HasRuntime(k) => entries'[k].runtime = entries[k].runtime
      BY <1>6 DEF HasRuntime
    <2> QED
      BY <1>1, <1>6, <2>1 DEF RuntimesLive, RuntimesUnique, StoppedLoaded, closed
  <1>11. LeasesServed' /\ TicksServed' /\ DeletesAlone' /\ NilEntries'
    <2>1. LeasesServed'
      BY <1>1, <1>6 DEF LeasesServed, Holds, HasRuntime
    <2>2. TicksServed'
      BY <1>2, <1>4, <1>5, <1>6 DEF TicksServed
    <2>3. NilEntries'
      BY <1>6 DEF NilEntries
    <2> QED
      BY <1>4, <2>1, <2>2, <2>3 DEF DeletesAlone
  <1>12. Counted'
    <2> SUFFICES ASSUME NEW k \in Labs, entries'[k] # None
                 PROVE  entries'[k].refs = Leases(k)'
      BY DEF Counted
    <2>1. /\ \A r \in Requests : Holds(r, k)' <=> Holds(r, k)
          /\ ~Ticking(k) /\ (Ticking(k)' <=> k \in ticked)
      BY <1>1, <1>4 DEF Holds, Ticking
    <2>2. entries[k].refs = Leases(k)
      BY <1>6 DEF Counted
    <2>3. CASE k \in ticked
      <3>1. Leases(k)' = Leases(k) + 1
        BY <2>1, <2>3, WorkerLeases
      <3> QED
        BY <2>2, <2>3, <3>1, <1>3
    <2>4. CASE k \notin ticked
      <3>1. Leases(k)' = Leases(k)
        BY <2>1, <2>4, LeasesSame
      <3> QED
        BY <2>2, <2>4, <3>1, <1>3
    <2> QED
      BY <2>3, <2>4
  <1> QED
    BY <1>7, <1>8, <1>9, <1>10, <1>11, <1>12

(* A laboratory was ticked: the worker gives its lease back.               *)
LEMMA TickOneKeeps ==
    ASSUME IInv, NEW l \in Labs, TickOne(l)
    PROVE  IInv'
  <1> USE DEF IInv, requests, closing
  <1> DEFINE e == entries[l]
             f == [e EXCEPT !.refs = e.refs - 1]
  <1>1. /\ worker.step = "ticking" /\ Ticking(l)
        /\ UNCHANGED <<clock, row, used, requests, closing>>
    BY DEF TickOne, Ticking
  <1>2. e \in Entries /\ e # None /\ e.runtime # None
    BY <1>1 DEF Types, TicksServed, HasRuntime, Ticking
  <1>3. f \in Entries /\ f # None
    BY <1>2, EntriesType, RegistryNames DEF Entries
  <1>4. f.owner = e.owner /\ f.runtime = e.runtime /\ f.busy = e.busy /\ f.refs = e.refs - 1
    BY <1>2 DEF Entries
  <1>5. entries' = [entries EXCEPT ![l] = f]
    BY <1>2, UnrefCountsDown DEF TickOne
  <1>6. entries'[l] = f /\ e = entries[l] /\ \A k \in Labs \ {l} : entries'[k] = entries[k]
    BY <1>5 DEF Types
  <1>7. /\ worker' \in Workers /\ worker'.now <= clock
        /\ worker'.step \notin {"deleting", "evicting"}
        /\ \A k \in Labs : Ticking(k)' <=> Ticking(k) /\ k # l
    <2>1. PICK failed \in {worker.failed, TRUE} : worker' = AfterOne(l, failed)
      BY DEF TickOne
    <2>2. failed \in BOOLEAN
      BY DEF Types, Workers
    <2> QED
      BY <2>1, <2>2, AfterOneGoesOn
  <1> HIDE DEF f, e
  <1>8. \A k \in Labs :
          /\ HasRuntime(k)' <=> HasRuntime(k)
          /\ entries'[k] = None <=> entries[k] = None
          /\ entries[k] # None => /\ entries'[k].runtime = entries[k].runtime
                                  /\ entries'[k].owner = entries[k].owner
                                  /\ entries'[k].busy = entries[k].busy
    BY <1>2, <1>3, <1>4, <1>6 DEF HasRuntime
  <1>9. Types'
    BY <1>1, <1>3, <1>5, <1>7 DEF Types
  <1>10. Created' /\ Kept'
    BY <1>1, <1>7 DEF Types, Created, Kept
  <1>11. LoadsOwn'
    BY <1>1, <1>8, ResolvedHasLab DEF LoadsOwn, Places
  <1>12. RuntimesLive' /\ RuntimesUnique' /\ StoppedLoaded'
    <2>1. \A k \in Labs : HasRuntime(k) => entries'[k].runtime = entries[k].runtime
      BY <1>8 DEF HasRuntime
    <2> QED
      BY <1>1, <1>8, <2>1 DEF RuntimesLive, RuntimesUnique, StoppedLoaded, closed
  <1>13. LeasesServed' /\ TicksServed' /\ DeletesAlone' /\ NilEntries'
    <2>1. LeasesServed'
      BY <1>1, <1>8 DEF LeasesServed, Holds, HasRuntime
    <2>2. TicksServed'
      BY <1>1, <1>7, <1>8 DEF Types, Workers, TicksServed, Ticking
    <2>3. NilEntries'
      BY <1>8 DEF NilEntries
    <2> QED
      BY <1>7, <2>1, <2>2, <2>3 DEF DeletesAlone
  <1>14. Counted'
    <2> SUFFICES ASSUME NEW k \in Labs, entries'[k] # None
                 PROVE  entries'[k].refs = Leases(k)'
      BY DEF Counted
    <2>1. \A r \in Requests : Holds(r, k)' <=> Holds(r, k)
      BY <1>1 DEF Holds
    <2>2. entries[k].refs = Leases(k)
      BY <1>8 DEF Counted
    <2>3. CASE k = l
      <3>1. Leases(k)' = Leases(k) - 1
        BY <2>1, <2>3, <1>1, <1>7, WorkerLeases
      <3> QED
        BY <2>2, <2>3, <3>1, <1>4, <1>6
    <2>4. CASE k # l
      <3>1. Leases(k)' = Leases(k)
        BY <2>1, <2>4, <1>7, LeasesSame
      <3> QED
        BY <2>2, <2>4, <3>1, <1>6
    <2> QED
      BY <2>3, <2>4
  <1> QED
    BY <1>9, <1>10, <1>11, <1>12, <1>13, <1>14

(* Only a laboratory that nobody uses or loads is shut for deletion.       *)
LEMMA DeleteIfIdleKeeps ==
    ASSUME IInv, NEW l \in Labs, DeleteIfIdle(l)
    PROVE  IInv'
  <1> USE DEF IInv, requests, closing
  <1> DEFINE e == entries[l]
             f == IF e = None THEN Entry(Worker, None, 0, TRUE) ELSE [e EXCEPT !.busy = TRUE]
  <1>1. /\ worker.step = "sweeping" /\ UNCHANGED <<clock, row, used, requests, closing>>
        /\ e # None => e.refs = 0 /\ ~e.busy
        /\ worker' = [worker EXCEPT !.step = "deleting", !.lab = l]
    BY DEF DeleteIfIdle, IsIdle
  <1>2. e # None => e \in Entries
    BY DEF Types
  <1>3. f \in Entries
    <2>1. Entry(Worker, None, 0, TRUE) \in Entries
      BY DEF Entry, Entries
    <2> QED
      BY <2>1, <1>2, EntriesType
  <1>4. /\ f # None /\ f.refs = 0 /\ f.busy
        /\ e = None => f.owner = Worker /\ f.runtime = None
        /\ e # None => f.owner = e.owner /\ f.runtime = e.runtime
    <2>1. f # None
      BY <1>3, RegistryNames
    <2>2. CASE e = None
      BY <2>1, <2>2 DEF Entry
    <2>3. CASE e # None
      BY <2>1, <2>3, <1>1, <1>2 DEF Entries
    <2> QED
      BY <2>2, <2>3
  <1>5. /\ entries' = [entries EXCEPT ![l] = f]
        /\ entries'[l] = f /\ e = entries[l] /\ \A k \in Labs \ {l} : entries'[k] = entries[k]
    BY DEF DeleteIfIdle, Types
  <1>6. /\ worker' \in Workers /\ worker'.now <= clock
        /\ worker'.step = "deleting" /\ worker'.lab = l
    BY <1>1 DEF Types, Created, Workers
  <1> HIDE DEF f, e
  <1>7. \A k \in Labs :
          /\ HasRuntime(k)' <=> HasRuntime(k)
          /\ HasRuntime(k) => entries'[k].runtime = entries[k].runtime
    BY <1>4, <1>5 DEF HasRuntime
  <1>8. Types'
    BY <1>1, <1>3, <1>5, <1>6 DEF Types
  <1>9. Created' /\ Kept'
    BY <1>1, <1>6 DEF Types, Created, Kept
  <1>10. LoadsOwn'
    <2> SUFFICES ASSUME NEW q \in Requests, pc[q] = "loading"
                 PROVE  /\ entries'[lab[q]] # None
                        /\ entries'[lab[q]].owner = q
                        /\ entries'[lab[q]].runtime = None /\ entries'[lab[q]].busy
      BY <1>1 DEF LoadsOwn
    <2>1. lab[q] \in Labs /\ lab[q] # l
      BY <1>1, <1>5, ResolvedHasLab DEF LoadsOwn, Places
    <2> QED
      BY <2>1, <1>5 DEF LoadsOwn
  <1>11. RuntimesLive' /\ RuntimesUnique' /\ StoppedLoaded'
    BY <1>1, <1>7 DEF RuntimesLive, RuntimesUnique, StoppedLoaded, closed
  <1>12. LeasesServed' /\ TicksServed' /\ DeletesAlone' /\ NilEntries'
    <2>1. LeasesServed'
      BY <1>1, <1>7 DEF LeasesServed, Holds
    <2>2. entries'[l].owner = Worker \/ entries'[l].runtime # None
      <3>1. CASE e = None
        BY <3>1, <1>4, <1>5
      <3>2. CASE e # None /\ e.runtime # None
        BY <3>2, <1>4, <1>5
      <3>3. CASE e # None /\ e.runtime = None
        BY <3>3, <1>1, <1>4, <1>5 DEF NilEntries
      <3> QED
        BY <3>1, <3>2, <3>3
    <2>3. DeletesAlone'
      BY <1>4, <1>5, <1>6, <2>2 DEF DeletesAlone
    <2>4. NilEntries'
      BY <1>4, <1>5 DEF NilEntries
    <2> QED
      BY <1>6, <2>1, <2>3, <2>4 DEF TicksServed
  <1>13. Counted'
    <2> SUFFICES ASSUME NEW k \in Labs, entries'[k] # None
                 PROVE  entries'[k].refs = Leases(k)'
      BY DEF Counted
    <2>1. Leases(k)' = Leases(k)
      BY <1>1, <1>6, LeasesSame DEF Holds, Ticking
    <2>2. CASE k = l
      <3>1. Leases(k) = 0
        <4>1. CASE e = None
          BY <2>2, <4>1, <1>1, <1>5, NoLeases DEF LeasesServed, HasRuntime, Ticking
        <4>2. CASE e # None
          BY <2>2, <4>2, <1>1, <1>5 DEF Counted
        <4> QED
          BY <4>1, <4>2
      <3> QED
        BY <2>1, <2>2, <3>1, <1>4, <1>5
    <2>3. CASE k # l
      BY <2>1, <2>3, <1>5 DEF Counted
    <2> QED
      BY <2>2, <2>3
  <1> QED
    BY <1>8, <1>9, <1>10, <1>11, <1>12, <1>13

(* The row goes of a laboratory that nobody uses, and only once it has     *)
(* expired by the worker's instant, which is not ahead of the clock.       *)
LEMMA DeleteExpiredLabKeeps ==
    ASSUME IInv, DeleteExpiredLab
    PROVE  IInv'
  <1> USE DEF IInv, requests, closing
  <1> DEFINE l == worker.lab
  <1>1. /\ worker.step = "deleting" /\ UNCHANGED <<clock, used, entries, requests, closing>>
        /\ worker' = [worker EXCEPT !.step = "evicting"]
    BY DEF DeleteExpiredLab
  <1>2. l \in Labs
    BY <1>1 DEF DeletesAlone
  <1>3. /\ row' \in [Labs -> Rows \cup {None}]
        /\ \A k \in Labs \ {l} : row'[k] = row[k]
        /\ row'[l] = row[l] \/ (row'[l] = None /\ row[l] # None /\ row[l].lab <= worker.now)
    BY <1>2 DEF DeleteExpiredLab, Types
  <1>4. /\ worker' \in Workers /\ worker'.now = worker.now
        /\ worker'.step = "evicting" /\ worker'.lab = l
    BY <1>1 DEF Types, Workers
  <1> HIDE DEF l
  <1>5. worker.lab = l
    BY DEF l
  <1>6. Types'
    BY <1>1, <1>3, <1>4 DEF Types
  <1>7. Created'
    BY <1>1, <1>3, <1>4 DEF Types, Created
  <1>8. Kept'
    <2> SUFFICES ASSUME NEW q \in Requests, pc[q] \in {"acquire", "waiting", "loading"}
                 PROVE  IF row'[lab[q]] = None THEN clock - at[q] > Left
                        ELSE row'[lab[q]].lab > at[q] + Left
      BY <1>1 DEF Kept
    <2>1. lab[q] \in Labs
      BY ResolvedHasLab DEF Places
    <2>2. CASE row'[lab[q]] = row[lab[q]]
      BY <2>2 DEF Kept
    <2>3. CASE row'[lab[q]] # row[lab[q]]
      <3>1. lab[q] = l /\ row'[l] = None /\ row[l] # None /\ row[l].lab <= worker.now
        BY <2>1, <2>3, <1>3
      <3>2. row[l] \in Rows /\ row[l].lab > at[q] + Left
        BY <3>1, <1>2 DEF Types, Kept
      <3>3. clock \in Nat /\ at[q] \in Nat /\ worker.now \in Nat /\ worker.now <= clock
        BY DEF Types, Created, Workers
      <3>4. row[l].lab \in Nat
        BY <3>2 DEF Rows
      <3>5. clock - at[q] > Left
        BY <3>1, <3>2, <3>3, <3>4, RegistryConfig DEF Left
      <3> QED
        BY <3>1, <3>5
    <2> QED
      BY <2>2, <2>3
  <1>9. LoadsOwn' /\ NilEntries' /\ LeasesServed' /\ RuntimesUnique' /\ StoppedLoaded'
    BY <1>1 DEF LoadsOwn, NilEntries, LeasesServed, RuntimesUnique, StoppedLoaded, Holds, HasRuntime
  <1>10. RuntimesLive'
    BY <1>1, <1>3, <1>4 DEF RuntimesLive, HasRuntime, closed
  <1>11. TicksServed' /\ DeletesAlone'
    BY <1>1, <1>4, <1>5 DEF TicksServed, DeletesAlone
  <1>12. Counted'
    BY <1>1, <1>4, LeasesSame DEF Counted, Holds, Ticking
  <1> QED
    BY <1>6, <1>7, <1>8, <1>9, <1>10, <1>11, <1>12

(* A failed deletion opens the gate again; the row is still there.         *)
LEMMA DeleteFailsKeeps ==
    ASSUME IInv, DeleteFails
    PROVE  IInv'
  <1> USE DEF IInv, closing, Places
  <1> DEFINE l == worker.lab
             e == entries[l]
             f == [e EXCEPT !.busy = FALSE]
  <1>1. worker.step = "deleting" /\ UNCHANGED <<clock, row, used, lab, at, lease, closing>>
    BY DEF DeleteFails
  <1>2. l \in Labs /\ e \in Entries /\ e # None /\ (e.owner = Worker \/ e.runtime # None) /\ e.busy
    BY <1>1 DEF DeletesAlone, Types
  <1>3. f \in Entries /\ f # None
    BY <1>2, EntriesType, RegistryNames
  <1>4. f.owner = e.owner /\ f.runtime = e.runtime /\ f.refs = e.refs
    BY <1>2 DEF Entries
  <1>5. /\ entries' = [entries EXCEPT ![l] = f]
        /\ entries'[l] = f /\ e = entries[l] /\ \A k \in Labs \ {l} : entries'[k] = entries[k]
    BY <1>2 DEF DeleteFails, Types
  <1>6. /\ pc' \in [Requests -> Places]
        /\ \A q \in Requests :
             pc'[q] = IF pc[q] = "waiting" /\ lab[q] = l THEN "acquire" ELSE pc[q]
    BY DEF DeleteFails, Types, Woken
  <1>7. worker' \in Workers /\ worker'.now = 0 /\ worker'.step = "stopped"
    BY DEF DeleteFails, Stopped, Idle, Workers
  <1> HIDE DEF f, e, l
  <1>8. \A k \in Labs :
          /\ HasRuntime(k)' <=> HasRuntime(k)
          /\ HasRuntime(k) => entries'[k].runtime = entries[k].runtime
    BY <1>2, <1>3, <1>4, <1>5 DEF HasRuntime
  <1>9. \A q \in Requests, k \in Labs : Holds(q, k)' <=> Holds(q, k)
    BY <1>1, <1>6 DEF Holds
  <1>10. Types'
    BY <1>1, <1>2, <1>3, <1>5, <1>6, <1>7 DEF Types
  <1>11. Created' /\ Kept'
    <2>1. Created'
      BY <1>1, <1>6, <1>7 DEF Types, Created
    <2>2. Kept'
      BY <1>1, <1>6 DEF Kept
    <2> QED
      BY <2>1, <2>2
  <1>12. LoadsOwn'
    <2> SUFFICES ASSUME NEW q \in Requests, pc'[q] = "loading"
                 PROVE  /\ entries'[lab[q]] # None
                        /\ entries'[lab[q]].owner = q
                        /\ entries'[lab[q]].runtime = None /\ entries'[lab[q]].busy
      BY <1>1 DEF LoadsOwn
    <2>1. pc[q] = "loading"
      BY <1>6
    <2>2. lab[q] \in Labs /\ lab[q] # l
      BY <2>1, <1>2, <1>5, RegistryNames, ResolvedHasLab DEF LoadsOwn
    <2> QED
      BY <2>1, <2>2, <1>5 DEF LoadsOwn
  <1>13. RuntimesLive' /\ RuntimesUnique' /\ StoppedLoaded'
    <2>1. \A q \in Requests : pc[q] \in Loaded => pc'[q] \in Loaded
      BY <1>6 DEF Loaded
    <2>2. \A k \in Labs : HasRuntime(k) => entries[k].runtime \in Requests
      BY DEF Types, Entries, HasRuntime
    <2>3. RuntimesLive'
      BY <1>1, <1>8, <2>1, <2>2 DEF RuntimesLive, closed
    <2>4. RuntimesUnique' /\ StoppedLoaded'
      BY <1>1, <1>8, <2>1 DEF Types, RuntimesUnique, StoppedLoaded
    <2> QED
      BY <2>3, <2>4
  <1>14. LeasesServed' /\ TicksServed' /\ DeletesAlone' /\ NilEntries'
    <2>1. LeasesServed'
      BY <1>1, <1>8, <1>9 DEF LeasesServed
    <2>2. NilEntries'
      BY <1>2, <1>4, <1>5 DEF NilEntries
    <2> QED
      BY <1>7, <2>1, <2>2 DEF TicksServed, DeletesAlone
  <1>15. Counted'
    <2> SUFFICES ASSUME NEW k \in Labs, entries'[k] # None
                 PROVE  entries'[k].refs = Leases(k)'
      BY DEF Counted
    <2>1. Leases(k)' = Leases(k)
      BY <1>1, <1>7, <1>9, LeasesSame DEF Ticking
    <2> QED
      BY <2>1, <1>2, <1>4, <1>5 DEF Counted
  <1> QED
    BY <1>10, <1>11, <1>12, <1>13, <1>14, <1>15

(* An eviction stops the runtime of a laboratory that nobody uses; no      *)
(* other entry has that runtime.                                           *)
LEMMA EvictKeeps ==
    ASSUME IInv, Evict
    PROVE  IInv'
  <1> USE DEF IInv, closing, Places
  <1> DEFINE l == worker.lab
  <1>1. worker.step = "evicting" /\ UNCHANGED <<clock, row, used, lab, at, lease, closer, toClose>>
    BY DEF Evict
  <1>2. /\ l \in Labs /\ entries[l] # None /\ entries[l].refs = 0
        /\ entries[l].owner = Worker \/ entries[l].runtime # None
    BY <1>1 DEF DeletesAlone
  <1>3. /\ entries' = [entries EXCEPT ![l] = None]
        /\ stopped' = stopped \cup ({entries[l].runtime} \ {None})
    BY DEF Evict
  <1>4. entries'[l] = None /\ \A k \in Labs \ {l} : entries'[k] = entries[k]
    BY <1>2, <1>3 DEF Types
  <1>5. /\ pc' \in [Requests -> Places]
        /\ \A q \in Requests :
             pc'[q] = IF pc[q] = "waiting" /\ lab[q] = l THEN "acquire" ELSE pc[q]
    BY DEF Evict, Types, Woken
  <1>6. /\ worker' \in Workers /\ worker'.now <= clock
        /\ worker'.step \notin {"ticking", "deleting", "evicting"}
    BY <1>1, <1>2, AfterOneGoesOn DEF Evict
  <1> HIDE DEF l
  <1>7. \A k \in Labs :
          HasRuntime(k)' <=> HasRuntime(k) /\ k # l /\ entries'[k] = entries[k]
    BY <1>2, <1>4 DEF HasRuntime
  <1>8. \A q \in Requests, k \in Labs : Holds(q, k)' <=> Holds(q, k)
    BY <1>1, <1>5 DEF Holds
  <1>9. \A q \in Requests : ~Holds(q, l)
    BY <1>2, NoLeases DEF Counted
  <1>10. \A k \in Labs : HasRuntime(k) => entries[k].runtime \in Requests
    BY DEF Types, Entries, HasRuntime
  <1>11. Types'
    <2>1. entries' \in [Labs -> Entries \cup {None}]
      BY <1>3 DEF Types
    <2>2. stopped' \in SUBSET Requests
      BY <1>2, <1>3, <1>10 DEF Types, HasRuntime
    <2> QED
      BY <1>1, <1>5, <1>6, <2>1, <2>2 DEF Types
  <1>12. Created' /\ Kept'
    <2>1. Created'
      BY <1>1, <1>5, <1>6 DEF Types, Created
    <2>2. Kept'
      BY <1>1, <1>5 DEF Kept
    <2> QED
      BY <2>1, <2>2
  <1>13. LoadsOwn'
    <2> SUFFICES ASSUME NEW q \in Requests, pc'[q] = "loading"
                 PROVE  /\ entries'[lab[q]] # None
                        /\ entries'[lab[q]].owner = q
                        /\ entries'[lab[q]].runtime = None /\ entries'[lab[q]].busy
      BY <1>1 DEF LoadsOwn
    <2>1. pc[q] = "loading"
      BY <1>5
    <2>2. lab[q] \in Labs /\ lab[q] # l
      BY <2>1, <1>2, RegistryNames, ResolvedHasLab DEF LoadsOwn
    <2> QED
      BY <2>1, <2>2, <1>4 DEF LoadsOwn
  <1>14. RuntimesLive' /\ RuntimesUnique' /\ StoppedLoaded'
    <2>1. \A q \in Requests : pc[q] \in Loaded => pc'[q] \in Loaded
      BY <1>5 DEF Loaded
    <2>2. \A k \in Labs : HasRuntime(k)' => (entries'[k].runtime \in stopped' =>
                                               entries'[k].runtime \in stopped)
      BY <1>2, <1>3, <1>7 DEF RuntimesUnique, HasRuntime
    <2>3. RuntimesLive'
      <3> SUFFICES ASSUME NEW k \in Labs, HasRuntime(k)'
                   PROVE  /\ pc'[entries'[k].runtime] \in Loaded
                          /\ row[k] # None
                          /\ entries'[k].runtime \in stopped' => closed
        BY <1>1 DEF RuntimesLive, closed
      <3>1. HasRuntime(k) /\ k # worker.lab /\ entries'[k] = entries[k]
        BY <1>7 DEF l
      <3> QED
        BY <3>1, <2>1, <2>2, <1>10 DEF RuntimesLive
    <2>4. RuntimesUnique'
      BY <1>7 DEF RuntimesUnique
    <2>5. StoppedLoaded'
      <3>1. entries[l].runtime # None => pc[entries[l].runtime] \in Loaded
                                           /\ entries[l].runtime \in Requests
        BY <1>2, <1>10 DEF RuntimesLive, HasRuntime
      <3> QED
        BY <1>1, <1>3, <2>1, <3>1 DEF Types, StoppedLoaded
    <2> QED
      BY <2>3, <2>4, <2>5
  <1>15. LeasesServed' /\ TicksServed' /\ DeletesAlone' /\ NilEntries'
    <2>1. LeasesServed'
      BY <1>1, <1>4, <1>7, <1>8, <1>9 DEF LeasesServed
    <2>2. NilEntries'
      BY <1>4 DEF NilEntries
    <2> QED
      BY <1>6, <2>1, <2>2 DEF TicksServed, DeletesAlone
  <1>16. Counted'
    <2>1. \A k \in Labs : Leases(k)' = Leases(k)
      BY <1>1, <1>6, <1>8, LeasesSame DEF Ticking
    <2> QED
      BY <1>4, <2>1 DEF Counted
  <1> QED
    BY <1>11, <1>12, <1>13, <1>14, <1>15, <1>16

-----------------------------------------------------------------------------
(* Close, the clock, and the whole                                         *)

(* Closing stops hubs only of a registry that is closed.                   *)
LEMMA ClosingKeeps ==
    ASSUME IInv, Close \/ CloseHubs
    PROVE  IInv'
  <1> USE DEF IInv, requests
  <1>1. /\ UNCHANGED <<clock, row, used, entries, requests, worker>>
        /\ closer' \in {"open", "draining", "closing", "closed"} /\ (closed => closed')
    BY DEF Close, CloseHubs, Collect, CloseHub, HubClosed, CloseReturns, closed, Types
  <1>2. runtimes \in SUBSET Requests
    BY DEF runtimes, Types, Entries
  <1>3. /\ toClose' \in SUBSET Requests /\ stopped' \in SUBSET Requests
        /\ stopped \subseteq stopped'
        /\ toClose' # {} => closer' = "closing"
        /\ stopped' # stopped => closed
    <2>1. CASE Close \/ CloseReturns
      BY <2>1 DEF Close, CloseReturns, Types, StoppedLoaded
    <2>2. CASE Collect
      BY <2>2, <1>2 DEF Collect, Types
    <2>3. CASE \E runtime \in Requests : CloseHub(runtime) \/ HubClosed(runtime)
      BY <2>3 DEF CloseHub, HubClosed, Types, StoppedLoaded, closed
    <2> QED
      BY <2>1, <2>2, <2>3 DEF CloseHubs
  <1>4. Types' /\ Created' /\ Kept' /\ LoadsOwn'
    BY <1>1, <1>3 DEF Types, Created, Kept, LoadsOwn
  <1>5. RuntimesLive' /\ RuntimesUnique' /\ NilEntries'
    BY <1>1, <1>3 DEF RuntimesLive, RuntimesUnique, NilEntries, HasRuntime
  <1>6. StoppedLoaded'
    <2>1. stopped' \cup toClose' \subseteq stopped \cup toClose \cup runtimes
      BY DEF Close, CloseHubs, Collect, CloseHub, HubClosed, CloseReturns
    <2>2. \A runtime \in runtimes : pc[runtime] \in Loaded
      BY DEF runtimes, RuntimesLive, HasRuntime
    <2>3. \A runtime \in stopped' \cup toClose' : pc[runtime] \in Loaded
      BY <2>1, <2>2 DEF StoppedLoaded
    <2> QED
      BY <1>1, <1>3, <2>3 DEF StoppedLoaded
  <1>7. LeasesServed' /\ TicksServed' /\ DeletesAlone'
    BY <1>1 DEF LeasesServed, TicksServed, DeletesAlone, HasRuntime, Holds
  <1>8. Counted'
    BY <1>1, LeasesSame DEF Counted, Holds, Ticking
  <1> QED
    BY <1>4, <1>5, <1>6, <1>7, <1>8

(* Time passes: what was too late stays too late.                          *)
LEMMA AdvanceKeeps ==
    ASSUME IInv, Advance
    PROVE  IInv'
  <1> USE DEF IInv, Advance, requests, closing
  <1>1. Types' /\ LoadsOwn' /\ NilEntries' /\ RuntimesUnique' /\ StoppedLoaded'
    BY DEF Types, LoadsOwn, NilEntries, RuntimesUnique, StoppedLoaded, HasRuntime
  <1>2. Created'
    BY DEF Types, Created, Workers
  <1>3. Kept'
    <2> SUFFICES ASSUME NEW q \in Requests, pc[q] \in {"acquire", "waiting", "loading"},
                        row[lab[q]] = None
                 PROVE  clock' - at[q] > Left
      BY DEF Kept
    <2>1. clock - at[q] > Left /\ clock' = clock + 1 /\ clock \in Nat /\ at[q] \in Nat
      BY DEF Kept, Types
    <2> QED
      BY <2>1, RegistryConfig DEF Left
  <1>4. RuntimesLive' /\ LeasesServed' /\ TicksServed' /\ DeletesAlone'
    BY DEF RuntimesLive, LeasesServed, TicksServed, DeletesAlone, Holds, HasRuntime, closed
  <1>5. Counted'
    BY LeasesSame DEF Counted, Holds, Ticking
  <1> QED
    BY <1>1, <1>2, <1>3, <1>4, <1>5

(* Nothing that the invariant speaks of changes.                           *)
LEMMA StutterKeeps ==
    ASSUME IInv, UNCHANGED vars
    PROVE  IInv'
  <1> USE DEF IInv, vars, requests, closing
  <1>1. Types' /\ LoadsOwn' /\ NilEntries' /\ RuntimesUnique' /\ StoppedLoaded'
    BY DEF Types, LoadsOwn, NilEntries, RuntimesUnique, StoppedLoaded, HasRuntime
  <1>2. Created' /\ Kept'
    BY DEF Created, Kept
  <1>3. RuntimesLive' /\ LeasesServed' /\ TicksServed' /\ DeletesAlone'
    BY DEF RuntimesLive, LeasesServed, TicksServed, DeletesAlone, Holds, HasRuntime, closed
  <1>4. Counted'
    BY LeasesSame DEF Counted, Holds, Ticking
  <1> QED
    BY <1>1, <1>2, <1>3, <1>4

(* An empty registry over an empty store has nothing to get wrong.         *)
LEMMA InitHolds == Init => IInv
  <1> SUFFICES ASSUME Init
               PROVE  IInv
    OBVIOUS
  <1> USE RegistryNames DEF Init
  <1>1. Types
    BY RegistryConfig DEF Types, Places, Workers, Idle
  <1>2. Created /\ Kept
    BY RegistryConfig DEF Created, Kept, Places, Idle
  <1>3. \A l \in Labs : entries[l] = None
    OBVIOUS
  <1>4. LoadsOwn /\ RuntimesLive /\ RuntimesUnique /\ StoppedLoaded
    BY <1>3 DEF LoadsOwn, RuntimesLive, RuntimesUnique, StoppedLoaded, HasRuntime
  <1>5. LeasesServed /\ TicksServed /\ DeletesAlone /\ NilEntries /\ Counted
    BY <1>3 DEF LeasesServed, TicksServed, DeletesAlone, NilEntries, Counted, Holds, Idle
  <1> QED
    BY <1>1, <1>2, <1>4, <1>5 DEF IInv

(* Every step of a request keeps the invariant.                            *)
LEMMA RequestKeeps ==
    ASSUME IInv, NEW r \in Requests, Request(r)
    PROVE  IInv'
  BY RequestMoves, ResolveSessionKeeps, CreateSessionKeeps, BeginHandlerKeeps, LeaseLiveKeeps,
     BeginLoadKeeps, LoadDoneKeeps, LoadFailsKeeps, ReleaseKeeps
  DEF Request, Acquire

(* Every step of the worker does.                                          *)
LEMMA RunWorkerKeeps ==
    ASSUME IInv, RunWorker
    PROVE  IInv'
  BY WorkerMoves, TickAllKeeps, TickOneKeeps, DeleteIfIdleKeeps, DeleteExpiredLabKeeps,
     DeleteFailsKeeps, EvictKeeps
  DEF RunWorker, WorkerRound, Sweep

(* And so does every step at all.                                          *)
LEMMA StepKeeps == IInv /\ (AnyStep \/ UNCHANGED vars) => IInv'
  <1> SUFFICES ASSUME IInv, AnyStep \/ UNCHANGED vars
               PROVE  IInv'
    OBVIOUS
  <1>1. CASE Advance
    BY <1>1, AdvanceKeeps
  <1>2. CASE RunWorker
    BY <1>2, RunWorkerKeeps
  <1>3. CASE \E r \in Requests : Request(r)
    BY <1>3, RequestKeeps
  <1>4. CASE \E r \in Requests : RefuseClosed(r)
    BY <1>4, RequestMoves
  <1>5. CASE Close \/ CloseHubs
    BY <1>5, ClosingKeeps
  <1>6. CASE Quiescent \/ UNCHANGED vars
    BY <1>6, StutterKeeps DEF Quiescent
  <1> QED
    BY <1>1, <1>2, <1>3, <1>4, <1>5, <1>6 DEF AnyStep, Next

(* The invariant gives the three properties the run checks.                *)
LEMMA InvariantSuffices == IInv => OneManagerPerLab /\ UsedLabsKept /\ ResolvedLabKept
  <1> SUFFICES ASSUME IInv
               PROVE  OneManagerPerLab /\ UsedLabsKept /\ ResolvedLabKept
    OBVIOUS
  <1> USE DEF IInv
  <1>1. OneManagerPerLab
    <2>1. \A r \in Requests, l \in Labs : Holds(r, l) =>
            /\ entries[l] # None /\ entries[l].runtime = lease[r]
            /\ ~closed => lease[r] \notin stopped
      BY DEF LeasesServed, RuntimesLive, HasRuntime
    <2> QED
      BY <2>1 DEF OneManagerPerLab, Counted
  <1>2. UsedLabsKept
    <2> SUFFICES ASSUME NEW r \in Requests, NEW l \in Labs, Holds(r, l), row[l] = None
                 PROVE  FALSE
      BY DEF UsedLabsKept
    <2>1. HasRuntime(l) /\ worker.step = "evicting" /\ worker.lab = l
      BY DEF LeasesServed, RuntimesLive
    <2>2. entries[l].refs = 0 /\ entries[l] # None
      BY <2>1 DEF DeletesAlone
    <2> QED
      BY <2>2, NoLeases DEF Counted
  <1>3. ResolvedLabKept
    BY DEF ResolvedLabKept, Kept, Left
  <1> QED
    BY <1>1, <1>2, <1>3

-----------------------------------------------------------------------------
(* Theorems                                                                *)

(* The invariant holds of every behaviour of the registry, for any number  *)
(* of requests and laboratories and any time to live.                      *)
THEOREM Inductive == SafetySpec => []IInv
  <1>1. IInv /\ [Next]_vars => IInv'
    BY StepKeeps DEF AnyStep
  <1> QED
    BY <1>1, InitHolds, PTL DEF SafetySpec

(* All who use a laboratory use one manager, and its entry counts them     *)
(* (registry.go:63-133, 162-199).                                          *)
THEOREM OneManager == SafetySpec => []OneManagerPerLab
  <1>1. IInv => OneManagerPerLab
    BY InvariantSuffices
  <1> QED
    BY <1>1, Inductive, PTL

(* No laboratory is deleted while someone uses it (registry.go:174-178).   *)
THEOREM UsedLabsAreKept == SafetySpec => []UsedLabsKept
  <1>1. IInv => UsedLabsKept
    BY InvariantSuffices
  <1> QED
    BY <1>1, Inductive, PTL

(* Whoever loads within what renewal leaves finds its laboratory           *)
(* (session_store.go:41-106).                                              *)
THEOREM ResolvedLabsAreKept == SafetySpec => []ResolvedLabKept
  <1>1. IInv => ResolvedLabKept
    BY InvariantSuffices
  <1> QED
    BY <1>1, Inductive, PTL

-----------------------------------------------------------------------------
(* The server: the inductive invariant                                     *)

Phases == {"running", "triggered", "draining", "drained", "canceled", "closing", "exited"}

(* The registry is closed after the worker's end and the store after the   *)
(* registry.                                                               *)
Ordered ==
    /\ phase \in Phases
    /\ closed <=> phase \in {"closing", "exited"}
    /\ closed => worker = Stopped
    /\ phase = "exited" => closer = "closed"

(* Once Close has collected the hubs, every runtime in memory is stopped   *)
(* or in line for it, none is loaded any more, and who serves a WebSocket  *)
(* is still to be awaited.                                                 *)
HubsClosing ==
    /\ closer \in {"closing", "closed"} =>
         /\ \A r \in Requests : pc[r] # "loading"
         /\ \A l \in Labs : HasRuntime(l) => entries[l].runtime \in toClose \cup stopped
         /\ \A r \in Requests : pc[r] = "serving" => lease[r] \in toClose
    /\ closer = "closed" => toClose = {}

(* After Shutdown nobody comes, and it left nobody unless it timed out.    *)
Quiet ==
    /\ phase \notin {"running", "triggered"} => ~listening
    /\ phase \in {"drained", "canceled", "closing", "exited"} /\ ~abandoned => Active = {}

SInv == IInv /\ Ordered /\ HubsClosing /\ Quiet

-----------------------------------------------------------------------------
(* The registry's steps, as the server sees them                           *)

(* What a step of a request, the worker or the clock does to who loads,    *)
(* who serves and what is in memory.                                       *)
Mild ==
    /\ UNCHANGED <<closer, toClose>> /\ stopped \subseteq stopped'
    /\ \A r \in Requests : pc'[r] = "loading" => pc[r] = "loading" \/ ~closed
    /\ \A r \in Requests : pc'[r] = "serving" =>
         /\ pc[r] \in {"leased", "serving"} /\ lab'[r] = lab[r] /\ lease'[r] = lease[r]
         /\ pc[r] = "leased" => lease[r] \notin stopped
    /\ (\A r \in Requests : pc[r] # "loading") =>
         \A l \in Labs : HasRuntime(l)' => /\ HasRuntime(l)
                                           /\ entries'[l].runtime = entries[l].runtime
    /\ worker = Stopped => worker' = Stopped
    /\ \A r \in Requests : pc[r] \in {"serving", "done"} => pc'[r] \in {"serving", "done"}

(* Requests are mild.                                                      *)
LEMMA RequestMild ==
    ASSUME IInv, NEW r \in Requests, Request(r) \/ RefuseClosed(r)
    PROVE  Mild
  <1> USE DEF IInv, Types, Places, closing, Goto
  <1>1. CASE \/ Arrive(r) \/ ResolveSession(r) \/ CreateSession(r) \/ ResolveFails(r)
             \/ WaitAtGate(r) \/ Cancel(r) \/ BeginHandler(r) \/ RefuseClosed(r)
    BY <1>1 DEF Arrive, ResolveSession, CreateSession, ResolveFails, WaitAtGate, Cancel,
                BeginHandler, RefuseClosed, TurnAway, Over, Mild, HasRuntime
  <1>2. CASE LeaseLive(r)
    BY <1>2, ResolvedHasLab, RegistryNames DEF LeaseLive, Mild, HasRuntime, live, Entries
  <1>3. CASE BeginLoad(r)
    BY <1>3, ResolvedHasLab DEF BeginLoad, Mild, HasRuntime, Entry
  <1>4. CASE LoadDone(r)
    BY <1>4, ResolvedHasLab DEF LoadDone, Over, Woken, Here, Mild, HasRuntime
  <1>5. CASE LoadFails(r)
    BY <1>5, ResolvedHasLab DEF LoadFails, Over, Woken, Here, Mild, HasRuntime
  <1>6. CASE Release(r)
    BY <1>6, ResolvedHasLab, RegistryNames
    DEF Release, TurnAway, Over, Unref, Mild, HasRuntime, Entries
  <1> QED
    BY <1>1, <1>2, <1>3, <1>4, <1>5, <1>6 DEF Request, Acquire

(* So are the worker and the clock.                                        *)
LEMMA WorkerMild ==
    ASSUME IInv, RunWorker \/ Advance
    PROVE  Mild
  <1> USE DEF IInv, Types, Workers, requests, closing
  <1>1. worker = Stopped => worker.step = "stopped"
    BY DEF Stopped, Idle
  <1>2. CASE Advance \/ WorkerFails \/ \E now \in 0..clock : ExpiredLabs(now)
    BY <1>1, <1>2 DEF Advance, WorkerFails, ExpiredLabs, Mild, HasRuntime
  <1>3. CASE TickAll
    BY <1>1, <1>3, RegistryNames DEF TickAll, Mild, HasRuntime, live, Entries
  <1>4. ASSUME NEW l \in Labs, TickOne(l)
        PROVE  Mild
    BY <1>1, <1>4, RegistryNames DEF TickOne, Unref, Mild, HasRuntime, Entries
  <1>5. ASSUME NEW l \in Labs, SkipInUse(l)
        PROVE  Mild
    BY <1>1, <1>5 DEF SkipInUse, Mild, HasRuntime
  <1>6. ASSUME NEW l \in Labs, DeleteIfIdle(l)
        PROVE  Mild
    BY <1>1, <1>6, RegistryNames DEF DeleteIfIdle, Entry, Mild, HasRuntime, Entries
  <1>7. CASE DeleteExpiredLab
    BY <1>1, <1>7 DEF DeleteExpiredLab, Mild, HasRuntime
  <1>8. CASE DeleteFails
    BY <1>1, <1>8, RegistryNames DEF DeleteFails, DeletesAlone, Woken, Mild, HasRuntime, Entries
  <1>9. CASE Evict
    <2>1. worker.step = "evicting" /\ UNCHANGED <<lab, lease, closer, toClose>>
          /\ stopped \subseteq stopped' /\ entries' = [entries EXCEPT ![worker.lab] = None]
      BY <1>9 DEF Evict
    <2>2. \A r \in Requests : pc'[r] = pc[r] \/ (pc[r] = "waiting" /\ pc'[r] = "acquire")
      BY <1>9 DEF Evict, Woken
    <2>3. \A l \in Labs : HasRuntime(l)' => HasRuntime(l) /\ entries'[l] = entries[l]
      BY <2>1 DEF HasRuntime
    <2> QED
      BY <1>1, <2>1, <2>2, <2>3 DEF Mild
  <1> QED
    BY <1>2, <1>3, <1>4, <1>5, <1>6, <1>7, <1>8, <1>9 DEF RunWorker, WorkerRound, Sweep

(* A request that has not arrived yet is moved by its own arrival alone.   *)
LEMMA IdleStays ==
    ASSUME IInv, NEW q \in Requests, pc[q] = "idle",
           \/ Advance \/ RunWorker
           \/ \E r \in Requests \ {q} : RefuseClosed(r) \/ Request(r)
    PROVE  pc'[q] = "idle"
  <1> USE DEF requests
  <1>0. pc \in [Requests -> Places]
    BY DEF IInv, Types
  <1>1. CASE Advance \/ RunWorker
    <2>1. CASE DeleteFails \/ Evict
      <3>1. pc' = Woken(worker.lab, <<>>)
        BY <2>1 DEF DeleteFails, Evict
      <3> QED
        BY <3>1 DEF Woken
    <2>2. CASE Advance \/ WorkerFails \/ TickAll \/ DeleteExpiredLab
                 \/ \E now \in 0..clock : ExpiredLabs(now)
      BY <2>2 DEF Advance, WorkerFails, TickAll, DeleteExpiredLab, ExpiredLabs
    <2>3. CASE \E l \in Labs : TickOne(l) \/ SkipInUse(l) \/ DeleteIfIdle(l)
      BY <2>3 DEF TickOne, SkipInUse, DeleteIfIdle
    <2> QED
      BY <1>1, <2>1, <2>2, <2>3 DEF RunWorker, WorkerRound, Sweep
  <1>2. CASE \E r \in Requests \ {q} : RefuseClosed(r) \/ Request(r)
    <2> PICK r \in Requests \ {q} : RefuseClosed(r) \/ Request(r)
      BY <1>2
    <2>1. CASE LoadDone(r) \/ LoadFails(r)
      BY <2>1 DEF LoadDone, LoadFails, Woken, Here
    <2>2. CASE RefuseClosed(r) \/ Arrive(r) \/ ResolveSession(r)
      BY <1>0, <2>2 DEF RefuseClosed, Arrive, ResolveSession, TurnAway, Goto
    <2>3. CASE CreateSession(r) \/ ResolveFails(r) \/ WaitAtGate(r) \/ Cancel(r)
      BY <1>0, <2>3 DEF CreateSession, ResolveFails, WaitAtGate, Cancel, TurnAway, Goto
    <2>4. CASE LeaseLive(r) \/ BeginLoad(r) \/ BeginHandler(r) \/ Release(r)
      BY <1>0, <2>4 DEF LeaseLive, BeginLoad, BeginHandler, Release, TurnAway, Goto
    <2> QED
      BY <2>1, <2>2, <2>3, <2>4 DEF Request, Acquire
  <1> QED
    BY <1>1, <1>2

(* A mild step keeps the hubs closing: a WebSocket that is taken over now  *)
(* has a hub that is not stopped, which is then in line.                   *)
LEMMA MildKeepsClosing ==
    ASSUME IInv, HubsClosing, Mild
    PROVE  HubsClosing'
  <1> SUFFICES ASSUME closer \in {"closing", "closed"}
               PROVE  /\ \A r \in Requests : pc'[r] # "loading"
                      /\ \A l \in Labs : HasRuntime(l)' =>
                           entries'[l].runtime \in toClose \cup stopped'
                      /\ \A r \in Requests : pc'[r] = "serving" => lease'[r] \in toClose
    BY DEF HubsClosing, Mild
  <1>1. \A r \in Requests : pc'[r] # "loading"
    BY DEF HubsClosing, Mild, closed
  <1>2. \A l \in Labs : HasRuntime(l)' => entries'[l].runtime \in toClose \cup stopped'
    BY DEF HubsClosing, Mild
  <1>3. ASSUME NEW r \in Requests, pc'[r] = "serving"
        PROVE  lease'[r] \in toClose
    <2>1. pc[r] \in {"leased", "serving"} /\ lease'[r] = lease[r]
      BY <1>3 DEF Mild
    <2>2. CASE pc[r] = "serving"
      BY <2>1, <2>2 DEF HubsClosing
    <2>3. CASE pc[r] = "leased"
      <3>1. lab[r] \in Labs /\ Holds(r, lab[r])
        BY <2>3, ResolvedHasLab DEF Holds, Places
      <3>2. HasRuntime(lab[r]) /\ entries[lab[r]].runtime = lease[r]
        BY <3>1 DEF IInv, LeasesServed
      <3>3. lease[r] \in toClose \cup stopped /\ lease[r] \notin stopped
        BY <1>3, <2>3, <3>1, <3>2 DEF HubsClosing, Mild
      <3> QED
        BY <2>1, <3>3
    <2> QED
      BY <2>1, <2>2, <2>3
  <1> QED
    BY <1>1, <1>2, <1>3

(* Close collects every hub once no load is under way, and forgets one     *)
(* only after it is stopped and nobody serves from it.                     *)
LEMMA CloseKeepsClosing ==
    ASSUME IInv, HubsClosing, Close \/ CloseHubs
    PROVE  HubsClosing'
  <1> USE DEF requests
  <1>1. UNCHANGED <<pc, lab, lease, entries, worker>>
    BY DEF Close, CloseHubs, Collect, CloseHub, HubClosed, CloseReturns
  <1>2. CASE Close
    BY <1>2 DEF Close, HubsClosing
  <1>3. CASE Collect
    <2>1. \A r \in Requests : pc[r] # "loading"
      BY <1>3 DEF Collect, Operations
    <2>2. \A l \in Labs : HasRuntime(l) => entries[l].runtime \in runtimes
      BY DEF HasRuntime, runtimes
    <2>3. \A r \in Requests : pc[r] = "serving" => lease[r] \in runtimes
      <3> SUFFICES ASSUME NEW r \in Requests, pc[r] = "serving"
                   PROVE  lease[r] \in runtimes
        OBVIOUS
      <3>1. lab[r] \in Labs /\ Holds(r, lab[r])
        BY ResolvedHasLab DEF Holds, Places
      <3> QED
        BY <3>1, <2>2 DEF IInv, LeasesServed
    <2>4. toClose' = runtimes /\ closer' = "closing"
      BY <1>3 DEF Collect
    <2> QED
      BY <1>1, <2>1, <2>2, <2>3, <2>4 DEF HubsClosing, HasRuntime
  <1>4. CASE CloseReturns
    BY <1>1, <1>4 DEF CloseReturns, HubsClosing, HasRuntime
  <1>5. ASSUME NEW runtime \in Requests, CloseHub(runtime)
        PROVE  HubsClosing'
    BY <1>1, <1>5 DEF CloseHub, HubsClosing, HasRuntime
  <1>6. ASSUME NEW runtime \in Requests, HubClosed(runtime)
        PROVE  HubsClosing'
    BY <1>1, <1>6 DEF HubClosed, HubsClosing, HasRuntime
  <1> QED
    BY <1>2, <1>3, <1>4, <1>5, <1>6 DEF CloseHubs

-----------------------------------------------------------------------------
(* The server's steps                                                      *)

(* Every step of the server is a step of the registry or leaves it alone.  *)
LEMMA ServerStepIsRegistryStep ==
    [ServerNext]_serverVars => AnyStep \/ UNCHANGED vars
  <1>1. WorkerCanceled => WorkerFails
    BY DEF WorkerCanceled, WorkerFails
  <1>2. CloseRouter => Close
    BY DEF CloseRouter
  <1> QED
    BY <1>1, <1>2
    DEF ServerNext, serverVars, RunServices, Trigger, Shutdown, Drained, ShutdownTimesOut,
        CancelWorker, CloseStore, Exited, AnyStep, Next, RunWorker

(* The server starts with an empty registry and no shutdown under way.     *)
LEMMA ServerInitHolds == ServerInit => SInv
  <1> SUFFICES ASSUME ServerInit
               PROVE  SInv
    OBVIOUS
  <1>1. IInv
    BY InitHolds DEF ServerInit
  <1>2. Ordered /\ HubsClosing /\ Quiet
    BY DEF ServerInit, Init, Ordered, Phases, HubsClosing, Quiet, closed
  <1> QED
    BY <1>1, <1>2 DEF SInv

(* The steps of runServices: each waits for what the next relies on.       *)
LEMMA RunServicesKeeps ==
    ASSUME SInv, Trigger \/ RunServices
    PROVE  Ordered' /\ HubsClosing' /\ Quiet'
  <1> USE DEF SInv, vars, requests, closing
  <1>1. CASE CloseRouter
    <2>1. HubsClosing'
      BY <1>1, CloseKeepsClosing DEF CloseRouter
    <2> QED
      BY <1>1, <2>1 DEF CloseRouter, Close, Ordered, Phases, closed, Quiet, Active
  <1>2. CASE Trigger \/ Shutdown \/ Drained \/ ShutdownTimesOut \/ CancelWorker \/ CloseStore
    <2> USE <1>2 DEF Trigger, Shutdown, Drained, ShutdownTimesOut, CancelWorker, CloseStore
    <2>1. Ordered'
      BY DEF Ordered, Phases, closed
    <2>2. HubsClosing'
      BY DEF HubsClosing, HasRuntime
    <2>3. Quiet'
      BY DEF Quiet, Active, Ordered, Phases
    <2> QED
      BY <2>1, <2>2, <2>3
  <1> QED
    BY <1>1, <1>2 DEF RunServices

(* The steps of the registry's users before the store is closed.           *)
LEMMA UsersKeep ==
    ASSUME SInv, phase # "exited", UNCHANGED server,
           \/ Advance \/ RunWorker
           \/ \E r \in Requests : RefuseClosed(r) \/ (Request(r) /\ (pc[r] = "idle" => listening))
    PROVE  Ordered' /\ HubsClosing' /\ Quiet'
  <1> USE DEF SInv, server
  <1>1. Mild
    BY RequestMild, WorkerMild
  <1>2. HubsClosing'
    BY <1>1, MildKeepsClosing
  <1>3. Ordered'
    BY <1>1 DEF Mild, Ordered, closed
  <1>4. Quiet'
    <2> SUFFICES ASSUME phase \in {"drained", "canceled", "closing", "exited"}, ~abandoned
                 PROVE  Active' = {}
      BY DEF Quiet
    <2>1. \A r \in Requests : pc[r] \in {"idle", "serving", "done"} /\ ~listening
      BY DEF Quiet, Active
    <2>2. \A r \in Requests : pc[r] = "idle" => pc'[r] = "idle"
      BY <2>1, IdleStays DEF RefuseClosed
    <2> QED
      BY <1>1, <2>1, <2>2 DEF Mild, Active
  <1> QED
    BY <1>2, <1>3, <1>4

(* Closing the hubs before the store is closed.                            *)
LEMMA CloseHubsKeeps ==
    ASSUME SInv, phase # "exited", UNCHANGED server, CloseHubs
    PROVE  Ordered' /\ HubsClosing' /\ Quiet'
  <1> USE DEF SInv, server, requests
  <1>1. HubsClosing'
    BY CloseKeepsClosing
  <1>2. Ordered'
    BY DEF CloseHubs, Collect, CloseHub, HubClosed, CloseReturns, Ordered, closed
  <1>3. Quiet'
    BY DEF CloseHubs, Collect, CloseHub, HubClosed, CloseReturns, Quiet, Active
  <1> QED
    BY <1>1, <1>2, <1>3

(* Every step of the server, shutdown and failure included, keeps SInv.    *)
LEMMA ServerStepKeeps == SInv /\ [ServerNext]_serverVars => SInv'
  <1> SUFFICES ASSUME SInv, [ServerNext]_serverVars
               PROVE  SInv'
    OBVIOUS
  <1>1. IInv'
    BY ServerStepIsRegistryStep, StepKeeps DEF SInv
  <1>2. Ordered' /\ HubsClosing' /\ Quiet'
    <2>1. CASE Trigger \/ RunServices
      BY <2>1, RunServicesKeeps
    <2>2. CASE WorkerCanceled
      <3>1. RunWorker /\ UNCHANGED server
        BY <2>2 DEF WorkerCanceled, RunWorker, WorkerFails
      <3>2. phase # "exited"
        BY <2>2 DEF SInv, Ordered, WorkerCanceled, Stopped, Idle
      <3> QED
        BY <3>1, <3>2, UsersKeep
    <2>3. CASE /\ phase # "exited" /\ UNCHANGED server
               /\ \/ Advance \/ RunWorker
                  \/ \E r \in Requests :
                       RefuseClosed(r) \/ (Request(r) /\ (pc[r] = "idle" => listening))
      BY <2>3, UsersKeep
    <2>4. CASE phase # "exited" /\ UNCHANGED server /\ CloseHubs
      BY <2>4, CloseHubsKeeps
    <2>5. CASE UNCHANGED serverVars
      <3> USE <2>5 DEF SInv, serverVars, server, vars, requests, closing
      <3>1. Ordered'
        BY DEF Ordered, closed
      <3>2. HubsClosing'
        BY DEF HubsClosing, HasRuntime
      <3>3. Quiet'
        BY DEF Quiet, Active
      <3> QED
        BY <3>1, <3>2, <3>3
    <2> QED
      BY <2>1, <2>2, <2>3, <2>4, <2>5 DEF ServerNext, Exited
  <1> QED
    BY <1>1, <1>2 DEF SInv

-----------------------------------------------------------------------------
(* Theorems                                                                *)

(* The invariant holds of every behaviour of the process.                  *)
THEOREM ServerInductive == ServerSpec => []SInv
  BY ServerInitHolds, ServerStepKeeps, PTL DEF ServerSpec

(* The store is closed after everything that uses it, whatever was under   *)
(* way when the signal came (runServices, main.go:180-194).                *)
THEOREM StoreLast == ServerSpec => []StoreClosedLast
  <1>1. SInv => StoreClosedLast
    <2> SUFFICES ASSUME SInv, phase = "exited"
                 PROVE  /\ worker = Stopped /\ Operations = {}
                        /\ \A r \in Requests : pc[r] # "serving"
                        /\ Active # {} => abandoned
      BY DEF StoreClosedLast
    <2>1. worker = Stopped /\ closer = "closed" /\ worker.step = "stopped"
      BY DEF SInv, Ordered, closed, Stopped, Idle
    <2>2. /\ \A r \in Requests : pc[r] # "loading"
          /\ \A r \in Requests : pc[r] # "serving"
      BY <2>1 DEF SInv, HubsClosing
    <2>3. Operations = {}
      BY <2>1, <2>2 DEF Operations
    <2> QED
      BY <2>1, <2>2, <2>3 DEF SInv, Quiet
  <1> QED
    BY <1>1, ServerInductive, PTL

(* When Close of the registry returns, every hub in memory is closed, of   *)
(* laboratories too that were being loaded when it began                   *)
(* (registry.go:119-123, 204-224).                                         *)
THEOREM HubsClosedFirst == ServerSpec => []EveryHubClosed
  <1>1. SInv => EveryHubClosed
    BY DEF SInv, HubsClosing, EveryHubClosed, runtimes, HasRuntime
  <1> QED
    BY <1>1, ServerInductive, PTL

(* The registry's promises hold in the process as well, while it closes    *)
(* and abandoned requests run on.                                          *)
THEOREM RegistryHoldsInServer ==
    ServerSpec => [](OneManagerPerLab /\ UsedLabsKept /\ ResolvedLabKept)
  <1>1. SInv => OneManagerPerLab /\ UsedLabsKept /\ ResolvedLabKept
    BY InvariantSuffices DEF SInv
  <1> QED
    BY <1>1, ServerInductive, PTL

=============================================================================
