------------------------------ MODULE HubProofs ------------------------------
(***************************************************************************)
(* Proofs about module Hub, for any number of clients, ticks and versions. *)
(***************************************************************************)
EXTENDS Hub, FiniteSetTheorems, TLAPS

-----------------------------------------------------------------------------
(* The inductive invariant                                                 *)

Places == {"idle", "accepted", "listening", "woken", "reading", "captured", "offering",
           "serving", "writing", "leaving", "gone"}

Shots == [sequence: Nat, version: 0..MaxVersion]

Types ==
    /\ version \in 0..MaxVersion /\ ticks \in 0..MaxTicks /\ edge \in BOOLEAN
    /\ closed \in BOOLEAN /\ clients \in SUBSET Clients /\ sequence \in Nat
    /\ lastSequence \in [Clients -> Nat]
    /\ mu \in Procs \cup {Nobody} /\ snapshotMu \in Procs \cup {Nobody}
    /\ todo \in SUBSET Clients /\ cur \in Clients \cup {Nobody} /\ victims \in SUBSET Procs
    /\ pc \in [Procs -> Places] /\ ctxDone \in [Procs -> BOOLEAN]
    /\ hold \in [Procs -> Shots]
    /\ queue \in [Clients -> Shots] /\ got \in [Clients -> Shots]
    /\ seen \in [Clients -> 0..MaxVersion]
    /\ closer \in {"idle", "cancelling", "waiting", "returned"}

(* Who holds a mutex is where it is held, and offers are made under        *)
(* Hub.mu.                                                                 *)
Locks ==
    /\ \A p \in Procs : pc[p] = "offering" <=> mu = p
    /\ \A p \in Procs : pc[p] = "reading" <=> snapshotMu = p
    /\ mu = Nobody => todo = {}
    /\ cur # Nobody => cur \in todo

(* A process that has numbered a snapshot and not yet offered it to all.   *)
Carries(p) == pc[p] \in {"captured", "offering"}

Carried ==
    \A p \in Procs : hold[p].sequence > 0 <=> Carries(p)

(* The handlers that have yet to number the snapshot they begin with.      *)
Beginners == {c \in Clients : pc[c] \in {"idle", "accepted", "woken", "reading"}}

One(condition) == IF condition THEN 1 ELSE 0

(* Every handler numbers one snapshot and the bridge one for every edge.   *)
Numbering ==
    sequence + One(edge) + One(pc[Bridge] \in {"woken", "reading"}) + Cardinality(Beginners)
      <= ticks + Cardinality(Clients)

(* What a client's slot, what was taken from it and what was offered last  *)
(* have to do with each other.                                             *)
Slot(c) ==
    /\ c # cur => lastSequence[c] = IF queue[c] = Empty THEN got[c].sequence ELSE queue[c].sequence
    /\ c = cur => lastSequence[c] = hold[mu].sequence
    /\ got[c].sequence <= lastSequence[c] /\ queue[c].sequence <= lastSequence[c]
    /\ queue[c] # Empty => got[c].sequence <= queue[c].sequence
    /\ seen[c] <= got[c].version

Slots == \A c \in Clients : Slot(c)

(* The numbered snapshots that can still reach a client.                   *)
InPlay(s) ==
    \/ s = Empty
    \/ \E p \in Procs : Carries(p) /\ s = hold[p]
    \/ \E c \in Clients : s \in {queue[c], got[c]}

(* Numbers and versions go together, because the state is read and its     *)
(* snapshot numbered under one hold of snapshotMu.                         *)
Versions ==
    /\ \A s : InPlay(s) => s.sequence <= sequence /\ s.version <= version
    /\ \A s, t : InPlay(s) /\ InPlay(t) /\ s.sequence <= t.sequence => s.version <= t.version
    /\ \A p \in Procs : pc[p] = "reading" =>
         hold[p].version <= version /\ \A s : InPlay(s) => s.version <= hold[p].version

(* A closed hub has no clients, and Close leaves none behind.              *)
Closing ==
    /\ closer # "idle" => closed
    /\ closed => clients = {}
    /\ CloseLeavesNothing

HInv == Types /\ Locks /\ Carried /\ Numbering /\ Slots /\ Versions /\ Closing

-----------------------------------------------------------------------------
(* What the actions share                                                  *)

(* The handlers yet to begin are finitely many.                            *)
LEMMA BeginnersCounted ==
    ASSUME Types
    PROVE  /\ IsFiniteSet(Beginners) /\ Cardinality(Beginners) \in Nat
           /\ Cardinality(Clients) \in Nat
<1>1. IsFiniteSet(Beginners)
  <2>1. Beginners \subseteq Clients
    BY DEF Beginners
  <2> QED
    BY <2>1, HubConfig, FS_Subset
<1> QED
  BY <1>1, HubConfig, FS_CardinalityType

(* Where nothing is numbered, the bound on the numbers stays as long as no *)
(* process comes to number one.                                            *)
LEMMA NumberingKept ==
    ASSUME HInv, Types',
           sequence' = sequence, ticks' = ticks, edge' = edge,
           Beginners' \subseteq Beginners,
           pc'[Bridge] \in {"woken", "reading"} => pc[Bridge] \in {"woken", "reading"}
    PROVE  Numbering'
<1>1. Cardinality(Beginners) \in Nat /\ Cardinality(Clients) \in Nat
  BY BeginnersCounted DEF HInv
<1>2. Cardinality(Beginners') \in Nat /\ Cardinality(Beginners') <= Cardinality(Beginners)
  BY BeginnersCounted, FS_Subset, FS_CardinalityType DEF HInv
<1>3. /\ One(pc'[Bridge] \in {"woken", "reading"}) \in 0..1
      /\ One(pc[Bridge] \in {"woken", "reading"}) \in 0..1
      /\ One(pc'[Bridge] \in {"woken", "reading"}) <= One(pc[Bridge] \in {"woken", "reading"})
      /\ One(edge) \in 0..1
  BY DEF One
<1> HIDE DEF One
<1> QED
  BY <1>1, <1>2, <1>3 DEF HInv, Types, Numbering

(* What is in play is a snapshot.                                          *)
LEMMA ShotsInPlay ==
    ASSUME Types
    PROVE  \A s : InPlay(s) => s \in Shots
<1>1. Empty \in Shots
  BY HubConfig DEF Empty, Shots
<1>2. \A p \in Procs : hold[p] \in Shots
  BY DEF Types
<1>3. \A c \in Clients : queue[c] \in Shots /\ got[c] \in Shots
  BY DEF Types
<1> QED
  BY <1>1, <1>2, <1>3 DEF InPlay

(* Where no snapshot comes into play and no capture begins, numbers and    *)
(* versions stay together.                                                 *)
LEMMA VersionsKept ==
    ASSUME HInv, Types',
           sequence' = sequence, version' \in Nat, version <= version',
           \A s : InPlay(s)' => InPlay(s),
           \A p \in Procs : pc'[p] = "reading" => pc[p] = "reading" /\ hold'[p] = hold[p]
    PROVE  Versions'
<1>1. \A s : InPlay(s) => s \in Shots
  BY ShotsInPlay DEF HInv
<1> QED
  BY <1>1 DEF HInv, Types, Versions, Shots

-----------------------------------------------------------------------------
(* Each action keeps the invariant                                         *)

(* A tick raises the bound on the numbers by the edge it leaves.           *)
LEMMA TickKeeps ==
    ASSUME HInv, Tick
    PROVE  HInv'
<1> USE HubConfig, HubProcesses DEF HInv, Procs, Bridge, Nobody, Empty
<1>1. Types'
  BY DEF Tick, hub, slots, Later, Types, Shots
<1>2. Locks'
  BY DEF Tick, hub, Types, Places, Locks
<1>3. Carried'
  BY DEF Tick, Carried, Carries, Locks
<1>4. Numbering'
  <2>1. Beginners' = Beginners /\ pc' = pc /\ edge' = TRUE /\ ticks' = ticks + 1
        /\ sequence' = sequence
    BY DEF Tick, Beginners
  <2>2. Cardinality(Beginners) \in Nat /\ Cardinality(Clients) \in Nat
    BY BeginnersCounted
  <2> QED
    BY <2>1, <2>2 DEF Numbering, Types, One
<1>5. Slots'
  BY DEF Tick, hub, slots, Slots, Slot, Carried, Carries
<1>6. Versions'
  <2>1. \A s : InPlay(s)' => InPlay(s)
    BY DEF Tick, slots, Locks, InPlay, Carries
  <2>2. \A q \in Procs : pc'[q] = "reading" => pc[q] = "reading" /\ hold'[q] = hold[q]
    BY DEF Tick, Locks
  <2>3. sequence' = sequence /\ version' \in Nat /\ version <= version'
    BY DEF Tick, Goto, Later, Types
  <2> QED
    BY <1>1, <2>1, <2>2, <2>3, VersionsKept
<1>7. Closing'
  BY DEF Tick, hub, Closing, CloseLeavesNothing, Handlers, Locks
<1> QED
  BY <1>1, <1>2, <1>3, <1>4, <1>5, <1>6, <1>7

(* A read only moves the version on.                                       *)
LEMMA ReadKeeps ==
    ASSUME HInv, Read
    PROVE  HInv'
<1> USE HubConfig, HubProcesses DEF HInv, Procs, Bridge, Nobody, Empty
<1>1. Types'
  BY DEF Read, hub, slots, Later, Types, Shots
<1>2. Locks'
  BY DEF Read, hub, Types, Places, Locks
<1>3. Carried'
  BY DEF Read, Carried, Carries, Locks
<1>4. Numbering'
  <2>1. Beginners' \subseteq Beginners
    BY DEF Read, Beginners, Locks
  <2>2. pc'[Bridge] \in {"woken", "reading"} => pc[Bridge] \in {"woken", "reading"}
    BY DEF Read, Locks
  <2> QED
    BY <1>1, <2>1, <2>2, NumberingKept DEF Read, Goto, Later
<1>5. Slots'
  BY DEF Read, hub, slots, Slots, Slot, Carried, Carries
<1>6. Versions'
  <2>1. \A s : InPlay(s)' => InPlay(s)
    BY DEF Read, slots, Locks, InPlay, Carries
  <2>2. \A q \in Procs : pc'[q] = "reading" => pc[q] = "reading" /\ hold'[q] = hold[q]
    BY DEF Read, Locks
  <2>3. sequence' = sequence /\ version' \in Nat /\ version <= version'
    BY DEF Read, Goto, Later, Types
  <2> QED
    BY <1>1, <2>1, <2>2, <2>3, VersionsKept
<1>7. Closing'
  BY DEF Read, hub, Closing, CloseLeavesNothing, Handlers, Locks
<1> QED
  BY <1>1, <1>2, <1>3, <1>4, <1>5, <1>6, <1>7

(* The version read is at least every version in play.                     *)
LEMMA CaptureKeeps ==
    ASSUME HInv, NEW p \in Procs, Capture(p)
    PROVE  HInv'
<1> USE HubConfig, HubProcesses DEF HInv, Procs, Bridge, Nobody, Empty
<1>1. Types'
  BY DEF Capture, source, hub, slots, Goto, Later, Types, Places, Shots
<1>2. Locks'
  BY DEF Capture, hub, Goto, Types, Places, Locks
<1>3. Carried'
  BY DEF Capture, Goto, Carried, Carries, Locks
<1>4. Numbering'
  <2>1. Beginners' \subseteq Beginners
    BY DEF Capture, Goto, Beginners, Locks
  <2>2. pc'[Bridge] \in {"woken", "reading"} => pc[Bridge] \in {"woken", "reading"}
    BY DEF Capture, Goto, Locks
  <2> QED
    BY <1>1, <2>1, <2>2, NumberingKept DEF Capture, Later
<1>5. Slots'
  BY DEF Capture, hub, slots, Types, Slots, Slot, Carried, Carries
<1>6. Versions'
  <2>1. \A s : InPlay(s)' => InPlay(s)
    BY DEF Capture, Goto, slots, InPlay, Carries
  <2>2. /\ hold'[p].version = version' /\ pc'[p] = "reading"
        /\ \A q \in Procs \ {p} : hold'[q] = hold[q] /\ pc'[q] = pc[q]
    BY DEF Capture, Goto, Types
  <2>3. \A q \in Procs \ {p} : pc[q] # "reading"
    BY DEF Capture, Locks
  <2>4. sequence' = sequence /\ version' \in Nat /\ version <= version'
    BY DEF Capture, Later, Types
  <2>5. \A s : InPlay(s) => s \in Shots /\ s.version <= version
    BY ShotsInPlay DEF Versions
  <2> QED
    BY <2>1, <2>2, <2>3, <2>4, <2>5 DEF Versions, Types, Shots
<1>7. Closing'
  BY DEF Capture, hub, Closing, CloseLeavesNothing, Handlers, Locks
<1> QED
  BY <1>1, <1>2, <1>3, <1>4, <1>5, <1>6, <1>7

(* The new number is above all numbers in play, its version above all versions.*)
LEMMA NumberKeeps ==
    ASSUME HInv, NEW p \in Procs, Number(p)
    PROVE  HInv'
<1> USE HubConfig, HubProcesses DEF HInv, Procs, Bridge, Nobody, Empty
<1>1. Types'
  BY DEF Number, source, hub, slots, Goto, Types, Places, Shots
<1>2. Locks'
  BY DEF Number, hub, Goto, Types, Places, Locks
<1>3. Carried'
  BY DEF Number, Goto, Types, Carried, Carries, Locks
<1>4. Numbering'
  <2>1. sequence' = sequence + 1 /\ UNCHANGED <<edge, ticks>>
    BY DEF Number, source
  <2>2. /\ IsFiniteSet(Beginners) /\ Cardinality(Beginners) \in Nat
        /\ Cardinality(Clients) \in Nat
    BY BeginnersCounted
  <2>3. One(edge) \in 0..1
    BY DEF One
  <2>4. CASE p = Bridge
    <3>1. Beginners' = Beginners
      BY <2>4 DEF Number, Goto, Beginners, Types
    <3>2. pc[Bridge] \in {"woken", "reading"} /\ pc'[Bridge] \notin {"woken", "reading"}
      BY <2>4 DEF Number, Goto, Types
    <3> QED
      BY <2>1, <2>2, <3>1, <3>2 DEF Numbering, Types, One
  <2>5. CASE p # Bridge
    <3>1. p \in Beginners /\ Beginners' = Beginners \ {p}
      BY <2>5 DEF Number, Goto, Beginners, Types
    <3>2. Cardinality(Beginners') = Cardinality(Beginners) - 1
      BY <2>2, <3>1, FS_RemoveElement
    <3>3. pc'[Bridge] = pc[Bridge] /\ One(pc[Bridge] \in {"woken", "reading"}) \in 0..1
      BY <2>5 DEF Number, Goto, Types, One
    <3> HIDE DEF One
    <3> QED
      BY <2>1, <2>2, <2>3, <3>2, <3>3 DEF Numbering, Types
  <2> QED
    BY <2>4, <2>5
<1>5. Slots'
  BY DEF Number, hub, slots, Slots, Slot, Locks, Carried, Carries
<1>6. Versions'
  <2> DEFINE new == [sequence |-> sequence + 1, version |-> hold[p].version]
  <2>1. /\ hold[p] \in Shots /\ hold'[p] = new /\ pc[p] = "reading" /\ pc'[p] = "captured"
        /\ \A q \in Procs \ {p} : hold'[q] = hold[q] /\ pc'[q] = pc[q]
    BY DEF Number, Goto, Types, Shots
  <2>2. \A s : InPlay(s)' => InPlay(s) \/ s = new
    BY <2>1 DEF Number, slots, InPlay, Carries
  <2>3. \A q \in Procs : pc'[q] # "reading"
    BY <2>1 DEF Locks
  <2>4. \A s : InPlay(s) => /\ s \in Shots /\ s.sequence <= sequence
                             /\ s.version <= version /\ s.version <= hold[p].version
    BY <2>1, ShotsInPlay DEF Versions
  <2>5. /\ new.sequence = sequence + 1 /\ new.version = hold[p].version
        /\ hold[p].version \in Nat /\ hold[p].version <= version
    BY <2>1 DEF Shots, Versions
  <2>6. sequence' = sequence + 1 /\ version' = version /\ sequence \in Nat /\ version \in Nat
    BY DEF Number, source, Types
  <2> HIDE DEF new
  <2>7. \A s : InPlay(s)' => s.sequence <= sequence' /\ s.version <= version'
    BY <2>2, <2>4, <2>5, <2>6 DEF Shots
  <2>8. \A s, t : InPlay(s)' /\ InPlay(t)' /\ s.sequence <= t.sequence => s.version <= t.version
    <3> SUFFICES ASSUME NEW s, NEW t, InPlay(s)', InPlay(t)', s.sequence <= t.sequence
                 PROVE  s.version <= t.version
      OBVIOUS
    <3>1. CASE s = new
      BY <3>1, <2>2, <2>4, <2>5, <2>6 DEF Shots
    <3>2. CASE s # new /\ t = new
      BY <3>2, <2>2, <2>4, <2>5
    <3>3. CASE s # new /\ t # new
      BY <3>3, <2>2 DEF Versions
    <3> QED
      BY <3>1, <3>2, <3>3
  <2> QED
    BY <2>3, <2>7, <2>8 DEF Versions
<1>7. Closing'
  BY DEF Number, hub, Closing, CloseLeavesNothing, Handlers, Locks
<1> QED
  BY <1>1, <1>2, <1>3, <1>4, <1>5, <1>6, <1>7

(* A failed capture numbers nothing.                                       *)
LEMMA CaptureFailsKeeps ==
    ASSUME HInv, NEW p \in Procs, CaptureFails(p)
    PROVE  HInv'
<1> USE HubConfig, HubProcesses DEF HInv, Procs, Bridge, Nobody, Empty
<1>1. Types'
  BY DEF CaptureFails, source, hub, slots, Goto, Types, Places, Shots
<1>2. Locks'
  BY DEF CaptureFails, hub, Goto, Types, Places, Locks
<1>3. Carried'
  BY DEF CaptureFails, Goto, Carried, Carries, Locks
<1>4. Numbering'
  <2>1. Beginners' \subseteq Beginners
    BY DEF CaptureFails, Goto, Beginners, Locks
  <2>2. pc'[Bridge] \in {"woken", "reading"} => pc[Bridge] \in {"woken", "reading"}
    BY DEF CaptureFails, Goto, Locks
  <2> QED
    BY <1>1, <2>1, <2>2, NumberingKept DEF CaptureFails, source, Goto
<1>5. Slots'
  BY DEF CaptureFails, hub, slots, Slots, Slot, Carried, Carries
<1>6. Versions'
  <2>1. \A s : InPlay(s)' => InPlay(s)
    BY DEF CaptureFails, slots, Goto, Locks, InPlay, Carries
  <2>2. \A q \in Procs : pc'[q] = "reading" => pc[q] = "reading" /\ hold'[q] = hold[q]
    BY DEF CaptureFails, Goto, Locks
  <2>3. sequence' = sequence /\ version' \in Nat /\ version <= version'
    BY DEF CaptureFails, source, Goto, Types
  <2> QED
    BY <1>1, <2>1, <2>2, <2>3, VersionsKept
<1>7. Closing'
  BY DEF CaptureFails, hub, Closing, CloseLeavesNothing, Handlers, Locks
<1> QED
  BY <1>1, <1>2, <1>3, <1>4, <1>5, <1>6, <1>7

(* Publish takes Hub.mu, or drops the snapshot when there is nobody to offer it to.*)
LEMMA PublishKeeps ==
    ASSUME HInv, NEW p \in Procs, Publish(p)
    PROVE  HInv'
<1> USE HubConfig, HubProcesses DEF HInv, Procs, Bridge, Nobody, Empty
<1>1. Types'
  BY DEF Publish, source, hub, slots, Goto, Published, Types, Places, Shots
<1>2. Locks'
  BY DEF Publish, Goto, Published, Types, Places, Locks
<1>3. Carried'
  BY DEF Publish, Goto, Published, Types, Carried, Carries, Locks
<1>4. Numbering'
  <2>1. Beginners' \subseteq Beginners
    BY DEF Publish, Goto, Published, Types, Beginners, Locks
  <2>2. pc'[Bridge] \in {"woken", "reading"} => pc[Bridge] \in {"woken", "reading"}
    BY DEF Publish, Goto, Published, Types, Locks
  <2> QED
    BY <1>1, <2>1, <2>2, NumberingKept DEF Publish, source, Published
<1>5. Slots'
  BY DEF Publish, slots, Slots, Slot, Locks, Carried, Carries
<1>6. Versions'
  <2>1. \A s : InPlay(s)' => InPlay(s)
    BY DEF Publish, slots, Goto, Published, Types, Locks, InPlay, Carries
  <2>2. \A q \in Procs : pc'[q] = "reading" => pc[q] = "reading" /\ hold'[q] = hold[q]
    BY DEF Publish, Goto, Published, Types, Locks
  <2>3. sequence' = sequence /\ version' \in Nat /\ version <= version'
    BY DEF Publish, source, Published, Types
  <2> QED
    BY <1>1, <2>1, <2>2, <2>3, VersionsKept
<1>7. Closing'
  BY DEF Publish, Closing, CloseLeavesNothing, Handlers, Locks
<1> QED
  BY <1>1, <1>2, <1>3, <1>4, <1>5, <1>6, <1>7

(* An offer puts the snapshot into an empty slot, drops it or meets a full slot.*)
LEMMA OfferLockedKeeps ==
    ASSUME HInv, NEW c \in Clients, OfferLocked(c)
    PROVE  HInv'
<1> USE HubConfig, HubProcesses DEF HInv, Procs, Bridge, Nobody, Empty
<1>1. Types'
  <2>1. mu \in Procs /\ c \in Clients /\ hold[mu] \in Shots /\ Empty \in Shots
    BY DEF OfferLocked, Types, Locks, Shots
  <2>2. queue' \in [Clients -> Shots]
    BY <2>1 DEF OfferLocked, Types
  <2>3. /\ hold' \in [Procs -> Shots] /\ pc' \in [Procs -> Places]
        /\ mu' \in Procs \cup {Nobody}
    BY <2>1 DEF OfferLocked, Offered, Published, Goto, Types, Places
  <2>4. todo' \in SUBSET Clients /\ cur' \in Clients \cup {Nobody}
    BY <2>1 DEF OfferLocked, Offered, Types
  <2>5. lastSequence' \in [Clients -> Nat]
    BY <2>1 DEF OfferLocked, Types, Shots
  <2> QED
    BY <2>2, <2>3, <2>4, <2>5 DEF OfferLocked, source, Types
<1>2. Locks'
  BY DEF OfferLocked, hub, slots, Goto, Offered, Published, Types, Places, Locks
<1>3. Carried'
  BY DEF OfferLocked, Goto, Offered, Published, Types, Carried, Carries, Locks
<1>4. Numbering'
  <2>1. \A p \in Procs : pc'[p] = pc[p] \/ pc'[p] \in {"listening", "serving"}
    BY DEF OfferLocked, Goto, Offered, Published, Types
  <2>2. Beginners' \subseteq Beginners
    BY <2>1 DEF Beginners
  <2>3. pc'[Bridge] \in {"woken", "reading"} => pc[Bridge] \in {"woken", "reading"}
    BY <2>1
  <2> QED
    BY <1>1, <2>2, <2>3, NumberingKept DEF OfferLocked, source, Offered, Published
<1>5. Slots'
  BY DEF OfferLocked, Offered, Types, Shots, Slots, Slot, Carried, Carries
<1>6. Versions'
  <2>1. \A s : InPlay(s)' => InPlay(s)
    BY DEF OfferLocked, Goto, Offered, Published, Types, Locks, InPlay, Carries
  <2>2. \A q \in Procs : pc'[q] = "reading" => pc[q] = "reading" /\ hold'[q] = hold[q]
    BY DEF OfferLocked, Goto, Offered, Published, Types, Locks
  <2>3. sequence' = sequence /\ version' \in Nat /\ version <= version'
    BY DEF OfferLocked, source, Offered, Published, Types
  <2> QED
    BY <1>1, <2>1, <2>2, <2>3, VersionsKept
<1>7. Closing'
  BY DEF OfferLocked, Types, Closing, CloseLeavesNothing, Handlers, Locks
<1> QED
  BY <1>1, <1>2, <1>3, <1>4, <1>5, <1>6, <1>7

(* The snapshot replaces what the slot held, which was offered earlier.    *)
LEMMA ReplaceKeeps ==
    ASSUME HInv, Replace
    PROVE  HInv'
<1> USE HubConfig, HubProcesses DEF HInv, Procs, Bridge, Nobody, Empty
<1>1. Types'
  <2>1. mu \in Procs /\ cur \in Clients /\ hold[mu] \in Shots /\ Empty \in Shots
    BY DEF Replace, Types, Locks, Shots
  <2>2. queue' \in [Clients -> Shots]
    BY <2>1 DEF Replace, Types
  <2>3. /\ hold' \in [Procs -> Shots] /\ pc' \in [Procs -> Places]
        /\ mu' \in Procs \cup {Nobody}
    BY <2>1 DEF Replace, Offered, Published, Goto, Types, Places
  <2>4. todo' \in SUBSET Clients /\ cur' \in Clients \cup {Nobody}
    BY <2>1 DEF Replace, Offered, Types
  <2>5. lastSequence' \in [Clients -> Nat]
    BY <2>1 DEF Replace, Types, Shots
  <2> QED
    BY <2>2, <2>3, <2>4, <2>5 DEF Replace, source, Types
<1>2. Locks'
  BY DEF Replace, hub, slots, Goto, Offered, Published, Types, Places, Locks
<1>3. Carried'
  BY DEF Replace, Goto, Offered, Published, Types, Carried, Carries, Locks
<1>4. Numbering'
  <2>1. Beginners' \subseteq Beginners
    BY DEF Replace, Goto, Offered, Published, Types, Beginners, Locks
  <2>2. pc'[Bridge] \in {"woken", "reading"} => pc[Bridge] \in {"woken", "reading"}
    BY DEF Replace, Goto, Offered, Published, Types, Locks
  <2> QED
    BY <1>1, <2>1, <2>2, NumberingKept DEF Replace, source, Offered, Published
<1>5. Slots'
  BY DEF Replace, Offered, Types, Shots, Slots, Slot, Carried, Carries
<1>6. Versions'
  <2>1. \A s : InPlay(s)' => InPlay(s)
    BY DEF Replace, Goto, Offered, Published, Types, Locks, InPlay, Carries
  <2>2. \A q \in Procs : pc'[q] = "reading" => pc[q] = "reading" /\ hold'[q] = hold[q]
    BY DEF Replace, Goto, Offered, Published, Types, Locks
  <2>3. sequence' = sequence /\ version' \in Nat /\ version <= version'
    BY DEF Replace, source, Offered, Published, Types
  <2> QED
    BY <1>1, <2>1, <2>2, <2>3, VersionsKept
<1>7. Closing'
  BY DEF Replace, Types, Closing, CloseLeavesNothing, Handlers, Locks
<1> QED
  BY <1>1, <1>2, <1>3, <1>4, <1>5, <1>6, <1>7

(* The bridge trades the edge for its next number.                         *)
LEMMA TakeEdgeKeeps ==
    ASSUME HInv, TakeEdge
    PROVE  HInv'
<1> USE HubConfig, HubProcesses DEF HInv, Procs, Bridge, Nobody, Empty
<1>1. Types'
  BY DEF TakeEdge, source, hub, slots, Goto, Types, Places, Shots
<1>2. Locks'
  BY DEF TakeEdge, hub, Goto, Types, Places, Locks
<1>3. Carried'
  BY DEF TakeEdge, Goto, Carried, Carries, Locks
<1>4. Numbering'
  <2>1. /\ Beginners' = Beginners /\ edge = TRUE /\ edge' = FALSE
        /\ ticks' = ticks /\ sequence' = sequence
    BY DEF TakeEdge, Beginners, Goto, Types
  <2>2. pc[Bridge] \notin {"woken", "reading"} /\ pc'[Bridge] \in {"woken", "reading"}
    BY DEF TakeEdge, Goto, Types
  <2>3. Cardinality(Beginners) \in Nat /\ Cardinality(Clients) \in Nat
    BY BeginnersCounted
  <2> QED
    BY <2>1, <2>2, <2>3 DEF Numbering, Types, One
<1>5. Slots'
  BY DEF TakeEdge, hub, slots, Slots, Slot, Carried, Carries
<1>6. Versions'
  <2>1. \A s : InPlay(s)' => InPlay(s)
    BY DEF TakeEdge, slots, Goto, Locks, InPlay, Carries
  <2>2. \A q \in Procs : pc'[q] = "reading" => pc[q] = "reading" /\ hold'[q] = hold[q]
    BY DEF TakeEdge, Goto, Locks
  <2>3. sequence' = sequence /\ version' \in Nat /\ version <= version'
    BY DEF TakeEdge, Goto, Types
  <2> QED
    BY <1>1, <2>1, <2>2, <2>3, VersionsKept
<1>7. Closing'
  BY DEF TakeEdge, hub, Closing, CloseLeavesNothing, Locks
<1> QED
  BY <1>1, <1>2, <1>3, <1>4, <1>5, <1>6, <1>7

(* The bridge ends while it carries nothing.                               *)
LEMMA BridgeStopsKeeps ==
    ASSUME HInv, BridgeStops
    PROVE  HInv'
<1> USE HubConfig, HubProcesses DEF HInv, Procs, Bridge, Nobody, Empty
<1>1. Types'
  BY DEF BridgeStops, source, hub, slots, Goto, Types, Places, Shots
<1>2. Locks'
  BY DEF BridgeStops, hub, Goto, Types, Places, Locks
<1>3. Carried'
  BY DEF BridgeStops, Goto, Carried, Carries, Locks
<1>4. Numbering'
  <2>1. Beginners' \subseteq Beginners
    BY DEF BridgeStops, Goto, Beginners, Locks
  <2>2. pc'[Bridge] \in {"woken", "reading"} => pc[Bridge] \in {"woken", "reading"}
    BY DEF BridgeStops, Goto, Locks
  <2> QED
    BY <1>1, <2>1, <2>2, NumberingKept DEF BridgeStops, source, Goto
<1>5. Slots'
  BY DEF BridgeStops, hub, slots, Slots, Slot, Carried, Carries
<1>6. Versions'
  <2>1. \A s : InPlay(s)' => InPlay(s)
    BY DEF BridgeStops, slots, Goto, Locks, InPlay, Carries
  <2>2. \A q \in Procs : pc'[q] = "reading" => pc[q] = "reading" /\ hold'[q] = hold[q]
    BY DEF BridgeStops, Goto, Locks
  <2>3. sequence' = sequence /\ version' \in Nat /\ version <= version'
    BY DEF BridgeStops, source, Goto, Types
  <2> QED
    BY <1>1, <2>1, <2>2, <2>3, VersionsKept
<1>7. Closing'
  BY DEF BridgeStops, hub, Closing, CloseLeavesNothing, Locks
<1> QED
  BY <1>1, <1>2, <1>3, <1>4, <1>5, <1>6, <1>7

(* A handler is admitted, or turned away by a closed hub.                  *)
LEMMA beginHandlerKeeps ==
    ASSUME HInv, NEW c \in Clients, beginHandler(c)
    PROVE  HInv'
<1> USE HubConfig, HubProcesses DEF HInv, Procs, Bridge, Nobody, Empty
<1>1. Types'
  BY DEF beginHandler, source, hub, slots, Goto, Types, Places, Shots
<1>2. Locks'
  BY DEF beginHandler, hub, Goto, Types, Places, Locks
<1>3. Carried'
  BY DEF beginHandler, Goto, Carried, Carries, Locks
<1>4. Numbering'
  <2>1. Beginners' \subseteq Beginners
    BY DEF beginHandler, Goto, Beginners, Locks
  <2>2. pc'[Bridge] \in {"woken", "reading"} => pc[Bridge] \in {"woken", "reading"}
    BY DEF beginHandler, Goto, Locks
  <2> QED
    BY <1>1, <2>1, <2>2, NumberingKept DEF beginHandler, source, Goto
<1>5. Slots'
  BY DEF beginHandler, hub, slots, Slots, Slot, Carried, Carries
<1>6. Versions'
  <2>1. \A s : InPlay(s)' => InPlay(s)
    BY DEF beginHandler, slots, Goto, Locks, InPlay, Carries
  <2>2. \A q \in Procs : pc'[q] = "reading" => pc[q] = "reading" /\ hold'[q] = hold[q]
    BY DEF beginHandler, Goto, Locks
  <2>3. sequence' = sequence /\ version' \in Nat /\ version <= version'
    BY DEF beginHandler, source, Goto, Types
  <2> QED
    BY <1>1, <2>1, <2>2, <2>3, VersionsKept
<1>7. Closing'
  BY DEF beginHandler, hub, Goto, Closing, CloseLeavesNothing, Handlers, Locks
<1> QED
  BY <1>1, <1>2, <1>3, <1>4, <1>5, <1>6, <1>7

(* A handler whose upgrade failed holds nothing.                           *)
LEMMA AcceptFailsKeeps ==
    ASSUME HInv, NEW c \in Clients, AcceptFails(c)
    PROVE  HInv'
<1> USE HubConfig, HubProcesses DEF HInv, Procs, Bridge, Nobody, Empty
<1>1. Types'
  BY DEF AcceptFails, source, hub, slots, Goto, Types, Places, Shots
<1>2. Locks'
  BY DEF AcceptFails, hub, Goto, Types, Places, Locks
<1>3. Carried'
  BY DEF AcceptFails, Goto, Carried, Carries, Locks
<1>4. Numbering'
  <2>1. Beginners' \subseteq Beginners
    BY DEF AcceptFails, Goto, Beginners, Locks
  <2>2. pc'[Bridge] \in {"woken", "reading"} => pc[Bridge] \in {"woken", "reading"}
    BY DEF AcceptFails, Goto, Locks
  <2> QED
    BY <1>1, <2>1, <2>2, NumberingKept DEF AcceptFails, source, Goto
<1>5. Slots'
  BY DEF AcceptFails, hub, slots, Slots, Slot, Carried, Carries
<1>6. Versions'
  <2>1. \A s : InPlay(s)' => InPlay(s)
    BY DEF AcceptFails, slots, Goto, Locks, InPlay, Carries
  <2>2. \A q \in Procs : pc'[q] = "reading" => pc[q] = "reading" /\ hold'[q] = hold[q]
    BY DEF AcceptFails, Goto, Locks
  <2>3. sequence' = sequence /\ version' \in Nat /\ version <= version'
    BY DEF AcceptFails, source, Goto, Types
  <2> QED
    BY <1>1, <2>1, <2>2, <2>3, VersionsKept
<1>7. Closing'
  BY DEF AcceptFails, hub, Closing, CloseLeavesNothing, Handlers, Locks
<1> QED
  BY <1>1, <1>2, <1>3, <1>4, <1>5, <1>6, <1>7

(* A client is registered while the hub is open.                           *)
LEMMA RegisterKeeps ==
    ASSUME HInv, NEW c \in Clients, Register(c)
    PROVE  HInv'
<1> USE HubConfig, HubProcesses DEF HInv, Procs, Bridge, Nobody, Empty
<1>1. Types'
  <2>1. pc' \in [Procs -> Places]
    <3>1. CASE closed
      BY <3>1 DEF Register, Goto, Types, Places
    <3>2. CASE ~closed
      <4>1. pc' = [pc EXCEPT ![c] = "woken", ![Bridge] = IF @ = "idle" THEN "listening" ELSE @]
        BY <3>2 DEF Register
      <4>2. c # Bridge /\ (pc[Bridge] \in Places)
        BY DEF Types
      <4> QED
        BY <4>1, <4>2 DEF Types, Places
    <3> QED
      BY <3>1, <3>2
  <2>2. clients' \in SUBSET Clients
    BY DEF Register, Types
  <2> QED
    BY <2>1, <2>2 DEF Register, source, slots, Types
<1>2. Locks'
  BY DEF Register, Goto, Types, Places, Locks
<1>3. Carried'
  BY DEF Register, Goto, Types, Carried, Carries, Locks
<1>4. Numbering'
  <2>1. Beginners' \subseteq Beginners
    BY DEF Register, Goto, Types, Beginners, Locks
  <2>2. pc'[Bridge] \in {"woken", "reading"} => pc[Bridge] \in {"woken", "reading"}
    BY DEF Register, Goto, Types, Locks
  <2> QED
    BY <1>1, <2>1, <2>2, NumberingKept DEF Register, source, Goto
<1>5. Slots'
  BY DEF Register, slots, Slots, Slot, Carried, Carries
<1>6. Versions'
  <2>1. \A s : InPlay(s)' => InPlay(s)
    BY DEF Register, slots, Goto, Types, Locks, InPlay, Carries
  <2>2. \A q \in Procs : pc'[q] = "reading" => pc[q] = "reading" /\ hold'[q] = hold[q]
    BY DEF Register, Goto, Types, Locks
  <2>3. sequence' = sequence /\ version' \in Nat /\ version <= version'
    BY DEF Register, source, Goto, Types
  <2> QED
    BY <1>1, <2>1, <2>2, <2>3, VersionsKept
<1>7. Closing'
  BY DEF Register, Closing, CloseLeavesNothing, Handlers, Locks
<1> QED
  BY <1>1, <1>2, <1>3, <1>4, <1>5, <1>6, <1>7

(* What is taken from the slot is no older than what was taken before.     *)
LEMMA TakeKeeps ==
    ASSUME HInv, NEW c \in Clients, Take(c)
    PROVE  HInv'
<1> USE HubConfig, HubProcesses DEF HInv, Procs, Bridge, Nobody, Empty
<1>1. Types'
  BY DEF Take, source, hub, slots, Goto, Types, Places, Shots
<1>2. Locks'
  BY DEF Take, hub, slots, Goto, Types, Places, Locks
<1>3. Carried'
  BY DEF Take, Goto, Carried, Carries, Locks
<1>4. Numbering'
  <2>1. Beginners' \subseteq Beginners
    BY DEF Take, Goto, Beginners, Locks
  <2>2. pc'[Bridge] \in {"woken", "reading"} => pc[Bridge] \in {"woken", "reading"}
    BY DEF Take, Goto, Locks
  <2> QED
    BY <1>1, <2>1, <2>2, NumberingKept DEF Take, source, slots, Goto
<1>5. Slots'
  <2>1. queue[c] \in Shots /\ got[c] \in Shots /\ queue[c] # Empty
    BY DEF Take, Types
  <2>2. seen[c] <= queue[c].version
    <3>1. InPlay(queue[c]) /\ InPlay(got[c])
      BY DEF InPlay
    <3>2. got[c].sequence <= queue[c].sequence
      BY <2>1 DEF Slots, Slot
    <3>3. got[c].version <= queue[c].version
      BY <3>1, <3>2 DEF Versions
    <3>4. seen[c] <= got[c].version /\ seen[c] \in Nat
      BY DEF Slots, Slot, Types
    <3> QED
      BY <2>1, <3>3, <3>4 DEF Shots
  <2>3. /\ got'[c] = queue[c] /\ queue'[c] = Empty
        /\ \A d \in Clients \ {c} : got'[d] = got[d] /\ queue'[d] = queue[d]
    BY DEF Take, Types
  <2>4. UNCHANGED <<lastSequence, cur, hold, mu, seen>>
    BY DEF Take, hub
  <2>5. Slot(c)'
    BY <2>1, <2>2, <2>3, <2>4 DEF Slots, Slot, Types, Shots
  <2>6. \A d \in Clients \ {c} : Slot(d)'
    BY <2>3, <2>4 DEF Slots, Slot
  <2> QED
    BY <2>5, <2>6 DEF Slots
<1>6. Versions'
  <2>1. \A s : InPlay(s)' => InPlay(s)
    BY DEF Take, Goto, Locks, InPlay, Carries
  <2>2. \A q \in Procs : pc'[q] = "reading" => pc[q] = "reading" /\ hold'[q] = hold[q]
    BY DEF Take, Goto, Locks
  <2>3. sequence' = sequence /\ version' \in Nat /\ version <= version'
    BY DEF Take, source, slots, Goto, Types
  <2> QED
    BY <1>1, <2>1, <2>2, <2>3, VersionsKept
<1>7. Closing'
  BY DEF Take, hub, Closing, CloseLeavesNothing, Handlers, Locks
<1> QED
  BY <1>1, <1>2, <1>3, <1>4, <1>5, <1>6, <1>7

(* What is written is what was taken.                                      *)
LEMMA WriteKeeps ==
    ASSUME HInv, NEW c \in Clients, Write(c)
    PROVE  HInv'
<1> USE HubConfig, HubProcesses DEF HInv, Procs, Bridge, Nobody, Empty
<1>1. Types'
  BY DEF Write, source, hub, slots, Goto, Types, Places, Shots
<1>2. Locks'
  BY DEF Write, hub, slots, Goto, Types, Places, Locks
<1>3. Carried'
  BY DEF Write, Goto, Carried, Carries, Locks
<1>4. Numbering'
  <2>1. Beginners' \subseteq Beginners
    BY DEF Write, Goto, Beginners, Locks
  <2>2. pc'[Bridge] \in {"woken", "reading"} => pc[Bridge] \in {"woken", "reading"}
    BY DEF Write, Goto, Locks
  <2> QED
    BY <1>1, <2>1, <2>2, NumberingKept DEF Write, source, slots, Goto
<1>5. Slots'
  BY DEF Write, hub, Types, Shots, Slots, Slot, Carried, Carries
<1>6. Versions'
  <2>1. \A s : InPlay(s)' => InPlay(s)
    BY DEF Write, Goto, Locks, InPlay, Carries
  <2>2. \A q \in Procs : pc'[q] = "reading" => pc[q] = "reading" /\ hold'[q] = hold[q]
    BY DEF Write, Goto, Locks
  <2>3. sequence' = sequence /\ version' \in Nat /\ version <= version'
    BY DEF Write, source, slots, Goto, Types
  <2> QED
    BY <1>1, <2>1, <2>2, <2>3, VersionsKept
<1>7. Closing'
  BY DEF Write, hub, Closing, CloseLeavesNothing, Handlers, Locks
<1> QED
  BY <1>1, <1>2, <1>3, <1>4, <1>5, <1>6, <1>7

(* A handler stops serving.                                                *)
LEMMA LeaveKeeps ==
    ASSUME HInv, NEW c \in Clients, Leave(c)
    PROVE  HInv'
<1> USE HubConfig, HubProcesses DEF HInv, Procs, Bridge, Nobody, Empty
<1>1. Types'
  BY DEF Leave, source, hub, slots, Goto, Types, Places, Shots
<1>2. Locks'
  BY DEF Leave, hub, Goto, Types, Places, Locks
<1>3. Carried'
  BY DEF Leave, Goto, Carried, Carries, Locks
<1>4. Numbering'
  <2>1. Beginners' \subseteq Beginners
    BY DEF Leave, Goto, Beginners, Locks
  <2>2. pc'[Bridge] \in {"woken", "reading"} => pc[Bridge] \in {"woken", "reading"}
    BY DEF Leave, Goto, Locks
  <2> QED
    BY <1>1, <2>1, <2>2, NumberingKept DEF Leave, source, Goto
<1>5. Slots'
  BY DEF Leave, hub, slots, Slots, Slot, Carried, Carries
<1>6. Versions'
  <2>1. \A s : InPlay(s)' => InPlay(s)
    BY DEF Leave, slots, Goto, Locks, InPlay, Carries
  <2>2. \A q \in Procs : pc'[q] = "reading" => pc[q] = "reading" /\ hold'[q] = hold[q]
    BY DEF Leave, Goto, Locks
  <2>3. sequence' = sequence /\ version' \in Nat /\ version <= version'
    BY DEF Leave, source, Goto, Types
  <2> QED
    BY <1>1, <2>1, <2>2, <2>3, VersionsKept
<1>7. Closing'
  BY DEF Leave, hub, Closing, CloseLeavesNothing, Handlers, Locks
<1> QED
  BY <1>1, <1>2, <1>3, <1>4, <1>5, <1>6, <1>7

(* The client's fields go with it.                                         *)
LEMMA UnregisterKeeps ==
    ASSUME HInv, NEW c \in Clients, Unregister(c)
    PROVE  HInv'
<1> USE HubConfig, HubProcesses DEF HInv, Procs, Bridge, Nobody, Empty
<1>1. Types'
  BY DEF Unregister, source, hub, slots, Goto, Types, Places, Shots
<1>2. Locks'
  BY DEF Unregister, hub, slots, Goto, Types, Places, Locks
<1>3. Carried'
  BY DEF Unregister, Goto, Carried, Carries, Locks
<1>4. Numbering'
  <2>1. Beginners' \subseteq Beginners
    BY DEF Unregister, Goto, Beginners, Locks
  <2>2. pc'[Bridge] \in {"woken", "reading"} => pc[Bridge] \in {"woken", "reading"}
    BY DEF Unregister, Goto, Locks
  <2> QED
    BY <1>1, <2>1, <2>2, NumberingKept DEF Unregister, source, hub, slots, Goto
<1>5. Slots'
  BY DEF Unregister, Types, Slots, Slot, Locks, Carried, Carries
<1>6. Versions'
  <2>1. \A s : InPlay(s)' => InPlay(s)
    BY DEF Unregister, Goto, Locks, InPlay, Carries
  <2>2. \A q \in Procs : pc'[q] = "reading" => pc[q] = "reading" /\ hold'[q] = hold[q]
    BY DEF Unregister, Goto, Locks
  <2>3. sequence' = sequence /\ version' \in Nat /\ version <= version'
    BY DEF Unregister, source, hub, slots, Goto, Types
  <2> QED
    BY <1>1, <2>1, <2>2, <2>3, VersionsKept
<1>7. Closing'
  BY DEF Unregister, Closing, CloseLeavesNothing, Handlers, Locks
<1> QED
  BY <1>1, <1>2, <1>3, <1>4, <1>5, <1>6, <1>7

(* Only a context changes.                                                 *)
LEMMA PeerLeavesKeeps ==
    ASSUME HInv, NEW c \in Clients, PeerLeaves(c)
    PROVE  HInv'
<1> USE HubConfig, HubProcesses DEF HInv, Procs, Bridge, Nobody, Empty
<1>1. Types'
  BY DEF PeerLeaves, source, hub, slots, Types, Shots
<1>2. Locks'
  BY DEF PeerLeaves, hub, Types, Places, Locks
<1>3. Carried'
  BY DEF PeerLeaves, Carried, Carries, Locks
<1>4. Numbering'
  <2>1. Beginners' \subseteq Beginners
    BY DEF PeerLeaves, Beginners, Locks
  <2>2. pc'[Bridge] \in {"woken", "reading"} => pc[Bridge] \in {"woken", "reading"}
    BY DEF PeerLeaves, Locks
  <2> QED
    BY <1>1, <2>1, <2>2, NumberingKept DEF PeerLeaves, source, Goto, Handlers
<1>5. Slots'
  BY DEF PeerLeaves, hub, slots, Slots, Slot, Carried, Carries
<1>6. Versions'
  <2>1. \A s : InPlay(s)' => InPlay(s)
    BY DEF PeerLeaves, slots, Locks, InPlay, Carries
  <2>2. \A q \in Procs : pc'[q] = "reading" => pc[q] = "reading" /\ hold'[q] = hold[q]
    BY DEF PeerLeaves, Locks
  <2>3. sequence' = sequence /\ version' \in Nat /\ version <= version'
    BY DEF PeerLeaves, source, Goto, Handlers, Types
  <2> QED
    BY <1>1, <2>1, <2>2, <2>3, VersionsKept
<1>7. Closing'
  BY DEF PeerLeaves, hub, Closing, CloseLeavesNothing, Handlers, Locks
<1> QED
  BY <1>1, <1>2, <1>3, <1>4, <1>5, <1>6, <1>7

(* Closing takes all clients.                                              *)
LEMMA CloseKeeps ==
    ASSUME HInv, Close
    PROVE  HInv'
<1> USE HubConfig, HubProcesses DEF HInv, Procs, Bridge, Nobody, Empty
<1>1. Types'
  BY DEF Close, source, slots, Types, Shots
<1>2. Locks'
  BY DEF Close, Goto, Types, Places, Locks
<1>3. Carried'
  BY DEF Close, Carried, Carries, Locks
<1>4. Numbering'
  <2>1. Beginners' \subseteq Beginners
    BY DEF Close, Beginners, Locks
  <2>2. pc'[Bridge] \in {"woken", "reading"} => pc[Bridge] \in {"woken", "reading"}
    BY DEF Close, Locks
  <2> QED
    BY <1>1, <2>1, <2>2, NumberingKept DEF Close, source, hub, slots, Goto
<1>5. Slots'
  BY DEF Close, slots, Slots, Slot, Carried, Carries
<1>6. Versions'
  <2>1. \A s : InPlay(s)' => InPlay(s)
    BY DEF Close, slots, Locks, InPlay, Carries
  <2>2. \A q \in Procs : pc'[q] = "reading" => pc[q] = "reading" /\ hold'[q] = hold[q]
    BY DEF Close, Locks
  <2>3. sequence' = sequence /\ version' \in Nat /\ version <= version'
    BY DEF Close, source, hub, slots, Goto, Types
  <2> QED
    BY <1>1, <2>1, <2>2, <2>3, VersionsKept
<1>7. Closing'
  BY DEF Close, Closing, CloseLeavesNothing, Locks
<1> QED
  BY <1>1, <1>2, <1>3, <1>4, <1>5, <1>6, <1>7

(* Only contexts and the call of Close change.                             *)
LEMMA CancelAllKeeps ==
    ASSUME HInv, CancelAll
    PROVE  HInv'
<1> USE HubConfig, HubProcesses DEF HInv, Procs, Bridge, Nobody, Empty
<1>1. Types'
  BY DEF CancelAll, source, slots, Types, Shots
<1>2. Locks'
  BY DEF CancelAll, Goto, Types, Places, Locks
<1>3. Carried'
  BY DEF CancelAll, Carried, Carries, Locks
<1>4. Numbering'
  <2>1. Beginners' \subseteq Beginners
    BY DEF CancelAll, Beginners, Locks
  <2>2. pc'[Bridge] \in {"woken", "reading"} => pc[Bridge] \in {"woken", "reading"}
    BY DEF CancelAll, Locks
  <2> QED
    BY <1>1, <2>1, <2>2, NumberingKept DEF CancelAll, source, hub, slots, Goto
<1>5. Slots'
  BY DEF CancelAll, slots, Slots, Slot, Carried, Carries
<1>6. Versions'
  <2>1. \A s : InPlay(s)' => InPlay(s)
    BY DEF CancelAll, slots, Locks, InPlay, Carries
  <2>2. \A q \in Procs : pc'[q] = "reading" => pc[q] = "reading" /\ hold'[q] = hold[q]
    BY DEF CancelAll, Locks
  <2>3. sequence' = sequence /\ version' \in Nat /\ version <= version'
    BY DEF CancelAll, source, hub, slots, Goto, Types
  <2> QED
    BY <1>1, <2>1, <2>2, <2>3, VersionsKept
<1>7. Closing'
  BY DEF CancelAll, Closing, CloseLeavesNothing, Locks
<1> QED
  BY <1>1, <1>2, <1>3, <1>4, <1>5, <1>6, <1>7

(* Close returns when nobody is left.                                      *)
LEMMA CloseReturnsKeeps ==
    ASSUME HInv, CloseReturns
    PROVE  HInv'
<1> USE HubConfig, HubProcesses DEF HInv, Procs, Bridge, Nobody, Empty
<1>1. Types'
  BY DEF CloseReturns, source, hub, slots, Types, Shots
<1>2. Locks'
  BY DEF CloseReturns, hub, Types, Places, Locks
<1>3. Carried'
  BY DEF CloseReturns, Carried, Carries, Locks
<1>4. Numbering'
  <2>1. Beginners' \subseteq Beginners
    BY DEF CloseReturns, Beginners, Locks
  <2>2. pc'[Bridge] \in {"woken", "reading"} => pc[Bridge] \in {"woken", "reading"}
    BY DEF CloseReturns, Locks
  <2> QED
    BY <1>1, <2>1, <2>2, NumberingKept DEF CloseReturns, source, Goto, Handlers
<1>5. Slots'
  BY DEF CloseReturns, hub, slots, Slots, Slot, Carried, Carries
<1>6. Versions'
  <2>1. \A s : InPlay(s)' => InPlay(s)
    BY DEF CloseReturns, slots, Locks, InPlay, Carries
  <2>2. \A q \in Procs : pc'[q] = "reading" => pc[q] = "reading" /\ hold'[q] = hold[q]
    BY DEF CloseReturns, Locks
  <2>3. sequence' = sequence /\ version' \in Nat /\ version <= version'
    BY DEF CloseReturns, source, Goto, Handlers, Types
  <2> QED
    BY <1>1, <2>1, <2>2, <2>3, VersionsKept
<1>7. Closing'
  BY DEF CloseReturns, hub, Closing, CloseLeavesNothing, Handlers, Locks
<1> QED
  BY <1>1, <1>2, <1>3, <1>4, <1>5, <1>6, <1>7

-----------------------------------------------------------------------------
(* The invariant holds                                                     *)

(* A fresh hub: nobody is connected and nothing is numbered.               *)
LEMMA InitHolds == Init => HInv
<1> SUFFICES ASSUME Init PROVE HInv
  OBVIOUS
<1> USE HubConfig, HubProcesses DEF Init, Procs, Bridge, Nobody, Empty
<1>1. Types
  <2>1. Empty \in Shots
    BY DEF Shots
  <2>2. /\ hold \in [Procs -> Shots]
        /\ queue \in [Clients -> Shots] /\ got \in [Clients -> Shots]
    BY <2>1
  <2>3. pc \in [Procs -> Places] /\ ctxDone \in [Procs -> BOOLEAN]
    BY DEF Places
  <2>4. lastSequence \in [Clients -> Nat] /\ seen \in [Clients -> 0..MaxVersion]
    OBVIOUS
  <2>5. version \in 0..MaxVersion /\ ticks \in 0..MaxTicks
    OBVIOUS
  <2> QED
    BY <2>2, <2>3, <2>4, <2>5 DEF Types
<1>2. Locks /\ Carried /\ Slots /\ Closing
  BY DEF Locks, Carried, Carries, Slots, Slot, Closing, CloseLeavesNothing
<1>3. Numbering
  <2>1. Beginners = Clients
    BY DEF Beginners
  <2>2. Cardinality(Clients) \in Nat
    BY FS_CardinalityType
  <2> QED
    BY <2>1, <2>2 DEF Numbering, One
<1>4. Versions
  <2>1. \A s : InPlay(s) => s = Empty
    BY DEF InPlay, Carries
  <2> QED
    BY <2>1 DEF Versions
<1> QED
  BY <1>1, <1>2, <1>3, <1>4 DEF HInv

(* Every step keeps it.                                                    *)
LEMMA NextKeeps ==
    ASSUME HInv, [Next]_vars
    PROVE  HInv'
<1>1. CASE UNCHANGED vars
  BY <1>1 DEF vars, HInv, Types, Locks, Carried, Carries, Numbering, Beginners, Slots, Slot,
              Versions, InPlay, Closing, CloseLeavesNothing, Handlers
<1>2. ASSUME NEW p \in Procs, Snapshots(p)
      PROVE  HInv'
  BY <1>2, CaptureKeeps, NumberKeeps, CaptureFailsKeeps, PublishKeeps DEF Snapshots
<1>3. ASSUME NEW c \in Clients, beginHandler(c) \/ Handle(c) \/ PeerLeaves(c)
      PROVE  HInv'
  <2>1. c \in Procs
    BY DEF Procs
  <2> QED
    BY <1>2, <1>3, <2>1, beginHandlerKeeps, AcceptFailsKeeps, RegisterKeeps, TakeKeeps,
       WriteKeeps, LeaveKeeps, UnregisterKeeps, PeerLeavesKeeps DEF Handle
<1>4. CASE RunBridge
  <2>1. Bridge \in Procs
    BY DEF Procs
  <2> QED
    BY <1>2, <1>4, <2>1, TakeEdgeKeeps, BridgeStopsKeeps DEF RunBridge
<1>5. CASE Offers
  BY <1>5, OfferLockedKeeps, ReplaceKeeps DEF Offers
<1>6. CASE Tick \/ Read \/ Close \/ CancelAll \/ CloseReturns
  BY <1>6, TickKeeps, ReadKeeps, CloseKeeps, CancelAllKeeps, CloseReturnsKeeps
<1>7. CASE Quiescent
  BY <1>1, <1>7 DEF Quiescent
<1> QED
  BY <1>1, <1>3, <1>4, <1>5, <1>6, <1>7 DEF Next

(* The inductive invariant holds in every reachable state of the hub       *)
(* (internal/realtime/hub.go, handler.go), whatever its processes do.      *)
THEOREM Inductive == SafetySpec => []HInv
  BY InitHolds, NextKeeps, PTL DEF SafetySpec

-----------------------------------------------------------------------------
(* What follows from it                                                    *)

(* The numbers in play are at most the edges taken and the handlers begun. *)
LEMMA TypeFollows == HInv => TypeOK
<1> SUFFICES ASSUME HInv PROVE TypeOK
  OBVIOUS
<1> DEFINE top == MaxTicks + Cardinality(Clients)
<1>1. sequence \in Nat /\ sequence <= top /\ top \in Nat
  <2>1. Cardinality(Beginners) \in Nat /\ Cardinality(Clients) \in Nat
    BY BeginnersCounted DEF HInv
  <2> QED
    BY <2>1, HubConfig DEF HInv, Numbering, Types, One
<1> HIDE DEF top
<1>2. \A s \in Shots : s.sequence <= sequence => s \in [sequence: 0..top, version: 0..MaxVersion]
  BY <1>1 DEF Shots
<1>3. \A s : InPlay(s) => s \in Shots /\ s.sequence <= sequence
  BY ShotsInPlay DEF HInv, Versions
<1>4. \A c \in Clients : InPlay(queue[c]) /\ InPlay(got[c])
  BY DEF InPlay
<1>5. \A p \in Procs : hold[p] \in Shots /\ hold[p].sequence <= sequence
  <2> SUFFICES ASSUME NEW p \in Procs
               PROVE  hold[p] \in Shots /\ hold[p].sequence <= sequence
    OBVIOUS
  <2>1. hold[p] \in Shots
    BY DEF HInv, Types
  <2>2. CASE Carries(p)
    BY <1>3, <2>2 DEF InPlay
  <2>3. CASE ~Carries(p)
    BY <1>1, <2>1, <2>3 DEF HInv, Carried, Shots
  <2> QED
    BY <2>1, <2>2, <2>3
<1>6. hold \in [Procs -> Snapshot]
  BY <1>2, <1>5 DEF HInv, Types, Snapshot, top
<1>7. queue \in [Clients -> Snapshot] /\ got \in [Clients -> Snapshot]
  BY <1>2, <1>3, <1>4 DEF HInv, Types, Snapshot, top
<1> QED
  BY <1>6, <1>7 DEF HInv, Types, Locks, TypeOK

(* No number runs past one for every edge and one for every handler, every *)
(* field has its type, and each mutex is held exactly where the code holds *)
(* it (capture, publish and offerLocked, hub.go).                          *)
THEOREM TypeCorrect == SafetySpec => []TypeOK
  BY Inductive, TypeFollows, PTL

(* For any number of clients the newest snapshot offered to one is in its  *)
(* slot or was taken from it (offerLocked, hub.go:189-207).                *)
THEOREM NewestIsKept == SafetySpec => []NewestKept
<1>1. HInv => NewestKept
  BY DEF HInv, Slots, Slot, NewestKept
<1> QED
  BY <1>1, Inductive, PTL

(* However many clients connect while Close runs, none is left when it has *)
(* returned (beginHandler, register and Close, hub.go).                    *)
THEOREM NothingIsLeft == SafetySpec => []CloseLeavesNothing
<1>1. HInv => CloseLeavesNothing
  BY DEF HInv, Closing
<1> QED
  BY <1>1, Inductive, PTL

(* Only a write and the end of the handler change what a client has seen.  *)
LEMMA SeenRises ==
    ASSUME HInv, [Next]_vars
    PROVE  \A c \in Clients : pc'[c] # "gone" => seen[c] <= seen'[c]
<1> SUFFICES ASSUME NEW c \in Clients, pc'[c] # "gone"
             PROVE  seen[c] <= seen'[c]
  OBVIOUS
<1>1. seen[c] \in Nat /\ seen[c] <= got[c].version
  BY HubConfig DEF HInv, Types, Slots, Slot
<1>2. ASSUME NEW d \in Clients, Write(d)
      PROVE  seen[c] <= seen'[c]
  BY <1>1, <1>2 DEF Write, HInv, Types
<1>3. ASSUME NEW d \in Clients, Unregister(d)
      PROVE  seen[c] <= seen'[c]
  <2>1. c # d
    BY <1>3, HubProcesses DEF Unregister, Goto, HInv, Types, Procs
  <2> QED
    BY <1>1, <1>3, <2>1 DEF Unregister, HInv, Types
<1>4. \/ UNCHANGED seen
      \/ \E d \in Clients : Write(d) \/ Unregister(d)
  <2>1. \A p \in Procs : Snapshots(p) => UNCHANGED seen
    BY DEF Snapshots, Capture, Number, CaptureFails, Publish, slots
  <2>2. RunBridge => UNCHANGED seen
    BY <2>1 DEF RunBridge, TakeEdge, BridgeStops, slots, Procs
  <2>3. Offers => UNCHANGED seen
    BY DEF Offers, OfferLocked, Replace
  <2>4. \A d \in Clients : beginHandler(d) \/ Handle(d) \/ PeerLeaves(d) =>
            UNCHANGED seen \/ Write(d) \/ Unregister(d)
    BY <2>1 DEF beginHandler, Handle, PeerLeaves, AcceptFails, Register, Take, Leave, slots, Procs
  <2>5. Tick \/ Read \/ Close \/ CancelAll \/ CloseReturns \/ Quiescent \/ UNCHANGED vars
            => UNCHANGED seen
    BY DEF Tick, Read, Close, CancelAll, CloseReturns, Quiescent, slots, vars
  <2> QED
    BY <2>2, <2>3, <2>4, <2>5 DEF Next
<1> QED
  BY <1>1, <1>2, <1>3, <1>4

(* No client is ever shown an older state after a newer one: the state is  *)
(* read and numbered under one hold of snapshotMu and offerLocked refuses  *)
(* a number that is not above the last (hub.go).                           *)
THEOREM ClientsNeverGoBack == SafetySpec => NeverGoesBack
<1>1. HInv /\ [Next]_vars => [\A c \in Clients : pc'[c] # "gone" => seen[c] <= seen'[c]]_vars
  BY SeenRises
<1> QED
  BY <1>1, Inductive, PTL DEF SafetySpec, NeverGoesBack

=============================================================================
