------------------------- MODULE ChangesCaptureProofs -------------------------
(***************************************************************************)
(* ChangesCapture for any windows, connections, servers, UUIDs, instants   *)
(* and limits: one connection has one server ID, and a payload shows       *)
(* snapshots of one server, forwards in time, beside the history that      *)
(* holds them unless retention has dropped them.                           *)
(***************************************************************************)
EXTENDS ChangesCapture, SnapshotOrderTheorems

(***************************************************************************)
(* The inductive invariant.                                                *)
(***************************************************************************)

\* The snapshots that a later step can still store or show.
Held(w) ==
  (scan[w].previous \cup scan[w].current) \cup (query[w].previous \cup query[w].current)
Known == (UNION {hist[s] : s \in ServerIds}) \cup (UNION {Held(w) : w \in Windows})

\* UUIDs tell them apart, and the clock is past all of them.
KnownInv == DistinctIds(Known) /\ \A m \in Known : m.at <= clock

\* A history belongs to the server it is stored under.
HistoryInv ==
  \A s \in ServerIds : IsFiniteSet(hist[s]) /\ \A m \in hist[s] : owner[m.id] = s

\* A window that registers a connection holds the lock, and nobody else has
\* registered that connection since it looked.
RegisterInv ==
  \A w \in Windows : At(w, "registering") =>
    /\ idLock = {w} /\ scan[w].server = None
    /\ scan[w].target \in Connections /\ identities[scan[w].target] = None

\* What a capture holds is of its server, in time order, and what it read or
\* saved is still stored or was dropped for newer ones.
ScanSound(x) ==
  /\ x.pc # "idle" => x.fp \in Fingerprints
  /\ x.pc \notin {"idle", "registering"} => x.server \in ServerIds
  /\ x.pc \in {"registering", "reading", "projecting"} => x.current = {} /\ ~x.saved
  /\ \A m \in x.previous \cup x.current : x.server \in ServerIds /\ owner[m.id] = x.server
  /\ \A m \in x.previous \cup (IF x.saved THEN x.current ELSE {}) : Kept(m, hist[x.server])
  /\ \A p \in x.previous, c \in x.current : p.at <= c.at
ScanInv == \A w \in Windows : ScanSound(scan[w])

\* So is what a comparison has loaded.
QuerySound(x) ==
  /\ x.pc # "idle" => x.server \in ServerIds
  /\ \A m \in x.previous \cup x.current :
       x.server \in ServerIds /\ owner[m.id] = x.server /\ Kept(m, hist[x.server])
QueryInv == \A w \in Windows : QuerySound(query[w])

\* A window that has shown something, or is about to, has an active server.
ActiveInv ==
  \A w \in Windows :
    Payloads(w) # {} \/ ~Asked(w, "idle") \/ At(w, "showing") => active[w] \in ServerIds

PayloadSound(p) ==
  /\ \A m \in p.previous \cup {p.current} \cup p.history : owner[m.id] = p.server
  /\ \A m \in p.previous : m.at <= p.current.at
  /\ \A m \in p.previous \cup (IF p.persisted THEN {p.current} ELSE {}) : Kept(m, p.history)
PayloadInv == \A w \in Windows : \A p \in Payloads(w) : PayloadSound(p)

CaptureIInv ==
  /\ CaptureInv /\ HistoryInv /\ KnownInv /\ RegisterInv
  /\ ScanInv /\ QueryInv /\ ActiveInv /\ PayloadInv

(***************************************************************************)
(* Types.                                                                  *)
(***************************************************************************)
LEMMA KnownIs ==
  /\ \A s \in ServerIds : hist[s] \subseteq Known
  /\ \A w \in Windows : Held(w) \subseteq Known
  /\ \A m \in Known :
       \/ \E s \in ServerIds : m \in hist[s]
       \/ \E w \in Windows : m \in Held(w)
BY DEF Known

LEMMA HeldIs ==
  \A w \in Windows :
    /\ scan[w].previous \subseteq Known /\ scan[w].current \subseteq Known
    /\ query[w].previous \subseteq Known /\ query[w].current \subseteq Known
BY KnownIs DEF Held

LEMMA KnownTyped ==
  ASSUME TypeOK
  PROVE  Known \subseteq Snapshot
<1>1. \A s \in ServerIds : hist[s] \subseteq Snapshot
  BY DEF TypeOK
<1>2. \A A \in AtMostOne : A \subseteq Snapshot
  BY DEF AtMostOne
<1>3. \A w \in Windows : scan[w] \in Scan /\ query[w] \in Query
  BY DEF TypeOK
<1>4. \A w \in Windows : /\ scan[w].previous \subseteq Snapshot /\ scan[w].current \subseteq Snapshot
                         /\ query[w].previous \subseteq Snapshot
                         /\ query[w].current \subseteq Snapshot
  BY <1>2, <1>3 DEF Scan, Query
<1>5. \A w \in Windows : Held(w) \subseteq Snapshot
  BY <1>4 DEF Held
<1> QED
  BY <1>1, <1>5, KnownIs

LEMMA HistoryTyped ==
  ASSUME TypeOK, KnownInv, NEW s \in ServerIds
  PROVE  /\ hist[s] \in SUBSET Snapshot /\ DistinctIds(hist[s])
         /\ First(hist[s]) \in AtMostOne /\ First(hist[s]) \subseteq hist[s]
<1>1. hist[s] \in SUBSET Snapshot
  BY DEF TypeOK
<1>2. DistinctIds(hist[s])
  BY KnownIs DEF KnownInv, DistinctIds
<1>3. First(hist[s]) \subseteq hist[s]
  BY DEF First
<1>4. \A a, b \in First(hist[s]) : a = b
  BY <1>1, <1>2, FirstUnique
<1>5. First(hist[s]) = {} \/ \E a \in First(hist[s]) : First(hist[s]) = {a}
  BY <1>4
<1> QED
  BY <1>1, <1>2, <1>3, <1>5 DEF AtMostOne

LEMMA LoadedTyped ==
  ASSUME TypeOK, KnownInv, NEW w \in Windows, query[w].server \in ServerIds, NEW n
  PROVE  Loaded(w, n) \in AtMostOne /\ Loaded(w, n) \subseteq hist[query[w].server]
<1>1. /\ Loaded(w, n) \subseteq hist[query[w].server]
      /\ \A m \in Loaded(w, n) : m.id = query[w].ids[n]
  BY DEF Loaded
<1>2. \A a, b \in Loaded(w, n) : a = b
  BY <1>1, HistoryTyped DEF DistinctIds
<1>3. Loaded(w, n) = {} \/ \E a \in Loaded(w, n) : Loaded(w, n) = {a}
  BY <1>2
<1> QED
  BY <1>1, <1>3, HistoryTyped DEF AtMostOne

\* A payload of one server.
LEMMA PayloadTyped ==
  ASSUME TypeOK, NEW s \in ServerIds, NEW previous \in AtMostOne, NEW current \in Snapshot,
         NEW persisted \in BOOLEAN
  PROVE  PayloadOf(s, previous, current, persisted, s) \in Payload
<1>1. Status(previous, current) \in Statuses
  BY DEF Status, Statuses
<1>2. hist[s] \in SUBSET Snapshot
  BY DEF TypeOK
<1> QED
  BY <1>1, <1>2 DEF PayloadOf, Payload

LEMMA ScanTyped ==
  ASSUME TypeOK, KnownInv, ScanInv, RegisterInv, NEW w \in Windows,
         \/ \E c \in Connections, f \in Fingerprints : Resolve(w, c, f)
         \/ Register(w) \/ ReadBaseline(w) \/ Project(w) \/ Save(w)
         \/ Activate(w) \/ Show(w) \/ CaptureFails(w)
  PROVE  scan'[w] \in Scan /\ scan' = [scan EXCEPT ![w] = scan'[w]]
<1> USE DEF store, identity, outcome, At, Goto
<1>1. scan[w] \in Scan /\ scan \in [Windows -> Scan] /\ IdleScan \in Scan
  BY DEF TypeOK, IdleScan, Scan, AtMostOne, MaybeServer
<1>2. ASSUME NEW c \in Connections, NEW f \in Fingerprints, Resolve(w, c, f)
      PROVE  scan'[w] \in Scan /\ scan' = [scan EXCEPT ![w] = scan'[w]]
  <2>1. identities[c] \in MaybeServer
    BY DEF TypeOK
  <2> QED
    BY <1>1, <1>2, <2>1 DEF Resolve, Scan, IdleScan
<1>3. CASE Register(w)
  <2>1. PICK s \in ServerIds : scan' = [scan EXCEPT ![w].pc = "reading", ![w].server = s]
    BY <1>3 DEF Register
  <2> QED
    BY <1>1, <2>1 DEF Scan, MaybeServer
<1>4. CASE ReadBaseline(w)
  <2>1. scan[w].server \in ServerIds
    BY <1>4 DEF ReadBaseline, ScanInv, ScanSound
  <2>2. First(hist[scan[w].server]) \in AtMostOne
    BY <2>1, HistoryTyped
  <2> QED
    BY <1>1, <1>4, <2>2 DEF ReadBaseline, Scan
<1>5. CASE Project(w)
  <2>1. PICK i \in NextId, a \in Times \cap {clock, clock + 1} :
           scan' = [scan EXCEPT ![w].pc = "saving",
                                ![w].current = {[id |-> i, at |-> a, fp |-> scan[w].fp]}]
    BY <1>5 DEF Project
  <2>2. scan[w].fp \in Fingerprints
    BY <1>5 DEF Project, ScanInv, ScanSound
  <2>3. [id |-> i, at |-> a, fp |-> scan[w].fp] \in Snapshot
    BY <2>1, <2>2 DEF Snapshot, NextId
  <2> QED
    BY <1>1, <2>1, <2>3 DEF Scan, AtMostOne
<1>6. CASE Save(w)
  BY <1>1, <1>6 DEF Save, Scan
<1>7. CASE Activate(w)
  BY <1>1, <1>7 DEF Activate, Scan
<1>8. CASE Show(w)
  BY <1>1, <1>8 DEF Show
<1>9. CASE CaptureFails(w)
  BY <1>1, <1>9 DEF CaptureFails
<1> QED
  BY <1>2, <1>3, <1>4, <1>5, <1>6, <1>7, <1>8, <1>9

LEMMA QueryTyped ==
  ASSUME TypeOK, KnownInv, QueryInv, NEW w \in Windows,
         \/ \E older, newer \in Ids : AskCompare(w, older, newer)
         \/ ListHistory(w) \/ LoadPrevious(w) \/ LoadCurrent(w) \/ ShowComparison(w)
  PROVE  query'[w] \in Query /\ query' = [query EXCEPT ![w] = query'[w]]
<1> USE DEF Asked, Refuse
<1>1. query[w] \in Query /\ query \in [Windows -> Query] /\ IdleQuery \in Query
  BY DEF TypeOK, IdleQuery, Query, AtMostOne, MaybeServer
<1>2. query' = [query EXCEPT ![w] = IdleQuery]
        => query'[w] \in Query /\ query' = [query EXCEPT ![w] = query'[w]]
  BY <1>1
<1>3. ASSUME NEW older \in Ids, NEW newer \in Ids, AskCompare(w, older, newer)
      PROVE  query'[w] \in Query /\ query' = [query EXCEPT ![w] = query'[w]]
  <2>1. active[w] \in MaybeServer
    BY DEF TypeOK
  <2>2. [IdleQuery EXCEPT !.pc = "listing", !.ids = <<older, newer>>, !.server = active[w]] \in Query
    BY <2>1 DEF IdleQuery, Query, AtMostOne
  <2> QED
    BY <1>1, <1>3, <2>2 DEF AskCompare
<1>4. CASE ListHistory(w)
  BY <1>1, <1>2, <1>4 DEF ListHistory, Query
<1>5. ASSUME ~Asked(w, "idle")
      PROVE  \A n \in {1, 2} : Loaded(w, n) \in AtMostOne
  BY <1>5, LoadedTyped DEF QueryInv, QuerySound
<1>6. CASE LoadPrevious(w)
  BY <1>1, <1>5, <1>6 DEF LoadPrevious, Query
<1>7. CASE LoadCurrent(w)
  BY <1>1, <1>2, <1>5, <1>7 DEF LoadCurrent, Query
<1>8. CASE ShowComparison(w)
  BY <1>2, <1>8 DEF ShowComparison
<1> QED
  BY <1>3, <1>4, <1>6, <1>7, <1>8

\* What a step stores and shows.
LEMMA StoreTyped ==
  ASSUME TypeOK, KnownInv, ScanInv, QueryInv, [Next]_vars
  PROVE  /\ hist' \in [ServerIds -> SUBSET Snapshot] /\ owner' \in [Ids -> MaybeServer]
         /\ clock' \in Times \cup {0}
         /\ latest' \in [Windows -> SUBSET Payload] /\ reply' \in [Windows -> SUBSET Payload]
<1> USE DEF store, identity, outcome, TypeOK
<1>1. ASSUME NEW w \in Windows, Project(w)
      PROVE  owner' \in [Ids -> MaybeServer] /\ clock' \in Times \cup {0}
  <2>1. scan[w].server \in MaybeServer
    BY DEF Scan
  <2> QED
    BY <1>1, <2>1 DEF Project
<1>2. ASSUME NEW w \in Windows, Save(w) PROVE hist' \in [ServerIds -> SUBSET Snapshot]
  <2>1. scan[w].current \subseteq Snapshot
    BY HeldIs, KnownTyped
  <2>2. \A S \in SUBSET Snapshot : Retained(S) \in SUBSET Snapshot
    BY DEF Retained
  <2> QED
    BY <1>2, <2>1, <2>2 DEF Save
<1>3. ASSUME NEW w \in Windows, Show(w) PROVE latest' \in [Windows -> SUBSET Payload]
  <2>1. PICK current \in scan[w].current :
           latest' = [latest EXCEPT ![w] =
             {PayloadOf(scan[w].server, scan[w].previous, current, scan[w].saved, scan[w].server)}]
    BY <1>3 DEF Show, Baseline
  <2>2. scan[w].server \in ServerIds
    BY <1>3 DEF Show, At, ScanInv, ScanSound
  <2>3. scan[w].previous \in AtMostOne /\ scan[w].saved \in BOOLEAN /\ current \in Snapshot
    BY HeldIs, KnownTyped DEF Scan
  <2>4. PayloadOf(scan[w].server, scan[w].previous, current, scan[w].saved, scan[w].server)
          \in Payload
    BY <2>2, <2>3, PayloadTyped
  <2> QED
    BY <2>1, <2>4
<1>4. ASSUME NEW w \in Windows, ShowComparison(w) PROVE reply' \in [Windows -> SUBSET Payload]
  <2>1. PICK c \in query[w].current :
           LET payload == PayloadOf(query[w].server, query[w].previous, c, TRUE, query[w].server)
           IN  reply' = [reply EXCEPT ![w] =
                 IF payload.status \in {"SERVER_MISMATCH", "INVALID_TIME_ORDER"} THEN @ ELSE {payload}]
    BY <1>4 DEF ShowComparison, HistoryServer
  <2>2. query[w].server \in ServerIds
    BY <1>4 DEF ShowComparison, Asked, QueryInv, QuerySound
  <2>3. query[w].previous \in AtMostOne /\ c \in Snapshot
    BY HeldIs, KnownTyped DEF Query
  <2>4. PayloadOf(query[w].server, query[w].previous, c, TRUE, query[w].server) \in Payload
    BY <2>2, <2>3, PayloadTyped
  <2> QED
    BY <2>1, <2>4
<1>5. Restart => latest' \in [Windows -> SUBSET Payload] /\ reply' \in [Windows -> SUBSET Payload]
  BY DEF Restart
<1>6. \/ UNCHANGED <<owner, clock>> \/ \E w \in Windows : Project(w)
  BY ZenonT(30) DEF Next, vars, Resolve, Register, ReadBaseline, Save, Activate, Show, CaptureFails,
     AskCompare, ListHistory, LoadPrevious, LoadCurrent, ShowComparison, Restart
<1>7. UNCHANGED hist \/ \E w \in Windows : Save(w)
  BY DEF Next, vars, Resolve, Register, ReadBaseline, Project, Activate, Show, CaptureFails,
     AskCompare, ListHistory, LoadPrevious, LoadCurrent, ShowComparison, Restart
<1>8. UNCHANGED latest \/ Restart \/ \E w \in Windows : Show(w)
  BY ZenonT(30) DEF Next, vars, Resolve, Register, ReadBaseline, Project, Save, Activate, CaptureFails,
     AskCompare, ListHistory, LoadPrevious, LoadCurrent, ShowComparison
<1>9. UNCHANGED reply \/ Restart \/ \E w \in Windows : ShowComparison(w)
  BY DEF Next, vars, Resolve, Register, ReadBaseline, Project, Save, Activate, Show, CaptureFails,
     AskCompare, ListHistory, LoadPrevious, LoadCurrent
<1> QED
  BY <1>1, <1>2, <1>3, <1>4, <1>5, <1>6, <1>7, <1>8, <1>9

\* A step of a capture, and one of a comparison.
Captures(w) ==
  \/ \E c \in Connections, f \in Fingerprints : Resolve(w, c, f)
  \/ Register(w) \/ ReadBaseline(w) \/ Project(w) \/ Save(w)
  \/ Activate(w) \/ Show(w) \/ CaptureFails(w)
Compares(w) ==
  \/ \E older, newer \in Ids : AskCompare(w, older, newer)
  \/ ListHistory(w) \/ LoadPrevious(w) \/ LoadCurrent(w) \/ ShowComparison(w)

LEMMA Steps ==
  ASSUME [Next]_vars
  PROVE  \/ \E w \in Windows : Captures(w) /\ query' = query
         \/ \E w \in Windows : Compares(w) /\ UNCHANGED <<scan, store, identity, active>>
         \/ Restart
         \/ UNCHANGED vars
<1>1. \A w \in Windows : Captures(w) => query' = query
  BY DEF Captures, Resolve, Register, ReadBaseline, Project, Save, Activate, Show, CaptureFails
<1>2. \A w \in Windows : Compares(w) => UNCHANGED <<scan, store, identity, active>>
  BY DEF Compares, AskCompare, ListHistory, LoadPrevious, LoadCurrent, ShowComparison, outcome
<1> QED
  BY <1>1, <1>2 DEF Next, Captures, Compares

LEMMA TypeStep ==
  ASSUME TypeOK, KnownInv, RegisterInv, ScanInv, QueryInv, [Next]_vars
  PROVE  TypeOK'
<1> USE DEF store, identity, outcome
<1>a. /\ scan \in [Windows -> Scan] /\ query \in [Windows -> Query]
      /\ active \in [Windows -> MaybeServer] /\ identities \in [Connections -> MaybeServer]
      /\ idLock \subseteq Windows /\ compares \in 0..MaxCompares
  BY DEF TypeOK
<1>b. \A w \in Windows : scan[w].server \in MaybeServer
  BY <1>a DEF Scan
<1>1. ASSUME NEW w \in Windows, Captures(w)
      PROVE  /\ scan' \in [Windows -> Scan]
             /\ active' \in [Windows -> MaybeServer] /\ identities' \in [Connections -> MaybeServer]
             /\ idLock' \subseteq Windows /\ compares' \in 0..MaxCompares
  <2>1. scan' \in [Windows -> Scan]
    BY <1>1, <1>a, ScanTyped DEF Captures
  <2>2. active' \in [Windows -> MaybeServer]
    BY <1>1, <1>a, <1>b DEF Captures, Resolve, Register, ReadBaseline, Project, Save, Activate,
       Show, CaptureFails
  <2>3. identities' \in [Connections -> MaybeServer]
    BY <1>1, <1>a DEF Captures, Resolve, Register, ReadBaseline, Project, Save, Activate,
       Show, CaptureFails, MaybeServer
  <2>4. idLock' \subseteq Windows /\ compares' \in 0..MaxCompares
    BY <1>1, <1>a DEF Captures, Resolve, Register, ReadBaseline, Project, Save, Activate,
       Show, CaptureFails
  <2> QED
    BY <2>1, <2>2, <2>3, <2>4
<1>2. ASSUME NEW w \in Windows, Compares(w)
      PROVE  query' \in [Windows -> Query] /\ compares' \in 0..MaxCompares
  <2>1. query' \in [Windows -> Query]
    BY <1>2, <1>a, QueryTyped DEF Compares
  <2>2. compares' \in 0..MaxCompares
    <3>1. compares' = compares \/ (compares < MaxCompares /\ compares' = compares + 1)
      BY <1>2 DEF Compares, AskCompare, ListHistory, LoadPrevious, LoadCurrent, ShowComparison
    <3> QED
      BY <1>a, <3>1, LimitsAssumption
  <2> QED
    BY <2>1, <2>2
<1>3. IdleScan \in Scan /\ IdleQuery \in Query
  BY DEF IdleScan, IdleQuery, Scan, Query, AtMostOne, MaybeServer
<1>4. /\ scan' \in [Windows -> Scan] /\ query' \in [Windows -> Query]
      /\ active' \in [Windows -> MaybeServer] /\ identities' \in [Connections -> MaybeServer]
      /\ idLock' \subseteq Windows /\ compares' \in 0..MaxCompares
  <2>1. CASE \E w \in Windows : Captures(w) /\ query' = query
    BY <1>a, <1>1, <2>1
  <2>2. CASE \E w \in Windows : Compares(w) /\ UNCHANGED <<scan, store, identity, active>>
    BY <1>a, <1>2, <2>2
  <2>3. CASE Restart
    BY <1>a, <1>3, <2>3 DEF Restart, MaybeServer
  <2>4. CASE UNCHANGED vars
    BY <1>a, <2>4 DEF vars
  <2> QED
    BY <2>1, <2>2, <2>3, <2>4, Steps
<1> QED
  BY <1>4, StoreTyped DEF TypeOK

(***************************************************************************)
(* The history only moves on.                                              *)
(***************************************************************************)

\* Whoever owns a snapshot keeps it, and every snapshot in use is owned.
LEMMA KnownOwned ==
  ASSUME TypeOK, HistoryInv, ScanInv, QueryInv, NEW m \in Known
  PROVE  m.id \in Ids /\ owner[m.id] \in ServerIds
<1>1. m.id \in Ids
  BY KnownTyped DEF Snapshot
<1>2. \A s \in ServerIds : m \in hist[s] => owner[m.id] \in ServerIds
  BY DEF HistoryInv
<1>3. \A w \in Windows : m \in Held(w) => owner[m.id] \in ServerIds
  BY DEF Held, ScanInv, ScanSound, QueryInv, QuerySound
<1> QED
  BY <1>1, <1>2, <1>3, KnownIs

LEMMA OwnerKept ==
  ASSUME TypeOK, [Next]_vars, NEW i \in Ids, owner[i] # None
  PROVE  owner'[i] = owner[i]
<1>1. \/ owner' = owner
      \/ \E w \in Windows : \E j \in NextId : owner' = [owner EXCEPT ![j] = scan[w].server]
  BY ZenonT(30) DEF Next, vars, store, Resolve, Register, ReadBaseline, Project, Save, Activate, Show,
     CaptureFails, AskCompare, ListHistory, LoadPrevious, LoadCurrent, ShowComparison, Restart
<1> QED
  BY <1>1 DEF TypeOK, NextId

\* What a save does to the histories.
LEMMA SaveEffect ==
  ASSUME TypeOK, HistoryInv, KnownInv, ScanInv, NEW w \in Windows, Save(w)
  PROVE  /\ \A s \in ServerIds : IsFiniteSet(hist'[s])
         /\ \A s \in ServerIds : \A m \in hist'[s] :
              m \in hist[s] \/ (s = scan[w].server /\ m \in scan[w].current)
         /\ \A s \in ServerIds, m \in Known : Kept(m, hist[s]) => Kept(m, hist'[s])
         /\ scan' = [scan EXCEPT ![w].pc = "activating", ![w].saved = scan'[w].saved]
         /\ scan'[w].saved => \A m \in scan[w].current : Kept(m, hist'[scan[w].server])
<1> DEFINE r == scan[w].server
           C == scan[w].current
           repeated == {m \in First(hist[r]) : \E n \in C : m.fp = n.fp}
<1>1. r \in ServerIds
  BY DEF Save, At, ScanInv, ScanSound
<1>2. /\ scan' = [scan EXCEPT ![w].pc = "activating", ![w].saved = (repeated = {})]
      /\ hist' = [hist EXCEPT ![r] = IF repeated = {} THEN Retained(hist[r] \cup C) ELSE hist[r]]
  BY DEF Save
<1>3. /\ hist[r] \in SUBSET Snapshot /\ C \in SUBSET Snapshot /\ IsFiniteSet(hist[r])
      /\ IsFiniteSet(C) /\ hist[r] \subseteq Known /\ C \subseteq Known
  <2>1. IsFiniteSet(C)
    <3>1. C \in AtMostOne
      BY DEF TypeOK, Scan
    <3> QED
      BY <3>1, FS_Singleton, FS_EmptySet DEF AtMostOne
  <2> QED
    BY <1>1, <2>1, KnownIs, HeldIs, KnownTyped DEF HistoryInv
<1>4. IsFiniteSet(Retained(hist[r] \cup C)) /\ Retained(hist[r] \cup C) \subseteq hist[r] \cup C
  <2>1. IsFiniteSet(hist[r] \cup C)
    BY <1>3, FS_Union
  <2> QED
    BY <2>1, FS_Subset DEF Retained
<1>5. ASSUME NEW m \in Known, m \in C \/ Kept(m, hist[r])
      PROVE  Kept(m, Retained(hist[r] \cup C))
  <2>1. m \in Snapshot
    BY KnownTyped
  <2>2. DistinctIds((hist[r] \cup C) \cup {m})
    BY <1>3 DEF KnownInv, DistinctIds
  <2> QED
    BY <1>3, <1>5, <2>1, <2>2, KeptBySaving
<1>6. /\ \A s \in ServerIds : s # r => hist'[s] = hist[s]
      /\ hist'[r] = IF repeated = {} THEN Retained(hist[r] \cup C) ELSE hist[r]
  BY <1>1, <1>2 DEF TypeOK
<1>7. scan'[w].saved = (repeated = {})
  BY <1>2 DEF TypeOK, Scan
<1> HIDE DEF repeated, r, C
<1>8. \A s \in ServerIds : IsFiniteSet(hist'[s])
  BY <1>3, <1>4, <1>6 DEF HistoryInv
<1>9. \A s \in ServerIds : \A m \in hist'[s] : m \in hist[s] \/ (s = r /\ m \in C)
  BY <1>4, <1>6
<1>10. \A s \in ServerIds, m \in Known : Kept(m, hist[s]) => Kept(m, hist'[s])
  BY <1>5, <1>6
<1>11. scan'[w].saved => \A m \in C : Kept(m, hist'[r])
  BY <1>3, <1>5, <1>6, <1>7
<1> QED
  BY <1>2, <1>7, <1>8, <1>9, <1>10, <1>11 DEF r, C

LEMMA HistoryStep ==
  ASSUME TypeOK, HistoryInv, KnownInv, ScanInv, [Next]_vars
  PROVE  /\ HistoryInv'
         /\ \A s \in ServerIds : hist'[s] \subseteq Known
         /\ \A s \in ServerIds, m \in Known : Kept(m, hist[s]) => Kept(m, hist'[s])
<1>1. hist' = hist \/ \E w \in Windows : Save(w)
  BY DEF Next, vars, store, Resolve, Register, ReadBaseline, Project, Activate, Show,
     CaptureFails, AskCompare, ListHistory, LoadPrevious, LoadCurrent, ShowComparison, Restart
<1>2. ASSUME NEW s \in ServerIds, NEW m \in hist[s] PROVE owner'[m.id] = s
  <2>1. owner[m.id] = s /\ m.id \in Ids /\ s # None
    BY NoneAssumption DEF HistoryInv, TypeOK, Snapshot
  <2> QED
    BY <2>1, OwnerKept
<1>3. CASE hist' = hist
  BY <1>2, <1>3, KnownIs DEF HistoryInv
<1>4. ASSUME NEW w \in Windows, Save(w)
      PROVE  /\ HistoryInv' /\ \A s \in ServerIds : hist'[s] \subseteq Known
             /\ \A s \in ServerIds, m \in Known : Kept(m, hist[s]) => Kept(m, hist'[s])
  <2>1. ASSUME NEW m \in scan[w].current PROVE owner'[m.id] = scan[w].server /\ m \in Known
    BY <1>4 DEF Save, store, ScanInv, ScanSound, Known, Held
  <2>2. \A s \in ServerIds : \A m \in hist'[s] :
           m \in hist[s] \/ (s = scan[w].server /\ m \in scan[w].current)
    BY <1>4, SaveEffect
  <2>3. \A s \in ServerIds : \A m \in hist'[s] : owner'[m.id] = s /\ m \in Known
    BY <1>2, <2>1, <2>2, KnownIs
  <2> QED
    BY <1>4, <2>3, SaveEffect DEF HistoryInv
<1> QED
  BY <1>1, <1>3, <1>4

(***************************************************************************)
(* What the steps leave in the record of their window.                     *)
(***************************************************************************)
Same(x, y) ==
  /\ y.previous = x.previous /\ y.server = x.server /\ y.fp = x.fp /\ y.target = x.target

LEMMA CaptureEffect ==
  ASSUME TypeOK, NEW w \in Windows
  PROVE  /\ Captures(w) => \A v \in Windows : v # w => scan'[v] = scan[v]
         /\ \A c \in Connections, f \in Fingerprints : Resolve(w, c, f) =>
              /\ scan'[w].previous = {} /\ scan'[w].current = {} /\ ~scan'[w].saved
              /\ scan'[w].fp = f /\ scan'[w].target = c /\ scan'[w].server = identities[c]
              /\ scan'[w].pc = IF identities[c] = None THEN "registering" ELSE "reading"
         /\ Register(w) =>
              /\ scan'[w].pc = "reading" /\ scan'[w].fp = scan[w].fp
              /\ scan'[w].target = scan[w].target
              /\ scan'[w].previous = scan[w].previous /\ scan'[w].current = scan[w].current
              /\ scan'[w].saved = scan[w].saved
         /\ ReadBaseline(w) =>
              /\ scan'[w].pc = "projecting" /\ scan'[w].fp = scan[w].fp
              /\ scan'[w].target = scan[w].target /\ scan'[w].server = scan[w].server
              /\ scan'[w].previous = First(hist[scan[w].server])
              /\ scan'[w].current = scan[w].current /\ scan'[w].saved = scan[w].saved
         /\ Project(w) =>
              /\ scan'[w].pc = "saving" /\ Same(scan[w], scan'[w])
              /\ scan'[w].saved = scan[w].saved
         /\ Save(w) =>
              /\ scan'[w].pc = "activating" /\ Same(scan[w], scan'[w])
              /\ scan'[w].current = scan[w].current
         /\ Activate(w) =>
              /\ scan'[w].pc = "showing" /\ Same(scan[w], scan'[w])
              /\ scan'[w].current = scan[w].current /\ scan'[w].saved = scan[w].saved
         /\ Show(w) \/ CaptureFails(w) => scan'[w] = IdleScan
<1>1. scan \in [Windows -> Scan] /\ scan[w] \in Scan
  BY DEF TypeOK
<1> USE DEF Goto, At, Same
<1>2. Captures(w) => \A v \in Windows : v # w => scan'[v] = scan[v]
  BY <1>1 DEF Captures, Resolve, Register, ReadBaseline, Project, Save, Activate, Show, CaptureFails
<1>3. ASSUME NEW c \in Connections, NEW f \in Fingerprints, Resolve(w, c, f)
      PROVE  /\ scan'[w].previous = {} /\ scan'[w].current = {} /\ ~scan'[w].saved
             /\ scan'[w].fp = f /\ scan'[w].target = c /\ scan'[w].server = identities[c]
             /\ scan'[w].pc = IF identities[c] = None THEN "registering" ELSE "reading"
  BY <1>1, <1>3 DEF Resolve, IdleScan
<1>5. ASSUME ReadBaseline(w)
      PROVE  /\ scan'[w].pc = "projecting" /\ scan'[w].fp = scan[w].fp
             /\ scan'[w].target = scan[w].target /\ scan'[w].server = scan[w].server
             /\ scan'[w].previous = First(hist[scan[w].server])
             /\ scan'[w].current = scan[w].current /\ scan'[w].saved = scan[w].saved
  BY <1>1, <1>5 DEF ReadBaseline, Scan
<1>6. ASSUME Project(w)
      PROVE  scan'[w].pc = "saving" /\ Same(scan[w], scan'[w]) /\ scan'[w].saved = scan[w].saved
  BY <1>1, <1>6 DEF Project, Scan
<1>7. ASSUME Save(w)
      PROVE  /\ scan'[w].pc = "activating" /\ Same(scan[w], scan'[w])
             /\ scan'[w].current = scan[w].current
  BY <1>1, <1>7 DEF Save, Scan
<1>8. ASSUME Activate(w)
      PROVE  /\ scan'[w].pc = "showing" /\ Same(scan[w], scan'[w])
             /\ scan'[w].current = scan[w].current /\ scan'[w].saved = scan[w].saved
  BY <1>1, <1>8 DEF Activate, Scan
<1>9. ASSUME Show(w) \/ CaptureFails(w) PROVE scan'[w] = IdleScan
  BY <1>1, <1>9 DEF Show, CaptureFails
<1>4. ASSUME Register(w)
       PROVE  /\ scan'[w].pc = "reading" /\ scan'[w].fp = scan[w].fp
              /\ scan'[w].target = scan[w].target
              /\ scan'[w].previous = scan[w].previous /\ scan'[w].current = scan[w].current
              /\ scan'[w].saved = scan[w].saved
  BY <1>1, <1>4 DEF Register, Scan
<1> HIDE DEF Same
<1> QED
  BY <1>2, <1>3, <1>5, <1>6, <1>7, <1>8, <1>9, <1>4

LEMMA CompareEffect ==
  ASSUME TypeOK, NEW w \in Windows
  PROVE  /\ Compares(w) => \A v \in Windows : v # w => query'[v] = query[v]
         /\ \A older, newer \in Ids : AskCompare(w, older, newer) =>
              /\ query'[w].pc = "listing" /\ query'[w].server = active[w]
              /\ query'[w].previous = {} /\ query'[w].current = {}
         /\ ListHistory(w) =>
              \/ query'[w] = IdleQuery
              \/ /\ query'[w].pc = "previous" /\ query'[w].server = query[w].server
                 /\ query'[w].previous = query[w].previous /\ query'[w].current = query[w].current
         /\ LoadPrevious(w) =>
              /\ query'[w].pc = "current" /\ query'[w].server = query[w].server
              /\ query'[w].previous = Loaded(w, 1) /\ query'[w].current = query[w].current
         /\ LoadCurrent(w) =>
              \/ query'[w] = IdleQuery
              \/ /\ query'[w].pc = "showing" /\ query'[w].server = query[w].server
                 /\ query'[w].previous = query[w].previous /\ query'[w].current = Loaded(w, 2)
         /\ ShowComparison(w) => query'[w] = IdleQuery
<1>1. query \in [Windows -> Query] /\ query[w] \in Query
  BY DEF TypeOK
<1> USE DEF Refuse
<1>2. Compares(w) => \A v \in Windows : v # w => query'[v] = query[v]
  BY <1>1 DEF Compares, AskCompare, ListHistory, LoadPrevious, LoadCurrent, ShowComparison
<1>3. ASSUME NEW older \in Ids, NEW newer \in Ids, AskCompare(w, older, newer)
      PROVE  /\ query'[w].pc = "listing" /\ query'[w].server = active[w]
             /\ query'[w].previous = {} /\ query'[w].current = {}
  BY <1>1, <1>3 DEF AskCompare, IdleQuery
<1>4. ASSUME ListHistory(w)
      PROVE  \/ query'[w] = IdleQuery
             \/ /\ query'[w].pc = "previous" /\ query'[w].server = query[w].server
                /\ query'[w].previous = query[w].previous /\ query'[w].current = query[w].current
  BY <1>1, <1>4 DEF ListHistory, Query
<1>5. ASSUME LoadPrevious(w)
      PROVE  /\ query'[w].pc = "current" /\ query'[w].server = query[w].server
             /\ query'[w].previous = Loaded(w, 1) /\ query'[w].current = query[w].current
  BY <1>1, <1>5 DEF LoadPrevious, Query
<1>6. ASSUME LoadCurrent(w)
      PROVE  \/ query'[w] = IdleQuery
             \/ /\ query'[w].pc = "showing" /\ query'[w].server = query[w].server
                /\ query'[w].previous = query[w].previous /\ query'[w].current = Loaded(w, 2)
  BY <1>1, <1>6 DEF LoadCurrent, Query
<1>7. ASSUME ShowComparison(w) PROVE query'[w] = IdleQuery
  BY <1>1, <1>7 DEF ShowComparison
<1> QED
  BY <1>2, <1>3, <1>4, <1>5, <1>6, <1>7

(***************************************************************************)
(* Snapshots in use.                                                       *)
(***************************************************************************)
LEMMA KnownThen ==
  \A m \in Known' : (\E s \in ServerIds : m \in hist'[s]) \/ (\E w \in Windows : m \in Held(w)')
BY DEF Known

\* A step drops snapshots from use, or adds the one that it projects.
LEMMA KnownStep ==
  ASSUME TypeOK, HistoryInv, KnownInv, ScanInv, QueryInv, [Next]_vars
  PROVE  \/ Known' \subseteq Known /\ clock' = clock
         \/ \E n \in Snapshot : /\ Known' \subseteq Known \cup {n}
                                /\ owner[n.id] = None /\ n.at = clock' /\ clock <= clock'
<1> USE DEF store, identity, outcome
<1>a. /\ scan \in [Windows -> Scan] /\ query \in [Windows -> Query]
      /\ \A w \in Windows : scan[w] \in Scan /\ query[w] \in Query
  BY DEF TypeOK
<1>b. \A s \in ServerIds : hist'[s] \subseteq Known
  BY HistoryStep
<1>c. IdleScan.previous = {} /\ IdleScan.current = {}
      /\ IdleQuery.previous = {} /\ IdleQuery.current = {}
  BY DEF IdleScan, IdleQuery
<1>1. ASSUME NEW N,
             \A w \in Windows : /\ scan'[w].previous \subseteq Known /\ scan'[w].current \subseteq Known \cup N
                               /\ query'[w].previous \subseteq Known /\ query'[w].current \subseteq Known
      PROVE  Known' \subseteq Known \cup N
  <2>1. \A w \in Windows : Held(w)' \subseteq Known \cup N
    BY <1>1 DEF Held
  <2> QED
    BY <1>b, <2>1, KnownThen
<1>2. CASE Restart
  <2>1. Known' \subseteq Known \cup {} /\ clock' = clock
    BY <1>1, <1>2, <1>c DEF Restart
  <2> QED
    BY <2>1
<1>3. CASE UNCHANGED vars
  BY <1>3 DEF vars, Known, Held
<1>4. ASSUME NEW w \in Windows, Captures(w), query' = query
      PROVE  \/ Known' \subseteq Known /\ clock' = clock
             \/ \E n \in Snapshot : /\ Known' \subseteq Known \cup {n}
                                    /\ owner[n.id] = None /\ n.at = clock' /\ clock <= clock'
  <2>1. CASE Project(w)
    <3>1. PICK i \in NextId, a \in Times \cap {clock, clock + 1} :
             /\ clock' = a
             /\ scan' = [scan EXCEPT ![w].pc = "saving",
                                     ![w].current = {[id |-> i, at |-> a, fp |-> scan[w].fp]}]
      BY <2>1 DEF Project
    <3> DEFINE n == [id |-> i, at |-> a, fp |-> scan[w].fp]
    <3>2. n \in Snapshot /\ owner[n.id] = None
      BY <2>1 DEF Project, At, ScanInv, ScanSound, Snapshot, NextId
    <3>3. n.at = clock' /\ clock <= clock'
      BY <3>1, TimesAssumption DEF TypeOK
    <3>4. Known' \subseteq Known \cup {n}
      <4>1. scan'[w].previous = scan[w].previous /\ scan'[w].current = {n}
        BY <3>1, <1>a DEF Scan
      <4>2. \A v \in Windows : v # w => scan'[v] = scan[v]
        BY <3>1, <1>a
      <4> QED
        BY <1>1, <1>4, <4>1, <4>2, HeldIs
    <3> QED
      BY <3>2, <3>3, <3>4
  <2>2. CASE ~Project(w)
    <3>1. clock' = clock /\ \A v \in Windows : v # w => scan'[v] = scan[v]
      <4>1. clock' = clock
        BY <1>4, <2>2 DEF Captures, Resolve, Register, ReadBaseline, Save, Activate, Show,
           CaptureFails
      <4> QED
        BY <1>4, <4>1, CaptureEffect
    <3>2. scan'[w].current \subseteq scan[w].current
      BY <1>4, <1>c, <2>2, CaptureEffect DEF Captures
    <3>3. scan'[w].previous \subseteq Known
      <4>1. CASE ReadBaseline(w)
        <5>1. scan[w].server \in ServerIds
          BY <4>1 DEF ReadBaseline, At, ScanInv, ScanSound
        <5> QED
          BY <4>1, <5>1, CaptureEffect, HistoryTyped, KnownIs
      <4>2. CASE ~ReadBaseline(w)
        <5>1. scan'[w].previous \subseteq scan[w].previous
          BY <1>4, <1>c, <2>2, <4>2, CaptureEffect DEF Captures, Same
        <5> QED
          BY <5>1, HeldIs
      <4> QED
        BY <4>1, <4>2
    <3>4. Known' \subseteq Known \cup {}
      BY <1>1, <1>4, <3>1, <3>2, <3>3, HeldIs
    <3> QED
      BY <3>1, <3>4
  <2> QED
    BY <2>1, <2>2
<1>5. ASSUME NEW w \in Windows, Compares(w), UNCHANGED <<scan, store>>
      PROVE  Known' \subseteq Known /\ clock' = clock
  <2>1. \A v \in Windows : v # w => query'[v] = query[v]
    BY <1>5, CompareEffect
  <2>2. ASSUME ~Asked(w, "idle") PROVE \A n \in {1, 2} : Loaded(w, n) \subseteq Known
    BY <2>2, LoadedTyped, KnownIs DEF QueryInv, QuerySound, Asked
  <2>3. query'[w].previous \subseteq Known /\ query'[w].current \subseteq Known
    <3>1. LoadPrevious(w) \/ LoadCurrent(w) => ~Asked(w, "idle")
      BY DEF LoadPrevious, LoadCurrent, Asked
    <3> QED
      BY <1>5, <1>c, <2>2, <3>1, HeldIs, CompareEffect DEF Compares
  <2>4. Known' \subseteq Known \cup {}
    BY <1>1, <1>5, <2>1, <2>3, HeldIs
  <2> QED
    BY <1>5, <2>4
<1> QED
  BY <1>2, <1>3, <1>4, <1>5, Steps

LEMMA KnownInvStep ==
  ASSUME TypeOK, HistoryInv, KnownInv, ScanInv, QueryInv, [Next]_vars
  PROVE  KnownInv'
<1>1. CASE Known' \subseteq Known /\ clock' = clock
  BY <1>1 DEF KnownInv, DistinctIds
<1>2. ASSUME NEW n \in Snapshot, Known' \subseteq Known \cup {n},
             owner[n.id] = None, n.at = clock', clock <= clock'
      PROVE  KnownInv'
  <2>1. \A m \in Known : m.id # n.id
    BY <1>2, KnownOwned, NoneAssumption
  <2>2. DistinctIds(Known')
    BY <1>2, <2>1 DEF KnownInv, DistinctIds
  <2>3. ASSUME NEW m \in Known' PROVE m.at <= clock'
    <3>1. /\ clock \in Nat /\ clock' \in Nat /\ n.at \in Nat
          /\ \A k \in Known : k.at \in Nat /\ k.at <= clock
      <4>1. \A k \in Snapshot : k.at \in Nat
        BY TimesAssumption DEF Snapshot
      <4> QED
        BY <1>2, <4>1, KnownTyped, TimesAssumption DEF TypeOK, KnownInv
    <3> QED
      BY <1>2, <3>1
  <2> QED
    BY <2>2, <2>3 DEF KnownInv
<1> QED
  BY <1>1, <1>2, KnownStep

(***************************************************************************)
(* One server ID per connection.                                           *)
(***************************************************************************)
LEMMA IdentityStep ==
  ASSUME TypeOK, RegisterInv, OneIdentity, [Next]_vars
  PROVE  RegisterInv' /\ OneIdentity'
<1> USE DEF store, identity, outcome, At
<1>a. /\ scan \in [Windows -> Scan] /\ identities \in [Connections -> MaybeServer]
      /\ IdleScan.pc = "idle" /\ IdleScan.server = None
  BY DEF TypeOK, IdleScan
<1>1. CASE UNCHANGED <<scan, identity>>
  BY <1>1 DEF RegisterInv, OneIdentity
<1>2. CASE Restart
  <2>1. \A v \in Windows : scan'[v] = IdleScan
    BY <1>2 DEF Restart
  <2>2. identities' = identities
    BY <1>2 DEF Restart
  <2> QED
    BY <1>a, <2>1, <2>2 DEF RegisterInv, OneIdentity
<1>3. ASSUME NEW w \in Windows, Captures(w) PROVE RegisterInv' /\ OneIdentity'
  <2>1. \A v \in Windows : v # w => scan'[v] = scan[v]
    BY <1>3, CaptureEffect
  <2>2. ASSUME NEW c \in Connections, NEW f \in Fingerprints, Resolve(w, c, f)
        PROVE  RegisterInv' /\ OneIdentity'
    <3>1. /\ identities' = identities /\ idLock = {}
          /\ idLock' = IF identities[c] = None THEN {w} ELSE idLock
      BY <2>2 DEF Resolve, IdentitiesFree
    <3>2. /\ scan'[w].target = c /\ scan'[w].server = identities[c]
          /\ scan'[w].pc = IF identities[c] = None THEN "registering" ELSE "reading"
      BY <2>2, CaptureEffect
    <3>3. \A v \in Windows : scan[v].pc # "registering"
      BY <3>1 DEF RegisterInv
    <3> QED
      BY <2>1, <3>1, <3>2, <3>3 DEF RegisterInv, OneIdentity
  <2>3. CASE Register(w)
    <3>1. PICK s \in ServerIds :
             /\ \A c \in Connections : identities[c] # s
             /\ \A v \in Windows : scan[v].server # s
             /\ identities' = [identities EXCEPT ![scan[w].target] = s]
             /\ scan'[w].server = s
      BY <1>a, <2>3 DEF Register, Scan
    <3>2. /\ scan[w].target \in Connections /\ identities[scan[w].target] = None /\ idLock = {w}
      BY <2>3 DEF Register, RegisterInv
    <3>3. scan'[w].pc = "reading" /\ scan'[w].target = scan[w].target
      BY <2>3, CaptureEffect
    <3>4. /\ identities'[scan[w].target] = s
          /\ \A c \in Connections : c # scan[w].target => identities'[c] = identities[c]
      BY <1>a, <3>1, <3>2
    <3>5. RegisterInv'
      BY <2>1, <3>2, <3>3 DEF RegisterInv
    <3>6. \A c, d \in Connections : identities'[c] = identities'[d] /\ c # d => identities'[c] = None
      BY <3>1, <3>4 DEF OneIdentity
    <3>7. \A v \in Windows : scan'[v].server # None => identities'[scan'[v].target] = scan'[v].server
      <4>1. ASSUME NEW v \in Windows, v # w, scan[v].server # None
            PROVE  identities'[scan[v].target] = scan[v].server
        <5>1. identities[scan[v].target] = scan[v].server
          BY <4>1 DEF OneIdentity
        <5>2. scan[v].target # scan[w].target
          BY <3>2, <4>1, <5>1
        <5> QED
          BY <1>a, <3>1, <5>1, <5>2
      <4> QED
        BY <2>1, <3>1, <3>3, <3>4, <4>1
    <3> QED
      BY <3>5, <3>6, <3>7 DEF OneIdentity
  <2>4. CASE Show(w) \/ CaptureFails(w)
    <3>1. scan'[w].pc = "idle" /\ scan'[w].server = None /\ identities' = identities
      BY <1>a, <2>4, CaptureEffect DEF Show, CaptureFails
    <3>2. \A v \in Windows : v # w /\ idLock = {v} => idLock' = {v}
      BY <2>4 DEF Show, CaptureFails
    <3> QED
      BY <2>1, <3>1, <3>2 DEF RegisterInv, OneIdentity
  <2>5. CASE ReadBaseline(w) \/ Project(w) \/ Save(w) \/ Activate(w)
    <3>1. identities' = identities /\ idLock' = idLock
      BY <2>5 DEF ReadBaseline, Project, Save, Activate
    <3>2. /\ scan'[w].pc # "registering"
          /\ scan'[w].target = scan[w].target /\ scan'[w].server = scan[w].server
      BY <2>5, CaptureEffect DEF Same
    <3> QED
      BY <2>1, <3>1, <3>2 DEF RegisterInv, OneIdentity
  <2> QED
    BY <1>3, <2>2, <2>3, <2>4, <2>5 DEF Captures
<1> QED
  BY <1>1, <1>2, <1>3, Steps DEF vars

(***************************************************************************)
(* Captures and comparisons of one server.                                 *)
(***************************************************************************)

\* What a step leaves alone stays sound.
LEMMA Frame ==
  ASSUME TypeOK, HistoryInv, KnownInv, ScanInv, QueryInv, [Next]_vars
  PROVE  /\ \A m \in Known : owner'[m.id] = owner[m.id]
         /\ \A w \in Windows : scan'[w] = scan[w] => ScanSound(scan[w])'
         /\ \A w \in Windows : query'[w] = query[w] => QuerySound(query[w])'
<1>1. \A m \in Known : owner'[m.id] = owner[m.id]
  BY KnownOwned, OwnerKept, NoneAssumption
<1>2. \A s \in ServerIds, m \in Known : Kept(m, hist[s]) => Kept(m, hist'[s])
  BY HistoryStep
<1>3. ASSUME NEW w \in Windows, scan'[w] = scan[w] PROVE ScanSound(scan[w])'
  <2>1. ScanSound(scan[w])
    BY DEF ScanInv
  <2>2. scan[w].previous \subseteq Known /\ scan[w].current \subseteq Known
    BY HeldIs
  <2> QED
    BY <1>1, <1>2, <1>3, <2>1, <2>2 DEF ScanSound
<1>4. ASSUME NEW w \in Windows, query'[w] = query[w] PROVE QuerySound(query[w])'
  <2>1. QuerySound(query[w])
    BY DEF QueryInv
  <2>2. query[w].previous \subseteq Known /\ query[w].current \subseteq Known
    BY HeldIs
  <2> QED
    BY <1>1, <1>2, <1>4, <2>1, <2>2 DEF QuerySound
<1> QED
  BY <1>1, <1>3, <1>4

LEMMA ScanStep ==
  ASSUME TypeOK, HistoryInv, KnownInv, RegisterInv, ScanInv, QueryInv, [Next]_vars
  PROVE  ScanInv'
<1> SUFFICES ASSUME NEW v \in Windows PROVE ScanSound(scan[v])'
  BY DEF ScanInv
<1> USE DEF store, identity, outcome, At
<1>a. scan'[v] = scan[v] => ScanSound(scan[v])'
  BY Frame
<1>b. ASSUME scan'[v] = IdleScan PROVE ScanSound(scan[v])'
  BY <1>b DEF ScanSound, IdleScan
<1>1. CASE UNCHANGED scan
  BY <1>1, <1>a
<1>2. CASE Restart
  BY <1>2, <1>b DEF Restart
<1>3. ASSUME NEW w \in Windows, Captures(w), v # w PROVE ScanSound(scan[v])'
  BY <1>3, <1>a, CaptureEffect
<1>c. /\ ScanSound(scan[v]) /\ scan[v] \in Scan
      /\ scan[v].previous \subseteq Known /\ scan[v].current \subseteq Known
  BY HeldIs DEF ScanInv, TypeOK
<1>d. /\ \A m \in Known : owner'[m.id] = owner[m.id]
      /\ \A s \in ServerIds, m \in Known : Kept(m, hist[s]) => Kept(m, hist'[s])
  BY Frame, HistoryStep
<1>4. ASSUME NEW c \in Connections, NEW f \in Fingerprints, Resolve(v, c, f)
      PROVE  ScanSound(scan[v])'
  <2>1. identities[c] \in ServerIds \cup {None}
    BY DEF TypeOK, MaybeServer
  <2> QED
    BY <1>4, <2>1, CaptureEffect DEF ScanSound
<1>5. CASE Register(v)
  <2>1. scan[v].server = None
    BY <1>5 DEF Register, RegisterInv
  <2>2. scan[v].previous = {} /\ scan[v].current = {} /\ scan[v].fp \in Fingerprints /\ ~scan[v].saved
    BY <1>5, <1>c, <2>1, NoneAssumption DEF Register, ScanSound
  <2>3. scan'[v].server \in ServerIds
    BY <1>5, <1>c DEF Register, TypeOK, Scan
  <2> QED
    BY <1>5, <2>2, <2>3, CaptureEffect DEF ScanSound
<1>6. CASE ReadBaseline(v)
  <2> DEFINE r == scan[v].server
  <2>1. /\ r \in ServerIds /\ scan[v].current = {} /\ ~scan[v].saved /\ scan[v].fp \in Fingerprints
        /\ UNCHANGED <<hist, owner>>
    BY <1>6, <1>c DEF ReadBaseline, ScanSound
  <2>2. /\ scan'[v].pc = "projecting" /\ scan'[v].fp = scan[v].fp /\ scan'[v].server = r
        /\ scan'[v].previous = First(hist[r])
        /\ scan'[v].current = scan[v].current /\ scan'[v].saved = scan[v].saved
    BY <1>6, CaptureEffect
  <2>3. \A m \in First(hist[r]) : m \in hist[r] /\ owner[m.id] = r
    BY <2>1 DEF First, HistoryInv
  <2> QED
    BY <2>1, <2>2, <2>3 DEF ScanSound, Kept
<1>7. CASE Project(v)
  <2> DEFINE r == scan[v].server
  <2>1. /\ r \in ServerIds /\ ~scan[v].saved /\ scan[v].fp \in Fingerprints
    BY <1>7, <1>c DEF Project, ScanSound
  <2>2. PICK i \in NextId, a \in Times \cap {clock, clock + 1} :
           /\ owner' = [owner EXCEPT ![i] = r] /\ hist' = hist
           /\ scan' = [scan EXCEPT ![v].pc = "saving",
                                   ![v].current = {[id |-> i, at |-> a, fp |-> scan[v].fp]}]
    BY <1>7 DEF Project
  <2> DEFINE n == [id |-> i, at |-> a, fp |-> scan[v].fp]
  <2>3. /\ scan'[v].pc = "saving" /\ Same(scan[v], scan'[v]) /\ scan'[v].saved = scan[v].saved
    BY <1>7, CaptureEffect
  <2>4. scan'[v].current = {n} /\ owner'[n.id] = r
    BY <1>c, <2>2 DEF TypeOK, NextId, Scan
  <2>5. \A p \in scan[v].previous : p.at <= n.at
    <3>1. clock \in Nat /\ a \in {clock, clock + 1}
      BY TimesAssumption DEF TypeOK
    <3>2. \A p \in scan[v].previous : p.at \in Nat /\ p.at <= clock
      <4>1. \A k \in Snapshot : k.at \in Nat
        BY TimesAssumption DEF Snapshot
      <4> QED
        BY <1>c, <4>1, KnownTyped DEF KnownInv
    <3>3. \A p \in scan[v].previous : p.at <= a
      BY <3>1, <3>2
    <3> QED
      BY <3>3
  <2> HIDE DEF n
  <2> QED
    BY <1>c, <1>d, <2>1, <2>3, <2>4, <2>5 DEF ScanSound, Same
<1>8. CASE Save(v)
  <2> DEFINE r == scan[v].server
  <2>1. r \in ServerIds /\ scan[v].fp \in Fingerprints /\ owner' = owner
    BY <1>8, <1>c DEF Save, ScanSound
  <2>2. /\ scan'[v].pc = "activating" /\ Same(scan[v], scan'[v])
        /\ scan'[v].current = scan[v].current
    BY <1>8, CaptureEffect
  <2>3. scan'[v].saved => \A m \in scan[v].current : Kept(m, hist'[r])
    BY <1>8, SaveEffect
  <2> QED
    BY <1>c, <1>d, <2>1, <2>2, <2>3 DEF ScanSound, Same
<1>9. CASE Activate(v)
  <2>1. /\ scan'[v].pc = "showing" /\ Same(scan[v], scan'[v])
        /\ scan'[v].current = scan[v].current /\ scan'[v].saved = scan[v].saved
    BY <1>9, CaptureEffect
  <2>2. scan[v].pc = "activating"
    BY <1>9 DEF Activate
  <2> QED
    BY <1>c, <1>d, <2>1, <2>2 DEF ScanSound, Same
<1>10. CASE Show(v) \/ CaptureFails(v)
  BY <1>10, <1>b, CaptureEffect
<1>11. Captures(v) => ScanSound(scan[v])'
  BY <1>4, <1>5, <1>6, <1>7, <1>8, <1>9, <1>10 DEF Captures
<1> QED
  BY <1>1, <1>2, <1>3, <1>11, Steps DEF vars

LEMMA QueryStep ==
  ASSUME TypeOK, HistoryInv, KnownInv, ScanInv, QueryInv, ActiveInv, [Next]_vars
  PROVE  QueryInv'
<1> SUFFICES ASSUME NEW v \in Windows PROVE QuerySound(query[v])'
  BY DEF QueryInv
<1> USE DEF store, identity, outcome, Asked
<1>a. query'[v] = query[v] => QuerySound(query[v])'
  BY Frame
<1>b. ASSUME query'[v] = IdleQuery PROVE QuerySound(query[v])'
  BY <1>b DEF QuerySound, IdleQuery
<1>1. CASE UNCHANGED query
  BY <1>1, <1>a
<1>2. CASE Restart
  BY <1>2, <1>b DEF Restart
<1>3. ASSUME NEW w \in Windows, Compares(w), v # w PROVE QuerySound(query[v])'
  BY <1>3, <1>a, CompareEffect
<1>4. ASSUME Compares(v) PROVE QuerySound(query[v])'
  <2>1. UNCHANGED <<hist, owner>>
    BY <1>4 DEF Compares, AskCompare, ListHistory, LoadPrevious, LoadCurrent, ShowComparison
  <2>2. QuerySound(query[v])
    BY DEF QueryInv
  <2>3. ASSUME NEW older \in Ids, NEW newer \in Ids, AskCompare(v, older, newer)
        PROVE  QuerySound(query[v])'
    <3>1. active[v] \in ServerIds
      <4>1. Payloads(v) # {}
        BY <2>3 DEF AskCompare, Offered, IdsOf
      <4> QED
        BY <4>1 DEF ActiveInv
    <3> QED
      BY <2>3, <3>1, CompareEffect DEF QuerySound
  <2>4. CASE ListHistory(v)
    BY <1>b, <2>1, <2>2, <2>4, CompareEffect DEF QuerySound, ListHistory
  <2>5. ASSUME query[v].server \in ServerIds, NEW n
        PROVE  \A m \in Loaded(v, n) :
                 owner[m.id] = query[v].server /\ Kept(m, hist[query[v].server])
    BY <2>5 DEF Loaded, Kept, HistoryInv
  <2>6. CASE LoadPrevious(v)
    <3>1. query[v].server \in ServerIds
      BY <2>2, <2>6 DEF LoadPrevious, QuerySound
    <3>2. /\ query'[v].server = query[v].server
          /\ query'[v].previous = Loaded(v, 1) /\ query'[v].current = query[v].current
      BY <2>6, CompareEffect
    <3> QED
      BY <2>1, <2>2, <2>5, <3>1, <3>2 DEF QuerySound
  <2>7. CASE LoadCurrent(v)
    <3>1. query[v].server \in ServerIds
      BY <2>2, <2>7 DEF LoadCurrent, QuerySound
    <3>2. \/ query'[v] = IdleQuery
          \/ /\ query'[v].server = query[v].server
             /\ query'[v].previous = query[v].previous /\ query'[v].current = Loaded(v, 2)
      BY <2>7, CompareEffect
    <3> QED
      BY <1>b, <2>1, <2>2, <2>5, <3>1, <3>2 DEF QuerySound
  <2>8. CASE ShowComparison(v)
    BY <1>b, <2>8, CompareEffect
  <2> QED
    BY <1>4, <2>3, <2>4, <2>6, <2>7, <2>8 DEF Compares
<1> QED
  BY <1>1, <1>2, <1>3, <1>4, Steps DEF vars

(***************************************************************************)
(* What a window shows.                                                    *)
(***************************************************************************)

\* The results of a window change only by its own steps and a restart.
LEMMA Outcomes ==
  ASSUME TypeOK, [Next]_vars, NEW v \in Windows
  PROVE  /\ latest'[v] = latest[v] \/ Show(v) \/ Restart
         /\ reply'[v] = reply[v] \/ ShowComparison(v) \/ Restart
         /\ active'[v] = active[v] \/ Activate(v) \/ Restart
<1> USE DEF store, identity, outcome, TypeOK
<1>1. \/ latest' = latest \/ Restart
      \/ \E w \in Windows : Show(w) /\ \E p : latest' = [latest EXCEPT ![w] = p]
  BY ZenonT(30) DEF Next, vars, Resolve, Register, ReadBaseline, Project, Save, Activate, Show, CaptureFails,
     AskCompare, ListHistory, LoadPrevious, LoadCurrent, ShowComparison
<1>2. \/ reply' = reply \/ Restart
      \/ \E w \in Windows : ShowComparison(w) /\ \E p : reply' = [reply EXCEPT ![w] = p]
  BY ZenonT(30) DEF Next, vars, Resolve, Register, ReadBaseline, Project, Save, Activate, Show, CaptureFails,
     AskCompare, ListHistory, LoadPrevious, LoadCurrent, ShowComparison
<1>3. \/ active' = active \/ Restart
      \/ \E w \in Windows : Activate(w) /\ \E s : active' = [active EXCEPT ![w] = s]
  BY DEF Next, vars, Resolve, Register, ReadBaseline, Project, Save, Activate, Show, CaptureFails,
     AskCompare, ListHistory, LoadPrevious, LoadCurrent, ShowComparison
<1> QED
  BY <1>1, <1>2, <1>3

LEMMA ActiveStep ==
  ASSUME TypeOK, ScanInv, ActiveInv, [Next]_vars
  PROVE  ActiveInv'
<1> SUFFICES ASSUME NEW v \in Windows,
                    Payloads(v)' # {} \/ query'[v].pc # "idle" \/ scan'[v].pc = "showing"
             PROVE  active'[v] \in ServerIds
  BY DEF ActiveInv, Asked, At
<1> USE DEF store, identity, outcome, Asked, At, Payloads
<1>1. ~Restart
  BY DEF Restart, IdleScan, IdleQuery
<1>2. CASE Activate(v)
  BY <1>2 DEF Activate, ScanInv, ScanSound, TypeOK
<1>3. CASE ~Activate(v)
  <2>1. active'[v] = active[v]
    BY <1>1, <1>3, Outcomes
  <2>2. ASSUME query'[v].pc # "idle", query[v].pc = "idle" PROVE Payloads(v) # {}
    <3>1. Compares(v)
      BY <1>1, <2>2, Steps, CompareEffect DEF vars
    <3>2. \E older, newer \in Ids : AskCompare(v, older, newer)
      BY <2>2, <3>1 DEF Compares, ListHistory, LoadPrevious, LoadCurrent, ShowComparison
    <3> QED
      BY <3>2 DEF AskCompare, Offered, IdsOf
  <2>3. ASSUME scan'[v].pc = "showing" PROVE scan[v].pc = "showing"
    <3>1. scan'[v] = scan[v] \/ Captures(v)
      BY <1>1, Steps, CaptureEffect DEF vars
    <3> QED
      BY <1>3, <2>3, <3>1, CaptureEffect DEF Captures, IdleScan
  <2>4. \/ Payloads(v) # {} \/ query[v].pc # "idle" \/ scan[v].pc = "showing"
    <3>1. Payloads(v)' # {} => Payloads(v) # {} \/ Show(v) \/ ShowComparison(v)
      BY <1>1, Outcomes
    <3>2. Show(v) => scan[v].pc = "showing"
      BY DEF Show
    <3>3. ShowComparison(v) => query[v].pc # "idle"
      BY DEF ShowComparison
    <3> QED
      BY <2>2, <2>3, <3>1, <3>2, <3>3
  <2> QED
    BY <2>1, <2>4 DEF ActiveInv
<1> QED
  BY <1>2, <1>3

LEMMA PayloadStep ==
  ASSUME TypeOK, HistoryInv, KnownInv, ScanInv, QueryInv, PayloadInv, [Next]_vars
  PROVE  PayloadInv'
<1> SUFFICES ASSUME NEW v \in Windows, NEW p \in Payloads(v)' PROVE PayloadSound(p)'
  BY DEF PayloadInv
<1> USE DEF store, identity, outcome
<1>1. CASE p \in Payloads(v)
  <2>1. p \in Payload /\ PayloadSound(p)
    BY <1>1 DEF PayloadInv, TypeOK, Payloads
  <2>2. \A m \in p.previous \cup {p.current} \cup p.history : m.id \in Ids
    BY <2>1 DEF Payload, AtMostOne, Snapshot
  <2>3. p.server # None
    BY <2>1, NoneAssumption DEF Payload
  <2>4. \A m \in p.previous \cup {p.current} \cup p.history : owner'[m.id] = p.server
    BY <2>1, <2>2, <2>3, OwnerKept DEF PayloadSound
  <2> QED
    BY <2>1, <2>4 DEF PayloadSound
<1>2. ASSUME NEW r \in ServerIds, NEW previous, NEW current, NEW persisted \in BOOLEAN,
             p = PayloadOf(r, previous, current, persisted, r), UNCHANGED <<hist, owner>>,
             \A m \in previous \cup {current} : owner[m.id] = r,
             \A m \in previous : m.at <= current.at,
             \A m \in previous \cup (IF persisted THEN {current} ELSE {}) : Kept(m, hist[r])
      PROVE  PayloadSound(p)'
  <2>1. /\ p.server = r /\ p.previous = previous /\ p.current = current
        /\ p.persisted = persisted /\ p.history = hist[r]
    BY <1>2 DEF PayloadOf
  <2>2. \A m \in hist[r] : owner[m.id] = r
    BY DEF HistoryInv
  <2> QED
    BY <1>2, <2>1, <2>2 DEF PayloadSound
<1>3. CASE Show(v)
  <2>1. /\ UNCHANGED <<hist, owner>> /\ scan[v].server \in ServerIds /\ ScanSound(scan[v])
        /\ scan[v].saved \in BOOLEAN
    BY <1>3 DEF Show, At, ScanInv, ScanSound, TypeOK, Scan
  <2>2. p \in Payloads(v) \/ \E current \in scan[v].current :
           p = PayloadOf(scan[v].server, scan[v].previous, current, scan[v].saved, scan[v].server)
    BY <1>3 DEF Show, Payloads, Baseline, TypeOK
  <2>3. ASSUME NEW current \in scan[v].current,
               p = PayloadOf(scan[v].server, scan[v].previous, current, scan[v].saved, scan[v].server)
        PROVE  PayloadSound(p)'
    <3>1. /\ \A m \in scan[v].previous \cup {current} : owner[m.id] = scan[v].server
          /\ \A m \in scan[v].previous : m.at <= current.at
          /\ \A m \in scan[v].previous \cup (IF scan[v].saved THEN {current} ELSE {}) :
               Kept(m, hist[scan[v].server])
      BY <2>1 DEF ScanSound
    <3> QED
      BY <1>2, <2>1, <2>3, <3>1
  <2> QED
    BY <1>1, <2>2, <2>3
<1>4. CASE ShowComparison(v)
  <2>1. UNCHANGED <<hist, owner>> /\ query[v].server \in ServerIds /\ QuerySound(query[v])
    BY <1>4 DEF ShowComparison, Asked, QueryInv, QuerySound
  <2>2. p \in Payloads(v) \/ \E c \in query[v].current :
           /\ p = PayloadOf(query[v].server, query[v].previous, c, TRUE, query[v].server)
           /\ p.status \notin {"SERVER_MISMATCH", "INVALID_TIME_ORDER"}
    <3> DEFINE Shown(c) == PayloadOf(query[v].server, query[v].previous, c, TRUE, query[v].server)
               Refused(c) == Shown(c).status \in {"SERVER_MISMATCH", "INVALID_TIME_ORDER"}
    <3>1. PICK c \in query[v].current :
             reply' = [reply EXCEPT ![v] = IF Refused(c) THEN @ ELSE {Shown(c)}]
      BY <1>4 DEF ShowComparison, HistoryServer
    <3>2. latest' = latest
      BY <1>4 DEF ShowComparison
    <3> HIDE DEF Shown, Refused
    <3>3. reply'[v] = IF Refused(c) THEN reply[v] ELSE {Shown(c)}
      BY <3>1 DEF TypeOK
    <3>4. p \in latest[v] \/ p \in reply[v] \/ (p = Shown(c) /\ ~Refused(c))
      BY <3>2, <3>3 DEF Payloads
    <3> QED
      BY <3>4 DEF Payloads, Shown, Refused
  <2>3. ASSUME NEW c \in query[v].current,
               p = PayloadOf(query[v].server, query[v].previous, c, TRUE, query[v].server),
               p.status \notin {"SERVER_MISMATCH", "INVALID_TIME_ORDER"}
        PROVE  PayloadSound(p)'
    <3>1. \A m \in query[v].previous \cup {c} :
             owner[m.id] = query[v].server /\ Kept(m, hist[query[v].server])
      BY <2>1 DEF QuerySound
    <3>2. \A m \in query[v].previous : m.at <= c.at
      <4>1. \A m \in query[v].previous : ~(m.at > c.at)
        BY <2>3 DEF PayloadOf, Status
      <4>2. \A m \in query[v].previous \cup {c} : m.at \in Nat
        <5>1. \A k \in Snapshot : k.at \in Nat
          BY TimesAssumption DEF Snapshot
        <5> QED
          BY <5>1, HeldIs, KnownTyped
      <4> QED
        BY <4>1, <4>2
    <3> QED
      BY <1>2, <2>1, <2>3, <3>1, <3>2
  <2> QED
    BY <1>1, <2>2, <2>3
<1>5. ~Restart
  BY DEF Restart, Payloads
<1> QED
  BY <1>1, <1>3, <1>4, <1>5, Outcomes DEF Payloads

(***************************************************************************)
(* The theorems.                                                           *)
(***************************************************************************)
LEMMA CaptureInit == Init => CaptureIInv
<1> SUFFICES ASSUME Init PROVE CaptureIInv
  OBVIOUS
<1>1. /\ \A s \in ServerIds : hist[s] = {}
      /\ \A w \in Windows : /\ scan[w] = IdleScan /\ query[w] = IdleQuery
                            /\ active[w] = None /\ latest[w] = {} /\ reply[w] = {}
  BY DEF Init
<1>2. TypeOK
  <2>1. IdleScan \in Scan /\ IdleQuery \in Query
    BY DEF IdleScan, IdleQuery, Scan, Query, AtMostOne, MaybeServer
  <2>2. compares \in 0..MaxCompares
    BY LimitsAssumption DEF Init
  <2> QED
    BY <2>1, <2>2 DEF Init, TypeOK, MaybeServer
<1>3. OneIdentity /\ RegisterInv
  BY <1>1 DEF Init, OneIdentity, RegisterInv, IdleScan, At
<1>4. \A m : m \notin Known
  BY <1>1, KnownIs DEF Held, IdleScan, IdleQuery
<1>5. HistoryInv /\ KnownInv
  BY <1>1, <1>4, FS_EmptySet DEF HistoryInv, KnownInv, DistinctIds
<1>6. ScanInv /\ QueryInv
  BY <1>1 DEF ScanInv, ScanSound, QueryInv, QuerySound, IdleScan, IdleQuery
<1>7. ActiveInv /\ PayloadInv
  BY <1>1 DEF ActiveInv, PayloadInv, Payloads, Asked, At, IdleScan, IdleQuery
<1> QED
  BY <1>2, <1>3, <1>5, <1>6, <1>7 DEF CaptureIInv, CaptureInv

\* Whatever the windows do between the calls of a capture or a comparison, the
\* snapshots they hold are of one server and in time order, and are stored or
\* were dropped for newer ones: the inductive invariant, for any number of
\* windows, connections, servers, snapshots and comparisons.
THEOREM CaptureCorrect == Spec => []CaptureIInv
<1>1. CaptureIInv /\ [Next]_vars => CaptureIInv'
  BY TypeStep, IdentityStep, HistoryStep, KnownInvStep, ScanStep, QueryStep, ActiveStep, PayloadStep
     DEF CaptureIInv, CaptureInv
<1> QED
  BY CaptureInit, <1>1, PTL DEF Spec

\* Two windows that resolve the same new connection end with one server ID, and
\* two connections never share one: resolve holds the identity lock from its
\* look at the file until the file is written.
THEOREM OneIdentityPerConnection == Spec => []CaptureInv
<1>1. CaptureIInv => CaptureInv
  BY DEF CaptureIInv
<1> QED
  BY <1>1, CaptureCorrect, PTL

\* A payload never mixes servers, although capture() in another thread may change
\* activeServerId while compare() runs: compare() reads it once.
THEOREM PayloadsOfOneServer == Spec => []PayloadOfOneServer
<1>1. CaptureIInv => PayloadOfOneServer
  BY DEF CaptureIInv, PayloadInv, PayloadSound, PayloadOfOneServer
<1> QED
  BY <1>1, CaptureCorrect, PTL

\* Changes are shown forwards in time, as far as the clock does not go back.
THEOREM ShownForwards == Spec => []ForwardInTime
<1>1. CaptureIInv => ForwardInTime
  BY DEF CaptureIInv, PayloadInv, PayloadSound, ForwardInTime
<1> QED
  BY <1>1, CaptureCorrect, PTL

\* The history beside a comparison lists what is compared, or is full of newer
\* snapshots: what other windows save in the meantime drops nothing else.
THEOREM MissingIsEvicted == Spec => []MissingOnlyIfEvicted
<1>1. CaptureIInv => MissingOnlyIfEvicted
  BY DEF CaptureIInv, PayloadInv, PayloadSound, MissingOnlyIfEvicted, Kept
<1> QED
  BY <1>1, CaptureCorrect, PTL
=============================================================================
