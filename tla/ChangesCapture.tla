---------------------------- MODULE ChangesCapture ----------------------------
(***************************************************************************)
(* Several tool windows record and compare snapshots in one local history: *)
(* ServerIdentityStore, SnapshotPersistence.captureContext and             *)
(* ChangesOrchestrator.  The repository is the atomic history that         *)
(* SnapshotStore implements, one per server; what is kept apart here are   *)
(* the separate calls that a capture and a comparison make to it, while    *)
(* the scan threads and the query handlers of all windows interleave.      *)
(***************************************************************************)
EXTENDS SnapshotOrder

CONSTANTS
  Windows,
  Connections,      \* host, port and user name of an SSH target
  ServerIds,        \* the opaque UUIDs of servers
  None,             \* no server
  MaxIdentities,    \* entries of the identity file (1000 in the product)
  MaxCompares       \* bound on the comparisons that users ask for

ASSUME NoneAssumption == None \notin ServerIds
ASSUME LimitsAssumption == MaxIdentities \in Nat /\ MaxCompares \in Nat

VARIABLES
  hist,         \* the retained snapshots of each server
  owner,        \* the serverId inside each snapshot, by UUID
  identities,   \* server-identities.json
  idLock,       \* the window that is registering a server, as a set
  clock,
  compares,     \* comparisons asked for so far
  scan,         \* the capture that the scan thread of each window runs
  query,        \* the comparison that the handler of each window computes
  active,       \* ChangesOrchestrator.activeServerId of each window
  latest,       \* ChangesOrchestrator.latest of each window, as a set
  reply         \* the last successful comparison of each window, as a set

store == <<hist, owner, clock>>
identity == <<identities, idLock>>
outcome == <<active, latest, reply>>
vars == <<store, identity, compares, scan, query, outcome>>

MaybeServer == ServerIds \cup {None}
AtMostOne == {{}} \cup {{s} : s \in Snapshot}
Statuses == {"NO_BASELINE", "SERVER_MISMATCH", "INVALID_TIME_ORDER", "NO_CHANGES", "CHANGED"}
Payload == [server : ServerIds, previous : AtMostOne, current : Snapshot,
            persisted : BOOLEAN, status : Statuses, history : SUBSET Snapshot]

Scan == [pc : {"idle", "registering", "reading", "projecting", "saving", "activating", "showing"},
         target : Connections \cup {None}, fp : Fingerprints \cup {None}, server : MaybeServer,
         previous : AtMostOne, current : AtMostOne, saved : BOOLEAN]
Query == [pc : {"idle", "listing", "previous", "current", "showing"},
          ids : (Ids \X Ids) \cup {<<>>}, server : MaybeServer,
          previous : AtMostOne, current : AtMostOne]

IdleScan == [pc |-> "idle", target |-> None, fp |-> None, server |-> None,
             previous |-> {}, current |-> {}, saved |-> FALSE]
IdleQuery == [pc |-> "idle", ids |-> <<>>, server |-> None, previous |-> {}, current |-> {}]

Init ==
  /\ hist = [s \in ServerIds |-> {}]
  /\ owner = [i \in Ids |-> None]
  /\ clock = 0
  /\ identities = [c \in Connections |-> None]
  /\ idLock = {}
  /\ compares = 0
  /\ scan = [w \in Windows |-> IdleScan]
  /\ query = [w \in Windows |-> IdleQuery]
  /\ active = [w \in Windows |-> None]
  /\ latest = [w \in Windows |-> {}]
  /\ reply = [w \in Windows |-> {}]

(***************************************************************************)
(* InfrastructureDiffEngine as far as the two snapshots decide it.         *)
(***************************************************************************)
Status(previous, current) ==
  IF previous = {} THEN "NO_BASELINE"
  ELSE IF \E p \in previous : owner[p.id] # owner[current.id] THEN "SERVER_MISMATCH"
  ELSE IF \E p \in previous : p.at > current.at THEN "INVALID_TIME_ORDER"
  ELSE IF \E p \in previous : p.fp = current.fp THEN "NO_CHANGES"
  ELSE "CHANGED"

PayloadOf(server, previous, current, persisted, historyServer) ==
  [server |-> server, previous |-> previous, current |-> current, persisted |-> persisted,
   status |-> Status(previous, current), history |-> hist[historyServer]]

(***************************************************************************)
(* The scan thread of window w, from the published graph on: capture().    *)
(***************************************************************************)
At(w, pc) == scan[w].pc = pc
Goto(w, pc) == scan' = [scan EXCEPT ![w].pc = pc]

\* Without the lock, and with it.
AnyTime == TRUE
IdentitiesFree == idLock = {}

\* resolve, under the identity lock: a known connection, or one to register.  An
\* unreadable file or a full one fails the capture before anything happened.
Resolve(w, c, f) ==
  LET known == identities[c]
      begun == [IdleScan EXCEPT !.target = c, !.fp = f, !.server = known,
                                !.pc = IF known = None THEN "registering" ELSE "reading"]
  IN  /\ At(w, "idle") /\ IdentitiesFree
      /\ \E i \in Ids : owner[i] = None
      /\ known = None => Cardinality({d \in Connections : identities[d] # None}) < MaxIdentities
      /\ scan' = [scan EXCEPT ![w] = begun]
      /\ idLock' = IF known = None THEN {w} ELSE idLock
      /\ UNCHANGED <<store, identities, compares, query, outcome>>

Register(w) ==
  /\ At(w, "registering")
  /\ \E s \in ServerIds :
       /\ s \notin {identities[c] : c \in Connections} \cup {scan[v].server : v \in Windows}
       /\ identities' = [identities EXCEPT ![scan[w].target] = s]
       /\ scan' = [scan EXCEPT ![w].pc = "reading", ![w].server = s]
  /\ idLock' = {}
  /\ UNCHANGED <<store, compares, query, outcome>>

\* previous = snapshots.latest(serverId)
ReadBaseline(w) ==
  /\ At(w, "reading")
  /\ scan' = [scan EXCEPT ![w].pc = "projecting", ![w].previous = First(hist[scan[w].server])]
  /\ UNCHANGED <<store, identity, compares, query, outcome>>

\* The next UUID stands for all that are unused.
NextId == {i \in Ids : owner[i] = None /\ \A j \in Ids : j < i => owner[j] # None}

\* current = SnapshotProjection.capture(graph, serverId): UUID and instant.  The
\* clock may stand still between two captures, it does not go back.
Project(w) ==
  /\ At(w, "projecting")
  /\ \E i \in NextId, a \in Times \cap {clock, clock + 1} :
       /\ owner' = [owner EXCEPT ![i] = scan[w].server]
       /\ clock' = a
       /\ scan' = [scan EXCEPT ![w].pc = "saving",
                               ![w].current = {[id |-> i, at |-> a, fp |-> scan[w].fp]}]
  /\ UNCHANGED <<hist, identity, compares, query, outcome>>

\* snapshots.save(current)
Save(w) ==
  LET s == scan[w].server
      repeated == {m \in First(hist[s]) : \E n \in scan[w].current : m.fp = n.fp}
  IN  /\ At(w, "saving")
      /\ scan' = [scan EXCEPT ![w].pc = "activating", ![w].saved = (repeated = {})]
      /\ hist' = [hist EXCEPT ![s] = IF repeated = {} THEN Retained(@ \cup scan[w].current) ELSE @]
      /\ UNCHANGED <<owner, clock, identity, compares, query, outcome>>

Activate(w) ==
  /\ At(w, "activating")
  /\ active' = [active EXCEPT ![w] = scan[w].server]
  /\ Goto(w, "showing")
  /\ UNCHANGED <<store, identity, compares, query, latest, reply>>

\* What the snapshot is compared with: the newest one by now, and as it was read.
NewestNow(w) == First(hist[scan[w].server])
Baseline(w) == scan[w].previous

\* The payload, with a last look at the history, becomes latest.
Show(w) ==
  /\ At(w, "showing")
  /\ \E current \in scan[w].current :
       latest' = [latest EXCEPT ![w] =
         {PayloadOf(scan[w].server, Baseline(w), current, scan[w].saved, scan[w].server)}]
  /\ scan' = [scan EXCEPT ![w] = IdleScan]
  /\ UNCHANGED <<store, identity, compares, query, active, reply>>

\* Any of these calls may throw; a save may also throw after it took effect.
CaptureFails(w) ==
  /\ ~At(w, "idle")
  /\ scan' = [scan EXCEPT ![w] = IdleScan]
  /\ idLock' = idLock \ {w}
  /\ UNCHANGED <<store, identities, compares, query, outcome>>

(***************************************************************************)
(* The query handler of window w: compare().                               *)
(***************************************************************************)
Asked(w, pc) == query[w].pc = pc

Payloads(w) == latest[w] \cup reply[w]
Offered(w) == IdsOf(UNION {p.history : p \in Payloads(w)})

\* The page asks for two snapshots of a history that it was shown; compare()
\* reads activeServerId first.
AskCompare(w, older, newer) ==
  /\ Asked(w, "idle") /\ compares < MaxCompares
  /\ {older, newer} \subseteq Offered(w) /\ older # newer
  /\ compares' = compares + 1
  /\ query' = [query EXCEPT ![w] = [IdleQuery EXCEPT !.pc = "listing", !.ids = <<older, newer>>,
                                                      !.server = active[w]]]
  /\ UNCHANGED <<store, identity, scan, outcome>>

Refuse(w) == query' = [query EXCEPT ![w] = IdleQuery]

\* persistence.history(serverId): both UUIDs must be listed.
ListHistory(w) ==
  LET available == {query[w].ids[1], query[w].ids[2]} \subseteq IdsOf(hist[query[w].server])
  IN  /\ Asked(w, "listing")
      /\ \/ available /\ query' = [query EXCEPT ![w].pc = "previous"]
         \/ ~available /\ Refuse(w)
      /\ UNCHANGED <<store, identity, compares, scan, outcome>>

Loaded(w, n) == {m \in hist[query[w].server] : m.id = query[w].ids[n]}

LoadPrevious(w) ==
  /\ Asked(w, "previous")
  /\ query' = [query EXCEPT ![w].pc = "current", ![w].previous = Loaded(w, 1)]
  /\ UNCHANGED <<store, identity, compares, scan, outcome>>

InTimeOrder(p, c) == p.at <= c.at

LoadCurrent(w) ==
  LET comparable == \E p \in query[w].previous, c \in Loaded(w, 2) : InTimeOrder(p, c)
  IN  /\ Asked(w, "current")
      /\ \/ /\ comparable
            /\ query' = [query EXCEPT ![w].pc = "showing", ![w].current = Loaded(w, 2)]
         \/ ~comparable /\ Refuse(w)
      /\ UNCHANGED <<store, identity, compares, scan, outcome>>

\* The server whose history the payload lists: asked again, and as it was read.
ActiveNow(w) == active[w]
HistoryServer(w) == query[w].server

\* The engine may still refuse the two snapshots.
ShowComparison(w) ==
  /\ Asked(w, "showing")
  /\ \E c \in query[w].current :
       LET payload == PayloadOf(query[w].server, query[w].previous, c, TRUE, HistoryServer(w))
       IN  reply' = [reply EXCEPT ![w] =
             IF payload.status \in {"SERVER_MISMATCH", "INVALID_TIME_ORDER"} THEN @ ELSE {payload}]
  /\ Refuse(w)
  /\ UNCHANGED <<store, identity, compares, scan, active, latest>>

\* The IDE restarts: histories and identities stay.
Restart ==
  /\ idLock' = {}
  /\ scan' = [w \in Windows |-> IdleScan]
  /\ query' = [w \in Windows |-> IdleQuery]
  /\ active' = [w \in Windows |-> None]
  /\ latest' = [w \in Windows |-> {}]
  /\ reply' = [w \in Windows |-> {}]
  /\ UNCHANGED <<store, identities, compares>>

Next ==
  \/ \E w \in Windows :
       \/ \E c \in Connections, f \in Fingerprints : Resolve(w, c, f)
       \/ Register(w) \/ ReadBaseline(w) \/ Project(w) \/ Save(w)
       \/ Activate(w) \/ Show(w) \/ CaptureFails(w)
       \/ \E older, newer \in Ids : AskCompare(w, older, newer)
       \/ ListHistory(w) \/ LoadPrevious(w) \/ LoadCurrent(w) \/ ShowComparison(w)
  \/ Restart

Spec == Init /\ [][Next]_vars
-----------------------------------------------------------------------------
(***************************************************************************)
(* Invariants.                                                             *)
(***************************************************************************)
TypeOK ==
  /\ hist \in [ServerIds -> SUBSET Snapshot]
  /\ owner \in [Ids -> MaybeServer]
  /\ clock \in Times \cup {0}
  /\ identities \in [Connections -> MaybeServer]
  /\ idLock \subseteq Windows
  /\ compares \in 0..MaxCompares
  /\ scan \in [Windows -> Scan]
  /\ query \in [Windows -> Query]
  /\ active \in [Windows -> MaybeServer]
  /\ latest \in [Windows -> SUBSET Payload] /\ reply \in [Windows -> SUBSET Payload]

\* One connection has one server ID, in the file and in every window that works
\* with it; two windows that register the same new connection agree.
OneIdentity ==
  /\ \A c, d \in Connections : identities[c] = identities[d] /\ c # d => identities[c] = None
  /\ \A w \in Windows : scan[w].server # None => identities[scan[w].target] = scan[w].server

CaptureInv == TypeOK /\ OneIdentity

\* What a payload shows belongs to one server: both snapshots and the history
\* beside them, although the active server may change during a comparison.
PayloadOfOneServer ==
  \A w \in Windows : \A p \in Payloads(w) :
    \A m \in p.previous \cup {p.current} \cup p.history : owner[m.id] = p.server

\* Changes are always shown forwards in time: while the clock does not go back,
\* no capture compares its snapshot with a later baseline, and no comparison is
\* answered in the wrong order.
ForwardInTime ==
  \A w \in Windows : \A p \in Payloads(w) :
    \A m \in p.previous : m.at <= p.current.at

\* A stored snapshot that a payload compares is in the history beside it, unless
\* retention dropped it in the meantime for newer ones.
MissingOnlyIfEvicted ==
  \A w \in Windows : \A p \in Payloads(w) :
    \A m \in p.previous \cup (IF p.persisted THEN {p.current} ELSE {}) :
      m \in p.history \/ Cardinality(Ahead(m, p.history)) >= RetentionLimit

\* A live graph equal to the latest baseline is shown as "no changes".
NoChangeWhenDeduplicated ==
  \A w \in Windows : \A p \in latest[w] : ~p.persisted => p.status = "NO_CHANGES"
=============================================================================
