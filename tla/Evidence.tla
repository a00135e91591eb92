------------------------------ MODULE Evidence ------------------------------
(***************************************************************************)
(* Two scans of one server, each of which may see less than there is, and  *)
(* the comparison that the Changes page shows of them.                     *)
(*                                                                         *)
(* A world is what the server really runs; it may change between the two   *)
(* scans but not during one.  An outcome is how far a scan's discovery     *)
(* got: the Docker part, the Caddy configuration, systemd, the listeners,  *)
(* and the listeners whose processes ended before their cgroup was read.   *)
(***************************************************************************)
EXTENDS ChangesModel, ResourceModel

CONSTANTS
  Worlds,        \* [containers, caddies, services, listeners]
  MaxFailures,   \* bound on the parts of one scan that fail together
  MayRace        \* TRUE: a process may end while its cgroup is being read

ASSUME FailuresAssumption == MaxFailures \in Nat
ASSUME RaceAssumption == MayRace \in BOOLEAN
\* What a server runs is finite.  Docker's container IDs are unique; the parser
\* keeps one service of a unit and one listener of an address (distinctBy).
ASSUME WorldsAssumption ==
  \A w \in Worlds :
    /\ IsFiniteSet(w.containers) /\ IsFiniteSet(w.caddies)
    /\ IsFiniteSet(w.services) /\ IsFiniteSet(w.listeners)
    /\ \A x, y \in w.containers : x.id = y.id => x = y
    /\ \A x, y \in w.services : x.unit = y.unit => x = y
    /\ \A x, y \in w.listeners : x.key = y.key => x = y
    /\ \A x, y \in w.caddies : x.container = y.container => x = y
    /\ \A c \in w.containers : IsFiniteSet(c.ports) /\ IsFiniteSet(c.networks) /\ IsFiniteSet(c.mounts)
    /\ \A c \in w.caddies : /\ c = [container |-> c.container, name |-> c.name, routes |-> c.routes]
                           /\ IsFiniteSet(c.routes)
                           /\ \A r \in c.routes :
                                /\ IsFiniteSet(r.hosts)
                                /\ r.upstreams \in Seq({r.upstreams[i] : i \in DOMAIN r.upstreams})

VARIABLES
  previous,   \* the older scan, [world, outcome, at], or None
  current,    \* the newer scan, or None
  sent,       \* the payload that the plugin made of them, or None
  shown       \* the payload that the page shows, or None

vars == <<previous, current, sent, shown>>

(* What a scan finds. *)

\* Records of a listing may be lost, one or a whole batch, or only a line of one
\* that is kept; a failed or truncated command gives nothing.
Listings(items) == {[state |-> "DISCOVERED", hidden |-> {}], [state |-> "COMMAND_FAILED", hidden |-> items]}
                   \cup {[state |-> "PARTIAL", hidden |-> h] : h \in SUBSET items}
Outcome(unreadable, systemd, listeners, unread) ==
  [docker |-> "AVAILABLE", unreadable |-> unreadable, systemd |-> systemd,
   listeners |-> listeners, unread |-> unread]
Perfect == Outcome({}, [state |-> "DISCOVERED", hidden |-> {}], [state |-> "DISCOVERED", hidden |-> {}], {})
HelperFailed == [Perfect EXCEPT !.docker = "SCAN_FAILED"]
Failures(o) == Cardinality({x \in DOMAIN o : o[x] # Perfect[x]})

AnyOutcome(w) ==
  {Outcome(u, s, l, r) :
     u \in SUBSET {c.container : c \in w.caddies},
     s \in Listings({x.unit : x \in w.services}), l \in Listings({x.key : x \in w.listeners}),
     r \in {{}} \cup (IF MayRace THEN {{x.key} : x \in w.listeners} ELSE {})}
Outcomes(w) == {HelperFailed} \cup {o \in AnyOutcome(w) : Failures(o) <= MaxFailures}

\* listener_json: the owner is looked up among the services the same scan found.
\* A service's cgroup is in a slice and never in that of another service, so the
\* longest match of systemd_service_for_cgroup is the only one.
Listener(l, found, unread) ==
  LET owners == IF l.key \in unread THEN {} ELSE l.owners \cap found
      state == IF Cardinality(owners) > 1 THEN "AMBIGUOUS"
               ELSE IF owners # {} /\ owners = l.owners THEN "SYSTEMD_SERVICE" ELSE "UNRESOLVED"
  IN  [key |-> l.key, protocol |-> "tcp", port |-> l.port, loopback |-> l.loopback,
       ownership |-> state, unit |-> IF state = "SYSTEMD_SERVICE" THEN Only(owners) ELSE None]

\* caddy_summary_from_instances
CaddyState(w, unreadable) ==
  IF w.caddies = {} THEN "NOT_DETECTED"
  ELSE IF unreadable = {} THEN "DISCOVERED"
  ELSE IF Cardinality(unreadable) = Cardinality(w.caddies) THEN "CONFIG_UNAVAILABLE" ELSE "PARTIAL"

\* collect_snapshot and DockerDiscovery.from: nothing is kept of a run that failed.
Discovery(w, o) ==
  IF o.docker # "AVAILABLE"
  THEN [docker |-> o.docker, containers |-> {}, caddy |-> [state |-> "NOT_DETECTED", instances |-> {}],
        systemd |-> [state |-> "UNKNOWN", services |-> {}],
        listeners |-> [state |-> "UNKNOWN", items |-> {}]]
  ELSE LET services == {s \in w.services : s.unit \notin o.systemd.hidden}
           Read(c) == IF c.container \in o.unreadable THEN [c EXCEPT !.routes = {}] ELSE c
           found == {s.unit : s \in services}
       IN  [docker |-> "AVAILABLE", containers |-> w.containers,
            caddy |-> [state |-> CaddyState(w, o.unreadable), instances |-> {Read(c) : c \in w.caddies}],
            systemd |-> [state |-> o.systemd.state, services |-> services],
            listeners |-> [state |-> o.listeners.state,
                           items |-> {Listener(l, found, o.unread) :
                                        l \in {x \in w.listeners : x.key \notin o.listeners.hidden}}]]

Contents == [w \in Worlds |-> [o \in Outcomes(w) |-> content(create(Discovery(w, o)))]]
SaidEmpty == [w \in Worlds |-> [o \in Outcomes(w) |-> {list \in DOMAIN Lists : SaysNone(Contents[w][o], list)}]]
Routes == [w \in Worlds |-> [o \in Outcomes(w) |-> resourceModel(Contents[w][o]).routes]]
Snapshot(scan) ==
  IF scan = None THEN None
  ELSE [id |-> scan, serverId |-> "server", capturedAt |-> scan.at,
        content |-> Contents[scan.world][scan.outcome]]
Scanned(w, o, at) == [world |-> w, outcome |-> o, at |-> at]

ASSUME NoneAssumption ==
  \A w \in Worlds :
    /\ None \notin w.containers
    /\ \A o \in Outcomes(w) :
         /\ None \notin Contents[w][o].nodes
         /\ \A at \in 0..2 : None \notin {Scanned(w, o, at), Snapshot(Scanned(w, o, at))}

Init == previous = None /\ current = None /\ sent = None /\ shown = None

\* A scan is captured and compared with the one before it.  The clock of the
\* workstation may have been set back in between.
Scan ==
  /\ previous = None
  /\ \E w \in Worlds : \E o \in Outcomes(w) :
       \E at \in IF current = None THEN {1} ELSE {0, 2} :
         /\ previous' = current
         /\ current' = Scanned(w, o, at)
         /\ sent' = payload(Snapshot(previous'), Snapshot(current'))
         /\ LET response == normalizeChangesResponse(success(sent'))
            IN  shown' = IF response.ok THEN response.payload ELSE shown

Next == Scan
Spec == Init /\ [][Next]_vars

-----------------------------------------------------------------------------
(* Properties. *)

Compared == previous # None /\ previous.at <= current.at
Real(scan) == Contents[scan.world][Perfect]
Ids(x) == {n.id : n \in x.nodes}

\* A resource reported as added or removed with evidence CONFIRMED really was
\* not there before and is there now, or the other way round, however little
\* either scan saw.
ConfirmedNodesAreReal ==
  Compared => \A c \in shown.diff.nodeChanges :
    c.evidence = "CONFIRMED" /\ c.kind # "MODIFIED" =>
      /\ (c.nodeId \in Ids(Real(current))) = (c.kind = "ADDED")
      /\ (c.nodeId \in Ids(Real(previous))) = (c.kind = "REMOVED")

\* The owner of a listener whose processes ended during a scan is lost without a trace.
Raced(e) == \E l \in previous.outcome.unread \cup current.outcome.unread :
              listenerId(l) \in {e.source, e.target} /\ e.relation \in {"LISTENS_ON", "OWNED_BY"}

\* The same of relationships, whose evidence must cover the discovery of both
\* ends and of whatever else decides that they exist.
ConfirmedRelationshipsAreReal ==
  Compared => \A c \in shown.diff.relationshipChanges :
    c.evidence = "CONFIRMED" /\ ~Raced(c.edge) =>
      /\ (c.edge \in Real(current).edges) = (c.kind = "RELATIONSHIP_ADDED")
      /\ (c.edge \in Real(previous).edges) = (c.kind = "RELATIONSHIP_REMOVED")

\* The page receives the comparison that the plugin made: nothing that the
\* serializer leaves out makes the page reject the payload or drop a record of it.
PageReadsWhatWasWritten ==
  shown = sent

\* Where one of these lists says that there is nothing, a complete scan finds
\* nothing for it either.
SaidTruly(lists) ==
  current # None =>
    \A list \in lists \cap SaidEmpty[current.world][current.outcome] : Denied(Real(current), list) = {}

\* PROJECT.md:1098: "Normal scan provenance distinguishes an unavailable helper
\* from Docker or Caddy that is genuinely absent": wherever the window says that
\* there are no resources of a kind, the server has none.
EmptyMeansNone == SaidTruly(DOMAIN Lists)

\* Where a page's own list says that the server has no applications, containers,
\* networks, ports, mounts, routes, services or listeners, it has none: what a
\* failed or partial discovery did not see is said to be unknown.  Not so the
\* sentences of the Overview, of the Explorer and of the filter of the services.
PageLists == DOMAIN Lists \ {"OVERVIEW", "DOMAINS", "LISTENING"}
EmptyPageMeansNone == SaidTruly(PageLists)

\* What an upstream of the graph leads to: its container, its listeners and the
\* services that own them.
LeadingTo(graph, upstream) ==
  LET listeners == Targets(graph, "TARGETS", upstream)
  IN  Targets(graph, "RESOLVES_TO", upstream) \cup listeners
      \cup UNION {Targets(graph, "OWNED_BY", l) : l \in listeners}

\* A route that the routing page shows as resolved names the container or service
\* that a complete scan shows there.  One that it shows as partial, ambiguous or
\* unresolved may name a service or a listener beside which there are others, but
\* none that a complete scan does not find behind that upstream.
RouteTargetIsReal ==
  current # None =>
    \A r \in Routes[current.world][current.outcome] :
      /\ targetLabel(r) \subseteq LeadingTo(Real(current), r.upstream.id)
      /\ shownResolution(r) \in {"RESOLVED", "HOST_SERVICE"} =>
           \E x \in Routes[current.world][Perfect] :
             /\ x.upstream.id = r.upstream.id /\ shownResolution(x) = shownResolution(r)
             /\ Cardinality(targetLabel(r)) = 1 /\ targetLabel(x) = targetLabel(r)

\* The containers that a Docker name means: those with the name, or with the
\* service where no container has the name, that have the port, which Caddy dials
\* over TCP, and can be reached.
Meant(w, dial, caddy) ==
  LET named == {c \in w.containers : c.name = dial.host}
      proxy == CHOOSE c \in w.containers : c.id = caddy
  IN  {c \in w.containers : /\ IF named = {} THEN c.service = dial.host ELSE c \in named
                            /\ \E p \in c.ports : p.protocol = "tcp" /\ p.port = dial.port
                            /\ c.networks \cap proxy.networks # {}}

\* A container is shown behind a domain only when the name that Caddy dials can
\* mean no other container: several replicas are never reduced to one of them.
AmbiguityIsShown ==
  current # None =>
    \A r \in Routes[current.world][current.outcome] :
      r.target # None =>
        \E caddy \in current.world.caddies : \E route \in caddy.routes :
          \E i \in DOMAIN route.upstreams :
            /\ r.upstream.id = <<"UPSTREAM", caddy.container, route, i>>
            /\ {containerId(c.id) : c \in Meant(current.world, route.upstreams[i], caddy.container)} = {r.target.id}

Covered(required) ==
  /\ Incomplete(required, Snapshot(previous).content.quality) = {}
  /\ Incomplete(required, Snapshot(current).content.quality) = {}

\* What really appeared or disappeared is reported as confirmed when the parts
\* of discovery it depends on were complete both times, whatever else failed.
CompleteDiscoveryMissesNothing ==
  Compared =>
    LET Reported(kind, id) == \E c \in shown.diff.nodeChanges :
                                c.nodeId = id /\ c.kind = kind /\ c.evidence = "CONFIRMED"
        Seen(id) == Covered(requiredSubsystems(type(id)))
    IN  /\ \A id \in Ids(Real(current)) \ Ids(Real(previous)) : Seen(id) => Reported("ADDED", id)
        /\ \A id \in Ids(Real(previous)) \ Ids(Real(current)) : Seen(id) => Reported("REMOVED", id)

\* Every record of the comparison is on exactly one card under the filter ALL,
\* and on as many under exactly one other filter; the card of a relationship
\* names the record's target.  A search for a changed resource finds its card, and
\* a click on that opens the live resource exactly when the last scan found it.
EveryRecordShownOnce ==
  shown # None =>
    LET cards == Cards(shown, None)
        relationships == cards.RELATIONSHIP \cup uncertainRelationshipPresentations(shown)
        Names(card, c) == LET target == IF c.kind = "RELATIONSHIP_ADDED" THEN card.afterTarget
                                        ELSE card.beforeTarget
                          IN  target # None /\ target.id = c.edge.target
        Filters(k) == {f \in ChangeFilters : filterAllows(f, k, k = "UNCERTAIN")}
    IN  /\ \A k \in DOMAIN cards : "ALL" \in Filters(k) /\ Cardinality(Filters(k)) = 2
        /\ \A c \in shown.diff.nodeChanges :
             LET sections == {k \in DOMAIN cards \ {"RELATIONSHIP"} : c \in cards[k]}
             IN  /\ Cardinality(sections) = 1
                 /\ \A k \in sections : c \in Cards(shown, c.label)[k]
                 /\ opensNode(shown, c) = (c.nodeId \in Ids(Snapshot(current).content))
        /\ \A c \in shown.diff.relationshipChanges :
             LET mine == {card \in relationships : c \in card.records}
             IN  /\ Cardinality(mine) = 1
                 /\ \A card \in mine :
                      /\ Names(card, c)
                      /\ opensSubject(card) = (c.edge.source \in Ids(Snapshot(current).content))

\* The counts that the engine puts in the summary are those of the cards that
\* the page builds from the records, and the page says that nothing matches
\* exactly when it has no card.
CountsShown ==
  shown # None /\ PageOf(shown) = "CARDS" =>
    LET s == shown.diff.summary
        cards == Cards(shown, None)
        records == UNION {card.records : card \in cards.RELATIONSHIP}
    IN  /\ <<s.addedNodes, s.modifiedNodes, s.removedNodes>> =
             <<Cardinality(cards.ADDED), Cardinality(cards.MODIFIED), Cardinality(cards.REMOVED)>>
        /\ s.addedRelationships + s.removedRelationships = Cardinality(records)
        /\ s.uncertainComparisons = Cardinality(cards.UNCERTAIN)
        /\ hasVisible(cards, "ALL")

\* The toolbar reports a number of changes only when there are some, and reports
\* that nothing changed only when no resource came or went, or when the scan
\* before was incomplete and so could not have known it.
FeedbackIsTrue ==
  Compared =>
    LET feedback == scanFeedback(shown)
    IN  /\ feedback.text = "CHANGES" => feedback.count > 0
        /\ feedback.text = "NO_CHANGES" /\ Failures(previous.outcome) = 0 =>
             Ids(Real(previous)) = Ids(Real(current))

\* PROJECT.md:1041: "Discovery-quality transitions are context rather than
\* resource changes, and quality metadata fields are excluded from node
\* modifications": nothing is reported as modified while the server stays as
\* it is, only better or worse discovered.
QualityIsNoChange ==
  Compared /\ previous.world = current.world =>
    \A c \in shown.diff.nodeChanges : c.kind # "MODIFIED"
=============================================================================
