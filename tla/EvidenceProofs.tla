--------------------------- MODULE EvidenceProofs ---------------------------
(***************************************************************************)
(* What the evidence of a comparison is worth, whatever the server runs    *)
(* and however much of a scan fails.                                       *)
(***************************************************************************)
EXTENDS Evidence, ChangesTheorems

LEMMA CompleteIs ==
  ASSUME NEW q, NEW t, Incomplete(requiredSubsystems(t), q) = {}
  PROVE  /\ t \in {"REVERSE_PROXY", "DOMAIN", "UPSTREAM"} =>
              q.DOCKER = "AVAILABLE" /\ q.CADDY \in {"DISCOVERED", "NOT_DETECTED"}
         /\ t = "SYSTEMD_SERVICE" => q.SYSTEMD = "DISCOVERED"
         /\ t = "HOST_LISTENER" => q.HOST_LISTENERS = "DISCOVERED"
         /\ t \in {"DOCKER_COMPOSE_PROJECT", "DOCKER_CONTAINER", "PORT", "MOUNT", "NETWORK"} =>
              q.DOCKER = "AVAILABLE"
BY DEF Incomplete, requiredSubsystems, isComplete

(***************************************************************************)
(* Scans of a world.                                                       *)
(***************************************************************************)
LEMMA PerfectOutcome ==
  ASSUME NEW w PROVE Perfect \in Outcomes(w)
PROOF
<1>1. {x \in DOMAIN Perfect : Perfect[x] # Perfect[x]} = {}
  OBVIOUS
<1>2. Failures(Perfect) = 0
  BY <1>1, FS_EmptySet DEF Failures
<1>3. Failures(Perfect) <= MaxFailures
  BY <1>2, FailuresAssumption
<1> DEFINE discovered == [state |-> "DISCOVERED", hidden |-> {}]
           races == {{}} \cup (IF MayRace THEN {{x.key} : x \in w.listeners} ELSE {})
           containers == {c.container : c \in w.caddies}
           systemds == Listings({x.unit : x \in w.services})
           listeners == Listings({x.key : x \in w.listeners})
<1>a. /\ {} \in SUBSET containers /\ {} \in races
      /\ discovered \in systemds /\ discovered \in listeners
  BY DEF Listings
<1>b. Perfect = Outcome({}, discovered, discovered, {})
  BY DEF Perfect
<1>c. AnyOutcome(w) = {Outcome(u, s, l, r) : u \in SUBSET containers, s \in systemds,
                                             l \in listeners, r \in races}
  BY DEF AnyOutcome
<1> HIDE DEF discovered, races, containers, systemds, listeners
<1>4. Perfect \in AnyOutcome(w)
  BY <1>a, <1>b, <1>c
<1> QED
  BY <1>3, <1>4 DEF Outcomes

\* An outcome is that of a helper that failed, or it names what was not seen.
LEMMA OutcomeIs ==
  ASSUME NEW w, NEW o \in Outcomes(w)
  PROVE  \/ o.docker = "SCAN_FAILED"
         \/ /\ o.docker = "AVAILABLE"
            /\ o.unreadable \subseteq {c.container : c \in w.caddies}
            /\ o.systemd \in Listings({s.unit : s \in w.services})
            /\ o.listeners \in Listings({l.key : l \in w.listeners})
            /\ o.unread \in {{}} \cup {{l.key} : l \in w.listeners}
PROOF
<1>1. HelperFailed.docker = "SCAN_FAILED"
  BY DEF HelperFailed, Perfect, Outcome
<1> DEFINE races == {{}} \cup (IF MayRace THEN {{x.key} : x \in w.listeners} ELSE {})
           containers == {c.container : c \in w.caddies}
           systemds == Listings({x.unit : x \in w.services})
           listeners == Listings({x.key : x \in w.listeners})
<1>2. o = HelperFailed \/ o \in AnyOutcome(w)
  BY DEF Outcomes
<1>3. AnyOutcome(w) = {Outcome(u, s, l, r) : u \in SUBSET containers, s \in systemds,
                                             l \in listeners, r \in races}
  BY DEF AnyOutcome
<1>4. \A r \in races : r \in {{}} \cup {{l.key} : l \in w.listeners}
  OBVIOUS
<1> HIDE DEF races, containers, systemds, listeners
<1>5. CASE o \in AnyOutcome(w)
  <2>1. PICK u \in SUBSET containers, s \in systemds, l \in listeners, r \in races : o = Outcome(u, s, l, r)
    BY <1>3, <1>5
  <2>2. /\ o.docker = "AVAILABLE" /\ o.unreadable = u /\ o.systemd = s
        /\ o.listeners = l /\ o.unread = r
    BY <2>1 DEF Outcome
  <2> QED
    BY <1>4, <2>2 DEF containers, systemds, listeners
<1> QED
  BY <1>1, <1>2, <1>5

LEMMA ListingIs ==
  ASSUME NEW items, NEW l \in Listings(items)
  PROVE  /\ l.state \in {"DISCOVERED", "PARTIAL", "COMMAND_FAILED"}
         /\ l.state = "DISCOVERED" => l.hidden = {}
BY DEF Listings

\* What a configuration that cannot be read leaves of its instance.
Read(c, unreadable) == IF c.container \in unreadable THEN [c EXCEPT !.routes = {}] ELSE c
Found(w, o) == {s \in w.services : s.unit \notin o.systemd.hidden}
Heard(w, o) == {l \in w.listeners : l.key \notin o.listeners.hidden}
UnitsOf(services) == {s.unit : s \in services}
Instances(w, o) == {Read(c, o.unreadable) : c \in w.caddies}
Listeners(w, o) == {Listener(l, UnitsOf(Found(w, o)), o.unread) : l \in Heard(w, o)}

LEMMA DiscoveryIs ==
  ASSUME NEW w, NEW o, NEW d, d = Discovery(w, o)
  PROVE  /\ d.docker = o.docker
         /\ o.docker # "AVAILABLE" => /\ d.systemd.state = "UNKNOWN" /\ d.systemd.services = {}
                                     /\ d.listeners.state = "UNKNOWN" /\ d.listeners.items = {}
                                     /\ d.caddy.state = "NOT_DETECTED"
         /\ o.docker = "AVAILABLE" =>
              /\ d.containers = w.containers
              /\ d.caddy.state = CaddyState(w, o.unreadable)
              /\ d.caddy.instances = Instances(w, o)
              /\ d.systemd.state = o.systemd.state /\ d.systemd.services = Found(w, o)
              /\ d.listeners.state = o.listeners.state /\ d.listeners.items = Listeners(w, o)
PROOF
<1>1. CASE o.docker # "AVAILABLE"
  BY <1>1 DEF Discovery
<1>2. CASE o.docker = "AVAILABLE"
  <2>1. d = [docker |-> "AVAILABLE", containers |-> w.containers,
             caddy |-> [state |-> CaddyState(w, o.unreadable),
                        instances |-> Instances(w, o)],
             systemd |-> [state |-> o.systemd.state, services |-> Found(w, o)],
             listeners |-> [state |-> o.listeners.state, items |-> Listeners(w, o)]]
    BY <1>2 DEF Discovery, Read, Found, Heard, UnitsOf, Instances, Listeners
  <2>2. /\ d.docker = o.docker
        /\ d.containers = w.containers
        /\ d.caddy.state = CaddyState(w, o.unreadable)
        /\ d.caddy.instances = Instances(w, o)
        /\ d.systemd.state = o.systemd.state /\ d.systemd.services = Found(w, o)
        /\ d.listeners.state = o.listeners.state /\ d.listeners.items = Listeners(w, o)
    BY <1>2, <2>1
  <2> QED
    BY <1>2, <2>2
<1> QED
  BY <1>1, <1>2

LEMMA ReadIs ==
  ASSUME NEW w \in Worlds, NEW c \in w.caddies, NEW unreadable
  PROVE  /\ Read(c, unreadable).container = c.container
         /\ Read(c, unreadable).routes = IF c.container \in unreadable THEN {} ELSE c.routes
         /\ c.container \notin unreadable => Read(c, unreadable) = c
PROOF
<1>1. c = [container |-> c.container, name |-> c.name, routes |-> c.routes]
  BY WorldsAssumption
<1> QED
  BY <1>1 DEF Read

\* Caddy's discovery is complete only when every configuration was read.
LEMMA CaddyComplete ==
  ASSUME NEW w, NEW unreadable \in SUBSET {c.container : c \in w.caddies},
         CaddyState(w, unreadable) \in {"DISCOVERED", "NOT_DETECTED"}
  PROVE  unreadable = {}
BY DEF CaddyState

LEMMA ContentIs ==
  ASSUME NEW w \in Worlds, NEW o \in Outcomes(w)
  PROVE  /\ Contents[w][o] = content(create(Discovery(w, o)))
         /\ Contents[w][o].nodes = create(Discovery(w, o)).nodes
         /\ Contents[w][o].edges = create(Discovery(w, o)).edges
         /\ Ids(Contents[w][o]) = Ids(create(Discovery(w, o)))
         /\ Contents[w][o].quality.DOCKER = o.docker
         /\ Contents[w][o].quality.CADDY = Discovery(w, o).caddy.state
         /\ Contents[w][o].quality.HOST_LISTENERS = Discovery(w, o).listeners.state
         /\ Contents[w][o].quality.SYSTEMD = Discovery(w, o).systemd.state
PROOF
<1>1. Contents[w][o] = content(create(Discovery(w, o)))
  BY DEF Contents
<1>2. content(create(Discovery(w, o))).nodes = create(Discovery(w, o)).nodes
  BY DEF content
<1>3. content(create(Discovery(w, o))).edges = create(Discovery(w, o)).edges
  BY DEF content
<1>4. Discovery(w, o).docker = o.docker
  BY DiscoveryIs
<1>5. content(create(Discovery(w, o))).quality =
        [CADDY |-> Discovery(w, o).caddy.state, DOCKER |-> Discovery(w, o).docker,
         HOST_LISTENERS |-> Discovery(w, o).listeners.state, SYSTEMD |-> Discovery(w, o).systemd.state]
  BY QualityIs
<1> QED
  BY <1>1, <1>2, <1>3, <1>4, <1>5 DEF Ids

LEMMA IdsAre ==
  ASSUME NEW w \in Worlds, NEW o \in Outcomes(w)
  PROVE  Ids(Contents[w][o]) =
           IF o.docker = "AVAILABLE"
           THEN HostIds(Found(w, o), Heard(w, o)) \cup DockerIds(w.containers)
                \cup CaddyIds(Instances(w, o))
           ELSE HostIds({}, {})
PROOF
<1>0. PICK d : d = Discovery(w, o)
  OBVIOUS
<1>1. \A l, found, unread : Listener(l, found, unread).key = l.key
  BY DEF Listener
<1>a. Ids(Contents[w][o]) = Ids(create(d))
  BY <1>0, ContentIs
<1>2. CASE o.docker = "AVAILABLE"
  <2>1. /\ d.docker = "AVAILABLE" /\ d.containers = w.containers
        /\ d.caddy.instances = Instances(w, o)
        /\ d.systemd.services = Found(w, o)
        /\ d.listeners.items = Listeners(w, o)
    BY <1>0, <1>2, DiscoveryIs
  <2>2. HostIds(d.systemd.services, d.listeners.items) = HostIds(Found(w, o), Heard(w, o))
    <3>1. {listenerId(l.key) : l \in d.listeners.items} = {listenerId(l.key) : l \in Heard(w, o)}
      BY <1>1, <2>1 DEF Listeners
    <3> QED
      BY <2>1, <3>1 DEF HostIds
  <2> QED
    BY <1>a, <1>2, <2>1, <2>2, GraphIdsAre DEF Ids
<1>3. CASE o.docker # "AVAILABLE"
  <2>1. d.docker # "AVAILABLE" /\ d.systemd.services = {} /\ d.listeners.items = {}
    BY <1>0, <1>3, DiscoveryIs
  <2> QED
    BY <1>a, <1>3, <2>1, GraphIdsAre DEF Ids
<1> QED
  BY <1>2, <1>3

(***************************************************************************)
(* A scan finds only what is there, and all of what its complete parts     *)
(* cover.                                                                  *)
(***************************************************************************)
LEMMA PerfectSeesAll ==
  ASSUME NEW w \in Worlds
  PROVE  /\ Found(w, Perfect) = w.services /\ Heard(w, Perfect) = w.listeners
         /\ Instances(w, Perfect) = w.caddies
         /\ Perfect.docker = "AVAILABLE" /\ Perfect.unreadable = {} /\ Perfect.unread = {}
PROOF
<1>1. /\ Perfect.docker = "AVAILABLE" /\ Perfect.unreadable = {} /\ Perfect.unread = {}
      /\ Perfect.systemd.hidden = {} /\ Perfect.listeners.hidden = {}
  BY DEF Perfect, Outcome
<1>2. Found(w, Perfect) = w.services /\ Heard(w, Perfect) = w.listeners
  BY <1>1 DEF Found, Heard
<1>3. \A c \in w.caddies : Read(c, {}) = c
  BY ReadIs
<1>4. Instances(w, Perfect) = w.caddies
  BY <1>1, <1>3 DEF Instances
<1> QED
  BY <1>1, <1>2, <1>4

LEMMA FoundIsReal ==
  ASSUME NEW w \in Worlds, NEW o \in Outcomes(w)
  PROVE  Ids(Contents[w][o]) \subseteq Ids(Contents[w][Perfect])
PROOF
<1>1. Ids(Contents[w][Perfect]) =
        HostIds(w.services, w.listeners) \cup DockerIds(w.containers) \cup CaddyIds(w.caddies)
  BY PerfectOutcome, PerfectSeesAll, IdsAre
<1>2. \A S, L : S \subseteq w.services /\ L \subseteq w.listeners =>
        HostIds(S, L) \subseteq HostIds(w.services, w.listeners)
  BY DEF HostIds
<1>3. Found(w, o) \subseteq w.services /\ Heard(w, o) \subseteq w.listeners
  BY DEF Found, Heard
<1>4. CaddyIds(Instances(w, o)) \subseteq CaddyIds(w.caddies)
  <2>1. ASSUME NEW x \in Instances(w, o)
        PROVE  \E c \in w.caddies : c.container = x.container /\ x.routes \subseteq c.routes
    <3>1. PICK c \in w.caddies : x = Read(c, o.unreadable)
      BY DEF Instances
    <3> QED
      BY <3>1, ReadIs
  <2>2. ASSUME NEW id \in CaddyIds(Instances(w, o))
        PROVE  id \in CaddyIds(w.caddies)
    <3>1. CASE \E x \in Instances(w, o) : id = proxyId(x.container)
      BY <2>1, <3>1 DEF CaddyIds
    <3>2. CASE \E x \in Instances(w, o) : \E r \in x.routes : id \in UpstreamsOf(x.container, r)
      <4>1. \E c \in w.caddies : \E r \in c.routes : id \in UpstreamsOf(c.container, r)
        BY <2>1, <3>2
      <4> QED
        BY <4>1 DEF CaddyIds
    <3>3. CASE \E x \in Instances(w, o) : \E r \in x.routes : \E i \in DOMAIN Backends(r) :
                 \E host \in r.hosts : id = domainId(host)
      <4>1. \E c \in w.caddies : \E r \in c.routes : \E i \in DOMAIN Backends(r) :
              \E host \in r.hosts : id = domainId(host)
        BY <2>1, <3>3
      <4> QED
        BY <4>1 DEF CaddyIds
    <3> QED
      BY <3>1, <3>2, <3>3 DEF CaddyIds
  <2> QED
    BY <2>2
<1>5. CASE o.docker = "AVAILABLE"
  <2>1. Ids(Contents[w][o]) =
          HostIds(Found(w, o), Heard(w, o)) \cup DockerIds(w.containers) \cup CaddyIds(Instances(w, o))
    BY <1>5, IdsAre
  <2>2. HostIds(Found(w, o), Heard(w, o)) \subseteq HostIds(w.services, w.listeners)
    BY <1>2, <1>3
  <2> QED
    BY <1>1, <1>4, <2>1, <2>2
<1>6. CASE o.docker # "AVAILABLE"
  <2>1. Ids(Contents[w][o]) = HostIds({}, {})
    BY <1>6, IdsAre
  <2>2. HostIds({}, {}) \subseteq HostIds(w.services, w.listeners)
    BY <1>2
  <2> QED
    BY <1>1, <2>1, <2>2
<1> QED
  BY <1>5, <1>6

LEMMA QualityOfScan ==
  ASSUME NEW w \in Worlds, NEW o \in Outcomes(w), NEW q, q = Contents[w][o].quality
  PROVE  /\ q.DOCKER = "AVAILABLE" => /\ o.docker = "AVAILABLE"
                                     /\ q.CADDY = CaddyState(w, o.unreadable)
         /\ q.SYSTEMD = "DISCOVERED" => o.docker = "AVAILABLE" /\ o.systemd.hidden = {}
         /\ q.HOST_LISTENERS = "DISCOVERED" => o.docker = "AVAILABLE" /\ o.listeners.hidden = {}
         /\ q.DOCKER = "AVAILABLE" /\ q.CADDY \in {"DISCOVERED", "NOT_DETECTED"} => o.unreadable = {}
PROOF
<1>1. PICK d : d = Discovery(w, o)
  OBVIOUS
<1>2. /\ q.DOCKER = o.docker /\ q.CADDY = d.caddy.state
      /\ q.HOST_LISTENERS = d.listeners.state /\ q.SYSTEMD = d.systemd.state
  BY <1>1, ContentIs
<1>3. CASE o.docker = "AVAILABLE"
  <2>1. /\ d.caddy.state = CaddyState(w, o.unreadable)
        /\ d.systemd.state = o.systemd.state /\ d.listeners.state = o.listeners.state
    BY <1>1, <1>3, DiscoveryIs
  <2>2. /\ o.unreadable \subseteq {c.container : c \in w.caddies}
        /\ o.systemd \in Listings({s.unit : s \in w.services})
        /\ o.listeners \in Listings({l.key : l \in w.listeners})
    BY <1>3, OutcomeIs
  <2>3. /\ o.systemd.state = "DISCOVERED" => o.systemd.hidden = {}
        /\ o.listeners.state = "DISCOVERED" => o.listeners.hidden = {}
    BY <2>2, ListingIs
  <2>4. CaddyState(w, o.unreadable) \in {"DISCOVERED", "NOT_DETECTED"} => o.unreadable = {}
    BY <2>2, CaddyComplete
  <2> QED
    BY <1>2, <1>3, <2>1, <2>3, <2>4
<1>4. CASE o.docker # "AVAILABLE"
  <2>1. d.systemd.state = "UNKNOWN" /\ d.listeners.state = "UNKNOWN"
    BY <1>1, <1>4, DiscoveryIs
  <2> QED
    BY <1>2, <1>4, <2>1
<1> QED
  BY <1>3, <1>4

LEMMA CompleteFindsAll ==
  ASSUME NEW w \in Worlds, NEW o \in Outcomes(w), NEW id \in Ids(Contents[w][Perfect]),
         Incomplete(requiredSubsystems(type(id)), Contents[w][o].quality) = {}
  PROVE  id \in Ids(Contents[w][o])
PROOF
<1> DEFINE q == Contents[w][o].quality
<1>1. Ids(Contents[w][Perfect]) =
        HostIds(w.services, w.listeners) \cup DockerIds(w.containers) \cup CaddyIds(w.caddies)
  BY PerfectOutcome, PerfectSeesAll, IdsAre
<1>2. /\ type(id) \in {"REVERSE_PROXY", "DOMAIN", "UPSTREAM"} =>
           q.DOCKER = "AVAILABLE" /\ q.CADDY \in {"DISCOVERED", "NOT_DETECTED"}
      /\ type(id) = "SYSTEMD_SERVICE" => q.SYSTEMD = "DISCOVERED"
      /\ type(id) = "HOST_LISTENER" => q.HOST_LISTENERS = "DISCOVERED"
      /\ type(id) \in {"DOCKER_COMPOSE_PROJECT", "DOCKER_CONTAINER", "PORT", "MOUNT", "NETWORK"} =>
           q.DOCKER = "AVAILABLE"
  BY CompleteIs
<1>3. /\ q.DOCKER = "AVAILABLE" => o.docker = "AVAILABLE"
      /\ q.SYSTEMD = "DISCOVERED" => o.docker = "AVAILABLE" /\ o.systemd.hidden = {}
      /\ q.HOST_LISTENERS = "DISCOVERED" => o.docker = "AVAILABLE" /\ o.listeners.hidden = {}
      /\ q.DOCKER = "AVAILABLE" /\ q.CADDY \in {"DISCOVERED", "NOT_DETECTED"} => o.unreadable = {}
  BY QualityOfScan
<1> HIDE DEF q
<1>4. Ids(Contents[w][o]) =
        IF o.docker = "AVAILABLE"
        THEN HostIds(Found(w, o), Heard(w, o)) \cup DockerIds(w.containers) \cup CaddyIds(Instances(w, o))
        ELSE HostIds({}, {})
  BY IdsAre
<1>5. CASE id \in HostIds(w.services, w.listeners)
  <2>1. \A S, L : {serverId, engineId} \subseteq HostIds(S, L)
    BY DEF HostIds
  <2>2. CASE \E s \in w.services : id = serviceId(s.unit)
    <3>1. o.docker = "AVAILABLE" /\ Found(w, o) = w.services
      BY <1>2, <1>3, <2>2, TypesAre DEF Found
    <3>2. id \in HostIds(Found(w, o), Heard(w, o))
      BY <2>2, <3>1 DEF HostIds
    <3> QED
      BY <1>4, <3>1, <3>2
  <2>3. CASE \E l \in w.listeners : id = listenerId(l.key)
    <3>1. o.docker = "AVAILABLE" /\ Heard(w, o) = w.listeners
      BY <1>2, <1>3, <2>3, TypesAre DEF Heard
    <3>2. id \in HostIds(Found(w, o), Heard(w, o))
      BY <2>3, <3>1 DEF HostIds
    <3> QED
      BY <1>4, <3>1, <3>2
  <2>4. CASE id \in {serverId, engineId}
    BY <1>4, <2>1, <2>4
  <2> QED
    BY <1>5, <2>2, <2>3, <2>4 DEF HostIds
<1>6. CASE id \in DockerIds(w.containers)
  <2>1. type(id) \in {"DOCKER_COMPOSE_PROJECT", "DOCKER_CONTAINER", "PORT", "MOUNT", "NETWORK"}
    BY <1>6, TypesAre DEF DockerIds
  <2> QED
    BY <1>2, <1>3, <1>4, <1>6, <2>1
<1>7. CASE id \in CaddyIds(w.caddies)
  <2>1. type(id) \in {"REVERSE_PROXY", "DOMAIN", "UPSTREAM"}
    BY <1>7, TypesAre DEF CaddyIds, UpstreamsOf
  <2>2. o.docker = "AVAILABLE" /\ o.unreadable = {}
    BY <1>2, <1>3, <2>1
  <2>3. \A c \in w.caddies : Read(c, {}) = c
    BY ReadIs
  <2>4. Instances(w, o) = w.caddies
    BY <2>2, <2>3 DEF Instances
  <2> QED
    BY <1>4, <1>7, <2>2, <2>4
<1> QED
  BY <1>1, <1>5, <1>6, <1>7

(***************************************************************************)
(* The inductive invariant: what the page shows is the comparison of the   *)
(* two scans, whatever those found.                                        *)
(***************************************************************************)
IsScan(s) == \E w \in Worlds : \E o \in Outcomes(w) : \E at \in 0..2 : s = Scanned(w, o, at)
EvidenceIInv ==
  /\ current = None => previous = None /\ sent = None /\ shown = None
  /\ current # None => /\ IsScan(current)
                       /\ sent = payload(Snapshot(previous), Snapshot(current))
                       /\ shown = sent
  /\ previous # None => IsScan(previous)

\* Every edge of a graph is made by edge or DomainEdge.
LEMMA EdgesAreEdges ==
  ASSUME NEW d, NEW e \in create(d).edges
  PROVE  IsEdge(e)
PROOF
<1>1. \A s, r, t : IsEdge(edge(s, r, t))
  BY DEF IsEdge, edge
<1>2. \A h, r, t, x : IsEdge(DomainEdge(h, r, t, x))
  BY DEF IsEdge, DomainEdge
<1>3. ASSUME NEW x \in HostEdges(d) PROVE IsEdge(x)
  BY <1>1 DEF HostEdges
<1>4. ASSUME NEW x \in DockerEdges(d) PROVE IsEdge(x)
  BY <1>1 DEF DockerEdges
<1>5. ASSUME NEW hops, NEW x \in CaddyEdges(d, hops) PROVE IsEdge(x)
  BY <1>1, <1>2 DEF CaddyEdges
<1> QED
  BY <1>3, <1>4, <1>5 DEF create

LEMMA ScanIs ==
  ASSUME NEW w, NEW o, NEW at
  PROVE  /\ Scanned(w, o, at).world = w /\ Scanned(w, o, at).outcome = o /\ Scanned(w, o, at).at = at
BY DEF Scanned

LEMMA SnapshotIs ==
  ASSUME NEW s, IsScan(s)
  PROVE  /\ s # None /\ Snapshot(s) # None
         /\ s.world \in Worlds /\ s.outcome \in Outcomes(s.world) /\ s.at \in 0..2
         /\ Snapshot(s).serverId = "server" /\ Snapshot(s).capturedAt = s.at
         /\ Snapshot(s).content = Contents[s.world][s.outcome]
         /\ HasEdges(Snapshot(s))
PROOF
<1>1. PICK w \in Worlds : \E o \in Outcomes(w) : \E at \in 0..2 : s = Scanned(w, o, at)
  BY DEF IsScan
<1>2. PICK o \in Outcomes(w) : \E at \in 0..2 : s = Scanned(w, o, at)
  BY <1>1
<1>3. PICK at \in 0..2 : s = Scanned(w, o, at)
  BY <1>2
<1>4. s # None /\ Snapshot(s) # None
  BY <1>3, NoneAssumption
<1>5. s.world = w /\ s.outcome = o /\ s.at = at
  BY <1>3, ScanIs
<1>6. /\ Snapshot(s).serverId = "server" /\ Snapshot(s).capturedAt = s.at
      /\ Snapshot(s).content = Contents[s.world][s.outcome]
  BY <1>4 DEF Snapshot
<1>7. \A e \in Contents[w][o].edges : IsEdge(e)
  BY ContentIs, EdgesAreEdges
<1>8. HasEdges(Snapshot(s))
  BY <1>5, <1>6, <1>7 DEF HasEdges
<1> QED
  BY <1>4, <1>5, <1>6, <1>8

LEMMA SnapshotOfNone == Snapshot(None) = None /\ HasEdges(Snapshot(None))
BY DEF Snapshot, HasEdges

LEMMA EvidenceStep == EvidenceIInv /\ [Next]_vars => EvidenceIInv'
PROOF
<1> SUFFICES ASSUME EvidenceIInv, [Next]_vars PROVE EvidenceIInv'
  OBVIOUS
<1>1. CASE Scan
  <2>1. PICK w \in Worlds : \E o \in Outcomes(w) :
          \E at \in IF current = None THEN {1} ELSE {0, 2} :
            /\ previous' = current
            /\ current' = Scanned(w, o, at)
            /\ sent' = payload(Snapshot(previous'), Snapshot(current'))
            /\ LET response == normalizeChangesResponse(success(sent'))
               IN  shown' = IF response.ok THEN response.payload ELSE shown
    BY <1>1 DEF Scan
  <2>2. PICK o \in Outcomes(w) :
          \E at \in IF current = None THEN {1} ELSE {0, 2} :
            /\ previous' = current
            /\ current' = Scanned(w, o, at)
            /\ sent' = payload(Snapshot(previous'), Snapshot(current'))
            /\ LET response == normalizeChangesResponse(success(sent'))
               IN  shown' = IF response.ok THEN response.payload ELSE shown
    BY <2>1
  <2>3. PICK at \in IF current = None THEN {1} ELSE {0, 2} :
            /\ previous' = current
            /\ current' = Scanned(w, o, at)
            /\ sent' = payload(Snapshot(previous'), Snapshot(current'))
            /\ LET response == normalizeChangesResponse(success(sent'))
               IN  shown' = IF response.ok THEN response.payload ELSE shown
    BY <2>2
  <2>4. IsScan(current')
    BY <2>3 DEF IsScan
  <2>5. previous' # None => IsScan(previous')
    BY <2>3 DEF EvidenceIInv
  <2>6. Snapshot(current') # None /\ HasEdges(Snapshot(current'))
    BY <2>4, SnapshotIs
  <2>7. HasEdges(Snapshot(previous'))
    BY <2>5, SnapshotIs, SnapshotOfNone
  <2>8. normalizeChangesResponse(success(payload(Snapshot(previous'), Snapshot(current'))))
          = [ok |-> TRUE, payload |-> payload(Snapshot(previous'), Snapshot(current'))]
    BY <2>6, <2>7, PayloadIsRead
  <2>9. shown' = sent'
    BY <2>3, <2>8
  <2>10. current' # None
    BY <2>4, SnapshotIs
  <2> QED
    BY <2>3, <2>4, <2>5, <2>9, <2>10 DEF EvidenceIInv, IsScan, Snapshot
<1>2. CASE UNCHANGED vars
  BY <1>2 DEF EvidenceIInv, vars, IsScan, Snapshot
<1> QED
  BY <1>1, <1>2 DEF Next

\* What the page shows is the comparison of the last two scans: the inductive
\* invariant, for any worlds and any number of failing parts.
THEOREM EvidenceCorrect == Spec => []EvidenceIInv
<1>1. Init => EvidenceIInv
  BY DEF Init, EvidenceIInv
<1> QED
  BY <1>1, EvidenceStep, PTL DEF Spec

\* The page receives the comparison that the plugin made: nothing that the
\* serializer leaves out makes the page reject the payload or drop a record.
THEOREM ReadAsWritten == Spec => []PageReadsWhatWasWritten
<1>1. EvidenceIInv => PageReadsWhatWasWritten
  BY DEF EvidenceIInv, PageReadsWhatWasWritten
<1> QED
  BY <1>1, EvidenceCorrect, PTL

(***************************************************************************)
(* What a confirmed record is worth.                                       *)
(***************************************************************************)

\* The comparison behind the page, when it is one of two scans in order.
Seen(scan) == Contents[scan.world][scan.outcome]

LEMMA ComparedScans ==
  ASSUME EvidenceIInv, Compared
  PROVE  /\ previous.world \in Worlds /\ previous.outcome \in Outcomes(previous.world)
         /\ current.world \in Worlds /\ current.outcome \in Outcomes(current.world)
         /\ Snapshot(previous).content = Seen(previous)
         /\ Snapshot(current).content = Seen(current)
         /\ shown.diff = IF Seen(previous) = Seen(current) THEN terminal("NO_CHANGES", TRUE)
                         ELSE Differences(Seen(previous), Seen(current))
PROOF
<1>1. previous # None /\ previous.at <= current.at /\ IsScan(previous)
  BY DEF EvidenceIInv, Compared
<1>2. current # None /\ IsScan(current) /\ shown = payload(Snapshot(previous), Snapshot(current))
  BY <1>1 DEF EvidenceIInv
<1>3. /\ Snapshot(previous) # None /\ Snapshot(previous).serverId = "server"
      /\ Snapshot(previous).capturedAt = previous.at /\ previous.at \in 0..2
      /\ Snapshot(previous).content = Seen(previous)
      /\ previous.world \in Worlds /\ previous.outcome \in Outcomes(previous.world)
  BY <1>1, SnapshotIs DEF Seen
<1>4. /\ Snapshot(current).serverId = "server"
      /\ Snapshot(current).capturedAt = current.at /\ current.at \in 0..2
      /\ Snapshot(current).content = Seen(current)
      /\ current.world \in Worlds /\ current.outcome \in Outcomes(current.world)
  BY <1>2, SnapshotIs DEF Seen
<1>5. ~(Snapshot(previous).capturedAt > Snapshot(current).capturedAt)
  BY <1>1, <1>3, <1>4
<1>6. compare(Snapshot(previous), Snapshot(current)) =
        IF Seen(previous) = Seen(current) THEN terminal("NO_CHANGES", TRUE)
        ELSE Differences(Seen(previous), Seen(current))
  BY <1>3, <1>4, <1>5 DEF compare
<1>7. shown.diff = compare(Snapshot(previous), Snapshot(current))
  BY <1>2 DEF payload
<1> QED
  BY <1>3, <1>4, <1>6, <1>7

LEMMA TerminalIsEmpty ==
  ASSUME NEW status, NEW complete
  PROVE  /\ terminal(status, complete).nodeChanges = {}
         /\ terminal(status, complete).relationshipChanges = {}
         /\ terminal(status, complete).status = status
BY DEF terminal

LEMMA ConfirmedIsComplete ==
  ASSUME NEW required, NEW quality
  PROVE  /\ (additionEvidence(required, quality) = "CONFIRMED") = (Incomplete(required, quality) = {})
         /\ (removalEvidence(required, quality) = "CONFIRMED") = (Incomplete(required, quality) = {})
BY DEF additionEvidence, removalEvidence

\* A resource reported as added or removed with evidence CONFIRMED really was
\* not there before and is there now, or the other way round, however little
\* either scan saw (the evidence that InfrastructureDiffEngine gives).
THEOREM ConfirmedNodes == Spec => []ConfirmedNodesAreReal
PROOF
<1>1. EvidenceIInv => ConfirmedNodesAreReal
  <2> SUFFICES ASSUME EvidenceIInv, Compared, NEW c \in shown.diff.nodeChanges,
                      c.evidence = "CONFIRMED", c.kind # "MODIFIED"
               PROVE  /\ (c.nodeId \in Ids(Real(current))) = (c.kind = "ADDED")
                      /\ (c.nodeId \in Ids(Real(previous))) = (c.kind = "REMOVED")
    BY DEF ConfirmedNodesAreReal
  <2>1. c \in Differences(Seen(previous), Seen(current)).nodeChanges
    BY ComparedScans, TerminalIsEmpty
  <2>2. /\ previous.world \in Worlds /\ previous.outcome \in Outcomes(previous.world)
        /\ current.world \in Worlds /\ current.outcome \in Outcomes(current.world)
    BY ComparedScans
  <2>3. Ids(Seen(previous)) \subseteq Ids(Real(previous)) /\ Ids(Seen(current)) \subseteq Ids(Real(current))
    BY <2>2, FoundIsReal DEF Seen, Real
  <2>4. \A x : IdsIn(x) = Ids(x)
    BY DEF IdsIn, Ids
  <2>5. CASE c.kind = "ADDED"
    <3>1. /\ c.nodeId \in Ids(Seen(current)) \ Ids(Seen(previous))
          /\ Incomplete(requiredSubsystems(type(c.nodeId)), Seen(previous).quality) = {}
      BY <2>1, <2>4, <2>5, NodeRecords, ConfirmedIsComplete
    <3>2. c.nodeId \notin Ids(Real(previous))
      BY <2>2, <3>1, CompleteFindsAll DEF Seen, Real
    <3> QED
      BY <2>3, <2>5, <3>1, <3>2
  <2>6. CASE c.kind = "REMOVED"
    <3>1. /\ c.nodeId \in Ids(Seen(previous)) \ Ids(Seen(current))
          /\ Incomplete(requiredSubsystems(type(c.nodeId)), Seen(current).quality) = {}
      BY <2>1, <2>4, <2>6, NodeRecords, ConfirmedIsComplete
    <3>2. c.nodeId \notin Ids(Real(current))
      BY <2>2, <3>1, CompleteFindsAll DEF Seen, Real
    <3> QED
      BY <2>3, <2>6, <3>1, <3>2
  <2> QED
    BY <2>1, <2>5, <2>6, NodeRecords
<1> QED
  BY <1>1, EvidenceCorrect, PTL

\* What really appeared or disappeared is reported as confirmed when the parts
\* of discovery it depends on were complete both times, whatever else failed.
THEOREM NothingIsMissed == Spec => []CompleteDiscoveryMissesNothing
PROOF
<1>1. EvidenceIInv => CompleteDiscoveryMissesNothing
  <2> SUFFICES ASSUME EvidenceIInv, Compared PROVE CompleteDiscoveryMissesNothing
    BY DEF CompleteDiscoveryMissesNothing
  <2>1. /\ previous.world \in Worlds /\ previous.outcome \in Outcomes(previous.world)
        /\ current.world \in Worlds /\ current.outcome \in Outcomes(current.world)
    BY ComparedScans
  <2>2. Ids(Seen(previous)) \subseteq Ids(Real(previous)) /\ Ids(Seen(current)) \subseteq Ids(Real(current))
    BY <2>1, FoundIsReal DEF Seen, Real
  <2>3. \A x : IdsIn(x) = Ids(x)
    BY DEF IdsIn, Ids
  <2>4. \A required : Covered(required) => /\ Incomplete(required, Seen(previous).quality) = {}
                                          /\ Incomplete(required, Seen(current).quality) = {}
    BY ComparedScans DEF Covered
  <2>5. ASSUME NEW id \in Ids(Real(current)) \ Ids(Real(previous)),
               Covered(requiredSubsystems(type(id)))
        PROVE  \E c \in shown.diff.nodeChanges :
                 c.nodeId = id /\ c.kind = "ADDED" /\ c.evidence = "CONFIRMED"
    <3>1. id \in Ids(Seen(current))
      BY <2>1, <2>4, <2>5, CompleteFindsAll DEF Seen, Real
    <3>2. id \notin Ids(Seen(previous))
      BY <2>2
    <3>3. shown.diff = Differences(Seen(previous), Seen(current))
      BY <3>1, <3>2, ComparedScans
    <3> QED
      BY <2>3, <2>4, <2>5, <3>1, <3>2, <3>3, NodesReported, ConfirmedIsComplete
  <2>6. ASSUME NEW id \in Ids(Real(previous)) \ Ids(Real(current)),
               Covered(requiredSubsystems(type(id)))
        PROVE  \E c \in shown.diff.nodeChanges :
                 c.nodeId = id /\ c.kind = "REMOVED" /\ c.evidence = "CONFIRMED"
    <3>1. id \in Ids(Seen(previous))
      BY <2>1, <2>4, <2>6, CompleteFindsAll DEF Seen, Real
    <3>2. id \notin Ids(Seen(current))
      BY <2>2
    <3>3. shown.diff = Differences(Seen(previous), Seen(current))
      BY <3>1, <3>2, ComparedScans
    <3> QED
      BY <2>3, <2>4, <2>6, <3>1, <3>2, <3>3, NodesReported, ConfirmedIsComplete
  <2> QED
    BY <2>5, <2>6 DEF CompleteDiscoveryMissesNothing
<1> QED
  BY <1>1, EvidenceCorrect, PTL

(***************************************************************************)
(* Lists that are empty.                                                   *)
(***************************************************************************)
LEMMA StatesOfScan ==
  ASSUME NEW w \in Worlds, NEW o \in Outcomes(w)
  PROVE  LET g == Contents[w][o]
         IN  /\ metadataOf(g, engineId).docker_discovery_state = g.quality.DOCKER
             /\ metadataOf(g, engineId).caddy_discovery_state = g.quality.CADDY
             /\ metadataOf(g, serverId).systemd_discovery_status = g.quality.SYSTEMD
             /\ metadataOf(g, serverId).listener_discovery_status = g.quality.HOST_LISTENERS
PROOF
<1>1. PICK g : g = Contents[w][o]
  OBVIOUS
<1>2. PICK d : d = Discovery(w, o)
  OBVIOUS
<1>3. \A id : metadataOf(g, id) = metadataOf(create(d), id)
  BY <1>1, <1>2, ContentIs DEF metadataOf
<1>4. /\ g.quality.DOCKER = d.docker /\ g.quality.CADDY = d.caddy.state
      /\ g.quality.HOST_LISTENERS = d.listeners.state /\ g.quality.SYSTEMD = d.systemd.state
  BY <1>1, <1>2, ContentIs, DiscoveryIs
<1>5. /\ metadataOf(g, serverId) = [systemd_discovery_status |-> d.systemd.state,
                                   listener_discovery_status |-> d.listeners.state]
      /\ metadataOf(g, engineId) = [docker_discovery_state |-> d.docker,
                                   caddy_discovery_state |-> d.caddy.state]
  BY <1>3, MetadataOfHost
<1>6. /\ metadataOf(g, engineId).docker_discovery_state = d.docker
      /\ metadataOf(g, engineId).caddy_discovery_state = d.caddy.state
      /\ metadataOf(g, serverId).systemd_discovery_status = d.systemd.state
      /\ metadataOf(g, serverId).listener_discovery_status = d.listeners.state
  BY <1>5
<1> QED
  BY <1>1, <1>4, <1>6

\* The list of a page says that there is nothing only after a discovery that was
\* complete for the resources it would list.
LEMMA NoneIsComplete ==
  ASSUME NEW w \in Worlds, NEW o \in Outcomes(w), NEW list \in PageLists,
         EmptyCopy(Contents[w][o], list) = "NONE", NEW t \in Lists[list]
  PROVE  Incomplete(requiredSubsystems(t), Contents[w][o].quality) = {}
PROOF
<1> DEFINE g == Contents[w][o]
           q == g.quality
<1>1. /\ metadataOf(g, engineId).docker_discovery_state = q.DOCKER
      /\ metadataOf(g, engineId).caddy_discovery_state = q.CADDY
      /\ metadataOf(g, serverId).systemd_discovery_status = q.SYSTEMD
      /\ metadataOf(g, serverId).listener_discovery_status = q.HOST_LISTENERS
  BY StatesOfScan
<1>2. q.DOCKER \in {"AVAILABLE", "SCAN_FAILED"}
  BY ContentIs, OutcomeIs
<1>3. list \in {"APPLICATIONS", "NETWORKS", "PORTS", "MOUNTS", "ROUTES", "SERVICES", "LISTENERS"}
  BY DEF Lists, PageLists
<1> HIDE DEF g, q
<1>4. CASE list = "ROUTES"
  <2>1. t \in {"UPSTREAM", "DOMAIN"}
    BY <1>4 DEF Lists
  <2>2. caddyEmptyCopy(q.DOCKER, q.CADDY) = "NONE"
    BY <1>1, <1>4 DEF EmptyCopy, g
  <2>3. q.DOCKER = "AVAILABLE" /\ q.CADDY = "NOT_DETECTED"
    BY <2>2 DEF caddyEmptyCopy
  <2> QED
    BY <2>1, <2>3 DEF Incomplete, requiredSubsystems, isComplete, g, q
<1>5. CASE list = "SERVICES"
  <2>1. t = "SYSTEMD_SERVICE"
    BY <1>5 DEF Lists
  <2>2. discoveryStatusCopy(q.SYSTEMD) = "NONE"
    BY <1>1, <1>5 DEF EmptyCopy, g
  <2>3. q.SYSTEMD = "DISCOVERED"
    BY <2>2 DEF discoveryStatusCopy
  <2> QED
    BY <2>1, <2>3 DEF Incomplete, requiredSubsystems, isComplete, g, q
<1>6. CASE list = "LISTENERS"
  <2>1. t = "HOST_LISTENER"
    BY <1>6 DEF Lists
  <2>2. discoveryStatusCopy(q.HOST_LISTENERS) = "NONE"
    BY <1>1, <1>6 DEF EmptyCopy, g
  <2>3. q.HOST_LISTENERS = "DISCOVERED"
    BY <2>2 DEF discoveryStatusCopy
  <2> QED
    BY <2>1, <2>3 DEF Incomplete, requiredSubsystems, isComplete, g, q
<1>7. CASE list \in {"APPLICATIONS", "NETWORKS", "PORTS", "MOUNTS"}
  <2>1. t \in {"DOCKER_COMPOSE_PROJECT", "DOCKER_CONTAINER", "NETWORK", "PORT", "MOUNT"}
    BY <1>7 DEF Lists
  <2>2. dockerEmptyCopy(q.DOCKER) = "NONE"
    BY <1>1, <1>7 DEF EmptyCopy, g
  <2>3. q.DOCKER = "AVAILABLE"
    BY <1>2, <2>2 DEF dockerEmptyCopy
  <2> QED
    BY <2>1, <2>3 DEF Incomplete, requiredSubsystems, isComplete, g, q
<1> QED
  BY <1>3, <1>4, <1>5, <1>6, <1>7

\* Where a page's own list says that the server has no applications, containers,
\* networks, ports, mounts, routes, services or listeners, it has none: what a
\* failed or partial discovery did not see is said to be unknown (ui-state.ts).
THEOREM EmptyListsAreTrue == Spec => []EmptyPageMeansNone
PROOF
<1>1. EvidenceIInv => EmptyPageMeansNone
  <2> SUFFICES ASSUME EvidenceIInv, current # None, NEW list \in PageLists,
                      list \in SaidEmpty[current.world][current.outcome],
                      NEW n \in Denied(Real(current), list)
               PROVE  FALSE
    BY DEF EmptyPageMeansNone, SaidTruly, PageLists
  <2>0. list # "LISTENING" /\ n \in Real(current).nodes /\ type(n.id) \in Lists[list]
    BY DEF Denied, PageLists
  <2>1. PICK w \in Worlds : w = current.world
    BY SnapshotIs DEF EvidenceIInv
  <2>2. PICK o \in Outcomes(w) : o = current.outcome
    BY <2>1, SnapshotIs DEF EvidenceIInv
  <2>3. list \in DOMAIN Lists /\ SaysNone(Contents[w][o], list)
    <3>1. SaidEmpty[w][o] = {x \in DOMAIN Lists : SaysNone(Contents[w][o], x)}
      BY DEF SaidEmpty
    <3> QED
      BY <2>1, <2>2, <3>1
  <2>4. EmptyCopy(Contents[w][o], list) = "NONE"
    BY <2>3 DEF SaysNone
  <2>5. \A t \in Lists[list] : Incomplete(requiredSubsystems(t), Contents[w][o].quality) = {}
    BY <2>3, <2>4, NoneIsComplete
  <2>6. n.id \in Ids(Contents[w][Perfect])
    BY <2>0, <2>1, <2>2 DEF Ids, Real
  <2>7. n.id \in Ids(Contents[w][o])
    BY <2>0, <2>5, <2>6, CompleteFindsAll
  <2>8. CASE list # "MOUNTS"
    <3>1. Items(Contents[w][o], list) = Denied(Contents[w][o], list)
      BY <2>8 DEF Items, PageLists
    <3>2. PICK x \in Contents[w][o].nodes : x.id = n.id
      BY <2>7 DEF Ids
    <3>3. x \in Denied(Contents[w][o], list)
      BY <2>0, <3>2 DEF Denied
    <3> QED
      BY <2>3, <3>1, <3>3 DEF SaysNone
  <2>9. CASE list = "MOUNTS"
    <3>1. type(n.id) = "MOUNT"
      BY <2>0, <2>9 DEF Lists
    <3>2. ~\E x \in Contents[w][o].nodes : type(x.id) = "DOCKER_CONTAINER"
      BY <2>3, <2>9 DEF SaysNone, Items, OfType
    <3>3. o.docker = "AVAILABLE"
      <4>1. Contents[w][o].quality.DOCKER = "AVAILABLE"
        BY <2>5, <2>9, CompleteIs DEF Lists
      <4> QED
        BY <4>1, QualityOfScan
    <3>4. PICK c \in w.containers : n.id \in {mountId(c.id, m) : m \in c.mounts}
      <4>1. n.id \in HostIds(Found(w, o), Heard(w, o)) \cup DockerIds(w.containers) \cup CaddyIds(Instances(w, o))
        BY <2>7, <3>3, IdsAre
      <4>2. n.id \notin HostIds(Found(w, o), Heard(w, o))
        BY <3>1, TypesAre DEF HostIds
      <4>3. n.id \notin CaddyIds(Instances(w, o))
        BY <3>1, TypesAre DEF CaddyIds, UpstreamsOf
      <4> QED
        BY <3>1, <4>1, <4>2, <4>3, TypesAre DEF DockerIds
    <3>5. containerId(c.id) \in Ids(Contents[w][o])
      <4>1. containerId(c.id) \in DockerIds(w.containers)
        BY DEF DockerIds
      <4> QED
        BY <3>3, <4>1, IdsAre
    <3> QED
      BY <3>2, <3>5, TypesAre DEF Ids
  <2> QED
    BY <2>8, <2>9
<1> QED
  BY <1>1, EvidenceCorrect, PTL

(***************************************************************************)
(* The relationships of a scan, by what the scan found: the services, the  *)
(* listeners, the Caddy instances whose configuration was read, and the    *)
(* listeners whose processes ended too early.                              *)
(***************************************************************************)
HasOwner(l, services) ==
  /\ l.owners # {} /\ l.owners \subseteq UnitsOf(services) /\ ~(Cardinality(l.owners) > 1)
OwnerEdge(services, l, e) ==
  /\ HasOwner(l, services) /\ \E s \in services : s.unit = Only(l.owners)
  /\ e \in {edge(serviceId(Only(l.owners)), "LISTENS_ON", listenerId(l.key)),
            edge(listenerId(l.key), "OWNED_BY", serviceId(Only(l.owners)))}
ContainerEdge(w, e) ==
  \/ \E p \in Projects(w) : e = edge(engineId, "CONTAINS", projectId(p))
  \/ \E c \in w.containers : e = IF c.project = None THEN edge(engineId, "RUNS", containerId(c.id))
                                 ELSE edge(projectId(c.project), "CONTAINS", containerId(c.id))
  \/ \E p \in Ports(w) : e = edge(containerId(p[1]), "EXPOSES", portId(p[1], p[2]))
  \/ \E v \in Mounts(w) : e = edge(containerId(v[1]), "MOUNTS", mountId(v[1], v[2]))
  \/ \E c \in w.containers : \E n \in c.networks : e = edge(containerId(c.id), "CONNECTED_TO", networkId(n))
ProxyEdge(w, e) ==
  \E c \in w.caddies : /\ \E k \in w.containers : k.id = c.container
                       /\ e = edge(containerId(c.container), "RUNS", proxyId(c.container))
PublishedEdge(w, l, e) ==
  \E p \in PublishedAs(w, l) : e = edge(portId(p[1], p[2]), "PUBLISHED_AS", listenerId(l.key))
UpstreamId(c, r, i) == <<"UPSTREAM", c.container, r, i>>
Resolved(w, c, r, i) == resolve(c, Backends(r)[i], w.containers)
RouteEdge(w, c, r, i, e) ==
  \/ e = edge(proxyId(c.container), "PROXIES_TO", UpstreamId(c, r, i))
  \/ /\ Resolved(w, c, r, i).container # None
     /\ e = edge(UpstreamId(c, r, i), "RESOLVES_TO", containerId(Resolved(w, c, r, i).container.id))
  \/ \E host \in r.hosts :
       e \in {DomainEdge(host, "ROUTES_THROUGH", proxyId(c.container), <<c.container, r>>),
              DomainEdge(host, "ROUTES_TO", UpstreamId(c, r, i), <<c.container, r>>)}
TargetEdge(w, listeners, c, r, i, e) ==
  /\ Resolved(w, c, r, i).state = "HOST_TARGET"
  /\ \E l \in listeners : /\ l.port = Backends(r)[i].port /\ ~l.loopback
                          /\ e = edge(UpstreamId(c, r, i), "TARGETS", listenerId(l.key))
ScanEdge(w, services, listeners, caddies, unread, e) ==
  \/ e = edge(serverId, "RUNS", engineId)
  \/ \E s \in services : e = edge(serverId, "RUNS", serviceId(s.unit))
  \/ \E l \in listeners : e = edge(serverId, "CONTAINS", listenerId(l.key))
  \/ \E l \in listeners : l.key \notin unread /\ OwnerEdge(services, l, e)
  \/ ContainerEdge(w, e)
  \/ \E l \in listeners : PublishedEdge(w, l, e)
  \/ ProxyEdge(w, e)
  \/ \E c \in caddies : \E r \in c.routes : \E i \in DOMAIN Backends(r) :
       RouteEdge(w, c, r, i, e) \/ TargetEdge(w, listeners, c, r, i, e)

\* A listener keeps its address, and its owner where the scan found it.
LEMMA ListenerIs ==
  ASSUME NEW l, NEW services, NEW unread, NEW m, m = Listener(l, UnitsOf(services), unread)
  PROVE  /\ m.key = l.key /\ m.protocol = "tcp" /\ m.port = l.port /\ m.loopback = l.loopback
         /\ (m.ownership = "SYSTEMD_SERVICE") = (l.key \notin unread /\ HasOwner(l, services))
         /\ m.ownership = "SYSTEMD_SERVICE" => m.unit = Only(l.owners)
PROOF
<1> DEFINE owners == IF l.key \in unread THEN {} ELSE l.owners \cap UnitsOf(services)
           state == IF Cardinality(owners) > 1 THEN "AMBIGUOUS"
                    ELSE IF owners # {} /\ owners = l.owners THEN "SYSTEMD_SERVICE" ELSE "UNRESOLVED"
<1>1. m = [key |-> l.key, protocol |-> "tcp", port |-> l.port, loopback |-> l.loopback,
           ownership |-> state, unit |-> IF state = "SYSTEMD_SERVICE" THEN Only(owners) ELSE None]
  BY DEF Listener
<1>2. (state = "SYSTEMD_SERVICE") = (~(Cardinality(owners) > 1) /\ owners # {} /\ owners = l.owners)
  OBVIOUS
<1>3. (owners # {} /\ owners = l.owners) =
        (l.key \notin unread /\ l.owners # {} /\ l.owners \subseteq UnitsOf(services))
  OBVIOUS
<1> HIDE DEF owners
<1>4. (state = "SYSTEMD_SERVICE") = (l.key \notin unread /\ HasOwner(l, services))
  BY <1>2, <1>3 DEF HasOwner
<1>5. state = "SYSTEMD_SERVICE" => Only(owners) = Only(l.owners)
  BY <1>2
<1> HIDE DEF state
<1> QED
  BY <1>1, <1>4, <1>5

\* The edges that a discovery makes, one by one.
LEMMA HostEdgesAre ==
  ASSUME NEW w \in Worlds, NEW o \in Outcomes(w), o.docker = "AVAILABLE",
         NEW d, d = Discovery(w, o), NEW e
  PROVE  e \in HostEdges(d) <=>
           \/ e = edge(serverId, "RUNS", engineId)
           \/ \E s \in Found(w, o) : e = edge(serverId, "RUNS", serviceId(s.unit))
           \/ \E l \in Heard(w, o) : e = edge(serverId, "CONTAINS", listenerId(l.key))
           \/ \E l \in Heard(w, o) : l.key \notin o.unread /\ OwnerEdge(Found(w, o), l, e)
PROOF
<1> DEFINE Made(l) == Listener(l, UnitsOf(Found(w, o)), o.unread)
<1>1. /\ d.systemd.services = Found(w, o)
      /\ d.listeners.items = Listeners(w, o)
  BY DiscoveryIs
<1>2. Listeners(w, o) = {Made(l) : l \in Heard(w, o)}
  BY DEF Listeners
<1>3. \A l : /\ Made(l).key = l.key
             /\ (Made(l).ownership = "SYSTEMD_SERVICE") = (l.key \notin o.unread /\ HasOwner(l, Found(w, o)))
             /\ Made(l).ownership = "SYSTEMD_SERVICE" => Made(l).unit = Only(l.owners)
  BY ListenerIs
<1> HIDE DEF Made
<1>4. e \in HostEdges(d) <=>
        \/ e = edge(serverId, "RUNS", engineId)
        \/ \E s \in d.systemd.services : e = edge(serverId, "RUNS", serviceId(s.unit))
        \/ \E l \in d.listeners.items : e = edge(serverId, "CONTAINS", listenerId(l.key))
        \/ \E l \in d.listeners.items :
             /\ l.ownership = "SYSTEMD_SERVICE" /\ \E s \in d.systemd.services : s.unit = l.unit
             /\ e \in {edge(serviceId(l.unit), "LISTENS_ON", listenerId(l.key)),
                       edge(listenerId(l.key), "OWNED_BY", serviceId(l.unit))}
  BY DEF HostEdges, Owned
<1>5. (\E l \in d.listeners.items : e = edge(serverId, "CONTAINS", listenerId(l.key))) <=>
      \E l \in Heard(w, o) : e = edge(serverId, "CONTAINS", listenerId(l.key))
  BY <1>1, <1>2, <1>3
<1>6. (\E l \in d.listeners.items :
         /\ l.ownership = "SYSTEMD_SERVICE" /\ \E s \in d.systemd.services : s.unit = l.unit
         /\ e \in {edge(serviceId(l.unit), "LISTENS_ON", listenerId(l.key)),
                   edge(listenerId(l.key), "OWNED_BY", serviceId(l.unit))}) <=>
      \E l \in Heard(w, o) : l.key \notin o.unread /\ OwnerEdge(Found(w, o), l, e)
  BY <1>1, <1>2, <1>3 DEF OwnerEdge
<1> QED
  BY <1>1, <1>4, <1>5, <1>6

LEMMA DockerEdgesAre ==
  ASSUME NEW w \in Worlds, NEW o \in Outcomes(w), o.docker = "AVAILABLE",
         NEW d, d = Discovery(w, o), NEW e
  PROVE  e \in DockerEdges(d) <=> ContainerEdge(w, e) \/ \E l \in Heard(w, o) : PublishedEdge(w, l, e)
PROOF
<1> DEFINE Made(l) == Listener(l, UnitsOf(Found(w, o)), o.unread)
<1>1. d.containers = w.containers /\ d.listeners.items = {Made(l) : l \in Heard(w, o)}
  BY DiscoveryIs DEF Listeners
<1>2. \A l : Made(l).key = l.key
  BY ListenerIs
<1> HIDE DEF Made
<1>3. Projects(d) = Projects(w) /\ Ports(d) = Ports(w) /\ Mounts(d) = Mounts(w)
  BY <1>1 DEF Projects, Ports, Mounts
<1>4. \A l : PublishedAs(d, Made(l)) = PublishedAs(w, l)
  BY <1>2, <1>3 DEF PublishedAs
<1>5. e \in DockerEdges(d) <=>
        ContainerEdge(w, e)
        \/ \E l \in d.listeners.items : \E p \in PublishedAs(d, l) :
             e = edge(portId(p[1], p[2]), "PUBLISHED_AS", listenerId(l.key))
  BY <1>1, <1>3 DEF DockerEdges, ContainerEdge
<1>6. (\E l \in d.listeners.items : \E p \in PublishedAs(d, l) :
         e = edge(portId(p[1], p[2]), "PUBLISHED_AS", listenerId(l.key)))
      <=> \E l \in Heard(w, o) : PublishedEdge(w, l, e)
  BY <1>1, <1>2, <1>4 DEF PublishedEdge
<1> QED
  BY <1>5, <1>6

ReadCaddies(w, o) == {c \in w.caddies : c.container \notin o.unreadable}

LEMMA HopsOfScan ==
  ASSUME NEW w \in Worlds, NEW o \in Outcomes(w), o.docker = "AVAILABLE", NEW d, d = Discovery(w, o)
  PROVE  /\ \A h \in Hops(d) : \E c \in ReadCaddies(w, o) : \E r \in c.routes :
              \E i \in DOMAIN Backends(r) : h = Hop(d, c, r, i)
         /\ \A c \in ReadCaddies(w, o) : \A r \in c.routes : \A i \in DOMAIN Backends(r) :
              Hop(d, c, r, i) \in Hops(d)
PROOF
<1>1. d.caddy.instances = {Read(c, o.unreadable) : c \in w.caddies}
  BY DiscoveryIs DEF Instances
<1>2. ASSUME NEW c \in w.caddies
      PROVE  /\ c.container \in o.unreadable => Read(c, o.unreadable).routes = {}
             /\ c.container \notin o.unreadable => Read(c, o.unreadable) = c
  BY ReadIs
<1>3. ASSUME NEW h \in Hops(d)
      PROVE  \E c \in ReadCaddies(w, o) : \E r \in c.routes :
               \E i \in DOMAIN Backends(r) : h = Hop(d, c, r, i)
  <2>1. PICK x \in d.caddy.instances : \E r \in x.routes : \E i \in DOMAIN Backends(r) : h = Hop(d, x, r, i)
    BY HopsAre
  <2>2. PICK c \in w.caddies : x = Read(c, o.unreadable)
    BY <1>1
  <2>3. c.container \notin o.unreadable
    BY <1>2, <2>1, <2>2
  <2> QED
    BY <1>2, <2>1, <2>2, <2>3 DEF ReadCaddies
<1>4. ASSUME NEW c \in ReadCaddies(w, o) PROVE c \in d.caddy.instances
  BY <1>1, <1>2 DEF ReadCaddies
<1> QED
  BY <1>3, <1>4, HopsAre

\* The listeners that a host target may mean are those with its port.
Eligible(dial, items) == {l \in items : l.protocol = "tcp" /\ l.port = dial.port /\ ~l.loopback}
LEMMA HostListenersAre ==
  ASSUME NEW dial, NEW systemd, NEW discovery, discovery.state # "UNKNOWN"
  PROVE  resolveHost(dial, systemd, discovery).listeners = Eligible(dial, discovery.items)
BY DEF resolveHost, HostTarget, Eligible

Targeted(h, key) == \E l \in h.host.listeners : l.key = key
MayTarget(w, listeners, c, r, i, key) ==
  /\ Resolved(w, c, r, i).state = "HOST_TARGET"
  /\ \E l \in listeners : l.port = Backends(r)[i].port /\ ~l.loopback /\ l.key = key

LEMMA TargetsOfHop ==
  ASSUME NEW w \in Worlds, NEW o \in Outcomes(w), o.docker = "AVAILABLE", NEW d, d = Discovery(w, o),
         NEW c, NEW r, NEW i, NEW key
  PROVE  Targeted(Hop(d, c, r, i), key) <=> MayTarget(w, Heard(w, o), c, r, i, key)
PROOF
<1> DEFINE Made(l) == Listener(l, UnitsOf(Found(w, o)), o.unread)
           dial == Backends(r)[i]
           eligible == Eligible(dial, d.listeners.items)
<1>1. d.containers = w.containers /\ d.listeners.items = {Made(l) : l \in Heard(w, o)}
  BY DiscoveryIs DEF Listeners
<1>2. \A l : /\ Made(l).key = l.key /\ Made(l).protocol = "tcp"
             /\ Made(l).port = l.port /\ Made(l).loopback = l.loopback
  BY ListenerIs
<1>3. d.listeners.state # "UNKNOWN"
  <2>1. d.listeners.state = o.listeners.state
    BY DiscoveryIs
  <2>2. o.listeners \in Listings({l.key : l \in w.listeners})
    BY OutcomeIs
  <2> QED
    BY <2>1, <2>2, ListingIs
<1>4. (\E l \in eligible : l.key = key) <=>
        \E l \in Heard(w, o) : l.port = dial.port /\ ~l.loopback /\ l.key = key
  BY <1>1, <1>2 DEF Eligible
<1>5. Hop(d, c, r, i).host = IF Resolved(w, c, r, i).state = "HOST_TARGET"
                             THEN resolveHost(dial, d.systemd, d.listeners) ELSE HostTarget(None, {}, {})
  BY <1>1 DEF Hop, Resolved
<1>6. resolveHost(dial, d.systemd, d.listeners).listeners = eligible
  BY <1>3, HostListenersAre
<1>7. HostTarget(None, {}, {}).listeners = {}
  BY DEF HostTarget
<1> QED
  BY <1>4, <1>5, <1>6, <1>7 DEF Targeted, MayTarget

LEMMA CaddyEdgesAre ==
  ASSUME NEW w \in Worlds, NEW o \in Outcomes(w), o.docker = "AVAILABLE",
         NEW d, d = Discovery(w, o), NEW e
  PROVE  e \in CaddyEdges(d, Hops(d)) <=>
           \/ ProxyEdge(w, e)
           \/ \E c \in ReadCaddies(w, o) : \E r \in c.routes : \E i \in DOMAIN Backends(r) :
                RouteEdge(w, c, r, i, e) \/ TargetEdge(w, Heard(w, o), c, r, i, e)
PROOF
<1> DEFINE hops == Hops(d)
           Of(h) ==
             \/ e = edge(h.proxy, "PROXIES_TO", h.id)
             \/ h.resolution.container # None /\ e = edge(h.id, "RESOLVES_TO", containerId(h.resolution.container.id))
             \/ \E l \in h.host.listeners : e = edge(h.id, "TARGETS", listenerId(l.key))
             \/ \E host \in h.hosts : e \in {DomainEdge(host, "ROUTES_THROUGH", h.proxy, h.route),
                                            DomainEdge(host, "ROUTES_TO", h.id, h.route)}
<1>1. e \in CaddyEdges(d, hops) <=>
        \/ \E c \in d.caddy.instances : /\ \E k \in d.containers : k.id = c.container
                                       /\ e = edge(containerId(c.container), "RUNS", proxyId(c.container))
        \/ \E h \in hops : Of(h)
  BY DEF CaddyEdges
<1>2. d.containers = w.containers /\ d.caddy.instances = {Read(c, o.unreadable) : c \in w.caddies}
  BY DiscoveryIs DEF Instances
<1>3. \A c \in w.caddies : Read(c, o.unreadable).container = c.container
  BY ReadIs
<1>4. (\E c \in d.caddy.instances : /\ \E k \in d.containers : k.id = c.container
                                    /\ e = edge(containerId(c.container), "RUNS", proxyId(c.container)))
      <=> ProxyEdge(w, e)
  BY <1>2, <1>3 DEF ProxyEdge
<1>5. ASSUME NEW c, NEW r, NEW i
      PROVE  Of(Hop(d, c, r, i)) <=> RouteEdge(w, c, r, i, e) \/ TargetEdge(w, Heard(w, o), c, r, i, e)
  <2>1. PICK h : h = Hop(d, c, r, i)
    OBVIOUS
  <2>2. /\ h.id = UpstreamId(c, r, i) /\ h.hosts = r.hosts /\ h.proxy = proxyId(c.container)
        /\ h.route = <<c.container, r>> /\ h.resolution = Resolved(w, c, r, i)
    BY <1>2, <2>1, HopIs DEF UpstreamId, Resolved
  <2>3. (\E l \in h.host.listeners : e = edge(h.id, "TARGETS", listenerId(l.key)))
        <=> TargetEdge(w, Heard(w, o), c, r, i, e)
    <3>1. \A key : Targeted(h, key) <=> MayTarget(w, Heard(w, o), c, r, i, key)
      BY <2>1, TargetsOfHop
    <3>2. (\E l \in h.host.listeners : e = edge(h.id, "TARGETS", listenerId(l.key)))
          <=> \E key : Targeted(h, key) /\ e = edge(h.id, "TARGETS", listenerId(key))
      BY DEF Targeted
    <3>3. TargetEdge(w, Heard(w, o), c, r, i, e)
          <=> \E key : MayTarget(w, Heard(w, o), c, r, i, key) /\ e = edge(h.id, "TARGETS", listenerId(key))
      BY <2>2 DEF TargetEdge, MayTarget
    <3> QED
      BY <3>1, <3>2, <3>3
  <2>4. (\/ e = edge(h.proxy, "PROXIES_TO", h.id)
         \/ h.resolution.container # None /\ e = edge(h.id, "RESOLVES_TO", containerId(h.resolution.container.id))
         \/ \E host \in h.hosts : e \in {DomainEdge(host, "ROUTES_THROUGH", h.proxy, h.route),
                                        DomainEdge(host, "ROUTES_TO", h.id, h.route)})
        <=> RouteEdge(w, c, r, i, e)
    BY <2>2 DEF RouteEdge
  <2> QED
    BY <2>1, <2>3, <2>4
<1> HIDE DEF hops, Of
<1>6. (\E h \in hops : Of(h)) <=>
        \E c \in ReadCaddies(w, o) : \E r \in c.routes : \E i \in DOMAIN Backends(r) : Of(Hop(d, c, r, i))
  <2>1. ASSUME NEW h \in hops, Of(h)
        PROVE  \E c \in ReadCaddies(w, o) : \E r \in c.routes : \E i \in DOMAIN Backends(r) : Of(Hop(d, c, r, i))
    <3>1. \E c \in ReadCaddies(w, o) : \E r \in c.routes : \E i \in DOMAIN Backends(r) : h = Hop(d, c, r, i)
      BY HopsOfScan DEF hops
    <3> QED
      BY <2>1, <3>1
  <2>2. \A c \in ReadCaddies(w, o) : \A r \in c.routes : \A i \in DOMAIN Backends(r) : Hop(d, c, r, i) \in hops
    BY HopsOfScan DEF hops
  <2> QED
    BY <2>1, <2>2
<1> QED
  BY <1>1, <1>4, <1>5, <1>6 DEF hops

\* The edges of a scan, and of a scan whose helper failed.
LEMMA EdgesOfScan ==
  ASSUME NEW w \in Worlds, NEW o \in Outcomes(w), NEW e
  PROVE  e \in Contents[w][o].edges <=>
           IF o.docker = "AVAILABLE"
           THEN ScanEdge(w, Found(w, o), Heard(w, o), ReadCaddies(w, o), o.unread, e)
           ELSE e = edge(serverId, "RUNS", engineId)
PROOF
<1>1. PICK d : d = Discovery(w, o)
  OBVIOUS
<1>2. Contents[w][o].edges = create(d).edges
  BY <1>1, ContentIs
<1>3. CASE o.docker = "AVAILABLE"
  <2>1. d.docker = "AVAILABLE"
    BY <1>1, <1>3, DiscoveryIs
  <2>2. create(d).edges = HostEdges(d) \cup DockerEdges(d) \cup CaddyEdges(d, Hops(d))
    BY <2>1 DEF create
  <2> QED
    BY <1>1, <1>2, <1>3, <2>2, HostEdgesAre, DockerEdgesAre, CaddyEdgesAre DEF ScanEdge
<1>4. CASE o.docker # "AVAILABLE"
  <2>1. d.docker # "AVAILABLE" /\ d.systemd.services = {} /\ d.listeners.items = {}
    BY <1>1, <1>4, DiscoveryIs
  <2>2. create(d).edges = HostEdges(d)
    BY <2>1 DEF create
  <2>3. HostEdges(d) = {edge(serverId, "RUNS", engineId)}
    BY <2>1 DEF HostEdges, Owned
  <2> QED
    BY <1>2, <1>4, <2>2, <2>3
<1> QED
  BY <1>3, <1>4

\* A relationship that a scan finds is really there.
LEMMA FoundEdgeIsReal ==
  ASSUME NEW w \in Worlds, NEW o \in Outcomes(w)
  PROVE  Contents[w][o].edges \subseteq Contents[w][Perfect].edges
PROOF
<1>1. ASSUME NEW e
      PROVE  e \in Contents[w][Perfect].edges <=> ScanEdge(w, w.services, w.listeners, w.caddies, {}, e)
  <2>1. ReadCaddies(w, Perfect) = w.caddies
    BY PerfectSeesAll DEF ReadCaddies
  <2> QED
    BY <2>1, PerfectOutcome, PerfectSeesAll, EdgesOfScan
<1>2. /\ Found(w, o) \subseteq w.services /\ Heard(w, o) \subseteq w.listeners
      /\ ReadCaddies(w, o) \subseteq w.caddies
  BY DEF Found, Heard, ReadCaddies
<1>3. ASSUME NEW e, ScanEdge(w, Found(w, o), Heard(w, o), ReadCaddies(w, o), o.unread, e)
      PROVE  ScanEdge(w, w.services, w.listeners, w.caddies, {}, e)
  <2>1. \A l : OwnerEdge(Found(w, o), l, e) => OwnerEdge(w.services, l, e)
    BY <1>2 DEF OwnerEdge, HasOwner, UnitsOf
  <2>2. \A c, r, i : TargetEdge(w, Heard(w, o), c, r, i, e) => TargetEdge(w, w.listeners, c, r, i, e)
    BY <1>2 DEF TargetEdge
  <2> QED
    BY <1>2, <1>3, <2>1, <2>2 DEF ScanEdge
<1>4. ScanEdge(w, w.services, w.listeners, w.caddies, {}, edge(serverId, "RUNS", engineId))
  BY DEF ScanEdge
<1>5. ASSUME NEW e \in Contents[w][o].edges PROVE e \in Contents[w][Perfect].edges
  BY <1>1, <1>3, <1>4, EdgesOfScan
<1> QED
  BY <1>5

\* The parts of discovery that a relationship needs, by the types of its ends.
LEMMA EdgeCompleteIs ==
  ASSUME NEW q, NEW e, Incomplete(edgeSubsystems(e), q) = {}, NEW t \in {type(e.source), type(e.target)}
  PROVE  /\ t \in {"REVERSE_PROXY", "DOMAIN", "UPSTREAM"} =>
              q.DOCKER = "AVAILABLE" /\ q.CADDY \in {"DISCOVERED", "NOT_DETECTED"}
         /\ t = "SYSTEMD_SERVICE" => q.SYSTEMD = "DISCOVERED"
         /\ t = "HOST_LISTENER" => q.HOST_LISTENERS = "DISCOVERED"
         /\ t \in {"DOCKER_COMPOSE_PROJECT", "DOCKER_CONTAINER", "PORT", "MOUNT", "NETWORK"} =>
              q.DOCKER = "AVAILABLE"
PROOF
<1>1. Incomplete(requiredSubsystems(t), q) = {}
  BY DEF Incomplete, edgeSubsystems
<1> QED
  BY <1>1, CompleteIs

LEMMA EndsAre ==
  /\ \A s, r, t : /\ edge(s, r, t).source = s /\ edge(s, r, t).target = t /\ edge(s, r, t).relation = r
  /\ \A h, r, t, x : /\ DomainEdge(h, r, t, x).source = domainId(h) /\ DomainEdge(h, r, t, x).target = t
BY DEF edge, DomainEdge

RacedIn(o, e) ==
  \E l \in o.unread : listenerId(l) \in {e.source, e.target} /\ e.relation \in {"LISTENS_ON", "OWNED_BY"}

\* A relationship is found when what it needs was discovered completely.
LEMMA CompleteFindsEdge ==
  ASSUME NEW w \in Worlds, NEW o \in Outcomes(w), NEW e \in Contents[w][Perfect].edges,
         Incomplete(edgeSubsystems(e), Contents[w][o].quality) = {}, ~RacedIn(o, e)
  PROVE  e \in Contents[w][o].edges
PROOF
<1> DEFINE q == Contents[w][o].quality
           complete(t) ==
             /\ t \in {"REVERSE_PROXY", "DOMAIN", "UPSTREAM"} => o.docker = "AVAILABLE" /\ ReadCaddies(w, o) = w.caddies
             /\ t = "SYSTEMD_SERVICE" => o.docker = "AVAILABLE" /\ Found(w, o) = w.services
             /\ t = "HOST_LISTENER" => o.docker = "AVAILABLE" /\ Heard(w, o) = w.listeners
             /\ t \in {"DOCKER_COMPOSE_PROJECT", "DOCKER_CONTAINER", "PORT", "MOUNT", "NETWORK"} =>
                  o.docker = "AVAILABLE"
           Made(x) == ScanEdge(w, Found(w, o), Heard(w, o), ReadCaddies(w, o), o.unread, x)
<1>1. ScanEdge(w, w.services, w.listeners, w.caddies, {}, e)
  <2>1. ReadCaddies(w, Perfect) = w.caddies
    BY PerfectSeesAll DEF ReadCaddies
  <2> QED
    BY <2>1, PerfectOutcome, PerfectSeesAll, EdgesOfScan
<1>2. \A t \in {type(e.source), type(e.target)} : complete(t)
  <2>1. /\ q.DOCKER = "AVAILABLE" => o.docker = "AVAILABLE"
        /\ q.SYSTEMD = "DISCOVERED" => o.docker = "AVAILABLE" /\ o.systemd.hidden = {}
        /\ q.HOST_LISTENERS = "DISCOVERED" => o.docker = "AVAILABLE" /\ o.listeners.hidden = {}
        /\ q.DOCKER = "AVAILABLE" /\ q.CADDY \in {"DISCOVERED", "NOT_DETECTED"} => o.unreadable = {}
    BY QualityOfScan
  <2>2. /\ o.systemd.hidden = {} => Found(w, o) = w.services
        /\ o.listeners.hidden = {} => Heard(w, o) = w.listeners
        /\ o.unreadable = {} => ReadCaddies(w, o) = w.caddies
    BY DEF Found, Heard, ReadCaddies
  <2> QED
    BY <2>1, <2>2, EdgeCompleteIs
<1> HIDE DEF complete
<1>3. (o.docker = "AVAILABLE" /\ Made(e)) \/ e = edge(serverId, "RUNS", engineId) => e \in Contents[w][o].edges
  BY EdgesOfScan DEF ScanEdge
<1>4. CASE e = edge(serverId, "RUNS", engineId)
  BY <1>3, <1>4
<1>5. CASE \E s \in w.services : e = edge(serverId, "RUNS", serviceId(s.unit))
  <2>1. complete("SYSTEMD_SERVICE")
    BY <1>2, <1>5, EndsAre, TypesAre
  <2>2. o.docker = "AVAILABLE" /\ Made(e)
    BY <1>5, <2>1 DEF complete, ScanEdge
  <2> QED
    BY <1>3, <2>2
<1>6. CASE \E l \in w.listeners : e = edge(serverId, "CONTAINS", listenerId(l.key))
  <2>1. complete("HOST_LISTENER")
    BY <1>2, <1>6, EndsAre, TypesAre
  <2>2. o.docker = "AVAILABLE" /\ Made(e)
    BY <1>6, <2>1 DEF complete, ScanEdge
  <2> QED
    BY <1>3, <2>2
<1>7. CASE \E l \in w.listeners : OwnerEdge(w.services, l, e)
  <2>1. PICK l \in w.listeners : OwnerEdge(w.services, l, e)
    BY <1>7
  <2>2. {e.source, e.target} = {serviceId(Only(l.owners)), listenerId(l.key)}
        /\ e.relation \in {"LISTENS_ON", "OWNED_BY"}
    BY <2>1, EndsAre DEF OwnerEdge
  <2>3. complete("HOST_LISTENER") /\ complete("SYSTEMD_SERVICE")
    BY <1>2, <2>2, TypesAre
  <2>4. l.key \notin o.unread
    BY <2>2 DEF RacedIn
  <2>5. o.docker = "AVAILABLE" /\ Made(e)
    BY <2>1, <2>3, <2>4 DEF complete, ScanEdge
  <2> QED
    BY <1>3, <2>5
<1>8. CASE ContainerEdge(w, e)
  <2>1. \/ complete("DOCKER_COMPOSE_PROJECT") \/ complete("DOCKER_CONTAINER") \/ complete("PORT")
        \/ complete("MOUNT") \/ complete("NETWORK")
    BY <1>2, <1>8, EndsAre, TypesAre DEF ContainerEdge
  <2>2. o.docker = "AVAILABLE" /\ Made(e)
    BY <1>8, <2>1 DEF complete, ScanEdge
  <2> QED
    BY <1>3, <2>2
<1>9. CASE \E l \in w.listeners : PublishedEdge(w, l, e)
  <2>1. complete("HOST_LISTENER")
    BY <1>2, <1>9, EndsAre, TypesAre DEF PublishedEdge
  <2>2. o.docker = "AVAILABLE" /\ Made(e)
    BY <1>9, <2>1 DEF complete, ScanEdge
  <2> QED
    BY <1>3, <2>2
<1>10. CASE ProxyEdge(w, e)
  <2>1. complete("REVERSE_PROXY")
    BY <1>2, <1>10, EndsAre, TypesAre DEF ProxyEdge
  <2>2. o.docker = "AVAILABLE" /\ Made(e)
    BY <1>10, <2>1 DEF complete, ScanEdge
  <2> QED
    BY <1>3, <2>2
<1>11. CASE \E c \in w.caddies : \E r \in c.routes : \E i \in DOMAIN Backends(r) :
              RouteEdge(w, c, r, i, e) \/ TargetEdge(w, w.listeners, c, r, i, e)
  <2>1. PICK c \in w.caddies : \E r \in c.routes : \E i \in DOMAIN Backends(r) :
              RouteEdge(w, c, r, i, e) \/ TargetEdge(w, w.listeners, c, r, i, e)
    BY <1>11
  <2>2. PICK r \in c.routes : \E i \in DOMAIN Backends(r) :
              RouteEdge(w, c, r, i, e) \/ TargetEdge(w, w.listeners, c, r, i, e)
    BY <2>1
  <2>3. PICK i \in DOMAIN Backends(r) :
              RouteEdge(w, c, r, i, e) \/ TargetEdge(w, w.listeners, c, r, i, e)
    BY <2>2
  <2>4. complete("REVERSE_PROXY") \/ complete("DOMAIN") \/ complete("UPSTREAM")
    BY <1>2, <2>3, EndsAre, TypesAre DEF RouteEdge, TargetEdge, UpstreamId
  <2>5. o.docker = "AVAILABLE" /\ ReadCaddies(w, o) = w.caddies
    BY <2>4 DEF complete
  <2>6. TargetEdge(w, w.listeners, c, r, i, e) => Heard(w, o) = w.listeners
    <3>1. TargetEdge(w, w.listeners, c, r, i, e) => complete("HOST_LISTENER")
      BY <1>2, EndsAre, TypesAre DEF TargetEdge
    <3> QED
      BY <3>1 DEF complete
  <2>7. Made(e)
    BY <2>3, <2>5, <2>6 DEF ScanEdge
  <2> QED
    BY <1>3, <2>5, <2>7
<1> QED
  BY <1>1, <1>4, <1>5, <1>6, <1>7, <1>8, <1>9, <1>10, <1>11 DEF ScanEdge

\* A relationship reported as added or removed with evidence CONFIRMED really
\* came or went: the evidence covers the discovery of both its ends and of what
\* else decides that it exists, except the owner of a listener whose processes
\* ended during a scan.
THEOREM ConfirmedRelationships == Spec => []ConfirmedRelationshipsAreReal
PROOF
<1>1. EvidenceIInv => ConfirmedRelationshipsAreReal
  <2> SUFFICES ASSUME EvidenceIInv, Compared, NEW c \in shown.diff.relationshipChanges,
                      c.evidence = "CONFIRMED", ~Raced(c.edge)
               PROVE  /\ (c.edge \in Real(current).edges) = (c.kind = "RELATIONSHIP_ADDED")
                      /\ (c.edge \in Real(previous).edges) = (c.kind = "RELATIONSHIP_REMOVED")
    BY DEF ConfirmedRelationshipsAreReal
  <2>1. c \in Differences(Seen(previous), Seen(current)).relationshipChanges
    <3>1. \/ shown.diff = terminal("NO_CHANGES", TRUE)
          \/ shown.diff = Differences(Seen(previous), Seen(current))
      BY ComparedScans
    <3>2. terminal("NO_CHANGES", TRUE).relationshipChanges = {}
      BY TerminalIsEmpty
    <3> QED
      BY <3>1, <3>2
  <2>2. /\ previous.world \in Worlds /\ previous.outcome \in Outcomes(previous.world)
        /\ current.world \in Worlds /\ current.outcome \in Outcomes(current.world)
    BY ComparedScans
  <2>3. Seen(previous).edges \subseteq Real(previous).edges /\ Seen(current).edges \subseteq Real(current).edges
    BY <2>2, FoundEdgeIsReal DEF Seen, Real
  <2>4. ~RacedIn(previous.outcome, c.edge) /\ ~RacedIn(current.outcome, c.edge)
    BY DEF Raced, RacedIn
  <2>5. CASE c.kind = "RELATIONSHIP_ADDED"
    <3>1. /\ c.edge \in Seen(current).edges \ Seen(previous).edges
          /\ Incomplete(edgeSubsystems(c.edge), Seen(previous).quality) = {}
      BY <2>1, <2>5, EdgeRecords, ConfirmedIsComplete
    <3>2. c.edge \notin Real(previous).edges
      BY <2>2, <2>4, <3>1, CompleteFindsEdge DEF Seen, Real
    <3> QED
      BY <2>3, <2>5, <3>1, <3>2
  <2>6. CASE c.kind = "RELATIONSHIP_REMOVED"
    <3>1. /\ c.edge \in Seen(previous).edges \ Seen(current).edges
          /\ Incomplete(edgeSubsystems(c.edge), Seen(current).quality) = {}
      BY <2>1, <2>6, EdgeRecords, ConfirmedIsComplete
    <3>2. c.edge \notin Real(current).edges
      BY <2>2, <2>4, <3>1, CompleteFindsEdge DEF Seen, Real
    <3> QED
      BY <2>3, <2>6, <3>1, <3>2
  <2> QED
    BY <2>1, <2>5, <2>6, EdgeRecords
<1> QED
  BY <1>1, EvidenceCorrect, PTL

(***************************************************************************)
(* The graph of a scan: its edges join its nodes, its IDs are unique, and  *)
(* it is finite.                                                           *)
(***************************************************************************)
LEMMA IdsHave ==
  ASSUME NEW w \in Worlds, NEW o \in Outcomes(w), o.docker = "AVAILABLE",
         NEW ids, ids = Ids(Contents[w][o])
  PROVE  /\ serverId \in ids /\ engineId \in ids
         /\ \A s \in Found(w, o) : serviceId(s.unit) \in ids
         /\ \A l \in Heard(w, o) : listenerId(l.key) \in ids
         /\ \A p \in Projects(w) : projectId(p) \in ids
         /\ \A c \in w.containers : /\ containerId(c.id) \in ids
                                    /\ \A n \in c.networks : networkId(n) \in ids
         /\ \A p \in Ports(w) : containerId(p[1]) \in ids /\ portId(p[1], p[2]) \in ids
         /\ \A m \in Mounts(w) : containerId(m[1]) \in ids /\ mountId(m[1], m[2]) \in ids
         /\ \A c \in w.caddies : proxyId(c.container) \in ids
         /\ \A c \in ReadCaddies(w, o) : \A r \in c.routes : \A i \in DOMAIN Backends(r) :
              UpstreamId(c, r, i) \in ids /\ \A host \in r.hosts : domainId(host) \in ids
PROOF
<1>1. ids = HostIds(Found(w, o), Heard(w, o)) \cup DockerIds(w.containers) \cup CaddyIds(Instances(w, o))
  BY IdsAre
<1>2. /\ serverId \in ids /\ engineId \in ids
      /\ \A s \in Found(w, o) : serviceId(s.unit) \in ids
      /\ \A l \in Heard(w, o) : listenerId(l.key) \in ids
  BY <1>1 DEF HostIds
<1>3. \A p \in Projects(w) : projectId(p) \in ids
  BY <1>1 DEF DockerIds, Projects
<1>4. \A c \in w.containers : /\ containerId(c.id) \in ids
                              /\ \A n \in c.networks : networkId(n) \in ids
                              /\ \A p \in c.ports : portId(c.id, p) \in ids
                              /\ \A m \in c.mounts : mountId(c.id, m) \in ids
  BY <1>1 DEF DockerIds
<1>5. ASSUME NEW p \in Ports(w) PROVE containerId(p[1]) \in ids /\ portId(p[1], p[2]) \in ids
  <2>1. PICK c \in w.containers : \E x \in c.ports : p = <<c.id, x>>
    BY DEF Ports
  <2> QED
    BY <1>4, <2>1
<1>6. ASSUME NEW m \in Mounts(w) PROVE containerId(m[1]) \in ids /\ mountId(m[1], m[2]) \in ids
  <2>1. PICK c \in w.containers : \E x \in c.mounts : m = <<c.id, x>>
    BY DEF Mounts
  <2> QED
    BY <1>4, <2>1
<1>7. ASSUME NEW c \in w.caddies PROVE proxyId(c.container) \in ids
  <2>1. Read(c, o.unreadable) \in Instances(w, o) /\ Read(c, o.unreadable).container = c.container
    BY ReadIs DEF Instances
  <2> QED
    BY <1>1, <2>1 DEF CaddyIds
<1>8. ASSUME NEW c \in ReadCaddies(w, o), NEW r \in c.routes, NEW i \in DOMAIN Backends(r)
      PROVE  UpstreamId(c, r, i) \in ids /\ \A host \in r.hosts : domainId(host) \in ids
  <2>1. c \in Instances(w, o)
    BY ReadIs DEF Instances, ReadCaddies
  <2>2. UpstreamId(c, r, i) \in UpstreamsOf(c.container, r)
    BY DEF UpstreamsOf, UpstreamId
  <2>3. UpstreamId(c, r, i) \in UNION {UNION {UpstreamsOf(x.container, y) : y \in x.routes} : x \in Instances(w, o)}
    BY <2>1, <2>2
  <2>4. ASSUME NEW host \in r.hosts
        PROVE  host \in UNION {UNION {UNION {y.hosts : j \in DOMAIN Backends(y)} : y \in x.routes} : x \in Instances(w, o)}
    <3>1. host \in UNION {r.hosts : j \in DOMAIN Backends(r)}
      OBVIOUS
    <3>2. host \in UNION {UNION {y.hosts : j \in DOMAIN Backends(y)} : y \in c.routes}
      BY <3>1
    <3> QED
      BY <2>1, <3>2
  <2> QED
    BY <1>1, <2>3, <2>4 DEF CaddyIds
<1> QED
  BY <1>2, <1>3, <1>4, <1>5, <1>6, <1>7, <1>8

\* A name that is resolved stands for a discovered container.
LEMMA ResolvedIsContainer ==
  ASSUME NEW w, NEW c, NEW r, NEW i, Resolved(w, c, r, i).container # None
  PROVE  Resolved(w, c, r, i).container \in w.containers
PROOF
<1>1. \A S : Only(S) # None => Only(S) \in S
  <2> SUFFICES ASSUME NEW S, Only(S) # None PROVE Only(S) \in S
    OBVIOUS
  <2>1. Cardinality(S) = 1
    BY DEF Only
  <2>2. S # {}
    BY <2>1, FS_EmptySet
  <2> QED
    BY <2>1, <2>2 DEF Only
<1>2. \A candidates, caddy, dial : select(candidates, caddy, dial).container = Only(Matching(candidates, caddy, dial))
  BY DEF select
<1>3. \A candidates, caddy, dial : Matching(candidates, caddy, dial) \subseteq candidates
  BY DEF Matching
<1>4. \A candidates, caddy, dial : select(candidates, caddy, dial).container # None =>
                                     select(candidates, caddy, dial).container \in candidates
  BY <1>1, <1>2, <1>3
<1>5. \A state : Unmatched(state).container = None
  BY DEF Unmatched
<1> DEFINE dial == Backends(r)[i]
           named == {x \in w.containers : x.name = dial.host}
           serving == {x \in w.containers : x.service = dial.host}
           caddy == Only({x \in w.containers : x.id = c.container})
<1>6. \/ \E state : Resolved(w, c, r, i) = Unmatched(state)
      \/ Resolved(w, c, r, i) = select(IF named # {} THEN named ELSE serving, caddy, dial)
  BY DEF Resolved, resolve
<1>7. (IF named # {} THEN named ELSE serving) \subseteq w.containers
  OBVIOUS
<1> HIDE DEF dial, named, serving, caddy
<1> QED
  BY <1>4, <1>5, <1>6, <1>7

LEMMA EndsAreNodes ==
  ASSUME NEW w \in Worlds, NEW o \in Outcomes(w), NEW e \in Contents[w][o].edges
  PROVE  e.source \in Ids(Contents[w][o]) /\ e.target \in Ids(Contents[w][o])
PROOF
<1>0. PICK ids : ids = Ids(Contents[w][o])
  OBVIOUS
<1>1. CASE o.docker # "AVAILABLE"
  <2>1. e = edge(serverId, "RUNS", engineId)
    BY <1>1, EdgesOfScan
  <2>2. ids = HostIds({}, {})
    BY <1>0, <1>1, IdsAre
  <2> QED
    BY <1>0, <2>1, <2>2, EndsAre DEF HostIds
<1>2. CASE o.docker = "AVAILABLE"
  <2>1. ScanEdge(w, Found(w, o), Heard(w, o), ReadCaddies(w, o), o.unread, e)
    BY <1>2, EdgesOfScan
  <2>2. /\ serverId \in ids /\ engineId \in ids
        /\ \A s \in Found(w, o) : serviceId(s.unit) \in ids
        /\ \A l \in Heard(w, o) : listenerId(l.key) \in ids
        /\ \A p \in Projects(w) : projectId(p) \in ids
        /\ \A c \in w.containers : containerId(c.id) \in ids /\ \A n \in c.networks : networkId(n) \in ids
        /\ \A p \in Ports(w) : containerId(p[1]) \in ids /\ portId(p[1], p[2]) \in ids
        /\ \A m \in Mounts(w) : containerId(m[1]) \in ids /\ mountId(m[1], m[2]) \in ids
        /\ \A c \in w.caddies : proxyId(c.container) \in ids
    BY <1>0, <1>2, IdsHave
  <2>3. \A c \in ReadCaddies(w, o) : \A r \in c.routes : \A i \in DOMAIN Backends(r) :
          /\ proxyId(c.container) \in ids /\ UpstreamId(c, r, i) \in ids
          /\ \A host \in r.hosts : domainId(host) \in ids
    BY <1>0, <1>2, <2>2, IdsHave DEF ReadCaddies
  <2>4. CASE \E l \in Heard(w, o) : OwnerEdge(Found(w, o), l, e)
    BY <1>0, <2>2, <2>4, EndsAre DEF OwnerEdge
  <2>5. CASE ContainerEdge(w, e)
    <3>1. \A c \in w.containers : c.project # None => c.project \in Projects(w)
      BY DEF Projects
    <3> QED
      BY <1>0, <2>2, <2>5, <3>1, EndsAre DEF ContainerEdge
  <2>6. CASE \E l \in Heard(w, o) : PublishedEdge(w, l, e)
    BY <1>0, <2>2, <2>6, EndsAre DEF PublishedEdge, PublishedAs
  <2>7. CASE ProxyEdge(w, e)
    BY <1>0, <2>2, <2>7, EndsAre DEF ProxyEdge
  <2>8. CASE \E c \in ReadCaddies(w, o) : \E r \in c.routes : \E i \in DOMAIN Backends(r) :
               RouteEdge(w, c, r, i, e) \/ TargetEdge(w, Heard(w, o), c, r, i, e)
    <3>1. PICK c \in ReadCaddies(w, o) : \E r \in c.routes : \E i \in DOMAIN Backends(r) :
                 RouteEdge(w, c, r, i, e) \/ TargetEdge(w, Heard(w, o), c, r, i, e)
      BY <2>8
    <3>2. PICK r \in c.routes : \E i \in DOMAIN Backends(r) :
                 RouteEdge(w, c, r, i, e) \/ TargetEdge(w, Heard(w, o), c, r, i, e)
      BY <3>1
    <3>3. PICK i \in DOMAIN Backends(r) : RouteEdge(w, c, r, i, e) \/ TargetEdge(w, Heard(w, o), c, r, i, e)
      BY <3>2
    <3>4. /\ proxyId(c.container) \in ids /\ UpstreamId(c, r, i) \in ids
          /\ \A host \in r.hosts : domainId(host) \in ids
      BY <2>3
    <3>5. CASE TargetEdge(w, Heard(w, o), c, r, i, e)
      BY <1>0, <2>2, <3>4, <3>5, EndsAre DEF TargetEdge
    <3>6. CASE RouteEdge(w, c, r, i, e)
      <4>1. Resolved(w, c, r, i).container # None =>
              containerId(Resolved(w, c, r, i).container.id) \in ids
        BY <2>2, ResolvedIsContainer
      <4> QED
        BY <1>0, <3>4, <3>6, <4>1, EndsAre DEF RouteEdge
    <3> QED
      BY <3>3, <3>5, <3>6
  <2> QED
    BY <1>0, <2>1, <2>2, <2>4, <2>5, <2>6, <2>7, <2>8, EndsAre DEF ScanEdge
<1> QED
  BY <1>1, <1>2

LEMMA NodesOfScan ==
  ASSUME NEW w \in Worlds, NEW o \in Outcomes(w),
         NEW m \in Contents[w][o].nodes, NEW n \in Contents[w][o].nodes, m.id = n.id
  PROVE  m = n
PROOF
<1>1. PICK d : d = Discovery(w, o)
  OBVIOUS
<1>2. m \in create(d).nodes /\ n \in create(d).nodes
  BY <1>1, ContentIs
<1>3. CASE o.docker = "AVAILABLE"
  <2>1. /\ d.containers = w.containers /\ d.systemd.services = Found(w, o)
        /\ d.listeners.items = Listeners(w, o) /\ d.caddy.instances = Instances(w, o)
    BY <1>1, <1>3, DiscoveryIs
  <2>2. /\ \A x, y \in w.containers : x.id = y.id => x = y
        /\ \A x, y \in w.services : x.unit = y.unit => x = y
        /\ \A x, y \in w.listeners : x.key = y.key => x = y
        /\ \A x, y \in w.caddies : x.container = y.container => x = y
    BY WorldsAssumption
  <2>3. \A x, y \in Found(w, o) : x.unit = y.unit => x = y
    BY <2>2 DEF Found
  <2>4. ASSUME NEW x \in Listeners(w, o), NEW y \in Listeners(w, o), x.key = y.key PROVE x = y
    <3>1. PICK k \in Heard(w, o) : x = Listener(k, UnitsOf(Found(w, o)), o.unread)
      BY DEF Listeners
    <3>2. PICK l \in Heard(w, o) : y = Listener(l, UnitsOf(Found(w, o)), o.unread)
      BY DEF Listeners
    <3>3. x.key = k.key /\ y.key = l.key
      BY <3>1, <3>2, ListenerIs
    <3> QED
      BY <2>2, <2>4, <3>1, <3>2, <3>3 DEF Heard
  <2>5. ASSUME NEW x \in Instances(w, o), NEW y \in Instances(w, o), x.container = y.container PROVE x = y
    <3>1. PICK b \in w.caddies : x = Read(b, o.unreadable)
      BY DEF Instances
    <3>2. PICK c \in w.caddies : y = Read(c, o.unreadable)
      BY DEF Instances
    <3>3. x.container = b.container /\ y.container = c.container
      BY <3>1, <3>2, ReadIs
    <3> QED
      BY <2>2, <2>5, <3>1, <3>2, <3>3
  <2>6. /\ \A x, y \in d.systemd.services : x.unit = y.unit => x = y
        /\ \A x, y \in d.listeners.items : x.key = y.key => x = y
        /\ \A x, y \in d.containers : x.id = y.id => x = y
        /\ \A x, y \in d.caddy.instances : x.container = y.container => x = y
    BY <2>1, <2>2, <2>3, <2>4, <2>5
  <2> QED
    BY <1>2, <2>6, NodesAreUnique
<1>4. CASE o.docker # "AVAILABLE"
  <2>1. d.docker # "AVAILABLE" /\ d.systemd.services = {} /\ d.listeners.items = {}
    BY <1>1, <1>4, DiscoveryIs
  <2>2. create(d).nodes = HostNodes(d)
    BY <2>1 DEF create
  <2>3. \E server, engine : /\ HostNodes(d) = {server, engine}
                            /\ server.id = serverId /\ engine.id = engineId
    <3> DEFINE server == node(serverId, "server", [systemd_discovery_status |-> d.systemd.state,
                                                   listener_discovery_status |-> d.listeners.state])
               engine == node(engineId, "Docker unavailable",
                              [docker_discovery_state |-> d.docker, caddy_discovery_state |-> d.caddy.state])
    <3>1. HostNodes(d) = {server, engine}
      BY <2>1 DEF HostNodes
    <3>2. server.id = serverId /\ engine.id = engineId
      BY DEF node
    <3> HIDE DEF server, engine
    <3> QED
      BY <3>1, <3>2
  <2>4. serverId # engineId
    BY TypesAre
  <2> QED
    BY <1>2, <2>2, <2>3, <2>4
<1> QED
  BY <1>3, <1>4

\* An upstream that is dialled by a name is one of the route's own.
LEMMA BackendsAre ==
  ASSUME NEW r, NEW S, r.upstreams \in Seq(S)
  PROVE  /\ IsFiniteSet(DOMAIN Backends(r))
         /\ \A i \in DOMAIN Backends(r) :
              Backends(r)[i].kind \notin {"NONE", "DYNAMIC"} =>
                i \in DOMAIN r.upstreams /\ Backends(r)[i] = r.upstreams[i]
PROOF
<1>1. NoDial("DYNAMIC").kind = "DYNAMIC" /\ NoDial("NONE").kind = "NONE"
  BY DEF NoDial
<1> DEFINE up == r.upstreams
           none == NoDial("NONE")
           dynamic == NoDial("DYNAMIC")
           b == Backends(r)
<1>2. b \in {up, up \o <<dynamic>>, <<none>>}
  <2>1. up \o <<>> = up
    OBVIOUS
  <2> QED
    BY <2>1 DEF Backends
<1>3. none.kind = "NONE" /\ dynamic.kind = "DYNAMIC"
  BY <1>1
<1> HIDE DEF b, none, dynamic, up
<1>4. up \in Seq(S)
  BY DEF up
<1>5. CASE b = up
  <2>1. DOMAIN b = 1..Len(up) /\ Len(up) \in Nat
    BY <1>4, <1>5
  <2>2. IsFiniteSet(1..Len(up))
    BY <2>1, FS_Interval
  <2> QED
    BY <1>5, <2>1, <2>2 DEF b, up
<1>6. CASE b = <<none>>
  <2>1. DOMAIN b = 1..1 /\ b[1] = none
    BY <1>6
  <2>2. IsFiniteSet(1..1)
    <3>1. 1..1 = {1}
      OBVIOUS
    <3> QED
      BY <3>1, FS_Singleton
  <2>3. \A i \in DOMAIN b : b[i].kind = "NONE"
    BY <1>3, <2>1
  <2> QED
    BY <2>1, <2>2, <2>3 DEF b
<1>7. CASE b = up \o <<dynamic>>
  <2>1. up \in Seq(S \cup {dynamic}) /\ <<dynamic>> \in Seq(S \cup {dynamic})
    BY <1>4
  <2>2. /\ Len(up) \in Nat /\ DOMAIN up = 1..Len(up) /\ DOMAIN b = 1..(Len(up) + 1)
        /\ \A i \in DOMAIN b : b[i] = IF i \in DOMAIN up THEN up[i] ELSE dynamic
    BY <1>7, <2>1
  <2>3. IsFiniteSet(1..(Len(up) + 1))
    BY <2>2, FS_Interval
  <2>4. \A i \in DOMAIN b : b[i].kind \notin {"NONE", "DYNAMIC"} => i \in DOMAIN up /\ b[i] = up[i]
    BY <1>3, <2>2
  <2> QED
    BY <2>2, <2>3, <2>4 DEF b, up
<1> QED
  BY <1>2, <1>5, <1>6, <1>7

LEMMA RoutesAre ==
  ASSUME NEW w \in Worlds, NEW c \in w.caddies, NEW r \in c.routes
  PROVE  /\ IsFiniteSet(DOMAIN Backends(r))
         /\ \A i \in DOMAIN Backends(r) :
              Backends(r)[i].kind \notin {"NONE", "DYNAMIC"} =>
                i \in DOMAIN r.upstreams /\ Backends(r)[i] = r.upstreams[i]
BY WorldsAssumption, BackendsAre

LEMMA CaddyIdsFinite ==
  ASSUME NEW instances, IsFiniteSet(instances),
         \A c \in instances : /\ IsFiniteSet(c.routes)
                              /\ \A r \in c.routes : IsFiniteSet(r.hosts) /\ IsFiniteSet(DOMAIN Backends(r))
  PROVE  IsFiniteSet(CaddyIds(instances))
PROOF
<1> DEFINE OfRoute(c, r) == {domainId(host) : host \in r.hosts} \cup UpstreamsOf(c.container, r)
           Of(c) == {proxyId(c.container)} \cup UNION {OfRoute(c, r) : r \in c.routes}
           h == [c \in instances |-> Of(c)]
<1>1. ASSUME NEW c \in instances PROVE IsFiniteSet(Of(c))
  <2>1. ASSUME NEW r \in c.routes PROVE IsFiniteSet(OfRoute(c, r))
    <3> DEFINE hosts == {domainId(host) : host \in r.hosts}
               f == [host \in r.hosts |-> {domainId(host)}]
               g == [i \in DOMAIN Backends(r) |-> {<<"UPSTREAM", c.container, r, i>>}]
    <3>1. IsFiniteSet(hosts)
      <4>1. f = [host \in r.hosts |-> f[host]] /\ \A t \in hosts : \E host \in r.hosts : t \in f[host]
        OBVIOUS
      <4>2. \A host \in r.hosts : IsFiniteSet(f[host])
        BY FS_Singleton
      <4> HIDE DEF f, hosts
      <4> QED
        BY <4>1, <4>2, FiniteCover
    <3>2. IsFiniteSet(UpstreamsOf(c.container, r))
      <4>1. /\ g = [i \in DOMAIN Backends(r) |-> g[i]]
            /\ \A t \in UpstreamsOf(c.container, r) : \E i \in DOMAIN Backends(r) : t \in g[i]
        BY DEF UpstreamsOf
      <4>2. \A i \in DOMAIN Backends(r) : IsFiniteSet(g[i])
        BY FS_Singleton
      <4> HIDE DEF g
      <4> QED
        BY <4>1, <4>2, FiniteCover
    <3> HIDE DEF hosts
    <3>3. IsFiniteSet(hosts \cup UpstreamsOf(c.container, r))
      BY <3>1, <3>2, FS_Union
    <3> QED
      BY <3>3 DEF hosts
  <2> DEFINE routes == UNION {OfRoute(c, r) : r \in c.routes}
             k == [r \in c.routes |-> OfRoute(c, r)]
  <2> HIDE DEF OfRoute
  <2>2. IsFiniteSet(routes)
    <3>1. /\ k = [r \in c.routes |-> k[r]] /\ \A r \in c.routes : k[r] = OfRoute(c, r)
          /\ \A t \in routes : \E r \in c.routes : t \in k[r]
      OBVIOUS
    <3>2. \A r \in c.routes : IsFiniteSet(k[r])
      BY <2>1, <3>1
    <3> HIDE DEF k, routes
    <3> QED
      BY <3>1, <3>2, FiniteCover
  <2> HIDE DEF routes
  <2>3. IsFiniteSet({proxyId(c.container)} \cup routes)
    BY <2>2, FS_Singleton, FS_Union
  <2> QED
    BY <2>3 DEF routes
<1>2. ASSUME NEW id \in CaddyIds(instances) PROVE \E c \in instances : id \in Of(c)
  <2>1. CASE \E c \in instances : id = proxyId(c.container)
    BY <2>1
  <2>2. CASE \E c \in instances : \E r \in c.routes : id \in UpstreamsOf(c.container, r)
    BY <2>2
  <2>3. CASE \E c \in instances : \E r \in c.routes : \E host \in r.hosts : id = domainId(host)
    <3>1. PICK c \in instances : \E r \in c.routes : \E host \in r.hosts : id = domainId(host)
      BY <2>3
    <3>2. PICK r \in c.routes : \E host \in r.hosts : id = domainId(host)
      BY <3>1
    <3>3. id \in OfRoute(c, r)
      BY <3>2
    <3> HIDE DEF OfRoute
    <3> QED
      BY <3>3
  <2> QED
    BY <2>1, <2>2, <2>3 DEF CaddyIds
<1> HIDE DEF Of
<1>3. h = [c \in instances |-> h[c]] /\ \A c \in instances : h[c] = Of(c)
  OBVIOUS
<1>4. /\ \A c \in instances : IsFiniteSet(h[c])
      /\ \A id \in CaddyIds(instances) : \E c \in instances : id \in h[c]
  BY <1>1, <1>2, <1>3
<1> HIDE DEF h
<1> QED
  BY <1>3, <1>4, FiniteCover

LEMMA ScanNodesFinite ==
  ASSUME NEW w \in Worlds, NEW o \in Outcomes(w)
  PROVE  IsFiniteSet(Ids(Contents[w][o])) /\ IsFiniteSet(Contents[w][o].nodes)
PROOF
<1>1. /\ IsFiniteSet(w.containers) /\ IsFiniteSet(w.caddies)
      /\ IsFiniteSet(w.services) /\ IsFiniteSet(w.listeners)
      /\ \A c \in w.containers : IsFiniteSet(c.ports) /\ IsFiniteSet(c.networks) /\ IsFiniteSet(c.mounts)
      /\ \A c \in w.caddies : /\ IsFiniteSet(c.routes)
                             /\ \A r \in c.routes : IsFiniteSet(r.hosts) /\ IsFiniteSet(DOMAIN Backends(r))
  BY WorldsAssumption, RoutesAre
<1>2. IsFiniteSet(Found(w, o)) /\ IsFiniteSet(Heard(w, o))
  <2>1. Found(w, o) \in SUBSET w.services /\ Heard(w, o) \in SUBSET w.listeners
    BY DEF Found, Heard
  <2> QED
    BY <1>1, <2>1, FS_Subset
<1>3. /\ IsFiniteSet(Instances(w, o))
      /\ \A c \in Instances(w, o) : /\ IsFiniteSet(c.routes)
                                    /\ \A r \in c.routes : IsFiniteSet(r.hosts) /\ IsFiniteSet(DOMAIN Backends(r))
  <2> DEFINE f == [c \in w.caddies |-> {Read(c, o.unreadable)}]
  <2>1. f = [c \in w.caddies |-> f[c]] /\ \A x \in Instances(w, o) : \E c \in w.caddies : x \in f[c]
    BY DEF Instances
  <2>2. \A c \in w.caddies : IsFiniteSet(f[c])
    BY FS_Singleton
  <2> HIDE DEF f
  <2>3. IsFiniteSet(Instances(w, o))
    BY <1>1, <2>1, <2>2, FiniteCover
  <2>4. ASSUME NEW x \in Instances(w, o)
        PROVE  /\ IsFiniteSet(x.routes)
               /\ \A r \in x.routes : IsFiniteSet(r.hosts) /\ IsFiniteSet(DOMAIN Backends(r))
    <3>1. PICK c \in w.caddies : x = Read(c, o.unreadable)
      BY DEF Instances
    <3>2. x.routes = {} \/ x.routes = c.routes
      BY <3>1, ReadIs
    <3> QED
      BY <1>1, <3>2, FS_EmptySet
  <2> QED
    BY <2>3, <2>4
<1>4. IsFiniteSet(HostIds(Found(w, o), Heard(w, o))) /\ IsFiniteSet(HostIds({}, {}))
  BY <1>2, HostIdsFinite, FS_EmptySet
<1>5. IsFiniteSet(DockerIds(w.containers))
  BY <1>1, DockerIdsFinite
<1>6. IsFiniteSet(CaddyIds(Instances(w, o)))
  BY <1>3, CaddyIdsFinite
<1>7. IsFiniteSet(Ids(Contents[w][o]))
  <2>1. IsFiniteSet(HostIds(Found(w, o), Heard(w, o)) \cup DockerIds(w.containers))
    BY <1>4, <1>5, FS_Union
  <2>2. IsFiniteSet((HostIds(Found(w, o), Heard(w, o)) \cup DockerIds(w.containers)) \cup CaddyIds(Instances(w, o)))
    BY <1>6, <2>1, FS_Union
  <2>3. CASE o.docker = "AVAILABLE"
    BY <2>2, <2>3, IdsAre, Zenon
  <2>4. CASE o.docker # "AVAILABLE"
    BY <1>4, <2>4, IdsAre, Zenon
  <2> QED
    BY <2>3, <2>4
<1> DEFINE nodes == Contents[w][o].nodes
           g == [id \in Ids(Contents[w][o]) |-> {n \in nodes : n.id = id}]
<1>8. /\ g = [id \in Ids(Contents[w][o]) |-> g[id]]
      /\ \A n \in nodes : \E id \in Ids(Contents[w][o]) : n \in g[id]
  BY DEF Ids
<1>9. ASSUME NEW id \in Ids(Contents[w][o]) PROVE IsFiniteSet(g[id])
  <2>1. PICK n \in nodes : n.id = id
    BY DEF Ids
  <2>2. g[id] = {n}
    BY <2>1, NodesOfScan
  <2> QED
    BY <2>2, FS_Singleton
<1> HIDE DEF g, nodes
<1>10. IsFiniteSet(nodes)
  BY <1>7, <1>8, <1>9, FiniteCover
<1> QED
  BY <1>7, <1>10 DEF nodes

RelationNames == <<"RUNS", "CONTAINS", "LISTENS_ON", "OWNED_BY", "EXPOSES", "MOUNTS", "CONNECTED_TO",
                   "PUBLISHED_AS", "PROXIES_TO", "RESOLVES_TO", "TARGETS", "ROUTES_THROUGH", "ROUTES_TO">>
RoutesOf(w) == UNION {{<<c.container, r>> : r \in c.routes} : c \in w.caddies}

LEMMA EdgeShape ==
  ASSUME NEW w \in Worlds, NEW o \in Outcomes(w), NEW e \in Contents[w][o].edges
  PROVE  /\ IsEdge(e) /\ e.route \in {None} \cup RoutesOf(w)
         /\ \E i \in 1..13 : e.relation = RelationNames[i]
PROOF
<1>1. IsEdge(e)
  BY ContentIs, EdgesAreEdges
<1> DEFINE named(r) == \E i \in 1..13 : r = RelationNames[i]
<1>2. /\ named("RUNS") /\ named("CONTAINS") /\ named("LISTENS_ON") /\ named("OWNED_BY") /\ named("EXPOSES")
      /\ named("MOUNTS") /\ named("CONNECTED_TO") /\ named("PUBLISHED_AS") /\ named("PROXIES_TO")
      /\ named("RESOLVES_TO") /\ named("TARGETS") /\ named("ROUTES_THROUGH") /\ named("ROUTES_TO")
  <2>1. /\ RelationNames[1] = "RUNS" /\ RelationNames[2] = "CONTAINS" /\ RelationNames[3] = "LISTENS_ON"
        /\ RelationNames[4] = "OWNED_BY" /\ RelationNames[5] = "EXPOSES" /\ RelationNames[6] = "MOUNTS"
        /\ RelationNames[7] = "CONNECTED_TO" /\ RelationNames[8] = "PUBLISHED_AS"
        /\ RelationNames[9] = "PROXIES_TO" /\ RelationNames[10] = "RESOLVES_TO"
        /\ RelationNames[11] = "TARGETS" /\ RelationNames[12] = "ROUTES_THROUGH"
        /\ RelationNames[13] = "ROUTES_TO"
    BY DEF RelationNames
  <2> QED
    BY <2>1
<1> HIDE DEF named
<1>3. \A s, r, t : edge(s, r, t).route = None /\ edge(s, r, t).relation = r
  BY DEF edge
<1>4. \A h, r, t, x : DomainEdge(h, r, t, x).route = x /\ DomainEdge(h, r, t, x).relation = r
  BY DEF DomainEdge
<1>5. e = edge(serverId, "RUNS", engineId) \/ ScanEdge(w, Found(w, o), Heard(w, o), ReadCaddies(w, o), o.unread, e)
  BY EdgesOfScan
<1>6. CASE \E c \in ReadCaddies(w, o) : \E r \in c.routes : \E i \in DOMAIN Backends(r) :
             RouteEdge(w, c, r, i, e) \/ TargetEdge(w, Heard(w, o), c, r, i, e)
  <2>1. PICK c \in ReadCaddies(w, o) : \E r \in c.routes : \E i \in DOMAIN Backends(r) :
             RouteEdge(w, c, r, i, e) \/ TargetEdge(w, Heard(w, o), c, r, i, e)
    BY <1>6
  <2>2. PICK r \in c.routes : \E i \in DOMAIN Backends(r) :
             RouteEdge(w, c, r, i, e) \/ TargetEdge(w, Heard(w, o), c, r, i, e)
    BY <2>1
  <2>3. <<c.container, r>> \in RoutesOf(w)
    BY DEF RoutesOf, ReadCaddies
  <2>4. e.route \in {None, <<c.container, r>>}
    BY <1>3, <1>4, <2>2 DEF RouteEdge, TargetEdge
  <2>5. named(e.relation)
    BY <1>2, <1>3, <1>4, <2>2 DEF RouteEdge, TargetEdge
  <2> QED
    BY <1>1, <2>3, <2>4, <2>5 DEF named
<1>7. CASE \E l \in Heard(w, o) : OwnerEdge(Found(w, o), l, e)
  <2>1. e.route = None /\ named(e.relation)
    BY <1>2, <1>3, <1>7 DEF OwnerEdge
  <2> QED
    BY <1>1, <2>1 DEF named
<1>8. CASE ContainerEdge(w, e)
  <2>1. e.route = None /\ named(e.relation)
    BY <1>2, <1>3, <1>8 DEF ContainerEdge
  <2> QED
    BY <1>1, <2>1 DEF named
<1>9. CASE ProxyEdge(w, e) \/ \E l \in Heard(w, o) : PublishedEdge(w, l, e)
  <2>1. e.route = None /\ named(e.relation)
    BY <1>2, <1>3, <1>9 DEF ProxyEdge, PublishedEdge
  <2> QED
    BY <1>1, <2>1 DEF named
<1>10. CASE \/ e = edge(serverId, "RUNS", engineId)
            \/ \E s \in Found(w, o) : e = edge(serverId, "RUNS", serviceId(s.unit))
            \/ \E l \in Heard(w, o) : e = edge(serverId, "CONTAINS", listenerId(l.key))
  <2>1. e.route = None /\ named(e.relation)
    BY <1>2, <1>3, <1>10
  <2> QED
    BY <1>1, <2>1 DEF named
<1> QED
  BY <1>5, <1>6, <1>7, <1>8, <1>9, <1>10 DEF ScanEdge

LEMMA ScanEdgesFinite ==
  ASSUME NEW w \in Worlds, NEW o \in Outcomes(w)
  PROVE  IsFiniteSet(Contents[w][o].edges)
PROOF
<1> DEFINE ids == Ids(Contents[w][o])
           routes == {None} \cup RoutesOf(w)
           X == (ids \X ids) \X ((1..13) \X routes)
           f == [x \in X |-> {[source |-> x[1][1], relation |-> RelationNames[x[2][1]],
                               target |-> x[1][2], route |-> x[2][2]]}]
<1>1. IsFiniteSet(ids)
  BY ScanNodesFinite
<1>2. IsFiniteSet(RoutesOf(w))
  <2> DEFINE Of(c) == {<<c.container, r>> : r \in c.routes}
             g == [c \in w.caddies |-> Of(c)]
  <2>1. ASSUME NEW c \in w.caddies PROVE IsFiniteSet(Of(c))
    <3> DEFINE h == [r \in c.routes |-> {<<c.container, r>>}]
    <3>1. h = [r \in c.routes |-> h[r]] /\ \A t \in Of(c) : \E r \in c.routes : t \in h[r]
      OBVIOUS
    <3>2. \A r \in c.routes : IsFiniteSet(h[r])
      BY FS_Singleton
    <3>3. IsFiniteSet(c.routes)
      BY WorldsAssumption
    <3> HIDE DEF h, Of
    <3> QED
      BY <3>1, <3>2, <3>3, FiniteCover
  <2>2. \A t \in RoutesOf(w) : \E c \in w.caddies : t \in Of(c)
    BY DEF RoutesOf
  <2> HIDE DEF Of
  <2>3. g = [c \in w.caddies |-> g[c]] /\ \A c \in w.caddies : g[c] = Of(c)
    OBVIOUS
  <2>4. (\A c \in w.caddies : IsFiniteSet(g[c])) /\ \A t \in RoutesOf(w) : \E c \in w.caddies : t \in g[c]
    BY <2>1, <2>2, <2>3
  <2>5. IsFiniteSet(w.caddies)
    BY WorldsAssumption
  <2> HIDE DEF g
  <2> QED
    BY <2>3, <2>4, <2>5, FiniteCover
<1>3. IsFiniteSet(routes)
  BY <1>2, FS_Singleton, FS_Union
<1>4. IsFiniteSet(1..13)
  <2>1. 1 \in Int /\ 13 \in Int
    OBVIOUS
  <2> QED
    BY <2>1, FS_Interval, Zenon
<1>5. IsFiniteSet(X)
  <2> HIDE DEF ids, routes
  <2>1. IsFiniteSet(ids \X ids) /\ IsFiniteSet((1..13) \X routes)
    BY <1>1, <1>3, <1>4, FS_Product
  <2> QED
    BY <2>1, FS_Product
<1>6. ASSUME NEW e \in Contents[w][o].edges PROVE \E x \in X : e \in f[x]
  <2>1. e.source \in ids /\ e.target \in ids
    BY EndsAreNodes
  <2>2. IsEdge(e) /\ e.route \in routes
    BY EdgeShape
  <2>3. PICK i \in 1..13 : e.relation = RelationNames[i]
    BY EdgeShape
  <2> DEFINE x == <<<<e.source, e.target>>, <<i, e.route>>>>
  <2> HIDE DEF ids, routes
  <2>4. x \in X
    BY <2>1, <2>2
  <2>5. x[1][1] = e.source /\ x[1][2] = e.target /\ x[2][1] = i /\ x[2][2] = e.route
    OBVIOUS
  <2> HIDE DEF x, X
  <2>6. f[x] = {[source |-> e.source, relation |-> e.relation, target |-> e.target, route |-> e.route]}
    BY <2>3, <2>4, <2>5
  <2>7. e \in f[x]
    BY <2>2, <2>6 DEF IsEdge
  <2> HIDE DEF f
  <2> QED
    BY <2>4, <2>7
<1> HIDE DEF X
<1>7. f = [x \in X |-> f[x]] /\ \A x \in X : IsFiniteSet(f[x])
  BY FS_Singleton
<1> HIDE DEF f
<1> QED
  BY <1>5, <1>6, <1>7, FiniteCover

(***************************************************************************)
(* What the page and the toolbar say of the comparison.                    *)
(***************************************************************************)
LEMMA ScanIsFinite ==
  ASSUME NEW w \in Worlds, NEW o \in Outcomes(w)
  PROVE  IsFinite(Contents[w][o])
BY ScanNodesFinite, ScanEdgesFinite DEF IsFinite

\* A scan of which no part failed.
LEMMA NoFailures ==
  ASSUME NEW w, NEW o \in Outcomes(w), Failures(o) = 0
  PROVE  o = Perfect
PROOF
<1> DEFINE parts == {"docker", "unreadable", "systemd", "listeners", "unread"}
           failed == {x \in DOMAIN o : o[x] # Perfect[x]}
<1>1. DOMAIN o = parts /\ o = [x \in parts |-> o[x]]
  <2> DEFINE races == {{}} \cup (IF MayRace THEN {{x.key} : x \in w.listeners} ELSE {})
             containers == {c.container : c \in w.caddies}
             systemds == Listings({x.unit : x \in w.services})
             listeners == Listings({x.key : x \in w.listeners})
  <2>a. AnyOutcome(w) = {Outcome(u, s, l, r) : u \in SUBSET containers, s \in systemds,
                                               l \in listeners, r \in races}
    BY DEF AnyOutcome
  <2> HIDE DEF races, containers, systemds, listeners
  <2>1. o = HelperFailed \/ \E u, s, l, r : o = Outcome(u, s, l, r)
    BY <2>a DEF Outcomes
  <2>2. DOMAIN HelperFailed = parts /\ HelperFailed = [x \in parts |-> HelperFailed[x]]
    BY DEF HelperFailed, Perfect, Outcome
  <2>3. \A u, s, l, r : /\ DOMAIN Outcome(u, s, l, r) = parts
                       /\ Outcome(u, s, l, r) = [x \in parts |-> Outcome(u, s, l, r)[x]]
    BY DEF Outcome
  <2> QED
    BY <2>1, <2>2, <2>3
<1>2. DOMAIN Perfect = parts /\ Perfect = [x \in parts |-> Perfect[x]]
  BY DEF Perfect, Outcome
<1>3. IsFiniteSet(parts)
  <2>1. IsFiniteSet({"docker"} \cup {"unreadable"})
    BY FS_Singleton, FS_AddElement
  <2>2. IsFiniteSet(({"docker"} \cup {"unreadable"}) \cup {"systemd"})
    BY <2>1, FS_AddElement
  <2>3. IsFiniteSet((({"docker"} \cup {"unreadable"}) \cup {"systemd"}) \cup {"listeners"})
    BY <2>2, FS_AddElement
  <2>4. IsFiniteSet(((({"docker"} \cup {"unreadable"}) \cup {"systemd"}) \cup {"listeners"}) \cup {"unread"})
    BY <2>3, FS_AddElement
  <2>5. parts = ((({"docker"} \cup {"unreadable"}) \cup {"systemd"}) \cup {"listeners"}) \cup {"unread"}
    OBVIOUS
  <2> QED
    BY <2>4, <2>5, Zenon
<1> HIDE DEF parts
<1>4. failed \in SUBSET parts
  BY <1>1
<1>5. IsFiniteSet(failed) /\ Cardinality(failed) = 0
  BY <1>3, <1>4, FS_Subset DEF Failures
<1>6. failed = {}
  BY <1>5, FS_EmptySet
<1>7. \A x \in parts : o[x] = Perfect[x]
  BY <1>1, <1>6
<1> QED
  BY <1>1, <1>2, <1>7

\* A scan whose quality is complete found all that a perfect one finds.
LEMMA CompleteScan ==
  ASSUME NEW w \in Worlds, NEW o \in Outcomes(w),
         Incomplete(REMOTE_SUBSYSTEMS, Contents[w][o].quality) = {}
  PROVE  Ids(Contents[w][o]) = Ids(Contents[w][Perfect])
PROOF
<1>1. PICK q : q = Contents[w][o].quality
  OBVIOUS
<1>2. \A t : requiredSubsystems(t) \subseteq REMOTE_SUBSYSTEMS \cup {"BASE_HOST"}
  BY DEF requiredSubsystems, REMOTE_SUBSYSTEMS
<1>3. isComplete("BASE_HOST", q)
  BY DEF isComplete
<1>4. \A t : Incomplete(requiredSubsystems(t), q) = {}
  BY <1>1, <1>2, <1>3 DEF Incomplete
<1>5. \A id \in Ids(Contents[w][Perfect]) : id \in Ids(Contents[w][o])
  BY <1>1, <1>4, CompleteFindsAll
<1> QED
  BY <1>5, FoundIsReal

\* The quality of a perfect scan is complete.
LEMMA PerfectIsComplete ==
  ASSUME NEW w \in Worlds
  PROVE  Incomplete(REMOTE_SUBSYSTEMS, Contents[w][Perfect].quality) = {}
PROOF
<1>0. PICK o \in Outcomes(w) : o = Perfect
  BY PerfectOutcome
<1>1. PICK d : d = Discovery(w, o)
  OBVIOUS
<1>2. PICK q : q = Contents[w][o].quality
  OBVIOUS
<1>3. /\ o.docker = "AVAILABLE" /\ o.unreadable = {}
      /\ o.systemd.state = "DISCOVERED" /\ o.listeners.state = "DISCOVERED"
  BY <1>0 DEF Perfect, Outcome
<1>4. /\ q.DOCKER = o.docker /\ q.CADDY = d.caddy.state
      /\ q.HOST_LISTENERS = d.listeners.state /\ q.SYSTEMD = d.systemd.state
  BY <1>1, <1>2, ContentIs
<1>5. /\ d.caddy.state = CaddyState(w, o.unreadable) /\ d.systemd.state = o.systemd.state
      /\ d.listeners.state = o.listeners.state
  <2>1. o.docker = "AVAILABLE"
    BY <1>3
  <2> QED
    BY <1>1, <2>1, DiscoveryIs
<1>6. CaddyState(w, {}) \in {"NOT_DETECTED", "DISCOVERED"}
  BY DEF CaddyState
<1>7. \A s \in REMOTE_SUBSYSTEMS : isComplete(s, q)
  BY <1>3, <1>4, <1>5, <1>6 DEF REMOTE_SUBSYSTEMS, isComplete
<1> QED
  BY <1>0, <1>2, <1>7 DEF Incomplete

\* The toolbar reports a number of changes only when there are some, and reports
\* that nothing changed only when no resource came or went, or when the scan
\* before was incomplete and so could not have known it (scanFeedback of App.tsx).
THEOREM FeedbackHolds == Spec => []FeedbackIsTrue
PROOF
<1>1. EvidenceIInv => FeedbackIsTrue
  <2> SUFFICES ASSUME EvidenceIInv, Compared
               PROVE  /\ scanFeedback(shown).text = "CHANGES" => scanFeedback(shown).count > 0
                      /\ scanFeedback(shown).text = "NO_CHANGES" /\ Failures(previous.outcome) = 0 =>
                           Ids(Real(previous)) = Ids(Real(current))
    BY DEF FeedbackIsTrue
  <2>1. /\ previous.world \in Worlds /\ previous.outcome \in Outcomes(previous.world)
        /\ current.world \in Worlds /\ current.outcome \in Outcomes(current.world)
    BY ComparedScans
  <2>2. IsFinite(Seen(previous)) /\ IsFinite(Seen(current))
    BY <2>1, ScanIsFinite DEF Seen
  <2>3. Failures(previous.outcome) = 0 => Seen(previous) = Real(previous)
    BY <2>1, NoFailures DEF Seen, Real
  <2>4. Incomplete(REMOTE_SUBSYSTEMS, Seen(current).quality) = {} => Ids(Seen(current)) = Ids(Real(current))
    BY <2>1, CompleteScan DEF Seen, Real
  <2>5. \A x : IdsIn(x) = Ids(x)
    BY DEF IdsIn, Ids
  <2>6. CASE Seen(previous) = Seen(current)
    <3>1. shown.diff.status = "NO_CHANGES"
      BY <2>6, ComparedScans, TerminalIsEmpty
    <3>2. scanFeedback(shown).text = "NO_CHANGES"
      BY <3>1 DEF scanFeedback
    <3>3. Incomplete(REMOTE_SUBSYSTEMS, Real(previous).quality) = {}
      BY <2>1, PerfectIsComplete DEF Real
    <3> QED
      BY <2>3, <2>4, <2>6, <3>2, <3>3
  <2>7. CASE Seen(previous) # Seen(current)
    <3>1. shown.diff = Differences(Seen(previous), Seen(current))
      BY <2>7, ComparedScans
    <3> QED
      BY <2>2, <2>3, <2>4, <2>5, <3>1, FeedbackOf
  <2> QED
    BY <2>6, <2>7
<1> QED
  BY <1>1, EvidenceCorrect, PTL

\* A page without two scans in order has no records.
LEMMA ShownComparison ==
  ASSUME EvidenceIInv, shown # None, ~Compared
  PROVE  shown.diff = terminal("NO_BASELINE", FALSE) \/ shown.diff = terminal("INVALID_TIME_ORDER", FALSE)
PROOF
<1>1. current # None /\ shown = payload(Snapshot(previous), Snapshot(current))
  BY DEF EvidenceIInv
<1>2. shown.diff = compare(Snapshot(previous), Snapshot(current))
  BY <1>1 DEF payload
<1>3. CASE previous = None
  BY <1>2, <1>3 DEF Snapshot, compare
<1>4. CASE previous # None
  <2>1. previous.at \in 0..2 /\ current.at \in 0..2 /\ ~(previous.at <= current.at)
    BY <1>1, <1>4, SnapshotIs DEF Compared, EvidenceIInv
  <2>2. /\ Snapshot(previous) # None /\ Snapshot(previous).serverId = Snapshot(current).serverId
        /\ Snapshot(previous).capturedAt > Snapshot(current).capturedAt
    BY <1>1, <1>4, <2>1, SnapshotIs DEF EvidenceIInv
  <2> QED
    BY <1>2, <2>2 DEF compare
<1> QED
  BY <1>3, <1>4

\* The counts that the engine puts in the summary are those of the cards that
\* the page builds from the records, and a page of cards has one
\* (InfrastructureDiffEngine's summary against ChangesPage.tsx).
THEOREM CountsHold == Spec => []CountsShown
PROOF
<1>1. EvidenceIInv => CountsShown
  <2> SUFFICES ASSUME EvidenceIInv, shown # None, PageOf(shown) = "CARDS" PROVE CountsShown
    BY DEF CountsShown
  <2>1. shown.diff.status \in {"CHANGED", "PARTIAL"}
    BY DEF PageOf
  <2>a. \A status, complete : shown.diff = terminal(status, complete) => status \in {"CHANGED", "PARTIAL"}
    BY <2>1, TerminalIsEmpty
  <2>2. Compared
    <3> SUFFICES ASSUME ~Compared PROVE FALSE
      OBVIOUS
    <3>1. PICK status \in {"NO_BASELINE", "INVALID_TIME_ORDER"} : shown.diff = terminal(status, FALSE)
      BY ShownComparison, Zenon
    <3> QED
      BY <2>a, <3>1
  <2>b. shown.diff = IF Seen(previous) = Seen(current) THEN terminal("NO_CHANGES", TRUE)
                     ELSE Differences(Seen(previous), Seen(current))
    BY <2>2, ComparedScans
  <2>d. shown.diff # terminal("NO_CHANGES", TRUE)
    BY <2>1 DEF terminal
  <2>3. shown.diff = Differences(Seen(previous), Seen(current))
    BY <2>b, <2>d
  <2>4. IsFinite(Seen(previous)) /\ IsFinite(Seen(current))
    BY <2>2, ComparedScans, ScanIsFinite DEF Seen
  <2>5. PICK p, b, c : p = shown /\ b = Seen(previous) /\ c = Seen(current)
    OBVIOUS
  <2>c. PICK d, s, cards : d = p.diff /\ s = d.summary /\ cards = Cards(p, None)
    OBVIOUS
  <2>6. IsFinite(b) /\ IsFinite(c) /\ d = Differences(b, c)
    BY <2>3, <2>4, <2>5, <2>c
  <2>7. /\ s.addedNodes = Cardinality(cards["ADDED"])
        /\ s.modifiedNodes = Cardinality(cards["MODIFIED"])
        /\ s.removedNodes = Cardinality(cards["REMOVED"])
        /\ s.addedRelationships + s.removedRelationships = Cardinality(Normal(p))
    BY <2>6, <2>c, PageCounts
  <2>8. s.uncertainComparisons = Cardinality(cards["UNCERTAIN"])
    BY <2>6, <2>c, UncertainCount
  <2>9. hasVisible(cards, "ALL")
    BY <2>1, <2>5, <2>6, <2>c, SomethingIsVisible
  <2>10. (UNION {card.records : card \in cards["RELATIONSHIP"]}) = Normal(p)
    BY <2>c, RecordsOnCards
  <2> QED
    BY <2>5, <2>c, <2>7, <2>8, <2>9, <2>10 DEF CountsShown
<1> QED
  BY <1>1, EvidenceCorrect, PTL

\* Each resource of a graph has an ID of its own, and None is not one of them.
LEMMA NodesOfSnapshot ==
  ASSUME NEW s, IsScan(s)
  PROVE  /\ UniqueIds(Snapshot(s).content) /\ None \notin Snapshot(s).content.nodes
         /\ IsFinite(Snapshot(s).content)
         /\ \A e \in Snapshot(s).content.edges :
              e.source \in IdsIn(Snapshot(s).content) /\ e.target \in IdsIn(Snapshot(s).content)
PROOF
<1>1. PICK w, o : w = s.world /\ o = s.outcome
  OBVIOUS
<1>2. w \in Worlds /\ o \in Outcomes(w) /\ Snapshot(s).content = Contents[w][o]
  BY <1>1, SnapshotIs
<1>3. UniqueIds(Contents[w][o])
  BY <1>2, NodesOfScan DEF UniqueIds
<1>4. None \notin Contents[w][o].nodes
  BY <1>2, NoneAssumption
<1>5. IsFinite(Contents[w][o])
  BY <1>2, ScanIsFinite
<1>6. \A e \in Contents[w][o].edges : e.source \in Ids(Contents[w][o]) /\ e.target \in Ids(Contents[w][o])
  BY <1>2, EndsAreNodes
<1>7. IdsIn(Contents[w][o]) = Ids(Contents[w][o])
  BY DEF IdsIn, Ids
<1> QED
  BY <1>2, <1>3, <1>4, <1>5, <1>6, <1>7

\* Every record of the comparison is on exactly one card under the filter ALL,
\* and on as many under exactly one other filter; the card of a relationship
\* names the record's target.  A search for a changed resource finds its card, and
\* a click on that opens the live resource exactly when the last scan found it
\* (changes-model.ts and ChangesPage.tsx).
THEOREM RecordsAreShownOnce == Spec => []EveryRecordShownOnce
PROOF
<1>1. EvidenceIInv => EveryRecordShownOnce
  <2> SUFFICES ASSUME EvidenceIInv, shown # None PROVE EveryRecordShownOnce
    BY DEF EveryRecordShownOnce
  <2>1. PICK p, cards, t : p = shown /\ cards = Cards(p, None) /\ t = Snapshot(current)
    OBVIOUS
  <2> DEFINE relationships == cards["RELATIONSHIP"] \cup uncertainRelationshipPresentations(p)
             Names(card, c) == LET target == IF c.kind = "RELATIONSHIP_ADDED" THEN card.afterTarget
                                             ELSE card.beforeTarget
                               IN  target # None /\ target.id = c.edge.target
             Filters(k) == {f \in ChangeFilters : filterAllows(f, k, k = "UNCERTAIN")}
  <2>2. \A k \in DOMAIN cards : "ALL" \in Filters(k) /\ Cardinality(Filters(k)) = 2
    <3>1. DOMAIN cards = {"MODIFIED", "ADDED", "REMOVED", "RELATIONSHIP", "UNCERTAIN"}
      BY <2>1, CardsAre
    <3> QED
      BY <3>1, FiltersOf
  <2>3. CASE ~Compared
    <3>1. p.diff.nodeChanges = {} /\ p.diff.relationshipChanges = {}
      <4>1. PICK status \in {"NO_BASELINE", "INVALID_TIME_ORDER"} : shown.diff = terminal(status, FALSE)
        BY <2>3, ShownComparison, Zenon
      <4> QED
        BY <2>1, <4>1 DEF terminal
    <3> QED
      BY <2>1, <2>2, <3>1 DEF EveryRecordShownOnce
  <2>4. CASE Compared
    <3>1. PICK s : s = Snapshot(previous)
      OBVIOUS
    <3>2. IsScan(previous) /\ IsScan(current) /\ p = payload(s, t)
      BY <2>1, <2>4, <3>1 DEF Compared, EvidenceIInv
    <3>3. /\ s # None /\ UniqueIds(s.content) /\ None \notin s.content.nodes /\ IsFinite(s.content)
          /\ \A e \in s.content.edges : e.source \in IdsIn(s.content) /\ e.target \in IdsIn(s.content)
      BY <3>1, <3>2, NodesOfSnapshot, SnapshotIs
    <3>4. /\ t # None /\ UniqueIds(t.content) /\ None \notin t.content.nodes /\ IsFinite(t.content)
          /\ \A e \in t.content.edges : e.source \in IdsIn(t.content) /\ e.target \in IdsIn(t.content)
      BY <2>1, <3>2, NodesOfSnapshot, SnapshotIs
    <3>5. \/ p.diff.nodeChanges = {} /\ p.diff.relationshipChanges = {}
          \/ p.diff = Differences(s.content, t.content)
      <4>1. \/ shown.diff = terminal("NO_CHANGES", TRUE) \/ shown.diff = Differences(s.content, t.content)
        BY <2>1, <2>4, <3>1, ComparedScans
      <4> QED
        BY <2>1, <4>1 DEF terminal
    <3>6. CASE p.diff.nodeChanges = {} /\ p.diff.relationshipChanges = {}
      BY <2>1, <2>2, <3>6 DEF EveryRecordShownOnce
    <3>7. CASE p.diff = Differences(s.content, t.content)
      <4>1. ASSUME NEW c \in p.diff.nodeChanges,
                   NEW sections, sections = {k \in DOMAIN cards \ {"RELATIONSHIP"} : c \in cards[k]}
            PROVE  /\ Cardinality(sections) = 1
                   /\ \A k \in sections : c \in Cards(p, c.label)[k]
        BY <2>1, <3>7, <4>1, NodeOnOneCard, SMTT(20)
      <4>2. ASSUME NEW c \in p.diff.nodeChanges
            PROVE  opensNode(p, c) <=> c.nodeId \in IdsIn(t.content)
        BY <3>2, <3>3, <3>4, ResourcesAre DEF opensNode
      <4>3. ASSUME NEW c \in p.diff.relationshipChanges,
                   NEW mine, mine = {card \in relationships : c \in card.records}
            PROVE  /\ Cardinality(mine) = 1
                   /\ \A card \in mine : /\ Names(card, c)
                                         /\ opensSubject(card) <=> c.edge.source \in IdsIn(t.content)
        <5>1. PICK card : card = IF c \in Normal(p) THEN CardOf(p, c) ELSE UncertainCard(p, c)
          OBVIOUS
        <5>2. mine = {card}
          BY <2>1, <4>3, <5>1, EdgeOnOneCard
        <5>3. Cardinality(mine) = 1
          BY <5>2, FS_Singleton
        <5>4. /\ c.kind = "RELATIONSHIP_ADDED" => card.afterTarget # None /\ card.afterTarget.id = c.edge.target
              /\ c.kind # "RELATIONSHIP_ADDED" => card.beforeTarget # None /\ card.beforeTarget.id = c.edge.target
              /\ opensSubject(card) <=> c.edge.source \in IdsIn(t.content)
          BY <3>2, <3>3, <3>4, <3>7, <5>1, CardOfRecord
        <5> QED
          BY <5>2, <5>3, <5>4
      <4>4. IdsIn(t.content) = Ids(Snapshot(current).content)
        BY <2>1 DEF IdsIn, Ids
      <4> QED
        BY <2>1, <2>2, <4>1, <4>2, <4>3, <4>4, SMTT(20) DEF EveryRecordShownOnce, opensNode, opensSubject
    <3> QED
      BY <3>5, <3>6, <3>7
  <2> QED
    BY <2>3, <2>4
<1> QED
  BY <1>1, EvidenceCorrect, PTL

(***************************************************************************)
(* Where a route leads.                                                    *)
(***************************************************************************)
\* An upstream is of one route of one Caddy instance.
LEMMA UpstreamIdsAre ==
  ASSUME NEW w \in Worlds
  PROVE  \A b, c \in w.caddies : \A q, r, j, i :
           UpstreamId(b, q, j) = UpstreamId(c, r, i) => b = c /\ q = r /\ j = i
PROOF
<1>1. ASSUME NEW b \in w.caddies, NEW c \in w.caddies, NEW q, NEW r, NEW j, NEW i,
             UpstreamId(b, q, j) = UpstreamId(c, r, i)
      PROVE  b = c /\ q = r /\ j = i
  <2>1. b.container = c.container /\ q = r /\ j = i
    BY <1>1 DEF UpstreamId
  <2> QED
    BY <2>1, WorldsAssumption
<1> QED
  BY <1>1

\* The edges of a scan that resolve an upstream, or lead to the listeners it may mean.
LEMMA ResolvingEdges ==
  ASSUME NEW w \in Worlds, NEW o \in Outcomes(w), NEW e \in Contents[w][o].edges, e.relation = "RESOLVES_TO"
  PROVE  /\ o.docker = "AVAILABLE"
         /\ \E c \in ReadCaddies(w, o) : \E r \in c.routes : \E i \in DOMAIN Backends(r) :
              /\ Resolved(w, c, r, i).container # None
              /\ e = edge(UpstreamId(c, r, i), "RESOLVES_TO", containerId(Resolved(w, c, r, i).container.id))
PROOF
<1>1. o.docker = "AVAILABLE"
  <2>1. edge(serverId, "RUNS", engineId).relation = "RUNS"
    BY EndsAre
  <2> QED
    BY <2>1, EdgesOfScan
<1>2. ScanEdge(w, Found(w, o), Heard(w, o), ReadCaddies(w, o), o.unread, e)
  BY <1>1, EdgesOfScan
<1>3. \A h, r, t, x : r \in {"ROUTES_THROUGH", "ROUTES_TO"} => DomainEdge(h, r, t, x).relation # "RESOLVES_TO"
  BY DEF DomainEdge
<1>4. \E c \in ReadCaddies(w, o) : \E r \in c.routes : \E i \in DOMAIN Backends(r) :
        RouteEdge(w, c, r, i, e) \/ TargetEdge(w, Heard(w, o), c, r, i, e)
  BY <1>2, EndsAre DEF ScanEdge, OwnerEdge, ContainerEdge, PublishedEdge, ProxyEdge
<1>5. PICK c \in ReadCaddies(w, o) : \E r \in c.routes : \E i \in DOMAIN Backends(r) :
        RouteEdge(w, c, r, i, e) \/ TargetEdge(w, Heard(w, o), c, r, i, e)
  BY <1>4
<1>6. PICK r \in c.routes : \E i \in DOMAIN Backends(r) :
        RouteEdge(w, c, r, i, e) \/ TargetEdge(w, Heard(w, o), c, r, i, e)
  BY <1>5
<1>7. PICK i \in DOMAIN Backends(r) : RouteEdge(w, c, r, i, e) \/ TargetEdge(w, Heard(w, o), c, r, i, e)
  BY <1>6
<1>8. ~TargetEdge(w, Heard(w, o), c, r, i, e)
  BY EndsAre DEF TargetEdge
<1>9. /\ Resolved(w, c, r, i).container # None
      /\ e = edge(UpstreamId(c, r, i), "RESOLVES_TO", containerId(Resolved(w, c, r, i).container.id))
  BY <1>3, <1>7, <1>8, EndsAre DEF RouteEdge
<1> QED
  BY <1>1, <1>9

\* A resolved name means one container, and every other container is excluded.
LEMMA ResolvedIsOne ==
  ASSUME NEW w \in Worlds, NEW c \in w.caddies, NEW r \in c.routes, NEW i \in DOMAIN Backends(r),
         NEW k, k = Resolved(w, c, r, i).container, k # None
  PROVE  /\ i \in DOMAIN r.upstreams
         /\ Meant(w, r.upstreams[i], c.container) = {k}
         /\ Resolved(w, c, r, i).state = "RESOLVED"
PROOF
<1> DEFINE dial == Backends(r)[i]
           caddies == {x \in w.containers : x.id = c.container}
           named == {x \in w.containers : x.name = dial.host}
           serving == {x \in w.containers : x.service = dial.host}
           candidates == IF named # {} THEN named ELSE serving
           matches == Matching(candidates, Only(caddies), dial)
<1>1. \A state : Unmatched(state).container = None
  BY DEF Unmatched
<1>2. /\ dial.kind = "DOCKER_NAME" /\ Cardinality(caddies) = 1
      /\ Resolved(w, c, r, i) = select(candidates, Only(caddies), dial)
  BY <1>1 DEF Resolved, resolve
<1>3. /\ k = Only(matches)
      /\ Resolved(w, c, r, i).state = CASE matches = {} -> "UNRESOLVED"
                                        [] Cardinality(matches) > 1 -> "AMBIGUOUS"
                                        [] OTHER -> "RESOLVED"
  BY <1>2 DEF select
<1>4. i \in DOMAIN r.upstreams /\ r.upstreams[i] = dial
  BY <1>2, RoutesAre
<1>5. IsFiniteSet(w.containers)
  BY WorldsAssumption
<1>6. matches \subseteq w.containers /\ IsFiniteSet(matches)
  <2>1. matches \subseteq w.containers
    BY DEF Matching
  <2> QED
    BY <1>5, <2>1, FS_Subset
<1>7. matches = {k} /\ Cardinality(matches) = 1
  <2>1. matches = {k}
    BY <1>3, <1>6, OnlyIs
  <2> QED
    BY <2>1, FS_Singleton
<1>8. Resolved(w, c, r, i).state = "RESOLVED"
  <2> HIDE DEF matches
  <2>1. matches # {} /\ ~(Cardinality(matches) > 1)
    BY <1>7
  <2> QED
    BY <1>3, <2>1
<1>9. PICK x : caddies = {x}
  <2>1. IsFiniteSet(caddies)
    BY <1>5, FS_Subset
  <2> QED
    BY <1>2, <2>1, FS_Singleton
<1>10. Only(caddies) = x /\ (CHOOSE y \in w.containers : y.id = c.container) = x
  <2>1. Only(caddies) = x
    BY <1>9, OnlyIs
  <2>2. x \in w.containers /\ x.id = c.container /\ \A y \in w.containers : y.id = c.container => y = x
    BY <1>9
  <2> QED
    BY <2>1, <2>2
<1>11. Meant(w, dial, c.container) = matches
  <2>1. Meant(w, dial, c.container) =
          {y \in w.containers : /\ IF named = {} THEN y.service = dial.host ELSE y \in named
                                /\ \E p \in y.ports : p.protocol = "tcp" /\ p.port = dial.port
                                /\ y.networks \cap x.networks # {}}
    BY <1>10 DEF Meant
  <2>2. matches = {y \in candidates : /\ \E p \in y.ports : p.protocol = "tcp" /\ p.port = dial.port
                                      /\ y.networks \cap x.networks # {}}
    BY <1>10 DEF Matching
  <2>3. \A y : y \in candidates <=> y \in w.containers /\ IF named = {} THEN y.service = dial.host ELSE y \in named
    OBVIOUS
  <2> HIDE DEF matches, candidates, named
  <2> QED
    BY <2>1, <2>2, <2>3
<1> QED
  BY <1>4, <1>7, <1>8, <1>11

\* A container is shown behind a domain only when the name that Caddy dials can
\* mean no other container: several replicas are never reduced to one of them.
THEOREM AmbiguityHolds == Spec => []AmbiguityIsShown
PROOF
<1>1. EvidenceIInv => AmbiguityIsShown
  <2> SUFFICES ASSUME EvidenceIInv, current # None,
                      NEW x \in Routes[current.world][current.outcome], x.target # None
               PROVE  \E caddy \in current.world.caddies : \E route \in caddy.routes :
                        \E i \in DOMAIN route.upstreams :
                          /\ x.upstream.id = <<"UPSTREAM", caddy.container, route, i>>
                          /\ {containerId(c.id) : c \in Meant(current.world, route.upstreams[i], caddy.container)}
                               = {x.target.id}
    BY DEF AmbiguityIsShown
  <2>1. PICK w \in Worlds : w = current.world
    BY SnapshotIs DEF EvidenceIInv
  <2>2. PICK o \in Outcomes(w) : o = current.outcome
    BY <2>1, SnapshotIs DEF EvidenceIInv
  <2>3. PICK graph : graph = Contents[w][o]
    OBVIOUS
  <2>4. PICK u \in OfType(graph, "UPSTREAM") : x = RouteOf(graph, u)
    <3>1. Routes[w][o] = resourceModel(graph).routes
      BY <2>3 DEF Routes
    <3>2. resourceModel(graph).routes = {RouteOf(graph, u) : u \in OfType(graph, "UPSTREAM")}
      BY DEF resourceModel
    <3> QED
      BY <2>1, <2>2, <3>1, <3>2
  <2>5. x.upstream = u /\ x.target = Only(Nodes(graph, Targets(graph, "RESOLVES_TO", u.id), "DOCKER_CONTAINER"))
    BY <2>4 DEF RouteOf
  <2>6. x.target.id \in Targets(graph, "RESOLVES_TO", u.id)
    BY <2>5, OnlyIs DEF Nodes
  <2>7. PICK e \in graph.edges : e.relation = "RESOLVES_TO" /\ e.source = u.id /\ e.target = x.target.id
    BY <2>6 DEF Targets
  <2>8. PICK c \in ReadCaddies(w, o) : \E r \in c.routes : \E i \in DOMAIN Backends(r) :
          /\ Resolved(w, c, r, i).container # None
          /\ e = edge(UpstreamId(c, r, i), "RESOLVES_TO", containerId(Resolved(w, c, r, i).container.id))
    BY <2>3, <2>7, ResolvingEdges
  <2>9. PICK r \in c.routes : \E i \in DOMAIN Backends(r) :
          /\ Resolved(w, c, r, i).container # None
          /\ e = edge(UpstreamId(c, r, i), "RESOLVES_TO", containerId(Resolved(w, c, r, i).container.id))
    BY <2>8
  <2>10. PICK i \in DOMAIN Backends(r) :
          /\ Resolved(w, c, r, i).container # None
          /\ e = edge(UpstreamId(c, r, i), "RESOLVES_TO", containerId(Resolved(w, c, r, i).container.id))
    BY <2>9
  <2>11. PICK k : k = Resolved(w, c, r, i).container
    OBVIOUS
  <2>12. u.id = UpstreamId(c, r, i) /\ x.target.id = containerId(k.id)
    BY <2>7, <2>10, <2>11, EndsAre
  <2>13. c \in w.caddies
    BY DEF ReadCaddies
  <2>14. i \in DOMAIN r.upstreams /\ Meant(w, r.upstreams[i], c.container) = {k}
    BY <2>10, <2>11, <2>13, ResolvedIsOne
  <2>15. {containerId(y.id) : y \in Meant(w, r.upstreams[i], c.container)} = {x.target.id}
    BY <2>12, <2>14
  <2> QED
    BY <2>1, <2>5, <2>12, <2>13, <2>14, <2>15 DEF UpstreamId
<1> QED
  BY <1>1, EvidenceCorrect, PTL

\* The upstreams of a graph, each with the states of its hop.
IsUpstream(d, c, r, i, u) ==
  /\ u.id = UpstreamId(c, r, i)
  /\ u.metadata.resolution = Hop(d, c, r, i).resolution.state
  /\ u.metadata.host_resolution = Hop(d, c, r, i).host.state

LEMMA UpstreamNodes ==
  ASSUME NEW w \in Worlds, NEW o \in Outcomes(w), NEW d, d = Discovery(w, o)
  PROVE  /\ \A u \in OfType(Contents[w][o], "UPSTREAM") :
              /\ o.docker = "AVAILABLE"
              /\ \E c \in ReadCaddies(w, o) : \E r \in c.routes : \E i \in DOMAIN Backends(r) :
                   IsUpstream(d, c, r, i, u)
         /\ o.docker = "AVAILABLE" =>
              \A c \in ReadCaddies(w, o) : \A r \in c.routes : \A i \in DOMAIN Backends(r) :
                \E u \in OfType(Contents[w][o], "UPSTREAM") : IsUpstream(d, c, r, i, u)
PROOF
<1> DEFINE hops == Hops(d)
           Upstream(h) ==
             node(h.id, h.dial.kind,
                  [resolution |-> h.resolution.state, host_resolution |-> h.host.state,
                   host_service |-> IF h.host.service = None THEN None ELSE h.host.service.unit])
           Proxy(c) == node(proxyId(c.container), c.name, [route_count |-> Cardinality(c.routes)])
           graph == create(d)
<1>1. Contents[w][o].nodes = graph.nodes /\ d.docker = o.docker
  BY ContentIs, DiscoveryIs
<1>2. /\ o.docker # "AVAILABLE" => graph.nodes = HostNodes(d)
      /\ o.docker = "AVAILABLE" => graph.nodes = HostNodes(d) \cup DockerNodes(d) \cup CaddyNodes(d, hops)
  BY <1>1 DEF create
<1>3. ASSUME NEW u \in HostNodes(d) PROVE type(u.id) # "UPSTREAM"
  <2>1. u.id \in HostIds(d.systemd.services, d.listeners.items)
    BY HostIdsAre
  <2> QED
    BY <2>1, TypesAre DEF HostIds
<1>4. ASSUME NEW u \in DockerNodes(d) PROVE type(u.id) # "UPSTREAM"
  <2>1. u.id \in DockerIds(d.containers)
    BY DockerIdsAre
  <2> QED
    BY <2>1, TypesAre DEF DockerIds
<1>5. CaddyNodes(d, hops) = {Proxy(c) : c \in d.caddy.instances} \cup {Upstream(h) : h \in hops}
                            \cup {DomainNode(host, hops) : host \in UNION {h.hosts : h \in hops}}
  BY DEF CaddyNodes
<1>6. /\ \A c : Proxy(c).id = proxyId(c.container)
      /\ \A host : DomainNode(host, hops).id = domainId(host)
  BY DEF node, DomainNode
<1>7. \A h : /\ Upstream(h).id = h.id
             /\ Upstream(h).metadata.resolution = h.resolution.state
             /\ Upstream(h).metadata.host_resolution = h.host.state
  BY DEF node
<1>8. \A c, r, i : IsUpstream(d, c, r, i, Upstream(Hop(d, c, r, i)))
  BY <1>7, HopIs DEF IsUpstream, UpstreamId
<1> HIDE DEF hops, Upstream, Proxy, graph
<1>9. ASSUME NEW u \in CaddyNodes(d, hops), type(u.id) = "UPSTREAM"
      PROVE  \E h \in hops : u = Upstream(h)
  BY <1>5, <1>6, <1>9, TypesAre
<1>10. ASSUME NEW u \in OfType(Contents[w][o], "UPSTREAM")
       PROVE  /\ o.docker = "AVAILABLE"
              /\ \E c \in ReadCaddies(w, o) : \E r \in c.routes : \E i \in DOMAIN Backends(r) :
                   IsUpstream(d, c, r, i, u)
  <2>1. u \in graph.nodes /\ type(u.id) = "UPSTREAM"
    BY <1>1 DEF OfType
  <2>2. o.docker = "AVAILABLE" /\ u \in CaddyNodes(d, hops)
    BY <1>2, <1>3, <1>4, <2>1
  <2>3. PICK h \in hops : u = Upstream(h)
    BY <1>9, <2>1, <2>2
  <2>4. \E c \in ReadCaddies(w, o) : \E r \in c.routes : \E i \in DOMAIN Backends(r) : h = Hop(d, c, r, i)
    BY <2>2, HopsOfScan DEF hops
  <2> QED
    BY <1>8, <2>2, <2>3, <2>4
<1>11. ASSUME o.docker = "AVAILABLE",
              NEW c \in ReadCaddies(w, o), NEW r \in c.routes, NEW i \in DOMAIN Backends(r)
       PROVE  \E u \in OfType(Contents[w][o], "UPSTREAM") : IsUpstream(d, c, r, i, u)
  <2>1. PICK u : u = Upstream(Hop(d, c, r, i))
    OBVIOUS
  <2>2. Hop(d, c, r, i) \in hops
    BY <1>11, HopsOfScan DEF hops
  <2>3. u \in Contents[w][o].nodes
    BY <1>1, <1>2, <1>5, <1>11, <2>1, <2>2
  <2>4. IsUpstream(d, c, r, i, u)
    BY <1>8, <2>1
  <2>5. type(u.id) = "UPSTREAM"
    BY <2>4, TypesAre DEF IsUpstream, UpstreamId
  <2> QED
    BY <2>3, <2>4, <2>5 DEF OfType
<1> QED
  BY <1>10, <1>11

OneNode(nodes, id) == nodes = {Only(nodes)} /\ Only(nodes) # None /\ Only(nodes).id = id

LEMMA NodeWithId ==
  ASSUME NEW w \in Worlds, NEW o \in Outcomes(w), NEW graph, graph = Contents[w][o]
  PROVE  \A id \in Ids(graph) : OneNode(Nodes(graph, {id}, type(id)), id)
PROOF
<1> SUFFICES ASSUME NEW id \in Ids(graph) PROVE OneNode(Nodes(graph, {id}, type(id)), id)
  OBVIOUS
<1>1. PICK n \in graph.nodes : n.id = id
  BY DEF Ids
<1>2. Nodes(graph, {id}, type(id)) = {n}
  BY <1>1, NodesOfScan DEF Nodes
<1>3. n # None
  BY NoneAssumption
<1> QED
  <2>1. Only(Nodes(graph, {id}, type(id))) = n
    BY <1>2, OnlyIs
  <2> QED
    BY <1>1, <1>2, <1>3, <2>1 DEF OneNode

LEMMA ResolutionIs ==
  ASSUME NEW w \in Worlds, NEW c \in w.caddies, NEW r \in c.routes, NEW i \in DOMAIN Backends(r)
  PROVE  /\ Resolved(w, c, r, i).state \in {"HOST_TARGET", "DYNAMIC", "UNRESOLVED", "AMBIGUOUS", "RESOLVED"}
         /\ (Resolved(w, c, r, i).state = "RESOLVED") = (Resolved(w, c, r, i).container # None)
PROOF
<1> DEFINE dial == Backends(r)[i]
           caddies == {x \in w.containers : x.id = c.container}
           named == {x \in w.containers : x.name = dial.host}
           serving == {x \in w.containers : x.service = dial.host}
           candidates == IF named # {} THEN named ELSE serving
           matches == Matching(candidates, Only(caddies), dial)
<1>1. \A state : Unmatched(state).state = state /\ Unmatched(state).container = None
  BY DEF Unmatched
<1>2. \/ \E state \in {"HOST_TARGET", "DYNAMIC", "UNRESOLVED"} : Resolved(w, c, r, i) = Unmatched(state)
      \/ Resolved(w, c, r, i) = select(candidates, Only(caddies), dial)
  BY DEF Resolved, resolve
<1>3. IsFiniteSet(matches) /\ matches \subseteq w.containers
  <2>1. IsFiniteSet(w.containers)
    BY WorldsAssumption
  <2>2. matches \subseteq w.containers
    BY DEF Matching
  <2> QED
    BY <2>1, <2>2, FS_Subset
<1>4. select(candidates, Only(caddies), dial).container = Only(matches)
  BY DEF select
<1>5. select(candidates, Only(caddies), dial).state = CASE matches = {} -> "UNRESOLVED"
                                                        [] Cardinality(matches) > 1 -> "AMBIGUOUS"
                                                        [] OTHER -> "RESOLVED"
  BY DEF select
<1>6. None \notin w.containers
  BY NoneAssumption
<1>7. Resolved(w, c, r, i).container # None => Resolved(w, c, r, i).state = "RESOLVED"
  BY ResolvedIsOne
<1> HIDE DEF dial, caddies, named, serving, candidates, matches
<1>8. CASE Resolved(w, c, r, i) = select(candidates, Only(caddies), dial)
  <2>1. CASE matches = {}
    BY <1>4, <1>5, <1>8, <2>1, OnlyIs, FS_EmptySet
  <2>2. CASE matches # {}
    <3>1. Cardinality(matches) \in Nat /\ Cardinality(matches) # 0
      BY <1>3, <2>2, FS_CardinalityType, FS_EmptySet
    <3>2. CASE Cardinality(matches) > 1
      <4>1. select(candidates, Only(caddies), dial).state = "AMBIGUOUS"
        BY <1>5, <2>2, <3>2
      <4> QED
        BY <1>7, <1>8, <4>1
    <3>3. CASE ~(Cardinality(matches) > 1)
      <4>1. select(candidates, Only(caddies), dial).state = "RESOLVED"
        BY <1>5, <2>2, <3>3
      <4>2. Cardinality(matches) = 1
        BY <3>1, <3>3
      <4>3. PICK x : matches = {x}
        BY <1>3, <4>2, FS_Singleton
      <4>4. Only(matches) = x /\ x # None
        BY <1>3, <1>6, <4>3, OnlyIs
      <4> QED
        BY <1>4, <1>8, <4>1, <4>4
    <3> QED
      BY <3>2, <3>3
  <2> QED
    BY <2>1, <2>2
<1>9. CASE \E state \in {"HOST_TARGET", "DYNAMIC", "UNRESOLVED"} : Resolved(w, c, r, i) = Unmatched(state)
  BY <1>1, <1>9
<1> QED
  BY <1>2, <1>8, <1>9

\* The listeners that a dial of the host may mean, and that they all belong to service s.
Dialled(listeners, dial) == {l \in listeners : l.port = dial.port /\ ~l.loopback}
OneOwner(w, o, dial, s) ==
  /\ Dialled(Heard(w, o), dial) # {}
  /\ \A l \in Dialled(Heard(w, o), dial) :
       l.key \notin o.unread /\ HasOwner(l, Found(w, o)) /\ Only(l.owners) = s.unit

\* The listeners of a discovery that a dial may mean.
LEMMA EligibleIs ==
  ASSUME NEW w \in Worlds, NEW o \in Outcomes(w), o.docker = "AVAILABLE", NEW d, d = Discovery(w, o), NEW dial
  PROVE  /\ IsFiniteSet(Eligible(dial, d.listeners.items))
         /\ \A l \in Dialled(Heard(w, o), dial) :
              \E m \in Eligible(dial, d.listeners.items) : m = Listener(l, UnitsOf(Found(w, o)), o.unread)
         /\ \A m \in Eligible(dial, d.listeners.items) :
              \E l \in Dialled(Heard(w, o), dial) : m = Listener(l, UnitsOf(Found(w, o)), o.unread)
PROOF
<1> DEFINE Made(l) == Listener(l, UnitsOf(Found(w, o)), o.unread)
<1>1. d.listeners.items = {Made(l) : l \in Heard(w, o)}
  BY DiscoveryIs DEF Listeners
<1>2. \A l : Made(l).protocol = "tcp" /\ Made(l).port = l.port /\ Made(l).loopback = l.loopback
  BY ListenerIs
<1> HIDE DEF Made
<1>3. /\ \A l \in Dialled(Heard(w, o), dial) : Made(l) \in Eligible(dial, d.listeners.items)
      /\ \A m \in Eligible(dial, d.listeners.items) : \E l \in Dialled(Heard(w, o), dial) : m = Made(l)
  BY <1>1, <1>2 DEF Dialled, Eligible
<1>4. IsFiniteSet(Eligible(dial, d.listeners.items))
  <2> DEFINE f == [l \in Dialled(Heard(w, o), dial) |-> {Made(l)}]
  <2>1. IsFiniteSet(Dialled(Heard(w, o), dial))
    <3>1. Dialled(Heard(w, o), dial) \subseteq w.listeners /\ IsFiniteSet(w.listeners)
      BY WorldsAssumption DEF Dialled, Heard
    <3> QED
      BY <3>1, FS_Subset
  <2>2. /\ f = [l \in Dialled(Heard(w, o), dial) |-> f[l]]
        /\ \A m \in Eligible(dial, d.listeners.items) : \E l \in Dialled(Heard(w, o), dial) : m \in f[l]
        /\ \A l \in Dialled(Heard(w, o), dial) : IsFiniteSet(f[l])
    BY <1>3, FS_Singleton
  <2> HIDE DEF f
  <2> QED
    BY <2>1, <2>2, FiniteCover
<1> QED
  BY <1>3, <1>4 DEF Made

\* The host resolution of a dial is a service exactly because all listeners are its own.
LEMMA HostServiceHasOneOwner ==
  ASSUME NEW w \in Worlds, NEW o \in Outcomes(w), o.docker = "AVAILABLE", NEW d, d = Discovery(w, o), NEW dial,
         resolveHost(dial, d.systemd, d.listeners).state = "HOST_SERVICE"
  PROVE  o.listeners.hidden = {} /\ \E s \in Found(w, o) : OneOwner(w, o, dial, s)
PROOF
<1> DEFINE eligible == Eligible(dial, d.listeners.items)
           services == d.systemd.services
           owners == Owners(eligible, services)
           owned == {l \in eligible : l.ownership = "SYSTEMD_SERVICE" /\ \E s \in services : s.unit = l.unit}
<1>1. \A state, ls, ss : HostTarget(state, ls, ss).state = state
  BY DEF HostTarget
<1>2. /\ d.listeners.state = "DISCOVERED" /\ eligible # {} /\ owners.services # {}
      /\ ~(owners.unresolved > 0) /\ ~(Cardinality(owners.services) > 1)
  <2>1. resolveHost(dial, d.systemd, d.listeners) =
          IF d.listeners.state = "UNKNOWN" /\ d.listeners.items = {} THEN HostTarget("HOST_TARGET", {}, {})
          ELSE IF d.listeners.state # "DISCOVERED" THEN HostTarget("HOST_PARTIAL", eligible, {})
          ELSE IF eligible = {} THEN HostTarget("HOST_TARGET", {}, {})
          ELSE IF owners.services = {} THEN HostTarget("HOST_LISTENER", eligible, {})
          ELSE IF owners.unresolved > 0 \/ Cardinality(owners.services) > 1
          THEN HostTarget("HOST_AMBIGUOUS", eligible, owners.services)
          ELSE HostTarget("HOST_SERVICE", eligible, owners.services)
    BY DEF resolveHost, Eligible
  <2> HIDE DEF eligible, owners, owned, services
  <2> QED
    BY <1>1, <2>1
<1>3. /\ owners.services = {s \in services : \E l \in owned : l.unit = s.unit}
      /\ owners.unresolved = Cardinality(eligible \ owned)
  BY DEF Owners
<1>4. services = Found(w, o) /\ d.listeners.state = o.listeners.state
  BY DiscoveryIs
<1>5. o.listeners.hidden = {}
  <2>1. o.listeners \in Listings({l.key : l \in w.listeners})
    BY OutcomeIs
  <2> QED
    BY <1>2, <1>4, <2>1, ListingIs
<1>6. IsFiniteSet(eligible)
  BY EligibleIs
<1>7. eligible \subseteq owned
  <2>1. IsFiniteSet(eligible \ owned)
    BY <1>6, FS_Subset
  <2>2. Cardinality(eligible \ owned) \in Nat
    BY <2>1, FS_CardinalityType
  <2>3. Cardinality(eligible \ owned) = 0
    BY <1>2, <1>3, <2>2
  <2>4. eligible \ owned = {}
    BY <2>1, <2>3, FS_EmptySet
  <2> QED
    BY <2>4
<1>8. PICK s : owners.services = {s}
  <2>1. IsFiniteSet(services)
    <3>1. services \subseteq w.services /\ IsFiniteSet(w.services)
      BY <1>4, WorldsAssumption DEF Found
    <3> QED
      BY <3>1, FS_Subset
  <2>2. IsFiniteSet(owners.services)
    <3>1. owners.services \subseteq services
      BY <1>3
    <3> QED
      BY <2>1, <3>1, FS_Subset
  <2>3. Cardinality(owners.services) \in Nat /\ Cardinality(owners.services) # 0
    BY <1>2, <2>2, FS_CardinalityType, FS_EmptySet
  <2>4. Cardinality(owners.services) = 1
    BY <1>2, <2>3
  <2> QED
    BY <2>2, <2>4, FS_Singleton
<1>9. s \in Found(w, o)
  BY <1>3, <1>4, <1>8
<1>10. \A m \in eligible : m.ownership = "SYSTEMD_SERVICE" /\ m.unit = s.unit
  <2> SUFFICES ASSUME NEW m \in eligible PROVE m.ownership = "SYSTEMD_SERVICE" /\ m.unit = s.unit
    OBVIOUS
  <2>1. m \in owned
    BY <1>7
  <2>2. PICK t \in services : t.unit = m.unit
    BY <2>1
  <2>3. t = s
    BY <1>3, <1>8, <2>1, <2>2
  <2> QED
    BY <2>1, <2>2, <2>3
<1> HIDE DEF eligible, owners, owned, services
<1>11. ASSUME NEW l \in Dialled(Heard(w, o), dial)
       PROVE  l.key \notin o.unread /\ HasOwner(l, Found(w, o)) /\ Only(l.owners) = s.unit
  <2>1. PICK m \in eligible : m = Listener(l, UnitsOf(Found(w, o)), o.unread)
    BY EligibleIs DEF eligible
  <2> QED
    BY <1>10, <2>1, ListenerIs
<1>12. Dialled(Heard(w, o), dial) # {}
  BY <1>2, EligibleIs DEF eligible
<1> QED
  BY <1>5, <1>9, <1>11, <1>12 DEF OneOwner

LEMMA OneOwnerIsHostService ==
  ASSUME NEW w \in Worlds, NEW o \in Outcomes(w), o.docker = "AVAILABLE", o.listeners.state = "DISCOVERED",
         NEW d, d = Discovery(w, o), NEW dial, NEW s \in Found(w, o), OneOwner(w, o, dial, s)
  PROVE  resolveHost(dial, d.systemd, d.listeners).state = "HOST_SERVICE"
PROOF
<1> DEFINE eligible == Eligible(dial, d.listeners.items)
           services == d.systemd.services
           owners == Owners(eligible, services)
           owned == {l \in eligible : l.ownership = "SYSTEMD_SERVICE" /\ \E x \in services : x.unit = l.unit}
<1>1. \A state, ls, ss : HostTarget(state, ls, ss).state = state
  BY DEF HostTarget
<1>2. services = Found(w, o) /\ d.listeners.state = "DISCOVERED"
  BY DiscoveryIs
<1>3. eligible # {}
  BY EligibleIs DEF OneOwner
<1>4. ASSUME NEW m \in eligible PROVE m \in owned /\ m.unit = s.unit
  <2>1. PICK l \in Dialled(Heard(w, o), dial) : m = Listener(l, UnitsOf(Found(w, o)), o.unread)
    BY EligibleIs
  <2>2. l.key \notin o.unread /\ HasOwner(l, Found(w, o)) /\ Only(l.owners) = s.unit
    BY DEF OneOwner
  <2>3. m.ownership = "SYSTEMD_SERVICE" /\ m.unit = s.unit
    BY <2>1, <2>2, ListenerIs
  <2> QED
    BY <1>2, <2>3
<1>5. eligible \ owned = {} /\ owned = eligible
  BY <1>4
<1>6. owners.unresolved = 0
  <2>1. owners.unresolved = Cardinality(eligible \ owned)
    BY DEF Owners
  <2> QED
    BY <1>5, <2>1, FS_EmptySet
<1>7. owners.services = {s}
  <2>1. owners.services = {x \in services : \E l \in owned : l.unit = x.unit}
    BY DEF Owners
  <2>2. \A x \in services : x.unit = s.unit => x = s
    BY <1>2, WorldsAssumption DEF Found
  <2> QED
    BY <1>2, <1>3, <1>4, <1>5, <2>1, <2>2
<1>8. ~(Cardinality(owners.services) > 1) /\ owners.services # {}
  <2>1. Cardinality(owners.services) = 1
    BY <1>7, FS_Singleton
  <2> HIDE DEF owners
  <2> QED
    BY <1>7, <2>1
<1>9. resolveHost(dial, d.systemd, d.listeners) =
        IF d.listeners.state = "UNKNOWN" /\ d.listeners.items = {} THEN HostTarget("HOST_TARGET", {}, {})
        ELSE IF d.listeners.state # "DISCOVERED" THEN HostTarget("HOST_PARTIAL", eligible, {})
        ELSE IF eligible = {} THEN HostTarget("HOST_TARGET", {}, {})
        ELSE IF owners.services = {} THEN HostTarget("HOST_LISTENER", eligible, {})
        ELSE IF owners.unresolved > 0 \/ Cardinality(owners.services) > 1
        THEN HostTarget("HOST_AMBIGUOUS", eligible, owners.services)
        ELSE HostTarget("HOST_SERVICE", eligible, owners.services)
  BY DEF resolveHost, Eligible
<1> HIDE DEF eligible, owners, owned, services
<1> QED
  BY <1>1, <1>2, <1>3, <1>6, <1>8, <1>9

\* A complete scan knows at least the owners that any other scan found.
LEMMA OneOwnerIsReal ==
  ASSUME NEW w \in Worlds, NEW o \in Outcomes(w), o.listeners.hidden = {},
         NEW dial, NEW s, OneOwner(w, o, dial, s)
  PROVE  OneOwner(w, Perfect, dial, s)
PROOF
<1>1. Heard(w, o) = Heard(w, Perfect) /\ Found(w, o) \subseteq Found(w, Perfect)
  BY PerfectSeesAll DEF Heard, Found
<1>2. \A l : HasOwner(l, Found(w, o)) => HasOwner(l, Found(w, Perfect))
  BY <1>1 DEF HasOwner, UnitsOf
<1>3. Perfect.unread = {}
  BY PerfectSeesAll
<1> QED
  BY <1>1, <1>2, <1>3 DEF OneOwner

\* The label of a route that is resolved to a container.
LEMMA NamedTarget ==
  ASSUME NEW w \in Worlds, NEW o \in Outcomes(w), o.docker = "AVAILABLE",
         NEW c \in ReadCaddies(w, o), NEW r \in c.routes, NEW i \in DOMAIN Backends(r),
         Resolved(w, c, r, i).container # None
  PROVE  \A u : u.id = UpstreamId(c, r, i) =>
           targetLabel(RouteOf(Contents[w][o], u)) = {containerId(Resolved(w, c, r, i).container.id)}
PROOF
<1> SUFFICES ASSUME NEW u, u.id = UpstreamId(c, r, i), NEW graph, graph = Contents[w][o]
             PROVE  targetLabel(RouteOf(graph, u)) = {containerId(Resolved(w, c, r, i).container.id)}
  OBVIOUS
<1>1. PICK id : id = containerId(Resolved(w, c, r, i).container.id)
  OBVIOUS
<1>2. c \in w.caddies
  BY DEF ReadCaddies
<1>3. edge(u.id, "RESOLVES_TO", id) \in graph.edges
  <2>1. RouteEdge(w, c, r, i, edge(u.id, "RESOLVES_TO", id))
    BY <1>1 DEF RouteEdge
  <2>2. ScanEdge(w, Found(w, o), Heard(w, o), ReadCaddies(w, o), o.unread, edge(u.id, "RESOLVES_TO", id))
    BY <2>1 DEF ScanEdge
  <2> QED
    BY <2>2, EdgesOfScan
<1>4. ASSUME NEW e \in graph.edges, e.relation = "RESOLVES_TO", e.source = u.id
      PROVE  e.target = id
  <2>1. PICK b \in ReadCaddies(w, o) : \E q \in b.routes : \E j \in DOMAIN Backends(q) :
          /\ Resolved(w, b, q, j).container # None
          /\ e = edge(UpstreamId(b, q, j), "RESOLVES_TO", containerId(Resolved(w, b, q, j).container.id))
    BY <1>4, ResolvingEdges
  <2>2. PICK q \in b.routes : \E j \in DOMAIN Backends(q) :
          /\ Resolved(w, b, q, j).container # None
          /\ e = edge(UpstreamId(b, q, j), "RESOLVES_TO", containerId(Resolved(w, b, q, j).container.id))
    BY <2>1
  <2>3. PICK j \in DOMAIN Backends(q) :
          /\ Resolved(w, b, q, j).container # None
          /\ e = edge(UpstreamId(b, q, j), "RESOLVES_TO", containerId(Resolved(w, b, q, j).container.id))
    BY <2>2
  <2>4. b \in w.caddies /\ UpstreamId(b, q, j) = UpstreamId(c, r, i)
    BY <1>4, <2>3, EndsAre DEF ReadCaddies
  <2>5. b = c /\ q = r /\ j = i
    BY <1>2, <2>4, UpstreamIdsAre
  <2> QED
    BY <1>1, <2>3, <2>5, EndsAre
<1>5. Targets(graph, "RESOLVES_TO", u.id) = {id}
  BY <1>3, <1>4, EndsAre DEF Targets
<1>6. id \in Ids(graph) /\ type(id) = "DOCKER_CONTAINER"
  BY <1>1, <1>3, EndsAreNodes, EndsAre, TypesAre
<1> DEFINE container == Only(Nodes(graph, {id}, type(id)))
<1>7. container # None /\ container.id = id
  <2>1. \A x \in Ids(graph) : OneNode(Nodes(graph, {x}, type(x)), x)
    BY NodeWithId
  <2> QED
    BY <1>6, <2>1 DEF OneNode
<1>8. RouteOf(graph, u).target = container
  BY <1>5, <1>6 DEF RouteOf
<1> HIDE DEF container
<1> QED
  BY <1>1, <1>7, <1>8 DEF targetLabel

LEMMA OwningEdges ==
  ASSUME NEW w \in Worlds, NEW o \in Outcomes(w), o.docker = "AVAILABLE",
         NEW e \in Contents[w][o].edges, e.relation = "OWNED_BY"
  PROVE  \E l \in Heard(w, o) : e = edge(listenerId(l.key), "OWNED_BY", serviceId(Only(l.owners)))
PROOF
<1>1. ScanEdge(w, Found(w, o), Heard(w, o), ReadCaddies(w, o), o.unread, e)
  BY EdgesOfScan
<1>2. \A h, r, t, x : DomainEdge(h, r, t, x).relation = r
  BY DEF DomainEdge
<1>3. \A c, r, i : ~RouteEdge(w, c, r, i, e) /\ ~TargetEdge(w, Heard(w, o), c, r, i, e)
  BY <1>2, EndsAre DEF RouteEdge, TargetEdge
<1>4. \E l \in Heard(w, o) : OwnerEdge(Found(w, o), l, e)
  BY <1>1, <1>3, EndsAre DEF ScanEdge, ContainerEdge, PublishedEdge, ProxyEdge
<1> QED
  BY <1>4, EndsAre DEF OwnerEdge

LEMMA TargetingEdges ==
  ASSUME NEW w \in Worlds, NEW o \in Outcomes(w), o.docker = "AVAILABLE",
         NEW e \in Contents[w][o].edges, e.relation = "TARGETS"
  PROVE  \E c \in ReadCaddies(w, o) : \E r \in c.routes : \E i \in DOMAIN Backends(r) :
           TargetEdge(w, Heard(w, o), c, r, i, e)
PROOF
<1>1. ScanEdge(w, Found(w, o), Heard(w, o), ReadCaddies(w, o), o.unread, e)
  BY EdgesOfScan
<1>2. \A h, r, t, x : DomainEdge(h, r, t, x).relation = r
  BY DEF DomainEdge
<1>3. \A c, r, i : ~RouteEdge(w, c, r, i, e)
  BY <1>2, EndsAre DEF RouteEdge
<1> QED
  BY <1>1, <1>3, EndsAre DEF ScanEdge, OwnerEdge, ContainerEdge, PublishedEdge, ProxyEdge

\* The label of a route that is resolved to a service of the host.
LeadsTo(w, o, c, r, i, s) ==
  Resolved(w, c, r, i).state = "HOST_TARGET" /\ s \in Found(w, o) /\ OneOwner(w, o, Backends(r)[i], s)

LEMMA OwnedTarget ==
  ASSUME NEW w \in Worlds, NEW o \in Outcomes(w), o.docker = "AVAILABLE"
  PROVE  \A c \in ReadCaddies(w, o) : \A r \in c.routes : \A i \in DOMAIN Backends(r) :
           \A s : LeadsTo(w, o, c, r, i, s) =>
             \A u : u.id = UpstreamId(c, r, i) =>
               targetLabel(RouteOf(Contents[w][o], u)) = {serviceId(s.unit)}
PROOF
<1> SUFFICES ASSUME NEW c \in ReadCaddies(w, o), NEW r \in c.routes, NEW i \in DOMAIN Backends(r),
                    NEW s, LeadsTo(w, o, c, r, i, s)
             PROVE  \A u : u.id = UpstreamId(c, r, i) =>
                      targetLabel(RouteOf(Contents[w][o], u)) = {serviceId(s.unit)}
  OBVIOUS
<1>0. /\ Resolved(w, c, r, i).state = "HOST_TARGET"
      /\ s \in Found(w, o) /\ OneOwner(w, o, Backends(r)[i], s)
  BY DEF LeadsTo
<1> SUFFICES ASSUME NEW u, u.id = UpstreamId(c, r, i), NEW graph, graph = Contents[w][o]
             PROVE  targetLabel(RouteOf(graph, u)) = {serviceId(s.unit)}
  OBVIOUS
<1> DEFINE dialled == Dialled(Heard(w, o), Backends(r)[i])
<1>1. c \in w.caddies /\ dialled \subseteq w.listeners /\ dialled \subseteq Heard(w, o)
  BY DEF ReadCaddies, Dialled, Heard
<1>2. \A b \in ReadCaddies(w, o) : \A q : \A j : UpstreamId(b, q, j) = u.id => b = c /\ q = r /\ j = i
  BY <1>1, UpstreamIdsAre DEF ReadCaddies
\* No container is its target.
<1>3. RouteOf(graph, u).target = None
  <2>1. Resolved(w, c, r, i).container = None
    BY <1>0, <1>1, ResolutionIs
  <2>2. \A e \in graph.edges : e.relation = "RESOLVES_TO" => e.source # u.id
    <3> SUFFICES ASSUME NEW e \in graph.edges, e.relation = "RESOLVES_TO", e.source = u.id PROVE FALSE
      OBVIOUS
    <3>1. PICK b \in ReadCaddies(w, o) : \E q \in b.routes : \E j \in DOMAIN Backends(q) :
            /\ Resolved(w, b, q, j).container # None
            /\ e = edge(UpstreamId(b, q, j), "RESOLVES_TO", containerId(Resolved(w, b, q, j).container.id))
      BY ResolvingEdges
    <3>2. PICK q \in b.routes : \E j \in DOMAIN Backends(q) :
            /\ Resolved(w, b, q, j).container # None
            /\ e = edge(UpstreamId(b, q, j), "RESOLVES_TO", containerId(Resolved(w, b, q, j).container.id))
      BY <3>1
    <3>3. PICK j \in DOMAIN Backends(q) :
            /\ Resolved(w, b, q, j).container # None
            /\ e = edge(UpstreamId(b, q, j), "RESOLVES_TO", containerId(Resolved(w, b, q, j).container.id))
      BY <3>2
    <3>4. UpstreamId(b, q, j) = u.id
      BY <3>3, EndsAre
    <3> QED
      BY <1>2, <2>1, <3>3, <3>4
  <2>3. Targets(graph, "RESOLVES_TO", u.id) = {}
    BY <2>2 DEF Targets
  <2>4. Nodes(graph, {}, "DOCKER_CONTAINER") = {}
    BY DEF Nodes
  <2> QED
    BY <2>3, <2>4, OnlyIs DEF RouteOf
\* Its listeners are those that are dialled.
<1>4. ASSUME NEW l \in dialled
      PROVE  edge(u.id, "TARGETS", listenerId(l.key)) \in graph.edges
  <2>1. TargetEdge(w, Heard(w, o), c, r, i, edge(u.id, "TARGETS", listenerId(l.key)))
    BY <1>0, <1>4 DEF TargetEdge, Dialled
  <2>2. ScanEdge(w, Found(w, o), Heard(w, o), ReadCaddies(w, o), o.unread, edge(u.id, "TARGETS", listenerId(l.key)))
    BY <2>1 DEF ScanEdge
  <2> QED
    BY <2>2, EdgesOfScan
<1>5. ASSUME NEW e \in graph.edges, e.relation = "TARGETS", e.source = u.id
      PROVE  \E l \in dialled : e.target = listenerId(l.key)
  <2>1. PICK b \in ReadCaddies(w, o) : \E q \in b.routes : \E j \in DOMAIN Backends(q) :
          TargetEdge(w, Heard(w, o), b, q, j, e)
    BY <1>5, TargetingEdges
  <2>2. PICK q \in b.routes : \E j \in DOMAIN Backends(q) : TargetEdge(w, Heard(w, o), b, q, j, e)
    BY <2>1
  <2>3. PICK j \in DOMAIN Backends(q) : TargetEdge(w, Heard(w, o), b, q, j, e)
    BY <2>2
  <2>4. UpstreamId(b, q, j) = u.id
    BY <1>5, <2>3, EndsAre DEF TargetEdge
  <2>5. TargetEdge(w, Heard(w, o), c, r, i, e)
    BY <1>2, <2>3, <2>4
  <2> QED
    BY <2>5, EndsAre DEF TargetEdge, Dialled
\* Each of them has one owner, the service.
<1>6. ASSUME NEW l \in dialled
      PROVE  edge(listenerId(l.key), "OWNED_BY", serviceId(s.unit)) \in graph.edges
  <2>1. l.key \notin o.unread /\ HasOwner(l, Found(w, o)) /\ Only(l.owners) = s.unit
    BY <1>0, <1>6 DEF OneOwner
  <2>2. OwnerEdge(Found(w, o), l, edge(listenerId(l.key), "OWNED_BY", serviceId(s.unit)))
    BY <1>0, <2>1 DEF OwnerEdge
  <2>3. ScanEdge(w, Found(w, o), Heard(w, o), ReadCaddies(w, o), o.unread,
                 edge(listenerId(l.key), "OWNED_BY", serviceId(s.unit)))
    BY <1>1, <2>1, <2>2 DEF ScanEdge
  <2> QED
    BY <2>3, EdgesOfScan
<1>7. ASSUME NEW l \in dialled, NEW e \in graph.edges, e.relation = "OWNED_BY", e.source = listenerId(l.key)
      PROVE  e.target = serviceId(s.unit)
  <2>1. PICK m \in Heard(w, o) : e = edge(listenerId(m.key), "OWNED_BY", serviceId(Only(m.owners)))
    BY <1>7, OwningEdges
  <2>2. m = l
    <3>1. m.key = l.key
      BY <1>7, <2>1, EndsAre, IdsAreInjective
    <3> QED
      BY <1>1, <3>1, WorldsAssumption DEF Heard
  <2>3. Only(l.owners) = s.unit
    BY <1>0 DEF OneOwner
  <2> QED
    BY <2>1, <2>2, <2>3, EndsAre
<1>8. PICK id : id = serviceId(s.unit)
  OBVIOUS
<1>9. PICK l0 \in dialled : TRUE
  BY <1>0 DEF OneOwner
<1>10. id \in Ids(graph) /\ type(id) = "SYSTEMD_SERVICE"
  BY <1>6, <1>8, <1>9, EndsAreNodes, EndsAre, TypesAre
<1> DEFINE hostListeners == Nodes(graph, Targets(graph, "TARGETS", u.id), "HOST_LISTENER")
           OwnersOf(n) == Nodes(graph, Targets(graph, "OWNED_BY", n.id), "SYSTEMD_SERVICE")
           service == Only(Nodes(graph, {id}, type(id)))
<1>11. service.id = id /\ service # None /\ Nodes(graph, {id}, type(id)) = {service}
  <2>1. \A x \in Ids(graph) : OneNode(Nodes(graph, {x}, type(x)), x)
    BY NodeWithId
  <2> QED
    BY <1>10, <2>1 DEF OneNode
<1>12. ASSUME NEW n \in hostListeners PROVE OwnersOf(n) = {service}
  <2>1. PICK l \in dialled : n.id = listenerId(l.key)
    BY <1>5 DEF Nodes, Targets
  <2>2. Targets(graph, "OWNED_BY", n.id) = {id}
    BY <1>6, <1>7, <1>8, <2>1, EndsAre DEF Targets
  <2> QED
    BY <1>10, <1>11, <2>2
<1>13. \E n \in hostListeners : TRUE
  <2>1. listenerId(l0.key) \in Targets(graph, "TARGETS", u.id)
    BY <1>4, <1>9, EndsAre DEF Targets
  <2>2. listenerId(l0.key) \in Ids(graph)
    BY <1>4, <1>9, EndsAreNodes, EndsAre
  <2>3. PICK n \in graph.nodes : n.id = listenerId(l0.key)
    BY <2>2 DEF Ids
  <2> QED
    BY <2>1, <2>3, TypesAre DEF Nodes
<1> HIDE DEF hostListeners, OwnersOf, service, dialled
<1>14. UNION {OwnersOf(n) : n \in hostListeners} = {service}
  BY <1>12, <1>13
<1>15. RouteOf(graph, u).hostService = Only(UNION {OwnersOf(n) : n \in hostListeners})
  BY DEF RouteOf, hostListeners, OwnersOf
<1>16. RouteOf(graph, u).hostService = service
  BY <1>14, <1>15, OnlyIs
<1> QED
  BY <1>3, <1>8, <1>11, <1>16 DEF targetLabel

\* What a row shows of an upstream is the resolution of its hop.
LEMMA ShownIs ==
  ASSUME NEW w \in Worlds, NEW o \in Outcomes(w), o.docker = "AVAILABLE", NEW d, d = Discovery(w, o),
         NEW c, NEW r, NEW i, NEW u, IsUpstream(d, c, r, i, u), NEW graph
  PROVE  /\ RouteOf(graph, u).upstream = u
         /\ Resolved(w, c, r, i).state # "HOST_TARGET" =>
              shownResolution(RouteOf(graph, u)) = Resolved(w, c, r, i).state
         /\ Resolved(w, c, r, i).state = "HOST_TARGET" =>
              LET state == resolveHost(Backends(r)[i], d.systemd, d.listeners).state
              IN  shownResolution(RouteOf(graph, u)) = IF state = None THEN "HOST_TARGET" ELSE state
PROOF
<1>1. d.containers = w.containers
  BY DiscoveryIs
<1>2. RouteOf(graph, u).upstream = u
  BY DEF RouteOf
<1>3. HostTarget(None, {}, {}).state = None
  BY DEF HostTarget
<1>4. /\ Hop(d, c, r, i).resolution = Resolved(w, c, r, i)
      /\ Hop(d, c, r, i).host = IF Resolved(w, c, r, i).state = "HOST_TARGET"
                                THEN resolveHost(Backends(r)[i], d.systemd, d.listeners)
                                ELSE HostTarget(None, {}, {})
  BY <1>1 DEF Hop, Resolved
<1>5. shownResolution(RouteOf(graph, u)) =
        IF Hop(d, c, r, i).host.state = None THEN Resolved(w, c, r, i).state ELSE Hop(d, c, r, i).host.state
  BY <1>2, <1>4 DEF shownResolution, IsUpstream
<1> QED
  BY <1>2, <1>3, <1>4, <1>5

\* The states that the host resolution can have.
LEMMA HostStates ==
  ASSUME NEW dial, NEW systemd, NEW discovery
  PROVE  resolveHost(dial, systemd, discovery).state \in
           {"HOST_TARGET", "HOST_PARTIAL", "HOST_LISTENER", "HOST_AMBIGUOUS", "HOST_SERVICE"}
PROOF
<1>1. \A state, ls, ss : HostTarget(state, ls, ss).state = state
  BY DEF HostTarget
<1>2. \E state \in {"HOST_TARGET", "HOST_PARTIAL", "HOST_LISTENER", "HOST_AMBIGUOUS", "HOST_SERVICE"} :
        \E ls, ss : resolveHost(dial, systemd, discovery) = HostTarget(state, ls, ss)
  BY DEF resolveHost
<1> QED
  BY <1>1, <1>2

LEMMA ServiceLabel ==
  ASSUME NEW w \in Worlds, NEW o \in Outcomes(w), o.docker = "AVAILABLE",
         NEW c \in ReadCaddies(w, o), NEW r \in c.routes, NEW i \in DOMAIN Backends(r),
         NEW s, LeadsTo(w, o, c, r, i, s), NEW u, u.id = UpstreamId(c, r, i)
  PROVE  targetLabel(RouteOf(Contents[w][o], u)) = {serviceId(s.unit)}
PROOF
<1>1. \A b \in ReadCaddies(w, o) : \A q \in b.routes : \A j \in DOMAIN Backends(q) :
        \A t : LeadsTo(w, o, b, q, j, t) =>
             \A v : v.id = UpstreamId(b, q, j) =>
               targetLabel(RouteOf(Contents[w][o], v)) = {serviceId(t.unit)}
  BY OwnedTarget
<1>2. \A q \in c.routes : \A j \in DOMAIN Backends(q) :
        \A t : LeadsTo(w, o, c, q, j, t) =>
             \A v : v.id = UpstreamId(c, q, j) =>
               targetLabel(RouteOf(Contents[w][o], v)) = {serviceId(t.unit)}
  BY <1>1
<1>3. \A j \in DOMAIN Backends(r) :
        \A t : LeadsTo(w, o, c, r, j, t) =>
             \A v : v.id = UpstreamId(c, r, j) =>
               targetLabel(RouteOf(Contents[w][o], v)) = {serviceId(t.unit)}
  BY <1>2
<1>4. \A t : LeadsTo(w, o, c, r, i, t) =>
             \A v : v.id = UpstreamId(c, r, i) =>
               targetLabel(RouteOf(Contents[w][o], v)) = {serviceId(t.unit)}
  BY <1>3
<1> QED
  BY <1>4

LEMMA ContainerLabel ==
  ASSUME NEW w \in Worlds, NEW o \in Outcomes(w), o.docker = "AVAILABLE",
         NEW c \in ReadCaddies(w, o), NEW r \in c.routes, NEW i \in DOMAIN Backends(r),
         Resolved(w, c, r, i).container # None, NEW u, u.id = UpstreamId(c, r, i)
  PROVE  targetLabel(RouteOf(Contents[w][o], u)) = {containerId(Resolved(w, c, r, i).container.id)}
PROOF
<1>1. \A b \in ReadCaddies(w, o) : \A q \in b.routes : \A j \in DOMAIN Backends(q) :
        Resolved(w, b, q, j).container # None =>
          \A v : v.id = UpstreamId(b, q, j) =>
            targetLabel(RouteOf(Contents[w][o], v)) = {containerId(Resolved(w, b, q, j).container.id)}
  BY NamedTarget
<1>2. \A q \in c.routes : \A j \in DOMAIN Backends(q) :
        Resolved(w, c, q, j).container # None =>
          \A v : v.id = UpstreamId(c, q, j) =>
            targetLabel(RouteOf(Contents[w][o], v)) = {containerId(Resolved(w, c, q, j).container.id)}
  BY <1>1
<1>3. \A j \in DOMAIN Backends(r) :
        Resolved(w, c, r, j).container # None =>
          \A v : v.id = UpstreamId(c, r, j) =>
            targetLabel(RouteOf(Contents[w][o], v)) = {containerId(Resolved(w, c, r, j).container.id)}
  BY <1>2
<1>4. \A v : v.id = UpstreamId(c, r, i) =>
            targetLabel(RouteOf(Contents[w][o], v)) = {containerId(Resolved(w, c, r, i).container.id)}
  BY <1>3
<1> QED
  BY <1>4

\* A route that is shown as resolved leads where a complete scan finds that it leads.
RouteIsReal(w, x) ==
  \E y \in Routes[w][Perfect] :
    /\ y.upstream.id = x.upstream.id /\ shownResolution(y) = shownResolution(x)
    /\ Cardinality(targetLabel(x)) = 1 /\ targetLabel(y) = targetLabel(x)

LEMMA RoutesOfScan ==
  ASSUME NEW w \in Worlds, NEW o \in Outcomes(w)
  PROVE  Routes[w][o] = {RouteOf(Contents[w][o], u) : u \in OfType(Contents[w][o], "UPSTREAM")}
BY DEF Routes, resourceModel

LEMMA ResolvedRoutes ==
  ASSUME NEW w \in Worlds, NEW o \in Outcomes(w), NEW x \in Routes[w][o],
         shownResolution(x) \in {"RESOLVED", "HOST_SERVICE"}
  PROVE  RouteIsReal(w, x)
PROOF
<1>1. PICK graph, real, d, p : /\ graph = Contents[w][o] /\ real = Contents[w][Perfect]
                               /\ d = Discovery(w, o) /\ p = Discovery(w, Perfect)
  OBVIOUS
<1>2. PICK u \in OfType(graph, "UPSTREAM") : x = RouteOf(graph, u)
  BY <1>1, RoutesOfScan
<1>3. o.docker = "AVAILABLE"
  BY <1>1, UpstreamNodes
<1>4. PICK c \in ReadCaddies(w, o) : \E r \in c.routes : \E i \in DOMAIN Backends(r) : IsUpstream(d, c, r, i, u)
  BY <1>1, UpstreamNodes
<1>5. PICK r \in c.routes : \E i \in DOMAIN Backends(r) : IsUpstream(d, c, r, i, u)
  BY <1>4
<1>6. PICK i \in DOMAIN Backends(r) : IsUpstream(d, c, r, i, u)
  BY <1>5
<1>7. /\ Perfect \in Outcomes(w) /\ Perfect.docker = "AVAILABLE" /\ Perfect.unreadable = {}
      /\ Perfect.unread = {} /\ Found(w, Perfect) = w.services
  BY PerfectOutcome, PerfectSeesAll
<1>8. Perfect.listeners.state = "DISCOVERED"
  BY DEF Perfect, Outcome
<1>9. c \in w.caddies /\ c \in ReadCaddies(w, Perfect)
  BY <1>7 DEF ReadCaddies
<1>10. PICK v \in OfType(real, "UPSTREAM") : IsUpstream(p, c, r, i, v)
  BY <1>1, <1>7, <1>9, UpstreamNodes
<1>11. PICK y : y = RouteOf(real, v)
  OBVIOUS
<1>12. y \in Routes[w][Perfect]
  BY <1>1, <1>7, <1>10, <1>11, RoutesOfScan
<1>13. u.id = UpstreamId(c, r, i) /\ v.id = UpstreamId(c, r, i) /\ x.upstream = u /\ y.upstream = v
  BY <1>2, <1>6, <1>10, <1>11 DEF IsUpstream, RouteOf
<1>14. PICK dial, state : dial = Backends(r)[i] /\ state = Resolved(w, c, r, i).state
  OBVIOUS
<1>15. /\ state # "HOST_TARGET" => shownResolution(x) = state /\ shownResolution(y) = state
       /\ state = "HOST_TARGET" =>
            LET found == resolveHost(dial, d.systemd, d.listeners).state
            IN  shownResolution(x) = IF found = None THEN "HOST_TARGET" ELSE found
       /\ state = "HOST_TARGET" =>
            LET found == resolveHost(dial, p.systemd, p.listeners).state
            IN  shownResolution(y) = IF found = None THEN "HOST_TARGET" ELSE found
  BY <1>1, <1>2, <1>3, <1>6, <1>7, <1>10, <1>11, <1>14, ShownIs
<1>16. state \in {"HOST_TARGET", "DYNAMIC", "UNRESOLVED", "AMBIGUOUS", "RESOLVED"}
  BY <1>9, <1>14, ResolutionIs
<1>17. CASE state = "RESOLVED"
  <2>1. Resolved(w, c, r, i).container # None
    BY <1>9, <1>14, <1>17, ResolutionIs
  <2>2. PICK id : id = containerId(Resolved(w, c, r, i).container.id)
    OBVIOUS
  <2>3. targetLabel(x) = {id}
    <3>1. targetLabel(RouteOf(Contents[w][o], u)) = {containerId(Resolved(w, c, r, i).container.id)}
      <4>1. u.id = UpstreamId(c, r, i)
        BY <1>13
      <4> QED
        BY <1>3, <2>1, <4>1, ContainerLabel, SMTT(20)
    <3> QED
      BY <1>1, <1>2, <2>2, <3>1
  <2>4. targetLabel(y) = {id}
    <3>1. targetLabel(RouteOf(Contents[w][Perfect], v)) = {containerId(Resolved(w, c, r, i).container.id)}
      <4>1. PICK q \in Outcomes(w) : q = Perfect
        BY <1>7
      <4>2. q.docker = "AVAILABLE" /\ c \in ReadCaddies(w, q)
        BY <1>7, <1>9, <4>1
      <4>3. v.id = UpstreamId(c, r, i)
        BY <1>13
      <4>4. targetLabel(RouteOf(Contents[w][q], v)) = {containerId(Resolved(w, c, r, i).container.id)}
        BY <2>1, <4>2, <4>3, ContainerLabel
      <4> QED
        BY <4>1, <4>4
    <3> QED
      BY <1>1, <1>11, <2>2, <3>1
  <2>5. Cardinality(targetLabel(x)) = 1
    BY <2>3, FS_Singleton
  <2> QED
    BY <1>12, <1>13, <1>15, <1>17, <2>3, <2>4, <2>5 DEF RouteIsReal
<1>18. CASE state = "HOST_TARGET"
  <2>1. resolveHost(dial, d.systemd, d.listeners).state = "HOST_SERVICE" /\ "HOST_SERVICE" # None
    BY <1>15, <1>18, HostStates
  <2>2. PICK s \in Found(w, o) : o.listeners.hidden = {} /\ OneOwner(w, o, dial, s)
    BY <1>1, <1>3, <2>1, HostServiceHasOneOwner
  <2>3. s \in Found(w, Perfect) /\ OneOwner(w, Perfect, dial, s)
    BY <1>7, <2>2, OneOwnerIsReal DEF Found
  <2>4. resolveHost(dial, p.systemd, p.listeners).state = "HOST_SERVICE"
    BY <1>1, <1>7, <1>8, <2>3, OneOwnerIsHostService
  <2>5. shownResolution(x) = "HOST_SERVICE" /\ shownResolution(y) = "HOST_SERVICE"
    BY <1>15, <1>18, <2>1, <2>4
  <2>6. PICK id : id = serviceId(s.unit)
    OBVIOUS
  <2>7. targetLabel(x) = {id}
    <3>1. LeadsTo(w, o, c, r, i, s)
      BY <1>14, <1>18, <2>2 DEF LeadsTo
    <3>2. u.id = UpstreamId(c, r, i)
      BY <1>13
    <3>3. targetLabel(RouteOf(Contents[w][o], u)) = {serviceId(s.unit)}
      BY <1>3, <3>1, <3>2, ServiceLabel, SMTT(20)
    <3> QED
      BY <1>1, <1>2, <2>6, <3>3
  <2>8. targetLabel(y) = {id}
    <3>1. LeadsTo(w, Perfect, c, r, i, s)
      BY <1>14, <1>18, <2>3 DEF LeadsTo
    <3>2. PICK q \in Outcomes(w) : q = Perfect
      BY <1>7
    <3>3. LeadsTo(w, q, c, r, i, s) /\ q.docker = "AVAILABLE" /\ c \in ReadCaddies(w, q)
      BY <1>7, <1>9, <1>13, <3>1, <3>2
    <3>4. v.id = UpstreamId(c, r, i)
      BY <1>13
    <3>5. targetLabel(RouteOf(Contents[w][q], v)) = {serviceId(s.unit)}
      BY <3>3, <3>4, ServiceLabel
    <3>6. targetLabel(RouteOf(Contents[w][Perfect], v)) = {serviceId(s.unit)}
      BY <3>2, <3>5
    <3> QED
      BY <1>1, <1>11, <2>6, <3>6
  <2>9. Cardinality(targetLabel(x)) = 1
    BY <2>7, FS_Singleton
  <2> QED
    BY <1>12, <1>13, <2>5, <2>7, <2>8, <2>9 DEF RouteIsReal
<1>19. state \in {"RESOLVED", "HOST_TARGET"}
  BY <1>15, <1>16
<1> QED
  BY <1>17, <1>18, <1>19

\* What the row of a route names is behind its upstream in the graph, and what is
\* behind an upstream in the graph of a scan is behind it in a complete scan's.
LEMMA NamedIsBehind ==
  ASSUME NEW graph, NEW u
  PROVE  targetLabel(RouteOf(graph, u)) \subseteq LeadingTo(graph, u.id)
PROOF
<1> DEFINE listeners == Nodes(graph, Targets(graph, "TARGETS", u.id), "HOST_LISTENER")
           owners == UNION {Nodes(graph, Targets(graph, "OWNED_BY", l.id), "SYSTEMD_SERVICE") : l \in listeners}
           containers == Nodes(graph, Targets(graph, "RESOLVES_TO", u.id), "DOCKER_CONTAINER")
           route == RouteOf(graph, u)
<1>1. /\ route.hostListeners = listeners /\ route.hostService = Only(owners)
      /\ route.target = Only(containers)
  BY DEF RouteOf
<1>2. ASSUME NEW S, Only(S) # None PROVE Only(S) \in S
  <2>1. Cardinality(S) = 1
    BY <1>2 DEF Only
  <2>2. S # {}
    BY <2>1, FS_EmptySet
  <2> QED
    BY <2>1, <2>2 DEF Only
<1>3. \A l \in listeners : l.id \in Targets(graph, "TARGETS", u.id)
  BY DEF Nodes
<1>4. \A s \in owners : \E l \in listeners : s.id \in Targets(graph, "OWNED_BY", l.id)
  BY DEF Nodes
<1>5. \A c \in containers : c.id \in Targets(graph, "RESOLVES_TO", u.id)
  BY DEF Nodes
<1> HIDE DEF listeners, owners, containers, route
<1>6. CASE route.target # None
  <2>1. targetLabel(route) = {route.target.id}
    BY <1>6 DEF targetLabel
  <2> QED
    BY <1>1, <1>2, <1>5, <1>6, <2>1 DEF LeadingTo, route
<1>7. CASE route.target = None /\ route.hostService # None
  <2>1. targetLabel(route) = {route.hostService.id}
    BY <1>7 DEF targetLabel
  <2>2. route.hostService \in owners
    BY <1>1, <1>2, <1>7
  <2>3. PICK l \in listeners : route.hostService.id \in Targets(graph, "OWNED_BY", l.id)
    BY <1>4, <2>2
  <2> QED
    BY <1>3, <2>1, <2>3 DEF LeadingTo, route
<1>8. CASE route.target = None /\ route.hostService = None
  <2>1. targetLabel(route) = {l.id : l \in route.hostListeners}
    BY <1>8 DEF targetLabel
  <2> QED
    BY <1>1, <1>3, <2>1 DEF LeadingTo, route
<1> QED
  BY <1>6, <1>7, <1>8 DEF route

LEMMA BehindIsReal ==
  ASSUME NEW w \in Worlds, NEW o \in Outcomes(w), NEW id
  PROVE  LeadingTo(Contents[w][o], id) \subseteq LeadingTo(Contents[w][Perfect], id)
PROOF
<1>1. ASSUME NEW relation, NEW x
      PROVE  Targets(Contents[w][o], relation, x) \subseteq Targets(Contents[w][Perfect], relation, x)
  BY FoundEdgeIsReal DEF Targets
<1> QED
  BY <1>1 DEF LeadingTo

\* A route that the routing page shows as resolved names the container or service
\* that a complete scan shows there, and any other row none that a complete scan
\* does not find behind its upstream: a route whose listeners or owners were not
\* all found is never shown as resolved.
THEOREM RouteTargets == Spec => []RouteTargetIsReal
PROOF
<1>1. EvidenceIInv => RouteTargetIsReal
  <2> SUFFICES ASSUME EvidenceIInv, current # None, NEW x \in Routes[current.world][current.outcome]
               PROVE  /\ targetLabel(x) \subseteq LeadingTo(Real(current), x.upstream.id)
                      /\ shownResolution(x) \in {"RESOLVED", "HOST_SERVICE"} => RouteIsReal(current.world, x)
    BY DEF RouteTargetIsReal, RouteIsReal
  <2>1. PICK w \in Worlds : w = current.world
    BY SnapshotIs DEF EvidenceIInv
  <2>2. PICK o \in Outcomes(w) : o = current.outcome
    BY <2>1, SnapshotIs DEF EvidenceIInv
  <2>3. targetLabel(x) \subseteq LeadingTo(Real(current), x.upstream.id)
    <3>1. PICK u \in OfType(Contents[w][o], "UPSTREAM") : x = RouteOf(Contents[w][o], u)
      BY <2>1, <2>2, RoutesOfScan
    <3>2. x.upstream = u
      BY <3>1 DEF RouteOf
    <3>3. targetLabel(x) \subseteq LeadingTo(Contents[w][o], u.id)
      BY <3>1, NamedIsBehind
    <3> QED
      BY <2>1, <3>2, <3>3, BehindIsReal DEF Real
  <2>4. shownResolution(x) \in {"RESOLVED", "HOST_SERVICE"} => RouteIsReal(current.world, x)
    BY <2>1, <2>2, ResolvedRoutes
  <2> QED
    BY <2>3, <2>4
<1> QED
  BY <1>1, EvidenceCorrect, PTL
=============================================================================
