--------------------------- MODULE HostDockerGraph ---------------------------
(***************************************************************************)
(* HostDockerGraphFactory.create, the graph of one scan, and               *)
(* SnapshotProjection.content, what a snapshot keeps of it.                *)
(*                                                                         *)
(* A discovery is [docker, containers, caddy, systemd, listeners].  A node *)
(* is [id, label, metadata]; its id is a tuple that starts with its type.  *)
(* An edge is its own id: the route is part of the id of a domain's edges. *)
(* Of the metadata the model keeps what depends on more than the resource  *)
(* itself, and each state that the diff or the pages read; None is a key   *)
(* that is not put.                                                        *)
(***************************************************************************)
EXTENDS Resolvers, Sequences

serverId == <<"SERVER">>
engineId == <<"DOCKER_ENGINE">>
projectId(project) == <<"DOCKER_COMPOSE_PROJECT", project>>
containerId(id) == <<"DOCKER_CONTAINER", id>>
portId(id, p) == <<"PORT", id, p>>
mountId(id, mount) == <<"MOUNT", id, mount>>
networkId(network) == <<"NETWORK", network>>
serviceId(unit) == <<"SYSTEMD_SERVICE", unit>>
listenerId(key) == <<"HOST_LISTENER", key>>
proxyId(id) == <<"REVERSE_PROXY", id>>
domainId(host) == <<"DOMAIN", host>>

type(id) == id[1]
node(id, label, metadata) == [id |-> id, label |-> label, metadata |-> metadata]
edge(source, relation, target) ==
  [source |-> source, relation |-> relation, target |-> target, route |-> None]
OrNone(S) == IF S = {} THEN None ELSE S

(* The server, the engine and the host's own resources. *)

HostNodes(d) ==
  {node(serverId, "server", [systemd_discovery_status |-> d.systemd.state,
                             listener_discovery_status |-> d.listeners.state]),
   node(engineId, IF d.docker = "AVAILABLE" THEN "Docker" ELSE "Docker unavailable",
        [docker_discovery_state |-> d.docker, caddy_discovery_state |-> d.caddy.state])}
  \cup {node(serviceId(s.unit), s.unit,
             [active_state |-> s.active,
              listener_count |-> Cardinality({l \in d.listeners.items :
                                    l.ownership = "SYSTEMD_SERVICE" /\ l.unit = s.unit})])
        : s \in d.systemd.services}
  \cup {node(listenerId(l.key), l.key, [ownership_state |-> l.ownership, systemd_unit |-> l.unit])
        : l \in d.listeners.items}

Owned(d) == {l \in d.listeners.items : /\ l.ownership = "SYSTEMD_SERVICE"
                                       /\ \E s \in d.systemd.services : s.unit = l.unit}
HostEdges(d) ==
  {edge(serverId, "RUNS", engineId)}
  \cup {edge(serverId, "RUNS", serviceId(s.unit)) : s \in d.systemd.services}
  \cup {edge(serverId, "CONTAINS", listenerId(l.key)) : l \in d.listeners.items}
  \cup {edge(serviceId(l.unit), "LISTENS_ON", listenerId(l.key)) : l \in Owned(d)}
  \cup {edge(listenerId(l.key), "OWNED_BY", serviceId(l.unit)) : l \in Owned(d)}

(* Docker: projects, containers, ports, mounts and networks. *)

Projects(d) == {c.project : c \in d.containers} \ {None}
Networks(d) == UNION {c.networks : c \in d.containers}
Ports(d) == UNION {{<<c.id, p>> : p \in c.ports} : c \in d.containers}
Mounts(d) == UNION {{<<c.id, mount>> : mount \in c.mounts} : c \in d.containers}

DockerNodes(d) ==
  {node(projectId(p), p, [container_count |-> Cardinality({c \in d.containers : c.project = p})])
     : p \in Projects(d)}
  \cup {node(containerId(c.id), c.name, [state |-> c.state, compose_project |-> c.project])
          : c \in d.containers}
  \cup {node(portId(p[1], p[2]), "port", [host_binding |-> p[2].binding]) : p \in Ports(d)}
  \cup {node(mountId(v[1], v[2]), v[2], [destination |-> v[2]]) : v \in Mounts(d)}
  \cup {node(networkId(n), n,
             [connected_containers |-> {c.name : c \in {x \in d.containers : n \in x.networks}}])
          : n \in Networks(d)}

\* appendPublishedListenerCorrelations: the port published as listener l, if only one is.
PublishedAs(d, l) ==
  LET ports == {p \in Ports(d) : p[2].binding = l.key}
  IN  IF Cardinality(ports) = 1 THEN ports ELSE {}

DockerEdges(d) ==
  {edge(engineId, "CONTAINS", projectId(p)) : p \in Projects(d)}
  \cup {IF c.project = None THEN edge(engineId, "RUNS", containerId(c.id))
        ELSE edge(projectId(c.project), "CONTAINS", containerId(c.id)) : c \in d.containers}
  \cup {edge(containerId(p[1]), "EXPOSES", portId(p[1], p[2])) : p \in Ports(d)}
  \cup {edge(containerId(v[1]), "MOUNTS", mountId(v[1], v[2])) : v \in Mounts(d)}
  \cup (UNION {{edge(containerId(c.id), "CONNECTED_TO", networkId(n)) : n \in c.networks}
               : c \in d.containers})
  \cup (UNION {{edge(portId(p[1], p[2]), "PUBLISHED_AS", listenerId(l.key)) : p \in PublishedAs(d, l)}
               : l \in d.listeners.items})

(* Caddy: one hop per upstream of a route of an instance. *)

NoDial(kind) == [kind |-> kind, host |-> None, port |-> 0]
Backends(route) ==
  LET found == route.upstreams \o (IF route.dynamic THEN <<NoDial("DYNAMIC")>> ELSE <<>>)
  IN  IF found = <<>> THEN <<NoDial("NONE")>> ELSE found

Hop(d, instance, route, i) ==
  LET dial == Backends(route)[i]
      resolution == resolve(instance, dial, d.containers)
      host == IF resolution.state = "HOST_TARGET" THEN resolveHost(dial, d.systemd, d.listeners)
              ELSE HostTarget(None, {}, {})
  IN  [id |-> <<"UPSTREAM", instance.container, route, i>>,
       proxy |-> proxyId(instance.container),
       route |-> <<instance.container, route>>, hosts |-> route.hosts,
       dial |-> dial, resolution |-> resolution, host |-> host,
       result |-> IF host.state = None THEN resolution.state ELSE host.state]

Hops(d) ==
  UNION {UNION {{Hop(d, c, r, i) : i \in DOMAIN Backends(r)} : r \in c.routes}
         : c \in d.caddy.instances}

summarizedResolution(results) ==
  IF Cardinality(results) = 1 THEN Only(results)
  ELSE IF "AMBIGUOUS" \in results THEN "AMBIGUOUS"
  ELSE IF "UNRESOLVED" \in results THEN "UNRESOLVED" ELSE "MIXED"

DomainNode(host, hops) ==
  LET mine == {h \in hops : host \in h.hosts}
  IN  node(domainId(host), host,
           [resolution |-> summarizedResolution({h.result : h \in mine}),
            route_count |-> Cardinality({h.route : h \in mine}),
            resolved_containers |->
              OrNone({h.resolution.container.name : h \in {x \in mine : x.resolution.container # None}}),
            resolved_host_services |->
              OrNone({h.host.service.unit : h \in {x \in mine : x.host.service # None}})])

CaddyNodes(d, hops) ==
  {node(proxyId(c.container), c.name, [route_count |-> Cardinality(c.routes)])
     : c \in d.caddy.instances}
  \cup {node(h.id, h.dial.kind,
             [resolution |-> h.resolution.state, host_resolution |-> h.host.state,
              host_service |-> IF h.host.service = None THEN None ELSE h.host.service.unit])
          : h \in hops}
  \cup {DomainNode(host, hops) : host \in UNION {h.hosts : h \in hops}}

DomainEdge(host, relation, target, route) ==
  [source |-> domainId(host), relation |-> relation, target |-> target, route |-> route]
CaddyEdges(d, hops) ==
  {edge(containerId(c.container), "RUNS", proxyId(c.container))
     : c \in {x \in d.caddy.instances : \E k \in d.containers : k.id = x.container}}
  \cup {edge(h.proxy, "PROXIES_TO", h.id) : h \in hops}
  \cup {edge(h.id, "RESOLVES_TO", containerId(h.resolution.container.id))
          : h \in {x \in hops : x.resolution.container # None}}
  \cup (UNION {{edge(h.id, "TARGETS", listenerId(l.key)) : l \in h.host.listeners} : h \in hops})
  \cup (UNION {UNION {{DomainEdge(host, "ROUTES_THROUGH", h.proxy, h.route),
                       DomainEdge(host, "ROUTES_TO", h.id, h.route)} : host \in h.hosts} : h \in hops})

create(d) ==
  LET hops == Hops(d)
  IN  IF d.docker # "AVAILABLE" THEN [nodes |-> HostNodes(d), edges |-> HostEdges(d)]
      ELSE [nodes |-> HostNodes(d) \cup DockerNodes(d) \cup CaddyNodes(d, hops),
            edges |-> HostEdges(d) \cup DockerEdges(d) \cup CaddyEdges(d, hops)]

(* SnapshotProjection.content: the fingerprint of a snapshot is its content. *)

metadataOf(graph, id) == (CHOOSE n \in graph.nodes : n.id = id).metadata
discoveryQuality(graph) ==
  LET server == metadataOf(graph, serverId)
      docker == metadataOf(graph, engineId)
  IN  [CADDY |-> docker.caddy_discovery_state, DOCKER |-> docker.docker_discovery_state,
       HOST_LISTENERS |-> server.listener_discovery_status,
       SYSTEMD |-> server.systemd_discovery_status]
content(graph) ==
  [nodes |-> graph.nodes, edges |-> graph.edges, quality |-> discoveryQuality(graph)]
=============================================================================
