---------------------------- MODULE ResourceModel ----------------------------
(***************************************************************************)
(* What the pages list of a graph: resource-model.ts, the pages of App.tsx *)
(* and the sentences of ui-state.ts for lists that are empty.              *)
(*                                                                         *)
(* Lists are sets; a handler that takes the first element of one takes any *)
(* of them.  Where the code takes the first edge that fits, the graph has  *)
(* at most one.                                                            *)
(***************************************************************************)
EXTENDS HostDockerGraph

PrimarySections == {"OVERVIEW", "APPLICATIONS", "SERVICES", "ROUTING", "NETWORK", "STORAGE", "CHANGES"}
NetworkSubsections == {"NETWORKS", "PORTS", "LISTENERS"}
NodeTypes == {"SERVER", "REVERSE_PROXY", "DOMAIN", "UPSTREAM", "DOCKER_ENGINE", "DOCKER_COMPOSE_PROJECT",
              "DOCKER_CONTAINER", "NETWORK", "MOUNT", "DIRECTORY", "PORT", "SYSTEMD_SERVICE", "HOST_LISTENER"}

OfType(graph, t) == {n \in graph.nodes : type(n.id) = t}
byId(graph, id) == Only({n \in graph.nodes : n.id = id})
Nodes(graph, ids, t) == {n \in graph.nodes : n.id \in ids /\ type(n.id) = t}
Sources(graph, relation, id) ==
  {e.source : e \in {x \in graph.edges : x.relation = relation /\ x.target = id}}
Targets(graph, relation, id) ==
  {e.target : e \in {x \in graph.edges : x.relation = relation /\ x.source = id}}

(* Applications and containers. *)

\* A fault: the edge is read against its direction.
ParentReversed(graph, id) ==
  Only(UNION {Targets(graph, r, id) : r \in {"CONTAINS", "RUNS", "EXPOSES", "MOUNTS"}})

parentByChild(graph, id) ==
  Only(UNION {Sources(graph, r, id) : r \in {"CONTAINS", "RUNS", "EXPOSES", "MOUNTS"}})

aggregateStatus(containers) ==
  LET states == {c.metadata.state : c \in containers}
  IN  CASE states = {} -> "unknown"
        [] states = {"running"} -> "running"
        [] Cardinality(states) = 1 /\ states # {"running"} -> "stopped"
        [] OTHER -> "mixed"

applications(graph) ==
  {LET members == {c \in OfType(graph, "DOCKER_CONTAINER") : parentByChild(graph, c.id) = p.id}
   IN  [project |-> p, containers |-> members, status |-> aggregateStatus(members)]
     : p \in OfType(graph, "DOCKER_COMPOSE_PROJECT")}

(* Routes. *)

RouteOf(graph, upstream) ==
  LET id == upstream.id
      hostListeners == Nodes(graph, Targets(graph, "TARGETS", id), "HOST_LISTENER")
      owners == UNION {Nodes(graph, Targets(graph, "OWNED_BY", l.id), "SYSTEMD_SERVICE") : l \in hostListeners}
  IN  [upstream |-> upstream, hostListeners |-> hostListeners, hostService |-> Only(owners),
       proxy |-> Only(Nodes(graph, Sources(graph, "PROXIES_TO", id), "REVERSE_PROXY")),
       target |-> Only(Nodes(graph, Targets(graph, "RESOLVES_TO", id), "DOCKER_CONTAINER")),
       domains |-> Nodes(graph, Sources(graph, "ROUTES_TO", id), "DOMAIN")]

resourceModel(graph) ==
  LET apps == applications(graph)
  IN  [applications |-> apps,
       standaloneContainers |-> OfType(graph, "DOCKER_CONTAINER") \ UNION {a.containers : a \in apps},
       routes |-> {RouteOf(graph, u) : u \in OfType(graph, "UPSTREAM")}]

\* The resolution that a route's row shows, and the resources it names as the target.
shownResolution(route) ==
  LET m == route.upstream.metadata IN IF m.host_resolution = None THEN m.resolution ELSE m.host_resolution
targetLabel(route) ==
  CASE route.target # None -> {route.target.id}
    [] route.target = None /\ route.hostService # None -> {route.hostService.id}
    [] OTHER -> {l.id : l \in route.hostListeners}

(* Resources that belong together. *)

relatedResources(graph, n, relation) ==
  {x \in graph.nodes : x.id \in Sources(graph, relation, n.id) \cup Targets(graph, relation, n.id)}
connectedContainers(graph, network) ==
  Nodes(graph, Sources(graph, "CONNECTED_TO", network.id), "DOCKER_CONTAINER")
publishedPorts(graph, listener) ==
  {x \in relatedResources(graph, listener, "PUBLISHED_AS") : type(x.id) = "PORT"}
\* A fault: the edge to the proxy is followed.
DomainsThrough(graph, container) ==
  UNION {Nodes(graph, Sources(graph, "ROUTES_THROUGH", u), "DOMAIN") : u \in Sources(graph, "RESOLVES_TO", container.id)}

routedDomains(graph, container) ==
  UNION {Nodes(graph, Sources(graph, "ROUTES_TO", u), "DOMAIN") : u \in Sources(graph, "RESOLVES_TO", container.id)}
servicesForFilter(graph, filter) ==
  {s \in OfType(graph, "SYSTEMD_SERVICE") :
     /\ filter = "LISTENING" => s.metadata.listener_count > 0
     /\ filter = "ACTIVE" => s.metadata.active_state = "active"}

(* Where a resource is shown. *)

\* A fault: a listener is looked for among the services.
ListenersAreServices(t) ==
  IF t \in {"HOST_LISTENER", "SYSTEMD_SERVICE"} THEN "SERVICES"
  ELSE IF t \in {"NETWORK", "PORT"} THEN "NETWORK" ELSE "OVERVIEW"

pageFor(t) ==
  CASE t \in {"DOMAIN", "REVERSE_PROXY", "UPSTREAM"} -> "ROUTING"
    [] t \in {"NETWORK", "PORT", "HOST_LISTENER"} -> "NETWORK"
    [] t = "SYSTEMD_SERVICE" -> "SERVICES"
    [] t = "MOUNT" -> "STORAGE"
    [] t \in {"DOCKER_COMPOSE_PROJECT", "DOCKER_CONTAINER"} -> "APPLICATIONS"
    [] OTHER -> "OVERVIEW"

networkSubsectionFor(t) ==
  CASE t = "NETWORK" -> "NETWORKS" [] t = "PORT" -> "PORTS" [] t = "HOST_LISTENER" -> "LISTENERS"
    [] OTHER -> None

\* The resources that each page offers to a click.
Overview(model) == {a.project : a \in model.applications}
Applications(model) ==
  Overview(model) \cup (UNION {a.containers : a \in model.applications}) \cup model.standaloneContainers
ServicesPage(graph, filter) == servicesForFilter(graph, filter)
RoutingPage(model) ==
  UNION {r.domains \cup ({r.proxy} \ {None}) \cup {r.upstream} : r \in model.routes}
NetworkPage(graph) ==
  UNION {OfType(graph, t) : t \in {"DOCKER_CONTAINER", "HOST_LISTENER", "NETWORK", "PORT"}}
StoragePage(graph) ==
  UNION {{c} \cup relatedResources(graph, c, "MOUNTS") : c \in OfType(graph, "DOCKER_CONTAINER")}
Offered(graph, model, section) ==
  CASE section = "OVERVIEW" -> Overview(model)
    [] section = "APPLICATIONS" -> Applications(model)
    [] section = "SERVICES" -> ServicesPage(graph, "LISTENING")
    [] section = "ROUTING" -> RoutingPage(model)
    [] section = "NETWORK" -> NetworkPage(graph)
    [] section = "STORAGE" -> StoragePage(graph)
    [] OTHER -> {}

(* Empty lists. *)

dockerEmptyCopy(dockerState) ==
  IF dockerState \in {"AVAILABLE", "DOCKER_UNAVAILABLE"} THEN "NONE" ELSE "UNAVAILABLE"
caddyEmptyCopy(dockerState, caddyState) ==
  CASE dockerState # "AVAILABLE" -> "UNAVAILABLE"
    [] dockerState = "AVAILABLE" /\ caddyState = "NOT_DETECTED" -> "NONE"
    [] OTHER -> "NOT_VALIDATED"

\* A fault: only a failed discovery has a message.
PartialHasNoMessage(status) == IF status \in {"DISCOVERED", "PARTIAL"} THEN "NONE" ELSE "UNAVAILABLE"

\* "NONE" where there is no message, so that the list's own sentence is shown.
discoveryStatusCopy(status) ==
  CASE status = "DISCOVERED" -> "NONE"
    [] status = "PARTIAL" -> "PARTIAL"
    [] status = "NOT_SYSTEMD" -> "NOT_SUPPORTED"
    [] status \in {"NOT_AVAILABLE", "COMMAND_FAILED"} -> "UNAVAILABLE"
    [] OTHER -> "UNKNOWN"

\* The lists that may be empty, with the types of their resources.  Of the
\* services, LISTENING are those under the filter that the page opens with.
Lists == [APPLICATIONS |-> {"DOCKER_COMPOSE_PROJECT", "DOCKER_CONTAINER"}, NETWORKS |-> {"NETWORK"},
          PORTS |-> {"PORT"}, MOUNTS |-> {"MOUNT"}, ROUTES |-> {"UPSTREAM", "DOMAIN"},
          SERVICES |-> {"SYSTEMD_SERVICE"}, LISTENERS |-> {"HOST_LISTENER"},
          OVERVIEW |-> {"DOCKER_COMPOSE_PROJECT", "DOCKER_CONTAINER"}, DOMAINS |-> {"DOMAIN"},
          LISTENING |-> {"SYSTEMD_SERVICE"}]

\* The resources of a graph that a list's sentence says there are none of.
Denied(graph, list) ==
  IF list = "LISTENING" THEN servicesForFilter(graph, list)
  ELSE {n \in graph.nodes : type(n.id) \in Lists[list]}

\* The sentence that an empty list shows.  The Explorer's list of domains has
\* one only, and the filters of the services leave the discovery of listeners out.
EmptyCopy(graph, list) ==
  LET docker == metadataOf(graph, engineId).docker_discovery_state
      Host(status) == IF docker # "AVAILABLE" THEN "UNAVAILABLE" ELSE discoveryStatusCopy(status)
  IN  CASE list = "DOMAINS" -> "NONE"
        [] list = "ROUTES" -> caddyEmptyCopy(docker, metadataOf(graph, engineId).caddy_discovery_state)
        [] list \in {"SERVICES", "LISTENING"} -> Host(metadataOf(graph, serverId).systemd_discovery_status)
        [] list = "LISTENERS" -> Host(metadataOf(graph, serverId).listener_discovery_status)
        [] OTHER -> dockerEmptyCopy(docker)

\* The page of the mounts lists containers, and the Overview projects only, with
\* the sentence of the page of the applications.
Items(graph, list) ==
  CASE list = "OVERVIEW" -> OfType(graph, "DOCKER_COMPOSE_PROJECT")
    [] list = "MOUNTS" -> OfType(graph, "DOCKER_CONTAINER")
    [] OTHER -> Denied(graph, list)
SaysNone(graph, list) == Items(graph, list) = {} /\ EmptyCopy(graph, list) = "NONE"
=============================================================================
