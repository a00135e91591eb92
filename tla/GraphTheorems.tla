----------------------------- MODULE GraphTheorems -----------------------------
(***************************************************************************)
(* The graph that HostDockerGraphFactory makes of a discovery: which       *)
(* resources it has, that no two of them have the same ID, and which       *)
(* relationships join them.                                                *)
(***************************************************************************)
EXTENDS ResourceModel, FiniteSetTheorems, TLAPS

LEMMA OnlyIs ==
  /\ \A S : Only(S) # None => Only(S) \in S
  /\ \A S : IsFiniteSet(S) /\ Only(S) # None => S = {Only(S)}
  /\ \A x : Only({x}) = x
  /\ Only({}) = None
PROOF
<1>1. ASSUME NEW S, Only(S) # None PROVE Only(S) \in S
  <2>1. Cardinality(S) = 1
    BY <1>1 DEF Only
  <2>2. S # {}
    BY <2>1, FS_EmptySet
  <2> QED
    BY <2>1, <2>2 DEF Only
<1>2. ASSUME NEW S, IsFiniteSet(S), Only(S) # None PROVE S = {Only(S)}
  <2>1. Cardinality(S) = 1
    BY <1>2 DEF Only
  <2>2. PICK x : S = {x}
    BY <1>2, <2>1, FS_Singleton
  <2> QED
    BY <1>1, <1>2, <2>2
<1>3. ASSUME NEW x PROVE Only({x}) = x
  <2>1. Cardinality({x}) = 1
    BY FS_Singleton
  <2> QED
    BY <2>1 DEF Only
<1>4. Only({}) = None
  BY FS_EmptySet DEF Only
<1> QED
  BY <1>1, <1>2, <1>3, <1>4

\* An injection keeps the number.
LEMMA ImageCount ==
  ASSUME NEW S, IsFiniteSet(S), NEW f, f = [x \in S |-> f[x]],
         \A x, y \in S : f[x] = f[y] => x = y, NEW T, T = {f[x] : x \in S}
  PROVE  IsFiniteSet(T) /\ Cardinality(T) = Cardinality(S)
PROOF
<1>1. f \in Bijection(S, T)
  BY DEF Bijection, Injection, Surjection, IsInjective
<1> QED
  BY <1>1, FS_Bijection DEF ExistsBijection

(***************************************************************************)
(* The resources of a graph, each by its ID.                               *)
(***************************************************************************)
HostIds(services, listeners) ==
  {serverId, engineId} \cup {serviceId(s.unit) : s \in services} \cup {listenerId(l.key) : l \in listeners}
DockerIds(containers) ==
  {projectId(p) : p \in {c.project : c \in containers} \ {None}}
  \cup {containerId(c.id) : c \in containers}
  \cup (UNION {{portId(c.id, p) : p \in c.ports} : c \in containers})
  \cup (UNION {{mountId(c.id, m) : m \in c.mounts} : c \in containers})
  \cup {networkId(n) : n \in UNION {c.networks : c \in containers}}
UpstreamsOf(instance, route) == {<<"UPSTREAM", instance, route, i>> : i \in DOMAIN Backends(route)}
CaddyIds(instances) ==
  {proxyId(c.container) : c \in instances}
  \cup (UNION {UNION {UpstreamsOf(c.container, r) : r \in c.routes} : c \in instances})
  \cup {domainId(host) : host \in UNION {UNION {UNION {r.hosts : i \in DOMAIN Backends(r)} : r \in c.routes} : c \in instances}}

LEMMA TypesAre ==
  /\ type(serverId) = "SERVER" /\ type(engineId) = "DOCKER_ENGINE"
  /\ \A u : type(serviceId(u)) = "SYSTEMD_SERVICE"
  /\ \A k : type(listenerId(k)) = "HOST_LISTENER"
  /\ \A p : type(projectId(p)) = "DOCKER_COMPOSE_PROJECT"
  /\ \A c : type(containerId(c)) = "DOCKER_CONTAINER"
  /\ \A c, p : type(portId(c, p)) = "PORT"
  /\ \A c, m : type(mountId(c, m)) = "MOUNT"
  /\ \A n : type(networkId(n)) = "NETWORK"
  /\ \A c : type(proxyId(c)) = "REVERSE_PROXY"
  /\ \A h : type(domainId(h)) = "DOMAIN"
  /\ \A c, r, i : type(<<"UPSTREAM", c, r, i>>) = "UPSTREAM"
BY DEF type, serverId, engineId, serviceId, listenerId, projectId, containerId, portId, mountId,
       networkId, proxyId, domainId

\* The nodes, each by what it is made of.
ServerNode(d) ==
  node(serverId, "server", [systemd_discovery_status |-> d.systemd.state,
                            listener_discovery_status |-> d.listeners.state])
EngineNode(d) ==
  node(engineId, IF d.docker = "AVAILABLE" THEN "Docker" ELSE "Docker unavailable",
       [docker_discovery_state |-> d.docker, caddy_discovery_state |-> d.caddy.state])
ServiceNode(d, s) ==
  node(serviceId(s.unit), s.unit,
       [active_state |-> s.active,
        listener_count |-> Cardinality({l \in d.listeners.items :
                              l.ownership = "SYSTEMD_SERVICE" /\ l.unit = s.unit})])
ListenerNode(l) == node(listenerId(l.key), l.key, [ownership_state |-> l.ownership, systemd_unit |-> l.unit])
ProjectNode(d, p) ==
  node(projectId(p), p, [container_count |-> Cardinality({c \in d.containers : c.project = p})])
ContainerNode(c) == node(containerId(c.id), c.name, [state |-> c.state, compose_project |-> c.project])
PortNode(p) == node(portId(p[1], p[2]), "port", [host_binding |-> p[2].binding])
MountNode(v) == node(mountId(v[1], v[2]), v[2], [destination |-> v[2]])
NetworkNode(d, x) ==
  node(networkId(x), x, [connected_containers |-> {c.name : c \in {y \in d.containers : x \in y.networks}}])
ProxyNode(c) == node(proxyId(c.container), c.name, [route_count |-> Cardinality(c.routes)])
UpstreamNode(h) ==
  node(h.id, h.dial.kind,
       [resolution |-> h.resolution.state, host_resolution |-> h.host.state,
        host_service |-> IF h.host.service = None THEN None ELSE h.host.service.unit])
HostsOf(d) == UNION {h.hosts : h \in Hops(d)}

LEMMA NodesOf ==
  ASSUME NEW d
  PROVE  /\ HostNodes(d) = {ServerNode(d), EngineNode(d)} \cup {ServiceNode(d, s) : s \in d.systemd.services}
                           \cup {ListenerNode(l) : l \in d.listeners.items}
         /\ DockerNodes(d) =
              {ProjectNode(d, p) : p \in Projects(d)} \cup {ContainerNode(c) : c \in d.containers}
              \cup {PortNode(p) : p \in Ports(d)} \cup {MountNode(v) : v \in Mounts(d)}
              \cup {NetworkNode(d, x) : x \in Networks(d)}
         /\ CaddyNodes(d, Hops(d)) =
              {ProxyNode(c) : c \in d.caddy.instances} \cup {UpstreamNode(h) : h \in Hops(d)}
              \cup {DomainNode(host, Hops(d)) : host \in HostsOf(d)}
BY DEF HostNodes, DockerNodes, CaddyNodes, ServerNode, EngineNode, ServiceNode, ListenerNode, ProjectNode,
       ContainerNode, PortNode, MountNode, NetworkNode, ProxyNode, UpstreamNode, HostsOf

\* Every node has the ID of what it is made of.
Named(d) ==
  /\ ServerNode(d).id = serverId /\ EngineNode(d).id = engineId
  /\ \A s \in d.systemd.services : ServiceNode(d, s).id = serviceId(s.unit)
  /\ \A l \in d.listeners.items : ListenerNode(l).id = listenerId(l.key)
  /\ \A p \in Projects(d) : ProjectNode(d, p).id = projectId(p)
  /\ \A c \in d.containers : ContainerNode(c).id = containerId(c.id)
  /\ \A p \in Ports(d) : PortNode(p).id = portId(p[1], p[2])
  /\ \A v \in Mounts(d) : MountNode(v).id = mountId(v[1], v[2])
  /\ \A x \in Networks(d) : NetworkNode(d, x).id = networkId(x)
  /\ \A c \in d.caddy.instances : ProxyNode(c).id = proxyId(c.container)
  /\ \A h \in Hops(d) : UpstreamNode(h).id = h.id
  /\ \A host \in HostsOf(d) : DomainNode(host, Hops(d)).id = domainId(host)
LEMMA IdsOf == ASSUME NEW d PROVE Named(d)
BY DEF Named, node, ServerNode, EngineNode, ServiceNode, ListenerNode, ProjectNode, ContainerNode, PortNode,
       MountNode, NetworkNode, ProxyNode, UpstreamNode, DomainNode

LEMMA HostIdsAre ==
  ASSUME NEW d
  PROVE  {n.id : n \in HostNodes(d)} = HostIds(d.systemd.services, d.listeners.items)
PROOF
<1>0. Named(d)
  BY IdsOf
<1>1. ASSUME NEW n \in HostNodes(d)
      PROVE  n.id \in HostIds(d.systemd.services, d.listeners.items)
  BY <1>0, NodesOf DEF HostIds, Named
<1>2. ASSUME NEW id \in HostIds(d.systemd.services, d.listeners.items)
      PROVE  \E n \in HostNodes(d) : n.id = id
  <2>1. \/ id = serverId \/ id = engineId
        \/ \E s \in d.systemd.services : id = serviceId(s.unit)
        \/ \E l \in d.listeners.items : id = listenerId(l.key)
    BY DEF HostIds
  <2> QED
    BY <1>0, <2>1, NodesOf DEF Named
<1> QED
  BY <1>1, <1>2

LEMMA DockerIdsAre ==
  ASSUME NEW d
  PROVE  {n.id : n \in DockerNodes(d)} = DockerIds(d.containers)
PROOF
<1>0. Named(d)
  BY IdsOf
<1>3. {n.id : n \in DockerNodes(d)} =
        {projectId(p) : p \in Projects(d)} \cup {containerId(c.id) : c \in d.containers}
        \cup {portId(p[1], p[2]) : p \in Ports(d)} \cup {mountId(v[1], v[2]) : v \in Mounts(d)}
        \cup {networkId(n) : n \in Networks(d)}
  BY <1>0, NodesOf DEF Named
<1>4. {portId(p[1], p[2]) : p \in Ports(d)} = UNION {{portId(c.id, p) : p \in c.ports} : c \in d.containers}
  <2>1. \A c \in d.containers : \A p \in c.ports : <<c.id, p>> \in Ports(d)
    BY DEF Ports
  <2>2. \A x \in Ports(d) : \E c \in d.containers : \E p \in c.ports : x = <<c.id, p>>
    BY DEF Ports
  <2>3. \A x \in Ports(d) : \E c \in d.containers : \E p \in c.ports : portId(x[1], x[2]) = portId(c.id, p)
    BY <2>2
  <2>4. \A c \in d.containers : \A p \in c.ports :
          \E x \in Ports(d) : portId(x[1], x[2]) = portId(c.id, p)
    BY <2>1
  <2> QED
    BY <2>3, <2>4
<1>5. {mountId(v[1], v[2]) : v \in Mounts(d)} = UNION {{mountId(c.id, m) : m \in c.mounts} : c \in d.containers}
  <2>1. \A c \in d.containers : \A m \in c.mounts : <<c.id, m>> \in Mounts(d)
    BY DEF Mounts
  <2>2. \A x \in Mounts(d) : \E c \in d.containers : \E m \in c.mounts : x = <<c.id, m>>
    BY DEF Mounts
  <2>3. \A x \in Mounts(d) : \E c \in d.containers : \E m \in c.mounts : mountId(x[1], x[2]) = mountId(c.id, m)
    BY <2>2
  <2>4. \A c \in d.containers : \A m \in c.mounts :
          \E x \in Mounts(d) : mountId(x[1], x[2]) = mountId(c.id, m)
    BY <2>1
  <2> QED
    BY <2>3, <2>4
<1> QED
  BY <1>3, <1>4, <1>5 DEF DockerIds, Projects, Networks

\* The hops of the routes, one for each upstream.
LEMMA HopsAre ==
  ASSUME NEW d
  PROVE  /\ \A h \in Hops(d) : \E c \in d.caddy.instances : \E r \in c.routes :
              \E i \in DOMAIN Backends(r) : h = Hop(d, c, r, i)
         /\ \A c \in d.caddy.instances : \A r \in c.routes : \A i \in DOMAIN Backends(r) :
              Hop(d, c, r, i) \in Hops(d)
BY DEF Hops

LEMMA HopIs ==
  ASSUME NEW d, NEW c, NEW r, NEW i
  PROVE  /\ Hop(d, c, r, i).id = <<"UPSTREAM", c.container, r, i>>
         /\ Hop(d, c, r, i).hosts = r.hosts
         /\ Hop(d, c, r, i).proxy = proxyId(c.container)
         /\ Hop(d, c, r, i).route = <<c.container, r>>
         /\ Hop(d, c, r, i).resolution = resolve(c, Backends(r)[i], d.containers)
BY DEF Hop

LEMMA CaddyIdsAre ==
  ASSUME NEW d
  PROVE  {n.id : n \in CaddyNodes(d, Hops(d))} = CaddyIds(d.caddy.instances)
PROOF
<1>0. Named(d)
  BY IdsOf
<1> DEFINE hops == Hops(d)
<1>3. {n.id : n \in CaddyNodes(d, hops)} =
        {proxyId(c.container) : c \in d.caddy.instances} \cup {h.id : h \in hops}
        \cup {domainId(host) : host \in UNION {h.hosts : h \in hops}}
  BY <1>0, NodesOf DEF HostsOf, Named
<1> HIDE DEF hops
<1> DEFINE upstreams == UNION {UNION {UpstreamsOf(c.container, r) : r \in c.routes} : c \in d.caddy.instances}
           hosts == UNION {UNION {UNION {r.hosts : i \in DOMAIN Backends(r)} : r \in c.routes}
                           : c \in d.caddy.instances}
<1>4. {h.id : h \in hops} = upstreams
  <2>1. ASSUME NEW h \in hops PROVE h.id \in upstreams
    <3>a. PICK c \in d.caddy.instances : \E x \in c.routes : \E j \in DOMAIN Backends(x) : h = Hop(d, c, x, j)
      BY HopsAre DEF hops
    <3>b. PICK r \in c.routes : \E j \in DOMAIN Backends(r) : h = Hop(d, c, r, j)
      BY <3>a
    <3>1. PICK i \in DOMAIN Backends(r) : h = Hop(d, c, r, i)
      BY <3>b
    <3>c. h.id = <<"UPSTREAM", c.container, r, i>>
      BY <3>1, HopIs
    <3>2. h.id \in UpstreamsOf(c.container, r)
      BY <3>c DEF UpstreamsOf
    <3> QED
      BY <3>2
  <2>2. ASSUME NEW id \in upstreams PROVE \E h \in hops : h.id = id
    <3>a. PICK c \in d.caddy.instances : id \in UNION {UpstreamsOf(c.container, x) : x \in c.routes}
      OBVIOUS
    <3>1. PICK r \in c.routes : id \in UpstreamsOf(c.container, r)
      BY <3>a
    <3>2. PICK i \in DOMAIN Backends(r) : id = <<"UPSTREAM", c.container, r, i>>
      BY <3>1 DEF UpstreamsOf
    <3>3. Hop(d, c, r, i) \in hops /\ Hop(d, c, r, i).id = id
      BY <3>2, HopsAre, HopIs DEF hops
    <3> QED
      BY <3>3
  <2> QED
    BY <2>1, <2>2
<1>5. (UNION {h.hosts : h \in hops}) = hosts
  <2>1. ASSUME NEW h \in hops, NEW host \in h.hosts PROVE host \in hosts
    <3>a. PICK c \in d.caddy.instances : \E x \in c.routes : \E j \in DOMAIN Backends(x) : h = Hop(d, c, x, j)
      BY HopsAre DEF hops
    <3>b. PICK r \in c.routes : \E j \in DOMAIN Backends(r) : h = Hop(d, c, r, j)
      BY <3>a
    <3>1. PICK i \in DOMAIN Backends(r) : h = Hop(d, c, r, i)
      BY <3>b
    <3>2. host \in r.hosts
      BY <3>1, HopIs
    <3>3. host \in UNION {r.hosts : j \in DOMAIN Backends(r)}
      BY <3>2
    <3>4. host \in UNION {UNION {x.hosts : j \in DOMAIN Backends(x)} : x \in c.routes}
      BY <3>3
    <3> QED
      BY <3>4
  <2>2. ASSUME NEW host \in hosts PROVE \E h \in hops : host \in h.hosts
    <3>1. PICK c \in d.caddy.instances : host \in UNION {UNION {x.hosts : j \in DOMAIN Backends(x)} : x \in c.routes}
      OBVIOUS
    <3>2. PICK r \in c.routes : host \in UNION {r.hosts : j \in DOMAIN Backends(r)}
      BY <3>1
    <3>3. PICK i \in DOMAIN Backends(r) : host \in r.hosts
      BY <3>2
    <3>4. Hop(d, c, r, i) \in hops /\ Hop(d, c, r, i).hosts = r.hosts
      BY HopsAre, HopIs DEF hops
    <3> QED
      BY <3>3, <3>4
  <2> QED
    BY <2>1, <2>2
<1> QED
  BY <1>3, <1>4, <1>5 DEF CaddyIds, hops

\* The resources of a graph: without Docker only those of the host.
LEMMA GraphIdsAre ==
  ASSUME NEW d
  PROVE  {n.id : n \in create(d).nodes} =
           HostIds(d.systemd.services, d.listeners.items)
           \cup (IF d.docker = "AVAILABLE" THEN DockerIds(d.containers) \cup CaddyIds(d.caddy.instances) ELSE {})
PROOF
<1>1. create(d).nodes = IF d.docker = "AVAILABLE"
                        THEN HostNodes(d) \cup DockerNodes(d) \cup CaddyNodes(d, Hops(d)) ELSE HostNodes(d)
  BY DEF create
<1> QED
  BY <1>1, HostIdsAre, DockerIdsAre, CaddyIdsAre

\* A node is of the kind that its ID says.
LEMMA NodesAre ==
  ASSUME NEW d, NEW x \in create(d).nodes
  PROVE  \/ x = ServerNode(d) /\ type(x.id) = "SERVER"
         \/ x = EngineNode(d) /\ type(x.id) = "DOCKER_ENGINE"
         \/ type(x.id) = "SYSTEMD_SERVICE" /\ \E s \in d.systemd.services : x = ServiceNode(d, s)
         \/ type(x.id) = "HOST_LISTENER" /\ \E l \in d.listeners.items : x = ListenerNode(l)
         \/ /\ d.docker = "AVAILABLE"
            /\ \/ type(x.id) = "DOCKER_COMPOSE_PROJECT" /\ \E p \in Projects(d) : x = ProjectNode(d, p)
               \/ type(x.id) = "DOCKER_CONTAINER" /\ \E c \in d.containers : x = ContainerNode(c)
               \/ type(x.id) = "PORT" /\ \E p \in Ports(d) : x = PortNode(p)
               \/ type(x.id) = "MOUNT" /\ \E v \in Mounts(d) : x = MountNode(v)
               \/ type(x.id) = "NETWORK" /\ \E y \in Networks(d) : x = NetworkNode(d, y)
               \/ type(x.id) = "REVERSE_PROXY" /\ \E c \in d.caddy.instances : x = ProxyNode(c)
               \/ type(x.id) = "UPSTREAM" /\ \E h \in Hops(d) : x = UpstreamNode(h)
               \/ type(x.id) = "DOMAIN" /\ \E host \in HostsOf(d) : x = DomainNode(host, Hops(d))
PROOF
<1>0. Named(d)
  BY IdsOf
<1>1. ASSUME NEW h \in Hops(d) PROVE type(h.id) = "UPSTREAM"
  <2>1. \E c, r, i : h.id = <<"UPSTREAM", c, r, i>>
    <3>1. \E c, r, i : h = Hop(d, c, r, i)
      BY HopsAre
    <3> QED
      BY <3>1, HopIs
  <2> QED
    BY <2>1, TypesAre
<1>2. /\ type(ServerNode(d).id) = "SERVER" /\ type(EngineNode(d).id) = "DOCKER_ENGINE"
      /\ \A s \in d.systemd.services : type(ServiceNode(d, s).id) = "SYSTEMD_SERVICE"
      /\ \A l \in d.listeners.items : type(ListenerNode(l).id) = "HOST_LISTENER"
  BY <1>0, TypesAre DEF Named
<1>3. /\ \A p \in Projects(d) : type(ProjectNode(d, p).id) = "DOCKER_COMPOSE_PROJECT"
      /\ \A c \in d.containers : type(ContainerNode(c).id) = "DOCKER_CONTAINER"
      /\ \A p \in Ports(d) : type(PortNode(p).id) = "PORT"
      /\ \A v \in Mounts(d) : type(MountNode(v).id) = "MOUNT"
      /\ \A y \in Networks(d) : type(NetworkNode(d, y).id) = "NETWORK"
  BY <1>0, TypesAre DEF Named
<1>4. /\ \A c \in d.caddy.instances : type(ProxyNode(c).id) = "REVERSE_PROXY"
      /\ \A h \in Hops(d) : type(UpstreamNode(h).id) = "UPSTREAM"
      /\ \A host \in HostsOf(d) : type(DomainNode(host, Hops(d)).id) = "DOMAIN"
  BY <1>0, <1>1, TypesAre DEF Named
<1>5. x \in HostNodes(d) \/ (d.docker = "AVAILABLE" /\ x \in DockerNodes(d) \cup CaddyNodes(d, Hops(d)))
  BY DEF create
<1>6. CASE x \in HostNodes(d)
  BY <1>2, <1>6, NodesOf
<1>7. CASE d.docker = "AVAILABLE" /\ x \in DockerNodes(d)
  BY <1>3, <1>7, NodesOf
<1>8. CASE d.docker = "AVAILABLE" /\ x \in CaddyNodes(d, Hops(d))
  BY <1>4, <1>8, NodesOf
<1> QED
  BY <1>5, <1>6, <1>7, <1>8

LEMMA NodesAreThere ==
  ASSUME NEW d
  PROVE  /\ ServerNode(d) \in create(d).nodes /\ EngineNode(d) \in create(d).nodes
         /\ \A s \in d.systemd.services : ServiceNode(d, s) \in create(d).nodes
         /\ \A l \in d.listeners.items : ListenerNode(l) \in create(d).nodes
         /\ d.docker = "AVAILABLE" =>
              /\ \A p \in Projects(d) : ProjectNode(d, p) \in create(d).nodes
              /\ \A c \in d.containers : ContainerNode(c) \in create(d).nodes
              /\ \A p \in Ports(d) : PortNode(p) \in create(d).nodes
              /\ \A v \in Mounts(d) : MountNode(v) \in create(d).nodes
              /\ \A x \in Networks(d) : NetworkNode(d, x) \in create(d).nodes
              /\ \A c \in d.caddy.instances : ProxyNode(c) \in create(d).nodes
              /\ \A h \in Hops(d) : UpstreamNode(h) \in create(d).nodes
              /\ \A host \in HostsOf(d) : DomainNode(host, Hops(d)) \in create(d).nodes
BY NodesOf DEF create

(***************************************************************************)
(* The quality that a snapshot records of its discovery.                   *)
(***************************************************************************)
LEMMA MetadataOfHost ==
  ASSUME NEW d
  PROVE  /\ metadataOf(create(d), serverId) = [systemd_discovery_status |-> d.systemd.state,
                                              listener_discovery_status |-> d.listeners.state]
         /\ metadataOf(create(d), engineId) = [docker_discovery_state |-> d.docker,
                                              caddy_discovery_state |-> d.caddy.state]
PROOF
<1>0. Named(d)
  BY IdsOf
<1>1. \A n \in create(d).nodes : /\ n.id = serverId => n = ServerNode(d)
                                /\ n.id = engineId => n = EngineNode(d)
  BY <1>0, NodesAre, TypesAre DEF Named
<1>2. /\ (CHOOSE n \in create(d).nodes : n.id = serverId) = ServerNode(d)
      /\ (CHOOSE n \in create(d).nodes : n.id = engineId) = EngineNode(d)
  <2>1. ServerNode(d) \in create(d).nodes /\ EngineNode(d) \in create(d).nodes
    BY NodesAreThere
  <2> QED
    BY <1>0, <1>1, <2>1 DEF Named
<1>3. /\ ServerNode(d).metadata = [systemd_discovery_status |-> d.systemd.state,
                                   listener_discovery_status |-> d.listeners.state]
      /\ EngineNode(d).metadata = [docker_discovery_state |-> d.docker, caddy_discovery_state |-> d.caddy.state]
  BY DEF node, ServerNode, EngineNode
<1> QED
  BY <1>2, <1>3 DEF metadataOf

LEMMA QualityIs ==
  ASSUME NEW d
  PROVE  content(create(d)).quality = [CADDY |-> d.caddy.state, DOCKER |-> d.docker,
                                       HOST_LISTENERS |-> d.listeners.state, SYSTEMD |-> d.systemd.state]
PROOF
<1> DEFINE g == create(d)
<1>1. /\ metadataOf(g, serverId).systemd_discovery_status = d.systemd.state
      /\ metadataOf(g, serverId).listener_discovery_status = d.listeners.state
      /\ metadataOf(g, engineId).docker_discovery_state = d.docker
      /\ metadataOf(g, engineId).caddy_discovery_state = d.caddy.state
  <2>1. /\ metadataOf(g, serverId) = [systemd_discovery_status |-> d.systemd.state,
                                     listener_discovery_status |-> d.listeners.state]
        /\ metadataOf(g, engineId) = [docker_discovery_state |-> d.docker,
                                     caddy_discovery_state |-> d.caddy.state]
    BY MetadataOfHost
  <2> HIDE DEF g
  <2> QED
    BY <2>1
<1>2. content(g).quality = discoveryQuality(g)
  BY DEF content
<1> HIDE DEF g
<1>3. discoveryQuality(g) = [CADDY |-> d.caddy.state, DOCKER |-> d.docker,
                             HOST_LISTENERS |-> d.listeners.state, SYSTEMD |-> d.systemd.state]
  BY <1>1 DEF discoveryQuality
<1> QED
  BY <1>2, <1>3 DEF g

LEMMA IdsAreInjective ==
  /\ \A x, y : serviceId(x) = serviceId(y) => x = y
  /\ \A x, y : listenerId(x) = listenerId(y) => x = y
  /\ \A x, y : projectId(x) = projectId(y) => x = y
  /\ \A x, y : containerId(x) = containerId(y) => x = y
  /\ \A x, y : networkId(x) = networkId(y) => x = y
  /\ \A x, y : proxyId(x) = proxyId(y) => x = y
  /\ \A x, y : domainId(x) = domainId(y) => x = y
  /\ \A x, y, u, v : portId(x, u) = portId(y, v) => x = y /\ u = v
  /\ \A x, y, u, v : mountId(x, u) = mountId(y, v) => x = y /\ u = v
BY DEF serviceId, listenerId, projectId, containerId, networkId, proxyId, domainId, portId, mountId

\* No two resources of a graph have the same ID.
LEMMA NodesAreUnique ==
  ASSUME NEW d, NEW m \in create(d).nodes, NEW n \in create(d).nodes, m.id = n.id,
         \A x, y \in d.systemd.services : x.unit = y.unit => x = y,
         \A x, y \in d.listeners.items : x.key = y.key => x = y,
         \A x, y \in d.containers : x.id = y.id => x = y,
         \A x, y \in d.caddy.instances : x.container = y.container => x = y
  PROVE  m = n
PROOF
<1>0. Named(d)
  BY IdsOf
<1>6. \A h \in Hops(d) : \E c \in d.caddy.instances : \E r \in c.routes : \E i \in DOMAIN Backends(r) :
        h = Hop(d, c, r, i) /\ h.id = <<"UPSTREAM", c.container, r, i>>
  <2>1. ASSUME NEW h \in Hops(d), NEW c, NEW r, NEW i, h = Hop(d, c, r, i)
        PROVE  h.id = <<"UPSTREAM", c.container, r, i>>
    BY <2>1, HopIs
  <2> QED
    BY <2>1, HopsAre
<1>9. type(m.id) = type(n.id)
  OBVIOUS
<1>10. CASE type(m.id) \in {"SERVER", "DOCKER_ENGINE"}
  BY NodesAre, <1>9, <1>10
<1>11. CASE type(m.id) = "SYSTEMD_SERVICE"
  <2>1. PICK s \in d.systemd.services : m = ServiceNode(d, s)
    BY NodesAre, <1>11
  <2>2. PICK t \in d.systemd.services : n = ServiceNode(d, t)
    BY NodesAre, <1>9, <1>11
  <2>3. s.unit = t.unit
    BY <1>0, <2>1, <2>2, IdsAreInjective DEF Named
  <2> QED
    BY <2>1, <2>2, <2>3
<1>12. CASE type(m.id) = "HOST_LISTENER"
  <2>1. PICK s \in d.listeners.items : m = ListenerNode(s)
    BY NodesAre, <1>12
  <2>2. PICK t \in d.listeners.items : n = ListenerNode(t)
    BY NodesAre, <1>9, <1>12
  <2>3. s.key = t.key
    BY <1>0, <2>1, <2>2, IdsAreInjective DEF Named
  <2> QED
    BY <2>1, <2>2, <2>3
<1>13. CASE type(m.id) = "DOCKER_COMPOSE_PROJECT"
  <2>1. PICK s \in Projects(d) : m = ProjectNode(d, s)
    BY NodesAre, <1>13
  <2>2. PICK t \in Projects(d) : n = ProjectNode(d, t)
    BY NodesAre, <1>9, <1>13
  <2>3. s = t
    BY <1>0, <2>1, <2>2, IdsAreInjective DEF Named
  <2> QED
    BY <2>1, <2>2, <2>3
<1>14. CASE type(m.id) = "DOCKER_CONTAINER"
  <2>1. PICK s \in d.containers : m = ContainerNode(s)
    BY NodesAre, <1>14
  <2>2. PICK t \in d.containers : n = ContainerNode(t)
    BY NodesAre, <1>9, <1>14
  <2>3. s.id = t.id
    BY <1>0, <2>1, <2>2, IdsAreInjective DEF Named
  <2> QED
    BY <2>1, <2>2, <2>3
<1>15. CASE type(m.id) = "PORT"
  <2>1. PICK s \in Ports(d) : m = PortNode(s)
    BY NodesAre, <1>15
  <2>2. PICK t \in Ports(d) : n = PortNode(t)
    BY NodesAre, <1>9, <1>15
  <2>3. s[1] = t[1] /\ s[2] = t[2]
    BY <1>0, <2>1, <2>2, IdsAreInjective DEF Named
  <2>4. s = <<s[1], s[2]>> /\ t = <<t[1], t[2]>>
    BY DEF Ports
  <2> QED
    BY <2>1, <2>2, <2>3, <2>4
<1>16. CASE type(m.id) = "MOUNT"
  <2>1. PICK s \in Mounts(d) : m = MountNode(s)
    BY NodesAre, <1>16
  <2>2. PICK t \in Mounts(d) : n = MountNode(t)
    BY NodesAre, <1>9, <1>16
  <2>3. s[1] = t[1] /\ s[2] = t[2]
    BY <1>0, <2>1, <2>2, IdsAreInjective DEF Named
  <2>4. s = <<s[1], s[2]>> /\ t = <<t[1], t[2]>>
    BY DEF Mounts
  <2> QED
    BY <2>1, <2>2, <2>3, <2>4
<1>17. CASE type(m.id) = "NETWORK"
  <2>1. PICK s \in Networks(d) : m = NetworkNode(d, s)
    BY NodesAre, <1>17
  <2>2. PICK t \in Networks(d) : n = NetworkNode(d, t)
    BY NodesAre, <1>9, <1>17
  <2>3. s = t
    BY <1>0, <2>1, <2>2, IdsAreInjective DEF Named
  <2> QED
    BY <2>1, <2>2, <2>3
<1>18. CASE type(m.id) = "REVERSE_PROXY"
  <2>1. PICK s \in d.caddy.instances : m = ProxyNode(s)
    BY NodesAre, <1>18
  <2>2. PICK t \in d.caddy.instances : n = ProxyNode(t)
    BY NodesAre, <1>9, <1>18
  <2>3. s.container = t.container
    BY <1>0, <2>1, <2>2, IdsAreInjective DEF Named
  <2> QED
    BY <2>1, <2>2, <2>3
<1>19. CASE type(m.id) = "UPSTREAM"
  <2>1. PICK g \in Hops(d) : m = UpstreamNode(g)
    BY NodesAre, <1>19
  <2>2. PICK h \in Hops(d) : n = UpstreamNode(h)
    BY NodesAre, <1>9, <1>19
  <2>3. g.id = h.id
    BY <1>0, <2>1, <2>2 DEF Named
  <2>4. PICK c \in d.caddy.instances : \E r \in c.routes : \E i \in DOMAIN Backends(r) :
          g = Hop(d, c, r, i) /\ g.id = <<"UPSTREAM", c.container, r, i>>
    BY <1>6
  <2>5. PICK b \in d.caddy.instances : \E r \in b.routes : \E i \in DOMAIN Backends(r) :
          h = Hop(d, b, r, i) /\ h.id = <<"UPSTREAM", b.container, r, i>>
    BY <1>6
  <2>6. PICK r, i : g = Hop(d, c, r, i) /\ g.id = <<"UPSTREAM", c.container, r, i>>
    BY <2>4
  <2>7. PICK q, j : h = Hop(d, b, q, j) /\ h.id = <<"UPSTREAM", b.container, q, j>>
    BY <2>5
  <2>8. c.container = b.container /\ r = q /\ i = j
    BY <2>3, <2>6, <2>7
  <2>9. c = b
    BY <2>8
  <2>10. g = h
    BY <2>6, <2>7, <2>8, <2>9
  <2> QED
    BY <2>1, <2>2, <2>10
<1>20. CASE type(m.id) = "DOMAIN"
  <2>1. PICK s \in HostsOf(d) : m = DomainNode(s, Hops(d))
    BY NodesAre, <1>20
  <2>2. PICK t \in HostsOf(d) : n = DomainNode(t, Hops(d))
    BY NodesAre, <1>9, <1>20
  <2>3. s = t
    BY <1>0, <2>1, <2>2, IdsAreInjective DEF Named
  <2> QED
    BY <2>1, <2>2, <2>3
<1> QED
  BY NodesAre, <1>10, <1>11, <1>12, <1>13, <1>14, <1>15, <1>16, <1>17, <1>18, <1>19, <1>20
(***************************************************************************)
(* The relationships of a graph, each by its ends.                         *)
(***************************************************************************)
Joins(graph, s, relation, t) == \E e \in graph.edges : e.source = s /\ e.relation = relation /\ e.target = t

LEMMA JoinedAre ==
  ASSUME NEW graph, NEW relation, NEW x, NEW y
  PROVE  /\ x \in Sources(graph, relation, y) => Joins(graph, x, relation, y)
         /\ Joins(graph, x, relation, y) => x \in Sources(graph, relation, y)
         /\ y \in Targets(graph, relation, x) => Joins(graph, x, relation, y)
         /\ Joins(graph, x, relation, y) => y \in Targets(graph, relation, x)
BY DEF Sources, Targets, Joins

EdgesOf(d) ==
  HostEdges(d) \cup (IF d.docker = "AVAILABLE" THEN DockerEdges(d) \cup CaddyEdges(d, Hops(d)) ELSE {})
LEMMA EdgesOfGraph == ASSUME NEW d PROVE create(d).edges = EdgesOf(d)
BY DEF create, EdgesOf

Parent(c) == IF c.project = None THEN engineId ELSE projectId(c.project)

\* What each relation joins, by the source s and the target t.
HostJoins(d, s, relation, t) ==
  \/ relation = "RUNS" /\ s = serverId /\ t = engineId
  \/ relation = "RUNS" /\ s = serverId /\ \E x \in d.systemd.services : t = serviceId(x.unit)
  \/ relation = "CONTAINS" /\ s = serverId /\ \E l \in d.listeners.items : t = listenerId(l.key)
  \/ relation = "LISTENS_ON" /\ \E l \in Owned(d) : s = serviceId(l.unit) /\ t = listenerId(l.key)
  \/ relation = "OWNED_BY" /\ \E l \in Owned(d) : s = listenerId(l.key) /\ t = serviceId(l.unit)
DockerJoins(d, s, relation, t) ==
  \/ relation = "CONTAINS" /\ s = engineId /\ \E p \in Projects(d) : t = projectId(p)
  \/ relation = "RUNS" /\ \E c \in d.containers : c.project = None /\ s = engineId /\ t = containerId(c.id)
  \/ relation = "CONTAINS" /\ \E c \in d.containers : c.project # None /\ s = projectId(c.project) /\ t = containerId(c.id)
  \/ relation = "EXPOSES" /\ \E p \in Ports(d) : s = containerId(p[1]) /\ t = portId(p[1], p[2])
  \/ relation = "MOUNTS" /\ \E v \in Mounts(d) : s = containerId(v[1]) /\ t = mountId(v[1], v[2])
  \/ relation = "CONNECTED_TO" /\ \E c \in d.containers : \E x \in c.networks : s = containerId(c.id) /\ t = networkId(x)
  \/ relation = "PUBLISHED_AS" /\ \E l \in d.listeners.items : \E p \in PublishedAs(d, l) :
       s = portId(p[1], p[2]) /\ t = listenerId(l.key)
CaddyJoins(d, s, relation, t) ==
  \/ relation = "RUNS" /\ \E c \in d.caddy.instances : \E k \in d.containers :
       k.id = c.container /\ s = containerId(c.container) /\ t = proxyId(c.container)
  \/ relation = "PROXIES_TO" /\ \E h \in Hops(d) : s = h.proxy /\ t = h.id
  \/ relation = "RESOLVES_TO" /\ \E h \in Hops(d) :
       h.resolution.container # None /\ s = h.id /\ t = containerId(h.resolution.container.id)
  \/ relation = "TARGETS" /\ \E h \in Hops(d) : \E l \in h.host.listeners : s = h.id /\ t = listenerId(l.key)
  \/ relation = "ROUTES_THROUGH" /\ \E h \in Hops(d) : \E host \in h.hosts : s = domainId(host) /\ t = h.proxy
  \/ relation = "ROUTES_TO" /\ \E h \in Hops(d) : \E host \in h.hosts : s = domainId(host) /\ t = h.id

LEMMA EdgeEnds ==
  ASSUME NEW s, NEW relation, NEW t, NEW route
  PROVE  /\ edge(s, relation, t).source = s /\ edge(s, relation, t).relation = relation
         /\ edge(s, relation, t).target = t
         /\ DomainEdge(s, relation, t, route).source = domainId(s)
         /\ DomainEdge(s, relation, t, route).relation = relation
         /\ DomainEdge(s, relation, t, route).target = t
BY DEF edge, DomainEdge

LEMMA HostJoinsAre ==
  ASSUME NEW d, NEW s, NEW relation, NEW t
  PROVE  (\E e \in HostEdges(d) : e.source = s /\ e.relation = relation /\ e.target = t)
         <=> HostJoins(d, s, relation, t)
PROOF
<1>1. ASSUME NEW e \in HostEdges(d) PROVE HostJoins(d, e.source, e.relation, e.target)
  <2>1. CASE e = edge(serverId, "RUNS", engineId)
    BY <2>1, EdgeEnds DEF HostJoins
  <2>2. CASE \E x \in d.systemd.services : e = edge(serverId, "RUNS", serviceId(x.unit))
    BY <2>2, EdgeEnds DEF HostJoins
  <2>3. CASE \E l \in d.listeners.items : e = edge(serverId, "CONTAINS", listenerId(l.key))
    BY <2>3, EdgeEnds DEF HostJoins
  <2>4. CASE \E l \in Owned(d) : e = edge(serviceId(l.unit), "LISTENS_ON", listenerId(l.key))
    BY <2>4, EdgeEnds DEF HostJoins
  <2>5. CASE \E l \in Owned(d) : e = edge(listenerId(l.key), "OWNED_BY", serviceId(l.unit))
    BY <2>5, EdgeEnds DEF HostJoins
  <2> QED
    BY <2>1, <2>2, <2>3, <2>4, <2>5 DEF HostEdges
<1>2. ASSUME HostJoins(d, s, relation, t)
      PROVE  \E e \in HostEdges(d) : e.source = s /\ e.relation = relation /\ e.target = t
  <2>1. edge(s, relation, t) \in HostEdges(d)
    BY <1>2 DEF HostJoins, HostEdges
  <2> QED
    BY <2>1, EdgeEnds
<1> QED
  BY <1>1, <1>2

LEMMA DockerJoinsAre ==
  ASSUME NEW d, NEW s, NEW relation, NEW t
  PROVE  (\E e \in DockerEdges(d) : e.source = s /\ e.relation = relation /\ e.target = t)
         <=> DockerJoins(d, s, relation, t)
PROOF
<1>1. ASSUME NEW e \in DockerEdges(d) PROVE DockerJoins(d, e.source, e.relation, e.target)
  <2>1. CASE \E p \in Projects(d) : e = edge(engineId, "CONTAINS", projectId(p))
    BY <2>1, EdgeEnds DEF DockerJoins
  <2>2. CASE \E c \in d.containers : e = IF c.project = None THEN edge(engineId, "RUNS", containerId(c.id))
                                         ELSE edge(projectId(c.project), "CONTAINS", containerId(c.id))
    BY <2>2, EdgeEnds DEF DockerJoins
  <2>3. CASE \E p \in Ports(d) : e = edge(containerId(p[1]), "EXPOSES", portId(p[1], p[2]))
    BY <2>3, EdgeEnds DEF DockerJoins
  <2>4. CASE \E v \in Mounts(d) : e = edge(containerId(v[1]), "MOUNTS", mountId(v[1], v[2]))
    BY <2>4, EdgeEnds DEF DockerJoins
  <2>5. CASE \E c \in d.containers : \E x \in c.networks : e = edge(containerId(c.id), "CONNECTED_TO", networkId(x))
    BY <2>5, EdgeEnds DEF DockerJoins
  <2>6. CASE \E l \in d.listeners.items : \E p \in PublishedAs(d, l) :
               e = edge(portId(p[1], p[2]), "PUBLISHED_AS", listenerId(l.key))
    BY <2>6, EdgeEnds DEF DockerJoins
  <2> QED
    BY <2>1, <2>2, <2>3, <2>4, <2>5, <2>6 DEF DockerEdges
<1>2. ASSUME DockerJoins(d, s, relation, t)
      PROVE  \E e \in DockerEdges(d) : e.source = s /\ e.relation = relation /\ e.target = t
  <2>1. edge(s, relation, t) \in DockerEdges(d)
    BY <1>2 DEF DockerJoins, DockerEdges
  <2> QED
    BY <2>1, EdgeEnds
<1> QED
  BY <1>1, <1>2

LEMMA CaddyJoinsAre ==
  ASSUME NEW d, NEW s, NEW relation, NEW t
  PROVE  (\E e \in CaddyEdges(d, Hops(d)) : e.source = s /\ e.relation = relation /\ e.target = t)
         <=> CaddyJoins(d, s, relation, t)
PROOF
<1>1. ASSUME NEW e \in CaddyEdges(d, Hops(d)) PROVE CaddyJoins(d, e.source, e.relation, e.target)
  <2>1. CASE \E c \in d.caddy.instances : /\ \E k \in d.containers : k.id = c.container
                                          /\ e = edge(containerId(c.container), "RUNS", proxyId(c.container))
    BY <2>1, EdgeEnds DEF CaddyJoins
  <2>2. CASE \E h \in Hops(d) : e = edge(h.proxy, "PROXIES_TO", h.id)
    BY <2>2, EdgeEnds DEF CaddyJoins
  <2>3. CASE \E h \in Hops(d) : /\ h.resolution.container # None
                                /\ e = edge(h.id, "RESOLVES_TO", containerId(h.resolution.container.id))
    BY <2>3, EdgeEnds DEF CaddyJoins
  <2>4. CASE \E h \in Hops(d) : \E l \in h.host.listeners : e = edge(h.id, "TARGETS", listenerId(l.key))
    BY <2>4, EdgeEnds DEF CaddyJoins
  <2>5. CASE \E h \in Hops(d) : \E host \in h.hosts : e = DomainEdge(host, "ROUTES_THROUGH", h.proxy, h.route)
    BY <2>5, EdgeEnds DEF CaddyJoins
  <2>6. CASE \E h \in Hops(d) : \E host \in h.hosts : e = DomainEdge(host, "ROUTES_TO", h.id, h.route)
    BY <2>6, EdgeEnds DEF CaddyJoins
  <2> QED
    BY <2>1, <2>2, <2>3, <2>4, <2>5, <2>6 DEF CaddyEdges
<1>2. ASSUME CaddyJoins(d, s, relation, t)
      PROVE  \E e \in CaddyEdges(d, Hops(d)) : e.source = s /\ e.relation = relation /\ e.target = t
  <2>1. CASE relation \in {"ROUTES_THROUGH", "ROUTES_TO"}
    <3>1. \E h \in Hops(d) : \E host \in h.hosts :
            /\ s = domainId(host) /\ DomainEdge(host, relation, t, h.route) \in CaddyEdges(d, Hops(d))
      BY <1>2, <2>1 DEF CaddyJoins, CaddyEdges
    <3> QED
      BY <3>1, EdgeEnds
  <2>2. CASE relation \notin {"ROUTES_THROUGH", "ROUTES_TO"}
    <3>1. edge(s, relation, t) \in CaddyEdges(d, Hops(d))
      BY <1>2, <2>2 DEF CaddyJoins, CaddyEdges
    <3> QED
      BY <3>1, EdgeEnds
  <2> QED
    BY <2>1, <2>2
<1> QED
  BY <1>1, <1>2

GraphJoins(d, s, relation, t) ==
  \/ HostJoins(d, s, relation, t)
  \/ d.docker = "AVAILABLE" /\ (DockerJoins(d, s, relation, t) \/ CaddyJoins(d, s, relation, t))
LEMMA GraphJoinsAre ==
  ASSUME NEW d, NEW s, NEW relation, NEW t
  PROVE  Joins(create(d), s, relation, t) <=> GraphJoins(d, s, relation, t)
PROOF
<1>1. \A e : e \in create(d).edges <=>
        e \in HostEdges(d) \/ (d.docker = "AVAILABLE" /\ (e \in DockerEdges(d) \/ e \in CaddyEdges(d, Hops(d))))
  BY EdgesOfGraph DEF EdgesOf
<1> QED
  BY <1>1, HostJoinsAre, DockerJoinsAre, CaddyJoinsAre DEF Joins, GraphJoins
\* The relations whose ends the pages follow.
LEMMA ParentsAre ==
  ASSUME NEW d, d.docker = "AVAILABLE", NEW c \in d.containers, \A x, y \in d.containers : x.id = y.id => x = y
  PROVE  (UNION {Sources(create(d), relation, containerId(c.id)) : relation \in {"CONTAINS", "RUNS", "EXPOSES", "MOUNTS"}})
           = {Parent(c)}
PROOF
<1>1. ASSUME NEW s, NEW relation \in {"CONTAINS", "RUNS", "EXPOSES", "MOUNTS"},
             s \in Sources(create(d), relation, containerId(c.id))
      PROVE  s = Parent(c)
  <2>1. GraphJoins(d, s, relation, containerId(c.id))
    BY <1>1, JoinedAre, GraphJoinsAre
  <2>2. ~HostJoins(d, s, relation, containerId(c.id))
    BY TypesAre DEF HostJoins
  <2>3. ~CaddyJoins(d, s, relation, containerId(c.id))
    <3>1. relation \notin {"PROXIES_TO", "RESOLVES_TO", "TARGETS", "ROUTES_THROUGH", "ROUTES_TO"}
      OBVIOUS
    <3> QED
      BY <3>1, TypesAre DEF CaddyJoins
  <2>4. DockerJoins(d, s, relation, containerId(c.id))
    BY <2>1, <2>2, <2>3 DEF GraphJoins
  <2>5. \E x \in d.containers : s = Parent(x) /\ containerId(x.id) = containerId(c.id)
    BY <2>4, TypesAre DEF DockerJoins, Parent
  <2> QED
    BY <2>5, IdsAreInjective
<1>2. \E relation \in {"CONTAINS", "RUNS", "EXPOSES", "MOUNTS"} :
        Parent(c) \in Sources(create(d), relation, containerId(c.id))
  <2>1. \E relation \in {"CONTAINS", "RUNS"} : DockerJoins(d, Parent(c), relation, containerId(c.id))
    BY DEF DockerJoins, Parent
  <2>2. \E relation \in {"CONTAINS", "RUNS"} : GraphJoins(d, Parent(c), relation, containerId(c.id))
    BY <2>1 DEF GraphJoins
  <2> QED
    BY <2>2, GraphJoinsAre, JoinedAre
<1> QED
  BY <1>1, <1>2

LEMMA ParentIs ==
  ASSUME NEW d, d.docker = "AVAILABLE", \A x, y \in d.containers : x.id = y.id => x = y
  PROVE  \A c \in d.containers : parentByChild(create(d), containerId(c.id)) = Parent(c)
PROOF
<1>1. ASSUME NEW c \in d.containers PROVE parentByChild(create(d), containerId(c.id)) = Parent(c)
  <2>1. PICK S : S = UNION {Sources(create(d), relation, containerId(c.id))
                            : relation \in {"CONTAINS", "RUNS", "EXPOSES", "MOUNTS"}}
    OBVIOUS
  <2>2. S = {Parent(c)}
    BY <2>1, ParentsAre
  <2>3. parentByChild(create(d), containerId(c.id)) = Only(S)
    BY <2>1 DEF parentByChild
  <2> QED
    BY <2>2, <2>3, OnlyIs
<1> QED
  BY <1>1

\* A hop has its own ID.
LEMMA HopsAreUnique ==
  ASSUME NEW d, \A x, y \in d.caddy.instances : x.container = y.container => x = y,
         NEW g \in Hops(d), NEW h \in Hops(d), g.id = h.id
  PROVE  g = h
PROOF
<1>1. ASSUME NEW x \in Hops(d)
      PROVE  \E c \in d.caddy.instances : \E r, i :
               x = Hop(d, c, r, i) /\ x.id = <<"UPSTREAM", c.container, r, i>>
  <2>1. PICK c \in d.caddy.instances : \E r \in c.routes : \E i \in DOMAIN Backends(r) : x = Hop(d, c, r, i)
    BY HopsAre
  <2>2. PICK r, i : x = Hop(d, c, r, i)
    BY <2>1
  <2> QED
    BY <2>2, HopIs
<1>2. PICK b \in d.caddy.instances : \E r, i : g = Hop(d, b, r, i) /\ g.id = <<"UPSTREAM", b.container, r, i>>
  BY <1>1
<1>3. PICK c \in d.caddy.instances : \E r, i : h = Hop(d, c, r, i) /\ h.id = <<"UPSTREAM", c.container, r, i>>
  BY <1>1
<1>4. PICK r, i : g = Hop(d, b, r, i) /\ g.id = <<"UPSTREAM", b.container, r, i>>
  BY <1>2
<1>5. PICK q, j : h = Hop(d, c, q, j) /\ h.id = <<"UPSTREAM", c.container, q, j>>
  BY <1>3
<1>6. b.container = c.container /\ r = q /\ i = j
  BY <1>4, <1>5
<1>7. b = c
  BY <1>6
<1> QED
  BY <1>4, <1>5, <1>6, <1>7

LEMMA HopTypes == ASSUME NEW d, NEW h \in Hops(d) PROVE type(h.id) = "UPSTREAM"
PROOF
<1>1. \E c, r, i : h = Hop(d, c, r, i)
  BY HopsAre
<1>2. \E c, r, i : h.id = <<"UPSTREAM", c, r, i>>
  BY <1>1, HopIs
<1> QED
  BY <1>2, TypesAre

RouteRelations == {"PROXIES_TO", "RESOLVES_TO", "TARGETS", "ROUTES_THROUGH", "ROUTES_TO"}
DetailRelations == {"EXPOSES", "MOUNTS", "CONNECTED_TO", "PUBLISHED_AS"}

LEMMA RoutesJoin ==
  ASSUME NEW d, d.docker = "AVAILABLE", NEW relation \in RouteRelations, NEW s, NEW t
  PROVE  Joins(create(d), s, relation, t) <=> CaddyJoins(d, s, relation, t)
PROOF
<1>1. ~HostJoins(d, s, relation, t)
  BY DEF HostJoins, RouteRelations
<1>2. ~DockerJoins(d, s, relation, t)
  BY DEF DockerJoins, RouteRelations
<1> QED
  BY <1>1, <1>2, GraphJoinsAre DEF GraphJoins

LEMMA DetailsJoin ==
  ASSUME NEW d, d.docker = "AVAILABLE", NEW relation \in DetailRelations, NEW s, NEW t
  PROVE  Joins(create(d), s, relation, t) <=> DockerJoins(d, s, relation, t)
PROOF
<1>1. ~HostJoins(d, s, relation, t)
  BY DEF HostJoins, DetailRelations
<1>2. ~CaddyJoins(d, s, relation, t)
  BY DEF CaddyJoins, DetailRelations
<1> QED
  BY <1>1, <1>2, GraphJoinsAre DEF GraphJoins

LEMMA ListensJoin ==
  ASSUME NEW d, NEW s, NEW t
  PROVE  Joins(create(d), s, "LISTENS_ON", t) <=> HostJoins(d, s, "LISTENS_ON", t)
PROOF
<1>1. ~DockerJoins(d, s, "LISTENS_ON", t) /\ ~CaddyJoins(d, s, "LISTENS_ON", t)
  BY DEF DockerJoins, CaddyJoins
<1> QED
  BY <1>1, GraphJoinsAre DEF GraphJoins

(***************************************************************************)
(* What is made of finitely many resources is finite.                      *)
(***************************************************************************)

\* Finitely many finite sets cover a finite set.
LEMMA FiniteCover ==
  ASSUME NEW S, IsFiniteSet(S), NEW f, f = [x \in S |-> f[x]], \A x \in S : IsFiniteSet(f[x]),
         NEW T, \A t \in T : \E x \in S : t \in f[x]
  PROVE  IsFiniteSet(T)
PROOF
<1> DEFINE range == {f[x] : x \in S}
<1>1. f \in Surjection(S, range)
  BY DEF Surjection
<1>2. IsFiniteSet(range)
  BY <1>1, FS_Surjection
<1>3. \A r \in range : IsFiniteSet(r)
  OBVIOUS
<1>4. T \in SUBSET UNION range
  OBVIOUS
<1> HIDE DEF range
<1>5. IsFiniteSet(UNION range)
  BY <1>2, <1>3, FS_UNION
<1> QED
  BY <1>4, <1>5, FS_Subset

LEMMA HostIdsFinite ==
  ASSUME NEW S, NEW L, IsFiniteSet(S), IsFiniteSet(L)
  PROVE  IsFiniteSet(HostIds(S, L))
PROOF
<1> DEFINE services == {serviceId(s.unit) : s \in S}
           listeners == {listenerId(l.key) : l \in L}
           f == [s \in S |-> {serviceId(s.unit)}]
           g == [l \in L |-> {listenerId(l.key)}]
<1>1. IsFiniteSet(services)
  <2>1. f = [s \in S |-> f[s]] /\ \A t \in services : \E s \in S : t \in f[s]
    OBVIOUS
  <2>2. \A s \in S : IsFiniteSet(f[s])
    BY FS_Singleton
  <2> HIDE DEF f, services
  <2> QED
    BY <2>1, <2>2, FiniteCover
<1>2. IsFiniteSet(listeners)
  <2>1. g = [l \in L |-> g[l]] /\ \A t \in listeners : \E l \in L : t \in g[l]
    OBVIOUS
  <2>2. \A l \in L : IsFiniteSet(g[l])
    BY FS_Singleton
  <2> HIDE DEF g, listeners
  <2> QED
    BY <2>1, <2>2, FiniteCover
<1>3. HostIds(S, L) = (({serverId} \cup {engineId}) \cup services) \cup listeners
  BY DEF HostIds
<1> HIDE DEF services, listeners
<1>4. IsFiniteSet({serverId} \cup {engineId})
  BY FS_Singleton, FS_Union
<1>5. IsFiniteSet(({serverId} \cup {engineId}) \cup services)
  BY <1>1, <1>4, FS_Union
<1> QED
  BY <1>2, <1>3, <1>5, FS_Union

LEMMA DockerIdsFinite ==
  ASSUME NEW containers, IsFiniteSet(containers),
         \A c \in containers : IsFiniteSet(c.ports) /\ IsFiniteSet(c.networks) /\ IsFiniteSet(c.mounts)
  PROVE  IsFiniteSet(DockerIds(containers))
PROOF
<1> DEFINE Of(c) == ((({projectId(c.project)} \cup {containerId(c.id)}) \cup {portId(c.id, p) : p \in c.ports})
                     \cup {mountId(c.id, m) : m \in c.mounts}) \cup {networkId(n) : n \in c.networks}
           h == [c \in containers |-> Of(c)]
<1>1. ASSUME NEW c \in containers PROVE IsFiniteSet(Of(c))
  <2> DEFINE ports == {portId(c.id, p) : p \in c.ports}
             mounts == {mountId(c.id, m) : m \in c.mounts}
             networks == {networkId(n) : n \in c.networks}
             f == [p \in c.ports |-> {portId(c.id, p)}]
             g == [m \in c.mounts |-> {mountId(c.id, m)}]
             k == [n \in c.networks |-> {networkId(n)}]
  <2>1. IsFiniteSet(ports)
    <3>1. f = [p \in c.ports |-> f[p]] /\ \A t \in ports : \E p \in c.ports : t \in f[p]
      OBVIOUS
    <3>2. \A p \in c.ports : IsFiniteSet(f[p])
      BY FS_Singleton
    <3> HIDE DEF f, ports
    <3> QED
      BY <3>1, <3>2, FiniteCover
  <2>2. IsFiniteSet(mounts)
    <3>1. g = [m \in c.mounts |-> g[m]] /\ \A t \in mounts : \E m \in c.mounts : t \in g[m]
      OBVIOUS
    <3>2. \A m \in c.mounts : IsFiniteSet(g[m])
      BY FS_Singleton
    <3> HIDE DEF g, mounts
    <3> QED
      BY <3>1, <3>2, FiniteCover
  <2>3. IsFiniteSet(networks)
    <3>1. k = [n \in c.networks |-> k[n]] /\ \A t \in networks : \E n \in c.networks : t \in k[n]
      OBVIOUS
    <3>2. \A n \in c.networks : IsFiniteSet(k[n])
      BY FS_Singleton
    <3> HIDE DEF k, networks
    <3> QED
      BY <3>1, <3>2, FiniteCover
  <2>4. Of(c) = ((({projectId(c.project)} \cup {containerId(c.id)}) \cup ports) \cup mounts) \cup networks
    OBVIOUS
  <2> HIDE DEF Of, ports, mounts, networks
  <2>5. IsFiniteSet({projectId(c.project)} \cup {containerId(c.id)})
    BY FS_Singleton, FS_Union
  <2>6. IsFiniteSet(({projectId(c.project)} \cup {containerId(c.id)}) \cup ports)
    BY <2>1, <2>5, FS_Union
  <2>7. IsFiniteSet((({projectId(c.project)} \cup {containerId(c.id)}) \cup ports) \cup mounts)
    BY <2>2, <2>6, FS_Union
  <2> QED
    BY <2>3, <2>4, <2>7, FS_Union
<1>2. \A id \in DockerIds(containers) : \E c \in containers : id \in Of(c)
  BY DEF DockerIds
<1> HIDE DEF Of
<1>3. h = [c \in containers |-> h[c]] /\ \A c \in containers : h[c] = Of(c)
  OBVIOUS
<1>4. /\ \A c \in containers : IsFiniteSet(h[c])
      /\ \A id \in DockerIds(containers) : \E c \in containers : id \in h[c]
  BY <1>1, <1>2, <1>3
<1> HIDE DEF h
<1> QED
  BY <1>3, <1>4, FiniteCover
=============================================================================
