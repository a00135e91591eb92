----------------------------- MODULE MCEvidence -----------------------------
(***************************************************************************)
(* A small server for Evidence: a shop behind Caddy, a database on its own *)
(* and a service of the host, and the ways it may change between scans.    *)
(***************************************************************************)
EXTENDS Evidence

Container(name, project, service, networks, ports) ==
  [id |-> name, name |-> name, project |-> project, service |-> service, state |-> "running",
   networks |-> networks, ports |-> ports, mounts |-> {}]
Port(port, binding) == [port |-> port, protocol |-> "tcp", binding |-> binding]

Web == Container("shop-web-1", "shop", "web", {"front"}, {Port(80, None)})
Replica == Container("shop-web-2", "shop", "web", {"front"}, {Port(80, None)})
Caddy == Container("caddy", None, None, {"front"}, {})
Database == [Container("db", None, None, {"back"}, {Port(5432, "any:5432")}) EXCEPT !.mounts = {"data"}]

Dial(kind, host, port) == [kind |-> kind, host |-> host, port |-> port]
Route(hosts, dial) == [hosts |-> hosts, upstreams |-> <<dial>>, dynamic |-> FALSE]
ToWeb == Route({"shop.example"}, Dial("DOCKER_NAME", "web", 80))
ToHost == Route({"shop.example", "api.example"}, Dial("HOST_TARGET", None, 9000))

Service(unit) == [unit |-> unit, active |-> "active"]
Listening(key, port, owners) == [key |-> key, port |-> port, loopback |-> FALSE, owners |-> owners]

Usual ==
  [containers |-> {Web, Caddy, Database},
   caddies |-> {[container |-> "caddy", name |-> "caddy", routes |-> {ToWeb, ToHost}]},
   services |-> {Service("app")},
   listeners |-> {Listening("any:9000", 9000, {"app"}), Listening("any:5432", 5432, {})}]

MCWorlds ==
  {Usual,
   \* the shop has a second replica, and its route is ambiguous; the database
   \* moved to the other network and is no longer published
   [Usual EXCEPT !.containers = {Web, Replica, Caddy, [Database EXCEPT !.networks = {"front"}, !.ports = {}]},
                 !.listeners = {Listening("any:9000", 9000, {"app"})}],
   \* the shop and its route are gone
   [Usual EXCEPT !.containers = {Caddy, Database},
                 !.caddies = {[container |-> "caddy", name |-> "caddy", routes |-> {ToHost}]}],
   \* another service listens in place of the first one, which took another address
   [Usual EXCEPT !.services = {Service("app"), Service("worker")},
                 !.listeners = {Listening("any:9000", 9000, {"worker"}), Listening("lan:9000", 9000, {"app"})}],
   \* Caddy and the service of the host are gone
   [Usual EXCEPT !.containers = {Web, Database}, !.caddies = {}, !.services = {},
                 !.listeners = {Listening("any:5432", 5432, {})}]}

UsualOnly == {Usual}
=============================================================================
