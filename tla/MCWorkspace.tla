---------------------------- MODULE MCWorkspace ----------------------------
(***************************************************************************)
(* Five scans of one server for Workspace: as it usually is, with a second *)
(* replica and without the database, with more projects and a container    *)
(* behind two domains, with part of the host unseen, and one that reached  *)
(* only the host.                                                          *)
(***************************************************************************)
EXTENDS Workspace

Container(name, project, service, networks, ports) ==
  [id |-> name, name |-> name, project |-> project, service |-> service, state |-> "running",
   networks |-> networks, ports |-> ports, mounts |-> {}]
Port(port, binding) == [port |-> port, protocol |-> "tcp", binding |-> binding]
Dial(kind, host, port) == [kind |-> kind, host |-> host, port |-> port]
Forward(host, dial) == [hosts |-> {host}, upstreams |-> <<dial>>, dynamic |-> FALSE]
Listening(key, port, unit) ==
  [key |-> key, protocol |-> "tcp", port |-> port, loopback |-> FALSE, unit |-> unit,
   ownership |-> IF unit = None THEN "UNRESOLVED" ELSE "SYSTEMD_SERVICE"]

Web == Container("shop-web-1", "shop", "web", {"front"}, {Port(80, None)})
Replica == [Web EXCEPT !.id = "shop-web-2", !.name = "shop-web-2"]
Caddy == Container("caddy", None, None, {"front"}, {})
Database == [Container("db", "data", "db", {"back"}, {Port(5432, "any:5432")}) EXCEPT !.mounts = {"data"}]

Usual ==
  [docker |-> "AVAILABLE", containers |-> {Web, Caddy, Database},
   caddy |-> [state |-> "DISCOVERED",
              instances |-> {[container |-> "caddy", name |-> "caddy",
                              routes |-> {Forward("shop.example", Dial("DOCKER_NAME", "web", 80)),
                                          Forward("api.example", Dial("HOST_TARGET", None, 9000))}]}],
   systemd |-> [state |-> "DISCOVERED",
                services |-> {[unit |-> "app", active |-> "active"], [unit |-> "cron", active |-> "active"]}],
   listeners |-> [state |-> "DISCOVERED",
                  items |-> {Listening("any:9000", 9000, "app"), Listening("any:5432", 5432, None)}]]

Shop == Forward("shop.example", Dial("DOCKER_NAME", "web", 80))
Grown ==
  [Usual EXCEPT
     !.containers = @ \cup {Container("shop-queue", "shop", "queue", {"front", "back"}, {}),
                            Container("blog", "blog", "blog", {"front"}, {Port(80, "any:8080"), Port(81, None)}),
                            [Container("backup", None, None, {"back"}, {}) EXCEPT !.mounts = {"data", "archive"}]},
     !.caddy.instances = {[c EXCEPT !.routes = @ \cup {[Shop EXCEPT !.hosts = {"www.example"}],
                                                        [Shop EXCEPT !.upstreams = <<>>, !.hosts = {}]}] : c \in @}]
Partial ==
  [Usual EXCEPT !.caddy = [state |-> "CONFIG_UNAVAILABLE", instances |-> {[c EXCEPT !.routes = {}] : c \in @.instances}],
                !.systemd = [state |-> "PARTIAL", services |-> {[unit |-> "cron", active |-> "inactive"]}],
                !.listeners = [state |-> "PARTIAL", items |-> {Listening("any:5432", 5432, None)}]]

MCScans ==
  [usual |-> Usual, grown |-> Grown, partial |-> Partial,
   replica |-> [Usual EXCEPT !.containers = {Web, Replica, Caddy}],
   host |-> [docker |-> "HELPER_NOT_INSTALLED", containers |-> {},
             caddy |-> [state |-> "NOT_DETECTED", instances |-> {}],
             systemd |-> [state |-> "UNKNOWN", services |-> {}],
             listeners |-> [state |-> "UNKNOWN", items |-> {}]]]
=============================================================================
