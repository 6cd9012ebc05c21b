------------------------------- MODULE Profiles -------------------------------
(***************************************************************************)
(* The rules of src/domain.ts, the validation of api.ts and the renderers  *)
(* of src/subscriptions.ts: which protocols a VPS may be given, what its   *)
(* sing-box is told to listen on, and what its clients are told to dial.   *)
(*                                                                         *)
(* A protocol is [type, port, edge, path, domain]: listen_port, edge_port, *)
(* websocket_path and tls_server_name; "" and 0 stand for a setting the    *)
(* protocol does not have.  Keys, e-mail, ALPN and everything else both    *)
(* sides copy from one place are left out.                                 *)
(***************************************************************************)
EXTENDS Naturals, FiniteSets

CONSTANT Domains   \* the hosts that are domain names, as hostname() tests them

PROFILE_TYPES ==
  {"vless-reality-vision", "shadowsocks-aead", "vless-tls-websocket", "vless-tls-grpc",
   "hysteria2", "tuic", "trojan-tls", "trojan-tls-websocket"}
ACME_PROFILE_TYPES == PROFILE_TYPES \ {"vless-reality-vision", "shadowsocks-aead"}
TUNNEL_PROFILE_TYPES == {"vless-tls-websocket", "trojan-tls-websocket"}

TUNNEL_EDGE_PORTS(kind) ==
  IF kind = "quick" THEN {443} ELSE {443, 2053, 2083, 2087, 2096, 8443}

\* Mutant of profileNetworks: Shadowsocks is taken for a TCP protocol.
profileNetworksTcp(type) == IF type \in {"hysteria2", "tuic"} THEN {"udp"} ELSE {"tcp"}

profileNetworks(type) ==
  CASE type \in {"hysteria2", "tuic"} -> {"udp"}
    [] type = "shadowsocks-aead"      -> {"tcp", "udp"}
    [] OTHER                          -> {"tcp"}

Privileged(port) == port <= 1024
Tunnelled(ingress) == ingress = "cloudflare_tunnel"

\* Domains to have a certificate for.  All TLS protocols of one body get one
\* e-mail, so the check that a domain has one e-mail cannot fail.
certificateRequirements(protocols, ingress) ==
  IF Tunnelled(ingress) THEN {} ELSE {p.domain : p \in {q \in protocols : q.type \in ACME_PROFILE_TYPES}}

-----------------------------------------------------------------------------
(* Validation                                                               *)

\* Two protocols that sing-box could not both listen for.
Clash(p, q) == p.port = q.port /\ profileNetworks(p.type) \cap profileNetworks(q.type) # {}

Distinct(protocols, field) == \A p, q \in protocols : p # q => p[field] # q[field]

\* validateDeploymentPorts; mode is the policy or the mode of an installed agent.
DeploymentPortsValid(mode, ingress, protocols) ==
  IF Tunnelled(ingress)
    THEN /\ Cardinality(protocols) <= 2
         /\ \A p \in protocols : p.type \in TUNNEL_PROFILE_TYPES /\ ~Privileged(p.port)
         /\ Distinct(protocols, "port") /\ Distinct(protocols, "path")
    ELSE /\ mode = "user" => \A p \in protocols : ~Privileged(p.port) /\ p.type \notin ACME_PROFILE_TYPES
         /\ \A p, q \in protocols : p # q => ~Clash(p, q)

\* validateTunnelProfiles, validateTunnelOrigin and tunnelOriginPort.
TunnelValid(kind, origin, protocols) ==
  /\ kind = "quick" => Cardinality(protocols) = 1
  /\ \A p \in protocols : p.edge \in TUNNEL_EDGE_PORTS(kind) /\ p.port # origin
  /\ Distinct(protocols, "edge")
  /\ ~Privileged(origin)

requiresSystemDeployment(ingress, protocols) ==
  /\ ~Tunnelled(ingress)
  /\ \E p \in protocols : Privileged(p.port) \/ p.type \in ACME_PROFILE_TYPES

\* What is stored of one submitted protocol: parseProfileSettings, after
\* submittedProtocols gave direct TLS protocols the host of the VPS.
parseProfileSettings(p, ingress, host) ==
  [type |-> p.type, port |-> p.port,
   edge |-> IF Tunnelled(ingress) THEN p.edge ELSE 0,
   path |-> IF p.type \in TUNNEL_PROFILE_TYPES THEN p.path ELSE "",
   domain |-> IF ~Tunnelled(ingress) /\ p.type \in ACME_PROFILE_TYPES THEN host ELSE ""]

submittedProtocols(body, host) == {parseProfileSettings(p, body.ingress, host) : p \in body.protocols}

\* The body is accepted: one protocol of a type, a certificate needs a domain,
\* a direct entry and a named tunnel need a host.
BodyValid(body, host, origin) ==
  LET protocols == submittedProtocols(body, host)
  IN  /\ protocols # {} /\ Distinct(protocols, "type")
      /\ body.kind # "quick" => host # ""
      /\ certificateRequirements(protocols, body.ingress) \subseteq Domains
      /\ DeploymentPortsValid(body.policy, body.ingress, protocols)
      /\ Tunnelled(body.ingress) => TunnelValid(body.kind, origin, protocols)

-----------------------------------------------------------------------------
(* What the server runs and what the clients dial                           *)

\* How the two sides talk: protocol, credentials, what encrypts, what carries.
Shape(proto, login, security, transport) ==
  [proto |-> proto, login |-> login, security |-> security, transport |-> transport]

ServerShape(type, ingress) ==
  LET tls == IF Tunnelled(ingress) THEN "none" ELSE "tls"
  IN  CASE type = "vless-reality-vision" -> Shape("vless", "uuid+vision", "reality", "tcp")
        [] type = "shadowsocks-aead"     -> Shape("shadowsocks", "key+password", "none", "tcp")
        [] type = "vless-tls-websocket"  -> Shape("vless", "uuid", tls, "ws")
        [] type = "vless-tls-grpc"       -> Shape("vless", "uuid", "tls", "grpc")
        [] type = "hysteria2"            -> Shape("hysteria2", "password", "tls", "obfs")
        [] type = "tuic"                 -> Shape("tuic", "uuid+password", "tls", "quic")
        [] type = "trojan-tls"           -> Shape("trojan", "password", "tls", "tcp")
        [] type = "trojan-tls-websocket" -> Shape("trojan", "password", tls, "ws")

\* The inbounds of a configuration.
compileServerProfiles(protocols, ingress) ==
  {[shape |-> ServerShape(p.type, ingress), port |-> p.port, path |-> p.path, domain |-> p.domain,
    loopback |-> Tunnelled(ingress)] : p \in protocols}

\* The shape of a type in a sing-box, a Mihomo and a URI subscription.
singOutbound(type) ==
  CASE type = "vless-reality-vision" -> Shape("vless", "uuid+vision", "reality", "tcp")
    [] type = "shadowsocks-aead"     -> Shape("shadowsocks", "key+password", "none", "tcp")
    [] type = "vless-tls-websocket"  -> Shape("vless", "uuid", "tls", "ws")
    [] type = "vless-tls-grpc"       -> Shape("vless", "uuid", "tls", "grpc")
    [] type = "hysteria2"            -> Shape("hysteria2", "password", "tls", "obfs")
    [] type = "tuic"                 -> Shape("tuic", "uuid+password", "tls", "quic")
    [] type = "trojan-tls"           -> Shape("trojan", "password", "tls", "tcp")
    [] type = "trojan-tls-websocket" -> Shape("trojan", "password", "tls", "ws")

mihomoProxy(type) ==
  LET proto == CASE type \in {"vless-reality-vision", "vless-tls-websocket", "vless-tls-grpc"} -> "vless"
                 [] type = "shadowsocks-aead" -> "shadowsocks"
                 [] type \in {"trojan-tls", "trojan-tls-websocket"} -> "trojan"
                 [] OTHER -> type
      login == CASE type = "vless-reality-vision" -> "uuid+vision"
                 [] type \in {"vless-tls-websocket", "vless-tls-grpc"} -> "uuid"
                 [] proto = "shadowsocks" -> "key+password"
                 [] proto = "tuic" -> "uuid+password"
                 [] OTHER -> "password"
  IN  Shape(proto, login,
            CASE type = "vless-reality-vision" -> "reality"
              [] type = "shadowsocks-aead" -> "none"
              [] OTHER -> "tls",
            CASE type \in TUNNEL_PROFILE_TYPES -> "ws"
              [] type = "vless-tls-grpc" -> "grpc"
              [] type = "hysteria2" -> "obfs"
              [] type = "tuic" -> "quic"
              [] OTHER -> "tcp")

\* uri branches on the scheme first; what is left at the end is Trojan over TCP.
uri(type) ==
  CASE type = "vless-reality-vision" -> Shape("vless", "uuid+vision", "reality", "tcp")
    [] type = "vless-tls-websocket"  -> Shape("vless", "uuid", "tls", "ws")
    [] type = "vless-tls-grpc"       -> Shape("vless", "uuid", "tls", "grpc")
    [] type = "shadowsocks-aead"     -> Shape("shadowsocks", "key+password", "none", "tcp")
    [] type = "hysteria2"            -> Shape("hysteria2", "password", "tls", "obfs")
    [] type = "tuic"                 -> Shape("tuic", "uuid+password", "tls", "quic")
    [] type = "trojan-tls-websocket" -> Shape("trojan", "password", "tls", "ws")
    [] OTHER                         -> Shape("trojan", "password", "tls", "tcp")

FORMATS == {"sing-box", "mihomo", "shadowsocks", "uri"}

ClientShape(format, type) ==
  CASE format = "mihomo" -> mihomoProxy(type)
    [] format = "uri"    -> uri(type)
    [] OTHER             -> singOutbound(type)

\* Mutant of expand: the port sing-box listens on, also behind a tunnel.
expandListen(node, p) ==
  [server |-> node.host, sni |-> IF Tunnelled(node.ingress) THEN node.host ELSE p.domain,
   port |-> p.port, path |-> p.path]

\* Where a client is sent for one protocol: a tunnel is dialled at its edge.
\* The server_address of a direct TLS protocol is its domain.
expand(node, p) ==
  IF Tunnelled(node.ingress)
    THEN [server |-> node.host, sni |-> node.host, port |-> p.edge, path |-> p.path]
    ELSE [server |-> IF p.domain # "" THEN p.domain ELSE node.host, sni |-> p.domain,
          port |-> p.port, path |-> p.path]

\* The entries of a subscription for one node; the Shadowsocks format (SIP008)
\* lists only the Shadowsocks protocol.
Entries(format, node) ==
  {[shape |-> ClientShape(format, p.type), at |-> expand(node, p)] :
     p \in {q \in node.protocols : format = "shadowsocks" => q.type = "shadowsocks-aead"}}

-----------------------------------------------------------------------------
(* What sing-box, cloudflared and Cloudflare make of it                     *)

\* The networks an inbound of sing-box listens on.
Listens(in) ==
  CASE in.shape.proto \in {"hysteria2", "tuic"} -> {"udp"}
    [] in.shape.proto = "shadowsocks"           -> {"tcp", "udp"}
    [] OTHER                                    -> {"tcp"}

\* websocketRoutes: what the agent's router does with a request path.
websocketRoutes(inbounds) == {[path |-> in.path, port |-> in.port] : in \in {i \in inbounds : i.shape.transport = "ws"}}

\* A direct client reaches an inbound that speaks its language.
ReachesDirect(entry, inbounds) ==
  \E in \in inbounds : /\ in.port = entry.at.port /\ ~in.loopback
                       /\ in.shape = entry.shape /\ in.path = entry.at.path /\ in.domain = entry.at.sni

\* A client behind a tunnel: the edge ends its TLS, cloudflared hands the
\* request to the router and the router to a loopback inbound without TLS.
ReachesTunnel(entry, kind, host, inbounds) ==
  /\ entry.at.server = host /\ entry.at.port \in TUNNEL_EDGE_PORTS(kind)
  /\ entry.shape.security = "tls"
  /\ \E route \in websocketRoutes(inbounds), in \in inbounds :
       /\ route.path = entry.at.path /\ in.port = route.port /\ in.loopback
       /\ in.shape = [entry.shape EXCEPT !.security = "none"] /\ in.path = entry.at.path
=============================================================================
