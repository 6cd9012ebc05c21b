----------------------------- MODULE MCDeployment -----------------------------
(* Deployment on small sets of bodies.                                      *)
EXTENDS Deployment

Protocol(type, port) == [type |-> type, port |-> port, edge |-> 0, path |-> "/a"]
Tunnel(type, port, edge, path) == [type |-> type, port |-> port, edge |-> edge, path |-> path]

Direct(policy, host, protocols) ==
  [policy |-> policy, ingress |-> "direct", kind |-> "none", host |-> host, origin |-> 0, protocols |-> protocols]
Tunnels(kind, host, origin, protocols) ==
  [policy |-> "auto", ingress |-> "cloudflare_tunnel", kind |-> kind, host |-> host, origin |-> origin,
   protocols |-> protocols]

Ports == {443, 8443}
Singles == {{Protocol(type, port)} : type \in PROFILE_TYPES, port \in Ports}
Pairs == {{Protocol("shadowsocks-aead", 8443), Protocol(type, port)} :
            type \in {"vless-reality-vision", "hysteria2"}, port \in Ports}
Websockets ==
  {{Tunnel("vless-tls-websocket", port, edge, path)} : port \in {8443, 18080}, edge \in {443, 8443}, path \in {"/a", "/b"}}
Both == {{Tunnel("vless-tls-websocket", 8443, 443, "/a"), Tunnel("trojan-tls-websocket", port, edge, path)} :
           port \in {8443, 9443}, edge \in {443, 2053}, path \in {"/a", "/b"}}

MCBodies ==
  {Direct(policy, host, protocols) : policy \in {"auto", "user"}, host \in {"a.example", "192.0.2.1"},
                                     protocols \in Singles \cup Pairs}
  \cup {Tunnels(kind, "a.example", 18080, protocols) : kind \in {"quick", "named"}, protocols \in Websockets \cup Both}

MCEdits ==
  {Direct("auto", "a.example", {Protocol("hysteria2", 8443)}),
   Direct("auto", "b.example", {Protocol("hysteria2", 8443), Protocol("trojan-tls", 443)}),
   Direct("auto", "a.example", {Protocol("shadowsocks-aead", 8443)}),
   Tunnels("named", "a.example", 18080, {Tunnel("vless-tls-websocket", 8443, 443, "/b")}),
   Tunnels("named", "b.example", 18080, {Tunnel("trojan-tls-websocket", 8443, 443, "/a")}),
   Tunnels("named", "b.example", 8443, {Tunnel("trojan-tls-websocket", 18080, 443, "/a")}),
   Tunnels("quick", "a.example", 18080, {Tunnel("vless-tls-websocket", 9443, 443, "/b")})}
=============================================================================
