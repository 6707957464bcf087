---------------------------- MODULE MCTcpHandler ----------------------------
(* Three connections per scenario, chosen so that names, addresses and     *)
(* lifetimes meet: "a" has an AI rule, "b" a proxy rule, "d" none, "g" is a *)
(* DoH provider; x is public, l local, inv that of an unresolved name.     *)
EXTENDS TcpHandler, TLC

CONSTANTS c1, c2, c3, a, b, d, g, x, l, inv

P(i, p, ip, n, f) == [inbound |-> i, port |-> p, dst |-> ip, preset |-> n, payload |-> f]

Tls(ip, f) == P("tun", "https", ip, NoName, f)
Plain(ip, f) == P("tun", "other", ip, NoName, f)

S(moving, p1, p2, p3) == [live |-> moving, prof |-> (c1 :> p1 @@ c2 :> p2 @@ c3 :> p3)]

MCScenarios ==
  { S(FALSE, Tls(x, a), Tls(x, b), Tls(x, "bare")),
    S(FALSE, Plain(x, "raw"), Plain(x, a), Tls(x, "raw")),
    S(FALSE, Plain(x, "raw"), Plain(x, a), Tls(x, b)),
    S(TRUE, P("http", "https", x, a, "raw"), Tls(x, a), Tls(x, b)),
    S(TRUE, P("http", "other", inv, a, "raw"), P("http", "self", l, NoName, "bare"), Plain(l, "raw")),
    S(TRUE, Tls(x, g), Tls(x, "none"), Plain(x, "bare")) }

MCProfiles == UNION {{s.prof[c] : c \in Conns} : s \in MCScenarios}

MCConfigs == { [ai |-> {a}, proxyRules |-> {a, b}, proxy |-> "socks5"],
               [ai |-> {a}, proxyRules |-> {b}, proxy |-> "off"] }

MCSchemas == { [toAliang |-> FALSE, toSocks |-> TRUE, upstream |-> "http", nil |-> FALSE] }
=============================================================================
