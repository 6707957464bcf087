------------------------------ MODULE TcpHandler ------------------------------
(***************************************************************************)
(* processor/tcp/handler.go: the one handler every TCP connection of the   *)
(* TUN device and of the HTTP CONNECT proxy goes through.  It names the    *)
(* connection (CONNECT target, SNI, HTTP Host, cached binding, reverse     *)
(* lookup), decides a route from the global configuration, executes the    *)
(* route against the applied routing schema and the outbound registry,     *)
(* relays, and at the end of a good relay stores the binding it observed.  *)
(*                                                                         *)
(* Connections run concurrently with each other, with the cache's API and  *)
(* with updates of the configuration and of the routing schema; they read  *)
(* those three at different moments.  Bytes, certificates and dialling are *)
(* abstracted to their outcomes; the two directions of the relay are in    *)
(* Relay.                                                                  *)
(***************************************************************************)
EXTENDS IpDomainCache, FiniteSets

CONSTANTS Conns,        \* connection identities
          Profiles,     \* what a connection may look like: see ProfileOK
          Scenarios,    \* records [prof : Conns -> Profiles, live : BOOLEAN]
          Configs,      \* global configurations
          Schemas,      \* schemas the routing API may apply
          DoH,          \* domains of DNS-over-HTTPS providers
          Local,        \* loopback and private addresses
          Invalid,      \* the zero address of a CONNECT that did not resolve
          NoName        \* the empty host name

VARIABLES prof,         \* the profiles of this run
          live,         \* whether configuration and schema change in this run
          conn,         \* per connection, the handler's local state
          cfg,          \* config.GetGlobalConfig()
          store,        \* GetRoutingApplyStore().ActiveCanonicalSchema()
          registered,   \* names in the outbound registry
          crashed,      \* the process died of a panic nobody recovers
          seen          \* history: name, address, and who gave the name for it: the
                        \* client (CONNECT, SNI, HTTP Host) or the resolver ("dns")

vars == <<cache, now, prof, live, conn, cfg, store, registered, crashed, seen>>

env == <<now, prof, live, cfg, store, registered>>

NoSchema == [toAliang |-> TRUE, toSocks |-> TRUE, upstream |-> "socks", nil |-> TRUE]

NoDNS == [src |-> "none", bound |-> 0, ttl |-> 0]

(* inbound "http" is a CONNECT, whose target host is preset; "tun" has     *)
(* only an address.  port "self" is the proxy's own port on loopback.      *)
(* payload is the name in the first bytes, or "bare" (no name), "raw"      *)
(* (neither TLS nor HTTP), "none" (nothing arrives before the deadline).   *)
ProfileOK(p) ==
  /\ p.inbound \in {"tun", "http"}
  /\ p.port \in {"https", "other", "self"}
  /\ p.dst \in IPs
  /\ p.preset \in Domains \cup {NoName}
  /\ p.payload \in Domains \cup {"bare", "raw", "none"}

ASSUME ProfilesAssumption == \A p \in Profiles : ProfileOK(p)
ASSUME ScenariosAssumption ==
  \A s \in Scenarios : s.prof \in [Conns -> Profiles] /\ s.live \in BOOLEAN

(* MatchDomain: no rule matches the empty name.                            *)
ASSUME NamesAssumption == NoName \notin Domains /\ \A k \in Configs : k.ai \subseteq Domains

Fresh(p) == [pc |-> "new", host |-> p.preset,
             dns |-> IF p.preset = NoName THEN NoDNS
                     ELSE [src |-> "connect", bound |-> 0, ttl |-> DefaultTTL["connect"]],
             route |-> "none", egress |-> "none", wrapped |-> FALSE,
             mitm |-> NoName, http1 |-> FALSE, rivals |-> {}]

-----------------------------------------------------------------------------
(* Routing: the rules compiled from the configuration, and the decision.   *)

(* resolveToSocksUpstreamType and the Enabled flag compiled from it; the   *)
(* switches of SwitchManager have no caller and stay on.                   *)
toSocksEnabled(k) == k.proxy \in {"socks5", "http"}

(* DecideRouteFromSnapshot over the compiled rules: the domains of the     *)
(* enabled AI rules first, then the proxy rules, else direct.              *)
DecideRoute(k, host) ==
  IF host \in k.ai THEN "aliang"
  ELSE IF host \in k.proxyRules /\ toSocksEnabled(k) THEN "socks"
  ELSE "direct"

isCustomerProxyEnabled(k) == k.proxy # "off"

(* The schema RunService bootstraps from the configuration the first time  *)
(* a mode is applied.                                                      *)
bootstrapCanonicalRoutingSchema(k) ==
  [toAliang |-> TRUE, toSocks |-> k.proxy # "none",
   upstream |-> IF k.proxy = "http" THEN "http" ELSE "socks", nil |-> FALSE]

(* registerSocksProxy at start-up; no code registers a proxy named "http". *)
registerBuiltinProxies(k) ==
  {"aliang"} \cup (IF k.proxy = "socks5" THEN {"socks"} ELSE {})

-----------------------------------------------------------------------------

Init ==
  /\ CacheInit
  /\ \E s \in Scenarios : prof = s.prof /\ live = s.live
  /\ conn = [c \in Conns |-> Fresh(prof[c])]
  /\ cfg \in Configs
  /\ registered = registerBuiltinProxies(cfg)
  /\ store \in {NoSchema, bootstrapCanonicalRoutingSchema(cfg)}
  /\ crashed = FALSE
  /\ seen = {<<prof[c].preset, prof[c].dst, "connect">> : c \in Conns}

At(c, label) == ~crashed /\ conn[c].pc = label

(* SetHostName with an observed name: its source, lifetime and the time.   *)
(* The SNI of a DoH provider ends the handling, and with it the connection;*)
(* an HTTP request fixes the application protocol.                         *)
SetHostName(c, d, s) ==
  /\ conn' = [conn EXCEPT ![c].host = d, ![c].pc = IF s = "sni" /\ d \in DoH THEN "closed" ELSE "decide",
                          ![c].wrapped = prof[c].payload # "none",
                          ![c].http1 = s = "http_host",
                          ![c].dns = [src |-> s, bound |-> now, ttl |-> DefaultTTL[s]]]
  /\ seen' = seen \cup {<<d, prof[c].dst, s>>}

(* SetHostNameFromCacheEntry: source and time of the cached binding, and   *)
(* what is left of its lifetime.                                           *)
Named(k, e, label) ==
  [k EXCEPT !.host = e.domain, !.pc = label,
            !.dns = [src |-> e.src, bound |-> e.created, ttl |-> TimeToLive(e)]]

IsTLS(c) == prof[c].port = "https"

(* handleTLS with a preset name: no bytes are read, the buffered           *)
(* connection is a nil pointer, and the diagnostic line dereferences it.   *)
(* The CONNECT proxy has no recover: the process ends.                     *)
TlsPreset(c) ==
  /\ At(c, "new") /\ IsTLS(c) /\ conn[c].host # NoName
  /\ conn' = [conn EXCEPT ![c].pc = "panic"]
  /\ crashed' = TRUE
  /\ UNCHANGED <<env, cache, seen>>

(* Nothing readable before the deadline, or fewer than five bytes: the     *)
(* same nil pointer.  The tunnel's worker recovers, and ends.              *)
TlsNothing(c) ==
  /\ At(c, "new") /\ IsTLS(c) /\ conn[c].host = NoName
  /\ prof[c].payload = "none"
  /\ conn' = [conn EXCEPT ![c].pc = "panic"]
  /\ UNCHANGED <<env, cache, crashed, seen>>

TlsSni(c) ==
  /\ At(c, "new") /\ IsTLS(c) /\ conn[c].host = NoName
  /\ prof[c].payload \in Domains
  /\ SetHostName(c, prof[c].payload, "sni")
  /\ UNCHANGED <<env, cache, crashed>>

TlsBare(c) ==
  /\ At(c, "new") /\ IsTLS(c) /\ conn[c].host = NoName
  /\ prof[c].payload \in {"bare", "raw"}
  /\ conn' = [conn EXCEPT ![c].pc = "lookup", ![c].wrapped = TRUE]
  /\ UNCHANGED <<env, cache, crashed, seen>>

(* The domains the forward index binds to an address right now.            *)
BoundTo(ip) == {d \in Keys(cache) : cache.entries[d].ip = ip
                                    /\ ~IsExpired(cache.entries[d])}

(* Variant for checking the properties: the first binding is good enough.  *)
TlsLookupFirst(c) ==
  LET es == GetByIP(prof[c].dst)
  IN  /\ At(c, "lookup")
      /\ conn' = [conn EXCEPT ![c] =
           IF es # <<>> THEN [Named(@, es[1], "decide") EXCEPT !.rivals = BoundTo(prof[c].dst)]
           ELSE [@ EXCEPT !.pc = "dial", !.route = "direct"]]
      /\ UNCHANGED <<env, cache, crashed, seen>>

(* Without a name only a unique cached binding of the address is trusted;  *)
(* otherwise the connection goes direct.                                   *)
TlsLookup(c) ==
  LET es == GetByIP(prof[c].dst)
      unique == Cardinality({es[i].domain : i \in DOMAIN es}) = 1
  IN  /\ At(c, "lookup")
      /\ conn' = [conn EXCEPT ![c] =
           IF unique THEN [Named(@, es[1], "decide") EXCEPT !.rivals = BoundTo(prof[c].dst)]
           ELSE [@ EXCEPT !.pc = "dial", !.route = "direct"]]
      /\ UNCHANGED <<env, cache, crashed, seen>>

(* handleNonTLS: the proxy's own port is forced to Aliang, a local address *)
(* goes direct.                                                            *)
PlainShortcut(c) ==
  /\ At(c, "new") /\ ~IsTLS(c)
  /\ prof[c].port = "self" \/ prof[c].dst \in Local
  /\ conn' = [conn EXCEPT ![c].pc = "dial",
                ![c].route = IF prof[c].port = "self" THEN "aliang" ELSE "direct"]
  /\ UNCHANGED <<env, cache, crashed, seen>>

Sniffed(c) == At(c, "new") /\ ~IsTLS(c) /\ prof[c].port # "self" /\ prof[c].dst \notin Local

(* An HTTP request with a Host replaces the name; one without keeps it.    *)
PlainHttp(c) ==
  /\ Sniffed(c)
  /\ \/ /\ prof[c].payload \in Domains
        /\ SetHostName(c, prof[c].payload, "http_host")
     \/ /\ prof[c].payload = "bare"
        /\ conn' = [conn EXCEPT ![c].pc = "decide", ![c].wrapped = TRUE, ![c].http1 = TRUE]
        /\ UNCHANGED seen
  /\ UNCHANGED <<env, cache, crashed>>

(* Anything else is named by the address, if it has no name yet.           *)
PlainRaw(c) ==
  /\ Sniffed(c) /\ prof[c].payload \in {"raw", "none"}
  /\ conn' = [conn EXCEPT ![c].pc = "reverse", ![c].wrapped = prof[c].payload = "raw"]
  /\ UNCHANGED <<env, cache, crashed, seen>>

(* enrichMetadataFromReverseLookup: the first cached binding, else the     *)
(* resolver's answer (one of the domains, or none).                        *)
ReverseLookup(c) ==
  LET es == GetByIP(prof[c].dst)
  IN  /\ At(c, "reverse")
      /\ \/ /\ conn[c].host # NoName \/ prof[c].dst = Invalid
            /\ conn' = [conn EXCEPT ![c].pc = "decide"] /\ UNCHANGED seen
         \/ /\ conn[c].host = NoName /\ prof[c].dst # Invalid /\ es # <<>>
            /\ conn' = [conn EXCEPT ![c] = Named(@, es[1], "decide")] /\ UNCHANGED seen
         \/ /\ conn[c].host = NoName /\ prof[c].dst # Invalid /\ es = <<>>
            /\ \/ conn' = [conn EXCEPT ![c].pc = "decide"] /\ UNCHANGED seen
               \/ \E d \in Domains \ DoH : SetHostName(c, d, "dns")
      /\ UNCHANGED <<env, cache, crashed>>

(* DetermineRouteWithContext on the configuration of this moment.  Only a  *)
(* TLS connection to Aliang is intercepted.                                *)
Decide(c) ==
  /\ At(c, "decide")
  /\ LET r == DecideRoute(cfg, conn[c].host)
     IN  conn' = [conn EXCEPT ![c].route = r,
                    ![c].pc = IF IsTLS(c) /\ r = "aliang" THEN "mitm" ELSE "dial"]
  /\ UNCHANGED <<env, cache, crashed, seen>>

(* PerformMITM under the name of the connection; the client may refuse.    *)
(* The application protocol is detected from the decrypted bytes.          *)
PerformMITM(c) ==
  /\ At(c, "mitm")
  /\ \/ \E h \in BOOLEAN :
           conn' = [conn EXCEPT ![c].mitm = conn[c].host, ![c].http1 = h, ![c].pc = "dial"]
     \/ conn' = [conn EXCEPT ![c].pc = "closed"]
  /\ UNCHANGED <<env, cache, crashed, seen>>

(* getToSocksProxyForExecution: the applied schema and the registry decide *)
(* whether the branch can be used, not the configuration.                  *)
ToSocksUsable == /\ store.nil \/ store.toSocks
                 /\ store.upstream = "socks" /\ "socks" \in registered

ToAliangUsable == (store.nil \/ store.toAliang) /\ "aliang" \in registered

Connected(c, e) == conn' = [conn EXCEPT ![c].egress = e, ![c].pc = "relay"]

Closed(c) == conn' = [conn EXCEPT ![c].pc = "closed"]

(* Variant for checking the properties: an unusable branch falls back to a *)
(* direct connection.                                                      *)
DialFallback(c) ==
  /\ At(c, "dial")
  /\ \/ conn[c].route = "aliang" /\ ToAliangUsable /\ Connected(c, "aliang")
     \/ conn[c].route = "socks" /\ ToSocksUsable /\ Connected(c, "socks")
     \/ prof[c].dst # Invalid /\ Connected(c, "direct")
     \/ Closed(c)
  /\ UNCHANGED <<env, cache, crashed, seen>>

(* dialByRoute.  A customer proxy switched off meanwhile sends proxy-rule  *)
(* traffic direct; an unusable branch or a failed dial ends the            *)
(* connection; a direct dial needs an address.                             *)
Dial(c) ==
  /\ At(c, "dial")
  /\ \/ conn[c].route = "aliang" /\ ToAliangUsable /\ Connected(c, "aliang")
     \/ /\ conn[c].route = "socks" /\ isCustomerProxyEnabled(cfg)
        /\ ToSocksUsable /\ Connected(c, "socks")
     \/ /\ conn[c].route = "direct" \/ (conn[c].route = "socks" /\ ~isCustomerProxyEnabled(cfg))
        /\ prof[c].dst # Invalid /\ Connected(c, "direct")
     \/ Closed(c)
  /\ UNCHANGED <<env, cache, crashed, seen>>

(* rules.StoreBinding.  The zero address of an unresolved CONNECT is not   *)
(* "unspecified", so it is stored as well.                                 *)
StoreBinding(c) ==
  LET k == conn[c]
  IN  IF k.host = NoName \/ k.dns.src = "none" THEN cache
      ELSE SetWithTTL(cache, [domain |-> k.host, ip |-> prof[c].dst, src |-> k.dns.src,
                              created |-> k.dns.bound, expires |-> k.dns.bound + k.dns.ttl],
                      k.dns.ttl)

(* The relay ends.  Relay never reports an error; RelayHTTP1, used for     *)
(* HTTP/1 towards Aliang, may, and then no binding is stored.              *)
RelayEnds(c) ==
  /\ At(c, "relay")
  /\ conn' = [conn EXCEPT ![c].pc = "done"]
  /\ \/ cache' = StoreBinding(c)
     \/ conn[c].egress = "aliang" /\ conn[c].http1 /\ UNCHANGED cache
  /\ UNCHANGED <<env, crashed, seen>>

Handle(c) ==
  \/ TlsPreset(c) \/ TlsNothing(c) \/ TlsSni(c) \/ TlsBare(c) \/ TlsLookup(c)
  \/ PlainShortcut(c) \/ PlainHttp(c) \/ PlainRaw(c) \/ ReverseLookup(c)
  \/ Decide(c) \/ PerformMITM(c) \/ Dial(c) \/ RelayEnds(c)

-----------------------------------------------------------------------------
(* The rest of the process.                                                *)

(* A committed customer or core configuration (ConfigCommit) becomes the   *)
(* global one; the registry and the applied schema stay as they are.       *)
SetGlobalConfig ==
  /\ ~crashed /\ live
  /\ cfg' \in Configs \ {cfg}
  /\ UNCHANGED <<cache, now, prof, live, conn, store, registered, crashed, seen>>

(* POST of a routing schema, or the first application of a run mode.       *)
ApplyRouting ==
  /\ ~crashed /\ live
  /\ \/ store' \in Schemas \ {store}
     \/ store.nil /\ store' = bootstrapCanonicalRoutingSchema(cfg)
  /\ UNCHANGED <<cache, now, prof, live, conn, cfg, registered, crashed, seen>>

CacheStep ==
  /\ ~crashed
  /\ \/ Tick \/ Clear \/ cleanup
     \/ \E d \in Domains : Get(d) \/ Delete(d)
  /\ UNCHANGED <<prof, live, conn, cfg, store, registered, crashed, seen>>

Next == (\E c \in Conns : Handle(c)) \/ SetGlobalConfig \/ ApplyRouting \/ CacheStep

Spec == Init /\ [][Next]_vars

-----------------------------------------------------------------------------

TypeOK ==
  /\ CacheTypeOK
  /\ \A c \in Conns :
       /\ conn[c].pc \in {"new", "lookup", "reverse", "decide", "mitm", "dial",
                          "relay", "done", "closed", "panic"}
       /\ conn[c].host \in Domains \cup {NoName}
       /\ conn[c].route \in {"none", "aliang", "socks", "direct"}
       /\ conn[c].egress \in {"none", "aliang", "socks", "direct"}
       /\ conn[c].dns.ttl \in Nat
  /\ cfg \in Configs
  /\ crashed \in BOOLEAN

Relaying(c) == conn[c].pc \in {"relay", "done"}

(* A TLS connection that showed no name of its own is intercepted only     *)
(* under a cached name that was given for the same address, in the way the *)
(* binding says: a client showed it on a connection to that address, or    *)
(* the resolver's reverse lookup answered it.  No other domain was bound   *)
(* to the address when the cache was asked.  The second is the promise of  *)
(* handler.go:529-530 ("unique cached IP->domain binding"); the comment of *)
(* the function (466-468) promises more, that only identifiers observed on *)
(* the current connection are trusted, and is not what the code does.      *)
CachedNameIsSafe ==
  \A c \in Conns : IsTLS(c) /\ prof[c].payload \notin Domains /\ conn[c].mitm # NoName =>
    /\ <<conn[c].mitm, prof[c].dst, conn[c].dns.src>> \in seen
    /\ conn[c].rivals \subseteq {conn[c].mitm}

(* Traffic the decision sends to Aliang leaves through Aliang or not at    *)
(* all, however the configuration, the schema and the registry change      *)
(* between decision and dial; over TLS it is intercepted, and nothing else *)
(* ever is.                                                                *)
AliangOrNothing ==
  \A c \in Conns : Relaying(c) =>
    /\ conn[c].route = "aliang" <=> conn[c].egress = "aliang"
    /\ conn[c].mitm # NoName <=> IsTLS(c) /\ conn[c].egress = "aliang"
    /\ conn[c].egress = "socks" => conn[c].route = "socks"

(* handler.go lines 464-467: a TLS connection without a readable name is   *)
(* routed direct, and a CONNECT target is an explicit host name; neither   *)
(* is said to end the handler by a panic.                                  *)
HandlerSurvives == ~crashed /\ \A c \in Conns : conn[c].pc # "panic"

=============================================================================
