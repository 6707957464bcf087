----------------------------- MODULE MCDataPlane -----------------------------
(***************************************************************************)
(* The components that carry traffic, for TLC: the HTTP watcher, the       *)
(* HTTP/1 relay, the routing schema and GeoIP, the DNS resolvers, the      *)
(* statistics and the outbounds.  They share no state, so each behaviour   *)
(* is one of one part, and the others keep one initial value.              *)
(***************************************************************************)
EXTENDS HttpWatcher, Http1Relay, Routing, DnsResolver, Statistics, Outbound

CONSTANTS g1, g2, o1, o2, c2   \* callers of the resolver, dials, a connection

-----------------------------------------------------------------------------
(* Requests as the watcher meets them: bodies by length and by chunks that *)
(* hold what looks like the end of a header, header blocks over one or two *)
(* frames, trailers, blocks that are cut off and blocks HPACK refuses.     *)

LookAlike == HeadEnd(0, FALSE, <<>>, FALSE, TRUE)
WithLength(body, own, valid) ==
  [kind |-> "length", host |-> <<"api", "prov">>, body |-> body, own |-> own, valid |-> valid]
Chunked(valid) ==
  [kind |-> "chunked", host |-> <<"prov">>, chunks |-> <<<<LookAlike>>, CRLF>>,
   trailers |-> <<U("line")>> \o CRLF, valid |-> valid]
BlockOf(s, n, es, initial, valid) ==
  [kind |-> "block", host |-> <<"x", "api", "prov">>, s |-> s, frames |-> n, es |-> es,
   initial |-> initial, valid |-> valid]
FrameOf(t, s, es) == [kind |-> "frame", t |-> t, s |-> s, es |-> es]
Preface == [kind |-> "preface"]

Quiet == <<[kind |-> "other", units |-> <<>>]>>

MCConversations ==
  { Quiet,
    <<WithLength(<<U("line"), LookAlike>>, FALSE, TRUE), Chunked(TRUE), WithLength(<<>>, TRUE, TRUE)>>,
    <<Chunked(FALSE), WithLength(<<>>, FALSE, TRUE)>>,
    <<WithLength(<<>>, FALSE, TRUE), WithLength(<<>>, FALSE, FALSE)>>,
    <<[kind |-> "other", units |-> <<U("tls"), U("line"), U("line")>>]>>,
    <<Preface, FrameOf("SETTINGS", 0, FALSE), BlockOf(1, 2, FALSE, TRUE, TRUE), FrameOf("DATA", 1, FALSE),
      BlockOf(1, 1, TRUE, FALSE, TRUE), FrameOf("WINDOW_UPDATE", 1, FALSE), FrameOf("GOAWAY", 0, FALSE)>>,
    <<Preface, BlockOf(1, 1, TRUE, TRUE, TRUE), BlockOf(3, 1, FALSE, TRUE, TRUE), FrameOf("DATA", 3, TRUE),
      FrameOf("RST_STREAM", 1, FALSE), BlockOf(5, 1, TRUE, TRUE, TRUE)>>,
    <<Preface, BlockOf(1, 1, TRUE, TRUE, TRUE), [kind |-> "cutBlock", s |-> 3],
      BlockOf(5, 1, TRUE, TRUE, TRUE)>>,
    <<Preface, BlockOf(1, 2, TRUE, TRUE, FALSE), BlockOf(3, 1, TRUE, TRUE, TRUE)>> }

MCAIRules ==
  { [target |-> <<"openai">>, enabled |-> TRUE,
     include |-> {[wildcard |-> TRUE, labels |-> <<"prov">>]}],
    [target |-> <<"anth">>, enabled |-> FALSE,
     include |-> {[wildcard |-> FALSE, labels |-> <<"prov">>]}] }

-----------------------------------------------------------------------------
(* Routing payloads: rules of every type, enabled and not, that name open  *)
(* and closed egresses; unsupported versions, legacy and unreadable text.  *)

Pattern(w, labels) == [wildcard |-> w, labels |-> labels]
NoPattern == Pattern(FALSE, <<>>)
RuleOf(type, pattern, range, enabled, target) ==
  [type |-> type, pattern |-> pattern, range |-> range, enabled |-> enabled, target |-> target]

RuleLists ==
  { <<>>,
    << RuleOf("domain", Pattern(TRUE, <<"ai">>), {}, TRUE, "toAliang"),
       RuleOf("ip", NoPattern, {<<"ip1">>}, TRUE, "toSocks") >>,
    << RuleOf("ip", NoPattern, {<<"ip1">>}, FALSE, "toSocks"),
       RuleOf("geoip", NoPattern, {<<"ip2">>}, TRUE, "toSocks"),
       RuleOf("domain", Pattern(FALSE, <<"ai">>), {}, TRUE, "direct"),
       RuleOf("ip", NoPattern, {<<"ip1">>, <<"ip2">>}, TRUE, "toAliang") >>,
    << RuleOf("ip", NoPattern, {<<"ip1">>}, TRUE, "deny") >> }

MCPayloads ==
  [kind : {"canonical"}, version : {0}, mode : {""}, direct : {TRUE}, toAliang : BOOLEAN,
   toSocks : BOOLEAN, upstream : {"socks"}, rules : RuleLists, default : {"", "toAliang"}]
  \union [kind : {"canonical"}, version : {1, 2}, mode : {"http"}, direct : BOOLEAN,
          toAliang : {TRUE}, toSocks : {TRUE}, upstream : {"", "http"}, rules : {<<>>},
          default : {"toSocks"}]
  \union {[kind |-> "legacy"], [kind |-> "garbage"]}

MCConfigs ==
  [ai : {<<>>, <<Pattern(TRUE, <<"ai">>)>>},
   proxyRules : {<<>>, <<Pattern(FALSE, <<"ai">>), Pattern(TRUE, <<"ai">>)>>},
   proxy : {"none", "http"}, proxyServer : {TRUE}]

MCDomains == {<<>>, <<"api", "ai">>, <<"ai">>}
MCAddresses == {<<"ip1">>, <<"ip2">>}

MCPeriod == [s \in {"5s", "15s"} |-> IF s = "5s" THEN 2 ELSE 3]

\* Callers of the resolver meet in the caches: the second one uses those of a fallback chain.
\* Dials meet in the state of the Aliang link and in the lock of VLESS: the second dial is of these,
\* and one of VLESS only waits for another of VLESS.
Shared == {NoDial.proto, "aliang", "vless"}

-----------------------------------------------------------------------------

VARIABLE part

Only(p, x, value) == part # p => x = value

Init ==
  /\ part \in {"watcher", "http1", "store", "geo", "dns", "traffic", "httpStats", "outbound"}
  /\ WatcherInit /\ Only("watcher", conversation, Quiet)
                 /\ Only("watcher", session, FALSE)
  /\ Http1Init /\ Only("http1", interim, FALSE)
  /\ RoutingInit /\ (part \notin {"store", "geo"} => customer = CHOOSE c \in MCConfigs : TRUE)
  /\ DnsInit /\ StatisticsInit
  /\ OutboundInit /\ Only("outbound", creds, "none")

Next ==
  \/ /\ part = "watcher" /\ WatcherNext
     /\ UNCHANGED <<part, http1Vars, routingVars, dnsVars, statisticsVars, outboundVars>>
  \/ /\ part = "http1" /\ Http1Next
     /\ UNCHANGED <<part, watcherVars, routingVars, dnsVars, statisticsVars, outboundVars>>
  \/ /\ part = "store" /\ StoreNext
     /\ UNCHANGED <<part, watcherVars, http1Vars, dnsVars, statisticsVars, outboundVars>>
  \/ /\ part = "geo" /\ (GeoNext \/ EvaluateRoute \/ ManageEngine)
     /\ UNCHANGED <<part, watcherVars, http1Vars, dnsVars, statisticsVars, outboundVars>>
  \/ /\ part = "dns" /\ DnsNext
     /\ dnsCall'[g2].name \notin Literals
     /\ dnsCall'[g2].method \in {Idle.method, "ResolveWithFallback", "Preload"}
     /\ UNCHANGED <<part, watcherVars, http1Vars, routingVars, statisticsVars, outboundVars>>
  \/ /\ part = "traffic" /\ TrafficNext
     /\ tracked'[c2].route # "RouteDirect"     \* one connection that may be direct and one that is not
     /\ UNCHANGED <<part, watcherVars, http1Vars, routingVars, dnsVars, httpStatsVars, outboundVars>>
  \/ /\ part = "httpStats" /\ HttpStatsNext
     /\ UNCHANGED <<part, watcherVars, http1Vars, routingVars, dnsVars, trafficVars, outboundVars>>
  \/ /\ part = "outbound" /\ OutboundNext
     /\ dialling'[o2].proto \in Shared
     /\ dialling'[o2].proto = "vless" => dialling'[o1].proto \in {NoDial.proto, "vless"}
     /\ UNCHANGED <<part, watcherVars, http1Vars, routingVars, dnsVars, statisticsVars>>

Spec == Init /\ [][Next]_<<part, watcherVars, http1Vars, routingVars, dnsVars, statisticsVars,
                           outboundVars>>

\* Types of the state of every part.
TypeOK ==
  /\ part = "watcher" => WatcherTypeOK
  /\ part = "http1" => Http1TypeOK
  /\ part \in {"store", "geo"} => RoutingTypeOK
  /\ part = "dns" => DnsTypeOK
  /\ part \in {"traffic", "httpStats"} => StatisticsTypeOK
  /\ part = "outbound" => OutboundTypeOK
=============================================================================
