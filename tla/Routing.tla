-------------------------------- MODULE Routing --------------------------------
(***************************************************************************)
(* Routing decisions: the store of the applied routing schema              *)
(* (processor/config/routing_apply_state.go, routing_schema.go), the       *)
(* snapshots compiled from it and from the global configuration            *)
(* (processor/routing/snapshot.go), the decision over a snapshot           *)
(* (decision_engine.go), the rule engine's evaluation with its cache       *)
(* (processor/rules/engine.go), and the GeoIP service and its cache        *)
(* (processor/geoip/service.go, processor/routing/cache.go).               *)
(*                                                                         *)
(* Domain names are sequences of labels, patterns have a wildcard flag; an *)
(* address range is a set of addresses.                                    *)
(***************************************************************************)
EXTENDS Naturals, Sequences, SequencesExt, FiniteSets

CONSTANTS
    Payloads,        \* bodies of POST /api/config/routing
    Configs,         \* what decisions use of the global configuration
    ApplyCalls,      \* calls that apply a schema: requests and mode switches
    ModeSwitches,    \* those that are mode switches
    Lookups,         \* concurrent GeoIP lookups
    Domains, Addresses,
    GeoCacheSize,    \* maxSize of the GeoIP cache
    NoSchema

ASSUME RoutingAssumption ==
    /\ ModeSwitches \subseteq ApplyCalls
    /\ GeoCacheSize \in Nat \ {0}

\* Rules and schemas as the JSON of a request is read into them (routing_schema.go), and
\* what decisions use of a configuration; checked for the payloads of a run.
Patterns == [wildcard : BOOLEAN, labels : Seq(STRING)]
Rules == [type : STRING, pattern : Patterns, range : SUBSET Addresses, enabled : BOOLEAN,
          target : STRING]
Schemas ==
    [kind : {"canonical"}, version : Nat, mode : STRING, direct : BOOLEAN, toAliang : BOOLEAN,
     toSocks : BOOLEAN, upstream : STRING, rules : Seq(Rules), default : STRING]

ASSUME SchemasAssumption ==
    /\ \A p \in Payloads : p.kind = "canonical" => p \in Schemas
    /\ Configs \subseteq [ai : Seq(Patterns), proxyRules : Seq(Patterns), proxy : STRING,
                          proxyServer : BOOLEAN]

VARIABLES
    canonical,       \* routingApplyStore.canonical and the snapshot compiled from it
    schemaVersion,   \* routingApplyStore.version
    counters,        \* attempts, successes, failures, rollbacks
    applyPc,         \* where each call stands
    applyNext,       \* the schema the call will store
    customer,        \* the global configuration
    geo,             \* geoip.Service: reader open, enabled
    geoCache,        \* GeoIPCache.cache: the addresses in it
    geoStats,        \* hitCount and missCount
    lookupPc, lookupAddress,
    decisionCache,   \* the rule engine's cached route of a domain or address
    engineEnabled

storeVars == <<canonical, schemaVersion, counters, applyPc, applyNext, customer>>
geoVars == <<geo, geoCache, geoStats, lookupPc, lookupAddress>>
engineVars == <<decisionCache, engineEnabled>>
routingVars == <<storeVars, geoVars, engineVars>>

Branches == {"direct", "toAliang", "toSocks"}
Contexts == [domain : Domains, ip : Addresses]

-----------------------------------------------------------------------------
(* The schema *)

\* The branches of the egress section that are enabled.
Opened(s) ==
    {b \in Branches : \/ b = "direct" /\ s.direct
                      \/ b = "toAliang" /\ s.toAliang
                      \/ b = "toSocks" /\ s.toSocks}

\* CanonicalRoutingSchema.Validate
Validate(s) ==
    /\ s.mode \in {"tun", "http"}
    /\ s.direct
    /\ s.upstream \in (IF s.toSocks THEN {"socks", "http"} ELSE {"", "socks", "http"})
    /\ \A i \in DOMAIN s.rules : s.rules[i].target \in Opened(s)
    /\ s.default \in Opened(s) \cup {""}

\* normalizeRoutingPayload, normalizeCanonicalPayload (the targets it accepts are
\* checked again by Validate)
Normalized(p) ==
    [p EXCEPT !.version = IF @ = 0 THEN 1 ELSE @, !.mode = IF @ = "" THEN "tun" ELSE @]

Acceptable(p) ==
    /\ p.kind = "canonical"
    /\ Normalized(p).version = 1
    /\ Validate(Normalized(p))

-----------------------------------------------------------------------------
(* Snapshots and decisions *)

\* CompileRuntimeSnapshot of a validated schema.
CompileRuntimeSnapshot(s) ==
    [open |-> Opened(s),
     rules |-> s.rules, default |-> IF s.default = "" THEN "direct" ELSE s.default,
     strict |-> TRUE, ok |-> TRUE]

DomainRule(pattern, target) ==
    [type |-> "domain", pattern |-> pattern, range |-> {}, enabled |-> TRUE, target |-> target]

\* compileCanonicalRoutingFromRuntimeInputs with the switches as they are after
\* the start (Aliang and SOCKS on; nothing changes them): AI rules first, then
\* the proxy rules, which go to SOCKS when the customer's proxy is usable.
CompileRuntimeSnapshotFromRuntimeInputs(cfg) ==
    LET toSocks == cfg.proxy \in {"http", "socks5"}
        ai == [i \in DOMAIN cfg.ai |-> DomainRule(cfg.ai[i], "toAliang")]
        proxied == [i \in DOMAIN cfg.proxyRules |->
                      DomainRule(cfg.proxyRules[i], IF toSocks THEN "toSocks" ELSE "direct")]
        schema == [kind |-> "canonical", version |-> 1, mode |-> "tun", direct |-> TRUE,
                   toAliang |-> TRUE, toSocks |-> toSocks,
                   upstream |-> CASE cfg.proxy = "http" -> "http" [] cfg.proxy = "socks5" -> "socks"
                                  [] OTHER -> "",
                   rules |-> ai \o proxied, default |-> "direct"]
    IN  [CompileRuntimeSnapshot(schema) EXCEPT !.ok = Validate(schema)]

\* matchDomain, on lower-case names
matchDomain(pattern, domain) ==
    /\ domain # <<>>
    /\ IF pattern.wildcard
       THEN pattern.labels # <<>> /\ IsSuffix(pattern.labels, domain) /\ domain # pattern.labels
       ELSE domain = pattern.labels

\* checkRuleBySnapshot; matchGeoIP never matches.
checkRuleBySnapshot(rule, ctx) ==
    CASE rule.type = "domain" -> matchDomain(rule.pattern, ctx.domain)
      [] rule.type = "ip" -> ctx.ip \in rule.range
      [] OTHER -> FALSE

\* DecideRouteFromSnapshot and resolveSnapshotAction: the loop stops at the first
\* rule that matches and has an open branch, or matches at all when the snapshot
\* is strict.
DecideRouteFromSnapshot(snapshot, ctx) ==
    LET hits == {i \in DOMAIN snapshot.rules :
                    /\ snapshot.rules[i].enabled /\ checkRuleBySnapshot(snapshot.rules[i], ctx)
                    /\ snapshot.strict \/ snapshot.rules[i].target \in snapshot.open}
        first == CHOOSE i \in hits : \A j \in hits : i <= j
        action == IF hits = {} THEN snapshot.default
                  ELSE IF snapshot.rules[first].target \in snapshot.open
                  THEN snapshot.rules[first].target ELSE "deny"
    IN  IF action = "deny" \/ action \in snapshot.open THEN action
        ELSE IF snapshot.strict THEN "deny" ELSE "direct"

-----------------------------------------------------------------------------
(* routingApplyStore.Apply *)

Prepared(c, schema) ==
    /\ applyNext' = [applyNext EXCEPT ![c] = Normalized(schema)]
    /\ applyPc' = [applyPc EXCEPT ![c] = "store"]
    /\ counters' = [counters EXCEPT !.attempts = @ + 1]

Refused(c, parsed) ==
    /\ applyPc' = [applyPc EXCEPT ![c] = "failed"]
    /\ counters' = [counters EXCEPT !.attempts = @ + 1, !.failures = @ + 1,
                                    !.rollbacks = @ + (IF parsed THEN 1 ELSE 0)]
    /\ UNCHANGED applyNext

\* Variant for checking the properties: rules are accepted whatever their branch.
ApplyBeginUnchecked(c) ==
    /\ applyPc[c] = "idle" /\ c \notin ModeSwitches
    /\ \E p \in Payloads :
          IF p.kind = "canonical" THEN Prepared(c, p) ELSE Refused(c, p.kind # "garbage")
    /\ UNCHANGED <<canonical, schemaVersion, customer, geoVars, engineVars>>

\* handleUpdateRoutingConfig: everything but the assignment happens outside the lock.
ApplyBegin(c) ==
    /\ applyPc[c] = "idle" /\ c \notin ModeSwitches
    /\ \E p \in Payloads :
          IF Acceptable(p) THEN Prepared(c, p) ELSE Refused(c, p.kind # "garbage")
    /\ UNCHANGED <<canonical, schemaVersion, customer, geoVars, engineVars>>

\* bootstrapCanonicalRoutingSchema.  It asks whether the proxy has a server, not
\* whether it is enabled.
Bootstrap(mode) ==
    [kind |-> "canonical", version |-> 1, mode |-> mode, direct |-> TRUE, toAliang |-> TRUE,
     toSocks |-> customer.proxyServer,
     upstream |-> IF customer.proxy = "http" THEN "http" ELSE "socks",
     rules |-> <<>>, default |-> ""]

\* applyIngressModeToSnapshot: the schema in force with another mode.
ApplyIngressMode(c) ==
    /\ applyPc[c] = "idle" /\ c \in ModeSwitches
    /\ \E mode \in {"tun", "http"} :
          Prepared(c, IF canonical = NoSchema THEN Bootstrap(mode)
                      ELSE [canonical EXCEPT !.mode = mode])
    /\ UNCHANGED <<canonical, schemaVersion, customer, geoVars, engineVars>>

ApplyStore(c) ==
    /\ applyPc[c] = "store"
    /\ canonical' = applyNext[c]
    /\ schemaVersion' = schemaVersion + 1
    /\ counters' = [counters EXCEPT !.successes = @ + 1]
    /\ applyPc' = [applyPc EXCEPT ![c] = "ok"]
    /\ UNCHANGED <<applyNext, customer, geoVars, engineVars>>

\* SetGlobalConfig (ConfigCommit)
ConfigChanges ==
    /\ customer' \in Configs \ {customer}
    /\ UNCHANGED <<canonical, schemaVersion, counters, applyPc, applyNext, geoVars, engineVars>>

-----------------------------------------------------------------------------
(* GeoIP *)

\* LoadDatabase: downloads the file when it is missing; every failure leaves the
\* service as it is.
LoadDatabase ==
    /\ ~geo.reader
    /\ geo' = [reader |-> TRUE, enabled |-> TRUE]
    /\ UNCHANGED <<storeVars, geoCache, geoStats, lookupPc, lookupAddress, engineVars>>

\* Close, Disable and Enable
SwitchGeo ==
    /\ \/ geo' = [reader |-> FALSE, enabled |-> FALSE]
       \/ geo' = [geo EXCEPT !.enabled = FALSE]
       \/ geo.reader /\ geo' = [geo EXCEPT !.enabled = TRUE]
    /\ geo' # geo
    /\ UNCHANGED <<storeVars, geoCache, geoStats, lookupPc, lookupAddress, engineVars>>

\* GeoIPCache.Lookup, first part, under the read lock.  Two increments of hitCount
\* may overlap and count once.
LookupCached(l) ==
    /\ lookupPc[l] = "idle"
    /\ \E a \in Addresses :
          /\ lookupAddress' = [lookupAddress EXCEPT ![l] = a]
          /\ IF a \in geoCache
             THEN /\ lookupPc' = [lookupPc EXCEPT ![l] = "done"]
                  /\ geoStats' \in {geoStats, [geoStats EXCEPT !.hits = @ + 1]}
             ELSE /\ lookupPc' = [lookupPc EXCEPT ![l] = "miss"]
                  /\ geoStats' = [geoStats EXCEPT !.misses = @ + 1]
    /\ UNCHANGED <<storeVars, geo, geoCache, engineVars>>

\* Service.LookupCountry
LookupCountry(l) ==
    /\ lookupPc[l] = "miss"
    /\ lookupPc' = [lookupPc EXCEPT ![l] = IF geo.enabled /\ geo.reader THEN "found" ELSE "done"]
    /\ UNCHANGED <<storeVars, geo, geoCache, geoStats, lookupAddress, engineVars>>

\* The result is stored; a full cache is emptied first.
LookupStore(l) ==
    /\ lookupPc[l] = "found"
    /\ geoCache' = (IF Cardinality(geoCache) >= GeoCacheSize THEN {} ELSE geoCache)
                   \cup {lookupAddress[l]}
    /\ lookupPc' = [lookupPc EXCEPT ![l] = "done"]
    /\ UNCHANGED <<storeVars, geo, geoStats, lookupAddress, engineVars>>

\* Clear
ClearGeoCache ==
    /\ geoCache # {}
    /\ geoCache' = {}
    /\ UNCHANGED <<storeVars, geo, geoStats, lookupPc, lookupAddress, engineVars>>

-----------------------------------------------------------------------------
(* RuleEngine *)

\* checkCache: the domain's entry, else the address's.
Cached(ctx) ==
    IF ctx.domain # <<>> /\ decisionCache[ctx.domain] # "none" THEN decisionCache[ctx.domain]
    ELSE decisionCache[ctx.ip]

\* checkAllowlist
Allowlisted(snapshot, ctx) ==
    IF \E i \in DOMAIN snapshot.rules : /\ snapshot.rules[i].target = "toAliang"
                                        /\ snapshot.rules[i].type = "domain"
                                        /\ matchDomain(snapshot.rules[i].pattern, ctx.domain)
    THEN "toAliang"
    ELSE IF "toSocks" \in snapshot.open THEN "toSocks" ELSE "none"

\* EvaluateRoute, without the cache (chinaDirect is never set).
Evaluated(ctx) ==
    LET snapshot == CompileRuntimeSnapshotFromRuntimeInputs(customer)
        listed == IF ctx.domain = <<>> THEN "none" ELSE Allowlisted(snapshot, ctx)
    IN  IF listed # "none" THEN listed
        ELSE IF geo.enabled THEN "toSocks"                       \* checkGeoIP
        ELSE DecideRouteFromSnapshot(snapshot, ctx)

\* cacheResult: under the domain and under the address
cacheResult(ctx, route) ==
    [k \in DOMAIN decisionCache |->
        IF k = ctx.ip \/ (k = ctx.domain /\ k # <<>>) THEN route ELSE decisionCache[k]]

EvaluateRoute ==
    /\ engineEnabled
    /\ \E ctx \in Contexts :
          /\ Cached(ctx) = "none"
          /\ decisionCache' = cacheResult(ctx, Evaluated(ctx))
    /\ UNCHANGED <<storeVars, geoVars, engineEnabled>>

\* ClearCache, Enable and Disable
ManageEngine ==
    /\ \/ decisionCache' = [k \in DOMAIN decisionCache |-> "none"] /\ UNCHANGED engineEnabled
       \/ engineEnabled' = ~engineEnabled /\ UNCHANGED decisionCache
    /\ <<decisionCache, engineEnabled>>' # <<decisionCache, engineEnabled>>
    /\ UNCHANGED <<storeVars, geoVars>>

-----------------------------------------------------------------------------
RoutingInit ==
    /\ canonical = NoSchema /\ schemaVersion = 0
    /\ counters = [attempts |-> 0, successes |-> 0, failures |-> 0, rollbacks |-> 0]
    /\ applyPc = [c \in ApplyCalls |-> "idle"]
    /\ applyNext = [c \in ApplyCalls |-> NoSchema]
    /\ customer \in Configs
    /\ geo = [reader |-> FALSE, enabled |-> FALSE]
    /\ geoCache = {} /\ geoStats = [hits |-> 0, misses |-> 0]
    /\ lookupPc = [l \in Lookups |-> "idle"]
    /\ lookupAddress \in [Lookups -> {CHOOSE a \in Addresses : TRUE}]
    /\ decisionCache = [k \in Domains \cup Addresses |-> "none"]
    /\ engineEnabled = TRUE                                       \* Initialize

StoreNext == (\E c \in ApplyCalls : ApplyBegin(c) \/ ApplyIngressMode(c) \/ ApplyStore(c))
             \/ ConfigChanges
GeoNext == (\E l \in Lookups : LookupCached(l) \/ LookupCountry(l) \/ LookupStore(l))
           \/ LoadDatabase \/ SwitchGeo \/ ClearGeoCache
RoutingNext == StoreNext \/ GeoNext \/ EvaluateRoute \/ ManageEngine

RoutingSpec == RoutingInit /\ [][RoutingNext]_routingVars

-----------------------------------------------------------------------------
(* Properties *)

RoutingTypeOK ==
    /\ canonical = NoSchema \/ canonical.kind = "canonical"
    /\ schemaVersion \in 0..Cardinality(ApplyCalls)
    /\ applyPc \in [ApplyCalls -> {"idle", "store", "ok", "failed"}]
    /\ customer \in Configs
    /\ geo \in [reader : BOOLEAN, enabled : BOOLEAN] /\ geo.enabled => geo.reader
    /\ geoCache \subseteq Addresses /\ Cardinality(geoCache) <= GeoCacheSize
    /\ lookupPc \in [Lookups -> {"idle", "miss", "found", "done"}]
    /\ engineEnabled \in BOOLEAN
    /\ counters.attempts = counters.successes + counters.failures
                           + Cardinality({c \in ApplyCalls : applyPc[c] = "store"})

\* The branch a snapshot sends a connection to is open, and is the one of the
\* first enabled rule that matches (of the default without such a rule).
Honours(snapshot, ctx) ==
    LET hits == {i \in DOMAIN snapshot.rules :
                    snapshot.rules[i].enabled /\ checkRuleBySnapshot(snapshot.rules[i], ctx)}
        decision == DecideRouteFromSnapshot(snapshot, ctx)
    IN  /\ decision \in snapshot.open
        /\ hits = {} => decision = snapshot.default
        /\ \A i \in hits : (\A j \in hits : i <= j) => decision = snapshot.rules[i].target

\* Whatever schemas were sent, also by a mode switch that overlaps a request, the
\* schema in force and the global configuration give every connection the branch
\* of its first matching rule, which is open: the strict refusal of connections
\* whose branch is closed is never needed.
DecisionsAreOpen ==
    /\ canonical # NoSchema => \A ctx \in Contexts : Honours(CompileRuntimeSnapshot(canonical), ctx)
    /\ LET snapshot == CompileRuntimeSnapshotFromRuntimeInputs(customer)
       IN  snapshot.ok /\ \A ctx \in Contexts : Honours(snapshot, ctx)

==============================================================================
