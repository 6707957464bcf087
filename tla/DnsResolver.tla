----------------------------- MODULE DnsResolver -----------------------------
(***************************************************************************)
(* The resolvers of processor/dns.  A HybridResolver is four resolvers,    *)
(* each with a cache of its own.  Embedding is not inheritance: lookup is  *)
(* a method of BaseResolver and calls BaseResolver.performLookup whatever  *)
(* type embeds it, so every resolver asks the system's DNS; the            *)
(* performLookup of PrimaryResolver and HybridResolver, and the queries    *)
(* through a dialer behind them, are never reached.  For the same reason   *)
(* ClearCache and SetCacheEnabled of a HybridResolver act on "base" alone. *)
(*                                                                         *)
(* An address is its family and the time at which the system's DNS gave it.*)
(***************************************************************************)
EXTENDS Integers, Sequences, FiniteSets

CONSTANTS
    Callers,          \* goroutines that resolve names
    Methods,          \* LookupA, LookupAAAA, ResolveIP, ResolveWithFallback or Preload
    Names,            \* domain names
    Literals,         \* the names that are IP addresses written out
    MaxTTL,           \* config.MaxTTL
    Horizon,          \* bound on the clock
    ConcurrentLimit,  \* config.ConcurrentLimit
    FallbackDialer,   \* is NewHybridResolver given a fallback dialer
    SystemDNSEnabled  \* config.SystemDNSEnabled

ASSUME DnsAssumption ==
    /\ Literals \subseteq Names
    /\ MaxTTL \in Nat /\ Horizon \in Nat /\ ConcurrentLimit \in Nat
    /\ {FallbackDialer, SystemDNSEnabled} \subseteq BOOLEAN

VARIABLES
    dnsCache,    \* r.cache of each resolver, by domain and family
    cacheOn,     \* config.CacheEnabled of each resolver
    cleaning,    \* resolvers whose startCacheCleanup runs
    dnsCall,     \* what each caller does
    dnsNow       \* the clock

dnsVars == <<dnsCache, cacheOn, cleaning, dnsCall, dnsNow>>

Families == {"v4", "v6"}
NoEntry == [family |-> "none", at |-> 0, expiresAt |-> -1]
Failed == [family |-> "none", at |-> 0, name |-> "none", returned |-> 0]

\* NewHybridResolver: which of the four resolvers exist.
Resolvers ==
    {"base", "primary"} \cup (IF FallbackDialer THEN {"fallback"} ELSE {})
                        \cup (IF SystemDNSEnabled THEN {"system"} ELSE {})

-----------------------------------------------------------------------------

\* ResolveIP of one resolver: the A records, then the AAAA records.
ResolveIP(r) == <<[resolver |-> r, family |-> "v4"], [resolver |-> r, family |-> "v6"]>>

\* HybridResolver.ResolveWithFallback: primary, then fallback, then system.
ResolveWithFallback ==
    LET Try(r) == IF r \in Resolvers THEN ResolveIP(r) ELSE <<>>
    IN  Try("primary") \o Try("fallback") \o Try("system")

\* The lookups a method of HybridResolver tries, in order.
Attempts(method) ==
    CASE method = "LookupA" -> <<[resolver |-> "base", family |-> "v4"]>>
      [] method = "LookupAAAA" -> <<[resolver |-> "base", family |-> "v6"]>>
      [] method = "ResolveWithFallback" -> ResolveWithFallback
      [] OTHER -> ResolveIP("base")

\* normalizeDomainForResolution ends the name with a dot, so ResolveWithFallback
\* does not recognise an address.  PreloadDomains leaves addresses out.
IsDirect(method, name) == name \in Literals /\ method # "ResolveWithFallback"

Idle == [step |-> "idle", method |-> "none", name |-> "none", todo |-> <<>>, answer |-> Failed]

Holders == {c \in Callers : dnsCall[c].method = "Preload" /\ dnsCall[c].step \in {"check", "ask", "store"}}

DnsInit ==
    /\ dnsCache = [r \in Resolvers |-> [k \in Names \X Families |-> NoEntry]]
    /\ cacheOn = [r \in Resolvers |-> TRUE]
    /\ cleaning = Resolvers
    /\ dnsCall = [c \in Callers |-> Idle]
    /\ dnsNow = 0

\* Every goroutine of PreloadDomains takes a place of the semaphore first.
Ask(c, method, name) ==
    /\ dnsCall[c].step = "idle"
    /\ method = "Preload" => name \notin Literals
    /\ dnsCall' = [dnsCall EXCEPT ![c] =
          [step |-> IF IsDirect(method, name) THEN "done"
                    ELSE IF method = "Preload" THEN "sem" ELSE "check",
           method |-> method, name |-> name, todo |-> Attempts(method),
           answer |-> IF IsDirect(method, name)
                      THEN [family |-> "literal", at |-> dnsNow, name |-> name, returned |-> dnsNow]
                      ELSE Failed]]
    /\ UNCHANGED <<dnsCache, cacheOn, cleaning, dnsNow>>

PreloadAcquire(c) ==
    /\ dnsCall[c].step = "sem"
    /\ Cardinality(Holders) < ConcurrentLimit
    /\ dnsCall' = [dnsCall EXCEPT ![c].step = "check"]
    /\ UNCHANGED <<dnsCache, cacheOn, cleaning, dnsNow>>

Key(c) == <<dnsCall[c].name, Head(dnsCall[c].todo).family>>

\* Variant for checking the properties: expired entries are returned.
getCachedExpired(r, key) == dnsCache[r][key]

\* getCached: an entry counts until its expiry time has passed.
getCached(r, key) == IF dnsNow <= dnsCache[r][key].expiresAt THEN dnsCache[r][key] ELSE NoEntry

Answered(c, entry) ==
    [dnsCall EXCEPT ![c].step = "done",
                    ![c].answer = [family |-> entry.family, at |-> entry.at,
                                   name |-> dnsCall[c].name, returned |-> dnsNow]]

\* lookup up to the call of performLookup.
LookupCache(c) ==
    LET r == Head(dnsCall[c].todo).resolver
        entry == IF cacheOn[r] THEN getCached(r, Key(c)) ELSE NoEntry
    IN  /\ dnsCall[c].step = "check"
        /\ dnsCall' = IF entry # NoEntry THEN Answered(c, entry)
                      ELSE [dnsCall EXCEPT ![c].step = "ask"]
        /\ UNCHANGED <<dnsCache, cacheOn, cleaning, dnsNow>>

\* performLookup of BaseResolver: the system's DNS knows addresses of some families
\* (none when it fails or does not answer in time, and none for an address with a
\* dot behind it).
performLookup(c, known) ==
    LET family == Head(dnsCall[c].todo).family
        rest == Tail(dnsCall[c].todo)
    IN  /\ dnsCall[c].step = "ask"
        /\ dnsCall[c].name \in Literals => known = {}
        /\ dnsCall' = [dnsCall EXCEPT ![c] =
              IF family \in known
              THEN [@ EXCEPT !.step = "store", !.answer.at = dnsNow]
              ELSE [@ EXCEPT !.step = IF rest = <<>> THEN "done" ELSE "check", !.todo = rest]]
        /\ UNCHANGED <<dnsCache, cacheOn, cleaning, dnsNow>>

\* The rest of lookup: the answer is cached for MaxTTL, which performLookup gives as
\* its time to live.
setCached(c) ==
    LET r == Head(dnsCall[c].todo).resolver
        entry == [family |-> Head(dnsCall[c].todo).family, at |-> dnsCall[c].answer.at,
                  expiresAt |-> dnsNow + MaxTTL]
    IN  /\ dnsCall[c].step = "store"
        /\ dnsCache' = IF cacheOn[r] THEN [dnsCache EXCEPT ![r][Key(c)] = entry] ELSE dnsCache
        /\ dnsCall' = Answered(c, entry)
        /\ UNCHANGED <<cacheOn, cleaning, dnsNow>>

\* The caller goes on with the result; a goroutine of PreloadDomains frees its place.
DnsReturn(c) ==
    /\ dnsCall[c].step = "done"
    /\ dnsCall' = [dnsCall EXCEPT ![c] = Idle]
    /\ UNCHANGED <<dnsCache, cacheOn, cleaning, dnsNow>>

cleanExpiredCache(r) ==
    /\ r \in cleaning
    /\ dnsCache' = [dnsCache EXCEPT ![r] =
          [k \in DOMAIN @ |-> IF dnsNow > @[k].expiresAt THEN NoEntry ELSE @[k]]]
    /\ UNCHANGED <<cacheOn, cleaning, dnsCall, dnsNow>>

ClearDnsCache ==
    /\ dnsCache' = [dnsCache EXCEPT !["base"] = [k \in DOMAIN @ |-> NoEntry]]
    /\ UNCHANGED <<cacheOn, cleaning, dnsCall, dnsNow>>

SetCacheEnabled(enabled) ==
    /\ cacheOn' = [cacheOn EXCEPT !["base"] = enabled]
    /\ dnsCache' = IF enabled THEN dnsCache
                   ELSE [dnsCache EXCEPT !["base"] = [k \in DOMAIN @ |-> NoEntry]]
    /\ UNCHANGED <<cleaning, dnsCall, dnsNow>>

\* HybridResolver.Close cancels the cleanup of all four; lookups still work.
CloseResolver ==
    /\ cleaning' = {}
    /\ UNCHANGED <<dnsCache, cacheOn, dnsCall, dnsNow>>

\* Storing an answer that has arrived takes no noticeable time.
DnsTick ==
    /\ dnsNow < Horizon
    /\ \A c \in Callers : dnsCall[c].step # "store"
    /\ dnsNow' = dnsNow + 1
    /\ UNCHANGED <<dnsCache, cacheOn, cleaning, dnsCall>>

DnsNext ==
    \/ \E c \in Callers :
          \/ \E method \in Methods, name \in Names : Ask(c, method, name)
          \/ PreloadAcquire(c) \/ LookupCache(c) \/ setCached(c) \/ DnsReturn(c)
          \/ \E known \in SUBSET Families : performLookup(c, known)
    \/ \E r \in Resolvers : cleanExpiredCache(r)
    \/ \E enabled \in BOOLEAN : SetCacheEnabled(enabled)
    \/ ClearDnsCache \/ CloseResolver \/ DnsTick

DnsSpec == DnsInit /\ [][DnsNext]_dnsVars

DnsTypeOK ==
    /\ dnsCache \in [Resolvers -> [Names \X Families ->
          [family : Families \cup {"none"}, at : 0..Horizon, expiresAt : -1..Horizon + MaxTTL]]]
    /\ cacheOn \in [Resolvers -> BOOLEAN]
    /\ cleaning \subseteq Resolvers
    /\ \A c \in Callers : dnsCall[c].step \in {"idle", "sem", "check", "ask", "store", "done"}
    /\ dnsNow \in 0..Horizon

\* What a caller is given was obtained for the family it asked for, and no longer than
\* MaxTTL ago, whichever of the four caches it came from and whatever was cleared,
\* disabled or cleaned meanwhile (getCached, setCached and the keys of lookup).
DnsAnswersFresh ==
    \A c \in Callers :
        LET call == dnsCall[c] IN
        (call.step = "done" /\ call.answer # Failed /\ call.answer.family # "literal") =>
            /\ call.answer.family = Head(call.todo).family
            /\ call.answer.returned - call.answer.at <= MaxTTL
=============================================================================
