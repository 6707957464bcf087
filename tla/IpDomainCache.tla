---------------------------- MODULE IpDomainCache ----------------------------
(***************************************************************************)
(* The cache of domain-to-address bindings of processor/cache/ipdomain.go, *)
(* as the running program uses it: connections store a binding under its   *)
(* domain when they end (rules.StoreBinding), the TCP handler asks which   *)
(* domains an address has (GetByIP), the HTTP API reads, deletes and       *)
(* clears, and a goroutine removes what has expired once a minute.  Every  *)
(* operation holds the cache's lock from its first line to its last, so    *)
(* each is one step.                                                       *)
(*                                                                         *)
(* The cache is one record: entries is the forward index (key -> entry),   *)
(* lru the list of keys, most recently used first, ipIndex the reverse     *)
(* index.  Entries are immutable once stored; hit counts and the totals of *)
(* Stats are left out.  Time is a small counter.                           *)
(***************************************************************************)
EXTENDS Integers, Sequences

CONSTANTS Domains,      \* host names, which are also the keys
          IPs,          \* destination addresses
          MaxEntries,   \* maxEntries, the capacity
          MaxTime,      \* bound on the clock
          NoEntry       \* the nil entry

ASSUME MaxEntriesAssumption == MaxEntries \in Nat \ {0}
ASSUME MaxTimeAssumption == MaxTime \in Nat

VARIABLES cache, now

BindingSources == {"sni", "http_host", "connect", "dns"}

(* The lifetimes DefaultSNITTL < DefaultHTTPTTL = DefaultCONNECTTTL <      *)
(* DefaultDNSTTL, in clock units.                                          *)
DefaultTTL == [sni |-> 1, http_host |-> 2, connect |-> 2, dns |-> 3]

CacheEntry == [domain : Domains, ip : IPs, src : BindingSources,
               created : Nat, expires : Nat]

ASSUME NoEntryAssumption == NoEntry \notin CacheEntry

NewIPDomainCache == [entries |-> [d \in Domains |-> NoEntry],
                     lru     |-> <<>>,
                     ipIndex |-> [ip \in IPs |-> <<>>]]

IsExpired(e) == now > e.expires

TimeToLive(e) == e.expires - now

Keys(c) == {d \in Domains : c.entries[d] # NoEntry}

(* What is at the positions I of a list, in its order: the loops of the    *)
(* cache copy what they keep, one element after the other.                 *)
Kept(s, I) ==
  LET F[n \in 0 .. Len(s)] ==
        IF n = 0 THEN <<>> ELSE IF n \in I THEN Append(F[n - 1], s[n]) ELSE F[n - 1]
  IN  F[Len(s)]

OtherKeys(keys, d) == Kept(keys, {i \in DOMAIN keys : keys[i] # d})

OtherDomains(es, d) == Kept(es, {i \in DOMAIN es : es[i].domain # d})

updateIPIndex(index, e) ==
  [index EXCEPT ![e.ip] = Append(OtherDomains(@, e.domain), e)]

(* Variant for checking the properties: the whole address is dropped.      *)
removeFromIPIndexWhole(index, e) == [index EXCEPT ![e.ip] = <<>>]

removeFromIPIndex(index, e) ==
  [index EXCEPT ![e.ip] = OtherDomains(@, e.domain)]

(* Removal from the forward index and the list only, as Get and cleanup do *)
(* with an expired entry.                                                  *)
Unlink(c, d) == [c EXCEPT !.entries[d] = NoEntry, !.lru = OtherKeys(@, d)]

(* Removal from both indexes.                                              *)
Remove(c, d) ==
  [Unlink(c, d) EXCEPT !.ipIndex = removeFromIPIndex(@, c.entries[d])]

evictOldest(c) == Remove(c, c.lru[Len(c.lru)])

(* An existing key is moved to the front and gets the new entry; for a new *)
(* key the oldest one makes room first.                                    *)
Set(c, e) ==
  LET room == IF c.entries[e.domain] = NoEntry /\ Len(c.lru) >= MaxEntries
              THEN evictOldest(c) ELSE c
  IN  [entries |-> [room.entries EXCEPT ![e.domain] = e],
       lru     |-> <<e.domain>> \o OtherKeys(room.lru, e.domain),
       ipIndex |-> updateIPIndex(room.ipIndex, e)]

(* The expiry an entry was built with is overwritten.                      *)
SetWithTTL(c, e, ttl) == Set(c, [e EXCEPT !.expires = now + ttl])

(* The unexpired bindings of an address, in the order of the index.        *)
GetByIP(ip) ==
  LET es == cache.ipIndex[ip] IN Kept(es, {i \in DOMAIN es : ~IsExpired(es[i])})

-----------------------------------------------------------------------------

CacheInit == cache = NewIPDomainCache /\ now = 0

Tick == now < MaxTime /\ now' = now + 1 /\ UNCHANGED cache

(* Get on behalf of the query API: an expired entry leaves the forward     *)
(* index, a live one becomes the most recently used.                       *)
Get(d) ==
  /\ d \in Keys(cache)
  /\ cache' = IF IsExpired(cache.entries[d]) THEN Unlink(cache, d)
              ELSE [cache EXCEPT !.lru = <<d>> \o OtherKeys(@, d)]
  /\ UNCHANGED now

Delete(d) ==
  /\ d \in Keys(cache)
  /\ cache' = Remove(cache, d)
  /\ UNCHANGED now

Clear == cache' = NewIPDomainCache /\ UNCHANGED now

cleanup ==
  LET expired == {d \in Keys(cache) : IsExpired(cache.entries[d])}
  IN  /\ expired # {}
      /\ cache' = [cache EXCEPT
           !.entries = [d \in Domains |-> IF d \in expired THEN NoEntry ELSE @[d]],
           !.lru = Kept(@, {i \in DOMAIN @ : @[i] \notin expired})]
      /\ UNCHANGED now

-----------------------------------------------------------------------------

CacheTypeOK ==
  /\ cache.entries \in [Domains -> CacheEntry \cup {NoEntry}]
  /\ cache.lru \in Seq(Domains)
  /\ cache.ipIndex \in [IPs -> Seq(CacheEntry)]
  /\ now \in 0 .. MaxTime

(* The list and the forward index hold the same keys, each once, and never *)
(* more than maxEntries, whatever mix of stores, evictions, expiries and   *)
(* API calls led here: evictOldest always finds the entry it must remove.  *)
CacheBounded ==
  /\ Len(cache.lru) <= MaxEntries
  /\ {cache.lru[i] : i \in DOMAIN cache.lru} = Keys(cache)
  /\ \A i, j \in DOMAIN cache.lru : cache.lru[i] = cache.lru[j] => i = j

(* Every binding of the forward index is found through the address it      *)
(* binds, so a second domain of a shared address cannot hide from the      *)
(* uniqueness test of the TLS handler; and an address lists a domain once. *)
ForwardIsIndexed ==
  /\ \A d \in Keys(cache) :
        LET e == cache.entries[d]
        IN  \E i \in DOMAIN cache.ipIndex[e.ip] : cache.ipIndex[e.ip][i] = e
  /\ \A ip \in IPs : \A i, j \in DOMAIN cache.ipIndex[ip] :
        cache.ipIndex[ip][i].domain = cache.ipIndex[ip][j].domain => i = j

(* The cache represents a bounded map with a complete reverse index.       *)
CacheConsistent == CacheBounded /\ ForwardIsIndexed

=============================================================================
