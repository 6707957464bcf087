-------------------------- MODULE TcpHandler_proofs ---------------------------
(***************************************************************************)
(* For any number of connections, names, addresses and any capacity of the *)
(* cache: both indexes of the cache of bindings stay consistent, a TLS     *)
(* connection without a name of its own is intercepted only under a name   *)
(* that is safe for its address, and what is decided for Aliang leaves     *)
(* through Aliang or not at all.                                           *)
(*                                                                         *)
(* What the cache's loops keep (Kept) is a recursive function, so its      *)
(* facts are proved by induction: on the set of the numbers for which the  *)
(* claim holds, since the theorems on natural induction take the claim as  *)
(* an operator, which the provers cannot supply.                           *)
(***************************************************************************)
EXTENDS TcpHandler, FiniteSetTheorems, WellFoundedInduction, TLAPS

-----------------------------------------------------------------------------
(* Induction *)

Less == {p \in Nat \X Nat : p[1] < p[2]}

LEMMA LessWellFounded == IsWellFoundedOn(Less, Nat)
<1>1. OpToRel(<, Nat) = Less
  BY DEF OpToRel, Less
<1> QED
  BY <1>1, NatLessThanWellFounded, Zenon

\* A set of natural numbers with a member has a least one.
LEMMA LeastNumber ==
  ASSUME NEW T \in SUBSET Nat, T # {}
  PROVE  \E m \in T : \A k \in T : m <= k
<1>1. PICK m \in T : \A k \in T : ~(<<k, m>> \in Less)
  BY WFMin, LessWellFounded
<1>2. \A j, k \in Nat : j < k => <<j, k>> \in Less
  BY DEF Less
<1>3. ASSUME NEW k \in T
      PROVE  m <= k
  <2>1. ~(<<k, m>> \in Less) /\ k \in Nat /\ m \in Nat
    BY <1>1
  <2>2. ~(k < m)
    BY <1>2, <2>1, Zenon
  <2> QED
    BY <2>1, <2>2
<1> QED
  BY <1>3

LEMMA InductionOnSets ==
  ASSUME NEW T, 0 \in T, \A n \in Nat : n \in T => n + 1 \in T
  PROVE  Nat \subseteq T
<1> DEFINE U == Nat \ T
<1>1. ASSUME U # {}
      PROVE  FALSE
  <2>1. PICK m \in U : \A k \in U : m <= k
    <3>1. U \in SUBSET Nat
      OBVIOUS
    <3> HIDE DEF U
    <3> QED
      BY <1>1, <3>1, LeastNumber
  <2>2. m - 1 \in Nat /\ m - 1 \in T
    BY <2>1
  <2> QED
    BY <2>1, <2>2
<1> QED
  BY <1>1

-----------------------------------------------------------------------------
(* What a loop keeps of a list *)

\* f[n] is what the loop has after n elements, up to the m-th.
Step(f, n, s, I) ==
  f[n] = IF n = 0 THEN <<>> ELSE IF n \in I THEN Append(f[n - 1], s[n]) ELSE f[n - 1]

Loop(f, m, s, I) ==
  f = [n \in 0 .. m |->
        IF n = 0 THEN <<>> ELSE IF n \in I THEN Append(f[n - 1], s[n]) ELSE f[n - 1]]

LEMMA KeptIsLoop ==
  ASSUME NEW s, NEW I
  PROVE  Kept(s, I) = (CHOOSE f : Loop(f, Len(s), s, I))[Len(s)]
BY DEF Kept, Loop

LEMMA LoopSteps ==
  ASSUME NEW s, NEW I, NEW m \in Nat, NEW f, Loop(f, m, s, I)
  PROVE  \A n \in 0 .. m : Step(f, n, s, I)
BY Zenon DEF Loop, Step

\* The recursion is well-founded: it defines a function.
LEMMA LoopExists ==
  ASSUME NEW s, NEW I, NEW m \in Nat
  PROVE  \E f : Loop(f, m, s, I)
<1> DEFINE T == {n \in Nat : \E f : Loop(f, n, s, I)}
<1>1. 0 \in T
  <2>1. Loop([n \in 0 .. 0 |-> <<>>], 0, s, I)
    BY DEF Loop
  <2> QED
    BY <2>1
<1>2. ASSUME NEW n \in Nat, n \in T
      PROVE  n + 1 \in T
  <2>1. PICK f : Loop(f, n, s, I)
    BY <1>2
  <2>2. \A k \in 0 .. n : Step(f, k, s, I)
    BY <2>1, LoopSteps
  <2> DEFINE g == [k \in 0 .. n + 1 |->
                     IF k <= n THEN f[k] ELSE IF k \in I THEN Append(f[n], s[k]) ELSE f[n]]
  <2>3. \A k \in 0 .. n : g[k] = f[k]
    OBVIOUS
  <2>4. g[n + 1] = IF n + 1 \in I THEN Append(g[n], s[n + 1]) ELSE g[n]
    OBVIOUS
  <2>5. g = [k \in 0 .. n + 1 |-> g[k]]
    OBVIOUS
  <2> HIDE DEF g
  <2>6. ASSUME NEW k \in 0 .. n + 1
        PROVE  Step(g, k, s, I)
    <3>1. CASE k = n + 1
      BY <3>1, <2>4 DEF Step
    <3>2. CASE k = 0
      BY <3>2, <2>2, <2>3 DEF Step
    <3>3. CASE k \in 1 .. n
      <4>1. k \in 0 .. n /\ k - 1 \in 0 .. n
        BY <3>3
      <4> QED
        BY <3>3, <4>1, <2>2, <2>3 DEF Step
    <3> QED
      BY <3>1, <3>2, <3>3
  <2>7. Loop(g, n + 1, s, I)
    BY <2>5, <2>6 DEF Loop, Step
  <2> QED
    BY <2>7
<1> HIDE DEF T
<1>3. m \in T
  BY <1>1, <1>2, InductionOnSets
<1> QED
  BY <1>3 DEF T

\* t is the list of the elements of s at the positions below n that are in I: each of
\* its elements comes from a position of its own, none is left out, and it is no longer.
Embeds(g, t, s, I, n) ==
  /\ g \in [1 .. Len(t) -> 1 .. n]
  /\ \A k \in 1 .. Len(t) : g[k] \in I /\ t[k] = s[g[k]]
  /\ \A k, l \in 1 .. Len(t) : g[k] = g[l] => k = l

Picks(t, s, I, n, X) ==
  /\ t \in Seq(X) /\ Len(t) <= n
  /\ \E g : Embeds(g, t, s, I, n)
  /\ \A i \in 1 .. n : i \in I => \E k \in 1 .. Len(t) : t[k] = s[i]
  /\ \A i \in 1 .. n : i \notin I => Len(t) < n

LEMMA PicksNone == ASSUME NEW s, NEW I, NEW X PROVE Picks(<<>>, s, I, 0, X)
<1> DEFINE t == <<>>
<1>1. t \in Seq(X) /\ Len(t) = 0 /\ t \in [1 .. 0 -> 1 .. 0]
  OBVIOUS
<1> HIDE DEF t
<1>2. Embeds(t, t, s, I, 0)
  BY <1>1 DEF Embeds
<1>3. Picks(t, s, I, 0, X)
  BY <1>1, <1>2 DEF Picks
<1> QED
  BY <1>3 DEF t

LEMMA PicksOne ==
  ASSUME NEW X, NEW s \in Seq(X), NEW I, NEW n \in 1 .. Len(s), NEW t, Picks(t, s, I, n - 1, X)
  PROVE  Picks(IF n \in I THEN Append(t, s[n]) ELSE t, s, I, n, X)
<1> t \in Seq(X) /\ Len(t) \in Nat /\ Len(t) <= n - 1 /\ s[n] \in X
  BY DEF Picks
<1>0. PICK g : Embeds(g, t, s, I, n - 1)
  BY DEF Picks
<1>1. /\ g \in [1 .. Len(t) -> 1 .. n - 1]
      /\ \A k \in 1 .. Len(t) : g[k] \in I /\ t[k] = s[g[k]]
      /\ \A k, l \in 1 .. Len(t) : g[k] = g[l] => k = l
  BY <1>0 DEF Embeds
<1>2. \A i \in 1 .. n - 1 : i \in I => \E k \in 1 .. Len(t) : t[k] = s[i]
  BY DEF Picks
<1>3. \A i \in 1 .. n - 1 : i \notin I => Len(t) < n - 1
  BY DEF Picks
<1>4. CASE n \notin I
  <2>1. Embeds(g, t, s, I, n)
    BY <1>1 DEF Embeds
  <2>2. \A i \in 1 .. n : i \in I => \E k \in 1 .. Len(t) : t[k] = s[i]
    BY <1>2, <1>4
  <2>3. Len(t) < n
    OBVIOUS
  <2> QED
    BY <1>4, <2>1, <2>2, <2>3 DEF Picks
<1>5. CASE n \in I
  <2> DEFINE u == Append(t, s[n])
             h == [k \in 1 .. Len(t) + 1 |-> IF k <= Len(t) THEN g[k] ELSE n]
  <2>1. /\ u \in Seq(X) /\ Len(u) = Len(t) + 1
        /\ \A k \in 1 .. Len(t) : u[k] = t[k]
        /\ u[Len(t) + 1] = s[n]
    OBVIOUS
  <2>2. /\ h \in [1 .. Len(t) + 1 -> 1 .. n]
        /\ \A k \in 1 .. Len(t) : h[k] = g[k] /\ h[k] \in 1 .. n - 1
        /\ h[Len(t) + 1] = n
    <3> g \in [1 .. Len(t) -> 1 .. n - 1]
      BY <1>1
    <3>1. Len(t) + 1 \in 1 .. Len(t) + 1 /\ n \in 1 .. n
      OBVIOUS
    <3>2. \A k \in 1 .. Len(t) : k \in 1 .. Len(t) + 1 /\ g[k] \in 1 .. n - 1 /\ g[k] \in 1 .. n
      OBVIOUS
    <3>3. \A k \in 1 .. Len(t) + 1 : k <= Len(t) => k \in 1 .. Len(t)
      OBVIOUS
    <3> QED
      BY <3>1, <3>2, <3>3
  <2> HIDE DEF u, h
  <2>3. \A k \in 1 .. Len(u) : k \in 1 .. Len(t) \/ k = Len(t) + 1
    BY <2>1
  <2>4. \A k \in 1 .. Len(u) : h[k] \in I /\ u[k] = s[h[k]]
    BY <1>1, <1>5, <2>1, <2>2, <2>3
  <2>5. \A k, l \in 1 .. Len(u) : h[k] = h[l] => k = l
    BY <1>1, <2>1, <2>2, <2>3
  <2>6. \A i \in 1 .. n : i \in I => \E k \in 1 .. Len(u) : u[k] = s[i]
    <3> SUFFICES ASSUME NEW i \in 1 .. n, i \in I
                 PROVE  \E k \in 1 .. Len(u) : u[k] = s[i]
      OBVIOUS
    <3>1. CASE i = n
      <4>1. Len(t) + 1 \in 1 .. Len(u)
        BY <2>1
      <4> QED
        BY <3>1, <4>1, <2>1
    <3>2. CASE i \in 1 .. n - 1
      <4>1. PICK k \in 1 .. Len(t) : t[k] = s[i]
        BY <1>2, <3>2
      <4>2. k \in 1 .. Len(u) /\ u[k] = s[i]
        BY <4>1, <2>1
      <4> QED
        BY <4>2
    <3> QED
      BY <3>1, <3>2
  <2>7. ASSUME NEW i \in 1 .. n, i \notin I
        PROVE  Len(u) < n
    <3>1. i \in 1 .. n - 1
      BY <1>5, <2>7
    <3>2. Len(t) < n - 1
      BY <1>3, <2>7, <3>1
    <3> QED
      BY <2>1, <3>2
  <2>8. Embeds(h, u, s, I, n)
    BY <2>1, <2>2, <2>4, <2>5 DEF Embeds
  <2>9. Len(u) <= n
    BY <2>1
  <2>10. Picks(u, s, I, n, X)
    BY <2>1, <2>6, <2>7, <2>8, <2>9 DEF Picks
  <2> QED
    BY <1>5, <2>10 DEF u
<1> QED
  BY <1>4, <1>5

LEMMA KeptPicks ==
  ASSUME NEW X, NEW s \in Seq(X), NEW I
  PROVE  Picks(Kept(s, I), s, I, Len(s), X)
<1> DEFINE f == CHOOSE f : Loop(f, Len(s), s, I)
<1> Len(s) \in Nat
  OBVIOUS
<1>1. Loop(f, Len(s), s, I)
  BY LoopExists
<1>2. Kept(s, I) = f[Len(s)]
  BY KeptIsLoop
<1> HIDE DEF f
<1>3. \A n \in 0 .. Len(s) : Step(f, n, s, I)
  BY <1>1, LoopSteps
<1> DEFINE T == {n \in Nat : n <= Len(s) => Picks(f[n], s, I, n, X)}
<1>4. 0 \in T
  BY <1>3, PicksNone DEF Step
<1>5. ASSUME NEW n \in Nat, n \in T
      PROVE  n + 1 \in T
  <2> SUFFICES ASSUME n + 1 <= Len(s)
               PROVE  Picks(f[n + 1], s, I, n + 1, X)
    OBVIOUS
  <2>1. n + 1 \in 1 .. Len(s) /\ n + 1 \in 0 .. Len(s) /\ (n + 1) - 1 = n /\ n + 1 # 0
    OBVIOUS
  <2>2. Picks(f[n], s, I, (n + 1) - 1, X)
    BY <1>5, <2>1
  <2>3. f[n + 1] = IF n + 1 \in I THEN Append(f[n], s[n + 1]) ELSE f[n]
    BY <1>3, <2>1 DEF Step
  <2> QED
    BY <2>1, <2>2, <2>3, PicksOne
<1> HIDE DEF T
<1>6. Len(s) \in T
  BY <1>4, <1>5, InductionOnSets
<1> QED
  BY <1>2, <1>6 DEF T

-----------------------------------------------------------------------------
(* The cache *)

Caches == [entries : [Domains -> CacheEntry \cup {NoEntry}],
           lru     : Seq(Domains),
           ipIndex : [IPs -> Seq(CacheEntry)]]

\* l lists the keys K, each once.
Lists(l, K) ==
  /\ l \in Seq(Domains)
  /\ \A i \in 1 .. Len(l) : l[i] \in K
  /\ \A d \in K : \E i \in 1 .. Len(l) : l[i] = d
  /\ \A i, j \in 1 .. Len(l) : l[i] = l[j] => i = j

\* es holds bindings of the address ip, one for each of its domains.
Binds(es, ip) ==
  /\ es \in Seq(CacheEntry)
  /\ \A i \in 1 .. Len(es) : es[i].ip = ip
  /\ \A i, j \in 1 .. Len(es) : es[i].domain = es[j].domain => i = j

Among(e, es) == \E i \in 1 .. Len(es) : es[i] = e

\* The invariant of the cache: the list holds the keys, an entry is stored under its own
\* domain, and is among the bindings of its address.
Sound(c) ==
  /\ c \in Caches
  /\ Lists(c.lru, Keys(c)) /\ Len(c.lru) <= MaxEntries
  /\ \A d \in Keys(c) : c.entries[d].domain = d /\ Among(c.entries[d], c.ipIndex[c.entries[d].ip])
  /\ \A ip \in IPs : Binds(c.ipIndex[ip], ip)

\* Every binding of an address in c is one of old, or e.
OnlyAdds(c, old, e) ==
  \A ip \in IPs : \A i \in 1 .. Len(c.ipIndex[ip]) :
     Among(c.ipIndex[ip][i], old.ipIndex[ip]) \/ c.ipIndex[ip][i] = e

\* What Picks says without the embedding.
LEMMA KeptElements ==
  ASSUME NEW X, NEW s \in Seq(X), NEW I
  PROVE  /\ Kept(s, I) \in Seq(X) /\ Len(Kept(s, I)) <= Len(s)
         /\ \A k \in 1 .. Len(Kept(s, I)) : \E i \in 1 .. Len(s) : i \in I /\ Kept(s, I)[k] = s[i]
         /\ \A i \in 1 .. Len(s) : i \in I => \E k \in 1 .. Len(Kept(s, I)) : Kept(s, I)[k] = s[i]
         /\ \A i \in 1 .. Len(s) : i \notin I => Len(Kept(s, I)) < Len(s)
<1> DEFINE t == Kept(s, I)
<1>1. Picks(t, s, I, Len(s), X)
  BY KeptPicks
<1> HIDE DEF t
<1>2. PICK g : Embeds(g, t, s, I, Len(s))
  BY <1>1 DEF Picks
<1>3. \A k \in 1 .. Len(t) : \E i \in 1 .. Len(s) : i \in I /\ t[k] = s[i]
  <2> SUFFICES ASSUME NEW k \in 1 .. Len(t)
               PROVE  \E i \in 1 .. Len(s) : i \in I /\ t[k] = s[i]
    OBVIOUS
  <2>1. g[k] \in 1 .. Len(s) /\ g[k] \in I /\ t[k] = s[g[k]]
    BY <1>2 DEF Embeds
  <2> QED
    BY <2>1
<1>4. /\ t \in Seq(X) /\ Len(t) <= Len(s)
      /\ \A k \in 1 .. Len(t) : \E i \in 1 .. Len(s) : i \in I /\ t[k] = s[i]
      /\ \A i \in 1 .. Len(s) : i \in I => \E k \in 1 .. Len(t) : t[k] = s[i]
      /\ \A i \in 1 .. Len(s) : i \notin I => Len(t) < Len(s)
  BY <1>1, <1>3 DEF Picks
<1> QED
  BY <1>4 DEF t

\* Dropping keys from the list.
LEMMA KeptLists ==
  ASSUME NEW l, NEW K, Lists(l, K), NEW E
  PROVE  LET t == Kept(l, {i \in DOMAIN l : l[i] \notin E})
         IN  /\ Lists(t, K \ E) /\ Len(t) <= Len(l)
             /\ \A d \in K : d \in E => Len(t) < Len(l)
<1> DEFINE I == {i \in DOMAIN l : l[i] \notin E}
           t == Kept(l, I)
<1>1. l \in Seq(Domains) /\ DOMAIN l = 1 .. Len(l)
  BY DEF Lists
<1>2. \A i \in 1 .. Len(l) : i \in I <=> l[i] \notin E
  BY <1>1
<1> HIDE DEF I
<1>3. Picks(t, l, I, Len(l), Domains)
  BY <1>1, KeptPicks
<1>4. /\ t \in Seq(Domains) /\ Len(t) <= Len(l)
      /\ \A k \in 1 .. Len(t) : \E i \in 1 .. Len(l) : i \in I /\ t[k] = l[i]
      /\ \A i \in 1 .. Len(l) : i \in I => \E k \in 1 .. Len(t) : t[k] = l[i]
      /\ \A i \in 1 .. Len(l) : i \notin I => Len(t) < Len(l)
  BY <1>1, KeptElements
<1> HIDE DEF t
<1>5. PICK g : Embeds(g, t, l, I, Len(l))
  BY <1>3 DEF Picks
<1>6. ASSUME NEW i \in 1 .. Len(t), NEW j \in 1 .. Len(t), t[i] = t[j]
      PROVE  i = j
  <2>1. /\ g[i] \in 1 .. Len(l) /\ t[i] = l[g[i]]
        /\ g[j] \in 1 .. Len(l) /\ t[j] = l[g[j]]
    BY <1>5 DEF Embeds
  <2>2. g[i] = g[j]
    BY <1>6, <2>1 DEF Lists
  <2> QED
    BY <1>5, <2>2 DEF Embeds
<1>7. \A k \in 1 .. Len(t) : t[k] \in K \ E
  BY <1>2, <1>4 DEF Lists
<1>8. ASSUME NEW d \in K \ E
      PROVE  \E k \in 1 .. Len(t) : t[k] = d
  <2>1. PICK i \in 1 .. Len(l) : l[i] = d
    BY DEF Lists
  <2> QED
    BY <1>2, <1>4, <2>1
<1>9. ASSUME NEW d \in K, d \in E
      PROVE  Len(t) < Len(l)
  <2>1. PICK i \in 1 .. Len(l) : l[i] = d
    BY DEF Lists
  <2> QED
    BY <1>2, <1>4, <1>9, <2>1
<1>10. Lists(t, K \ E)
  BY <1>4, <1>6, <1>7, <1>8 DEF Lists
<1> QED
  BY <1>4, <1>9, <1>10 DEF t, I

LEMMA OtherKeysLists ==
  ASSUME NEW l, NEW K, Lists(l, K), NEW d
  PROVE  /\ Lists(OtherKeys(l, d), K \ {d}) /\ Len(OtherKeys(l, d)) <= Len(l)
         /\ d \in K => Len(OtherKeys(l, d)) < Len(l)
<1>1. {i \in DOMAIN l : l[i] # d} = {i \in DOMAIN l : l[i] \notin {d}}
  OBVIOUS
<1> QED
  BY <1>1, KeptLists DEF OtherKeys

\* Pushing a key to the front of the list.
LEMMA FrontLists ==
  ASSUME NEW l, NEW K, Lists(l, K), NEW d \in Domains, d \notin K
  PROVE  Lists(<<d>> \o l, K \cup {d}) /\ Len(<<d>> \o l) = Len(l) + 1
<1> DEFINE m == <<d>> \o l
<1>1. /\ m \in Seq(Domains) /\ Len(m) = Len(l) + 1 /\ m[1] = d
      /\ \A i \in 2 .. Len(m) : m[i] = l[i - 1] /\ i - 1 \in 1 .. Len(l)
  BY DEF Lists
<1>2. \A i \in 1 .. Len(l) : i + 1 \in 2 .. Len(m) /\ (i + 1) - 1 = i
  BY <1>1 DEF Lists
<1>3. Len(l) \in Nat
  BY DEF Lists
<1> HIDE DEF m
<1>4. \A i \in 1 .. Len(m) : i = 1 \/ i \in 2 .. Len(m)
  BY <1>1
<1>5. \A i \in 1 .. Len(m) : m[i] \in K \cup {d}
  BY <1>1, <1>4 DEF Lists
<1>6. ASSUME NEW b \in K \cup {d}
      PROVE  \E i \in 1 .. Len(m) : m[i] = b
  <2>1. CASE b = d
    <3>1. 1 \in 1 .. Len(m)
      BY <1>1, <1>3
    <3> QED
      BY <1>1, <2>1, <3>1
  <2>2. CASE b \in K
    <3>1. PICK i \in 1 .. Len(l) : l[i] = b
      BY <2>2 DEF Lists
    <3>2. m[i + 1] = b /\ i + 1 \in 1 .. Len(m)
      BY <1>1, <1>2, <3>1
    <3> QED
      BY <3>2
  <2> QED
    BY <2>1, <2>2
<1>7. ASSUME NEW i \in 1 .. Len(m), NEW j \in 1 .. Len(m), m[i] = m[j]
      PROVE  i = j
  <2>0. \A k \in 2 .. Len(m) : m[k] # d
    BY <1>1 DEF Lists
  <2>1. CASE i = 1
    BY <1>1, <1>4, <1>7, <2>0, <2>1
  <2>2. CASE j = 1
    BY <1>1, <1>4, <1>7, <2>0, <2>2
  <2>3. CASE i \in 2 .. Len(m) /\ j \in 2 .. Len(m)
    <3>1. /\ i - 1 \in 1 .. Len(l) /\ m[i] = l[i - 1]
          /\ j - 1 \in 1 .. Len(l) /\ m[j] = l[j - 1]
      BY <1>1, <2>3
    <3>2. i - 1 = j - 1
      BY <1>7, <3>1 DEF Lists
    <3> QED
      BY <3>2
  <2> QED
    BY <1>4, <2>1, <2>2, <2>3
<1>8. Lists(m, K \cup {d})
  BY <1>1, <1>5, <1>6, <1>7 DEF Lists
<1> QED
  BY <1>1, <1>8 DEF m

\* Dropping bindings of an address.
LEMMA KeptBinds ==
  ASSUME NEW es, NEW ip, Binds(es, ip), NEW I
  PROVE  /\ Binds(Kept(es, I), ip)
         /\ \A k \in 1 .. Len(Kept(es, I)) : Among(Kept(es, I)[k], es)
<1> DEFINE t == Kept(es, I)
<1>1. es \in Seq(CacheEntry)
  BY DEF Binds
<1>2. Picks(t, es, I, Len(es), CacheEntry)
  BY <1>1, KeptPicks
<1> HIDE DEF t
<1>3. t \in Seq(CacheEntry)
  BY <1>2 DEF Picks
<1>4. PICK g : Embeds(g, t, es, I, Len(es))
  BY <1>2 DEF Picks
<1>5. \A k \in 1 .. Len(t) : g[k] \in 1 .. Len(es) /\ t[k] = es[g[k]]
  BY <1>4 DEF Embeds
<1>6. ASSUME NEW i \in 1 .. Len(t), NEW j \in 1 .. Len(t), t[i].domain = t[j].domain
      PROVE  i = j
  <2>1. g[i] = g[j]
    BY <1>5, <1>6 DEF Binds
  <2> QED
    BY <1>4, <2>1 DEF Embeds
<1>7. \A k \in 1 .. Len(t) : Among(t[k], es)
  BY <1>5 DEF Among
<1>8. Binds(t, ip)
  BY <1>3, <1>5, <1>6 DEF Binds
<1> QED
  BY <1>7, <1>8 DEF t

\* Dropping the binding of one domain leaves those of the others.
LEMMA OtherDomainsBinds ==
  ASSUME NEW es, NEW ip, Binds(es, ip), NEW d
  PROVE  LET t == OtherDomains(es, d)
         IN  /\ Binds(t, ip)
             /\ \A k \in 1 .. Len(t) : Among(t[k], es) /\ t[k].domain # d
             /\ \A e : Among(e, es) /\ e.domain # d => Among(e, t)
<1> DEFINE I == {i \in DOMAIN es : es[i].domain # d}
           t == Kept(es, I)
<1>1. es \in Seq(CacheEntry) /\ DOMAIN es = 1 .. Len(es)
  BY DEF Binds
<1>2. \A i \in 1 .. Len(es) : i \in I <=> es[i].domain # d
  BY <1>1
<1> HIDE DEF I
<1>3. /\ \A k \in 1 .. Len(t) : \E i \in 1 .. Len(es) : i \in I /\ t[k] = es[i]
      /\ \A i \in 1 .. Len(es) : i \in I => \E k \in 1 .. Len(t) : t[k] = es[i]
  <2>1. Picks(t, es, I, Len(es), CacheEntry)
    BY <1>1, KeptPicks
  <2> HIDE DEF t
  <2>2. PICK g : Embeds(g, t, es, I, Len(es))
    BY <2>1 DEF Picks
  <2>3. \A k \in 1 .. Len(t) : \E i \in 1 .. Len(es) : i \in I /\ t[k] = es[i]
    BY <2>2 DEF Embeds
  <2>4. \A i \in 1 .. Len(es) : i \in I => \E k \in 1 .. Len(t) : t[k] = es[i]
    BY <2>1 DEF Picks
  <2> QED
    BY <2>3, <2>4
<1>4. Binds(t, ip) /\ \A k \in 1 .. Len(t) : Among(t[k], es)
  BY KeptBinds
<1> HIDE DEF t
<1>5. \A k \in 1 .. Len(t) : t[k].domain # d
  BY <1>2, <1>3
<1>6. ASSUME NEW e, Among(e, es), e.domain # d
      PROVE  Among(e, t)
  <2>1. PICK i \in 1 .. Len(es) : es[i] = e
    BY <1>6 DEF Among
  <2> QED
    BY <1>2, <1>3, <1>6, <2>1 DEF Among
<1> QED
  BY <1>4, <1>5, <1>6 DEF t, I, OtherDomains

\* An entry that is dropped from the forward index and the list only.
LEMMA UnlinkSound ==
  ASSUME NEW c, Sound(c), NEW d \in Keys(c)
  PROVE  LET u == Unlink(c, d)
         IN  /\ Sound(u) /\ Keys(u) = Keys(c) \ {d} /\ Len(u.lru) < Len(c.lru)
             /\ u.ipIndex = c.ipIndex /\ \A k \in Keys(u) : u.entries[k] = c.entries[k]
<1> DEFINE u == Unlink(c, d)
<1>1. c \in Caches /\ d \in Domains
  BY DEF Sound, Keys
<1>2. /\ u.entries = [c.entries EXCEPT ![d] = NoEntry] /\ u.lru = OtherKeys(c.lru, d)
      /\ u.ipIndex = c.ipIndex
  BY <1>1 DEF Unlink, Caches
<1>3. Keys(u) = Keys(c) \ {d} /\ \A k \in Keys(u) : u.entries[k] = c.entries[k]
  BY <1>1, <1>2 DEF Keys, Caches
<1>4. Lists(u.lru, Keys(u)) /\ Len(u.lru) < Len(c.lru)
  BY <1>2, <1>3, OtherKeysLists DEF Sound
<1>5. u.lru \in Seq(Domains) /\ c.lru \in Seq(Domains)
  BY <1>4 DEF Lists, Sound
<1>6. u \in Caches
  <2>1. OtherKeys(c.lru, d) \in Seq(Domains)
    BY <1>2, <1>5
  <2> QED
    BY <1>1, <2>1 DEF Caches, Unlink
<1> HIDE DEF u
<1>7. Len(u.lru) <= MaxEntries
  BY <1>4, <1>5, MaxEntriesAssumption DEF Sound
<1>8. u.ipIndex = c.ipIndex
  BY <1>2
<1>9. Sound(u)
  BY <1>3, <1>4, <1>6, <1>7, <1>8 DEF Sound
<1> QED
  BY <1>3, <1>4, <1>8, <1>9 DEF u

\* An entry that is dropped from both indexes.
LEMMA RemoveSound ==
  ASSUME NEW c, Sound(c), NEW d \in Keys(c)
  PROVE  LET r == Remove(c, d)
         IN  /\ Sound(r) /\ Keys(r) = Keys(c) \ {d} /\ Len(r.lru) < Len(c.lru)
             /\ OnlyAdds(r, c, NoEntry)
<1> DEFINE r == Remove(c, d)
           u == Unlink(c, d)
           x == c.entries[d]
           t == OtherDomains(c.ipIndex[x.ip], d)
<1>1. c \in Caches /\ d \in Domains /\ x.domain = d
  BY DEF Sound, Keys
<1>2. x \in CacheEntry /\ x.ip \in IPs
  BY <1>1 DEF Caches, Keys, CacheEntry
<1>3. /\ Sound(u) /\ Keys(u) = Keys(c) \ {d} /\ Len(u.lru) < Len(c.lru)
      /\ u.ipIndex = c.ipIndex /\ \A k \in Keys(u) : u.entries[k] = c.entries[k]
  BY UnlinkSound
<1>4. r = [u EXCEPT !.ipIndex = [c.ipIndex EXCEPT ![x.ip] = t]]
  BY <1>1, <1>3 DEF Remove, removeFromIPIndex
<1>5. /\ Binds(t, x.ip) /\ \A k \in 1 .. Len(t) : Among(t[k], c.ipIndex[x.ip])
      /\ \A e : Among(e, c.ipIndex[x.ip]) /\ e.domain # d => Among(e, t)
  <2>1. Binds(c.ipIndex[x.ip], x.ip)
    BY <1>2 DEF Sound
  <2> QED
    BY <2>1, OtherDomainsBinds
<1> HIDE DEF r, u, x, t
<1>6. u \in Caches
  BY <1>3 DEF Sound
<1>7. /\ r.entries = u.entries /\ r.lru = u.lru
      /\ r.ipIndex = [c.ipIndex EXCEPT ![x.ip] = t] /\ c.ipIndex \in [IPs -> Seq(CacheEntry)]
  BY <1>1, <1>4, <1>6 DEF Caches
<1>8. r \in Caches
  <2>1. t \in Seq(CacheEntry)
    BY <1>5 DEF Binds
  <2> QED
    BY <1>1, <1>2, <1>4, <1>6, <2>1 DEF Caches
<1>9. Keys(r) = Keys(u)
  BY <1>7 DEF Keys
<1>10. \A ip \in IPs : Binds(r.ipIndex[ip], ip)
  BY <1>5, <1>7 DEF Sound
<1>11. ASSUME NEW k \in Keys(r)
       PROVE  r.entries[k].domain = k /\ Among(r.entries[k], r.ipIndex[r.entries[k].ip])
  <2>1. r.entries[k] = c.entries[k] /\ k \in Keys(c) /\ k # d
    BY <1>3, <1>7, <1>9
  <2>2. c.entries[k].domain = k /\ Among(c.entries[k], c.ipIndex[c.entries[k].ip])
    BY <2>1 DEF Sound
  <2>3. c.entries[k].ip \in IPs
    BY <1>1, <2>1 DEF Caches, Keys, CacheEntry
  <2> QED
    BY <1>5, <1>7, <2>1, <2>2, <2>3
<1>12. Sound(r)
  BY <1>3, <1>7, <1>8, <1>9, <1>10, <1>11 DEF Sound
<1>13. OnlyAdds(r, c, NoEntry)
  BY <1>5, <1>7 DEF OnlyAdds, Among
<1> QED
  BY <1>3, <1>7, <1>9, <1>12, <1>13 DEF r

\* Making room for a key: the list has a last element, and the entry it names goes.
LEMMA EvictSound ==
  ASSUME NEW c, Sound(c), Len(c.lru) >= MaxEntries
  PROVE  LET r == evictOldest(c)
         IN  Sound(r) /\ Keys(r) \subseteq Keys(c) /\ Len(r.lru) < MaxEntries /\ OnlyAdds(r, c, NoEntry)
<1> DEFINE d == c.lru[Len(c.lru)]
           r == Remove(c, d)
<1>1. c.lru \in Seq(Domains) /\ Len(c.lru) = MaxEntries /\ Len(c.lru) \in 1 .. Len(c.lru)
  BY MaxEntriesAssumption DEF Sound, Lists
<1>2. d \in Keys(c)
  BY <1>1 DEF Sound, Lists
<1>3. /\ Sound(r) /\ Keys(r) = Keys(c) \ {d} /\ Len(r.lru) < Len(c.lru)
      /\ OnlyAdds(r, c, NoEntry)
  BY <1>2, RemoveSound
<1> QED
  BY <1>1, <1>3 DEF evictOldest

\* Storing a binding, in a cache that has room for it.
LEMMA StoreSound ==
  ASSUME NEW c, Sound(c), NEW e \in CacheEntry, e.domain \in Keys(c) \/ Len(c.lru) < MaxEntries
  PROVE  LET s == [entries |-> [c.entries EXCEPT ![e.domain] = e],
                   lru     |-> <<e.domain>> \o OtherKeys(c.lru, e.domain),
                   ipIndex |-> updateIPIndex(c.ipIndex, e)]
         IN  Sound(s) /\ OnlyAdds(s, c, e)
<1> DEFINE d == e.domain
           o == OtherKeys(c.lru, d)
           t == OtherDomains(c.ipIndex[e.ip], d)
           u == Append(t, e)
           s == [entries |-> [c.entries EXCEPT ![d] = e], lru |-> <<d>> \o o,
                 ipIndex |-> [c.ipIndex EXCEPT ![e.ip] = u]]
<1>1. c \in Caches /\ d \in Domains /\ e.ip \in IPs /\ e # NoEntry
  BY NoEntryAssumption DEF Sound, CacheEntry
<1>2. Lists(o, Keys(c) \ {d}) /\ Len(o) <= Len(c.lru) /\ (d \in Keys(c) => Len(o) < Len(c.lru))
  BY OtherKeysLists DEF Sound
<1>3. Lists(<<d>> \o o, (Keys(c) \ {d}) \cup {d}) /\ Len(<<d>> \o o) = Len(o) + 1
  BY <1>1, <1>2, FrontLists
<1>4. /\ Binds(t, e.ip) /\ \A k \in 1 .. Len(t) : Among(t[k], c.ipIndex[e.ip]) /\ t[k].domain # d
      /\ \A b : Among(b, c.ipIndex[e.ip]) /\ b.domain # d => Among(b, t)
  <2>1. Binds(c.ipIndex[e.ip], e.ip)
    BY <1>1 DEF Sound
  <2> QED
    BY <2>1, OtherDomainsBinds
<1> HIDE DEF o, t
<1>5. Keys(s) = (Keys(c) \ {d}) \cup {d}
  BY <1>1 DEF Keys, Caches
<1>6. Len(<<d>> \o o) <= MaxEntries
  <2>1. Len(o) \in Nat /\ Len(c.lru) \in Nat /\ Len(c.lru) <= MaxEntries
    BY <1>2 DEF Lists, Sound
  <2> QED
    BY <1>2, <1>3, <2>1, MaxEntriesAssumption
<1>7. /\ u \in Seq(CacheEntry) /\ Len(u) = Len(t) + 1 /\ Len(t) \in Nat /\ u[Len(t) + 1] = e
      /\ \A k \in 1 .. Len(t) : u[k] = t[k]
  BY <1>4 DEF Binds
<1> HIDE DEF u
<1>8. \A k \in 1 .. Len(u) : k \in 1 .. Len(t) \/ k = Len(t) + 1
  BY <1>7
<1>9. Binds(u, e.ip)
  <2>1. \A k \in 1 .. Len(u) : u[k].ip = e.ip
    BY <1>4, <1>7, <1>8 DEF Binds
  <2>2. \A j, k \in 1 .. Len(u) : u[j].domain = u[k].domain => j = k
    BY <1>4, <1>7, <1>8 DEF Binds
  <2> QED
    BY <1>7, <2>1, <2>2 DEF Binds
<1>10. Among(e, u) /\ \A b : Among(b, t) => Among(b, u)
  BY <1>7, <1>8 DEF Among
<1>11. s \in Caches
  BY <1>1, <1>3, <1>7 DEF Caches, Lists
<1>12. /\ s.entries = [c.entries EXCEPT ![d] = e] /\ s.lru = <<d>> \o o
       /\ s.ipIndex = [c.ipIndex EXCEPT ![e.ip] = u] /\ c.ipIndex \in [IPs -> Seq(CacheEntry)]
       /\ c.entries \in [Domains -> CacheEntry \cup {NoEntry}]
  BY <1>1 DEF Caches
<1>13. s.ipIndex = updateIPIndex(c.ipIndex, e)
  BY <1>12 DEF updateIPIndex, u, t
<1> HIDE DEF s
<1>14. \A ip \in IPs : Binds(s.ipIndex[ip], ip)
  BY <1>9, <1>12 DEF Sound
<1>15. ASSUME NEW k \in Keys(s)
       PROVE  s.entries[k].domain = k /\ Among(s.entries[k], s.ipIndex[s.entries[k].ip])
  <2>1. CASE k = d
    BY <1>1, <1>10, <1>12, <2>1
  <2>2. CASE k # d
    <3>1. k \in Keys(c) /\ s.entries[k] = c.entries[k]
      BY <1>5, <1>12, <2>2 DEF Keys
    <3>2. c.entries[k].domain = k /\ Among(c.entries[k], c.ipIndex[c.entries[k].ip])
      BY <3>1 DEF Sound
    <3>3. c.entries[k].ip \in IPs
      BY <1>12, <3>1 DEF Keys, CacheEntry
    <3> QED
      BY <1>4, <1>10, <1>12, <2>2, <3>1, <3>2, <3>3
  <2> QED
    BY <2>1, <2>2
<1>16. Lists(s.lru, Keys(s)) /\ Len(s.lru) <= MaxEntries
  BY <1>3, <1>5, <1>6, <1>12
<1>17. Sound(s)
  BY <1>11, <1>14, <1>15, <1>16 DEF Sound
<1>18. OnlyAdds(s, c, e)
  <2> SUFFICES ASSUME NEW ip \in IPs, NEW i \in 1 .. Len(s.ipIndex[ip])
               PROVE  Among(s.ipIndex[ip][i], c.ipIndex[ip]) \/ s.ipIndex[ip][i] = e
    BY DEF OnlyAdds
  <2>1. CASE ip = e.ip
    <3>1. s.ipIndex[ip] = u
      BY <1>1, <1>12, <2>1
    <3> QED
      BY <1>4, <1>7, <1>8, <2>1, <3>1
  <2>2. CASE ip # e.ip
    BY <1>12, <2>2 DEF Among
  <2> QED
    BY <2>1, <2>2
<1> QED
  BY <1>13, <1>17, <1>18 DEF s, o

LEMMA SetSound ==
  ASSUME NEW c, Sound(c), NEW e \in CacheEntry
  PROVE  Sound(Set(c, e)) /\ OnlyAdds(Set(c, e), c, e)
<1> DEFINE room == IF c.entries[e.domain] = NoEntry /\ Len(c.lru) >= MaxEntries
                   THEN evictOldest(c) ELSE c
           s(r) == [entries |-> [r.entries EXCEPT ![e.domain] = e],
                    lru     |-> <<e.domain>> \o OtherKeys(r.lru, e.domain),
                    ipIndex |-> updateIPIndex(r.ipIndex, e)]
<1>1. /\ Sound(room) /\ (e.domain \in Keys(room) \/ Len(room.lru) < MaxEntries)
      /\ room = c \/ OnlyAdds(room, c, NoEntry)
  <2>1. CASE c.entries[e.domain] = NoEntry /\ Len(c.lru) >= MaxEntries
    BY <2>1, EvictSound
  <2>2. CASE c.entries[e.domain] # NoEntry
    BY <2>2 DEF Keys, CacheEntry
  <2>3. CASE ~(Len(c.lru) >= MaxEntries)
    BY <2>3, MaxEntriesAssumption DEF Sound, Lists
  <2> QED
    BY <2>1, <2>2, <2>3
<1>2. Set(c, e) = s(room)
  BY DEF Set
<1> HIDE DEF room
<1>3. Sound(s(room)) /\ OnlyAdds(s(room), room, e)
  BY <1>1, StoreSound
<1> HIDE DEF s
<1>4. OnlyAdds(s(room), c, e)
  <2> SUFFICES ASSUME NEW ip \in IPs, NEW i \in 1 .. Len(s(room).ipIndex[ip])
               PROVE  Among(s(room).ipIndex[ip][i], c.ipIndex[ip]) \/ s(room).ipIndex[ip][i] = e
    BY DEF OnlyAdds
  <2>1. CASE room = c
    BY <1>3, <2>1 DEF OnlyAdds
  <2>2. CASE OnlyAdds(room, c, NoEntry)
    <3> SUFFICES ASSUME Among(s(room).ipIndex[ip][i], room.ipIndex[ip])
                 PROVE  Among(s(room).ipIndex[ip][i], c.ipIndex[ip])
      BY <1>3 DEF OnlyAdds
    <3>1. PICK k \in 1 .. Len(room.ipIndex[ip]) : room.ipIndex[ip][k] = s(room).ipIndex[ip][i]
      BY DEF Among
    <3>2. room.ipIndex[ip][k] \in CacheEntry
      <4>1. room.ipIndex[ip] \in Seq(CacheEntry)
        BY <1>1 DEF Sound, Binds
      <4> QED
        BY <4>1
    <3> QED
      BY <2>2, <3>1, <3>2, NoEntryAssumption DEF OnlyAdds
  <2> QED
    BY <1>1, <2>1, <2>2
<1> QED
  BY <1>2, <1>3, <1>4

-----------------------------------------------------------------------------
(* The steps of the cache *)

\* Every binding of the cache was given for its own address, in the way it says.
Witnessed(c, sn) ==
  \A ip \in IPs : \A i \in 1 .. Len(c.ipIndex[ip]) : <<c.ipIndex[ip][i].domain, ip, c.ipIndex[ip][i].src>> \in sn

CacheInv == now \in 0 .. MaxTime /\ Sound(cache) /\ Witnessed(cache, seen)

\* A binding that is added must have been seen.
LEMMA AddsWitnessed ==
  ASSUME NEW c, Sound(c), NEW old, NEW e, OnlyAdds(c, old, e), NEW sn, Witnessed(old, sn),
         e = NoEntry \/ <<e.domain, e.ip, e.src>> \in sn
  PROVE  Witnessed(c, sn)
<1> SUFFICES ASSUME NEW ip \in IPs, NEW i \in 1 .. Len(c.ipIndex[ip])
             PROVE  <<c.ipIndex[ip][i].domain, ip, c.ipIndex[ip][i].src>> \in sn
  BY DEF Witnessed
<1>1. c.ipIndex[ip][i] \in CacheEntry /\ c.ipIndex[ip][i].ip = ip
  BY DEF Sound, Binds
<1>2. CASE Among(c.ipIndex[ip][i], old.ipIndex[ip])
  BY <1>2 DEF Among, Witnessed
<1>3. CASE c.ipIndex[ip][i] = e
  BY <1>1, <1>3, NoEntryAssumption
<1> QED
  BY <1>2, <1>3 DEF OnlyAdds

LEMMA EmptySound == Sound(NewIPDomainCache) /\ \A sn : Witnessed(NewIPDomainCache, sn)
<1> DEFINE c == NewIPDomainCache
           e == <<>>
<1>1. e \in Seq(Domains) /\ e \in Seq(CacheEntry) /\ Len(e) = 0
  OBVIOUS
<1>2. /\ c.entries = [d \in Domains |-> NoEntry] /\ c.lru = e /\ c.ipIndex = [ip \in IPs |-> e]
      /\ c = [entries |-> c.entries, lru |-> c.lru, ipIndex |-> c.ipIndex]
  BY DEF NewIPDomainCache
<1> HIDE DEF e, c
<1>3. Keys(c) = {}
  BY <1>2 DEF Keys
<1>4. c \in Caches
  <2>1. c.entries \in [Domains -> CacheEntry \cup {NoEntry}] /\ c.ipIndex \in [IPs -> Seq(CacheEntry)]
    BY <1>1, <1>2
  <2> QED
    BY <1>1, <1>2, <2>1 DEF Caches
<1>5. Lists(c.lru, Keys(c)) /\ Len(c.lru) <= MaxEntries
  BY <1>1, <1>2, <1>3, MaxEntriesAssumption DEF Lists
<1>6. \A ip \in IPs : Binds(c.ipIndex[ip], ip)
  BY <1>1, <1>2 DEF Binds
<1>7. \A sn : Witnessed(c, sn)
  BY <1>1, <1>2 DEF Witnessed
<1> QED
  BY <1>3, <1>4, <1>5, <1>6, <1>7 DEF Sound, c

\* The goroutine that removes what has expired.
LEMMA CleanupSound ==
  ASSUME Sound(cache), cleanup
  PROVE  Sound(cache') /\ cache'.ipIndex = cache.ipIndex
<1> DEFINE E == {d \in Keys(cache) : IsExpired(cache.entries[d])}
           l == Kept(cache.lru, {i \in DOMAIN cache.lru : cache.lru[i] \notin E})
           m == [d \in Domains |-> IF d \in E THEN NoEntry ELSE cache.entries[d]]
<1>1. cache \in Caches
  BY DEF Sound
<1>2. cache' = [cache EXCEPT !.entries = m, !.lru = l]
  BY DEF cleanup
<1>3. Lists(l, Keys(cache) \ E) /\ Len(l) <= Len(cache.lru)
  BY KeptLists DEF Sound
<1>4. m \in [Domains -> CacheEntry \cup {NoEntry}] /\ \A d \in Domains \ E : m[d] = cache.entries[d]
  BY <1>1 DEF Caches
<1>5. {d \in Domains : m[d] # NoEntry} = Keys(cache) \ E
  BY DEF Keys
<1> HIDE DEF E, l, m
<1>6. l \in Seq(Domains) /\ cache.lru \in Seq(Domains)
  BY <1>1, <1>3 DEF Lists, Caches
<1>7. cache'.entries = m /\ cache'.lru = l /\ cache'.ipIndex = cache.ipIndex /\ cache' \in Caches
  BY <1>1, <1>2, <1>4, <1>6 DEF Caches
<1>8. Keys(cache') = Keys(cache) \ E
  BY <1>5, <1>7 DEF Keys
<1>9. Len(cache'.lru) <= MaxEntries
  BY <1>3, <1>6, <1>7, MaxEntriesAssumption DEF Sound
<1>10. \A d \in Keys(cache') : cache'.entries[d] = cache.entries[d] /\ d \in Keys(cache)
  BY <1>4, <1>7, <1>8 DEF Keys
<1> QED
  BY <1>3, <1>7, <1>8, <1>9, <1>10 DEF Sound

\* A key that is used goes to the front of the list.
LEMMA TouchSound ==
  ASSUME NEW c, Sound(c), NEW d \in Keys(c)
  PROVE  LET t == [c EXCEPT !.lru = <<d>> \o OtherKeys(c.lru, d)]
         IN  Sound(t) /\ t.ipIndex = c.ipIndex
<1> DEFINE o == OtherKeys(c.lru, d)
           t == [c EXCEPT !.lru = <<d>> \o o]
<1>1. c \in Caches /\ d \in Domains
  BY DEF Sound, Keys
<1>2. Lists(o, Keys(c) \ {d}) /\ Len(o) < Len(c.lru)
  BY OtherKeysLists DEF Sound
<1>3. Lists(<<d>> \o o, (Keys(c) \ {d}) \cup {d}) /\ Len(<<d>> \o o) = Len(o) + 1
  BY <1>1, <1>2, FrontLists
<1> HIDE DEF o
<1>4. (Keys(c) \ {d}) \cup {d} = Keys(c)
  OBVIOUS
<1>5. Len(<<d>> \o o) <= MaxEntries
  <2>1. Len(o) \in Nat /\ Len(c.lru) \in Nat /\ Len(c.lru) <= MaxEntries
    BY <1>2 DEF Lists, Sound
  <2> QED
    BY <1>2, <1>3, <2>1, MaxEntriesAssumption
<1>6. <<d>> \o o \in Seq(Domains)
  BY <1>3 DEF Lists
<1>7. /\ t.entries = c.entries /\ t.lru = <<d>> \o o /\ t.ipIndex = c.ipIndex /\ t \in Caches
  BY <1>1, <1>6 DEF Caches
<1> HIDE DEF t
<1>8. Keys(t) = Keys(c)
  BY <1>7 DEF Keys
<1>9. Sound(t)
  BY <1>3, <1>4, <1>5, <1>7, <1>8 DEF Sound
<1> QED
  BY <1>7, <1>9 DEF t, o

LEMMA CacheStepKeeps ==
  ASSUME CacheInv, CacheStep
  PROVE  CacheInv'
<1> Sound(cache) /\ Witnessed(cache, seen) /\ now \in 0 .. MaxTime /\ seen' = seen
  BY DEF CacheInv, CacheStep
<1>0. ASSUME Sound(cache'), cache'.ipIndex = cache.ipIndex, now' = now
      PROVE  CacheInv'
  BY <1>0 DEF CacheInv, Witnessed
<1>1. CASE Tick
  <2>1. now' \in 0 .. MaxTime /\ cache' = cache
    BY <1>1, MaxTimeAssumption DEF Tick
  <2> QED
    BY <2>1 DEF CacheInv
<1>2. CASE Clear
  BY <1>2, EmptySound DEF Clear, CacheInv
<1>3. CASE cleanup
  <2>1. now' = now
    BY <1>3 DEF cleanup
  <2> QED
    BY <1>0, <1>3, <2>1, CleanupSound
<1>4. ASSUME NEW d \in Domains, Get(d)
      PROVE  CacheInv'
  <2>1. d \in Keys(cache) /\ now' = now
    BY <1>4 DEF Get
  <2>2. CASE IsExpired(cache.entries[d])
    <3>1. cache' = Unlink(cache, d)
      BY <1>4, <2>2 DEF Get
    <3> QED
      BY <1>0, <2>1, <3>1, UnlinkSound
  <2>3. CASE ~IsExpired(cache.entries[d])
    <3>1. cache' = [cache EXCEPT !.lru = <<d>> \o OtherKeys(cache.lru, d)]
      BY <1>4, <2>3 DEF Get
    <3> QED
      BY <1>0, <2>1, <3>1, TouchSound
  <2> QED
    BY <2>2, <2>3
<1>5. ASSUME NEW d \in Domains, Delete(d)
      PROVE  CacheInv'
  <2>1. d \in Keys(cache) /\ now' = now /\ cache' = Remove(cache, d)
    BY <1>5 DEF Delete
  <2>2. Sound(cache') /\ OnlyAdds(cache', cache, NoEntry)
    BY <2>1, RemoveSound
  <2>3. Witnessed(cache', seen)
    BY <2>2, AddsWitnessed
  <2> QED
    BY <2>1, <2>2, <2>3 DEF CacheInv
<1> QED
  BY <1>1, <1>2, <1>3, <1>4, <1>5 DEF CacheStep

-----------------------------------------------------------------------------
(* The connections *)

Routes == {"none", "aliang", "socks", "direct"}
Early == {"new", "lookup", "reverse", "decide"}
HandlerPcs == Early \cup {"mitm", "dial", "relay", "done", "closed", "panic"}
Handlers == [pc : HandlerPcs, host : Domains \cup {NoName},
             dns : [src : BindingSources \cup {"none"}, bound : Nat, ttl : Nat],
             route : Routes, egress : Routes, wrapped : BOOLEAN,
             mitm : Domains \cup {NoName}, http1 : BOOLEAN, rivals : SUBSET Domains]

\* What the name of a connection with profile p rests on.
NameInv(k, p, sn) ==
  /\ k.host # NoName => <<k.host, p.dst, k.dns.src>> \in sn
  /\ k.rivals \subseteq {k.host} /\ (k.pc \in Early \ {"decide"} => k.rivals = {})
  /\ k.mitm # NoName => k.mitm = k.host

\* How far the route is decided, intercepted and followed.
RouteInv(k, p) ==
  /\ k.pc \in Early => k.mitm = NoName
  /\ k.pc = "mitm" => k.mitm = NoName /\ p.port = "https" /\ k.route = "aliang" /\ k.host # NoName
  /\ k.pc \in {"dial", "relay", "done"} =>
       (k.mitm # NoName <=> p.port = "https" /\ k.route = "aliang")
  /\ k.pc \in {"relay", "done"} =>
       /\ k.route = "aliang" <=> k.egress = "aliang"
       /\ k.egress = "socks" => k.route = "socks"

Proper(k, p, sn) == k \in Handlers /\ NameInv(k, p, sn) /\ RouteInv(k, p)

HInv ==
  /\ CacheInv
  /\ prof \in [Conns -> Profiles] /\ cfg \in Configs
  /\ DOMAIN conn = Conns /\ \A c \in Conns : Proper(conn[c], prof[c], seen)

\* A step of one connection, which may add what it has seen.
LEMMA OneConnection ==
  ASSUME HInv, NEW c \in Conns, NEW k, conn' = [conn EXCEPT ![c] = k], Proper(k, prof[c], seen'),
         seen \subseteq seen', CacheInv', prof' = prof, cfg' = cfg
  PROVE  HInv'
<1>1. \A b \in Conns : Proper(conn[b], prof[b], seen')
  BY DEF HInv, Proper, NameInv
<1> QED
  BY <1>1 DEF HInv

LEMMA MoreSeen ==
  ASSUME CacheInv, seen \subseteq seen', cache' = cache, now' = now
  PROVE  CacheInv'
BY DEF CacheInv, Witnessed

\* A step that changes nothing but how far the handling has come.
LEMMA GoesTo ==
  ASSUME HInv, NEW c \in Conns, NEW k, conn' = [conn EXCEPT ![c] = k], Proper(k, prof[c], seen),
         UNCHANGED <<env, cache, seen>>
  PROVE  HInv'
<1>1. CacheInv'
  BY MoreSeen DEF HInv, env
<1> QED
  BY <1>1, OneConnection DEF env

\* The fields of a profile.
LEMMA ProfileFields ==
  ASSUME HInv, NEW c \in Conns
  PROVE  /\ prof[c] \in Profiles /\ prof[c].dst \in IPs
         /\ prof[c].preset \in Domains \cup {NoName}
         /\ prof[c].payload \in Domains \cup {"bare", "raw", "none"}
         /\ conn[c] \in Handlers /\ Proper(conn[c], prof[c], seen)
BY ProfilesAssumption DEF HInv, ProfileOK, Proper

\* SetHostName: the name has been given for the address of the connection.
LEMMA SetHostNameKeeps ==
  ASSUME HInv, NEW c \in Conns, NEW d \in Domains, NEW s \in BindingSources, SetHostName(c, d, s),
         conn[c].pc \in Early \ {"decide"}, UNCHANGED <<env, cache>>
  PROVE  HInv'
<1> DEFINE label == IF s = "sni" /\ d \in DoH THEN "closed" ELSE "decide"
           w == prof[c].payload # "none"
           dns == [src |-> s, bound |-> now, ttl |-> DefaultTTL[s]]
           k == [conn[c] EXCEPT !.host = d, !.pc = label, !.wrapped = w, !.http1 = (s = "http_host"),
                                !.dns = dns]
<1>0. conn[c] \in Handlers /\ Proper(conn[c], prof[c], seen) /\ DOMAIN conn = Conns
  BY ProfileFields DEF HInv
<1>1. conn' = [conn EXCEPT ![c] = k]
  BY <1>0 DEF SetHostName
<1>2. DefaultTTL[s] \in Nat /\ now \in Nat
  BY MaxTimeAssumption DEF DefaultTTL, BindingSources, HInv, CacheInv
<1>3. dns \in [src : BindingSources \cup {"none"}, bound : Nat, ttl : Nat]
  BY <1>2
<1>4. label \in {"closed", "decide"} /\ w \in BOOLEAN
  OBVIOUS
<1> HIDE DEF dns, label, w
<1>5. k \in Handlers
  BY <1>0, <1>3, <1>4 DEF Handlers, HandlerPcs, Early
<1>6. /\ k.host = d /\ k.dns.src = s /\ k.pc = label /\ k.rivals = conn[c].rivals /\ k.mitm = conn[c].mitm
  BY <1>0 DEF Handlers, dns
<1> HIDE DEF k
<1>7. conn[c].rivals = {} /\ conn[c].mitm = NoName
  BY <1>0 DEF Proper, NameInv, RouteInv
<1>8. <<d, prof[c].dst, s>> \in seen' /\ seen \subseteq seen'
  BY DEF SetHostName
<1>9. Proper(k, prof[c], seen')
  BY <1>4, <1>5, <1>6, <1>7, <1>8 DEF Proper, NameInv, RouteInv
<1>10. CacheInv'
  BY <1>8, MoreSeen DEF HInv, env
<1> QED
  BY <1>1, <1>8, <1>9, <1>10, OneConnection DEF env

\* GetByIP answers with the bindings of the address that have not expired, all of them.
LEMMA GetByIPAnswers ==
  ASSUME HInv, NEW ip \in IPs
  PROVE  LET es == GetByIP(ip)
         IN  /\ es \in Seq(CacheEntry)
             /\ \A i \in 1 .. Len(es) : ~IsExpired(es[i]) /\ <<es[i].domain, ip, es[i].src>> \in seen
             /\ \A e : Among(e, cache.ipIndex[ip]) /\ ~IsExpired(e) => Among(e, es)
<1> DEFINE s == cache.ipIndex[ip]
           I == {i \in DOMAIN s : ~IsExpired(s[i])}
           es == Kept(s, I)
<1>1. s \in Seq(CacheEntry) /\ DOMAIN s = 1 .. Len(s)
  BY DEF HInv, CacheInv, Sound, Binds
<1>2. \A i \in 1 .. Len(s) : i \in I <=> ~IsExpired(s[i])
  BY <1>1
<1>3. \A i \in 1 .. Len(s) : <<s[i].domain, ip, s[i].src>> \in seen
  BY DEF HInv, CacheInv, Witnessed
<1>4. GetByIP(ip) = es
  BY DEF GetByIP
<1> HIDE DEF s, I
<1>5. /\ es \in Seq(CacheEntry) /\ Len(es) <= Len(s)
      /\ \A k \in 1 .. Len(es) : \E i \in 1 .. Len(s) : i \in I /\ es[k] = s[i]
      /\ \A i \in 1 .. Len(s) : i \in I => \E k \in 1 .. Len(es) : es[k] = s[i]
      /\ \A i \in 1 .. Len(s) : i \notin I => Len(es) < Len(s)
  BY <1>1, KeptElements
<1> HIDE DEF es
<1>6. \A k \in 1 .. Len(es) : ~IsExpired(es[k]) /\ <<es[k].domain, ip, es[k].src>> \in seen
  BY <1>2, <1>3, <1>5
<1>7. ASSUME NEW e, Among(e, s), ~IsExpired(e)
      PROVE  Among(e, es)
  <2>1. PICK i \in 1 .. Len(s) : s[i] = e
    BY <1>7 DEF Among
  <2> QED
    BY <1>2, <1>5, <1>7, <2>1 DEF Among
<1> QED
  BY <1>4, <1>5, <1>6, <1>7 DEF s

\* A connection that takes its name from a cached binding, with nothing bound beside it.
LEMMA NamedProper ==
  ASSUME HInv, NEW c \in Conns, conn[c].pc \in Early \ {"decide"}, NEW e \in CacheEntry, ~IsExpired(e),
         <<e.domain, prof[c].dst, e.src>> \in seen, NEW R \in SUBSET Domains, R \subseteq {e.domain}
  PROVE  Proper([Named(conn[c], e, "decide") EXCEPT !.rivals = R], prof[c], seen)
<1> DEFINE dns == [src |-> e.src, bound |-> e.created, ttl |-> TimeToLive(e)]
           k == [[conn[c] EXCEPT !.host = e.domain, !.pc = "decide", !.dns = dns] EXCEPT !.rivals = R]
<1>0. conn[c] \in Handlers /\ Proper(conn[c], prof[c], seen)
  BY ProfileFields
<1>1. now \in Nat /\ e.expires \in Nat /\ e.domain \in Domains
  BY MaxTimeAssumption DEF HInv, CacheInv, CacheEntry
<1>2. TimeToLive(e) \in Nat
  BY <1>1 DEF TimeToLive, IsExpired
<1>3. dns \in [src : BindingSources \cup {"none"}, bound : Nat, ttl : Nat]
  BY <1>2 DEF CacheEntry
<1>4. [Named(conn[c], e, "decide") EXCEPT !.rivals = R] = k
  BY DEF Named
<1> HIDE DEF dns
<1>5. k \in Handlers
  BY <1>0, <1>1, <1>3 DEF Handlers, HandlerPcs, Early
<1>6. /\ k.host = e.domain /\ k.dns.src = e.src /\ k.pc = "decide"
      /\ k.rivals = R /\ k.mitm = conn[c].mitm
  BY <1>0 DEF Handlers, dns
<1> HIDE DEF k
<1>7. conn[c].mitm = NoName
  BY <1>0 DEF Proper, RouteInv
<1>8. Proper(k, prof[c], seen)
  BY <1>5, <1>6, <1>7 DEF Proper, NameInv, RouteInv, Early
<1> QED
  BY <1>4, <1>8

\* A unique binding is unique in the forward index as well.
LEMMA TlsLookupKeeps ==
  ASSUME HInv, NEW c \in Conns, TlsLookup(c)
  PROVE  HInv'
<1> DEFINE ip == prof[c].dst
           es == GetByIP(ip)
           names == {es[i].domain : i \in DOMAIN es}
<1>0. conn[c] \in Handlers /\ Proper(conn[c], prof[c], seen) /\ ip \in IPs /\ conn[c].pc = "lookup"
  BY ProfileFields DEF TlsLookup, At
<1>1. UNCHANGED <<env, cache, seen>>
  BY DEF TlsLookup
<1>2. CASE Cardinality(names) = 1
  <2> DEFINE k == [Named(conn[c], es[1], "decide") EXCEPT !.rivals = BoundTo(ip)]
  <2>1. conn' = [conn EXCEPT ![c] = k]
    BY <1>2 DEF TlsLookup
  <2>2. /\ es \in Seq(CacheEntry)
        /\ \A i \in 1 .. Len(es) : ~IsExpired(es[i]) /\ <<es[i].domain, ip, es[i].src>> \in seen
        /\ \A e : Among(e, cache.ipIndex[ip]) /\ ~IsExpired(e) => Among(e, es)
    BY <1>0, GetByIPAnswers
  <2>3. DOMAIN es = 1 .. Len(es) /\ Len(es) \in Nat
    BY <2>2
  <2>4. IsFiniteSet(names)
    <3> DEFINE f == [i \in 1 .. Len(es) |-> es[i].domain]
    <3>1. f \in Surjection(1 .. Len(es), names)
      BY <2>3 DEF Surjection
    <3>2. IsFiniteSet(1 .. Len(es))
      BY <2>3, FS_Interval
    <3> QED
      BY <3>1, <3>2, FS_Surjection
  <2>5. PICK n : names = {n}
    BY <1>2, <2>4, FS_Singleton
  <2>6. 1 \in 1 .. Len(es)
    BY <2>3, <2>5
  <2>7. \A i \in 1 .. Len(es) : es[i].domain = es[1].domain
    BY <2>3, <2>5, <2>6
  <2> HIDE DEF es, names
  <2>8. BoundTo(ip) \subseteq {es[1].domain} /\ BoundTo(ip) \in SUBSET Domains
    <3>1. ASSUME NEW d \in BoundTo(ip)
          PROVE  d = es[1].domain
      <4>1. d \in Keys(cache) /\ cache.entries[d].ip = ip /\ ~IsExpired(cache.entries[d])
        BY DEF BoundTo
      <4>2. cache.entries[d].domain = d /\ Among(cache.entries[d], cache.ipIndex[ip])
        BY <4>1 DEF HInv, CacheInv, Sound
      <4>3. Among(cache.entries[d], es)
        BY <2>2, <4>1, <4>2
      <4> QED
        BY <2>7, <4>2, <4>3 DEF Among
    <3> QED
      BY <3>1 DEF BoundTo, Keys
  <2>9. es[1] \in CacheEntry
    BY <2>2, <2>6
  <2>10. Proper(k, prof[c], seen)
    BY <1>0, <2>2, <2>6, <2>8, <2>9, NamedProper DEF Early
  <2> HIDE DEF k
  <2> QED
    BY <1>1, <2>1, <2>10, GoesTo
<1>3. CASE Cardinality(names) # 1
  <2> DEFINE k == [conn[c] EXCEPT !.pc = "dial", !.route = "direct"]
  <2>1. conn' = [conn EXCEPT ![c] = k]
    BY <1>3 DEF TlsLookup
  <2>2. k \in Handlers /\ k.pc = "dial" /\ k.route = "direct" /\ k.host = conn[c].host
        /\ k.mitm = conn[c].mitm /\ k.rivals = conn[c].rivals /\ k.dns = conn[c].dns
    BY <1>0 DEF Handlers, HandlerPcs, Routes
  <2> HIDE DEF k
  <2>3. Proper(k, prof[c], seen)
    BY <1>0, <2>2 DEF Proper, NameInv, RouteInv, Early
  <2> QED
    BY <1>1, <2>1, <2>3, GoesTo
<1> QED
  BY <1>2, <1>3

\* The end of a relay stores a binding that was seen.
LEMMA StoreBindingKeeps ==
  ASSUME HInv, NEW c \in Conns
  PROVE  Sound(StoreBinding(c)) /\ Witnessed(StoreBinding(c), seen)
<1> DEFINE k == conn[c]
           e == [domain |-> k.host, ip |-> prof[c].dst, src |-> k.dns.src, created |-> k.dns.bound,
                 expires |-> k.dns.bound + k.dns.ttl]
           x == [e EXCEPT !.expires = now + k.dns.ttl]
<1>0. k \in Handlers /\ Proper(k, prof[c], seen) /\ prof[c].dst \in IPs
  BY ProfileFields
<1>1. Sound(cache) /\ Witnessed(cache, seen) /\ now \in Nat
  BY MaxTimeAssumption DEF HInv, CacheInv
<1>2. CASE k.host = NoName \/ k.dns.src = "none"
  BY <1>1, <1>2 DEF StoreBinding
<1>3. CASE ~(k.host = NoName \/ k.dns.src = "none")
  <2>1. /\ k.host \in Domains /\ k.dns.src \in BindingSources /\ k.dns.bound \in Nat
        /\ k.dns.ttl \in Nat
    BY <1>0, <1>3 DEF Handlers
  <2>2. StoreBinding(c) = Set(cache, x)
    BY <1>3 DEF StoreBinding, SetWithTTL
  <2>3. /\ x \in CacheEntry /\ x.domain = k.host /\ x.ip = prof[c].dst
        /\ x.src = k.dns.src
    BY <1>0, <1>1, <2>1 DEF CacheEntry
  <2>4. <<x.domain, x.ip, x.src>> \in seen
    BY <1>0, <1>3, <2>3 DEF Proper, NameInv
  <2> HIDE DEF x
  <2>5. Sound(Set(cache, x)) /\ OnlyAdds(Set(cache, x), cache, x)
    BY <1>1, <2>3, SetSound
  <2>6. Witnessed(Set(cache, x), seen)
    BY <1>1, <2>4, <2>5, AddsWitnessed
  <2> QED
    BY <2>2, <2>5, <2>6
<1> QED
  BY <1>2, <1>3

\* The fields of a connection of which only some change.
LEMMA HandleKeeps ==
  ASSUME HInv, NEW c \in Conns, Handle(c)
  PROVE  HInv'
<1> DEFINE k == conn[c]
           p == prof[c]
<1>0. /\ k \in Handlers /\ NameInv(k, p, seen) /\ RouteInv(k, p) /\ p.dst \in IPs
      /\ p.payload \in Domains \cup {"bare", "raw", "none"}
  BY ProfileFields DEF Proper
<1>1. CASE TlsPreset(c) \/ TlsNothing(c)
  <2> DEFINE n == [k EXCEPT !.pc = "panic"]
  <2>1. n \in Handlers /\ Proper(n, p, seen)
    BY <1>0 DEF Handlers, HandlerPcs, Proper, NameInv, RouteInv, Early
  <2>2. conn' = [conn EXCEPT ![c] = n] /\ UNCHANGED <<env, cache, seen>>
    BY <1>1 DEF TlsPreset, TlsNothing
  <2> QED
    BY <2>1, <2>2, GoesTo
<1>2. CASE TlsSni(c)
  BY <1>2, SetHostNameKeeps DEF TlsSni, At, Early, BindingSources
<1>3. CASE TlsBare(c)
  <2> DEFINE n == [k EXCEPT !.pc = "lookup", !.wrapped = TRUE]
  <2>1. k.pc = "new"
    BY <1>3 DEF TlsBare, At
  <2>2. Proper(n, p, seen)
    BY <1>0, <2>1 DEF Handlers, HandlerPcs, Proper, NameInv, RouteInv, Early
  <2>3. conn' = [conn EXCEPT ![c] = n] /\ UNCHANGED <<env, cache, seen>>
    BY <1>3 DEF TlsBare
  <2> QED
    BY <2>2, <2>3, GoesTo
<1>4. CASE TlsLookup(c)
  BY <1>4, TlsLookupKeeps
<1>5. CASE PlainShortcut(c)
  <2> DEFINE r == IF p.port = "self" THEN "aliang" ELSE "direct"
             n == [k EXCEPT !.pc = "dial", !.route = r]
  <2>1. k.pc = "new" /\ p.port # "https"
    BY <1>5 DEF PlainShortcut, At, IsTLS
  <2>2. Proper(n, p, seen)
    BY <1>0, <2>1 DEF Handlers, HandlerPcs, Routes, Proper, NameInv, RouteInv, Early
  <2>3. conn' = [conn EXCEPT ![c] = n] /\ UNCHANGED <<env, cache, seen>>
    BY <1>5 DEF PlainShortcut
  <2> QED
    BY <2>2, <2>3, GoesTo
<1>6. CASE PlainHttp(c)
  <2>1. k.pc = "new" /\ UNCHANGED <<env, cache>>
    BY <1>6 DEF PlainHttp, Sniffed, At
  <2>2. CASE p.payload \in Domains /\ SetHostName(c, p.payload, "http_host")
    BY <2>1, <2>2, SetHostNameKeeps DEF Early, BindingSources
  <2>3. CASE conn' = [conn EXCEPT ![c].pc = "decide", ![c].wrapped = TRUE, ![c].http1 = TRUE] /\ UNCHANGED seen
    <3> DEFINE n == [k EXCEPT !.pc = "decide", !.wrapped = TRUE, !.http1 = TRUE]
    <3>1. Proper(n, p, seen)
      BY <1>0, <2>1 DEF Handlers, HandlerPcs, Proper, NameInv, RouteInv, Early
    <3>2. conn' = [conn EXCEPT ![c] = n]
      BY <2>3
    <3> QED
      BY <2>1, <2>3, <3>1, <3>2, GoesTo
  <2> QED
    BY <1>6, <2>2, <2>3 DEF PlainHttp
<1>7. CASE PlainRaw(c)
  <2> DEFINE n == [k EXCEPT !.pc = "reverse", !.wrapped = (p.payload = "raw")]
  <2>1. k.pc = "new"
    BY <1>7 DEF PlainRaw, Sniffed, At
  <2>2. Proper(n, p, seen)
    BY <1>0, <2>1 DEF Handlers, HandlerPcs, Proper, NameInv, RouteInv, Early
  <2>3. conn' = [conn EXCEPT ![c] = n] /\ UNCHANGED <<env, cache, seen>>
    BY <1>7 DEF PlainRaw
  <2> QED
    BY <2>2, <2>3, GoesTo
<1>8. CASE ReverseLookup(c)
  <2> DEFINE es == GetByIP(p.dst)
  <2>1. k.pc = "reverse" /\ UNCHANGED <<env, cache, crashed>>
    BY <1>8 DEF ReverseLookup, At
  <2>2. CASE conn' = [conn EXCEPT ![c].pc = "decide"] /\ UNCHANGED seen
    <3> DEFINE n == [k EXCEPT !.pc = "decide"]
    <3>1. Proper(n, p, seen)
      BY <1>0, <2>1 DEF Handlers, HandlerPcs, Proper, NameInv, RouteInv, Early
    <3>2. conn' = [conn EXCEPT ![c] = n]
      BY <2>2
    <3> QED
      BY <2>1, <2>2, <3>1, <3>2, GoesTo
  <2>3. CASE /\ es # <<>> /\ conn' = [conn EXCEPT ![c] = Named(k, es[1], "decide")]
             /\ UNCHANGED seen
    <3> DEFINE n == Named(k, es[1], "decide")
               m == [n EXCEPT !.rivals = {}]
    <3>1. /\ es \in Seq(CacheEntry)
          /\ \A i \in 1 .. Len(es) : ~IsExpired(es[i]) /\ <<es[i].domain, p.dst, es[i].src>> \in seen
      BY <1>0, GetByIPAnswers
    <3> HIDE DEF es
    <3>2. es[1] \in CacheEntry /\ ~IsExpired(es[1]) /\ <<es[1].domain, p.dst, es[1].src>> \in seen
      BY <2>3, <3>1
    <3>3. Proper(m, p, seen)
      BY <2>1, <3>2, NamedProper DEF Early
    <3>4. k.rivals = {}
      BY <1>0, <2>1 DEF NameInv, Early
    <3>5. m = n
      BY <1>0, <3>4 DEF Named, Handlers
    <3> HIDE DEF m, n
    <3> QED
      BY <2>1, <2>3, <3>3, <3>5, GoesTo DEF n
  <2>4. ASSUME NEW d \in Domains, SetHostName(c, d, "dns")
        PROVE  HInv'
    BY <2>1, <2>4, SetHostNameKeeps DEF Early, BindingSources
  <2> QED
    BY <1>8, <2>2, <2>3, <2>4 DEF ReverseLookup
<1>9. CASE Decide(c)
  <2> DEFINE r == DecideRoute(cfg, k.host)
             label == IF IsTLS(c) /\ r = "aliang" THEN "mitm" ELSE "dial"
             n == [k EXCEPT !.route = r, !.pc = label]
  <2>1. k.pc = "decide"
    BY <1>9 DEF Decide, At
  <2>2. r \in Routes /\ (r = "aliang" => k.host # NoName)
    BY NamesAssumption DEF DecideRoute, Routes, HInv
  <2>3. label \in {"mitm", "dial"} /\ (label = "mitm" <=> p.port = "https" /\ r = "aliang")
    BY DEF IsTLS
  <2>4. conn' = [conn EXCEPT ![c] = n] /\ UNCHANGED <<env, cache, seen>>
    BY <1>9 DEF Decide
  <2> HIDE DEF r, label
  <2>5. Proper(n, p, seen)
    BY <1>0, <2>1, <2>2, <2>3 DEF Handlers, HandlerPcs, Proper, NameInv, RouteInv, Early
  <2> HIDE DEF n
  <2> QED
    BY <2>4, <2>5, GoesTo
<1>10. CASE PerformMITM(c)
  <2>1. k.pc = "mitm" /\ UNCHANGED <<env, cache, seen>>
    BY <1>10 DEF PerformMITM, At
  <2>2. ASSUME NEW h \in BOOLEAN, conn' = [conn EXCEPT ![c].mitm = k.host, ![c].http1 = h, ![c].pc = "dial"]
        PROVE  HInv'
    <3> DEFINE n == [k EXCEPT !.mitm = k.host, !.http1 = h, !.pc = "dial"]
    <3>1. Proper(n, p, seen)
      BY <1>0, <2>1 DEF Handlers, HandlerPcs, Proper, NameInv, RouteInv, Early
    <3>2. conn' = [conn EXCEPT ![c] = n]
      BY <2>2
    <3> QED
      BY <2>1, <3>1, <3>2, GoesTo
  <2>3. CASE conn' = [conn EXCEPT ![c].pc = "closed"]
    <3> DEFINE n == [k EXCEPT !.pc = "closed"]
    <3>1. Proper(n, p, seen)
      BY <1>0 DEF Handlers, HandlerPcs, Proper, NameInv, RouteInv, Early
    <3>2. conn' = [conn EXCEPT ![c] = n]
      BY <2>3
    <3> QED
      BY <2>1, <3>1, <3>2, GoesTo
  <2> QED
    BY <1>10, <2>2, <2>3 DEF PerformMITM
<1>11. CASE Dial(c)
  <2>1. k.pc = "dial" /\ UNCHANGED <<env, cache, seen>>
    BY <1>11 DEF Dial, At
  <2>2. ASSUME NEW e \in Routes, Connected(c, e), k.route = "aliang" <=> e = "aliang",
               e = "socks" => k.route = "socks"
        PROVE  HInv'
    <3> DEFINE n == [k EXCEPT !.egress = e, !.pc = "relay"]
    <3>1. Proper(n, p, seen)
      BY <1>0, <2>1, <2>2 DEF Handlers, HandlerPcs, Proper, NameInv, RouteInv, Early
    <3>2. conn' = [conn EXCEPT ![c] = n]
      BY <2>2 DEF Connected
    <3> QED
      BY <2>1, <3>1, <3>2, GoesTo
  <2>3. CASE Closed(c)
    <3> DEFINE n == [k EXCEPT !.pc = "closed"]
    <3>1. Proper(n, p, seen)
      BY <1>0 DEF Handlers, HandlerPcs, Proper, NameInv, RouteInv, Early
    <3>2. conn' = [conn EXCEPT ![c] = n]
      BY <2>3 DEF Closed
    <3> QED
      BY <2>1, <3>1, <3>2, GoesTo
  <2> QED
    BY <1>11, <2>2, <2>3 DEF Dial, Routes
<1>12. CASE RelayEnds(c)
  <2> DEFINE n == [k EXCEPT !.pc = "done"]
  <2>1. k.pc = "relay" /\ UNCHANGED <<env, seen>> /\ conn' = [conn EXCEPT ![c] = n]
    BY <1>12 DEF RelayEnds, At
  <2>2. Proper(n, p, seen)
    BY <1>0, <2>1 DEF Handlers, HandlerPcs, Proper, NameInv, RouteInv, Early
  <2>3. Sound(cache') /\ Witnessed(cache', seen)
    BY <1>12, StoreBindingKeeps DEF RelayEnds, HInv, CacheInv
  <2>4. CacheInv'
    BY <2>1, <2>3 DEF CacheInv, HInv, env
  <2> HIDE DEF n
  <2> QED
    BY <2>1, <2>2, <2>4, OneConnection DEF env
<1> QED
  BY <1>1, <1>2, <1>3, <1>4, <1>5, <1>6, <1>7, <1>8, <1>9, <1>10, <1>11, <1>12 DEF Handle

LEMMA HInvStarts == Init => HInv
<1> SUFFICES ASSUME Init
             PROVE  HInv
  OBVIOUS
<1>1. prof \in [Conns -> Profiles]
  BY ScenariosAssumption DEF Init
<1>2. CacheInv
  BY EmptySound, MaxTimeAssumption DEF Init, CacheInit, CacheInv
<1>3. ASSUME NEW c \in Conns
      PROVE  Proper(conn[c], prof[c], seen)
  <2> DEFINE k == conn[c]
             p == prof[c]
             dns == IF p.preset = NoName THEN NoDNS
                    ELSE [src |-> "connect", bound |-> 0, ttl |-> DefaultTTL["connect"]]
  <2>1. p.preset \in Domains \cup {NoName} /\ p.dst \in IPs
    BY <1>1, ProfilesAssumption DEF ProfileOK
  <2>2. k = [pc |-> "new", host |-> p.preset, dns |-> dns,
             route |-> "none", egress |-> "none", wrapped |-> FALSE,
             mitm |-> NoName, http1 |-> FALSE, rivals |-> {}]
    BY DEF Init, Fresh
  <2>3. dns \in [src : BindingSources \cup {"none"}, bound : Nat, ttl : Nat]
    BY DEF NoDNS, DefaultTTL, BindingSources
  <2>4. p.preset # NoName => <<k.host, p.dst, k.dns.src>> \in seen
    BY <2>2 DEF Init
  <2> HIDE DEF dns
  <2>5. k \in Handlers
    BY <2>1, <2>2, <2>3 DEF Handlers, HandlerPcs, Early, Routes
  <2>6. k.host = p.preset /\ k.pc = "new" /\ k.rivals = {} /\ k.mitm = NoName
    BY <2>2
  <2> QED
    BY <2>4, <2>5, <2>6 DEF Proper, NameInv, RouteInv
<1> QED
  BY <1>1, <1>2, <1>3 DEF Init, HInv

LEMMA HInvStep == HInv /\ [Next]_vars => HInv'
<1> SUFFICES ASSUME HInv, [Next]_vars
             PROVE  HInv'
  OBVIOUS
<1>1. ASSUME NEW c \in Conns, Handle(c)
      PROVE  HInv'
  BY <1>1, HandleKeeps
<1>2. CASE SetGlobalConfig
  BY <1>2 DEF SetGlobalConfig, HInv, CacheInv
<1>3. CASE ApplyRouting
  BY <1>3 DEF ApplyRouting, HInv, CacheInv
<1>4. CASE CacheStep
  <2>1. CacheInv'
    BY <1>4, CacheStepKeeps DEF HInv
  <2> QED
    BY <1>4, <2>1 DEF CacheStep, HInv
<1>5. CASE UNCHANGED vars
  BY <1>5 DEF vars, HInv, CacheInv
<1> QED
  BY <1>1, <1>2, <1>3, <1>4, <1>5 DEF Next

LEMMA HInvInvariant == Spec => []HInv
<1>1. HInv /\ [Next]_vars => HInv'
  BY HInvStep
<1> QED
  BY <1>1, HInvStarts, PTL DEF Spec

-----------------------------------------------------------------------------
(* The properties *)

\* Whatever stores, evictions, expiries and calls of the API are made, for any capacity
\* and any names and addresses, the list, the forward index and the reverse index agree.
THEOREM CacheAlwaysConsistent == Spec => []CacheConsistent
<1>1. HInv => CacheConsistent
  <2> SUFFICES ASSUME HInv
               PROVE  CacheConsistent
    OBVIOUS
  <2>1. Sound(cache)
    BY DEF HInv, CacheInv
  <2>2. CacheBounded
    <3>1. /\ Lists(cache.lru, Keys(cache)) /\ Len(cache.lru) <= MaxEntries
          /\ DOMAIN cache.lru = 1 .. Len(cache.lru)
      BY <2>1 DEF Sound, Lists
    <3> QED
      BY <3>1 DEF CacheBounded, Lists
  <2>3. ForwardIsIndexed
    <3>1. \A ip \in IPs : DOMAIN cache.ipIndex[ip] = 1 .. Len(cache.ipIndex[ip])
      BY <2>1 DEF Sound, Binds
    <3>2. \A d \in Keys(cache) : cache.entries[d].ip \in IPs
      BY <2>1 DEF Sound, Caches, Keys, CacheEntry
    <3>3. \A d \in Keys(cache) : Among(cache.entries[d], cache.ipIndex[cache.entries[d].ip])
      BY <2>1 DEF Sound
    <3>4. \A ip \in IPs : Binds(cache.ipIndex[ip], ip)
      BY <2>1 DEF Sound
    <3> QED
      BY <3>1, <3>2, <3>3, <3>4 DEF ForwardIsIndexed, Among, Binds
  <2> QED
    BY <2>2, <2>3 DEF CacheConsistent
<1> QED
  BY <1>1, HInvInvariant, PTL

\* A connection without a name of its own is intercepted only under a name that a client
\* showed on its address or the resolver answered for it, as its binding says, with no
\* other domain bound to the address when the cache was asked.
THEOREM InterceptedNamesAreSafe == Spec => []CachedNameIsSafe
<1>1. HInv => CachedNameIsSafe
  BY DEF HInv, Proper, NameInv, CachedNameIsSafe
<1> QED
  BY <1>1, HInvInvariant, PTL

\* However the configuration, the schema and the registry change between decision and
\* dial, what is decided for Aliang leaves through Aliang or is closed.
THEOREM AliangKept == Spec => []AliangOrNothing
<1>1. HInv => AliangOrNothing
  BY DEF HInv, Proper, RouteInv, AliangOrNothing, Relaying, IsTLS
<1> QED
  BY <1>1, HInvInvariant, PTL

=============================================================================
