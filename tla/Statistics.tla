------------------------------ MODULE Statistics ------------------------------
(***************************************************************************)
(* processor/statistic: the traffic counters that every tracked connection *)
(* feeds, the collector that samples them once a second, and the collector *)
(* of HTTP requests with its chart, its list of recent requests and the    *)
(* AI activity tracker.                                                    *)
(*                                                                         *)
(* Upload and download have counters of their own that are treated alike;  *)
(* one direction is modelled, in units of one write.                       *)
(***************************************************************************)
EXTENDS Integers, Sequences, SequencesExt, FiniteSets

CONSTANTS
    Conns,          \* tracked connections
    Routes,         \* metadata.Route
    MaxBytes,       \* bound on what a connection transfers
    RingCapacity,   \* capacity of the ring buffers (300, and 240 for the chart)
    Period,         \* seconds per sample of the slower rings: 5 and 15
    MaxSamples,     \* bound on the samples taken
    Hosts,          \* hosts of requests; those in TrackedDomains match a pattern
    TrackedDomains, \* currentTrackedAIDomains
    RecentCapacity, \* RequestCacheSize
    MaxRequests,    \* bound on the requests recorded
    MaxFlushes,     \* bound on the intervals of the chart
    ActivityTTL,    \* ttl of the AI activity tracker
    ActivityHorizon \* bound on its clock

ASSUME StatisticsAssumption ==
    /\ {MaxBytes, MaxSamples, MaxRequests, MaxFlushes, ActivityTTL, ActivityHorizon} \subseteq Nat
    /\ {RingCapacity, RecentCapacity} \subseteq Nat \ {0}
    /\ Period \in [{"5s", "15s"} -> Nat \ {0}]
    /\ TrackedDomains \subseteq Hosts

Scales == {"1s", "5s", "15s"}

VARIABLES
    tracked,     \* the trackers: state, route, own counter, step of a transfer
    temp, blip, total,  \* uploadTemp, uploadBlip, uploadTotal of the manager
    ticker,      \* has handle() loaded temp and not yet cleared it
    snap,        \* the snapshot being taken, and the last one
    rings,       \* cache1s, cache5s, cache15s
    counts,      \* count5s, count15s
    samples,     \* what was pushed to each ring since it was cleared
    collecting   \* "new", "running" or "stopped"

trafficVars == <<tracked, temp, blip, total, ticker, snap, rings, counts, samples, collecting>>

VARIABLES
    chart,       \* trafficChart
    interval,    \* currentInterval.RequestCount
    flushed,     \* what was pushed to the chart since it was cleared
    requests,    \* totalRequests
    recentReqs,  \* requestCache.order, newest first
    nextReq,     \* number of requests recorded so far
    domains,     \* domainTracker.stats: requests per tracked domain
    domainTotal, \* domainTracker.totalReq
    activity,    \* detections: when each provider was last seen (-1: no entry)
    activityNow  \* the clock of the activity tracker

requestVars == <<chart, interval, flushed, requests, recentReqs, nextReq, domains, domainTotal>>
activityVars == <<activity, activityNow>>
httpStatsVars == <<requestVars, activityVars>>
statisticsVars == <<trafficVars, httpStatsVars>>

-----------------------------------------------------------------------------
(* RingBuffer and TrafficChartBuffer *)

EmptyRing == [data |-> [i \in 0..RingCapacity - 1 |-> -1], head |-> 0, tail |-> 0, count |-> 0]

Push(rb, item) ==
    [data |-> [rb.data EXCEPT ![rb.head] = item],
     head |-> (rb.head + 1) % RingCapacity,
     tail |-> IF rb.count < RingCapacity THEN rb.tail ELSE (rb.tail + 1) % RingCapacity,
     count |-> IF rb.count < RingCapacity THEN rb.count + 1 ELSE rb.count]

GetAll(rb) == [i \in 1..rb.count |-> rb.data[(rb.tail + i - 1) % RingCapacity]]

GetLatest(rb) == IF rb.count = 0 THEN -1 ELSE rb.data[(rb.head - 1 + RingCapacity) % RingCapacity]

-----------------------------------------------------------------------------
(* The manager and its trackers *)

NewConn == [state |-> "new", route |-> "none", own |-> 0, step |-> "idle"]
NoSnapshot == [byRoute |-> 0, total |-> 0]

Joined == {c \in Conns : tracked[c].state = "joined"}

\* NewTCPTracker and NewUDPTracker: direct connections are not tracked.
NewTracker(c, route) ==
    /\ tracked[c].state = "new"
    /\ tracked' = [tracked EXCEPT ![c] =
          [@ EXCEPT !.route = route,
                    !.state = IF route = "RouteDirect" THEN "untracked" ELSE "joined"]]
    /\ UNCHANGED <<temp, blip, total, ticker, snap, rings, counts, samples, collecting>>

\* Variant for checking the properties: the tracker's own counter is added to first.
TransferOwnFirst(c) ==
    \/ /\ tracked[c].step = "idle" /\ tracked[c].state = "joined" /\ tracked[c].own < MaxBytes
       /\ tracked' = [tracked EXCEPT ![c].step = "total", ![c].own = @ + 1]
       /\ temp' = temp + 1
       /\ UNCHANGED total
    \/ /\ tracked[c].step = "total"
       /\ tracked' = [tracked EXCEPT ![c].step = "idle"]
       /\ total' = total + 1
       /\ UNCHANGED temp

\* Write and Read of a tracker, one atomic counter at a time: PushUploaded adds to temp
\* and to total, then the tracker adds to its own.
TransferStep(c) ==
    \/ /\ tracked[c].step = "idle" /\ tracked[c].state = "joined" /\ tracked[c].own < MaxBytes
       /\ tracked' = [tracked EXCEPT ![c].step = "total"]
       /\ temp' = temp + 1
       /\ UNCHANGED total
    \/ /\ tracked[c].step = "total"
       /\ tracked' = [tracked EXCEPT ![c].step = "own"]
       /\ total' = total + 1
       /\ UNCHANGED temp
    \/ /\ tracked[c].step = "own"
       /\ tracked' = [tracked EXCEPT ![c].step = "idle", ![c].own = @ + 1]
       /\ UNCHANGED <<temp, total>>

Transfer(c) == TransferStep(c) /\ UNCHANGED <<blip, ticker, snap, rings, counts, samples, collecting>>

\* Close leaves the manager, once.
CloseTracker(c) ==
    /\ tracked[c].state \in {"joined", "untracked"}
    /\ tracked' = [tracked EXCEPT ![c].state = "closed"]
    /\ UNCHANGED <<temp, blip, total, ticker, snap, rings, counts, samples, collecting>>

\* handle: once a second the rate is what temp holds; bytes added between the load and
\* the store are missing from every rate.
Handle ==
    /\ IF ticker THEN temp' = 0 /\ UNCHANGED blip ELSE blip' = temp /\ UNCHANGED temp
    /\ ticker' = ~ticker
    /\ UNCHANGED <<tracked, total, snap, rings, counts, samples, collecting>>

StartCollector ==
    /\ collecting = "new"
    /\ collecting' = "running"
    /\ UNCHANGED <<tracked, temp, blip, total, ticker, snap, rings, counts, samples>>

StopCollector ==
    /\ collecting = "running"
    /\ collecting' = "stopped"
    /\ UNCHANGED <<tracked, temp, blip, total, ticker, snap, rings, counts, samples>>

\* collectStats takes a snapshot.  Range visits the connections one after the other;
\* one that joins or leaves meanwhile may or may not be visited.
SnapshotBegin ==
    /\ collecting = "running" /\ snap.step = "idle"
    /\ Len(samples["1s"]) < MaxSamples
    /\ snap' = [snap EXCEPT !.step = "range", !.left = Joined, !.sum = 0]
    /\ UNCHANGED <<tracked, temp, blip, total, ticker, rings, counts, samples, collecting>>

SnapshotVisit(c) ==
    /\ snap.step = "range" /\ c \in snap.left
    /\ snap' = [snap EXCEPT !.left = @ \ {c},
                            !.sum = IF tracked[c].state # "joined" \/ tracked[c].route = "" THEN @
                                    ELSE @ + tracked[c].own]
    /\ UNCHANGED <<tracked, temp, blip, total, ticker, rings, counts, samples, collecting>>

\* The totals are loaded last; the sample goes to the ring of the seconds.
SnapshotEnd ==
    /\ snap.step = "range" /\ snap.left = {}
    /\ snap' = [snap EXCEPT !.step = "count", !.last = [byRoute |-> snap.sum, total |-> total]]
    /\ rings' = [rings EXCEPT !["1s"] = Push(@, total)]
    /\ samples' = [samples EXCEPT !["1s"] = Append(@, total)]
    /\ UNCHANGED <<tracked, temp, blip, total, ticker, counts, collecting>>

\* The rest of collectStats: every 5th and every 15th sample goes to a slower ring.
CollectSlow ==
    LET due == {s \in DOMAIN Period : counts[s] + 1 >= Period[s]}
    IN  /\ snap.step = "count"
        /\ snap' = [snap EXCEPT !.step = "idle"]
        /\ counts' = [s \in DOMAIN Period |-> IF s \in due THEN 0 ELSE counts[s] + 1]
        /\ rings' = [s \in Scales |-> IF s \in due THEN Push(rings[s], snap.last.total) ELSE rings[s]]
        /\ samples' = [s \in Scales |->
              IF s \in due THEN Append(samples[s], snap.last.total) ELSE samples[s]]
        /\ UNCHANGED <<tracked, temp, blip, total, ticker, collecting>>

\* ClearCache does not wait for a collectStats under way.
ClearStatsCache ==
    /\ rings' = [s \in Scales |-> EmptyRing]
    /\ counts' = [s \in DOMAIN Period |-> 0]
    /\ samples' = [s \in Scales |-> <<>>]
    /\ UNCHANGED <<tracked, temp, blip, total, ticker, snap, collecting>>

TrafficInit ==
    /\ tracked = [c \in Conns |-> NewConn]
    /\ temp = 0 /\ blip = 0 /\ total = 0 /\ ticker = FALSE
    /\ snap = [step |-> "idle", left |-> {}, sum |-> 0, last |-> NoSnapshot]
    /\ rings = [s \in Scales |-> EmptyRing]
    /\ counts = [s \in DOMAIN Period |-> 0]
    /\ samples = [s \in Scales |-> <<>>]
    /\ collecting = "new"

TrafficNext ==
    \/ \E c \in Conns :
          \/ \E route \in Routes : NewTracker(c, route)
          \/ Transfer(c) \/ CloseTracker(c) \/ SnapshotVisit(c)
    \/ Handle \/ StartCollector \/ StopCollector
    \/ SnapshotBegin \/ SnapshotEnd \/ CollectSlow \/ ClearStatsCache

-----------------------------------------------------------------------------
(* HTTPStatsCollector; its mutex covers RecordRequest, flushInterval and ClearAll *)

\* HTTPRequestCache.Add: newest first, the oldest is evicted.
AddRecord(order, id) == SubSeq(<<id>> \o order, 1, IF Len(order) < RecentCapacity THEN Len(order) + 1
                                                   ELSE RecentCapacity)

\* RecordConnection and RecordRequest.
RecordRequest(host) ==
    /\ nextReq < MaxRequests
    /\ nextReq' = nextReq + 1
    /\ recentReqs' = AddRecord(recentReqs, nextReq)
    /\ IF host \in TrackedDomains
       THEN domains' = [domains EXCEPT ![host] = @ + 1] /\ domainTotal' = domainTotal + 1
       ELSE UNCHANGED <<domains, domainTotal>>
    /\ interval' = interval + 1
    /\ requests' = requests + 1
    /\ UNCHANGED <<chart, flushed, activityVars>>

FlushInterval ==
    /\ Len(flushed) < MaxFlushes
    /\ chart' = Push(chart, interval)
    /\ flushed' = Append(flushed, interval)
    /\ interval' = 0
    /\ UNCHANGED <<requests, recentReqs, nextReq, domains, domainTotal, activityVars>>

ClearAll ==
    /\ chart' = EmptyRing /\ flushed' = <<>> /\ interval' = 0
    /\ recentReqs' = <<>> /\ requests' = 0
    /\ domains' = [d \in TrackedDomains |-> 0] /\ domainTotal' = 0
    /\ UNCHANGED <<nextReq, activityVars>>

\* pruneExpiredLocked keeps an entry for four times the time it counts as active.
Prune(seen, now) == [d \in DOMAIN seen |-> IF seen[d] < now - 4 * ActivityTTL THEN -1 ELSE seen[d]]

\* AIActivityTracker.RecordMetadata for a connection that does not go directly.
RecordDetection(d) ==
    /\ activity' = [Prune(activity, activityNow) EXCEPT ![d] = activityNow]
    /\ UNCHANGED <<requestVars, activityNow>>

\* SummaryAt prunes, and lists the entries seen less than the ttl ago.
Summary ==
    /\ activity' = Prune(activity, activityNow)
    /\ UNCHANGED <<requestVars, activityNow>>

ActivityTick ==
    /\ activityNow < ActivityHorizon
    /\ activityNow' = activityNow + 1
    /\ UNCHANGED <<requestVars, activity>>

HttpStatsInit ==
    /\ chart = EmptyRing /\ interval = 0 /\ flushed = <<>>
    /\ requests = 0 /\ recentReqs = <<>> /\ nextReq = 0
    /\ domains = [d \in TrackedDomains |-> 0] /\ domainTotal = 0
    /\ activity = [d \in TrackedDomains |-> -1] /\ activityNow = 0

HttpStatsNext ==
    \/ \E host \in Hosts : RecordRequest(host)
    \/ FlushInterval \/ ClearAll
    \/ \E d \in TrackedDomains : RecordDetection(d)
    \/ Summary \/ ActivityTick

StatisticsInit == TrafficInit /\ HttpStatsInit

StatisticsNext ==
    \/ TrafficNext /\ UNCHANGED httpStatsVars
    \/ HttpStatsNext /\ UNCHANGED trafficVars

StatisticsSpec == StatisticsInit /\ [][StatisticsNext]_statisticsVars

-----------------------------------------------------------------------------

StatisticsTypeOK ==
    /\ \A c \in Conns : tracked[c].own \in 0..MaxBytes
    /\ {temp, blip, total} \subseteq 0..MaxBytes * Cardinality(Conns)
    /\ \A s \in Scales : rings[s].count \in 0..RingCapacity
    /\ \A s \in DOMAIN Period : counts[s] \in 0..Period[s] - 1
    /\ Len(recentReqs) <= RecentCapacity
    /\ activity \in [TrackedDomains -> -1..ActivityHorizon]

\* A snapshot never shows more bytes for its connections than in total, though the
\* counters are read and written one at a time by different goroutines, without a lock:
\* a transfer adds to the total before the connection, a snapshot reads the total after
\* the connections.
SnapshotAddsUp == snap.last.byRoute <= snap.last.total

LastOf(history) == SubSeq(history, Len(history) - (IF Len(history) < RingCapacity THEN Len(history)
                                                   ELSE RingCapacity) + 1, Len(history))

\* The charts are right after the ring has wrapped around and after a clear: they show
\* the last samples, oldest first, and the points of the chart with the interval under
\* way account for every request counted in the totals.
ChartsAddUp ==
    /\ \A s \in Scales : GetAll(rings[s]) = LastOf(samples[s])
                         /\ (samples[s] # <<>> => GetLatest(rings[s]) = Last(samples[s]))
    /\ GetAll(chart) = LastOf(flushed)
    /\ FoldLeft(LAMBDA a, b : a + b, 0, flushed) + interval = requests
    /\ domainTotal <= requests

\* The figures of the statistics add up: the snapshot of the traffic by route, and the
\* charts over the samples and the requests.
FiguresAddUp == SnapshotAddsUp /\ ChartsAddUp
=============================================================================
