-------------------------------- MODULE Logger --------------------------------
(***************************************************************************)
(* common/logger and the log handlers: the asynchronous file writer with   *)
(* its queue, the ring of recent entries the API shows, the log level, the *)
(* throttling of error reports and the streams of new entries.             *)
(*                                                                         *)
(* A line or an entry is a number, in the order in which it was logged.    *)
(***************************************************************************)
EXTENDS Naturals, Sequences, FiniteSets, SequencesExt

CONSTANTS
    LogCallers,     \* goroutines that write, flush or close
    QueueSize,      \* defaultAsyncLogQueueSize
    MaxLines,       \* bound on the lines and entries of a behaviour
    RingSize,       \* maxSize of the LogBuffer
    LogLevels,      \* levels in use, 0 is TRACE and 2 is INFO
    MaxErrorCount, ErrorWindow,     \* of LogConfig
    LogHorizon,     \* bound on the clock of the throttle
    Streams, StreamBuffer           \* WebSocket clients, capacity of logChan (100)

ASSUME LoggerAssumption ==
    /\ QueueSize \in Nat \ {0} /\ RingSize \in Nat \ {0} /\ StreamBuffer \in Nat \ {0}
    /\ MaxLines \in Nat /\ LogHorizon \in Nat /\ MaxErrorCount \in Nat \ {0} /\ ErrorWindow \in Nat
    /\ LogLevels \subseteq 0 .. 6 /\ {0, 2} \subseteq LogLevels
    /\ \A g \in LogCallers : g \notin Nat \cup {"none", "done"}

VARIABLES
    \* asyncLogWriter
    logQueue,       \* queue: lines, and flush items named by their caller
    sinkClosed,     \* closed
    queueClosed,    \* has close(queue) happened
    logFile,        \* lines the goroutine has written
    accepted,       \* lines whose Write succeeded
    caller,         \* what each goroutine is doing in the writer
    closer,         \* who runs closeOnce, or "none"; "done" when it has returned
    runEnded,       \* has the goroutine of run returned
    \* LogBuffer and configuration
    ring, head, tail, isFull,
    history,        \* entries appended since the last Clear
    logLevel, prodBuild,
    \* errorCache
    errorCache,     \* of one message: count, first and last time, count 0 if absent
    sent,           \* times at which it was reported
    logClock,
    \* streams
    streams,        \* each client: state of its channel, entries in it
    observers       \* its goroutines: before the test of closed, and after it

sinkVars == <<logQueue, sinkClosed, queueClosed, logFile, accepted, caller, closer, runEnded>>
ringVars == <<ring, head, tail, isFull, history, logLevel, prodBuild>>
errorVars == <<errorCache, sent, logClock>>
streamVars == <<streams, observers>>
loggerVars == <<sinkVars, ringVars, errorVars, streamVars>>

NoEntry == [level |-> 0, source |-> "none", n |-> 0]
NoError == [count |-> 0, first |-> 0, last |-> 0]

SinkInit ==
    /\ logQueue = <<>> /\ sinkClosed = FALSE /\ queueClosed = FALSE
    /\ logFile = <<>> /\ accepted = <<>>
    /\ caller = [g \in LogCallers |-> "idle"] /\ closer = "none" /\ runEnded = FALSE

NewLogBuffer ==
    /\ ring = [i \in 0 .. RingSize - 1 |-> NoEntry]
    /\ head = 0 /\ tail = 0 /\ isFull = FALSE /\ history = <<>>

LoggerInit ==
    /\ SinkInit /\ NewLogBuffer
    /\ prodBuild \in BOOLEAN
    /\ logLevel = IF prodBuild THEN 2 ELSE 1
    /\ errorCache = NoError /\ sent = <<>> /\ logClock = 0
    /\ streams = [s \in Streams |-> [state |-> "none", chan |-> 0]]
    /\ observers = [s \in Streams |-> [starting |-> 0, sending |-> 0, panicked |-> FALSE]]

-----------------------------------------------------------------------------
(* asyncLogWriter.  log.Logger holds its own mutex around Write, so one caller at a time *)
(* is in it; flushes and Close do not take that mutex.                                   *)

InWrite(g) == caller[g] = "writing"
LineCount == Len(accepted)

\* The test of closed at the start of Write.
WriteCheck(g) ==
    /\ caller[g] = "idle" /\ LineCount < MaxLines
    /\ \A h \in LogCallers : ~InWrite(h)
    /\ caller' = [caller EXCEPT ![g] = IF sinkClosed THEN "idle" ELSE "writing"]
    /\ UNCHANGED <<logQueue, sinkClosed, queueClosed, logFile, accepted, closer, runEnded>>

\* The send waits for room; a send on the closed queue panics, is recovered and loses the line.
Write(g) ==
    /\ InWrite(g)
    /\ queueClosed \/ Len(logQueue) < QueueSize
    /\ IF queueClosed THEN UNCHANGED <<logQueue, accepted>>
       ELSE /\ logQueue' = Append(logQueue, LineCount + 1)
            /\ accepted' = Append(accepted, LineCount + 1)
    /\ caller' = [caller EXCEPT ![g] = "idle"]
    /\ UNCHANGED <<sinkClosed, queueClosed, logFile, closer, runEnded>>

\* Flush, alone or as the first step of Close: the test, the item, the wait for it.
FlushCheck(g) ==
    /\ caller[g] = "idle"
    /\ caller' = [caller EXCEPT ![g] = IF sinkClosed THEN "idle" ELSE "flushing"]
    /\ UNCHANGED <<logQueue, sinkClosed, queueClosed, logFile, accepted, closer, runEnded>>

AfterFlush(g) == IF closer = g THEN "closing" ELSE "idle"

Flush(g) ==
    /\ caller[g] = "flushing"
    /\ queueClosed \/ Len(logQueue) < QueueSize
    /\ IF queueClosed
       THEN caller' = [caller EXCEPT ![g] = AfterFlush(g)] /\ UNCHANGED logQueue
       ELSE caller' = [caller EXCEPT ![g] = "waiting"] /\ logQueue' = Append(logQueue, g)
    /\ UNCHANGED <<sinkClosed, queueClosed, logFile, accepted, closer, runEnded>>

\* closeOnce: flush, ...
CloseBegin(g) ==
    /\ caller[g] = "idle" /\ closer = "none"
    /\ closer' = g /\ caller' = [caller EXCEPT ![g] = "flushing"]
    /\ UNCHANGED <<logQueue, sinkClosed, queueClosed, logFile, accepted, runEnded>>

\* ... close the queue, ...
CloseQueue(g) ==
    /\ caller[g] = "closing"
    /\ sinkClosed' = TRUE /\ queueClosed' = TRUE
    /\ caller' = [caller EXCEPT ![g] = "draining"]
    /\ UNCHANGED <<logQueue, logFile, accepted, closer, runEnded>>

\* ... wait for the goroutine and close the file.
CloseEnd(g) ==
    /\ caller[g] = "draining" /\ runEnded
    /\ caller' = [caller EXCEPT ![g] = "idle"] /\ closer' = "done"
    /\ UNCHANGED <<logQueue, sinkClosed, queueClosed, logFile, accepted, runEnded>>

\* run: a line is written, a flush item is answered.
RunItem ==
    /\ logQueue # <<>> /\ ~runEnded
    /\ logQueue' = Tail(logQueue)
    /\ IF Head(logQueue) \in LogCallers
       THEN /\ caller' = [caller EXCEPT ![Head(logQueue)] = AfterFlush(Head(logQueue))]
            /\ UNCHANGED logFile
       ELSE logFile' = Append(logFile, Head(logQueue)) /\ UNCHANGED caller
    /\ UNCHANGED <<sinkClosed, queueClosed, accepted, closer, runEnded>>

\* Variant for checking the properties: the goroutine returns as soon as the queue is closed.
RunEndsEarly ==
    /\ queueClosed /\ ~runEnded
    /\ runEnded' = TRUE
    /\ UNCHANGED <<logQueue, sinkClosed, queueClosed, logFile, accepted, caller, closer>>

\* range over the closed queue ends when it is empty.
RunEnd ==
    /\ queueClosed /\ logQueue = <<>> /\ ~runEnded
    /\ runEnded' = TRUE
    /\ UNCHANGED <<logQueue, sinkClosed, queueClosed, logFile, accepted, caller, closer>>

SinkNext ==
    \/ RunItem \/ RunEnd
    \/ \E g \in LogCallers :
          \/ WriteCheck(g) \/ Write(g) \/ FlushCheck(g) \/ Flush(g)
          \/ CloseBegin(g) \/ CloseQueue(g) \/ CloseEnd(g)

-----------------------------------------------------------------------------
(* LogBuffer *)

AppendEntry(e) ==
    /\ ring' = [ring EXCEPT ![tail] = e]
    /\ tail' = (tail + 1) % RingSize
    /\ isFull' = (isFull \/ tail' = head)
    /\ head' = IF isFull THEN (head + 1) % RingSize ELSE head

\* matchesFilter: level 0 and source "" let everything through.
matchesFilter(e, level, source) ==
    (level # 0 => e.level = level) /\ (source # "" => e.source = source)

LastOf(s, limit) ==
    IF limit > 0 /\ Len(s) > limit THEN SubSeq(s, Len(s) - limit + 1, Len(s)) ELSE s

\* The entries from head on, or the first tail ones.
Contents == IF isFull THEN [i \in 1 .. RingSize |-> ring[(head + i - 1) % RingSize]]
            ELSE [i \in 1 .. tail |-> ring[i - 1]]

Filtered(entries, limit, level, source) ==
    LastOf(SelectSeq(entries, LAMBDA e : matchesFilter(e, level, source)), limit)

\* Get: what the ring holds, filtered, the last limit of it.
Get(limit, level, source) == Filtered(Contents, limit, level, source)

\* logf of both loggers, below the threshold of the configuration nothing happens.
logf(level, source) ==
    /\ Len(history) < MaxLines /\ logLevel <= level
    /\ LET e == [level |-> level, source |-> source, n |-> Len(history) + 1]
       IN AppendEntry(e) /\ history' = Append(history, e)
    /\ UNCHANGED <<logLevel, prodBuild>>

ClearLogs ==
    /\ ring' = [i \in 0 .. RingSize - 1 |-> NoEntry]
    /\ head' = 0 /\ tail' = 0 /\ isFull' = FALSE /\ history' = <<>>
    /\ UNCHANGED <<logLevel, prodBuild>>

normalizeLogLevel(level, allow) == IF ~allow /\ prodBuild /\ level < 2 THEN 2 ELSE level

\* HandleSetLogLevel: a low level is refused in a production build without the header.
UpdateLogLevelWithOverride(level, allow) ==
    /\ ~(prodBuild /\ level < 2 /\ ~allow)
    /\ logLevel' = normalizeLogLevel(level, allow)
    /\ UNCHANGED <<ring, head, tail, isFull, history, prodBuild>>

\* HandleSetLogConfig writes into the shared configuration field by field: a later field
\* that is refused leaves the level changed.  A request without a level only normalises.
UpdateConfigWithOverride(level, given, refused, allow) ==
    /\ given => ~(prodBuild /\ level < 2 /\ ~allow)
    /\ logLevel' = IF refused THEN (IF given THEN level ELSE logLevel)
                   ELSE normalizeLogLevel(IF given THEN level ELSE logLevel, allow)
    /\ UNCHANGED <<ring, head, tail, isFull, history, prodBuild>>

RingNext ==
    \/ \E l \in LogLevels, s \in {"main", "http"} : logf(l, s)
    \/ ClearLogs
    \/ \E l \in LogLevels, a \in BOOLEAN : UpdateLogLevelWithOverride(l, a)
    \/ \E l \in LogLevels, g, r, a \in BOOLEAN : UpdateConfigWithOverride(l, g, r, a)

-----------------------------------------------------------------------------
(* Error reports *)

\* shouldSendError for one message.
shouldSendError ==
    /\ Len(sent) < MaxLines
    /\ LET e == errorCache
           new == e.count = 0
           again == logClock - e.first <= ErrorWindow /\ e.count < MaxErrorCount
       IN /\ errorCache' = IF new THEN [count |-> 1, first |-> logClock, last |-> logClock]
                           ELSE [e EXCEPT !.last = logClock, !.count = IF again THEN @ + 1 ELSE @]
          /\ sent' = IF new \/ again THEN Append(sent, logClock) ELSE sent
    /\ UNCHANGED logClock

\* Variant for checking the properties: an entry expires with its window.
cleanupByFirstSeen ==
    /\ errorCache.count > 0 /\ logClock - errorCache.first >= ErrorWindow
    /\ errorCache' = NoError
    /\ UNCHANGED <<sent, logClock>>

\* An entry is dropped when the message was quiet for a window.
cleanupExpiredErrors ==
    /\ errorCache.count > 0 /\ logClock - errorCache.last > ErrorWindow
    /\ errorCache' = NoError
    /\ UNCHANGED <<sent, logClock>>

LogTick == logClock < LogHorizon /\ logClock' = logClock + 1 /\ UNCHANGED <<errorCache, sent>>

ErrorNext == shouldSendError \/ cleanupExpiredErrors \/ LogTick

-----------------------------------------------------------------------------
(* Streams of new entries (SubscribeLogStream of the handlers) *)

\* HandleLogStream subscribes.
SubscribeLogStream(s) ==
    /\ streams[s].state = "none"
    /\ streams' = [streams EXCEPT ![s].state = "open"]
    /\ UNCHANGED observers

\* Append starts one goroutine per observer; an observer is never removed.
Notify ==
    /\ \E s \in Streams : streams[s].state # "none" /\ observers[s].starting = 0
    /\ observers' = [s \in Streams |->
          IF streams[s].state # "none" /\ observers[s].starting = 0
          THEN [observers[s] EXCEPT !.starting = 1] ELSE observers[s]]
    /\ UNCHANGED streams

\* The observer loads closed, ...
ObserverCheck(s) ==
    /\ observers[s].starting > 0 /\ observers[s].sending < StreamBuffer
    /\ observers' = [observers EXCEPT ![s].starting = @ - 1,
                                      ![s].sending = IF streams[s].state = "open" THEN @ + 1 ELSE @]
    /\ UNCHANGED streams

\* ... and then sends if there is room.  A send on a closed channel panics.
ObserverSend(s) ==
    /\ observers[s].sending > 0
    /\ observers' = [observers EXCEPT ![s].sending = @ - 1,
                                      ![s].panicked = @ \/ streams[s].state = "closed"]
    /\ streams' = IF streams[s].state # "closed" /\ streams[s].chan < StreamBuffer
                  THEN [streams EXCEPT ![s].chan = @ + 1] ELSE streams

\* The handler writes an entry to the client; a failure ends the loop and sets closed.
HandleLogStream(s) ==
    /\ streams[s].state = "open" /\ streams[s].chan > 0
    /\ \/ streams' = [streams EXCEPT ![s].chan = @ - 1]
       \/ streams' = [streams EXCEPT ![s].chan = @ - 1, ![s].state = "draining"]
    /\ UNCHANGED observers

\* The goroutine of cleanup takes what is left, then closes the channel.
Cleanup(s) ==
    /\ streams[s].state = "draining"
    /\ streams' = IF streams[s].chan > 0 THEN [streams EXCEPT ![s].chan = @ - 1]
                  ELSE [streams EXCEPT ![s].state = "closed"]
    /\ UNCHANGED observers

StreamNext ==
    \/ Notify
    \/ \E s \in Streams : SubscribeLogStream(s) \/ ObserverCheck(s) \/ ObserverSend(s)
                          \/ HandleLogStream(s) \/ Cleanup(s)

\* The four parts share nothing.
LoggerNext ==
    \/ SinkNext /\ UNCHANGED <<ringVars, errorVars, streamVars>>
    \/ RingNext /\ UNCHANGED <<sinkVars, errorVars, streamVars>>
    \/ ErrorNext /\ UNCHANGED <<sinkVars, ringVars, streamVars>>
    \/ StreamNext /\ UNCHANGED <<sinkVars, ringVars, errorVars>>

LoggerSpec == LoggerInit /\ [][LoggerNext]_loggerVars

-----------------------------------------------------------------------------
(* Properties *)

LoggerTypeOK ==
    /\ Len(logQueue) <= QueueSize
    /\ \A g \in LogCallers : caller[g] \in {"idle", "writing", "flushing", "waiting", "closing", "draining"}
    /\ closer \in LogCallers \cup {"none", "done"}
    /\ head \in 0 .. RingSize - 1 /\ tail \in 0 .. RingSize - 1
    /\ logLevel \in 0 .. 6
    /\ errorCache.count \in 0 .. MaxErrorCount
    /\ \A s \in Streams : streams[s].chan \in 0 .. StreamBuffer

\* A line that Write took is in the file or still queued, in the order of the writes, and
\* once Close has returned every such line is in the file, whatever writers and flushes ran
\* against it (the recovered sends of asyncLogWriter).
LinesReachFile ==
    /\ Len(logFile) <= Len(accepted)
    /\ \A i \in 1 .. Len(logFile) : logFile[i] = accepted[i]
    /\ {logQueue[i] : i \in DOMAIN logQueue} \ LogCallers
          = {accepted[i] : i \in Len(logFile) + 1 .. Len(accepted)}
    /\ \A i, j \in DOMAIN logQueue :
          (i < j /\ logQueue[i] \notin LogCallers /\ logQueue[j] \notin LogCallers)
              => logQueue[i] < logQueue[j]
    /\ closer = "done" => logFile = accepted

\* What the API shows is exactly the last entries logged since the last clear, with any
\* limit and filter, however often the ring has wrapped around.
RecentWindow ==
    \A limit \in 0 .. RingSize + 1, level \in LogLevels, source \in {"", "main", "http"} :
        Get(limit, level, source) = Filtered(LastOf(history, RingSize), limit, level, source)

\* What was logged is what the file and the API show: both parts at once, for the lines of
\* the asynchronous writer and the entries of the log buffer.
LogsComplete == LinesReachFile /\ RecentWindow

\* A message is reported at most MaxErrorCount times in any ErrorWindow, across entries of
\* errorCache that expire and are made again.
ReportsThrottled ==
    \A i, j \in 1 .. Len(sent) :
        (i <= j /\ sent[j] - sent[i] < ErrorWindow) => j - i < MaxErrorCount

=============================================================================
