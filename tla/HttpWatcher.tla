------------------------------ MODULE HttpWatcher ------------------------------
(***************************************************************************)
(* WatcherWrapConn of processor/watcher: the reader that the TCP handler   *)
(* puts on an intercepted connection to Aliang.  It finds out whether the  *)
(* client speaks HTTP/1, HTTP/2 or something else, rewrites the head of    *)
(* every request (host and Authorization-Inner) and hands everything else  *)
(* on unchanged, however the bytes happen to be cut into reads.            *)
(*                                                                         *)
(* The client's bytes are a sequence of units, each a run of bytes that    *)
(* the parsers treat alike; a read ends at any unit boundary.  A body may  *)
(* contain any unit, also those that end a head.                           *)
(***************************************************************************)
EXTENDS Naturals, Sequences, SequencesExt, FiniteSets

CONSTANTS
    Conversations,   \* what clients send: a set of sequences of messages
    StreamIds,       \* HTTP/2 streams, numbers above 0
    MaxRecent,       \* maxRecentHTTP2RequestSummaries
    AIRules          \* cfg.Customer.AIRules: records with the provider's rewrite
                     \* target, whether the rule is enabled, and its patterns

ASSUME WatcherAssumption == StreamIds \subseteq Nat \ {0} /\ MaxRecent \in Nat \ {0}

NoTracker == [mode |-> "none"]

VARIABLES
    conversation,    \* the messages of this connection's client (never changes)
    arrived,         \* number of units Conn.Read has returned
    reqBuf,          \* w.reqBuf
    pending,         \* w.pendingBuffer
    out,             \* what Read has handed to the relay
    proto,           \* which of prefetched, isHttp1, passthrough is set; "failed"
                     \* once Read returned an error
    tracker,         \* w.http1BodyTracker
    prefaceSent,     \* w.http2PrefaceSent
    preBuff,         \* local variable of parseHttp2Req
    h2step,          \* where the loop of processHttp2RequestFrame stands
    streams,         \* w.streams: "none", "open" or "reqEnded"
    recent,          \* w.recentRequestOrder
    maxFrame,        \* w.serverHTTP2Settings[MAX_FRAME_SIZE]: whether a head needs
                     \* one frame or two
    answered,        \* streams the server has ended
    session          \* does user.GetCurrentAuthorizationHeader return one (never changes)

connVars == <<conversation, arrived, reqBuf, pending, out, proto>>
h1Vars == <<tracker>>
h2Vars == <<prefaceSent, preBuff, h2step, streams, recent, maxFrame, answered>>
watcherVars == <<connVars, h1Vars, h2Vars, session>>

-----------------------------------------------------------------------------
(* The client's bytes *)

U(kind) == [k |-> kind]
CRLF == <<U("cr"), U("lf")>>
Digits(n, valid) == [k |-> "digits", n |-> n, valid |-> valid]
\* own: the client sends an Authorization-Inner header itself
HeadEnd(len, chunked, host, own, valid) ==
    [k |-> "headEnd", len |-> len, chunked |-> chunked, host |-> host, own |-> own,
     valid |-> valid]
\* A frame is its header and its payload.  A block that is not initial holds trailers.
Frame(t, s, endHeaders, endStream, initial, host, valid) ==
    <<[k |-> "frame", t |-> t, s |-> s, eh |-> endHeaders, es |-> endStream,
       initial |-> initial, host |-> host, valid |-> valid], U("payload")>>

\* HEADERS and the CONTINUATION frames of one block.
Block(msg) ==
    FlattenSeq([i \in 1..msg.frames |->
        Frame(IF i = 1 THEN "HEADERS" ELSE "CONTINUATION", msg.s, i = msg.frames,
              msg.es /\ i = 1, msg.initial, msg.host, msg.valid)])

Chunk(units) == <<Digits(Len(units), TRUE)>> \o CRLF \o units \o CRLF

Encode(msg) ==
    CASE msg.kind = "length" ->
            <<U("method"), U("line"), HeadEnd(Len(msg.body), FALSE, msg.host, msg.own, msg.valid)>> \o msg.body
      [] msg.kind = "chunked" ->
            <<U("method"), U("line"), HeadEnd(0, TRUE, msg.host, FALSE, TRUE)>>
            \o FlattenSeq([i \in 1..Len(msg.chunks) |-> Chunk(msg.chunks[i])])
            \o <<Digits(0, msg.valid)>> \o CRLF \o msg.trailers \o CRLF
      [] msg.kind = "preface" -> <<U("pri1"), U("pri2")>>
      [] msg.kind = "block" -> Block(msg)
      [] msg.kind = "cutBlock" ->
            Frame("HEADERS", msg.s, FALSE, FALSE, TRUE, <<>>, TRUE)
            \o Frame("DATA", msg.s, FALSE, TRUE, FALSE, <<>>, TRUE)
      [] msg.kind = "frame" -> Frame(msg.t, msg.s, TRUE, msg.es, FALSE, <<>>, TRUE)
      [] msg.kind = "other" -> msg.units

WireOf(messages) == FlattenSeq([i \in 1..Len(messages) |-> Encode(messages[i])])

wire == WireOf(conversation)

\* A Content-Length is a number; the two halves of the preface have nothing but their kind.
ASSUME ConversationsAssumption ==
    \A c \in Conversations :
        /\ WireOf(c) \in Seq({WireOf(c)[i] : i \in DOMAIN WireOf(c)})
        /\ \A i \in DOMAIN WireOf(c) : LET u == WireOf(c)[i] IN
              /\ u.k = "headEnd" => u.len \in Nat
              /\ u.k \in {"pri1", "pri2"} => u = U(u.k)

\* aliangHTTPHostMatches, on normalised names: sequences of labels.
aliangHTTPHostMatches(pattern, host) ==
    /\ IsSuffix(pattern.labels, host)
    /\ pattern.wildcard => host # pattern.labels

\* lookupAliangRewrittenHost: the targets the rules offer.  The rules are in a
\* map, so any matching one may be taken.
lookupAliangRewrittenHost(host) ==
    {rule.target : rule \in {r \in AIRules :
        r.enabled /\ r.target # <<>> /\ \E p \in r.include : aliangHTTPHostMatches(p, host)}}

\* rewriteAliangHTTPRequestHost, rewriteAliangHTTP2HeaderFields
rewriteAliangHost(host) ==
    IF host = <<>> \/ lookupAliangRewrittenHost(host) = {} THEN {host}
    ELSE lookupAliangRewrittenHost(host)

\* A rewritten head of n units: its stream, host, headers, and the number of frames
\* it is cut into.  Of the headers, Authorization-Inner and the one that frames the
\* body are told apart.
NewHead(n, s, es, host, headers, frames) ==
    [k |-> "rewritten", of |-> n, s |-> s, es |-> es, host |-> host, headers |-> headers,
     frames |-> frames]

\* processH1ReqHeaders sets Authorization-Inner when there is a session, and
\* otherwise leaves the client's.  http.ReadRequest has moved Transfer-Encoding
\* (and Trailer) from req.Header to fields of its own, and serializeHTTPRequestHead
\* writes req.Header only: a chunked body is sent behind a head that does not
\* announce it.
h1Headers(head) ==
    [auth |-> IF session THEN "session" ELSE IF head.own THEN "client" ELSE "none",
     framing |-> IF ~head.chunked /\ head.len > 0 THEN "length" ELSE "none"]
\* rebuildReqHeadersWithInjectedField always removes the client's
\* Authorization-Inner and adds it to initial blocks when there is a session.
h2Headers(initial) ==
    [auth |-> IF initial /\ session THEN "session" ELSE "none", framing |-> "frames"]

-----------------------------------------------------------------------------
(* Sniffing *)

\* classifyBufferedProtocol.  "other" units are shorter than the HTTP/2 preface,
\* two of them are longer.
classifyBufferedProtocol(buf) ==
    CASE buf = <<>> -> "undecided"
      [] Len(buf) >= 2 /\ buf[1].k = "pri1" /\ buf[2].k = "pri2" -> "http2"
      [] Len(buf) >= 2 /\ buf[1].k = "method" -> "http1"
      [] Len(buf) = 1 -> "undecided"
      [] OTHER -> "passthrough"

sniff ==
    LET decision == classifyBufferedProtocol(reqBuf) IN
    /\ proto = "sniff" /\ pending = <<>>
    /\ decision # "undecided"
    /\ proto' = decision
    /\ reqBuf' = IF decision = "http2" THEN SubSeq(reqBuf, 3, Len(reqBuf)) ELSE reqBuf
    /\ UNCHANGED <<conversation, arrived, pending, out, h1Vars, h2Vars, session>>

-----------------------------------------------------------------------------
(* HTTP/1 *)

newHTTP1BodyTracker(head) ==
    IF head.chunked
    THEN [mode |-> "chunked", phase |-> "SizeLine", line |-> <<>>, left |-> 0, crlf |-> 0]
    ELSE IF head.len > 0 THEN [mode |-> "length", left |-> head.len]
    ELSE NoTracker

EndsLine(line) == Len(line) >= 2 /\ SubSeq(line, Len(line) - 1, Len(line)) = CRLF

\* One turn of the loop of http1ChunkState.consume: unit u in state r.t, where
\* r.n units have been consumed.
chunkStep(r, u) ==
    LET t == r.t
        line == Append(t.line, u)
        size == line[1]
        More(next) == [r EXCEPT !.n = @ + 1, !.t = next]
        Err == [r EXCEPT !.err = TRUE]
    IN
    IF r.done \/ r.err THEN r ELSE
    CASE t.phase = "SizeLine" ->
            IF ~EndsLine(line) THEN More([t EXCEPT !.line = line])
            ELSE IF size.k # "digits" THEN Err
            ELSE IF ~size.valid THEN Err
            ELSE More([t EXCEPT !.line = <<>>, !.left = size.n,
                                !.phase = IF size.n = 0 THEN "Trailers" ELSE "Data"])
      [] t.phase = "Data" ->
            More([t EXCEPT !.left = @ - 1,
                           !.phase = IF t.left = 1 THEN "DataCRLF" ELSE "Data"])
      [] t.phase = "DataCRLF" ->
            IF u # CRLF[t.crlf + 1] THEN Err
            ELSE IF t.crlf = 0 THEN More([t EXCEPT !.crlf = 1])
            ELSE More([t EXCEPT !.crlf = 0, !.phase = "SizeLine"])
      [] t.phase = "Trailers" ->
            IF ~EndsLine(line) THEN More([t EXCEPT !.line = line])
            ELSE [More([t EXCEPT !.line = <<>>]) EXCEPT !.done = (line = CRLF)]

\* Variant for checking the properties: a chunk's terminator that is cut in two
\* reads is expected from its beginning again.
consumeForgetsCR(t, data) ==
    LET start == [t |-> t, n |-> 0, done |-> FALSE, err |-> FALSE] IN
    IF t.mode = "length"
    THEN LET n == IF Len(data) > t.left THEN t.left ELSE Len(data)
         IN  [start EXCEPT !.n = n, !.t.left = @ - n, !.done = (n = t.left)]
    ELSE FoldLeft(chunkStep, [start EXCEPT !.t.crlf = 0], data)

\* http1BodyTracker.consume: how many units of data belong to the body.
consume(t, data) ==
    LET start == [t |-> t, n |-> 0, done |-> FALSE, err |-> FALSE] IN
    IF t.mode = "length"
    THEN LET n == IF Len(data) > t.left THEN t.left ELSE Len(data)
         IN  [start EXCEPT !.n = n, !.t.left = @ - n, !.done = (n = t.left)]
    ELSE FoldLeft(chunkStep, start, data)

Fail ==
    /\ proto' = "failed"
    /\ UNCHANGED <<conversation, arrived, reqBuf, pending, out, tracker>>

\* processH1ReqHeaders: once the buffer holds the end of a head (its first
\* "\r\n\r\n") the head is rewritten and the part of the body that is there
\* goes with it.
processH1ReqHeaders ==
    LET ends == {i \in 1..Len(reqBuf) : reqBuf[i].k = "headEnd"}
        e == CHOOSE i \in ends : \A j \in ends : i <= j
        body == SubSeq(reqBuf, e + 1, Len(reqBuf))
        t == newHTTP1BodyTracker(reqBuf[e])
        r == consume(t, body)
        used == IF t = NoTracker THEN 0 ELSE r.n
    IN
    /\ proto = "http1" /\ pending = <<>> /\ tracker = NoTracker
    /\ ends # {}
    /\ IF ~reqBuf[e].valid \/ (t # NoTracker /\ r.err)
       THEN Fail
       ELSE /\ \E host \in rewriteAliangHost(reqBuf[e].host) :
                  pending' = <<NewHead(e, 0, FALSE, host, h1Headers(reqBuf[e]), 1)>>
                             \o SubSeq(body, 1, used)
            /\ reqBuf' = SubSeq(body, used + 1, Len(body))
            /\ tracker' = IF t = NoTracker \/ r.done THEN NoTracker ELSE r.t
            /\ UNCHANGED <<conversation, arrived, out, proto>>
    /\ UNCHANGED <<h2Vars, session>>

consumeHTTP1Body ==
    LET r == consume(tracker, reqBuf) IN
    /\ proto = "http1" /\ pending = <<>> /\ tracker # NoTracker
    /\ reqBuf # <<>>
    /\ IF r.err
       THEN Fail
       ELSE /\ pending' = SubSeq(reqBuf, 1, r.n)
            /\ reqBuf' = SubSeq(reqBuf, r.n + 1, Len(reqBuf))
            /\ tracker' = IF r.done THEN NoTracker ELSE r.t
            /\ UNCHANGED <<conversation, arrived, out, proto>>
    /\ UNCHANGED <<h2Vars, session>>

-----------------------------------------------------------------------------
(* HTTP/2: the request side *)

FrameThere == Len(reqBuf) >= 2                     \* tryExtractFrameFromBuf

FrameAt(i) == reqBuf[2 * i - 1]

\* getOrCreateStream for the frame at the front of the buffer, or the end of the
\* loop when no frame is complete.
http2NextFrame ==
    /\ proto = "http2" /\ pending = <<>> /\ h2step = "loop"
    /\ IF FrameThere
       THEN LET s == FrameAt(1).s IN
            /\ h2step' = "frame"
            /\ streams' = IF s # 0 /\ streams[s] = "none"
                          THEN [streams EXCEPT ![s] = "open"] ELSE streams
       ELSE h2step' = "parsed" /\ UNCHANGED streams
    /\ UNCHANGED <<connVars, h1Vars, prefaceSent, preBuff, recent, maxFrame, answered, session>>

\* extractCompleteHeaderSequence: the number of frames of the header block at
\* the front of the buffer, 0 when it is incomplete, or "error".
extractCompleteHeaderSequence ==
    LET there == Len(reqBuf) \div 2
        ends == {i \in 1..there : FrameAt(i).eh}
        wrong == {i \in 2..there : FrameAt(i).t # "CONTINUATION" \/ FrameAt(i).s # FrameAt(1).s}
        last == CHOOSE i \in ends : \A j \in ends : i <= j
    IN
    IF ends # {} /\ \A i \in wrong : i > last THEN [n |-> last, err |-> FALSE]
    ELSE IF wrong = {} THEN [n |-> 0, err |-> FALSE]
    ELSE [n |-> 0, err |-> TRUE]

\* Variant for checking the properties: the oldest summary is not forgotten.
rememberAll(s) == IF s \in ToSet(recent) THEN recent ELSE Append(recent, s)

\* rememberRecentHTTP2RequestSummary
remember(s) ==
    LET order == IF s \in ToSet(recent) THEN recent ELSE Append(recent, s)
    IN  IF Len(order) > MaxRecent THEN Tail(order) ELSE order

Ended(s, es) == IF es THEN [streams EXCEPT ![s] = "reqEnded"] ELSE streams

Forward(units) ==
    /\ preBuff' = preBuff \o units
    /\ h2step' = "loop"
    /\ UNCHANGED <<conversation, arrived, pending, out, proto, prefaceSent>>

\* fallbackHTTP2ToPassthrough
fallback ==
    /\ proto' = "passthrough"
    /\ prefaceSent' = TRUE
    /\ pending' = (IF prefaceSent THEN <<>> ELSE <<U("pri1"), U("pri2")>>) \o preBuff \o reqBuf
    /\ reqBuf' = <<>> /\ preBuff' = <<>>
    /\ h2step' = "loop"
    /\ UNCHANGED <<conversation, arrived, out, streams, recent>>

\* The rewritten block: rebuildReqHeadersWithInjectedField writes as many frames
\* as the server's MAX_FRAME_SIZE asks for.
rebuild(n, host) ==
    NewHead(2 * n, FrameAt(1).s, FrameAt(1).es, host, h2Headers(FrameAt(1).initial), maxFrame)

\* Variant for checking the properties: the entry is written back although the
\* response has removed it since getOrCreateStream.
headersFrameStores ==
    LET s == FrameAt(1).s
        seq == extractCompleteHeaderSequence
        valid == \A i \in 1..seq.n : FrameAt(i).valid
    IN
    IF seq.err \/ (seq.n > 0 /\ ~valid) THEN fallback
    ELSE IF seq.n = 0
    THEN h2step' = "parsed" /\ UNCHANGED <<connVars, prefaceSent, preBuff, streams, recent>>
    ELSE /\ \E host \in rewriteAliangHost(FrameAt(1).host) : Forward(<<rebuild(seq.n, host)>>)
         /\ reqBuf' = SubSeq(reqBuf, 2 * seq.n + 1, Len(reqBuf))
         /\ streams' = [streams EXCEPT ![s] = IF FrameAt(1).es THEN "reqEnded" ELSE "open"]
         /\ recent' = remember(s)

\* The HEADERS case of processHttp2RequestFrame.  The response side may have
\* removed the stream since getOrCreateStream.
headersFrame ==
    LET s == FrameAt(1).s
        seq == extractCompleteHeaderSequence
        valid == \A i \in 1..seq.n : FrameAt(i).valid
    IN
    IF seq.err \/ (seq.n > 0 /\ ~valid) THEN fallback
    ELSE IF seq.n = 0
    THEN h2step' = "parsed" /\ UNCHANGED <<connVars, prefaceSent, preBuff, streams, recent>>
    ELSE /\ \E host \in rewriteAliangHost(FrameAt(1).host) : Forward(<<rebuild(seq.n, host)>>)
         /\ reqBuf' = SubSeq(reqBuf, 2 * seq.n + 1, Len(reqBuf))
         /\ streams' = IF streams[s] = "none" THEN streams ELSE Ended(s, FrameAt(1).es)
         /\ recent' = IF streams[s] = "none" THEN recent ELSE remember(s)

\* The other cases: DATA may end the request, RST_STREAM and GOAWAY remove
\* streams, everything is forwarded.
otherFrame ==
    LET f == FrameAt(1) IN
    /\ Forward(SubSeq(reqBuf, 1, 2))
    /\ reqBuf' = SubSeq(reqBuf, 3, Len(reqBuf))
    /\ streams' = CASE f.t = "DATA" /\ streams[f.s] # "none" -> Ended(f.s, f.es)
                    [] f.t = "RST_STREAM" -> [streams EXCEPT ![f.s] = "none"]
                    [] f.t = "GOAWAY" -> [s \in StreamIds |-> "none"]  \* of a client: last stream 0
                    [] OTHER -> streams
    /\ UNCHANGED recent

processHttp2RequestFrame ==
    /\ proto = "http2" /\ pending = <<>> /\ h2step = "frame"
    /\ IF FrameAt(1).t = "HEADERS" THEN headersFrame ELSE otherFrame
    /\ UNCHANGED <<h1Vars, maxFrame, answered, session>>

\* prepareBufferedOutput, after parseHttp2Req has returned.
http2Output ==
    /\ proto = "http2" /\ pending = <<>> /\ h2step = "parsed"
    /\ ~prefaceSent \/ preBuff # <<>>
    /\ pending' = (IF prefaceSent THEN <<>> ELSE <<U("pri1"), U("pri2")>>) \o preBuff
    /\ prefaceSent' = TRUE
    /\ preBuff' = <<>>
    /\ h2step' = "loop"
    /\ UNCHANGED <<conversation, arrived, reqBuf, out, proto, h1Vars, streams, recent,
                   maxFrame, answered, session>>

-----------------------------------------------------------------------------
(* HTTP/2: Write, called by the relay's other direction *)

Requested(s) == \E i \in DOMAIN out : out[i].k = "rewritten" /\ out[i].s = s

removeStream(s) == [streams EXCEPT ![s] = "none"]

\* ParseSettingsFrame, applyHTTP2Setting: of the server's settings only the
\* maximal frame size is used, by rebuild.
applyHTTP2Setting == maxFrame = 1 /\ maxFrame' = 2

\* observeHTTP2ResponseFrames: the end of a response or a reset removes the
\* stream, SETTINGS are applied; the other frames change nothing.
observeHTTP2ResponseFrames ==
    /\ proto = "http2"
    /\ \/ \E s \in StreamIds \ answered :
             /\ Requested(s)
             /\ streams' = removeStream(s)
             /\ answered' = answered \cup {s}
             /\ UNCHANGED maxFrame
       \/ /\ applyHTTP2Setting
          /\ UNCHANGED <<streams, answered>>
    /\ UNCHANGED <<connVars, h1Vars, prefaceSent, preBuff, h2step, recent, session>>

-----------------------------------------------------------------------------
(* Read *)

readFromPending ==
    /\ pending # <<>>
    /\ \E n \in 1..Len(pending) :
          /\ out' = out \o SubSeq(pending, 1, n)
          /\ pending' = SubSeq(pending, n + 1, Len(pending))
    /\ UNCHANGED <<conversation, arrived, reqBuf, proto, h1Vars, h2Vars, session>>

passBuffered ==
    /\ proto = "passthrough" /\ pending = <<>> /\ reqBuf # <<>>
    /\ pending' = reqBuf
    /\ reqBuf' = <<>>
    /\ UNCHANGED <<conversation, arrived, out, proto, h1Vars, h2Vars, session>>

\* Read waits in Conn.Read.
Blocked ==
    /\ pending = <<>>
    /\ CASE proto = "sniff" -> classifyBufferedProtocol(reqBuf) = "undecided"
         [] proto = "http1" -> IF tracker # NoTracker THEN reqBuf = <<>>
                               ELSE \A i \in DOMAIN reqBuf : reqBuf[i].k # "headEnd"
         [] proto = "http2" -> h2step = "parsed" /\ prefaceSent /\ preBuff = <<>>
         [] proto = "passthrough" -> reqBuf = <<>>
         [] OTHER -> FALSE

\* Conn.Read returns the next bytes: to the caller itself in passthrough.
connRead ==
    /\ Blocked
    /\ \E n \in 1..(Len(wire) - arrived) :
          LET read == SubSeq(wire, arrived + 1, arrived + n) IN
          /\ arrived' = arrived + n
          /\ IF proto = "passthrough"
             THEN out' = out \o read /\ UNCHANGED reqBuf
             ELSE reqBuf' = reqBuf \o read /\ UNCHANGED out
    /\ h2step' = "loop"
    /\ UNCHANGED <<conversation, pending, proto, h1Vars, prefaceSent, preBuff, streams, recent,
                   maxFrame, answered, session>>

\* NewWatcherWrapConn
WatcherInit ==
    /\ conversation \in Conversations
    /\ arrived = 0
    /\ reqBuf = <<>> /\ pending = <<>> /\ out = <<>> /\ preBuff = <<>>
    /\ proto = "sniff"
    /\ tracker = NoTracker
    /\ prefaceSent = FALSE /\ h2step = "loop"
    /\ streams = [s \in StreamIds |-> "none"]
    /\ recent = <<>> /\ maxFrame = 1 /\ answered = {}
    /\ session \in BOOLEAN

WatcherNext ==
    \/ sniff \/ processH1ReqHeaders \/ consumeHTTP1Body
    \/ http2NextFrame \/ processHttp2RequestFrame \/ http2Output
    \/ observeHTTP2ResponseFrames
    \/ readFromPending \/ passBuffered \/ connRead

WatcherSpec == WatcherInit /\ [][WatcherNext]_watcherVars

-----------------------------------------------------------------------------
(* Properties *)

WatcherTypeOK ==
    /\ arrived \in 0..Len(wire)
    /\ proto \in {"sniff", "http1", "http2", "passthrough", "failed"}
    /\ tracker.mode \in {"none", "length", "chunked"}
    /\ h2step \in {"loop", "frame", "parsed"}
    /\ streams \in [StreamIds -> {"none", "open", "reqEnded"}]
    /\ Len(recent) <= MaxRecent /\ ToSet(recent) \subseteq StreamIds
    /\ answered \subseteq StreamIds

\* What a client's messages look like after the rewriting, unit by unit, and how
\* much of the wire each unit waits for.  After a header block that cannot be
\* decoded the rest of the connection is passed on as it is.  (The rules are
\* taken to offer one target for a host.)
At(units, first, from) ==
    [i \in 1..Len(units) |-> [u |-> units[i], at |-> IF first + i > from THEN first + i ELSE from]]

expectMessage(acc, msg) ==
    LET units == Encode(msg)
        n == Len(units)
        end == acc.at + n
        h1 == units[3]
        body == IF n >= 3 THEN SubSeq(units, 4, n) ELSE <<>>
        host == IF msg.kind \in {"length", "chunked", "block"}
                THEN CHOOSE h \in rewriteAliangHost(msg.host) : TRUE ELSE <<>>
        Out(seq) == [acc EXCEPT !.at = end, !.exp = @ \o seq]
    IN
    CASE acc.raw -> Out(At(units, acc.at, 0))
      [] ~acc.raw /\ msg.kind \in {"length", "chunked"} ->
            Out(<<[u |-> NewHead(3, 0, FALSE, host, h1Headers(h1), 1), at |-> acc.at + 3]>>
                \o At(body, acc.at + 3, 0))
      [] ~acc.raw /\ msg.kind = "block" /\ msg.valid ->
            Out(<<[u |-> NewHead(n, msg.s, msg.es, host, h2Headers(msg.initial), 1), at |-> end]>>)
      [] ~acc.raw /\ (msg.kind = "cutBlock" \/ (msg.kind = "block" /\ ~msg.valid)) ->
            [Out(At(units, acc.at, end)) EXCEPT !.raw = TRUE]
      [] ~acc.raw /\ msg.kind \in {"preface", "frame"} -> Out(At(units, acc.at, end))
      [] ~acc.raw /\ msg.kind = "other" -> Out(At(units, acc.at, 2))

ExpectedUpto(n) ==
    LET all == FoldLeft(expectMessage, [at |-> 0, raw |-> FALSE, exp |-> <<>>], conversation).exp
        due == SelectSeq(all, LAMBDA e : e.at <= n)
    IN  [i \in 1..Len(due) |-> due[i].u]

\* However the bytes were cut into reads, the server receives the client's stream
\* with exactly the heads of its requests rewritten, each as h1Headers or h2Headers
\* says: the watcher takes no body for a head and no pipelined head for a body, a
\* broken header block changes nothing, when the reader waits for the client nothing
\* is held back that could be forwarded, and Read fails only on a malformed request.
\* It is about the stream, not about what the server makes of it: without its
\* framing the head of a chunked request leaves the server to read the body as the
\* next request.
ForwardsRewrittenStream ==
    LET sent == [i \in 1..Len(out) |-> IF out[i].k = "rewritten" THEN [out[i] EXCEPT !.frames = 1]
                                       ELSE out[i]]
        expected == ExpectedUpto(arrived)
    IN  /\ IsPrefix(sent, expected)
        /\ Blocked => sent = expected
        /\ proto = "failed" => \E i \in DOMAIN conversation : ~conversation[i].valid

\* What a unit u handed on is made of, as units a+1..b of the wire: a copy of one
\* unit, or a new head in place of one whole head of a request.
CopiesUnit(u, a, b) == b = a + 1 /\ u = wire[b]

RewritesHead(u, a, b) ==
    /\ wire[b].k = "headEnd" /\ \A i \in a+1..b-1 : wire[i].k # "headEnd"
    /\ \E host \in rewriteAliangHost(wire[b].host) :
          u = NewHead(b - a, 0, FALSE, host, h1Headers(wire[b]), 1)

RewritesBlock(u, a, b) ==
    LET HeaderOf(i) == wire[a + (2 * i - 1)]
        first == wire[a + 1]
    IN  \E n \in Nat \ {0}, frames \in {1, 2} :
           /\ b = a + 2 * n
           /\ first.t = "HEADERS" /\ HeaderOf(n).eh
           /\ \A i \in 1..n-1 : ~HeaderOf(i).eh
           /\ \A i \in 2..n : HeaderOf(i).t = "CONTINUATION" /\ HeaderOf(i).s = first.s
           /\ \E host \in rewriteAliangHost(first.host) :
                 u = NewHead(2 * n, first.s, first.es, host, h2Headers(first.initial), frames)

MadeOf(u, a, b) == a < b /\ (CopiesUnit(u, a, b) \/ RewritesHead(u, a, b) \/ RewritesBlock(u, a, b))

\* The units stand for units a+1..b of the wire, one after the other and without a gap.
StandFor(units, a, b) ==
    \E at \in [0..Len(units) -> Nat] :
        /\ at[0] = a /\ at[Len(units)] = b
        /\ \A i \in 1..Len(units) : MadeOf(units[i], at[i - 1], at[i])

\* The preface, which sniff has taken from the buffer, until it is sent.
HeldPreface == IF proto = "http2" /\ ~prefaceSent THEN <<U("pri1"), U("pri2")>> ELSE <<>>

HeldBack == pending \o HeldPreface \o preBuff \o reqBuf

\* Whatever a client sends and however it is cut into reads, nothing of it is
\* lost, repeated or moved: what Read has handed on and what the buffers hold
\* are, in this order, all that has arrived, only with heads rewritten, each
\* from one whole head of the client.
NothingLostOrMoved == StandFor(out \o HeldBack, 0, arrived)

\* The entry of a stream whose response is complete comes back only with a
\* frame the client sends on that stream afterwards.
FinishedStreamStaysRemoved ==
    [][\A s \in answered :
          streams[s] = "none" /\ streams'[s] # "none"
              => h2step = "loop" /\ FrameThere /\ FrameAt(1).s = s]_watcherVars

==============================================================================
