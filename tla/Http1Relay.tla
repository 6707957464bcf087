------------------------------ MODULE Http1Relay ------------------------------
(***************************************************************************)
(* RelayHTTP1 of processor/watcher/http1_relay.go: an HTTP/1 connection to *)
(* Aliang, relayed request by request.  One goroutine per request reads it *)
(* from the client, one copies what the server sends into a pipe, and the  *)
(* relay itself waits for whichever of request, server's end and           *)
(* cancellation comes first, then writes the request and waits for the     *)
(* response.                                                               *)
(*                                                                         *)
(* Requests are numbered in the order the client sends them (it may        *)
(* pipeline), a response carries the number of the request it answers.     *)
(***************************************************************************)
EXTENDS Naturals, Sequences

CONSTANT
    Requests         \* how many requests the client sends at most

ASSUME Http1RelayAssumption == Requests \in Nat

VARIABLES
    sent,            \* requests the client has sent
    clientClosed,    \* the client has closed its side
    requestGoroutine,\* "reading", "returned" (its result is in reqCh)
    request,         \* the last request taken from clientReader
    served,          \* requests written to the server
    replies,         \* what the server has sent and remoteConn.Read not returned
    replied,         \* requests the server has answered
    serverEnd,       \* "open", "eof", "timeout": what Read returns after replies
    remoteGoroutine, \* "reading", "writing" (in the pipe), "ended"
    pipe,            \* the response in the pipe, or 0
    event,           \* stream.events: "empty", "eof", "timeout", "closed"
    cancelled,       \* ctx.Done()
    relayPc,         \* where RelayHTTP1 stands
    received,        \* what the client has received
    interim          \* does this server send interim (1xx) responses (never changes)

http1Vars == <<sent, clientClosed, requestGoroutine, request, served, replies, replied,
               serverEnd, remoteGoroutine, pipe, event, cancelled, relayPc, received, interim>>

\* The responses the server sends for request n.
Reply(n) == IF interim THEN <<[n |-> n, interim |-> TRUE], [n |-> n, interim |-> FALSE]>>
            ELSE <<[n |-> n, interim |-> FALSE]>>
GatewayTimeout(n) == [n |-> n, interim |-> FALSE, status |-> 504]

Http1Init ==
    /\ sent = 0 /\ clientClosed = FALSE
    /\ requestGoroutine = "reading" /\ request = 0
    /\ served = 0 /\ replies = <<>> /\ replied = 0 /\ serverEnd = "open"
    /\ remoteGoroutine = "reading" /\ pipe = <<>> /\ event = "empty"
    /\ cancelled = FALSE
    /\ relayPc = "select"
    /\ received = <<>>
    /\ interim \in BOOLEAN

-----------------------------------------------------------------------------
(* The two peers and the caller *)

ClientSends ==
    /\ ~clientClosed
    /\ \/ sent < Requests /\ sent' = sent + 1 /\ UNCHANGED clientClosed
       \/ clientClosed' = TRUE /\ UNCHANGED sent
    /\ UNCHANGED <<requestGoroutine, request, served, replies, replied, serverEnd,
                   remoteGoroutine, pipe, event, cancelled, relayPc, received, interim>>

ServerActs ==
    /\ serverEnd = "open"
    /\ \/ /\ replied < served
          /\ replied' = replied + 1
          /\ replies' = replies \o Reply(replied + 1)
          /\ UNCHANGED serverEnd
       \/ serverEnd' \in {"eof", "timeout"} /\ UNCHANGED <<replies, replied>>
    /\ UNCHANGED <<sent, clientClosed, requestGoroutine, request, served, remoteGoroutine,
                   pipe, event, cancelled, relayPc, received, interim>>

ContextEnds ==
    /\ ~cancelled /\ relayPc # "returned"
    /\ cancelled' = TRUE
    /\ UNCHANGED <<sent, clientClosed, requestGoroutine, request, served, replies, replied,
                   serverEnd, remoteGoroutine, pipe, event, relayPc, received, interim>>

-----------------------------------------------------------------------------
(* The goroutines *)

\* http.ReadRequest(clientReader): the next request, or the end of the stream.
\* closeHTTPRead of a relay that is done ends it.
ReadRequest ==
    /\ requestGoroutine = "reading"
    /\ \/ sent > request /\ request' = request + 1
       \/ sent = request /\ (clientClosed \/ relayPc = "returned") /\ UNCHANGED request
    /\ requestGoroutine' = "returned"
    /\ UNCHANGED <<sent, clientClosed, served, replies, replied, serverEnd, remoteGoroutine,
                   pipe, event, cancelled, relayPc, received, interim>>

\* startHTTP1RemoteStream: remoteConn.Read; the pipe has no buffer.
RemoteRead ==
    /\ remoteGoroutine = "reading"
    /\ \/ /\ replies # <<>>
          /\ pipe' = <<Head(replies)>>
          /\ replies' = Tail(replies)
          /\ remoteGoroutine' = "writing"
          /\ UNCHANGED event
       \/ /\ replies = <<>> /\ (serverEnd # "open" \/ relayPc = "returned")
          /\ event' = IF serverEnd = "timeout" THEN "timeout" ELSE "eof"
          /\ remoteGoroutine' = "ended"
          /\ UNCHANGED <<pipe, replies>>
    /\ UNCHANGED <<sent, clientClosed, requestGoroutine, request, served, replied, serverEnd,
                   cancelled, relayPc, received, interim>>

\* pipeWriter.Write returns: the relay has read everything, or closed the pipe.
RemoteWritten ==
    /\ remoteGoroutine = "writing"
    /\ \/ pipe = <<>> /\ remoteGoroutine' = "reading" /\ UNCHANGED event
       \/ /\ relayPc = "returned"
          /\ remoteGoroutine' = "ended" /\ event' = "eof"
    /\ UNCHANGED <<sent, clientClosed, requestGoroutine, request, served, replies, replied,
                   serverEnd, pipe, cancelled, relayPc, received, interim>>

-----------------------------------------------------------------------------
(* RelayHTTP1 *)

Returns == relayPc' = "returned" /\ UNCHANGED <<requestGoroutine, served, received, pipe>>

\* The select: any ready case is taken.
Select ==
    /\ relayPc = "select"
    /\ \/ cancelled /\ Returns
       \/ event # "empty" /\ Returns
       \/ requestGoroutine = "returned" /\ request = served /\ Returns   \* err: EOF
       \/ /\ requestGoroutine = "returned" /\ request > served
          /\ relayPc' = "write"
          /\ UNCHANGED <<requestGoroutine, served, received, pipe>>
    /\ UNCHANGED <<sent, clientClosed, request, replies, replied, serverEnd, remoteGoroutine,
                   event, cancelled, interim>>

\* injectHTTP1AuthorizationHeader and req.Write
WriteRequest ==
    /\ relayPc = "write"
    /\ \/ serverEnd = "open" /\ served' = request /\ relayPc' = "response"
          /\ UNCHANGED <<requestGoroutine, received, pipe>>
       \/ serverEnd # "open" /\ Returns
    /\ UNCHANGED <<sent, clientClosed, request, replies, replied, serverEnd, remoteGoroutine,
                   event, cancelled, interim>>

\* Variant for checking the properties: the relay goes on after a 504.
ReadResponseKeepsOpen ==
    /\ relayPc = "response"
    /\ \/ /\ pipe # <<>>
          /\ pipe' = <<>>
          /\ received' = Append(received, pipe[1])
          /\ relayPc' = "select" /\ requestGoroutine' = "reading"
          /\ UNCHANGED served
       \/ /\ pipe = <<>> /\ remoteGoroutine = "ended" /\ event = "timeout"
          /\ received' = Append(received, GatewayTimeout(request))
          /\ relayPc' = "select" /\ requestGoroutine' = "reading"
          /\ UNCHANGED <<served, pipe>>
    /\ UNCHANGED <<sent, clientClosed, request, replies, replied, serverEnd, remoteGoroutine,
                   event, cancelled, interim>>

\* http.ReadResponse and resp.Write.  Whatever response comes next is taken for
\* the final one.  With "Connection: close" on either side, or 504 written
\* after a timeout, the relay ends.
ReadResponse ==
    /\ relayPc = "response"
    /\ \/ /\ pipe # <<>>
          /\ pipe' = <<>>
          /\ received' = Append(received, pipe[1])
          /\ \/ relayPc' = "select" /\ requestGoroutine' = "reading"
             \/ relayPc' = "returned" /\ UNCHANGED requestGoroutine   \* shouldCloseHTTP1Relay
          /\ UNCHANGED served
       \/ /\ pipe = <<>> /\ remoteGoroutine = "ended" /\ event = "timeout"
          /\ received' = Append(received, GatewayTimeout(request))
          /\ relayPc' = "returned"
          /\ UNCHANGED <<requestGoroutine, served, pipe>>
       \/ pipe = <<>> /\ remoteGoroutine = "ended" /\ event # "timeout" /\ Returns
    /\ UNCHANGED <<sent, clientClosed, request, replies, replied, serverEnd, remoteGoroutine,
                   event, cancelled, interim>>

Http1Next ==
    \/ ClientSends \/ ServerActs \/ ContextEnds
    \/ ReadRequest \/ RemoteRead \/ RemoteWritten
    \/ Select \/ WriteRequest \/ ReadResponse

Http1Spec == Http1Init /\ [][Http1Next]_http1Vars

-----------------------------------------------------------------------------
(* Properties *)

Http1TypeOK ==
    /\ sent \in 0..Requests /\ request \in 0..sent /\ served \in 0..request
    /\ replied \in 0..served
    /\ requestGoroutine \in {"reading", "returned"}
    /\ serverEnd \in {"open", "eof", "timeout"}
    /\ remoteGoroutine \in {"reading", "writing", "ended"}
    /\ event \in {"empty", "eof", "timeout"}
    /\ relayPc \in {"select", "write", "response", "returned"}
    /\ Len(pipe) <= 1

\* Pipelined or not, the n-th response the client receives answers its n-th
\* request, and a 504 is the last one: unless the server sends interim
\* responses, each of which is relayed in the place of the final one.
ResponsesInOrder ==
    ~interim => \A i \in DOMAIN received :
        /\ received[i].n = i /\ ~received[i].interim
        /\ "status" \in DOMAIN received[i] => i = Len(received) /\ relayPc = "returned"

==============================================================================
