-------------------------------- MODULE Relay --------------------------------
(***************************************************************************)
(* processor/tcp/relay.go: two goroutines per connection copy bytes from   *)
(* the application (origin) to the server (remote) and back, and each      *)
(* tears down its part when its copy ends.  There are three teardowns.     *)
(* "half": CloseRead and CloseWrite, then one read deadline on the side    *)
(* written to, which bounds the opposite direction ("opaque" is the same   *)
(* for connections that do not implement half-close).  "direct": nothing   *)
(* is done.  "tracked": both sockets are closed when both directions are   *)
(* done.  The caller closes both sockets when the relay returns.           *)
(*                                                                         *)
(* Bytes are units; a peer sends what it has left and may then finish, or  *)
(* it may reset the connection at any time.  It may also stop reading:     *)
(* only read deadlines are set, so a Write to it then waits for ever.      *)
(***************************************************************************)
EXTENDS Naturals

CONSTANTS Conns, Units

ASSUME UnitsAssumption == Units \in Nat

VARIABLE relay

Dirs == {"up", "down"}
Sides == {"origin", "remote"}
Opposite(d) == IF d = "up" THEN "down" ELSE "up"
Src(d) == IF d = "up" THEN "origin" ELSE "remote"
Dst(d) == IF d = "up" THEN "remote" ELSE "origin"

RelayModes == {"half", "opaque", "direct", "tracked"}

(* stream: "copy" waits for bytes, "write" has read some and hands them    *)
(* on; "over" is a copy that has returned and whose teardown is still to   *)
(* come; "stored" has set its flag in the completion tracker.              *)
(* armed: a read deadline is set.  fin: the peer has been sent the end of  *)
(* the stream.  why: how the copy of a direction ended.                    *)
Relays ==
  [ mode   : RelayModes,
    stream : [Dirs -> {"off", "copy", "write", "over", "stored", "ended"}],
    why    : [Dirs -> {"running", "eof", "error", "deadline"}],
    left   : [Dirs -> 0 .. Units],
    peer   : [Sides -> {"open", "fin", "rst"}],
    fin    : [Sides -> BOOLEAN],
    armed  : [Sides -> BOOLEAN],
    closed : [Sides -> BOOLEAN] ]

NewRelay(m) ==
  [ mode   |-> m,
    stream |-> [d \in Dirs |-> "off"],
    why    |-> [d \in Dirs |-> "running"],
    left   |-> [d \in Dirs |-> Units],
    peer   |-> [s \in Sides |-> "open"],
    fin    |-> [s \in Sides |-> FALSE],
    armed  |-> [s \in Sides |-> FALSE],
    closed |-> [s \in Sides |-> FALSE] ]

(* Variant for checking the properties: the deadline under which the first *)
(* bytes were read is left on the connection.                              *)
StartArmed(r) == [r EXCEPT !.stream = [d \in Dirs |-> "copy"], !.armed["origin"] = TRUE]

(* Relay starts both streams.  The deadline under which the handler read   *)
(* the first bytes has been cleared by then.                               *)
Start(r) == [r EXCEPT !.stream = [d \in Dirs |-> "copy"]]

Copying(r, d) == r.stream[d] \in {"copy", "write"}

(* One read of io.CopyBuffer ...                                           *)
ReadSome(c, d) ==
  LET r == relay[c]
  IN  /\ r.stream[d] = "copy" /\ r.left[d] > 0
      /\ r.peer[Src(d)] # "rst" /\ ~r.closed[Src(d)]
      /\ relay' = [relay EXCEPT ![c].left[d] = @ - 1, ![c].stream[d] = "write"]

(* ... and its write, which returns when the peer makes room for the bytes *)
(* and is under no deadline.                                               *)
WriteSome(c, d) ==
  LET r == relay[c]
  IN  /\ r.stream[d] = "write" /\ r.peer[Dst(d)] # "rst"
      /\ ~r.closed[Dst(d)] /\ ~r.fin[Dst(d)]
      /\ relay' = [relay EXCEPT ![c].stream[d] = "copy"]

(* The ways a copy ends.  In a read: the source has finished and all was   *)
(* read; it was reset or closed; the read deadline.  In a write: the       *)
(* target was reset or closed.                                             *)
Ended(r, d) ==
  IF r.stream[d] = "write"
  THEN IF r.peer[Dst(d)] = "rst" \/ r.closed[Dst(d)] \/ r.fin[Dst(d)] THEN {"error"} ELSE {}
  ELSE (IF r.peer[Src(d)] = "fin" /\ r.left[d] = 0 THEN {"eof"} ELSE {})
       \cup (IF r.peer[Src(d)] = "rst" \/ r.closed[Src(d)] THEN {"error"} ELSE {})
       \cup (IF r.armed[Src(d)] THEN {"deadline"} ELSE {})

EndOfCopy(c, d) ==
  /\ Copying(relay[c], d)
  /\ \E w \in Ended(relay[c], d) :
       relay' = [relay EXCEPT ![c].stream[d] = "over", ![c].why[d] = w]

(* Variant for checking the properties: the tracker closes as soon as one  *)
(* direction is done.                                                      *)
markDoneEither(r, d) ==
  [r EXCEPT !.stream[d] = "ended", !.closed = [s \in Sides |-> TRUE]]

(* markDone after its own flag is set: it loads both flags and closes both *)
(* sockets when both are set.                                              *)
markDone(r, d) ==
  [r EXCEPT !.stream[d] = "ended",
            !.closed = IF r.stream[Opposite(d)] \in {"stored", "ended"}
                       THEN [s \in Sides |-> TRUE] ELSE @]

(* Variant for checking the properties: the deadline is set on the side    *)
(* that was read.                                                          *)
halfCloseWrongSide(r, d) ==
  [r EXCEPT !.stream[d] = "ended", !.fin[Dst(d)] = r.mode = "half", !.armed[Src(d)] = TRUE]

halfClose(r, d) ==
  [r EXCEPT !.stream[d] = "ended", !.fin[Dst(d)] = r.mode = "half", !.armed[Dst(d)] = TRUE]

(* The end of relayStream, according to the teardown in force.             *)
Teardown(c, d) ==
  LET r == relay[c]
  IN  \/ /\ r.stream[d] = "over" /\ r.mode = "tracked"
         /\ relay' = [relay EXCEPT ![c].stream[d] = "stored"]
      \/ /\ r.stream[d] = "stored"
         /\ relay' = [relay EXCEPT ![c] = markDone(@, d)]
      \/ /\ r.stream[d] = "over" /\ r.mode = "direct"
         /\ relay' = [relay EXCEPT ![c].stream[d] = "ended"]
      \/ /\ r.stream[d] = "over" /\ r.mode \in {"half", "opaque"}
         /\ relay' = [relay EXCEPT ![c] = halfClose(@, d)]

(* What a direction does by itself: to end, and to read what comes before  *)
(* the end of its source.                                                  *)
RelayRuns(c, d) ==
  EndOfCopy(c, d) \/ Teardown(c, d) \/ (relay[c].peer[Src(d)] = "fin" /\ ReadSome(c, d))

RelayStep(c, d) == ReadSome(c, d) \/ WriteSome(c, d) \/ EndOfCopy(c, d) \/ Teardown(c, d)

(* The peers of a relayed connection.                                      *)
PeerCloses(c, s) ==
  /\ relay[c].stream["up"] # "off" /\ relay[c].peer[s] = "open"
  /\ relay' = [relay EXCEPT ![c].peer[s] = "fin"]

PeerResets(c, s) ==
  /\ relay[c].stream["up"] # "off" /\ relay[c].peer[s] # "rst"
  /\ relay' = [relay EXCEPT ![c].peer[s] = "rst"]

RelayOver(r) == \A d \in Dirs : r.stream[d] = "ended"

(* The deferred Close of both connections when the handler returns.        *)
CloseBoth(r) == [r EXCEPT !.closed = [s \in Sides |-> TRUE]]

-----------------------------------------------------------------------------

(* "TCP half-close handling": the teardown of one direction never reaches  *)
(* a direction that is still copying.  Whatever the mode and the order in  *)
(* which the two goroutines and the two peers act, no socket is closed and *)
(* no end of stream is sent under a running copy.                          *)
NoLiveStreamClosed ==
  \A c \in Conns, d \in Dirs :
    Copying(relay[c], d) =>
      ~relay[c].closed[Src(d)] /\ ~relay[c].closed[Dst(d)] /\ ~relay[c].fin[Dst(d)]

(* A direction ends by a deadline only when the opposite one had ended     *)
(* before, and never in the teardowns that set none: the deadlines of the  *)
(* handler's first reads do not outlive them, and a relay whose peers are  *)
(* merely silent is not cut.                                               *)
DeadlineOnlyAfterOpposite ==
  \A c \in Conns, d \in Dirs :
    relay[c].why[d] = "deadline" =>
      /\ relay[c].mode \in {"half", "opaque"}
      /\ relay[c].stream[Opposite(d)] = "ended"

=============================================================================
