------------------------------ MODULE UdpSession ------------------------------
(***************************************************************************)
(* inbound/tun/tunnel/udp.go: a UDP session has two goroutines, each       *)
(* reading one packet connection under a read deadline and writing to the  *)
(* other.  Every forwarded packet renews the deadline of both connections, *)
(* so that traffic in one direction keeps the other one open.  A direction *)
(* ends when its read times out or when a read or a write fails; the       *)
(* session ends with both.                                                 *)
(***************************************************************************)
EXTENDS Integers

CONSTANTS Sessions, Packets, Timeout

ASSUME UdpAssumption == Packets \in Nat /\ Timeout \in Nat \ {0}

VARIABLE udp

Ways == {"up", "down"}
Reads(w) == IF w = "up" THEN "origin" ELSE "remote"
Writes(w) == IF w = "up" THEN "remote" ELSE "origin"

(* pipe: "loop" is the top of the loop, "renew" is between WriteTo and the *)
(* new deadline of the connection written to.  due: what is left of a      *)
(* connection's read deadline.  why: history, how a direction ended.       *)
(* quiet: history, the time since a packet was last handed on, up to       *)
(* Timeout.                                                                *)
UdpStates ==
  [ pipe  : [Ways -> {"off", "loop", "read", "write", "renew", "ended"}],
    why   : [Ways -> {"running", "timeout", "failed"}],
    left  : [Ways -> 0 .. Packets],
    due   : [{"origin", "remote"} -> 0 .. Timeout],
    quiet : 0 .. Timeout ]

NewUdp == [ pipe  |-> [w \in Ways |-> "off"],
            why   |-> [w \in Ways |-> "running"],
            left  |-> [w \in Ways |-> Packets],
            due   |-> [s \in {"origin", "remote"} |-> Timeout],
            quiet |-> 0 ]

pipePacket(u) == [u EXCEPT !.pipe = [w \in Ways |-> "loop"]]

(* The top of the loop: a new deadline for the connection that is read.    *)
RenewSource(u, w) ==
  /\ udp[u].pipe[w] = "loop"
  /\ udp' = [udp EXCEPT ![u].pipe[w] = "read", ![u].due[Reads(w)] = Timeout]

(* ReadFrom returns a packet before the deadline.                          *)
ReadPacket(u, w) ==
  /\ udp[u].pipe[w] = "read" /\ udp[u].left[w] > 0 /\ udp[u].due[Reads(w)] > 0
  /\ udp' = [udp EXCEPT ![u].pipe[w] = "write", ![u].left[w] = @ - 1]

(* ReadFrom fails: the end of the connection, an ICMP error, a close.      *)
ReadFails(u, w) ==
  /\ udp[u].pipe[w] = "read"
  /\ udp' = [udp EXCEPT ![u].pipe[w] = "ended", ![u].why[w] = "failed"]

ReadTimesOut(u, w) ==
  /\ udp[u].pipe[w] = "read" /\ udp[u].due[Reads(w)] = 0
  /\ udp' = [udp EXCEPT ![u].pipe[w] = "ended", ![u].why[w] = "timeout"]

(* WriteTo hands the packet on; a failed write ends the direction.         *)
WritePacket(u, w) ==
  /\ udp[u].pipe[w] = "write"
  /\ \/ udp' = [udp EXCEPT ![u].pipe[w] = "renew", ![u].quiet = 0]
     \/ udp' = [udp EXCEPT ![u].pipe[w] = "ended", ![u].why[w] = "failed"]

(* Variant for checking the properties: only the connection that is read   *)
(* ever gets a new deadline.                                               *)
RenewNothing(u, w) ==
  /\ udp[u].pipe[w] = "renew"
  /\ udp' = [udp EXCEPT ![u].pipe[w] = "loop"]

(* Then the connection written to gets a new deadline too: the opposite    *)
(* direction, which reads it, waits that much longer.                      *)
RenewTarget(u, w) ==
  /\ udp[u].pipe[w] = "renew"
  /\ udp' = [udp EXCEPT ![u].pipe[w] = "loop", ![u].due[Writes(w)] = Timeout]

(* What a direction does by itself, and what depends on a packet or an     *)
(* error that may never come.                                              *)
UdpRuns(u, w) == RenewSource(u, w) \/ ReadTimesOut(u, w) \/ WritePacket(u, w) \/ RenewTarget(u, w)

UdpStep(u, w) == UdpRuns(u, w) \/ ReadPacket(u, w) \/ ReadFails(u, w)

UdpOver(u) == \A w \in Ways : u.pipe[w] = "ended"

(* Time passes for every session.                                          *)
UdpTick ==
  /\ \E u \in Sessions : udp[u].pipe["up"] # "off" /\ ~UdpOver(udp[u])
                         /\ udp[u].due # [s \in {"origin", "remote"} |-> 0]
  /\ udp' = [u \in Sessions |->
       IF udp[u].pipe["up"] = "off" \/ UdpOver(udp[u]) THEN udp[u]
       ELSE [udp[u] EXCEPT !.due = [s \in DOMAIN @ |-> IF @[s] = 0 THEN 0 ELSE @[s] - 1],
                           !.quiet = IF @ = Timeout THEN @ ELSE @ + 1]]

-----------------------------------------------------------------------------

(* udpSessionTimeout is a timeout of the session, not of a direction: a    *)
(* direction times out only when for that long no packet was handed on in  *)
(* either direction.  The one exception is the packet that is being handed *)
(* on at that moment: between WriteTo (udp.go:115) and the renewal of the  *)
(* deadline (118) the opposite direction may still time out under the old  *)
(* one, and it does not come back.                                         *)
UdpTimeoutMeansQuiet ==
  [][\A u \in Sessions, w \in Ways :
       udp[u].why[w] # "timeout" /\ udp'[u].why[w] = "timeout"
         => udp[u].quiet = Timeout \/ \E v \in Ways \ {w} : udp[u].pipe[v] = "renew"]_udp

=============================================================================
