------------------------------- MODULE Outbound -------------------------------
(***************************************************************************)
(* The outbound proxies: the registry that names them, how each protocol   *)
(* dials a connection stage by stage, and the link status of the Aliang    *)
(* proxy that dials and probes report to.                                  *)
(*                                                                         *)
(* A stage may fail; what then happens to the TCP connection that was      *)
(* opened is up to the protocol.                                           *)
(***************************************************************************)
EXTENDS Naturals, Sequences, FiniteSets

CONSTANTS
    Dials,          \* dials and probes that may be under way together
    Protocols,      \* subset of direct, http, socks5, shadowsocks, shadowtls, vless, aliang
    Credentials     \* what a SOCKS5 proxy is configured with: none, half, both

ASSUME OutboundAssumption ==
    Protocols \subseteq {"direct", "http", "socks5", "shadowsocks", "shadowtls", "vless", "aliang"}

VARIABLES
    registry,       \* names that are registered
    dialling,       \* each dial: protocol, stages left, its connection, its result
    creds,          \* user and password of the SOCKS5 proxy (never changes)
    closed,         \* is the Aliang proxy closed
    link,           \* state of linkStatusTracker.snapshot
    failures        \* snapshot.ConsecutiveFailure, up to the number of dials

outboundVars == <<registry, dialling, creds, closed, link, failures>>

NoDial == [proto |-> "none", todo |-> <<>>, conn |-> "none", result |-> "none", probe |-> FALSE]

-----------------------------------------------------------------------------
(* Stages.  "connect" opens the TCP connection. *)

socks5Stages == <<"connect", "methods", "request", "reply">>
httpStages == <<"connect", "request", "response">>
shadowsocksStages == <<"connect", "cipher", "address">>
\* tlsHandshake and shadowtlsAuth; a failure to send the address is ignored.
shadowtlsStages == <<"connect", "tls", "auth", "cipher">>
\* With REALITY enabled.
vlessStages == <<"connect", "config", "tls", "early">>
\* The TLS configuration is loaded before the connection is opened.
aliangStages == <<"config", "connect", "tls">>

Stages(p) ==
    CASE p = "socks5" -> socks5Stages
      [] p = "http" -> httpStages
      [] p = "shadowsocks" -> shadowsocksStages
      [] p = "shadowtls" -> shadowtlsStages
      [] p = "vless" -> vlessStages
      [] p = "aliang" -> aliangStages
      [] OTHER -> <<"connect">>

\* What a failure does to an open connection.  socks5: "return nil, err" clears the named
\* result before the deferred SafeConnClose looks at it.  vless closes nothing.
ClosesOnFailure(p, stage) == p \notin {"socks5", "vless"}

-----------------------------------------------------------------------------
(* linkStatusTracker *)

LinkStates == {"unknown", "connecting", "connected", "degraded", "disconnected"}

markConnecting == link' = "connecting" /\ UNCHANGED failures

markSuccess(slow) == link' = (IF slow THEN "degraded" ELSE "connected") /\ failures' = 0

\* Variant for checking the properties: only probes report failures.
markFailureOfProbes(d) ==
    IF dialling[d].probe
    THEN /\ link' = "disconnected"
         /\ failures' = IF failures < Cardinality(Dials) THEN failures + 1 ELSE failures
    ELSE UNCHANGED <<link, failures>>

markFailure(d) ==
    /\ link' = "disconnected"
    /\ failures' = IF failures < Cardinality(Dials) THEN failures + 1 ELSE failures

-----------------------------------------------------------------------------

\* The proxies that are looked up by name; the others are built where they are used.
Registrable == {"direct", "socks5", "aliang"} \cap Protocols

Running(d) == dialling[d].result = "pending"

\* A VLESS dial holds the proxy's lock until it is done.
StartDial(d, p, probe) ==
    /\ ~Running(d)
    /\ p \in Registrable => p \in registry
    /\ p = "vless" => \A e \in Dials : ~(Running(e) /\ dialling[e].proto = "vless")
    /\ LET refused == p = "aliang" /\ closed IN
       /\ dialling' = [dialling EXCEPT ![d] =
             [proto |-> p, todo |-> IF refused THEN <<>> ELSE Stages(p), conn |-> "none", probe |-> probe,
              result |-> IF refused THEN "failed" ELSE "pending"]]
       /\ IF p = "aliang" /\ ~refused THEN markConnecting ELSE UNCHANGED <<link, failures>>
    /\ UNCHANGED <<registry, creds, closed>>

DialContext(d, p) == StartDial(d, p, FALSE)

\* A probe is a dial of Aliang whose connection is closed again.
ProbeLink(d) == StartDial(d, "aliang", TRUE)

\* handshake: how a SOCKS5 dial goes on after the server chose a method;
\* a method the client did not offer is taken for no authentication.
AfterMethods(choice) ==
    IF choice # "userpass" THEN <<"request", "reply">>
    ELSE <<"userpass", "request", "reply">>

\* userPassAuth refuses to send an empty user name or password.
userPassAuth == creds = "both"

\* A stage succeeds.
StageDone(d, choice, slow) ==
    LET dial == dialling[d]
        stage == Head(dial.todo)
        rest == IF stage = "methods" THEN AfterMethods(choice) ELSE Tail(dial.todo)
        done == rest = <<>>
    IN  /\ Running(d)
        /\ stage = "userpass" => userPassAuth
        /\ stage # "methods" => choice = "none"
        /\ slow => (done /\ dial.proto = "aliang")
        /\ dialling' = [dialling EXCEPT ![d] =
              [dial EXCEPT !.todo = rest,
                           !.conn = IF done /\ dial.probe THEN "closed"
                                    ELSE IF stage = "connect" THEN "open" ELSE @,
                           !.result = IF done THEN "ok" ELSE @]]
        /\ IF done /\ dial.proto = "aliang" THEN markSuccess(slow) ELSE UNCHANGED <<link, failures>>
        /\ UNCHANGED <<registry, creds, closed>>

\* A stage fails, or its context ends.
StageFails(d) ==
    LET dial == dialling[d]
        stage == Head(dial.todo)
    IN  /\ Running(d)
        /\ dialling' = [dialling EXCEPT ![d] =
              [dial EXCEPT !.result = "failed", !.todo = <<>>,
                           !.conn = IF @ = "open" /\ ClosesOnFailure(dial.proto, stage)
                                    THEN "closed" ELSE @]]
        /\ IF dial.proto = "aliang" THEN markFailure(d) ELSE UNCHANGED <<link, failures>>
        /\ UNCHANGED <<registry, creds, closed>>

\* The relay that got the connection closes it.
DialUsed(d) ==
    /\ dialling[d].result = "ok" /\ dialling[d].conn = "open"
    /\ dialling' = [dialling EXCEPT ![d].conn = "closed"]
    /\ UNCHANGED <<registry, creds, closed, link, failures>>

CloseAliang ==
    /\ ~closed
    /\ closed' = TRUE
    /\ UNCHANGED <<registry, dialling, creds, link, failures>>

\* Register, RegisterDefault and RegisterAliang; the last two keep what is there.
Register(p) ==
    /\ registry' = registry \cup {p}
    /\ UNCHANGED <<dialling, creds, closed, link, failures>>

Unregister(p) ==
    /\ p \in registry
    /\ registry' = registry \ {p}
    /\ UNCHANGED <<dialling, creds, closed, link, failures>>

OutboundInit ==
    /\ registry = {"direct"} \cap Registrable
    /\ dialling = [d \in Dials |-> NoDial]
    /\ creds \in Credentials
    /\ closed = FALSE
    /\ link = "unknown"
    /\ failures = 0

OutboundNext ==
    \/ \E p \in Registrable : Register(p) \/ Unregister(p)
    \/ \E d \in Dials :
          \/ \E p \in Protocols : DialContext(d, p)
          \/ ProbeLink(d)
          \/ \E choice \in {"none", "userpass"}, slow \in BOOLEAN :
                StageDone(d, choice, slow)
          \/ StageFails(d) \/ DialUsed(d)
    \/ CloseAliang

OutboundSpec == OutboundInit /\ [][OutboundNext]_outboundVars

OutboundTypeOK ==
    /\ registry \subseteq Registrable
    /\ \A d \in Dials : dialling[d].conn \in {"none", "open", "closed"}
                        /\ dialling[d].result \in {"none", "pending", "ok", "failed"}
    /\ link \in LinkStates
    /\ failures \in 0..Cardinality(Dials)

\* A dial that fails leaves no connection open behind it (DialContext of http, direct,
\* shadowsocks, shadowtls and aliang, at every stage), and the link status that dials and
\* probes of Aliang share settles: it shows "connecting" only while one of them is under way.
FailedDialsSettle ==
    /\ \A d \in Dials :
          (dialling[d].result = "failed" /\ dialling[d].proto \notin {"socks5", "vless"})
              => dialling[d].conn # "open"
    /\ link = "connecting" => \E d \in Dials : Running(d) /\ dialling[d].proto = "aliang"

=============================================================================
