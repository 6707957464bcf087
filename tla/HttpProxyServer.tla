--------------------------- MODULE HttpProxyServer ---------------------------
(***************************************************************************)
(* The HTTP CONNECT proxy server of inbound/http/server.go.  Its package   *)
(* variables (httpListener, httpCtx, httpCancel, isHttpRunning) are shared *)
(* by every call of StartMitmHttp and StopHttpProxy.  Both are called from *)
(* goroutines of RunService and of the TUN runner, so any number of calls  *)
(* overlap.  httpMutex is never held across a blocking operation: each of  *)
(* its critical sections is one atomic step here.                          *)
(*                                                                         *)
(* A member of Starts is one call of StartMitmHttp and names the context   *)
(* and the listener that call creates; a member of Stops is one call of    *)
(* StopHttpProxy.                                                          *)
(***************************************************************************)
EXTENDS FiniteSets

CONSTANTS Starts,      \* calls of StartMitmHttp
          Stops,       \* calls of StopHttpProxy
          NoCall       \* nil: no context, no listener

ASSUME NoCallAssumption == NoCall \notin Starts

VARIABLES
    isHttpRunning,     \* the flag IsHttpRunning reports
    httpCtx,           \* the Start whose context is in the package variable
    httpListener,      \* the Start whose listener is in the package variable
    doneCtx,           \* Starts whose context has been cancelled
    open,              \* Starts whose listener socket is open (bound to the port)
    startPc,           \* where each call of StartMitmHttp stands
    stopPc,            \* where each call of StopHttpProxy stands
    stopListener,      \* StopHttpProxy's local variable `listener`
    stopCtx,           \* the context that this StopHttpProxy cancelled
    exited             \* the process has ended through Fatal (os.Exit)

httpVars == <<isHttpRunning, httpCtx, httpListener, doneCtx, open,
              startPc, stopPc, stopListener, stopCtx, exited>>

StartPcs == {"idle", "listen", "publish", "accept", "check", "exit", "fatal", "returned"}
StopPcs  == {"idle", "close", "finish", "returned"}

HttpTypeOK ==
    /\ isHttpRunning \in BOOLEAN
    /\ httpCtx \in Starts \cup {NoCall}
    /\ httpListener \in Starts \cup {NoCall}
    /\ doneCtx \subseteq Starts
    /\ open \subseteq Starts
    /\ startPc \in [Starts -> StartPcs]
    /\ stopPc \in [Stops -> StopPcs]
    /\ stopListener \in [Stops -> Starts \cup {NoCall}]
    /\ stopCtx \in [Stops -> Starts \cup {NoCall}]
    /\ exited \in BOOLEAN

HttpInit ==
    /\ isHttpRunning = FALSE
    /\ httpCtx = NoCall
    /\ httpListener = NoCall
    /\ doneCtx = {}
    /\ open = {}
    /\ startPc = [s \in Starts |-> "idle"]
    /\ stopPc = [p \in Stops |-> "idle"]
    /\ stopListener = [p \in Stops |-> NoCall]
    /\ stopCtx = [p \in Stops |-> NoCall]
    /\ exited = FALSE

-----------------------------------------------------------------------------
(* StartMitmHttp *)

\* The first critical section, when the flag says a server is running.
StartAlreadyRunning(s) ==
    /\ startPc[s] = "idle"
    /\ isHttpRunning
    /\ startPc' = [startPc EXCEPT ![s] = "returned"]
    /\ UNCHANGED <<isHttpRunning, httpCtx, httpListener, doneCtx, open,
                   stopPc, stopListener, stopCtx, exited>>

\* The first critical section otherwise: a fresh context and the flag.
StartClaim(s) ==
    /\ startPc[s] = "idle"
    /\ ~isHttpRunning
    /\ isHttpRunning' = TRUE
    /\ httpCtx' = s
    /\ startPc' = [startPc EXCEPT ![s] = "listen"]
    /\ UNCHANGED <<httpListener, doneCtx, open, stopPc, stopListener, stopCtx, exited>>

\* net.Listen succeeds only while no other listener of the process holds the port.
Listen(s) ==
    /\ startPc[s] = "listen"
    /\ open = {}
    /\ open' = {s}
    /\ startPc' = [startPc EXCEPT ![s] = "publish"]
    /\ UNCHANGED <<isHttpRunning, httpCtx, httpListener, doneCtx,
                   stopPc, stopListener, stopCtx, exited>>

\* net.Listen fails (port taken by this or by another program): the flag is
\* cleared under the lock ...
ListenFails(s) ==
    /\ startPc[s] = "listen"
    /\ isHttpRunning' = FALSE
    /\ startPc' = [startPc EXCEPT ![s] = "fatal"]
    /\ UNCHANGED <<httpCtx, httpListener, doneCtx, open,
                   stopPc, stopListener, stopCtx, exited>>

\* ... and then Fatal ends the whole process.
Fatal(s) ==
    /\ startPc[s] = "fatal"
    /\ exited' = TRUE
    /\ UNCHANGED <<isHttpRunning, httpCtx, httpListener, doneCtx, open,
                   startPc, stopPc, stopListener, stopCtx>>

\* Variant for checking the properties: the listener is never stored.
PublishForgets(s) ==
    /\ startPc[s] = "publish"
    /\ startPc' = [startPc EXCEPT ![s] = "accept"]
    /\ UNCHANGED <<isHttpRunning, httpCtx, httpListener, doneCtx, open,
                   stopPc, stopListener, stopCtx, exited>>

\* The listener becomes visible to StopHttpProxy only in a second critical section.
Publish(s) ==
    /\ startPc[s] = "publish"
    /\ httpListener' = s
    /\ startPc' = [startPc EXCEPT ![s] = "accept"]
    /\ UNCHANGED <<isHttpRunning, httpCtx, doneCtx, open,
                   stopPc, stopListener, stopCtx, exited>>

\* Accept returns an error: because the listener was closed, or a transient one
\* while it is open.  (An accepted connection goes to a goroutine of its own and
\* leaves this state unchanged.)
AcceptError(s) ==
    /\ startPc[s] = "accept"
    /\ startPc' = [startPc EXCEPT ![s] = "check"]
    /\ UNCHANGED <<isHttpRunning, httpCtx, httpListener, doneCtx, open,
                   stopPc, stopListener, stopCtx, exited>>

\* select on the PACKAGE variable httpCtx: Done ends the loop ...
LoopDone(s) ==
    /\ startPc[s] = "check"
    /\ httpCtx \in doneCtx
    /\ startPc' = [startPc EXCEPT ![s] = "exit"]
    /\ UNCHANGED <<isHttpRunning, httpCtx, httpListener, doneCtx, open,
                   stopPc, stopListener, stopCtx, exited>>

\* Variant for checking the properties: the loop returns without clearing the flag.
LoopExitKeepsFlag(s) ==
    /\ startPc[s] = "exit"
    /\ startPc' = [startPc EXCEPT ![s] = "returned"]
    /\ UNCHANGED <<isHttpRunning, httpCtx, httpListener, doneCtx, open,
                   stopPc, stopListener, stopCtx, exited>>

\* ... and clears the flag in a critical section of its own, whoever set it.
LoopExit(s) ==
    /\ startPc[s] = "exit"
    /\ isHttpRunning' = FALSE
    /\ startPc' = [startPc EXCEPT ![s] = "returned"]
    /\ UNCHANGED <<httpCtx, httpListener, doneCtx, open,
                   stopPc, stopListener, stopCtx, exited>>

\* Variant for checking the properties: the context is not looked at.
LoopContinueBlindly(s) ==
    /\ startPc[s] = "check"
    /\ startPc' = [startPc EXCEPT ![s] = "accept"]
    /\ UNCHANGED <<isHttpRunning, httpCtx, httpListener, doneCtx, open,
                   stopPc, stopListener, stopCtx, exited>>

\* Any other context means `continue`, that is Accept again.
LoopContinue(s) ==
    /\ startPc[s] = "check"
    /\ httpCtx \notin doneCtx
    /\ startPc' = [startPc EXCEPT ![s] = "accept"]
    /\ UNCHANGED <<isHttpRunning, httpCtx, httpListener, doneCtx, open,
                   stopPc, stopListener, stopCtx, exited>>

-----------------------------------------------------------------------------
(* StopHttpProxy *)

StopNotRunning(p) ==
    /\ stopPc[p] = "idle"
    /\ ~isHttpRunning
    /\ stopPc' = [stopPc EXCEPT ![p] = "returned"]
    /\ UNCHANGED <<isHttpRunning, httpCtx, httpListener, doneCtx, open,
                   startPc, stopListener, stopCtx, exited>>

\* Cancel the current context and read the listener, then release the lock.
StopCancel(p) ==
    /\ stopPc[p] = "idle"
    /\ isHttpRunning
    /\ doneCtx' = doneCtx \cup ({httpCtx} \ {NoCall})
    /\ stopCtx' = [stopCtx EXCEPT ![p] = httpCtx]
    /\ stopListener' = [stopListener EXCEPT ![p] = httpListener]
    /\ stopPc' = [stopPc EXCEPT ![p] = "close"]
    /\ UNCHANGED <<isHttpRunning, httpCtx, httpListener, open, startPc, exited>>

\* listener.Close outside the lock (a nil or closed listener changes nothing).
StopClose(p) ==
    /\ stopPc[p] = "close"
    /\ open' = open \ {stopListener[p]}
    /\ stopPc' = [stopPc EXCEPT ![p] = "finish"]
    /\ UNCHANGED <<isHttpRunning, httpCtx, httpListener, doneCtx,
                   startPc, stopListener, stopCtx, exited>>

\* The lock is taken again and the flag cleared, whoever has set it meanwhile.
StopFinish(p) ==
    /\ stopPc[p] = "finish"
    /\ isHttpRunning' = FALSE
    /\ stopPc' = [stopPc EXCEPT ![p] = "returned"]
    /\ UNCHANGED <<httpCtx, httpListener, doneCtx, open,
                   startPc, stopListener, stopCtx, exited>>

-----------------------------------------------------------------------------
\* The steps of a call of StartMitmHttp after it was made.
StartStep(s) ==
    \/ Listen(s) \/ ListenFails(s) \/ Fatal(s) \/ Publish(s)
    \/ AcceptError(s) \/ LoopDone(s) \/ LoopExit(s) \/ LoopContinue(s)

StopStep(p) == StopClose(p) \/ StopFinish(p)

HttpNext ==
    /\ ~exited
    /\ \/ \E s \in Starts : StartAlreadyRunning(s) \/ StartClaim(s) \/ StartStep(s)
       \/ \E p \in Stops : StopNotRunning(p) \/ StopCancel(p) \/ StopStep(p)

HttpSpec == HttpInit /\ [][HttpNext]_httpVars

\* The Go scheduler runs every runnable goroutine: a call that was made keeps
\* taking steps.  Accept returns when the listener is closed; on an open one it may
\* wait for ever.  Nothing obliges anybody to make a call.
Runnable(s) == ~exited /\ (startPc[s] = "accept" => s \notin open)

HttpFairness ==
    /\ \A s \in Starts : WF_httpVars(Runnable(s) /\ StartStep(s))
    /\ \A p \in Stops : WF_httpVars(~exited /\ StopStep(p))

HttpFairSpec == HttpSpec /\ HttpFairness

-----------------------------------------------------------------------------
(* Properties *)

\* A server in being: its listener is open, or it is on the way to opening one.
Live(s) == s \in open \/ startPc[s] \in {"listen", "publish"}

\* A StopHttpProxy called now gets past its guard and acts on s, or one already has
\* the listener of s in hand.
Stoppable(s) ==
    \/ isHttpRunning /\ (httpListener = s \/ startPc[s] \in {"listen", "publish"})
    \/ \E p \in Stops : stopPc[p] = "close" /\ stopListener[p] = s

\* A call clears the flag, which is all that says s is running: a StopHttpProxy that
\* did not have the listener of s (it read the variable before s stored it, or was
\* stopping an older server), or a StartMitmHttp that ends, be it s itself on a
\* passing error of Accept after such a stop, with its listener still open.
FlagCleared(s) ==
    \/ \E p \in Stops : /\ stopPc[p] = "finish" /\ stopPc'[p] = "returned"
                        /\ stopListener[p] # s
    \/ \E t \in Starts : \/ startPc[t] = "exit" /\ startPc'[t] = "returned"
                         \/ startPc[t] = "listen" /\ startPc'[t] = "fatal"

\* A server begins within reach of StopHttpProxy and stays so while it has an open
\* listener, unless a call clears the flag over it: from then on every StopHttpProxy
\* returns at its guard and the port stays taken.  Nothing else, no replaced listener
\* variable and no other order of the critical sections, loses a server.
LostOnlyToFlag ==
    [][\A s \in Starts :
         Live(s)' /\ (Live(s) => Stoppable(s)) => Stoppable(s)' \/ FlagCleared(s)]_httpVars

\* isHttpRunning is never left TRUE behind a server that has gone: while it is set,
\* the call that created the current context is still in StartMitmHttp.  (A flag
\* left behind would make every later StartMitmHttp return "already running".)
FlagNeverStuck ==
    isHttpRunning => /\ httpCtx \in Starts
                     /\ startPc[httpCtx] \in {"listen", "publish", "accept", "check", "exit"}

\* Once a StopHttpProxy has cancelled the context of a server and its listener is
\* closed, that server's accept loop ends, unless a newer StartMitmHttp replaces
\* the context it tests (or the process exits).
LoopEnds ==
    \A s \in Starts :
        (startPc[s] = "accept" /\ s \notin open /\ httpCtx = s /\ s \in doneCtx)
            ~> (startPc[s] = "returned" \/ httpCtx # s \/ exited)

\* "StopHttpProxy stops the HTTP proxy server", and StartMitmHttp "runs until
\* stopped": once a StopHttpProxy has cancelled a server's context and returned, that
\* StartMitmHttp returns.
StopEndsServer ==
    \A s \in Starts, p \in Stops :
        (stopPc[p] = "returned" /\ stopCtx[p] = s) ~> (startPc[s] = "returned" \/ exited)

=============================================================================
