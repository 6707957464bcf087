---------------------------- MODULE MCControlPlane ----------------------------
(***************************************************************************)
(* The components that manage the client, for TLC: software updates, the   *)
(* configurations of other programs and their cloud, the logger, the core  *)
(* with its companion, the certificates, the Wintun driver and the service *)
(* of the operating system.  They share no state here, so each behaviour   *)
(* is one of one part, and the others keep one initial value.              *)
(***************************************************************************)
EXTENDS SoftwareUpdate, SoftwareSync, Logger, Companion, Certificates, Wintun, SystemService

CONSTANTS u1, u2, c1, c2   \* configurations of the other programs, callers of the certificates

VARIABLE part

Only(p, x, value) == part # p => x = value

Init ==
  /\ part \in {"update", "sync", "sink", "ring", "error", "stream", "companion", "cert",
               "wintun", "service"}
  /\ UpdateInit /\ Only("update", version, NoVersion)
  /\ SyncInit
  /\ LoggerInit /\ Only("ring", prodBuild, FALSE)
  /\ CompanionInit /\ Only("companion", platform, "mac") /\ Only("companion", core, "down")
  /\ CertInit /\ Only("cert", osName, "linux")
  /\ WintunInit /\ Only("wintun", dll, FALSE) /\ Only("wintun", isRoot, FALSE)
                /\ Only("wintun", hasMirror, FALSE)
  /\ SvcInit /\ Only("service", hostOS, "linux") /\ Only("service", managedConfig, FALSE)

Next ==
  \/ /\ part = "update" /\ UpdateNext
     /\ UNCHANGED <<part, syncVars, loggerVars, companionVars, certVars, wintunVars, svcVars>>
  \/ /\ part = "sync" /\ SyncNext
     /\ ~rows'[u2].selected      \* one row that may be selected and one that is not
     /\ UNCHANGED <<part, updateVars, loggerVars, companionVars, certVars, wintunVars, svcVars>>
  \/ /\ part = "sink" /\ SinkNext
     /\ UNCHANGED <<part, ringVars, errorVars, streamVars,
                    updateVars, syncVars, companionVars, certVars, wintunVars, svcVars>>
  \/ /\ part = "ring" /\ RingNext
     /\ UNCHANGED <<part, sinkVars, errorVars, streamVars,
                    updateVars, syncVars, companionVars, certVars, wintunVars, svcVars>>
  \/ /\ part = "error" /\ ErrorNext
     /\ UNCHANGED <<part, sinkVars, ringVars, streamVars,
                    updateVars, syncVars, companionVars, certVars, wintunVars, svcVars>>
  \/ /\ part = "stream" /\ StreamNext
     /\ UNCHANGED <<part, sinkVars, ringVars, errorVars,
                    updateVars, syncVars, companionVars, certVars, wintunVars, svcVars>>
  \/ /\ part = "companion" /\ CompanionNext
     /\ UNCHANGED <<part, updateVars, syncVars, loggerVars, certVars, wintunVars, svcVars>>
  \/ /\ part = "cert" /\ CertNext
     \* Callers meet in the files: the second one signs for a host or generates them again.
     /\ certCall'[c2].op \in {NoCertCall.op, "host", "generate"}
     /\ UNCHANGED <<part, updateVars, syncVars, loggerVars, companionVars, wintunVars, svcVars>>
  \/ /\ part = "wintun" /\ WintunNext
     /\ UNCHANGED <<part, updateVars, syncVars, loggerVars, companionVars, certVars, svcVars>>
  \/ /\ part = "service" /\ SvcNext
     /\ UNCHANGED <<part, updateVars, syncVars, loggerVars, companionVars, certVars, wintunVars>>

Spec == Init /\ [][Next]_<<part, updateVars, syncVars, loggerVars, companionVars, certVars,
                           wintunVars, svcVars>>
=============================================================================
