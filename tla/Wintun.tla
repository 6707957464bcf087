------------------------------- MODULE Wintun -------------------------------
(***************************************************************************)
(* The Wintun driver that TUN mode needs on Windows                        *)
(* (app/http/services/wintun_dependency_windows.go): a controller with one *)
(* status under one mutex, the calls that read it (the status page and     *)
(* RunService) and the installation in the background, which holds the     *)
(* mutex only to report its progress.                                      *)
(***************************************************************************)
EXTENDS Naturals

CONSTANT MaxInstalls    \* bound: installations started

ASSUME WintunAssumption == MaxInstalls \in Nat \ {0}

VARIABLES
  wintun,      \* the status: [installing, available, state, code]
  installer,   \* per installation: where its goroutine stands
  dll,         \* wintun.dll is in the system directory
  tempFiles,   \* of {"direct", "archive", "extracted"}: what lies in the cache directory
  isRoot, hasMirror       \* rigid: setup.IsRoot(); the architecture has a mirror URL

wintunVars == <<wintun, installer, dll, tempFiles, isRoot, hasMirror>>

Installs == 1..MaxInstalls
Running == {i \in Installs : installer[i] \notin {"none", "ended"}}
KeepHost == UNCHANGED <<isRoot, hasMirror>>

States == {"checking", "queued", "downloading", "extracting", "installing", "installed",
           "missing", "failed"}
Codes == {"", "uac_cancelled", "install_failed", "verification_failed"}

-----------------------------------------------------------------------------

\* Looked for in System32 and SysWOW64.
detectInstalledWintun == dll

refreshLocked(w) ==
  [w EXCEPT !.available = detectInstalledWintun,
            !.state = IF detectInstalledWintun THEN "installed" ELSE IF w.installing THEN w.state ELSE "missing",
            !.code = IF dll \/ ~w.installing THEN "" ELSE w.code]

updateProgress(state) ==
  wintun' = [installing |-> TRUE, available |-> FALSE, state |-> state, code |-> ""]

\* Status and Refresh, from the status page and from RunService.
Refresh ==
  /\ wintun' = IF wintun.installing THEN wintun ELSE refreshLocked(wintun)
  /\ UNCHANGED <<installer, dll, tempFiles>> /\ KeepHost

Queued(i) ==
  /\ installer[i] = "none" /\ \A j \in Installs : j < i => installer[j] # "none"
  /\ installer' = [installer EXCEPT ![i] = "begin"]
  /\ wintun' = [installing |-> TRUE, available |-> FALSE, state |-> "queued", code |-> ""]

\* Variant for checking the properties: the call does not look whether an installation runs.
StartInstallAgain ==
  /\ \/ dll /\ wintun' = refreshLocked(wintun) /\ UNCHANGED installer
     \/ ~dll /\ \E i \in Installs : Queued(i)
  /\ UNCHANGED <<dll, tempFiles>> /\ KeepHost

StartInstall ==
  /\ \/ wintun.installing /\ UNCHANGED <<wintun, installer>>
     \/ ~wintun.installing /\ dll /\ wintun' = refreshLocked(wintun) /\ UNCHANGED installer
     \/ ~wintun.installing /\ ~dll /\ \E i \in Installs : Queued(i)
  /\ UNCHANGED <<dll, tempFiles>> /\ KeepHost

-----------------------------------------------------------------------------
(* installWintun                                                           *)

Goes(i, from, to) == installer[i] = from /\ installer' = [installer EXCEPT ![i] = to]

\* The directories are resolved, then the driver is looked for; the architecture may have no mirror.
BeginInstall(i) ==
  /\ \/ Goes(i, "begin", "install_failed") /\ UNCHANGED wintun
     \/ detectInstalledWintun /\ Goes(i, "begin", "ok") /\ updateProgress("installed")
     \/ ~detectInstalledWintun /\ hasMirror /\ Goes(i, "begin", "mirror") /\ updateProgress("downloading")
     \/ ~detectInstalledWintun /\ ~hasMirror /\ Goes(i, "begin", "download") /\ updateProgress("downloading")
  /\ UNCHANGED <<dll, tempFiles>> /\ KeepHost

MirrorDownload(i) ==
  /\ \/ /\ Goes(i, "mirror", "copyDirect") /\ updateProgress("installing")
        /\ tempFiles' = tempFiles \union {"direct"}
     \/ Goes(i, "mirror", "again") /\ updateProgress("downloading") /\ UNCHANGED tempFiles
  /\ UNCHANGED dll /\ KeepHost

\* What a failed copy leaves: copyFile removes the old file before it renames the new one; an
\* elevated copy may be done although its exit code could not be read.
copyFile == isRoot /\ dll' \in {dll, FALSE}
copyFileElevated == ~isRoot /\ dll' \in {dll, TRUE}

\* The failure of the mirror's copy is only logged.
MirrorInstall(i) ==
  /\ \/ Goes(i, "copyDirect", "ok") /\ dll' = TRUE /\ UNCHANGED wintun
     \/ /\ Goes(i, "copyDirect", "again") /\ updateProgress("downloading")
        /\ copyFile \/ copyFileElevated
  /\ UNCHANGED tempFiles /\ KeepHost

DetectAgain(i) ==
  /\ \/ detectInstalledWintun /\ Goes(i, "again", "ok") /\ updateProgress("installed")
     \/ ~detectInstalledWintun /\ Goes(i, "again", "download") /\ updateProgress("downloading")
  /\ UNCHANGED <<dll, tempFiles>> /\ KeepHost

Download(i) ==
  /\ \/ /\ Goes(i, "download", "extract") /\ updateProgress("extracting")
        /\ tempFiles' = tempFiles \union {"archive"}
     \/ Goes(i, "download", "install_failed") /\ UNCHANGED <<wintun, tempFiles>>
  /\ UNCHANGED dll /\ KeepHost

\* A failed extraction leaves what it had written.
extractZipArchive(i) ==
  /\ \/ /\ Goes(i, "extract", "copy") /\ updateProgress("installing")
        /\ "archive" \in tempFiles /\ tempFiles' = tempFiles \union {"extracted"}
     \/ /\ Goes(i, "extract", "install_failed") /\ UNCHANGED wintun
        /\ tempFiles' \in {tempFiles, tempFiles \union {"extracted"}}
  /\ UNCHANGED dll /\ KeepHost

installWintunDLL(i) ==
  /\ \/ Goes(i, "copy", "ok") /\ "extracted" \in tempFiles /\ dll' = TRUE
     \/ Goes(i, "copy", "install_failed") /\ (copyFile \/ copyFileElevated)
     \/ ~isRoot /\ Goes(i, "copy", "uac_cancelled") /\ UNCHANGED dll
  /\ UNCHANGED <<wintun, tempFiles>> /\ KeepHost

\* The end of install: the deferred removals, each of which may fail, then the outcome.
InstallEnds(i) ==
  /\ installer[i] \in {"ok", "install_failed", "uac_cancelled"}
  /\ installer' = [installer EXCEPT ![i] = "ended"]
  /\ wintun' = [installing |-> FALSE,
                available |-> installer[i] = "ok" /\ dll,
                state |-> IF installer[i] = "ok" /\ dll THEN "installed" ELSE "failed",
                code |-> IF installer[i] # "ok" THEN installer[i]
                         ELSE IF dll THEN "" ELSE "verification_failed"]
  /\ tempFiles' \in SUBSET tempFiles
  /\ UNCHANGED dll /\ KeepHost

-----------------------------------------------------------------------------

\* Another program brings or removes the driver.
Elsewhere == dll' = ~dll /\ UNCHANGED <<wintun, installer, tempFiles>> /\ KeepHost

\* The process ends and starts again; a copy may be cut off between the removal and the rename.
Crash ==
  /\ Running # {}
  /\ \/ UNCHANGED dll
     \/ isRoot /\ dll' = FALSE /\ \E i \in Running : installer[i] \in {"copyDirect", "copy"}
  /\ installer' = [i \in Installs |-> IF i \in Running THEN "ended" ELSE installer[i]]
  /\ wintun' = [installing |-> FALSE, available |-> dll',
                state |-> IF dll' THEN "installed" ELSE "missing", code |-> ""]
  /\ UNCHANGED tempFiles /\ KeepHost

WintunInit ==
  /\ dll \in BOOLEAN /\ isRoot \in BOOLEAN /\ hasMirror \in BOOLEAN
  /\ installer = [i \in Installs |-> "none"]
  /\ tempFiles = {}
  /\ wintun = [installing |-> FALSE, available |-> dll,
               state |-> IF dll THEN "installed" ELSE "missing", code |-> ""]

WintunNext ==
  \/ Refresh \/ StartInstall \/ Elsewhere \/ Crash
  \/ \E i \in Installs :
       \/ BeginInstall(i) \/ MirrorDownload(i) \/ MirrorInstall(i) \/ DetectAgain(i)
       \/ Download(i) \/ extractZipArchive(i) \/ installWintunDLL(i) \/ InstallEnds(i)

WintunSpec == WintunInit /\ [][WintunNext]_wintunVars

-----------------------------------------------------------------------------

\* Types of the status, of the installations and of the files.
WintunTypeOK ==
  /\ wintun \in [installing : BOOLEAN, available : BOOLEAN, state : States, code : Codes]
  /\ installer \in [Installs -> {"none", "begin", "mirror", "copyDirect", "again", "download",
                                 "extract", "copy", "ok", "install_failed", "uac_cancelled", "ended"}]
  /\ tempFiles \subseteq {"direct", "archive", "extracted"}
  /\ {dll, isRoot, hasMirror} \subseteq BOOLEAN

\* The status says that an installation runs exactly while one goroutine runs it, never two (they
\* share the files of the cache directory and the destination): after every failure, cancelled
\* elevation, fallback and restart TUN mode can be asked for again, and never meanwhile.
InstallTracked ==
  IF wintun.installing THEN \E i \in Installs : Running = {i} ELSE Running = {}
=============================================================================
