---------------------------- MODULE Certificates ----------------------------
(***************************************************************************)
(* The certificates of the client: their files (processor/cert/generator), *)
(* the trust store of the operating system (processor/cert/installer), the *)
(* signing certificate and the host certificates in memory                 *)
(* (processor/cert/client) and the calls of the API on them                *)
(* (app/http/services/cert_service.go).                                    *)
(*                                                                         *)
(* A certificate is its serial number; its key has the same number.  A     *)
(* certificate file is 0 when absent and Torn between os.Create and the    *)
(* write.  No lock covers the test for the file, the generation and the    *)
(* load: each is a step of its own.                                        *)
(***************************************************************************)
EXTENDS Naturals, FiniteSets

CONSTANTS
  CertCallers,  \* goroutines: API requests and intercepted connections
  CertTypes,    \* "mitm-ca" and others
  Hosts,
  MaxSerial,    \* bound: certificates generated
  StoreLimit    \* bound: nothing is installed once the store has so many

ASSUME CertAssumption == MaxSerial \in Nat \ {0} /\ "mitm-ca" \in CertTypes

Serials == 1..MaxSerial
Torn == MaxSerial + 1     \* a file with nothing in it
NotPem == MaxSerial + 2   \* bytes that pem.Decode refuses: a DER certificate

VARIABLES
  osName,       \* "darwin" | "linux" | "windows"
  certFile, keyFile,      \* per type
  serial,       \* certificates generated so far
  store,        \* {<<place, type, serial>>}: what the system trusts, and where
  defaultCertificate,     \* [cert, key]; cert = 0 before the first load
  certCache,    \* per host: [chain, signer]; chain = 0 for none
  certCall      \* per goroutine: [op, at, type, host, mine, bytes]

certVars == <<osName, certFile, keyFile, serial, store, defaultCertificate, certCache, certCall>>

NoCertCall == [op |-> "none", at |-> "idle", type |-> "mitm-ca", host |-> CHOOSE h \in Hosts : TRUE,
           mine |-> 0, bytes |-> 0]

At(c, p) == certCall[c].at = p
Goto(c, p) == certCall' = [certCall EXCEPT ![c].at = p]
Finished(c) == certCall' = [certCall EXCEPT ![c] = NoCertCall]
KeepFiles == UNCHANGED <<osName, certFile, keyFile, serial>>
KeepMemory == UNCHANGED <<defaultCertificate, certCache>>

-----------------------------------------------------------------------------
(* GenerateCertificateFromConfig: the certificate file, then the key file. *)

CreateCertFile(c) ==
  /\ At(c, "create") /\ serial < MaxSerial
  /\ \/ /\ serial' = serial + 1
        /\ certFile' = [certFile EXCEPT ![certCall[c].type] = Torn]
        /\ certCall' = [certCall EXCEPT ![c].at = "encode", ![c].mine = serial + 1]
     \/ Finished(c) /\ UNCHANGED <<serial, certFile>>
  /\ UNCHANGED <<osName, keyFile, store>> /\ KeepMemory

EncodeCert(c) ==
  /\ At(c, "encode")
  /\ \/ certFile' = [certFile EXCEPT ![certCall[c].type] = certCall[c].mine] /\ Goto(c, "key")
     \/ Finished(c) /\ UNCHANGED certFile
  /\ UNCHANGED <<osName, keyFile, serial, store>> /\ KeepMemory

\* What follows the generation for each caller.
AfterGeneration(call) ==
  CASE call.op = "generate" -> "done"
    [] call.op \in {"export", "install"} -> "act"
    [] OTHER -> IF call.type = "mitm-ca" THEN "load" ELSE "read"

WriteKey(c) ==
  /\ At(c, "key")
  /\ \/ /\ keyFile' = [keyFile EXCEPT ![certCall[c].type] = certCall[c].mine]
        /\ Goto(c, AfterGeneration(certCall[c]))
     \/ Finished(c) /\ UNCHANGED keyFile
  /\ UNCHANGED <<osName, certFile, serial, store>> /\ KeepMemory

-----------------------------------------------------------------------------
(* The certificate in memory.                                              *)

\* Variant for checking the properties: the two files are loaded without comparing them.
LoadX509KeyPairUnchecked(t) ==
  IF {certFile[t], keyFile[t]} \subseteq Serials
    THEN {[cert |-> certFile[t], key |-> keyFile[t]]} ELSE {}

\* tls.LoadX509KeyPair refuses a key that is not the certificate's.
LoadX509KeyPair(t) ==
  IF certFile[t] \in Serials /\ keyFile[t] = certFile[t]
    THEN {[cert |-> certFile[t], key |-> keyFile[t]]} ELSE {}

\* LoadMitmCACertificate, first lines: memory, or a file that exists, or a new one.
LoadMitmCACertificate(c) ==
  /\ At(c, "loadmem")
  /\ Goto(c, CASE defaultCertificate.cert # 0 -> "loaded"
               [] certFile["mitm-ca"] = 0 -> "create"
               [] OTHER -> "load")
  /\ KeepFiles /\ KeepMemory /\ UNCHANGED store

LoadFiles(c) ==
  /\ At(c, "load")
  /\ LET pairs == LoadX509KeyPair("mitm-ca") IN
       \/ \E p \in pairs : defaultCertificate' = p /\ Goto(c, "loaded")
       \/ pairs = {} /\ Finished(c) /\ UNCHANGED defaultCertificate
  /\ KeepFiles /\ UNCHANGED <<store, certCache>>

\* The caller of the load goes on: a host certificate is signed; getMitmCACert
\* hands on the DER bytes of the chain.
Loaded(c) ==
  /\ At(c, "loaded")
  /\ certCall' = [certCall EXCEPT ![c].at = IF certCall[c].op = "host" THEN "sign" ELSE "act",
                                  ![c].bytes = NotPem]
  /\ KeepFiles /\ KeepMemory /\ UNCHANGED store

\* creatCertForHost after the load: sign, build the chain, remember.
creatCertForHost(c) ==
  /\ At(c, "sign")
  /\ certCache' = [certCache EXCEPT ![certCall[c].host] =
                     [chain |-> defaultCertificate.cert, signer |-> defaultCertificate.key]]
  /\ Finished(c)
  /\ KeepFiles /\ UNCHANGED <<store, defaultCertificate>>

-----------------------------------------------------------------------------
(* The installers.  A place is a store or directory of the system.         *)

Places == CASE osName = "darwin" -> {"keychain"}
            [] osName = "linux" -> {"system", "user"}
            [] osName = "windows" -> {"CurrentUser", "LocalMachine"}

\* macOS: every type has the common name of every other, and only the name is compared.
DarwinIsInstalled == store # {}

\* Linux: the file in the user's directory.  The system bundle is searched for a
\* fingerprint in hexadecimal, which its PEM text does not contain.
LinuxIsInstalled(t, b) == <<"user", t, b>> \in store

\* Windows: the thumbprint, in either store; nothing to compare if the bytes are not PEM.
findWindowsInstalledStore(t, b) == \E p \in Places : <<p, t, b>> \in store

IsInstalled(t, b) ==
  CASE osName = "darwin" -> DarwinIsInstalled
    [] osName = "linux" -> LinuxIsInstalled(t, b)
    [] osName = "windows" -> findWindowsInstalledStore(t, b)

\* macOS trusts what it has; Linux looks for the fingerprint; Windows trusts the
\* root store, and no client certificate.
GetTrustStatus(t, b) ==
  CASE ~IsInstalled(t, b) -> "not_found"
    [] osName = "darwin" \/ (osName = "windows" /\ t # "mtls-cert") -> "system_trusted"
    [] OTHER -> "installed_not_trusted"

\* "open" shows the certificate to the user, who may add it to the keychain.
DarwinInstall(t, b) == {store} \cup {store \cup {<<"keychain", t, n>>} : n \in {b} \cap Serials}

\* A file of the name is replaced.
Placed(p, t, b) == {e \in store : e[1] # p \/ e[2] # t} \cup {<<p, t, b>>}

\* Copied with sudo; the update of the bundle may fail after the copy, and then
\* the user's directory gets the certificate too.
LinuxInstall(t, b) ==
  {Placed("system", t, b), Placed("user", t, b),
   Placed("system", t, b) \cup {<<"user", t, b>>}, store}

\* Three ways for each of two stores, until one works.
WindowsInstall(t, b) ==
  {store} \cup {store \cup {<<p, t, n>>} : p \in Places, n \in {b} \cap Serials}

Install(t, b) ==
  CASE osName = "darwin" -> DarwinInstall(t, b)
    [] osName = "linux" -> LinuxInstall(t, b)
    [] osName = "windows" -> WindowsInstall(t, b)

\* By name: any of the certificates may go.
DarwinRemove == {store} \cup {store \ {e} : e \in store}

\* The system's file, or else the user's.
LinuxRemove(t) ==
  LET of(p) == {e \in store : e[1] = p /\ e[2] = t} IN
  {store} \cup {store \ of(p) : p \in Places}

\* Every store that can be opened; the call succeeds whatever happens.
WindowsRemove(t, b) ==
  {store \ {<<p, t, b>> : p \in opened} : opened \in SUBSET Places}

RemoveFromStores(t, b) ==
  CASE osName = "darwin" -> DarwinRemove
    [] osName = "linux" -> LinuxRemove(t)
    [] osName = "windows" -> WindowsRemove(t, b)

-----------------------------------------------------------------------------
(* The requests.                                                           *)

\* ExportCert: a file that exists is the certificate.
ExportCert(t) == IF certFile[t] # 0 THEN "act" ELSE "create"

\* getCertBytes: the file, or what the type does without one.
getCertBytes(t) ==
  CASE certFile[t] # 0 -> "read" [] t = "mitm-ca" -> "loadmem" [] OTHER -> "create"

CertRequest(c) ==
  /\ At(c, "idle")
  /\ \E op \in {"status", "download", "remove", "export", "install", "generate"}, t \in CertTypes :
       certCall' = [certCall EXCEPT ![c] =
         [NoCertCall EXCEPT !.op = op, !.type = t,
            !.at = CASE op \in {"export", "install"} -> ExportCert(t)
                     [] op = "generate" -> "create"
                     [] OTHER -> getCertBytes(t)]]
  /\ KeepFiles /\ KeepMemory /\ UNCHANGED store

\* CreateTlsConfigForHost for an intercepted connection.
CreateTlsConfigForHost(c) ==
  /\ At(c, "idle")
  /\ \E h \in Hosts :
       /\ certCache[h].chain = 0
       /\ certCall' = [certCall EXCEPT ![c] =
            [NoCertCall EXCEPT !.op = "host", !.host = h, !.at = "loadmem"]]
  /\ KeepFiles /\ KeepMemory /\ UNCHANGED store

\* os.ReadFile of the certificate.
ReadCert(c) ==
  /\ At(c, "read")
  /\ IF certFile[certCall[c].type] = 0 THEN Finished(c)
     ELSE certCall' = [certCall EXCEPT ![c].at = "act", ![c].bytes = certFile[certCall[c].type]]
  /\ KeepFiles /\ KeepMemory /\ UNCHANGED store

Statuses == {"not_found", "system_trusted", "installed_not_trusted"}

GetCertStatus(c) ==
  /\ At(c, "act") /\ certCall[c].op = "status"
  /\ Goto(c, GetTrustStatus(certCall[c].type, certCall[c].bytes))
  /\ KeepFiles /\ KeepMemory /\ UNCHANGED store

\* An installed certificate is sent as it was read, another one is read again
\* from the file: the export finds one, since reading the bytes has made it.
DownloadCert(c) ==
  /\ At(c, "act") /\ certCall[c].op = "download"
  /\ Finished(c)
  /\ KeepFiles /\ KeepMemory /\ UNCHANGED store

InstallCert(c) ==
  /\ At(c, "act") /\ certCall[c].op = "install" /\ Cardinality(store) < StoreLimit
  /\ \E r \in Install(certCall[c].type, certFile[certCall[c].type]) :
       store' = r /\ Finished(c)
  /\ KeepFiles /\ KeepMemory

RemoveCert(c) ==
  /\ At(c, "act") /\ certCall[c].op = "remove"
  /\ \E r \in RemoveFromStores(certCall[c].type, certCall[c].bytes) :
       store' = r /\ Finished(c)
  /\ KeepFiles /\ KeepMemory

EndRequest(c) ==
  /\ certCall[c].at \in {"done"} \cup Statuses \/ (At(c, "act") /\ certCall[c].op = "export")
  /\ Finished(c)
  /\ KeepFiles /\ KeepMemory /\ UNCHANGED store

\* The process ends, possibly between two writes, and is started again.
CertRestart ==
  /\ defaultCertificate' = [cert |-> 0, key |-> 0]
  /\ certCache' = [h \in Hosts |-> [chain |-> 0, signer |-> 0]]
  /\ certCall' = [c \in CertCallers |-> NoCertCall]
  /\ KeepFiles /\ UNCHANGED store

-----------------------------------------------------------------------------

CertInit ==
  /\ osName \in {"darwin", "linux", "windows"}
  /\ certFile = [t \in CertTypes |-> 0] /\ keyFile = [t \in CertTypes |-> 0]
  /\ serial = 0 /\ store = {}
  /\ defaultCertificate = [cert |-> 0, key |-> 0]
  /\ certCache = [h \in Hosts |-> [chain |-> 0, signer |-> 0]]
  /\ certCall = [c \in CertCallers |-> NoCertCall]

CertNext ==
  \/ CertRestart
  \/ \E c \in CertCallers :
       \/ CertRequest(c) \/ CreateTlsConfigForHost(c) \/ ReadCert(c)
       \/ CreateCertFile(c) \/ EncodeCert(c) \/ WriteKey(c)
       \/ LoadMitmCACertificate(c) \/ LoadFiles(c) \/ Loaded(c) \/ creatCertForHost(c)
       \/ GetCertStatus(c) \/ DownloadCert(c) \/ InstallCert(c) \/ RemoveCert(c) \/ EndRequest(c)

CertSpec == CertInit /\ [][CertNext]_certVars

CertTypeOK ==
  /\ certFile \in [CertTypes -> 0..Torn] /\ keyFile \in [CertTypes -> 0..MaxSerial]
  /\ serial \in 0..MaxSerial
  /\ store \subseteq ({"keychain", "system", "user", "CurrentUser", "LocalMachine"}
                        \X CertTypes \X (1..NotPem))

\* LoadMitmCACertificate and creatCertForHost: a host certificate that a client
\* is shown is signed with the key of the certificate that follows it in the
\* chain, whatever two generations and a crash between two writes have left in
\* the files; and nothing is signed before there is such a certificate.
LeafSignedByChain ==
  /\ \A h \in Hosts : certCache[h].signer = certCache[h].chain
  /\ \A c \in CertCallers : At(c, "sign") => defaultCertificate.cert \in Serials
=============================================================================
