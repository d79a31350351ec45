----------------------------- MODULE ScanVerdict -----------------------------
(***************************************************************************)
(* What scan_version decides about the files of one app: the answers of    *)
(* the antivirus engines, the checks of the format and of the signature,   *)
(* and for an APK its package and its signing certificate, compared with   *)
(* the app and with the versions validated before.  Scanning models when   *)
(* scans run; here any stored version may be next.                         *)
(*                                                                         *)
(*   worker: idle -> antivirus -> static -> [app -> previous ->] verdict   *)
(*           -> [package ->] idle                                          *)
(***************************************************************************)
EXTENDS FiniteSets, Integers

CONSTANTS
  Versions,         \* version codes
  Files,            \* the files that are uploaded: see File
  Engines,          \* antivirus engines that are configured
  Packages, Certificates, NoPackage, NoFile, NoJob,
  EditsDuringScan   \* the listing may be edited while a scan runs

ASSUME VersionsAssumption == Versions \subseteq Nat /\ IsFiniteSet(Versions)
ASSUME PackagesAssumption == NoPackage \notin Packages

(***************************************************************************)
(* What there is to find in a file.  detectedBy: the engines that take it  *)
(* for a threat.  certificates: the fingerprints of the certificates that  *)
(* an APK is signed with, none when it is not signed.  signature: what     *)
(* Authenticode finds in an EXE or an MSI.                                 *)
(***************************************************************************)
Signature == {"valid", "untrusted", "unverifiable", "tampered", "unsigned"}

File == [format : {"apk", "exe", "msi", "other"}, magic : BOOLEAN, readable : BOOLEAN,
         package : Packages, certificates : SUBSET Certificates,
         signature : Signature, detectedBy : SUBSET Engines]

ASSUME FilesAssumption ==
  Files \subseteq File /\ NoFile \notin Files /\ \A C \in SUBSET Certificates : NoFile # C
ASSUME NoJobAssumption == NoJob \notin [version : Versions, errors : BOOLEAN]

VARIABLES
  settings,    \* scan_require_antivirus and require_authenticode
  file,        \* file of each version, NoFile before its upload
  scan,        \* security_scan_status
  info,        \* apk_info: the certificates found in the APK
  package,     \* android_package of the app
  worker, job, \* step of the scan, and what it has found so far
  antivirus,   \* history: what the engines said in the scan that let it pass
  agreed       \* history: APKs validated since the package was last edited

scanVars    == <<file, scan, info>>
verdictVars == <<settings, scanVars, package, worker, job, antivirus, agreed>>

Answer == {"clean", "infected", "suspicious", "error"}

VerdictTypeOK ==
  /\ settings \in [antivirus : BOOLEAN, authenticode : BOOLEAN]
  /\ file \in [Versions -> Files \cup {NoFile}]
  /\ scan \in [Versions -> {"pending", "scanning", "passed", "failed"}]
  /\ info \in [Versions -> {NoFile} \cup SUBSET Certificates]
  /\ package \in Packages \cup {NoPackage}
  /\ worker \in {"idle", "antivirus", "static", "app", "previous", "verdict", "package"}
  /\ worker = "idle" <=> job = NoJob
  /\ job # NoJob => /\ job.errors \in BOOLEAN
                    /\ file[job.version] # NoFile
                    /\ worker \in {"antivirus", "static", "app", "previous", "verdict"}
                         => scan[job.version] \in {"scanning", "pending"}
  /\ antivirus \in [Versions -> {"nothing", "clean", "threat"}]
  /\ agreed \subseteq Versions

VerdictInit ==
  /\ settings \in [antivirus : BOOLEAN, authenticode : BOOLEAN]
  /\ file = [v \in Versions |-> NoFile]
  /\ scan = [v \in Versions |-> "pending"]
  /\ info = [v \in Versions |-> NoFile]
  /\ package = NoPackage
  /\ worker = "idle" /\ job = NoJob
  /\ antivirus = [v \in Versions |-> "nothing"]
  /\ agreed = {}

IsApk(v) == file[v] # NoFile /\ file[v].format = "apk"

Passed == {v \in Versions : scan[v] = "passed"}

-----------------------------------------------------------------------------
Step(at, errors) ==
  worker' = at /\ job' = [job EXCEPT !.errors = @ \/ errors]

\* Whatever its status: a rescan during a scan queues the version once more.
StartScan(v) ==
  /\ worker = "idle" /\ file[v] # NoFile
  /\ scan' = [scan EXCEPT ![v] = "scanning"]
  /\ worker' = "antivirus"
  /\ job' = [version |-> v, errors |-> FALSE]
  /\ antivirus' = [antivirus EXCEPT ![v] = "nothing"]
  /\ agreed' = agreed \ {v}
  /\ UNCHANGED <<settings, file, info, package>>

\* What an engine may say of a file; it may always be unreachable.
Says(e, f) == IF e \in f.detectedBy THEN {"infected", "suspicious", "error"} ELSE {"clean", "error"}

Threat(said) == \E e \in Engines : said[e] \in {"infected", "suspicious"}
Clean(said)  == \E e \in Engines : said[e] = "clean"

Heard(said) == IF Threat(said) THEN "threat" ELSE IF Clean(said) THEN "clean" ELSE "nothing"

\* Mutant of Antivirus: an engine that fails counts as one that ran.
AntivirusErrorsCount ==
  /\ worker = "antivirus"
  /\ \E said \in [Engines -> Answer] :
       /\ \A e \in Engines : said[e] \in Says(e, file[job.version])
       /\ antivirus' = [antivirus EXCEPT ![job.version] = Heard(said)]
       /\ Step("static", Threat(said) \/ (settings.antivirus /\ Engines = {}))
  /\ UNCHANGED <<settings, scanVars, package, agreed>>

\* One threat is enough to refuse; if an antivirus is required, one must have
\* found the file clean.
Antivirus ==
  /\ worker = "antivirus"
  /\ \E said \in [Engines -> Answer] :
       /\ \A e \in Engines : said[e] \in Says(e, file[job.version])
       /\ antivirus' = [antivirus EXCEPT ![job.version] = Heard(said)]
       /\ Step("static", Threat(said) \/ (settings.antivirus /\ ~Clean(said)))
  /\ UNCHANGED <<settings, scanVars, package, agreed>>

\* The file is not in the storage, or something unexpected is raised.
ScanRaises ==
  /\ worker \in {"antivirus", "static", "app", "previous"}
  /\ Step("verdict", TRUE)
  /\ UNCHANGED <<settings, scanVars, package, antivirus, agreed>>

\* An EXE or an MSI changed after it was signed is refused; the signature of an
\* MSI is never required.
RefusedSignature(f) ==
  \/ f.signature = "tampered"
  \/ settings.authenticode /\ f.format = "exe" /\ f.signature # "valid"

\* _run_static: an APK whose manifest can be read goes on to its consistency.
StaticAnalysis ==
  /\ worker = "static"
  /\ LET f == file[job.version]
     IN \/ ~f.magic /\ Step("verdict", TRUE)
        \/ f.magic /\ f.format = "apk" /\ ~f.readable /\ Step("verdict", TRUE)
        \/ f.magic /\ f.format = "apk" /\ f.readable /\ Step("app", f.certificates = {})
        \/ f.magic /\ f.format \in {"exe", "msi"} /\ Step("verdict", RefusedSignature(f))
        \/ f.magic /\ f.format = "other" /\ Step("verdict", FALSE)
  /\ UNCHANGED <<settings, scanVars, package, antivirus, agreed>>

\* Mutant of CheckPackage: any package is accepted.
CheckNoPackage ==
  /\ worker = "app"
  /\ Step("previous", FALSE)
  /\ UNCHANGED <<settings, scanVars, package, antivirus, agreed>>

\* _check_apk_consistency: the package of the app, ...
CheckPackage ==
  /\ worker = "app"
  /\ Step("previous", package # NoPackage /\ file[job.version].package # package)
  /\ UNCHANGED <<settings, scanVars, package, antivirus, agreed>>

\* Mutant of Validated: every APK analysed, whatever its verdict.
Analysed == {v \in Versions \ {job.version} : info[v] \notin {NoFile, {}}}

\* ... then the certificates of the validated APK with the highest version code:
\* sharing one of them is enough.
Validated == {v \in Passed \ {job.version} : info[v] \notin {NoFile, {}}}

CheckCertificate ==
  /\ worker = "previous"
  /\ LET known == Validated
     IN Step("verdict",
             \E v \in known : /\ \A w \in known : w <= v
                              /\ info[v] \cap file[job.version].certificates = {})
  /\ UNCHANGED <<settings, scanVars, package, antivirus, agreed>>

\* apk_info is written with the verdict whenever the manifest was read.
WriteVerdict ==
  /\ worker = "verdict"
  /\ LET v == job.version
         read == IsApk(v) /\ file[v].magic /\ file[v].readable
     IN /\ scan' = [scan EXCEPT ![v] = IF job.errors THEN "failed" ELSE "passed"]
        /\ \/ read /\ info' = [info EXCEPT ![v] = file[v].certificates]
           \/ (~read \/ job.errors) /\ UNCHANGED info
        /\ antivirus' = IF job.errors THEN [antivirus EXCEPT ![v] = "nothing"] ELSE antivirus
        /\ IF ~job.errors /\ IsApk(v)
           THEN Step("package", FALSE) /\ agreed' = agreed \cup {v}
           ELSE worker' = "idle" /\ job' = NoJob /\ UNCHANGED agreed
  /\ UNCHANGED <<settings, file, package>>

\* "The first validated APK sets the app's android_package."
SetPackage ==
  /\ worker = "package"
  /\ package' = IF package = NoPackage THEN file[job.version].package ELSE package
  /\ worker' = "idle" /\ job' = NoJob
  /\ UNCHANGED <<settings, scanVars, antivirus, agreed>>

-----------------------------------------------------------------------------
Upload(v, f) ==
  /\ file[v] = NoFile
  /\ file' = [file EXCEPT ![v] = f]
  /\ UNCHANGED <<settings, scan, info, package, worker, job, antivirus, agreed>>

\* rescan_version: the report and apk_info stay until the next verdict.
Rescan(v) ==
  /\ file[v] # NoFile
  /\ scan' = [scan EXCEPT ![v] = "pending"]
  /\ agreed' = agreed \ {v}
  /\ antivirus' = IF scan[v] = "passed" THEN [antivirus EXCEPT ![v] = "nothing"] ELSE antivirus
  /\ UNCHANGED <<settings, file, info, package, worker, job>>

\* update_app, or the publication of a draft, which holds a package of its own.
EditPackage(p) ==
  /\ worker = "idle" \/ EditsDuringScan
  /\ package' = p /\ p # package
  /\ agreed' = {}
  /\ UNCHANGED <<settings, scanVars, worker, job, antivirus>>

\* The process stops, and its restart queues the interrupted version again.
StopAndRestart ==
  /\ worker # "idle"
  /\ scan' = [scan EXCEPT ![job.version] = IF @ = "scanning" THEN "pending" ELSE @]
  /\ agreed' = IF worker = "package" /\ package = NoPackage THEN agreed \ {job.version} ELSE agreed
  /\ antivirus' = [antivirus EXCEPT ![job.version] = IF worker = "package" THEN @ ELSE "nothing"]
  /\ worker' = "idle" /\ job' = NoJob
  /\ UNCHANGED <<settings, file, info, package>>

VerdictNext ==
  \/ \E v \in Versions : StartScan(v) \/ Rescan(v) \/ \E f \in Files : Upload(v, f)
  \/ Antivirus \/ ScanRaises \/ StaticAnalysis \/ CheckPackage \/ CheckCertificate
  \/ WriteVerdict \/ SetPackage
  \/ \E p \in Packages \cup {NoPackage} : EditPackage(p)
  \/ StopAndRestart

VerdictSpec == VerdictInit /\ [][VerdictNext]_verdictVars

-----------------------------------------------------------------------------
(***************************************************************************)
(* The antivirus requirement: where one is required, a version that has    *)
(* passed was found clean by an engine, and by no engine a threat, in the  *)
(* scan that let it pass (not in an earlier one).  With the types.         *)
(***************************************************************************)
PassedWasScanned ==
  /\ VerdictTypeOK
  /\ \A v \in Passed : /\ antivirus[v] # "threat"
                       /\ settings.antivirus => antivirus[v] = "clean"

\* Any two APKs uploaded for the app are signed with the same certificates, or
\* have none in common.
SignersApart ==
  \A v, w \in {x \in Versions : IsApk(x)} :
    LET common == file[v].certificates \cap file[w].certificates
    IN file[v].certificates = file[w].certificates \/ common = {}

(***************************************************************************)
(* Certificate continuity, for an app whose signers do not mix: all the    *)
(* APKs that are validated at the same time are signed, with the same      *)
(* certificates, whatever the order of uploads and rescans, although each  *)
(* is compared with one other only, and that one may be refused later.     *)
(* Where they mix it is false: one common certificate is enough to pass,   *)
(* which is not transitive.                                                *)
(***************************************************************************)
SameSigner ==
  SignersApart => \A v, w \in {x \in Passed : IsApk(x)} :
                    /\ file[v].certificates = file[w].certificates
                    /\ file[v].certificates # {}

(***************************************************************************)
(* The APKs validated since the package was last edited have the package   *)
(* of the app (the one whose scan stopped before it was recorded aside).   *)
(***************************************************************************)
PackagesAgree ==
  worker = "idle" => \A v \in agreed : file[v].package = package
=============================================================================
