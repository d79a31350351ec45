-------------------------- MODULE ScanVerdictProofs --------------------------
(***************************************************************************)
(* Proofs about ScanVerdict, for every set of versions, files, engines,    *)
(* packages and certificates.                                              *)
(***************************************************************************)
EXTENDS ScanVerdict, FiniteSetTheorems, TLAPS

\* What the antivirus must have said of a version that passes.
Unthreatened(v) ==
  antivirus[v] # "threat" /\ (settings.antivirus => antivirus[v] = "clean")

\* An APK whose manifest was read, and that is signed.
Signed(v) ==
  IsApk(v) => file[v].magic /\ file[v].readable /\ file[v].certificates # {}

\* As SameSigner: for an app whose signers do not mix.
SignedAs(j) ==
  SignersApart =>
    \A w \in Passed \ {j} : IsApk(w) => file[w].certificates = file[j].certificates

(***************************************************************************)
(* The strengthening.  What the scan has established of its version at     *)
(* each step, unless it has found an error; ...                            *)
(***************************************************************************)
JobAt(j, ok) ==
  /\ worker \in {"static", "app", "previous", "verdict"} /\ ok => Unthreatened(j)
  /\ worker \in {"app", "previous"} => IsApk(j)
  /\ worker \in {"app", "previous", "verdict"} /\ ok => Signed(j)
  /\ worker = "verdict" /\ ok /\ IsApk(j) => SignedAs(j)
  /\ worker = "package" => IsApk(j)

\* ... and what a version that passed keeps, apk_info included, with which the
\* next scans compare.
PassedAt(v) ==
  file[v] # NoFile /\ Unthreatened(v) /\ Signed(v)
    /\ (IsApk(v) => info[v] = file[v].certificates)

VerdictInv ==
  /\ VerdictTypeOK
  /\ job # NoJob => /\ job \in [version : Versions, errors : BOOLEAN]
                    /\ JobAt(job.version, ~job.errors)
  /\ \A v \in Passed : PassedAt(v)
  /\ \A v \in Versions : info[v] # NoFile => IsApk(v)
  /\ SameSigner

(***************************************************************************)
(* As long as the listing is not edited during a scan, the package of the  *)
(* app is the one the scan has compared with, or that it is about to set.  *)
(***************************************************************************)
PackageInv ==
  /\ \A v \in agreed : IsApk(v) /\ (package # NoPackage => file[v].package = package)
  /\ package = NoPackage => agreed \subseteq {v \in Versions : worker = "package" /\ v = job.version}
  /\ worker \in {"previous", "verdict"} /\ ~job.errors /\ IsApk(job.version)
       /\ package # NoPackage => file[job.version].package = package
  /\ worker = "package" /\ package # NoPackage => file[job.version].package = package

-----------------------------------------------------------------------------
(***************************************************************************)
(* A finite set of naturals that is not empty has a highest element: one   *)
(* of the sets "what is at least v" has no such set strictly inside it.    *)
(***************************************************************************)
LEMMA HighestExists ==
  ASSUME NEW K \in SUBSET Nat, IsFiniteSet(K), K # {}
  PROVE  \E v \in K : \A w \in K : w <= v
<1> DEFINE AtLeast(v) == {w \in K : v <= w}
           T == {U \in SUBSET K : \E v \in K : U = AtLeast(v)}
<1>1. T \subseteq FiniteSubsetsOf(K) /\ T # {}
  <2>1. PICK v \in K : TRUE
    OBVIOUS
  <2>2. AtLeast(v) \in T
    BY <2>1
  <2>3. QED
    BY <2>2, FS_FiniteSubsetsOfFinite
<1>2. IsWellFoundedOn(StrictSubsetOrdering(K), FiniteSubsetsOf(K))
  BY FS_StrictSubsetOrderingWellFounded
<1>3. PICK U \in T : \A X \in T : <<X, U>> \notin StrictSubsetOrdering(K)
  BY <1>1, <1>2, WFMin
<1>4. PICK v \in K : U = AtLeast(v)
  BY <1>3
<1>5. ASSUME NEW w \in K, ~(w <= v)
      PROVE  FALSE
  <2>1. AtLeast(w) \in T /\ AtLeast(w) \subseteq K /\ U \subseteq K
    BY <1>4
  <2>2. AtLeast(w) \subseteq U /\ v \in U /\ v \notin AtLeast(w)
    <3>1. v \in Nat /\ w \in Nat /\ v <= w /\ v <= v /\ ~(w <= v)
      BY <1>5
    <3>2. ASSUME NEW x \in K, w <= x
          PROVE  v <= x
      BY <3>1, <3>2
    <3>3. AtLeast(w) \subseteq AtLeast(v) /\ v \in AtLeast(v)
      BY <3>1, <3>2
    <3>4. v \notin AtLeast(w)
      BY <3>1
    <3>5. QED
      BY <1>4, <3>3, <3>4
  <2>3. <<AtLeast(w), U>> \in StrictSubsetOrdering(K)
    BY <2>1, <2>2 DEF StrictSubsetOrdering
  <2>4. QED
    BY <1>3, <2>1, <2>3
<1>6. QED
  BY <1>5

LEMMA FileType ==
  ASSUME VerdictTypeOK, NEW v \in Versions, IsApk(v)
  PROVE  file[v] \in File /\ file[v].certificates \in SUBSET Certificates
BY FilesAssumption DEF VerdictTypeOK, IsApk, File

(***************************************************************************)
(* Why comparing with one other APK is enough: the ones validated before   *)
(* agree among themselves, and apk_info holds what was read from each.     *)
(***************************************************************************)
LEMMA ComparedWithAll ==
  ASSUME VerdictInv, worker = "previous",
         ~ \E v \in Validated : /\ \A w \in Validated : w <= v
                                /\ info[v] \cap file[job.version].certificates = {}
  PROVE  SignedAs(job.version)
<1> SUFFICES ASSUME SignersApart, NEW w \in Passed \ {job.version}, IsApk(w)
             PROVE  file[w].certificates = file[job.version].certificates
  BY DEF SignedAs
<1>1. w \in Versions /\ PassedAt(w)
  BY DEF Passed, VerdictInv
<1>2. w \in Validated
  <2>1. info[w] \in SUBSET Certificates /\ info[w] # {}
    BY <1>1, FileType DEF VerdictInv, PassedAt, Signed
  <2>2. QED
    BY <2>1, FilesAssumption DEF Validated
<1>3. Validated \subseteq Versions /\ Validated \in SUBSET Nat /\ IsFiniteSet(Validated)
  BY VersionsAssumption, FS_Subset DEF Validated, Passed
<1>4. PICK v \in Validated : \A x \in Validated : x <= v
  BY <1>2, <1>3, HighestExists
<1>5. info[v] \cap file[job.version].certificates # {}
  BY <1>4
<1>6. v \in Passed /\ IsApk(v) /\ info[v] = file[v].certificates
  BY DEF Validated, Passed, VerdictInv, PassedAt
<1>7. file[w].certificates = file[v].certificates
  BY <1>6 DEF VerdictInv, SameSigner
<1>8. job.version \in Versions /\ IsApk(job.version)
  BY DEF VerdictInv, VerdictTypeOK, JobAt
<1>9. file[v].certificates = file[job.version].certificates
  BY <1>5, <1>6, <1>8 DEF SignersApart, Passed
<1>10. QED
  BY <1>7, <1>9

-----------------------------------------------------------------------------
(***************************************************************************)
(* The steps of a scan.                                                    *)
(***************************************************************************)

LEMMA InitVerdict == VerdictInit => VerdictInv
BY DEF VerdictInit, VerdictInv, VerdictTypeOK, SameSigner, Passed, IsApk

\* The signers of an app are those of the files uploaded for it.
LEMMA SignersFrame ==
  ASSUME UNCHANGED file
  PROVE  SignersApart' = SignersApart
BY DEF SignersApart, IsApk

\* What does not depend on the documents does not move with the worker.
LEMMA DocumentsFrame ==
  ASSUME UNCHANGED <<settings, scanVars, antivirus>>
  PROVE  /\ Passed' = Passed /\ SameSigner' = SameSigner
         /\ \A v \in Versions : /\ IsApk(v)' = IsApk(v)
                                /\ Signed(v)' = Signed(v)
                                /\ Unthreatened(v)' = Unthreatened(v)
                                /\ SignedAs(v)' = SignedAs(v)
                                /\ PassedAt(v)' = PassedAt(v)
BY DEF scanVars, Passed, SameSigner, SignersApart, IsApk, Signed, Unthreatened, SignedAs, PassedAt

\* A step that only moves the worker, to an analysis that is not over.
LEMMA StepKeeps ==
  ASSUME VerdictInv, worker \in {"antivirus", "static", "app", "previous"},
         NEW at \in {"static", "app", "previous", "verdict"}, NEW errors \in BOOLEAN,
         Step(at, errors), UNCHANGED <<settings, scanVars, package, antivirus, agreed>>,
         LET j == job.version IN LET ok == ~(job.errors \/ errors) IN
           /\ ok => Unthreatened(j)
           /\ at \in {"app", "previous"} => IsApk(j)
           /\ at \in {"app", "previous", "verdict"} /\ ok => Signed(j)
           /\ at = "verdict" /\ ok /\ IsApk(j) => SignedAs(j)
  PROVE  VerdictInv'
<1>1. /\ job \in [version : Versions, errors : BOOLEAN] /\ job # NoJob
      /\ scan[job.version] \in {"scanning", "pending"} /\ file[job.version] # NoFile
  BY DEF VerdictInv, VerdictTypeOK
<1>2. /\ job' \in [version : Versions, errors : BOOLEAN]
      /\ job'.version = job.version /\ job'.errors = (job.errors \/ errors)
  BY <1>1 DEF Step
<1>3. job' # NoJob /\ worker' = at
  BY <1>2, NoJobAssumption DEF Step
<1>4. VerdictTypeOK'
  BY <1>1, <1>2, <1>3 DEF VerdictInv, VerdictTypeOK, scanVars
<1>5. JobAt(job.version, ~job.errors)'
  BY <1>1, <1>2, <1>3, DocumentsFrame DEF JobAt
<1>6. \A v \in Passed' : PassedAt(v)'
  BY DocumentsFrame DEF VerdictInv, Passed
<1>7. \A v \in Versions : info'[v] # NoFile => IsApk(v)'
  BY DEF VerdictInv, IsApk, scanVars
<1>8. QED
  BY <1>2, <1>4, <1>5, <1>6, <1>7, DocumentsFrame DEF VerdictInv

LEMMA StartKeeps ==
  ASSUME VerdictInv, NEW v \in Versions, StartScan(v)
  PROVE  VerdictInv'
<1>1. /\ job' \in [version : Versions, errors : BOOLEAN] /\ job' # NoJob
      /\ job'.version = v /\ worker' = "antivirus"
  <2>1. /\ job' \in [version : Versions, errors : BOOLEAN]
        /\ job'.version = v /\ worker' = "antivirus"
    BY DEF StartScan
  <2>2. QED
    BY <2>1, NoJobAssumption
<1>2. scan' = [scan EXCEPT ![v] = "scanning"] /\ scan'[v] = "scanning"
  BY DEF StartScan, VerdictInv, VerdictTypeOK
<1>3. VerdictTypeOK'
  BY <1>1, <1>2 DEF StartScan, VerdictInv, VerdictTypeOK
<1>4. JobAt(job.version, ~job.errors)'
  BY <1>1 DEF JobAt
<1>5. ASSUME NEW w \in Passed'
      PROVE  w \in Passed /\ PassedAt(w)'
  <2>1. w \in Passed /\ w # v
    BY <1>2 DEF Passed, VerdictInv, VerdictTypeOK
  <2>2. antivirus'[w] = antivirus[w]
    BY <2>1 DEF StartScan, Passed, VerdictInv, VerdictTypeOK
  <2>3. QED
    BY <2>1, <2>2 DEF StartScan, VerdictInv, PassedAt, Unthreatened, Signed, IsApk
<1>6. \A w \in Versions : info'[w] # NoFile => IsApk(w)'
  BY DEF StartScan, VerdictInv, IsApk
<1>7. SameSigner'
  BY <1>5, SignersFrame DEF StartScan, VerdictInv, SameSigner, IsApk
<1>8. QED
  BY <1>1, <1>3, <1>4, <1>5, <1>6, <1>7 DEF VerdictInv

LEMMA AntivirusKeeps ==
  ASSUME VerdictInv, Antivirus
  PROVE  VerdictInv'
<1> DEFINE refused(said) == Threat(said) \/ (settings.antivirus /\ ~Clean(said))
<1> PICK said \in [Engines -> Answer] :
      /\ antivirus' = [antivirus EXCEPT ![job.version] = Heard(said)]
      /\ Step("static", refused(said))
  BY DEF Antivirus
<1>1. /\ job \in [version : Versions, errors : BOOLEAN] /\ job # NoJob
      /\ scan[job.version] \in {"scanning", "pending"} /\ file[job.version] # NoFile
  BY DEF Antivirus, VerdictInv, VerdictTypeOK
<1>2. /\ job' \in [version : Versions, errors : BOOLEAN]
      /\ job'.version = job.version
      /\ ~job'.errors => ~Threat(said) /\ (settings.antivirus => Clean(said))
  <2>1. /\ refused(said) \in BOOLEAN
        /\ ~refused(said) => ~Threat(said) /\ (settings.antivirus => Clean(said))
    OBVIOUS
  <2> HIDE DEF refused
  <2>2. /\ job' \in [version : Versions, errors : BOOLEAN]
        /\ job'.version = job.version /\ job'.errors = (job.errors \/ refused(said))
    BY <1>1, <2>1 DEF Step
  <2>3. QED
    BY <2>1, <2>2
<1>3. job' # NoJob /\ worker' = "static"
  BY <1>2, NoJobAssumption DEF Step
<1>4. Heard(said) \in {"nothing", "clean", "threat"}
  BY DEF Heard
<1>5. antivirus' \in [Versions -> {"nothing", "clean", "threat"}]
  BY <1>1, <1>4 DEF VerdictInv, VerdictTypeOK
<1>6. VerdictTypeOK'
  BY <1>1, <1>2, <1>3, <1>5 DEF Antivirus, VerdictInv, VerdictTypeOK, scanVars
<1>7. JobAt(job.version, ~job.errors)'
  <2>1. antivirus'[job.version] = Heard(said)
    BY <1>1 DEF VerdictInv, VerdictTypeOK
  <2>2. ~job'.errors => Unthreatened(job.version)'
    BY <1>1, <1>2, <2>1 DEF Heard, Unthreatened, Antivirus
  <2>3. QED
    BY <1>2, <1>3, <2>2 DEF JobAt
<1>8. ASSUME NEW w \in Passed'
      PROVE  w \in Passed /\ PassedAt(w)'
  <2>1. w \in Passed /\ w # job.version
    BY <1>1 DEF Antivirus, scanVars, Passed
  <2>2. antivirus'[w] = antivirus[w]
    BY <2>1 DEF Passed, VerdictInv, VerdictTypeOK
  <2>3. QED
    BY <2>1, <2>2 DEF Antivirus, scanVars, VerdictInv, PassedAt, Unthreatened, Signed, IsApk
<1>9. \A w \in Versions : info'[w] # NoFile => IsApk(w)'
  BY DEF Antivirus, scanVars, VerdictInv, IsApk
<1>10. SameSigner'
  BY <1>8, SignersFrame DEF Antivirus, scanVars, VerdictInv, SameSigner, IsApk
<1>11. QED
  BY <1>2, <1>6, <1>7, <1>8, <1>9, <1>10 DEF VerdictInv

LEMMA RaisesKeeps ==
  ASSUME VerdictInv, ScanRaises
  PROVE  VerdictInv'
BY StepKeeps DEF ScanRaises

LEMMA StaticKeeps ==
  ASSUME VerdictInv, StaticAnalysis
  PROVE  VerdictInv'
<1> DEFINE j == job.version
           f == file[j]
<1>1. /\ j \in Versions /\ job # NoJob /\ f # NoFile /\ f \in File
      /\ worker = "static" /\ (~job.errors => Unthreatened(j))
  BY FilesAssumption DEF StaticAnalysis, VerdictInv, VerdictTypeOK, JobAt
<1>2. UNCHANGED <<settings, scanVars, package, antivirus, agreed>>
  BY DEF StaticAnalysis
<1>3. CASE Step("verdict", TRUE)
  BY <1>1, <1>2, <1>3, StepKeeps
<1>4. CASE f.magic /\ f.format = "apk" /\ f.readable /\ Step("app", f.certificates = {})
  <2>1. IsApk(j) /\ (f.certificates # {} => Signed(j))
    BY <1>1, <1>4 DEF IsApk, Signed
  <2>2. QED
    BY <1>1, <1>2, <1>4, <2>1, StepKeeps
<1>5. CASE f.format \in {"exe", "msi"} /\ Step("verdict", RefusedSignature(f))
  <2>1. ~IsApk(j) /\ Signed(j)
    BY <1>5 DEF IsApk, Signed
  <2>2. RefusedSignature(f) \in BOOLEAN
    BY DEF RefusedSignature
  <2>3. QED
    BY <1>1, <1>2, <1>5, <2>1, <2>2, StepKeeps
<1>6. CASE f.format = "other" /\ Step("verdict", FALSE)
  <2>1. ~IsApk(j) /\ Signed(j)
    BY <1>6 DEF IsApk, Signed
  <2>2. QED
    BY <1>1, <1>2, <1>6, <2>1, StepKeeps
<1>7. QED
  BY <1>3, <1>4, <1>5, <1>6 DEF StaticAnalysis

LEMMA PackageCheckKeeps ==
  ASSUME VerdictInv, CheckPackage
  PROVE  VerdictInv'
<1>1. worker = "app" /\ job # NoJob /\ JobAt(job.version, ~job.errors)
  BY DEF CheckPackage, VerdictInv, VerdictTypeOK
<1>2. QED
  BY <1>1, StepKeeps DEF CheckPackage, JobAt

LEMMA CertificateCheckKeeps ==
  ASSUME VerdictInv, CheckCertificate
  PROVE  VerdictInv'
<1> DEFINE differs == \E v \in Validated : /\ \A w \in Validated : w <= v
                                           /\ info[v] \cap file[job.version].certificates = {}
<1>1. worker = "previous" /\ job # NoJob /\ JobAt(job.version, ~job.errors)
  BY DEF CheckCertificate, VerdictInv, VerdictTypeOK
<1>2. ~differs => SignedAs(job.version)
  BY <1>1, ComparedWithAll
<1>3. Step("verdict", differs) /\ UNCHANGED <<settings, scanVars, package, antivirus, agreed>>
  BY DEF CheckCertificate
<1>4. differs \in BOOLEAN
  OBVIOUS
<1> HIDE DEF differs
<1>5. QED
  BY <1>1, <1>2, <1>3, <1>4, StepKeeps DEF JobAt

-----------------------------------------------------------------------------
(***************************************************************************)
(* The end of a scan.                                                      *)
(***************************************************************************)

\* What a version that passes brings with it: what the scan established.
LEMMA PassKeeps ==
  ASSUME VerdictInv, WriteVerdict, ~job.errors
  PROVE  LET j == job.version IN
           /\ Passed' = Passed \cup {j} /\ j \notin Passed
           /\ SameSigner' /\ \A v \in Passed' : PassedAt(v)'
           /\ IsApk(j) => info' = [info EXCEPT ![j] = file[j].certificates]
<1> PICK j \in Versions : j = job.version
  BY DEF WriteVerdict, VerdictInv, VerdictTypeOK
<1>1. /\ job # NoJob /\ worker = "verdict" /\ file[j] # NoFile
      /\ Unthreatened(j) /\ Signed(j) /\ (IsApk(j) => SignedAs(j))
      /\ scan[j] \in {"scanning", "pending"}
  BY DEF WriteVerdict, VerdictInv, VerdictTypeOK, JobAt
<1>2. /\ scan' = [scan EXCEPT ![j] = "passed"] /\ antivirus' = antivirus
      /\ UNCHANGED <<settings, file, package>>
  BY DEF WriteVerdict
<1>3. Passed' = Passed \cup {j} /\ j \notin Passed
  BY <1>1, <1>2 DEF Passed, VerdictInv, VerdictTypeOK
<1>4. IsApk(j) => info' = [info EXCEPT ![j] = file[j].certificates]
  BY <1>1 DEF WriteVerdict, Signed
<1>5. ~IsApk(j) => info' = info
  BY DEF WriteVerdict
<1>6. /\ info'[j] = IF IsApk(j) THEN file[j].certificates ELSE info[j]
      /\ \A v \in Versions \ {j} : info'[v] = info[v]
  BY <1>1, <1>4, <1>5 DEF VerdictInv, VerdictTypeOK
<1>7. PassedAt(j)'
  BY <1>1, <1>2, <1>6 DEF PassedAt, Unthreatened, Signed, IsApk
<1>8. ASSUME NEW v \in Passed
      PROVE  PassedAt(v)'
  <2>1. v \in Versions \ {j} /\ PassedAt(v)
    BY <1>3 DEF Passed, VerdictInv
  <2>2. QED
    BY <1>2, <1>6, <2>1 DEF PassedAt, Unthreatened, Signed, IsApk
<1>9. SameSigner'
  <2>1. SignersApart => \A v \in Passed : IsApk(v) /\ IsApk(j)
                          => file[v].certificates = file[j].certificates
    BY <1>1, <1>3 DEF SignedAs
  <2>2. IsApk(j) => file[j].certificates # {}
    BY <1>1 DEF Signed
  <2>3. SameSigner
    BY DEF VerdictInv
  <2>4. /\ SignersApart' = SignersApart /\ UNCHANGED file
        /\ \A v \in Versions : IsApk(v)' = IsApk(v)
    BY <1>2, SignersFrame DEF IsApk
  <2>5. SUFFICES ASSUME SignersApart, NEW v \in Passed', NEW w \in Passed', IsApk(v), IsApk(w)
                 PROVE  /\ file[v].certificates = file[w].certificates
                        /\ file[v].certificates # {}
    BY <2>4 DEF SameSigner, Passed
  <2>6. v \in Passed \cup {j} /\ w \in Passed \cup {j}
    BY <1>3
  <2>7. v \in Passed /\ w \in Passed
          => /\ file[v].certificates = file[w].certificates
             /\ file[v].certificates # {}
    BY <2>3, <2>5 DEF SameSigner
  <2>8. QED
    BY <2>1, <2>2, <2>5, <2>6, <2>7
<1>10. QED
  BY <1>3, <1>4, <1>7, <1>8, <1>9

\* A refusal: nothing is added to what has passed.
LEMMA RefusalKeeps ==
  ASSUME VerdictInv, WriteVerdict, job.errors
  PROVE  Passed' = Passed /\ SameSigner' /\ \A v \in Passed' : PassedAt(v)'
<1> PICK j \in Versions : j = job.version
  BY DEF WriteVerdict, VerdictInv, VerdictTypeOK
<1>1. job # NoJob /\ scan[j] \in {"scanning", "pending"}
  BY DEF WriteVerdict, VerdictInv, VerdictTypeOK
<1>2. /\ scan' = [scan EXCEPT ![j] = "failed"] /\ antivirus' = [antivirus EXCEPT ![j] = "nothing"]
      /\ UNCHANGED <<settings, file, package>>
  BY DEF WriteVerdict
<1>3. Passed' = Passed /\ j \notin Passed
  BY <1>1, <1>2 DEF Passed, VerdictInv, VerdictTypeOK
<1>4. \A v \in Versions \ {j} : info'[v] = info[v]
  BY DEF WriteVerdict, VerdictInv, VerdictTypeOK
<1>5. ASSUME NEW v \in Passed
      PROVE  PassedAt(v)'
  <2>1. v \in Versions \ {j} /\ PassedAt(v)
    BY <1>3 DEF Passed, VerdictInv
  <2>2. antivirus'[v] = antivirus[v] /\ info'[v] = info[v]
    BY <1>2, <1>4, <2>1 DEF VerdictInv, VerdictTypeOK
  <2>3. QED
    BY <1>2, <2>1, <2>2 DEF PassedAt, Unthreatened, Signed, IsApk
<1>6. SameSigner'
  BY <1>2, <1>3, SignersFrame DEF VerdictInv, SameSigner, IsApk
<1>7. QED
  BY <1>3, <1>5, <1>6

LEMMA WriteKeeps ==
  ASSUME VerdictInv, WriteVerdict
  PROVE  VerdictInv'
<1> DEFINE j == job.version
           passes == ~job.errors /\ IsApk(j)
<1>1. /\ j \in Versions /\ job # NoJob /\ worker = "verdict" /\ file[j] # NoFile
      /\ job \in [version : Versions, errors : BOOLEAN]
  BY DEF WriteVerdict, VerdictInv, VerdictTypeOK
<1>2. UNCHANGED <<settings, file, package>>
  BY DEF WriteVerdict
<1>3. /\ passes => worker' = "package" /\ job' \in [version : Versions, errors : BOOLEAN]
                    /\ job'.version = j
      /\ ~passes => worker' = "idle" /\ job' = NoJob
  BY <1>1 DEF WriteVerdict, Step
<1>4. passes => job' # NoJob
  BY <1>3, NoJobAssumption
<1>5. scan' \in [Versions -> {"pending", "scanning", "passed", "failed"}]
  BY <1>1 DEF WriteVerdict, VerdictInv, VerdictTypeOK
<1>6. IsApk(j) => file[j].certificates \in SUBSET Certificates
  BY <1>1, FileType DEF VerdictInv
<1>7. /\ info' \in [Versions -> {NoFile} \cup SUBSET Certificates]
      /\ \A v \in Versions : info'[v] # NoFile => IsApk(v)'
  BY <1>1, <1>2, <1>6 DEF WriteVerdict, VerdictInv, VerdictTypeOK, IsApk
<1>8. antivirus' \in [Versions -> {"nothing", "clean", "threat"}] /\ agreed' \subseteq Versions
  <2>1. antivirus' \in {antivirus, [antivirus EXCEPT ![j] = "nothing"]}
    BY DEF WriteVerdict
  <2>2. agreed' \in {agreed, agreed \cup {j}}
    BY DEF WriteVerdict
  <2>3. QED
    BY <1>1, <2>1, <2>2 DEF VerdictInv, VerdictTypeOK
<1>9. VerdictTypeOK'
  BY <1>1, <1>2, <1>3, <1>4, <1>5, <1>7, <1>8 DEF VerdictInv, VerdictTypeOK
<1>10. passes => JobAt(job.version, ~job.errors)'
  BY <1>2, <1>3 DEF JobAt, IsApk
<1>11. SameSigner' /\ \A v \in Passed' : PassedAt(v)'
  BY PassKeeps, RefusalKeeps
<1>12. QED
  BY <1>3, <1>7, <1>9, <1>10, <1>11 DEF VerdictInv

LEMMA SetPackageKeeps ==
  ASSUME VerdictInv, SetPackage
  PROVE  VerdictInv'
<1>1. /\ job # NoJob /\ job.version \in Versions /\ IsApk(job.version)
      /\ worker' = "idle" /\ job' = NoJob
  BY DEF SetPackage, VerdictInv, VerdictTypeOK, JobAt
<1>2. package' \in Packages \cup {NoPackage}
  BY <1>1, FileType DEF SetPackage, VerdictInv, VerdictTypeOK, File
<1>3. VerdictTypeOK'
  BY <1>1, <1>2 DEF SetPackage, scanVars, VerdictInv, VerdictTypeOK
<1>4. /\ SameSigner' /\ \A v \in Passed' : PassedAt(v)'
      /\ \A v \in Versions : info'[v] # NoFile => IsApk(v)'
  BY DocumentsFrame DEF SetPackage, scanVars, VerdictInv, Passed
<1>5. QED
  BY <1>1, <1>3, <1>4 DEF VerdictInv

-----------------------------------------------------------------------------
(***************************************************************************)
(* Uploads, rescans, edits of the listing, restarts.                       *)
(***************************************************************************)

LEMMA UploadKeeps ==
  ASSUME VerdictInv, NEW v \in Versions, NEW f \in Files, Upload(v, f)
  PROVE  VerdictInv'
<1>1. /\ v \notin Passed /\ ~IsApk(v) /\ info[v] = NoFile
      /\ job # NoJob => job.version # v
  BY DEF Upload, VerdictInv, VerdictTypeOK, Passed, PassedAt, IsApk
<1>2. /\ \A w \in Versions \ {v} : file'[w] = file[w]
      /\ file'[v] = f /\ f # NoFile
      /\ UNCHANGED <<settings, scan, info, package, worker, job, antivirus, agreed>>
  BY FilesAssumption DEF Upload, VerdictInv, VerdictTypeOK
<1>3. VerdictTypeOK'
  BY <1>1, <1>2 DEF Upload, VerdictInv, VerdictTypeOK
<1>4. Passed' = Passed /\ Passed \subseteq Versions \ {v}
  BY <1>1, <1>2 DEF Passed
<1>5. ASSUME NEW w \in Versions \ {v}
      PROVE  /\ IsApk(w)' = IsApk(w) /\ Signed(w)' = Signed(w)
             /\ Unthreatened(w)' = Unthreatened(w) /\ PassedAt(w)' = PassedAt(w)
  BY <1>2 DEF IsApk, Signed, Unthreatened, PassedAt
<1>6. SignersApart' => SignersApart
  <2>1. \A w \in {x \in Versions : IsApk(x)} : w \in {x \in Versions : IsApk(x)'} /\ w # v
    BY <1>1, <1>5
  <2>2. QED
    BY <1>2, <2>1 DEF SignersApart
<1>7. job # NoJob => JobAt(job.version, ~job.errors)'
  <2>1. ASSUME job # NoJob
        PROVE  job.version \in Versions \ {v} /\ JobAt(job.version, ~job.errors)
    BY <1>1, <2>1 DEF VerdictInv
  <2>2. job # NoJob /\ SignedAs(job.version) => SignedAs(job.version)'
    BY <1>2, <1>4, <1>5, <1>6, <2>1 DEF SignedAs
  <2>3. QED
    BY <1>2, <1>5, <2>1, <2>2 DEF JobAt
<1>8. \A w \in Passed' : PassedAt(w)'
  BY <1>4, <1>5 DEF VerdictInv
<1>9. \A w \in Versions : info'[w] # NoFile => IsApk(w)'
  BY <1>1, <1>2, <1>5 DEF VerdictInv
<1>10. SameSigner'
  BY <1>2, <1>4, <1>5, <1>6 DEF VerdictInv, SameSigner
<1>11. QED
  BY <1>2, <1>3, <1>7, <1>8, <1>9, <1>10 DEF VerdictInv

\* A version that stops having passed takes nothing from the others, nor from
\* the scan that runs.
LEMMA FewerPassed ==
  ASSUME VerdictInv, VerdictTypeOK',
         UNCHANGED <<settings, file, info>>, Passed' \subseteq Passed,
         \A v \in Passed' : antivirus'[v] = antivirus[v],
         \/ job' = NoJob
         \/ /\ UNCHANGED <<job, worker>>
            /\ job # NoJob /\ worker \in {"static", "app", "previous", "verdict"}
                 => antivirus'[job.version] = antivirus[job.version]
  PROVE  VerdictInv'
<1>1. ASSUME NEW v \in Versions
      PROVE  IsApk(v)' = IsApk(v) /\ Signed(v)' = Signed(v)
  BY DEF IsApk, Signed
<1>2. Passed \subseteq Versions
  BY DEF Passed
<1>3. \A v \in Passed' : PassedAt(v)'
  BY <1>1, <1>2 DEF VerdictInv, PassedAt, Unthreatened
<1>4. SameSigner'
  BY <1>1, <1>2, SignersFrame DEF VerdictInv, SameSigner
<1>5. job' # NoJob => /\ job' \in [version : Versions, errors : BOOLEAN]
                      /\ JobAt(job.version, ~job.errors)'
  <2> SUFFICES ASSUME job' # NoJob
               PROVE  /\ job' \in [version : Versions, errors : BOOLEAN]
                      /\ JobAt(job.version, ~job.errors)'
    OBVIOUS
  <2>1. /\ UNCHANGED <<job, worker>> /\ job.version \in Versions
        /\ JobAt(job.version, ~job.errors)
        /\ worker \in {"static", "app", "previous", "verdict"}
             => antivirus'[job.version] = antivirus[job.version]
        /\ job' \in [version : Versions, errors : BOOLEAN]
    BY DEF VerdictInv
  <2>2. SignedAs(job.version) => SignedAs(job.version)'
    BY <1>1, <1>2, <2>1, SignersFrame DEF SignedAs
  <2>3. QED
    BY <1>1, <2>1, <2>2 DEF JobAt, Unthreatened
<1>6. \A v \in Versions : info'[v] # NoFile => IsApk(v)'
  BY <1>1 DEF VerdictInv
<1>7. QED
  BY <1>3, <1>4, <1>5, <1>6 DEF VerdictInv

LEMMA RescanKeeps ==
  ASSUME VerdictInv, NEW v \in Versions, Rescan(v)
  PROVE  VerdictInv'
<1>1. VerdictTypeOK'
  BY DEF Rescan, VerdictInv, VerdictTypeOK
<1>2. Passed' = Passed \ {v}
  BY DEF Rescan, Passed, VerdictInv, VerdictTypeOK
<1>3. \A w \in Versions \ {v} : antivirus'[w] = antivirus[w]
  BY DEF Rescan, VerdictInv, VerdictTypeOK
<1>4. job # NoJob /\ worker \in {"static", "app", "previous", "verdict"}
        => antivirus'[job.version] = antivirus[job.version]
  BY <1>3 DEF Rescan, VerdictInv, VerdictTypeOK
<1>5. Passed \subseteq Versions
  BY DEF Passed
<1>6. QED
  BY <1>1, <1>2, <1>3, <1>4, <1>5, FewerPassed DEF Rescan

LEMMA EditKeeps ==
  ASSUME VerdictInv, NEW p \in Packages \cup {NoPackage}, EditPackage(p)
  PROVE  VerdictInv'
<1>1. VerdictTypeOK' /\ Passed' = Passed
  BY DEF EditPackage, scanVars, VerdictInv, VerdictTypeOK, Passed
<1>2. QED
  BY <1>1, FewerPassed DEF EditPackage, scanVars

LEMMA StopKeeps ==
  ASSUME VerdictInv, StopAndRestart
  PROVE  VerdictInv'
<1>1. job # NoJob /\ job.version \in Versions
  BY DEF StopAndRestart, VerdictInv, VerdictTypeOK
<1>2. VerdictTypeOK' /\ job' = NoJob
  BY <1>1 DEF StopAndRestart, VerdictInv, VerdictTypeOK
<1>3. Passed' \subseteq Passed
  BY DEF StopAndRestart, Passed, VerdictInv, VerdictTypeOK
<1>4. ASSUME NEW v \in Passed'
      PROVE  antivirus'[v] = antivirus[v]
  <2>1. v \in Versions /\ scan[v] = "passed"
    BY <1>3, <1>4 DEF Passed
  <2>2. v = job.version => worker = "package"
    BY <1>1, <2>1 DEF StopAndRestart, VerdictInv, VerdictTypeOK
  <2>3. QED
    BY <1>1, <2>1, <2>2 DEF StopAndRestart, VerdictInv, VerdictTypeOK
<1>5. QED
  BY <1>2, <1>3, <1>4, FewerPassed DEF StopAndRestart

LEMMA VerdictInvariant == VerdictSpec => []VerdictInv
<1>1. VerdictInv /\ UNCHANGED verdictVars => VerdictInv'
  <2> SUFFICES ASSUME VerdictInv, UNCHANGED verdictVars
               PROVE  VerdictInv'
    OBVIOUS
  <2>1. VerdictTypeOK' /\ Passed' = Passed
    BY DEF VerdictInv, VerdictTypeOK, Passed, verdictVars, scanVars
  <2>2. QED
    BY <2>1, FewerPassed DEF verdictVars, scanVars
<1>2. VerdictInv /\ VerdictNext => VerdictInv'
  BY StartKeeps, RescanKeeps, UploadKeeps, AntivirusKeeps, RaisesKeeps, StaticKeeps,
     PackageCheckKeeps, CertificateCheckKeeps, WriteKeeps, SetPackageKeeps, EditKeeps, StopKeeps
  DEF VerdictNext
<1>3. QED
  BY <1>1, <1>2, InitVerdict, PTL DEF VerdictSpec

(***************************************************************************)
(* Where an antivirus is required, what has passed was found clean, and by *)
(* no engine a threat, in the scan that let it pass: a rescan, a failure   *)
(* of an engine or a restart never leave an old answer to count.           *)
(***************************************************************************)
THEOREM NothingPassesUnscanned == VerdictSpec => []PassedWasScanned
<1>1. VerdictInv => PassedWasScanned
  BY DEF VerdictInv, PassedAt, Unthreatened, PassedWasScanned
<1>2. QED
  BY <1>1, VerdictInvariant, PTL

(***************************************************************************)
(* Certificate continuity, for any number of versions, uploaded, scanned   *)
(* and rescanned in any order, with the listing edited during scans too,   *)
(* and APKs signed any number of times: as long as no two uploaded APKs    *)
(* share some of their certificates and not the others.                    *)
(***************************************************************************)
THEOREM OneSigner == VerdictSpec => []SameSigner
<1>1. VerdictInv => SameSigner
  BY DEF VerdictInv
<1>2. QED
  BY <1>1, VerdictInvariant, PTL

-----------------------------------------------------------------------------
(***************************************************************************)
(* The package of the app.                                                 *)
(***************************************************************************)

LEMMA InitPackage == VerdictInit => PackageInv
BY DEF VerdictInit, PackageInv

\* Nothing but a verdict adds to the versions that agree, and only SetPackage
\* and EditPackage change the package.
LEMMA PackageFrame ==
  ASSUME VerdictInv, PackageInv, UNCHANGED package, agreed' \subseteq agreed,
         \A v \in Versions : file[v] # NoFile => file'[v] = file[v],
         worker' \notin {"previous", "verdict", "package"} \/ UNCHANGED <<worker, job>>,
         package = NoPackage =>
           agreed' \subseteq {v \in Versions : worker' = "package" /\ v = job'.version}
  PROVE  PackageInv'
<1>1. \A v \in agreed : v \in Versions /\ IsApk(v)
  BY DEF VerdictInv, VerdictTypeOK, PackageInv
<1>2. \A v \in agreed : file'[v] = file[v]
  BY <1>1 DEF IsApk
<1>3. job # NoJob => job.version \in Versions /\ file'[job.version] = file[job.version]
  BY DEF VerdictInv, VerdictTypeOK
<1>4. worker # "idle" => job # NoJob
  BY DEF VerdictInv, VerdictTypeOK
<1>5. QED
  BY <1>1, <1>2, <1>3, <1>4 DEF PackageInv, IsApk

\* A step of the analysis: what it must have compared when it goes on.
LEMMA StepPackage ==
  ASSUME VerdictInv, PackageInv, worker \in {"antivirus", "static", "app", "previous"},
         NEW at \in {"static", "app", "previous", "verdict"}, NEW errors \in BOOLEAN,
         Step(at, errors), UNCHANGED <<settings, scanVars, package, antivirus, agreed>>,
         at \in {"previous", "verdict"} /\ ~(job.errors \/ errors) /\ IsApk(job.version)
           /\ package # NoPackage => file[job.version].package = package
  PROVE  PackageInv'
<1>1. job \in [version : Versions, errors : BOOLEAN]
  BY DEF VerdictInv, VerdictTypeOK
<1>2. job'.version = job.version /\ job'.errors = (job.errors \/ errors) /\ worker' = at
  BY <1>1 DEF Step
<1>3. package = NoPackage => agreed = {}
  BY DEF PackageInv
<1>4. QED
  BY <1>2, <1>3 DEF PackageInv, IsApk, scanVars

LEMMA StaticPackage ==
  ASSUME VerdictInv, PackageInv, StaticAnalysis
  PROVE  PackageInv'
<1> DEFINE f == file[job.version]
<1>1. worker = "static" /\ UNCHANGED <<settings, scanVars, package, antivirus, agreed>>
  BY DEF StaticAnalysis
<1>2. CASE Step("verdict", TRUE)
  BY <1>1, <1>2, StepPackage
<1>3. CASE Step("app", f.certificates = {})
  BY <1>1, <1>3, StepPackage
<1>4. CASE f.format \in {"exe", "msi"} /\ Step("verdict", RefusedSignature(f))
  <2>1. RefusedSignature(f) \in BOOLEAN /\ ~IsApk(job.version)
    BY <1>4 DEF RefusedSignature, IsApk
  <2>2. QED
    BY <1>1, <1>4, <2>1, StepPackage
<1>5. CASE f.format = "other" /\ Step("verdict", FALSE)
  <2>1. ~IsApk(job.version)
    BY <1>5 DEF IsApk
  <2>2. QED
    BY <1>1, <1>5, <2>1, StepPackage
<1>6. QED
  BY <1>2, <1>3, <1>4, <1>5 DEF StaticAnalysis

LEMMA WritePackage ==
  ASSUME VerdictInv, PackageInv, WriteVerdict
  PROVE  PackageInv'
<1> PICK j \in Versions : j = job.version
  BY DEF WriteVerdict, VerdictInv, VerdictTypeOK
<1>1. worker = "verdict" /\ UNCHANGED <<file, package>>
  BY DEF WriteVerdict
<1>2. CASE ~job.errors /\ IsApk(j)
  <2>1. worker' = "package" /\ job'.version = j /\ agreed' = agreed \cup {j}
    BY <1>2 DEF WriteVerdict, Step, VerdictInv, VerdictTypeOK
  <2>2. package # NoPackage => file[j].package = package
    BY <1>1, <1>2 DEF PackageInv
  <2>3. package = NoPackage => agreed = {}
    BY <1>1 DEF PackageInv
  <2>4. QED
    BY <1>1, <1>2, <2>1, <2>2, <2>3 DEF PackageInv, IsApk
<1>3. CASE ~(~job.errors /\ IsApk(j))
  <2>1. worker' = "idle" /\ agreed' = agreed
    BY <1>3 DEF WriteVerdict
  <2>2. package = NoPackage => agreed = {}
    BY <1>1 DEF PackageInv
  <2>3. QED
    BY <1>1, <2>1, <2>2, PackageFrame
<1>4. QED
  BY <1>2, <1>3

\* The package that the scan has compared with is recorded, or was already.
LEMMA SetPackagePackage ==
  ASSUME VerdictInv, PackageInv, SetPackage
  PROVE  PackageInv'
<1> PICK j \in Versions : j = job.version
  BY DEF SetPackage, VerdictInv, VerdictTypeOK
<1>1. IsApk(j) /\ worker = "package" /\ worker' = "idle" /\ UNCHANGED <<file, agreed>>
  BY DEF SetPackage, scanVars, VerdictInv, VerdictTypeOK, JobAt
<1>2. file[j].package \in Packages /\ file[j].package # NoPackage
  BY <1>1, FileType, PackagesAssumption DEF VerdictInv, File
<1>3. package' = file[j].package
  BY <1>1 DEF SetPackage, PackageInv
<1>4. \A v \in agreed : IsApk(v) /\ file[v].package = file[j].package
  BY <1>1, <1>3 DEF PackageInv
<1>5. QED
  BY <1>1, <1>2, <1>3, <1>4 DEF PackageInv, IsApk

LEMMA NextPackage ==
  ASSUME ~EditsDuringScan, VerdictInv, PackageInv, VerdictNext
  PROVE  PackageInv'
<1>1. ASSUME NEW v \in Versions, StartScan(v)
      PROVE  PackageInv'
  <2>1. package = NoPackage => agreed = {}
    BY <1>1 DEF StartScan, PackageInv
  <2>2. QED
    BY <1>1, <2>1, PackageFrame DEF StartScan
<1>2. ASSUME NEW v \in Versions, Rescan(v)
      PROVE  PackageInv'
  BY <1>2, PackageFrame DEF Rescan, PackageInv
<1>3. ASSUME NEW v \in Versions, NEW f \in Files, Upload(v, f)
      PROVE  PackageInv'
  <2>1. \A w \in Versions : file[w] # NoFile => file'[w] = file[w]
    BY <1>3 DEF Upload, VerdictInv, VerdictTypeOK
  <2>2. QED
    BY <1>3, <2>1, PackageFrame DEF Upload, PackageInv
<1>4. CASE Antivirus
  <2>1. worker' = "static" /\ UNCHANGED <<file, package, agreed>> /\ worker = "antivirus"
    BY <1>4 DEF Antivirus, Step, scanVars
  <2>2. package = NoPackage => agreed = {}
    BY <2>1 DEF PackageInv
  <2>3. QED
    BY <2>1, <2>2, PackageFrame
<1>5. CASE ScanRaises
  BY <1>5, StepPackage DEF ScanRaises
<1>6. CASE CheckPackage
  <2>1. (package # NoPackage /\ file[job.version].package # package) \in BOOLEAN
    OBVIOUS
  <2>2. QED
    BY <1>6, <2>1, StepPackage DEF CheckPackage
<1>7. CASE CheckCertificate
  <2> DEFINE differs == \E v \in Validated : /\ \A w \in Validated : w <= v
                                             /\ info[v] \cap file[job.version].certificates = {}
  <2>1. differs \in BOOLEAN /\ worker = "previous" /\ Step("verdict", differs)
        /\ UNCHANGED <<settings, scanVars, package, antivirus, agreed>>
    BY <1>7 DEF CheckCertificate
  <2> HIDE DEF differs
  <2>2. QED
    BY <2>1, StepPackage DEF PackageInv
<1>8. ASSUME NEW p \in Packages \cup {NoPackage}, EditPackage(p)
      PROVE  PackageInv'
  BY <1>8 DEF EditPackage, scanVars, PackageInv, IsApk
<1>9. CASE StopAndRestart
  <2>1. worker' = "idle" /\ UNCHANGED <<file, package>> /\ agreed' \subseteq agreed
    BY <1>9 DEF StopAndRestart
  <2>2. package = NoPackage => agreed' = {}
    BY <1>9 DEF StopAndRestart, PackageInv
  <2>3. QED
    BY <2>1, <2>2, PackageFrame
<1>10. QED
  BY <1>1, <1>2, <1>3, <1>4, <1>5, <1>6, <1>7, <1>8, <1>9,
     StaticPackage, WritePackage, SetPackagePackage
  DEF VerdictNext

(***************************************************************************)
(* The first validated APK sets the package of the app, and the ones       *)
(* validated since agree with it, for any number of versions, rescans and  *)
(* restarts, as long as the listing is not edited while a scan runs (an    *)
(* edit between the comparison and the verdict breaks it: see the README). *)
(***************************************************************************)
THEOREM OnePackage ==
  ASSUME ~EditsDuringScan
  PROVE  VerdictSpec => []PackagesAgree
<1>1. PackageInv /\ UNCHANGED verdictVars => PackageInv'
  BY DEF PackageInv, IsApk, verdictVars, scanVars
<1>2. VerdictInv /\ PackageInv /\ [VerdictNext]_verdictVars => PackageInv'
  BY <1>1, NextPackage
<1>3. PackageInv => PackagesAgree
  BY DEF PackageInv, PackagesAgree
<1>4. QED
  BY <1>2, <1>3, InitPackage, VerdictInvariant, PTL DEF VerdictSpec
=============================================================================
