---------------------- MODULE SessionLifecycle_proofs ----------------------
(***************************************************************************)
(* Proofs of the invariants of SessionLifecycle, for any number of starts, *)
(* sweepers, failures and restarts.                                        *)
(***************************************************************************)
EXTENDS SessionLifecycle, TLAPS

\* Places where a run still has something in the registry, in temp_files or
\* on disk to take away, and the same for one that was cut off.
KeepsRecord == {"running", "ending", "purging", "removing", "crashed"}
KeepsDocs == {"running", "ending", "purging", "crashed"}
KeepsFile == {"running", "ending", "purging", "removing", "leaving", "crashed"}

\* What is left in the database has a run that will take it away, a file on
\* disk has the run that put it there: this is what makes QuietIsClean
\* inductive.
OwnedInv ==
  /\ disk \subseteq {r \in Runs : run[r] \in KeepsFile}
  /\ "database" \notin excuses =>
       /\ record # "none" => \E r \in Runs : run[r] \in KeepsRecord
       /\ docs # {} => \E r \in Runs : run[r] \in KeepsDocs

\* A running session's file is where its upload left it, or a sweep that will
\* take the document is at work: what FileGoesWithRecord needs of the uploads
\* that are not attached yet.
UploadInv ==
  excuses = {} /\ failures = 0 =>
    \A r \in Runs :
      /\ run[r] \in {"idle", "booting"} => upload[r] = "none"
      /\ r \in docs => upload[r] = "attached"
      /\ run[r] = "running" /\ upload[r] = "downloaded" => r \in disk

LifecycleInv == TypeOK /\ OneBrowser /\ OwnedInv /\ UploadInv /\ FileGoesWithRecord

\* A counter under its bound stays in its range when it goes up.
LEMMA CountUp ==
  ASSUME NEW M \in Nat, NEW n \in 0..M, n < M
  PROVE  n + 1 \in 0..M
OBVIOUS

\* Every action keeps every variable in its type, whatever else holds.
LEMMA TypeStep == TypeOK /\ [Next]_vars => TypeOK'
<1> SUFFICES ASSUME TypeOK, [Next]_vars PROVE TypeOK'
  OBVIOUS
<1>0. failures \in 0..MaxFailures /\ crashes \in 0..MaxCrashes
  BY DEF TypeOK
<1>1. Fails => failures' \in 0..MaxFailures
  BY <1>0, CountUp, LifecycleAssumption DEF Fails
<1>a. Crash => crashes' \in 0..MaxCrashes
  BY <1>0, CountUp, LifecycleAssumption DEF Crash
<1> USE DEF TypeOK, Goto, SweepGoto, Works
<1>2. CASE UNCHANGED vars
  BY <1>2 DEF vars
<1>3. ASSUME NEW r \in Runs, RunStep(r) PROVE TypeOK'
  <2>1. CASE Start(r) BY <1>1, <2>1 DEF Start, Unseen
  <2>2. CASE BootFails(r) BY <2>2 DEF BootFails
  <2>3. CASE Register(r) BY <1>1, <2>3 DEF Register
  <2>4. CASE Download(r) BY <2>4 DEF Download
  <2>5. CASE RecordTempFile(r) BY <1>1, <2>5 DEF RecordTempFile
  <2>6. CASE EndRun(r) BY <2>6 DEF EndRun
  <2>7. CASE CleanupFind(r) BY <1>1, <2>7 DEF CleanupFind
  <2>8. CASE CleanupDelete(r) BY <1>1, <2>8 DEF CleanupDelete
  <2>9. CASE RemoveActiveSession(r) BY <1>1, <2>9 DEF RemoveActiveSession
  <2>10. CASE RemoveDownloadDir(r) BY <2>10 DEF RemoveDownloadDir
  <2> QED BY <1>3, <2>1, <2>2, <2>3, <2>4, <2>5, <2>6, <2>7, <2>8, <2>9, <2>10 DEF RunStep
<1>4. ASSUME NEW s \in Sweepers, SweepStep(s) PROVE TypeOK'
  <2>1. CASE SweepCollect(s) BY <2>1 DEF SweepCollect
  <2>2. CASE SweepFind(s) BY <1>1, <2>2 DEF SweepFind
  <2>3. CASE SweepPurge(s) BY <1>1, <2>3 DEF SweepPurge
  <2>4. CASE SweepDelete(s) BY <1>1, <2>4 DEF SweepDelete
  <2> QED BY <1>4, <2>1, <2>2, <2>3, <2>4 DEF SweepStep
<1>5. CASE TtlPasses
  BY <1>5 DEF TtlPasses
<1>6. CASE Crash
  BY <1>a, <1>6 DEF Crash
<1> QED BY <1>2, <1>3, <1>4, <1>5, <1>6 DEF Next

\* A run that moves on and does not become live takes no place of another.
LEMMA MoveOn ==
  ASSUME NEW P, run \in [Runs -> P], NEW r \in Runs, NEW place, Goto(r, place),
         place \in {"booting", "running", "ending", "purging", "removing", "leaving"}
           => r \in Live,
         place \in {"running", "ending", "purging", "removing"} => r \in Registered
  PROVE  Live' \subseteq Live /\ Registered' \subseteq Registered
BY DEF Goto, Live, Registered

\* A start that finds no document, no other boot and no browser on its way out
\* is alone, and the one that takes the document away was alone.
LEMMA OneBrowserStep == TypeOK /\ OneBrowser /\ [Next]_vars => OneBrowser'
<1> SUFFICES ASSUME TypeOK, OneBrowser, [Next]_vars, excuses' = {}
             PROVE  /\ \A q, r \in Live' : q = r
                    /\ Registered' # {} => record' # "none"
  BY DEF OneBrowser
<1> DEFINE Places == {"idle", "refused", "booting", "running", "ending", "purging",
                      "removing", "leaving", "ended", "crashed"}
<1>1. run \in [Runs -> Places]
  BY DEF TypeOK
<1>2. ASSUME excuses = {}
      PROVE  /\ \A q, r \in Live : q = r
             /\ Registered # {} => record # "none"
  BY <1>2 DEF OneBrowser
<1>3. ASSUME excuses' = excuses, Live' \subseteq Live, Registered' \subseteq Registered,
             record' = record
      PROVE  /\ \A q, r \in Live' : q = r
             /\ Registered' # {} => record' # "none"
  BY <1>2, <1>3
<1>4. ASSUME NEW e, excuses' = excuses \union {e} PROVE FALSE
  BY <1>4
<1>5. ASSUME run' = run PROVE Live' = Live /\ Registered' = Registered
  BY <1>5 DEF Live, Registered
<1>6. CASE UNCHANGED vars
  BY <1>3, <1>5, <1>6 DEF vars
<1>7. CASE \E r \in Runs : RunStep(r)
  <2> PICK r \in Runs : RunStep(r)
    BY <1>7
  <2>1. CASE Start(r)
    <3>1. CASE Goto(r, "refused") /\ UNCHANGED <<record, excuses>>
      BY <1>1, <1>3, <3>1, MoveOn
    <3>2. CASE /\ record = "none" /\ record' = record /\ Goto(r, "booting")
               /\ excuses' = excuses \union Unseen
      <4>1. excuses = {} /\ Unseen = {}
        BY <3>2
      <4>2. Registered = {}
        BY <1>2, <3>2, <4>1
      <4>3. \A q \in Runs : run[q] # "booting" /\ run[q] # "leaving"
        BY <4>1 DEF Unseen
      <4>4. Live = {}
        BY <4>2, <4>3 DEF Live, Registered
      <4>5. Live' = {r} /\ Registered' = {}
        BY <1>1, <3>2, <4>4 DEF Goto, Live, Registered
      <4> QED BY <4>5
    <3>3. CASE excuses' = excuses \union {"database"}
      BY <1>4, <3>3
    <3> QED BY <2>1, <3>1, <3>2, <3>3 DEF Start
  <2>2. CASE BootFails(r)
    BY <1>1, <1>3, <2>2, MoveOn DEF BootFails
  <2>3. CASE Register(r)
    <3>1. excuses' = excuses /\ record' = "fresh" /\ Goto(r, "running") /\ r \in Live
      BY <1>4, <2>3 DEF Register, Live
    <3>2. Live' \subseteq Live
      BY <1>1, <3>1 DEF Goto, Live
    <3> QED BY <1>2, <3>1, <3>2
  <2>4. CASE Download(r)
    BY <1>3, <1>5, <2>4 DEF Download
  <2>5. CASE RecordTempFile(r)
    BY <1>3, <1>4, <1>5, <2>5 DEF RecordTempFile
  <2>6. CASE EndRun(r)
    <3>1. r \in Live /\ r \in Registered
      BY <2>6 DEF EndRun, Live, Registered
    <3> QED BY <1>1, <1>3, <2>6, <3>1, MoveOn DEF EndRun
  <2>7. CASE CleanupFind(r)
    <3>1. r \in Live /\ r \in Registered
      BY <2>7 DEF CleanupFind, Live, Registered
    <3>2. excuses' = excuses /\ Goto(r, "purging") /\ record' = record
      BY <1>4, <2>7 DEF CleanupFind
    <3> QED BY <1>1, <1>3, <3>1, <3>2, MoveOn
  <2>8. CASE CleanupDelete(r)
    <3>1. r \in Live /\ r \in Registered
      BY <2>8 DEF CleanupDelete, Live, Registered
    <3>2. excuses' = excuses /\ Goto(r, "removing") /\ record' = record
      BY <1>4, <2>8 DEF CleanupDelete
    <3> QED BY <1>1, <1>3, <3>1, <3>2, MoveOn
  <2>9. CASE RemoveActiveSession(r)
    <3>1. r \in Live /\ r \in Registered
      BY <2>9 DEF RemoveActiveSession, Live, Registered
    <3>2. excuses' = excuses /\ Goto(r, "leaving")
      BY <1>4, <2>9 DEF RemoveActiveSession
    <3>3. Live' \subseteq Live
      BY <1>1, <3>1, <3>2, MoveOn
    <3>4. Registered' \subseteq Registered \ {r}
      BY <1>1, <3>2 DEF Goto, Registered
    <3>5. Registered \subseteq Live
      BY DEF Registered, Live
    <3>6. Registered' = {}
      BY <1>2, <3>1, <3>2, <3>4, <3>5
    <3> QED BY <1>2, <3>2, <3>3, <3>6
  <2>10. CASE RemoveDownloadDir(r)
    BY <1>1, <1>3, <2>10, MoveOn DEF RemoveDownloadDir
  <2> QED BY <2>1, <2>2, <2>3, <2>4, <2>5, <2>6, <2>7, <2>8, <2>9, <2>10 DEF RunStep
<1>8. CASE \E s \in Sweepers : SweepStep(s)
  <2> PICK s \in Sweepers : SweepStep(s)
    BY <1>8
  <2>1. CASE SweepCollect(s)
    BY <1>3, <1>5, <2>1 DEF SweepCollect
  <2>2. CASE SweepFind(s)
    BY <1>3, <1>5, <2>2 DEF SweepFind
  <2>3. CASE SweepPurge(s)
    BY <1>3, <1>5, <2>3 DEF SweepPurge
  <2>4. CASE SweepDelete(s)
    <3>1. CASE UNCHANGED <<run, record, excuses>>
      BY <1>3, <1>5, <3>1
    <3>2. CASE /\ run' = run
               /\ excuses' = excuses \union IF Registered # {} THEN {"sweep"} ELSE {}
      <4>1. Registered = {} /\ excuses = {}
        BY <3>2
      <4> QED BY <1>2, <1>5, <3>2, <4>1
    <3> QED BY <2>4, <3>1, <3>2 DEF SweepDelete
  <2> QED BY <2>1, <2>2, <2>3, <2>4 DEF SweepStep
<1>9. CASE TtlPasses
  <2>1. excuses' = excuses /\ run' = run /\ record' # "none"
    BY <1>9 DEF TtlPasses
  <2> QED BY <1>2, <1>5, <2>1
<1>10. CASE Crash
  <2>1. Live' = {} /\ Registered' = {}
    BY <1>10 DEF Crash, Live, Registered
  <2> QED BY <2>1
<1> QED BY <1>6, <1>7, <1>8, <1>9, <1>10 DEF Next

\* Whoever leaves the places of OwnedInv takes its things with it.
LEMMA OwnedStep == TypeOK /\ OwnedInv /\ [Next]_vars => OwnedInv'
<1> SUFFICES ASSUME TypeOK, OwnedInv, [Next]_vars PROVE OwnedInv'
  OBVIOUS
<1> USE DEF TypeOK, OwnedInv, KeepsRecord, KeepsDocs, KeepsFile, Goto, SweepGoto, Works, Fails
<1>2. CASE UNCHANGED vars
  BY <1>2 DEF vars
<1>3. CASE \E r \in Runs : RunStep(r)
  <2> PICK r \in Runs : RunStep(r)
    BY <1>3
  <2>1. CASE Start(r) BY <2>1 DEF Start
  <2>2. CASE BootFails(r) BY <2>2 DEF BootFails
  <2>3. CASE Register(r) BY <2>3 DEF Register
  <2>4. CASE Download(r) BY <2>4 DEF Download
  <2>5. CASE RecordTempFile(r) BY <2>5 DEF RecordTempFile
  <2>6. CASE EndRun(r) BY <2>6 DEF EndRun
  <2>7. CASE CleanupFind(r) BY <2>7 DEF CleanupFind
  <2>8. CASE CleanupDelete(r) BY <2>8 DEF CleanupDelete
  <2>9. CASE RemoveActiveSession(r) BY <2>9 DEF RemoveActiveSession
  <2>10. CASE RemoveDownloadDir(r) BY <2>10 DEF RemoveDownloadDir
  <2> QED BY <2>1, <2>2, <2>3, <2>4, <2>5, <2>6, <2>7, <2>8, <2>9, <2>10 DEF RunStep
<1>4. CASE \E s \in Sweepers : SweepStep(s)
  <2> PICK s \in Sweepers : SweepStep(s)
    BY <1>4
  <2>1. CASE SweepCollect(s) BY <2>1 DEF SweepCollect
  <2>2. CASE SweepFind(s) BY <2>2 DEF SweepFind
  <2>3. CASE SweepPurge(s) BY <2>3 DEF SweepPurge
  <2>4. CASE SweepDelete(s) BY <2>4 DEF SweepDelete
  <2> QED BY <2>1, <2>2, <2>3, <2>4 DEF SweepStep
<1>5. CASE TtlPasses
  BY <1>5 DEF TtlPasses
<1>6. CASE Crash
  BY <1>6 DEF Crash, Live
<1> QED BY <1>2, <1>3, <1>4, <1>5, <1>6 DEF Next

\* Where nothing failed and no two browsers met, only the sweep takes a file of
\* a running session: the ends of other runs would need a second browser.
LEMMA FileStep ==
  /\ TypeOK /\ OneBrowser /\ UploadInv /\ FileGoesWithRecord /\ [Next]_vars
  => UploadInv' /\ FileGoesWithRecord'
<1> SUFFICES ASSUME TypeOK, OneBrowser, UploadInv, FileGoesWithRecord, [Next]_vars,
                    excuses' = {}, failures' = 0
             PROVE  UploadInv' /\ FileGoesWithRecord'
  BY DEF UploadInv, FileGoesWithRecord
<1>0. failures \in Nat /\ (Fails => failures' = failures + 1)
  BY LifecycleAssumption DEF TypeOK, Fails
<1>1. ~Fails
  BY <1>0
<1>2. Works => failures = 0
  BY DEF Works
<1> DEFINE Whole ==
      \A r \in Runs :
        /\ run[r] \in {"idle", "booting"} => upload[r] = "none"
        /\ r \in docs => upload[r] = "attached"
        /\ run[r] = "running" /\ upload[r] = "downloaded" => r \in disk
        /\ run[r] = "running" /\ upload[r] = "attached" /\ r \notin disk
             => \E s \in Sweepers : sweep[s] \in {"purging", "deleting"}
<1>3. ASSUME excuses = {}, failures = 0 PROVE Whole
  BY <1>3 DEF UploadInv, FileGoesWithRecord
<1>4. SUFFICES Whole'
  BY DEF UploadInv, FileGoesWithRecord
<1>5. ASSUME excuses = {} PROVE \A q, r \in Runs :
               run[q] \in {"running", "ending", "leaving"}
                 /\ run[r] \in {"running", "ending", "leaving"} => q = r
  BY <1>5 DEF OneBrowser, Live
<1> USE DEF Goto, SweepGoto
<1>6. CASE UNCHANGED vars
  BY <1>3, <1>6 DEF vars
<1>7. CASE \E r \in Runs : RunStep(r)
  <2> PICK r \in Runs : RunStep(r)
    BY <1>7
  <2>0. run \in [Runs -> {"idle", "refused", "booting", "running", "ending", "purging",
                           "removing", "leaving", "ended", "crashed"}]
        /\ upload \in [Runs -> {"none", "downloaded", "attached"}]
    BY DEF TypeOK
  <2>1. CASE Start(r) BY <1>1, <1>2, <1>3, <2>0, <2>1 DEF Start
  <2>2. CASE BootFails(r) BY <1>3, <2>0, <2>2 DEF BootFails
  <2>3. CASE Register(r) BY <1>1, <1>2, <1>3, <2>0, <2>3 DEF Register
  <2>4. CASE Download(r) BY <1>3, <2>0, <2>4 DEF Download
  <2>5. CASE RecordTempFile(r) BY <1>1, <1>2, <1>3, <2>0, <2>5 DEF RecordTempFile
  <2>6. CASE EndRun(r) BY <1>3, <2>0, <2>6 DEF EndRun
  <2>7. CASE CleanupFind(r) BY <1>1, <1>2, <1>3, <1>5, <2>0, <2>7 DEF CleanupFind
  <2>8. CASE CleanupDelete(r) BY <1>1, <1>2, <1>3, <2>0, <2>8 DEF CleanupDelete
  <2>9. CASE RemoveActiveSession(r)
    BY <1>1, <1>2, <1>3, <2>0, <2>9 DEF RemoveActiveSession
  <2>10. CASE RemoveDownloadDir(r) BY <1>3, <1>5, <2>0, <2>10 DEF RemoveDownloadDir
  <2> QED BY <2>1, <2>2, <2>3, <2>4, <2>5, <2>6, <2>7, <2>8, <2>9, <2>10 DEF RunStep
<1>8. CASE \E s \in Sweepers : SweepStep(s)
  <2> PICK s \in Sweepers : SweepStep(s)
    BY <1>8
  <2>0. sweep \in [Sweepers -> {"idle", "collected", "purging", "deleting"}]
    BY DEF TypeOK
  <2>1. CASE SweepCollect(s) BY <1>2, <1>3, <2>0, <2>1 DEF SweepCollect
  <2>2. CASE SweepFind(s) BY <1>1, <1>2, <1>3, <2>0, <2>2 DEF SweepFind
  <2>3. CASE SweepPurge(s) BY <1>1, <1>2, <1>3, <2>0, <2>3 DEF SweepPurge
  <2>4. CASE SweepDelete(s)
    <3>1. excuses = {} /\ Registered = {} /\ failures = 0
      BY <1>1, <1>2, <2>4 DEF SweepDelete
    <3>2. \A q \in Runs : run'[q] # "running"
      BY <2>4, <3>1 DEF SweepDelete, Registered
    <3>3. \A q \in Runs :
            /\ run'[q] \in {"idle", "booting"} => upload'[q] = "none"
            /\ q \in docs' => upload'[q] = "attached"
      BY <1>3, <2>4, <3>1 DEF SweepDelete
    <3> QED BY <3>2, <3>3
  <2> QED BY <2>1, <2>2, <2>3, <2>4 DEF SweepStep
<1>9. CASE TtlPasses
  BY <1>3, <1>9 DEF TtlPasses
<1>10. CASE Crash
  <2>1. \A q \in Runs : run'[q] # "running"
    BY <1>10 DEF Crash, Live
  <2> QED BY <1>3, <1>10, <2>1 DEF Crash
<1> QED BY <1>6, <1>7, <1>8, <1>9, <1>10 DEF Next

\* The inductive invariant of the life of a session id.
THEOREM LifecycleInvariant == SafeSpec => []LifecycleInv
<1>1. Init => LifecycleInv
  BY LifecycleAssumption
     DEF Init, LifecycleInv, TypeOK, OneBrowser, OwnedInv, UploadInv,
         FileGoesWithRecord, Live, Registered
<1>2. LifecycleInv /\ [Next]_vars => LifecycleInv'
  BY TypeStep, OneBrowserStep, OwnedStep, FileStep DEF LifecycleInv
<1> QED BY <1>1, <1>2, PTL DEF SafeSpec

\* The variables stay in their types.
THEOREM LifecycleTypeCorrect == SafeSpec => []TypeOK
<1>1. LifecycleInv => TypeOK
  BY DEF LifecycleInv
<1> QED BY <1>1, LifecycleInvariant, PTL

\* One browser to a session id, from its start to its cancellation, and a
\* document for it while its programs run, as long as no start raced a boot or
\* an end, no sweep took a running session's document and the database did not
\* fail: asyncStartEndpoint's look at the registry is enough then.
THEOREM OneBrowserPerSession == SafeSpec => []OneBrowser
<1>1. LifecycleInv => OneBrowser
  BY DEF LifecycleInv
<1> QED BY <1>1, LifecycleInvariant, PTL

\* When no run is under way nothing is left of the session, whatever the
\* sweeps did: doRun's deferred calls take away what its runs put there.
THEOREM QuietSessionIsClean == SafeSpec => []QuietIsClean
<1>1. LifecycleInv => QuietIsClean
  BY DEF LifecycleInv, TypeOK, OwnedInv, QuietIsClean, KeepsRecord, KeepsDocs, KeepsFile
<1> QED BY <1>1, LifecycleInvariant, PTL

\* No session is left registered with the file of its upload gone: what takes
\* the file of a running session is a sweep, and it takes the document as well.
THEOREM FilesGoWithRecords == SafeSpec => []FileGoesWithRecord
<1>1. LifecycleInv => FileGoesWithRecord
  BY DEF LifecycleInv
<1> QED BY <1>1, LifecycleInvariant, PTL
=============================================================================
