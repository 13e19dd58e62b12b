-------------------------- MODULE SessionLifecycle --------------------------
(***************************************************************************)
(* One session id from POST /api/async/start to the end of its browser:    *)
(* the start endpoint's look at the registry, registration and removal in  *)
(* doRun, the files a program uploads, the sweep of expired sessions, and  *)
(* the restart of the process.                                             *)
(*                                                                         *)
(* The registry document and the temp-file documents are in MongoDB, the   *)
(* files are on disk.  They are keyed by the session id, not by the        *)
(* browser that made them, and each operation on them is a step.           *)
(*                                                                         *)
(* A definition whose comment begins with "Fault:" is a wrong version of   *)
(* the one after it; no behaviour uses it.                                 *)
(***************************************************************************)
EXTENDS Naturals, FiniteSets

CONSTANTS Runs,         \* start requests for the session id
          Sweepers,     \* concurrent runs of RemoveExpiredSessions: the loop, the endpoint
          MaxFailures,  \* bound: how many database operations fail
          MaxCrashes    \* bound: how often the process restarts

ASSUME LifecycleAssumption == MaxFailures \in Nat /\ MaxCrashes \in Nat

VARIABLES
  run,       \* run[r]: where the start request and its browser are
  upload,    \* upload[r]: where the run's uploadFileFromUrl is
  record,    \* the session's document in active_sessions
  docs,      \* the runs whose uploaded file has a document in temp_files
  disk,      \* the runs whose uploaded file is on disk
  sweep,     \* sweep[s]: where RemoveExpiredSessions is
  failures,  \* database operations that failed so far
  crashes,   \* restarts so far
  excuses    \* why the id may have had two browsers (history)

vars == <<run, upload, record, docs, disk, sweep, failures, crashes, excuses>>

\* A run that may have a browser, and one that the registry should know of.
Live == {r \in Runs : run[r] \in {"booting", "running", "ending", "purging", "removing", "leaving"}}
Registered == {r \in Runs : run[r] \in {"running", "ending", "purging", "removing"}}

Init ==
  /\ run = [r \in Runs |-> "idle"]
  /\ upload = [r \in Runs |-> "none"]
  /\ record = "none"
  /\ docs = {}
  /\ disk = {}
  /\ sweep = [s \in Sweepers |-> "idle"]
  /\ failures = 0
  /\ crashes = 0
  /\ excuses = {}

Goto(r, place) == run' = [run EXCEPT ![r] = place]
SweepGoto(s, place) == sweep' = [sweep EXCEPT ![s] = place]

\* An operation on the database goes through, or fails and leaves it as it was.
Works == UNCHANGED failures
Fails == failures < MaxFailures /\ failures' = failures + 1

-----------------------------------------------------------------------------
(* asyncStartEndpoint, RunAsync and doRun.                                 *)

\* The browsers no document tells of: one that is coming up, and one whose run
\* has removed the document and not yet cancelled it.
Unseen == {place \in {"booting", "leaving"} : \E q \in Runs : run[q] = place}

\* Fault: the registry is not asked.
StartUnchecked(r) ==
  /\ run[r] = "idle"
  /\ Works
  /\ Goto(r, "booting")
  /\ excuses' = excuses \union Unseen
  /\ UNCHANGED <<upload, record, docs, disk, sweep, crashes>>

\* The endpoint refuses an id that has a document; a failed look is no reason
\* to refuse.  The look is all there is: nothing is reserved.
Start(r) ==
  /\ run[r] = "idle"
  /\ \/ Works /\ record # "none" /\ Goto(r, "refused") /\ UNCHANGED excuses
     \/ /\ Works /\ record = "none" /\ Goto(r, "booting")
        /\ excuses' = excuses \union Unseen
     \/ Fails /\ Goto(r, "booting") /\ excuses' = excuses \union {"database"}
  /\ UNCHANGED <<upload, record, docs, disk, sweep, crashes>>

\* The browser does not come up: doRun returns before it registers anything.
BootFails(r) ==
  /\ run[r] = "booting"
  /\ Goto(r, "ended")
  /\ UNCHANGED <<upload, record, docs, disk, sweep, failures, crashes, excuses>>

\* UpsertActiveSession, with a new expiry time; its failure is only logged.
Register(r) ==
  /\ run[r] = "booting"
  /\ Goto(r, "running")
  /\ \/ Works /\ record' = "fresh" /\ UNCHANGED excuses
     \/ Fails /\ UNCHANGED record /\ excuses' = excuses \union {"database"}
  /\ UNCHANGED <<upload, docs, disk, sweep, crashes>>

\* uploadFileFromUrl: the file is downloaded, then recorded under the session
\* id (a failure is only logged) and handed to the page.
Download(r) ==
  /\ run[r] = "running"
  /\ upload[r] = "none"
  /\ upload' = [upload EXCEPT ![r] = "downloaded"]
  /\ disk' = disk \union {r}
  /\ UNCHANGED <<run, record, docs, sweep, failures, crashes, excuses>>

RecordTempFile(r) ==
  /\ run[r] = "running"
  /\ upload[r] = "downloaded"
  /\ upload' = [upload EXCEPT ![r] = "attached"]
  /\ \/ Works /\ docs' = docs \union {r} /\ UNCHANGED excuses
     \/ Fails /\ UNCHANGED docs /\ excuses' = excuses \union {"database"}
  /\ UNCHANGED <<run, record, disk, sweep, crashes>>

\* The session is stopped, times out, or loses its client; a program in the
\* middle of an upload finishes it first.
EndRun(r) ==
  /\ run[r] = "running"
  /\ upload[r] # "downloaded"
  /\ Goto(r, "ending")
  /\ UNCHANGED <<upload, record, docs, disk, sweep, failures, crashes, excuses>>

\* The deferred RemoveActiveSession: Cleanup finds the documents of the session
\* and removes their files, then deletes the documents the session has by
\* then; after it, or after its failure, the registry document goes.
CleanupFind(r) ==
  /\ run[r] = "ending"
  /\ \/ Works /\ disk' = disk \ docs /\ Goto(r, "purging") /\ UNCHANGED excuses
     \/ /\ Fails /\ UNCHANGED disk /\ Goto(r, "removing")
        /\ excuses' = excuses \union {"database"}
  /\ UNCHANGED <<upload, record, docs, sweep, crashes>>

CleanupDelete(r) ==
  /\ run[r] = "purging"
  /\ Goto(r, "removing")
  /\ \/ Works /\ docs' = {} /\ UNCHANGED excuses
     \/ Fails /\ UNCHANGED docs /\ excuses' = excuses \union {"database"}
  /\ UNCHANGED <<upload, record, disk, sweep, crashes>>

\* Fault: the removal runs under the session's own context, which is over.
RemoveUnderSessionContext(r) ==
  /\ run[r] = "removing"
  /\ Goto(r, "leaving")
  /\ Works
  /\ UNCHANGED <<upload, record, docs, disk, sweep, crashes, excuses>>

RemoveActiveSession(r) ==
  /\ run[r] = "removing"
  /\ Goto(r, "leaving")
  /\ \/ Works /\ record' = "none" /\ UNCHANGED excuses
     \/ Fails /\ UNCHANGED record /\ excuses' = excuses \union {"database"}
  /\ UNCHANGED <<upload, docs, disk, sweep, crashes>>

\* The rest of doRun's deferred calls, with the document already gone: the
\* download directory goes, and with it the file the run uploaded, and then the
\* browser is cancelled (a stop has cancelled it before).
RemoveDownloadDir(r) ==
  /\ run[r] = "leaving"
  /\ Goto(r, "ended")
  /\ disk' = disk \ {r}
  /\ UNCHANGED <<upload, record, docs, sweep, failures, crashes, excuses>>

-----------------------------------------------------------------------------
(* Expiry, the sweep, and the restart of the process.                      *)

\* ttlSeconds have passed since the document was written.  They are the
\* session's timeout cut to whole seconds, counted from before the browser's
\* own timeout starts, so the run may well be going on.
TtlPasses ==
  /\ record = "fresh"
  /\ record' = "stale"
  /\ UNCHANGED <<run, upload, docs, disk, sweep, failures, crashes, excuses>>

\* Fault: the expiry is compared the wrong way round.
SweepCollectUnexpired(s) ==
  /\ sweep[s] = "idle"
  /\ record = "fresh"
  /\ Works
  /\ SweepGoto(s, "collected")
  /\ UNCHANGED <<run, upload, record, docs, disk, crashes, excuses>>

\* RemoveExpiredSessions collects the ids that are expired now ...
SweepCollect(s) ==
  /\ sweep[s] = "idle"
  /\ record = "stale"
  /\ Works
  /\ SweepGoto(s, "collected")
  /\ UNCHANGED <<run, upload, record, docs, disk, crashes, excuses>>

\* ... cleans up the files of each ...
SweepFind(s) ==
  /\ sweep[s] = "collected"
  /\ \/ Works /\ disk' = disk \ docs /\ SweepGoto(s, "purging")
     \/ Fails /\ UNCHANGED disk /\ SweepGoto(s, "deleting")
  /\ UNCHANGED <<run, upload, record, docs, crashes, excuses>>

SweepPurge(s) ==
  /\ sweep[s] = "purging"
  /\ SweepGoto(s, "deleting")
  /\ \/ Works /\ docs' = {}
     \/ Fails /\ UNCHANGED docs
  /\ UNCHANGED <<run, upload, record, disk, crashes, excuses>>

\* Fault: the sweeper does not come back for another sweep.
SweepDeleteOnce(s) ==
  /\ sweep[s] = "deleting"
  /\ Works
  /\ SweepGoto(s, "over")
  /\ record' = "none"
  /\ excuses' = excuses \union IF Registered # {} THEN {"sweep"} ELSE {}
  /\ UNCHANGED <<run, upload, docs, disk, crashes>>

\* Fault: a document that is not expired by now is spared.
SweepDeleteExpired(s) ==
  /\ sweep[s] = "deleting"
  /\ SweepGoto(s, "idle")
  /\ Works
  /\ record' = IF record = "stale" THEN "none" ELSE record
  /\ excuses' = excuses \union
       IF record = "stale" /\ Registered # {} THEN {"sweep"} ELSE {}
  /\ UNCHANGED <<run, upload, docs, disk, crashes>>

\* ... and deletes the documents with those ids, whatever they say by now.
SweepDelete(s) ==
  /\ sweep[s] = "deleting"
  /\ SweepGoto(s, "idle")
  /\ \/ /\ Works /\ record' = "none"
        /\ excuses' = excuses \union IF Registered # {} THEN {"sweep"} ELSE {}
     \/ Fails /\ UNCHANGED <<record, excuses>>
  /\ UNCHANGED <<run, upload, docs, disk, crashes>>

\* The process dies and comes back: browsers and sweeps are gone, the
\* documents and the files are not.
Crash ==
  /\ crashes < MaxCrashes
  /\ crashes' = crashes + 1
  /\ run' = [r \in Runs |-> IF r \in Live THEN "crashed" ELSE run[r]]
  /\ sweep' = [s \in Sweepers |-> "idle"]
  /\ UNCHANGED <<upload, record, docs, disk, failures, excuses>>

-----------------------------------------------------------------------------
RunStep(r) ==
  \/ Start(r) \/ BootFails(r) \/ Register(r) \/ Download(r) \/ RecordTempFile(r)
  \/ EndRun(r) \/ CleanupFind(r) \/ CleanupDelete(r) \/ RemoveActiveSession(r)
  \/ RemoveDownloadDir(r)

SweepStep(s) == SweepCollect(s) \/ SweepFind(s) \/ SweepPurge(s) \/ SweepDelete(s)

Next ==
  \/ \E r \in Runs : RunStep(r)
  \/ \E s \in Sweepers : SweepStep(s)
  \/ TtlPasses \/ Crash

\* Time passes, cleanupActiveSessionsLoop ticks every minute, and a session
\* that has begun to end goes on; nothing says that it ends.
Fairness ==
  /\ WF_vars(TtlPasses)
  /\ \A s \in Sweepers : WF_vars(SweepStep(s))
  /\ \A r \in Runs :
       WF_vars(CleanupFind(r) \/ CleanupDelete(r) \/ RemoveActiveSession(r) \/ RemoveDownloadDir(r))

SafeSpec == Init /\ [][Next]_vars
Spec == SafeSpec /\ Fairness

-----------------------------------------------------------------------------
TypeOK ==
  /\ run \in [Runs -> {"idle", "refused", "booting", "running", "ending", "purging",
                       "removing", "leaving", "ended", "crashed"}]
  /\ upload \in [Runs -> {"none", "downloaded", "attached"}]
  /\ record \in {"none", "fresh", "stale"}
  /\ docs \subseteq Runs
  /\ disk \subseteq Runs
  /\ sweep \in [Sweepers -> {"idle", "collected", "purging", "deleting"}]
  /\ failures \in 0..MaxFailures
  /\ crashes \in 0..MaxCrashes
  /\ excuses \subseteq {"booting", "leaving", "sweep", "database"}

\* The start endpoint keeps a session id to one browser ("session is still
\* active, not starting it again"), from its start to its cancellation, and the
\* registry shows it while its programs run.  The four ways out: a start came
\* while another was still bringing its browser up, or while one whose document
\* was gone had not yet cancelled its own; a sweep deleted the document of a
\* session that ran; or the database failed.
OneBrowser ==
  excuses = {} =>
    /\ \A q, r \in Live : q = r
    /\ Registered # {} => record # "none"

\* When no run is under way, none was cut off by a restart and no operation of
\* a run failed, nothing is left behind: no document, no record, no file.
QuietIsClean ==
  ("database" \notin excuses /\ \A r \in Runs : run[r] \in {"idle", "refused", "ended"})
    => record = "none" /\ docs = {} /\ disk = {}

\* A document that no browser stands behind (its process died, or the removal
\* failed) does not refuse starts for ever.
DeadRecordGoesAway ==
  (record # "none" /\ Live = {}) ~> (record = "none" \/ Live # {})

\* A file handed to the page stays while its session runs (browser.go: "we
\* can't remove temp file right away, need to wait until session is deleted"),
\* except for a sweep of the id, and that sweep takes the document too: a
\* session is never left registered with its file gone, unless two browsers
\* shared the id or an operation failed.
FileGoesWithRecord ==
  excuses = {} /\ failures = 0 =>
    \A r \in Runs : run[r] = "running" /\ upload[r] = "attached" /\ r \notin disk =>
      \E s \in Sweepers : sweep[s] \in {"purging", "deleting"}
=============================================================================
