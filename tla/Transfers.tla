------------------------------ MODULE Transfers ------------------------------
(***************************************************************************)
(* File transfers of the Electron application: the queue of jobs           *)
(* (frontend/util/transferqueue.ts) that the main process keeps and saves  *)
(* (emain/transfer/, emain/emain-ipc.ts), and those that work on a job: a  *)
(* native download item, a folder download stream, or a renderer that      *)
(* copies and reports back.  All of them outlive what the user does        *)
(* meanwhile: cancel, retry, clear, reload or close the window, quit.      *)
(*                                                                         *)
(* An IPC handler or event listener runs to its next await, so it is one   *)
(* action.  Electron is external: a download that was asked for gets its   *)
(* item at any time, and an item ends at any time, however.                *)
(***************************************************************************)
EXTENDS Integers, FiniteSets, SequencesExt

CONSTANTS
  Files, Folders, Uploads,  \* job ids: file downloads, folder downloads, uploads and copies
  Windows,                  \* the webContents of the renderers
  Workers,                  \* the workers of a batch download
  None,                     \* no window, no job
  MaxTransferJobs,
  MaxAttempt,               \* bound of the model: attempts of a job
  MaxRestarts               \* bound of the model: restarts of the application

Jobs == Files \cup Folders \cup Uploads

TransfersAssumption ==
  /\ Files \cap Folders = {} /\ Files \cap Uploads = {} /\ Folders \cap Uploads = {}
  /\ None \notin Windows \cup Jobs
  /\ IsFiniteSet(Jobs)
  /\ MaxTransferJobs \in Nat /\ MaxAttempt \in Nat \ {0} /\ MaxRestarts \in Nat

VARIABLES
  jobs,      \* the queue: a record per job id, those not in the queue included
  handles,   \* cancelHandles: the attempt whose worker a cancel reaches, or 0
  pending,   \* pendingNativeDownloads: the (job, attempt) of each URL asked for
  items,     \* native download items attached to a job
  runners,   \* folder downloads in progress
  owners,    \* rendererTransferJobOwners
  windows,   \* renderers alive
  intents,   \* (window, job): a renderer about to begin a job
  copies,    \* copies in progress in a renderer
  batch,     \* jobs of the batch no worker has taken
  sender,    \* the window that asked for the batch
  workers,   \* the job each worker of the batch waits for
  saved,     \* transfers.json
  dirty,     \* a save is due
  restarts

nativeVars == <<handles, pending, items>>
rendererVars == <<owners, intents, copies>>
batchVars == <<batch, sender>>
vars == <<jobs, nativeVars, runners, rendererVars, windows, batchVars, workers,
          saved, dirty, restarts>>

Active == {"queued", "running"}
Terminal == {"completed", "failed", "canceled"}
Job == [status : Active \cup Terminal \cup {"new", "gone"}, attempt : 0 .. MaxAttempt,
        cancelRequested : BOOLEAN, retryable : BOOLEAN, at : Nat]
NewJob == [status |-> "new", attempt |-> 0, cancelRequested |-> FALSE, retryable |-> TRUE, at |-> 0]
Gone == [NewJob EXCEPT !.status = "gone"]

Init ==
  /\ jobs = [j \in Jobs |-> NewJob] /\ saved = jobs
  /\ handles = [j \in Jobs |-> 0] /\ pending = {} /\ items = {} /\ runners = {}
  /\ owners = [j \in Jobs |-> None] /\ windows = Windows /\ intents = {} /\ copies = {}
  /\ batch = <<>> /\ sender = None /\ workers = [b \in Workers |-> None]
  /\ dirty = FALSE /\ restarts = 0

-----------------------------------------------------------------------------
(* The queue: functions from a queue to the next one.                       *)
Present(q) == {j \in Jobs : q[j].status \notin {"new", "gone"}}
Inactive(q) == {j \in Jobs : q[j].status \in Terminal}

(* pruneTransferQueue: above the cap the oldest terminal jobs go.           *)
Pruned(q) ==
  LET excess == Cardinality(Present(q)) - MaxTransferJobs
  IN  [j \in Jobs |-> IF j \in Inactive(q) /\ Cardinality({i \in Inactive(q) : q[i].at < q[j].at}) < excess
                        THEN Gone ELSE q[j]]

(* The jobs of js, in a queue that knows nothing of them yet.               *)
Added(q, js, attempt) ==
  [j \in Jobs |->
     IF j \in Range(js)
       THEN [NewJob EXCEPT !.status = "queued", !.attempt = attempt,
               !.at = Cardinality({i \in Jobs : q[i].status # "new"}) + CHOOSE n \in DOMAIN js : js[n] = j]
       ELSE q[j]]

(* Mutant: the first attempt is number 0.                                   *)
EnqueuedMutant(q, js) == Pruned(Added(q, js, 0))

(* enqueueTransferJob, for one job after the other: that the queue is       *)
(* pruned after each of them makes no difference, for they are all active.  *)
(* Ids are never used twice.                                                *)
Enqueued(q, js) == Pruned(Added(q, js, 1))

Started(q, j) == [q EXCEPT ![j].status = "running"]

(* Mutant: a late outcome replaces the one the job already has.             *)
EndedMutant(q, j, status) ==
  IF j \in Present(q) THEN [q EXCEPT ![j].status = status] ELSE q

(* completeTransferJob, failTransferJob, cancelTransferJob: the first       *)
(* outcome stands.  A job no longer in the queue throws, which the caller   *)
(* catches; so does completing one that has not started.                    *)
Ended(q, j, status) ==
  IF q[j].status = "running" \/ (q[j].status = "queued" /\ status # "completed")
    THEN [q EXCEPT ![j].status = status] ELSE q

FailedForGood(q, j) == [Ended(q, j, "failed") EXCEPT ![j].retryable = FALSE]

CancelRequested(q, j) ==
  IF q[j].status = "queued" THEN Ended(q, j, "canceled")
  ELSE IF q[j].status = "running" THEN [q EXCEPT ![j].cancelRequested = TRUE] ELSE q

Retried(q, j) ==
  [q EXCEPT ![j].status = "queued", ![j].attempt = @ + 1, ![j].cancelRequested = FALSE]

Cleared(q) == [j \in Jobs |-> IF j \in Inactive(q) THEN Gone ELSE q[j]]

(* Mutant: jobs that had not started are left to start later.               *)
RecoveredMutant(q) ==
  [j \in Jobs |-> IF q[j].status = "running" THEN [q[j] EXCEPT !.status = "failed"] ELSE q[j]]

(* recoverTransferQueue: what was active when the application ended failed. *)
Recovered(q) ==
  Pruned([j \in Jobs |-> IF q[j].status \in Active THEN [q[j] EXCEPT !.status = "failed"] ELSE q[j]])

(* A batch worker whose job has ended is free; one with a folder download   *)
(* waits for that first.                                                    *)
Settled(q, rs, ws) ==
  [b \in Workers |-> IF ws[b] \in Jobs /\ q[ws[b]].status \notin Active /\ \A r \in rs : r.worker # b
                       THEN None ELSE ws[b]]

(* The tracker's commit: subscribers hear of the new queue at once, and the *)
(* save is scheduled.                                                       *)
Commit(q, rs, ws) ==
  /\ jobs' = q /\ dirty' = TRUE /\ runners' = rs /\ workers' = Settled(q, rs, ws)

-----------------------------------------------------------------------------
(* Downloads                                                                *)

(* Mutant: a download that could not be started is not failed.              *)
StartFileMutant(q, j, ws) ==
  /\ Commit(Started(q, j), runners, ws)
  /\ \/ pending' = pending \cup {[job |-> j, attempt |-> q[j].attempt]}
     \/ UNCHANGED pending
  /\ UNCHANGED <<handles, items>>

(* startTrackedFileDownload: every attempt has a URL of its own.  Asking    *)
(* the renderer's session for it can throw.                                 *)
StartFile(q, j, ws) ==
  \/ /\ Commit(Started(q, j), runners, ws)
     /\ pending' = pending \cup {[job |-> j, attempt |-> q[j].attempt]}
     /\ UNCHANGED <<handles, items>>
  \/ Commit(Ended(q, j, "failed"), runners, ws) /\ UNCHANGED nativeVars

Runner(q, j, b) == [job |-> j, attempt |-> q[j].attempt, cancel |-> FALSE, stopping |-> FALSE, worker |-> b]

(* startTrackedFolderDownload, until its first await.                       *)
StartFolder(q, j, b, ws) ==
  /\ Commit(Started(q, j), runners \cup {Runner(q, j, b)}, ws)
  /\ handles' = [handles EXCEPT ![j] = q[j].attempt]
  /\ UNCHANGED <<pending, items>>

(* "download" and "download-folder": one job, asked for by a renderer.      *)
Download(j) ==
  /\ windows # {} /\ jobs[j].status = "new"
  /\ \/ j \in Files /\ StartFile(Enqueued(jobs, <<j>>), j, workers)
     \/ j \in Folders /\ StartFolder(Enqueued(jobs, <<j>>), j, None, workers)
  /\ UNCHANGED <<rendererVars, windows, batchVars, saved, restarts>>

(* "download-files", after its dialogs: all are enqueued, then each worker  *)
(* takes the next one.  One batch at a time is a bound of the model.        *)
DownloadBatch(w, js) ==
  /\ w \in windows /\ \A j \in Range(js) : jobs[j].status = "new"
  /\ batch = <<>> /\ \A b \in Workers : workers[b] = None
  /\ Commit(Enqueued(jobs, js), runners, workers)
  /\ batch' = js /\ sender' = w
  /\ UNCHANGED <<nativeVars, rendererVars, windows, saved, restarts>>

(* A worker of the batch takes the next job, up to the await on it.         *)
TakeNext(b) ==
  LET j == Head(batch)
      taken == [workers EXCEPT ![b] = j]
  IN
  /\ batch # <<>> /\ workers[b] = None
  /\ batch' = Tail(batch)
  /\ \/ jobs[j].status # "queued" /\ UNCHANGED <<jobs, dirty, nativeVars, runners, workers>>
     \/ /\ jobs[j].status = "queued" /\ sender \notin windows
        /\ Commit(Ended(jobs, j, "canceled"), runners, taken) /\ UNCHANGED nativeVars
     \/ /\ jobs[j].status = "queued" /\ sender \in windows
        /\ \/ Commit(FailedForGood(jobs, j), runners, taken) /\ UNCHANGED nativeVars
           \/ Commit(Ended(jobs, j, "failed"), runners, taken) /\ UNCHANGED nativeVars
           \/ j \in Folders /\ StartFolder(jobs, j, b, taken)
           \/ j \in Files /\ StartFile(jobs, j, taken)
  /\ UNCHANGED <<rendererVars, windows, sender, saved, restarts>>

(* "will-download" and attachNativeDownloadItem: the item of a URL is       *)
(* looked up by job id, and canceled when the job does not run.             *)
WillDownload(u) ==
  /\ u \in pending
  /\ pending' = pending \ {u}
  /\ IF jobs[u.job].status = "running"
       THEN /\ items' = items \cup {[job |-> u.job, attempt |-> u.attempt, canceled |-> FALSE]}
            /\ handles' = [handles EXCEPT ![u.job] = u.attempt]
       ELSE UNCHANGED <<items, handles>>
  /\ UNCHANGED <<jobs, runners, rendererVars, windows, batchVars, workers, saved, dirty, restarts>>

(* "done" of a download item.                                               *)
ItemDone(i) ==
  /\ i \in items
  /\ items' = items \ {i}
  /\ handles' = [handles EXCEPT ![i.job] = 0]
  /\ \E status \in IF i.canceled THEN {"canceled"} ELSE Terminal :
       Commit(Ended(jobs, i.job, status), runners, workers)
  /\ UNCHANGED <<pending, rendererVars, windows, batchVars, saved, restarts>>

IsCurrent(r) == jobs[r.job].attempt = r.attempt /\ r.job \in Present(jobs)

(* The end of startTrackedFolderDownload; its job gets `status` if that is  *)
(* one.                                                                     *)
RunnerEnds(r, status) ==
  /\ Commit(IF status \in Terminal THEN Ended(jobs, r.job, status) ELSE jobs, runners \ {r}, workers)
  /\ handles' = IF IsCurrent(r) THEN [handles EXCEPT ![r.job] = 0] ELSE handles
  /\ UNCHANGED <<pending, items, rendererVars, windows, batchVars, saved, restarts>>

(* The stream's last message: the attempt counts only if it is current.     *)
RunnerDone(r) == r \in runners /\ ~r.stopping /\ RunnerEnds(r, IF IsCurrent(r) THEN "completed" ELSE "none")

(* The stream, or the wait for its end after a cancel, fails.               *)
RunnerError(r) ==
  /\ r \in runners
  /\ RunnerEnds(r, IF ~IsCurrent(r) THEN "none" ELSE IF r.cancel THEN "canceled" ELSE "failed")

(* Progress of an attempt that is not current: the stream is closed.        *)
RunnerObsolete(r) == r \in runners /\ ~r.stopping /\ ~IsCurrent(r) /\ RunnerEnds(r, "none")

(* Progress after a cancel: the stream is asked to stop, and awaited.       *)
RunnerStops(r) ==
  /\ r \in runners /\ ~r.stopping /\ r.cancel /\ IsCurrent(r)
  /\ runners' = (runners \ {r}) \cup {[r EXCEPT !.stopping = TRUE]}
  /\ UNCHANGED <<jobs, nativeVars, rendererVars, windows, batchVars, workers, saved, dirty, restarts>>

(* It has stopped: the job is canceled, by its id.                          *)
RunnerStopped(r) == r \in runners /\ r.stopping /\ RunnerEnds(r, "canceled")

-----------------------------------------------------------------------------
(* Uploads and copies, done by a renderer                                   *)

EnqueueUpload(w, j) ==
  /\ w \in windows /\ jobs[j].status = "new"
  /\ Commit(Enqueued(jobs, <<j>>), runners, workers)
  /\ owners' = [owners EXCEPT ![j] = w]
  /\ intents' = intents \cup {<<w, j>>}
  /\ UNCHANGED <<nativeVars, copies, windows, batchVars, saved, restarts>>

Copy(w, j, phase) ==
  [window |-> w, job |-> j, attempt |-> jobs[j].attempt, phase |-> phase, abort |-> FALSE, outcome |-> "none"]

(* beginTransferJob; a job that is not queued is not begun.                 *)
Begin(w, j) ==
  /\ <<w, j>> \in intents
  /\ intents' = intents \ {<<w, j>>}
  /\ IF jobs[j].status = "queued"
       THEN /\ Commit(Started(jobs, j), runners, workers)
            /\ owners' = [owners EXCEPT ![j] = w]
            /\ copies' = copies \cup {Copy(w, j, "begun")}
       ELSE UNCHANGED <<jobs, dirty, runners, workers, owners, copies>>
  /\ UNCHANGED <<nativeVars, windows, batchVars, saved, restarts>>

CopyStep(c, next) ==
  /\ c \in copies
  /\ copies' = (copies \ {c}) \cup {next}
  /\ UNCHANGED <<jobs, nativeVars, runners, owners, intents, windows, batchVars, workers, saved, dirty, restarts>>

Reports(c, outcome) == [c EXCEPT !.phase = "done", !.outcome = outcome]

(* runTrackedUpload hears of a cancel, or its view is closed: a prompt is   *)
(* closed, an RPC that copies goes on.                                      *)
CopyAborted(c) ==
  /\ c.phase \in {"begun", "copying", "prompt"} /\ ~c.abort
  /\ CopyStep(c, IF c.phase = "prompt" THEN Reports(c, "canceled") ELSE [c EXCEPT !.abort = TRUE])

(* copyWithOverwriteConfirmation: an abort counts before the copy and       *)
(* before the prompt, and what is there is overwritten only when the user   *)
(* says so.                                                                 *)
CopyProceeds(c) ==
  \/ c.phase = "begun" /\ CopyStep(c, IF c.abort THEN Reports(c, "canceled") ELSE [c EXCEPT !.phase = "copying"])
  \/ c.phase \in {"copying", "confirmed"} /\ \E o \in {"completed", "failed"} : CopyStep(c, Reports(c, o))
  \/ c.phase = "copying" /\ CopyStep(c, IF c.abort THEN Reports(c, "canceled") ELSE [c EXCEPT !.phase = "prompt"])
  \/ c.phase = "prompt" /\ CopyStep(c, [c EXCEPT !.phase = "confirmed"])
  \/ c.phase = "prompt" /\ CopyStep(c, Reports(c, "canceled"))

(* finishTransferJob                                                        *)
Finish(c) ==
  /\ c \in copies /\ c.phase = "done"
  /\ copies' = copies \ {c}
  /\ owners' = [owners EXCEPT ![c.job] = None]
  /\ \/ Commit(Ended(jobs, c.job, c.outcome), runners, workers)
     \/ c.outcome = "failed" /\ Commit(FailedForGood(jobs, c.job), runners, workers)
  /\ UNCHANGED <<nativeVars, intents, windows, batchVars, saved, restarts>>

-----------------------------------------------------------------------------
(* What the user does                                                       *)

(* Mutant: an upload that runs is canceled outright.                        *)
CancelMutant(j) ==
  /\ jobs[j].status \in Active /\ handles[j] = 0
  /\ Commit(Ended(jobs, j, "canceled"), runners, workers)
  /\ UNCHANGED <<nativeVars, rendererVars, windows, batchVars, saved, restarts>>

(* The cancel channel: through the handle of the job, if there is one.  An  *)
(* upload that runs is only asked to stop.                                  *)
Cancel(j) ==
  LET reached(x) == x.job = j /\ x.attempt = handles[j]
  IN
  /\ jobs[j].status \in Active
  /\ IF handles[j] # 0
       THEN /\ handles' = [handles EXCEPT ![j] = 0]
            /\ items' = {IF reached(i) THEN [i EXCEPT !.canceled = TRUE] ELSE i : i \in items}
            /\ Commit(IF j \in Folders THEN CancelRequested(jobs, j) ELSE Ended(jobs, j, "canceled"),
                      {IF reached(r) THEN [r EXCEPT !.cancel = TRUE] ELSE r : r \in runners}, workers)
       ELSE /\ UNCHANGED <<handles, items>>
            /\ Commit(IF j \in Uploads THEN CancelRequested(jobs, j) ELSE Ended(jobs, j, "canceled"),
                      runners, workers)
  /\ UNCHANGED <<pending, rendererVars, windows, batchVars, saved, restarts>>

(* The retry channel: a download starts at once, an upload when the         *)
(* renderer that asked begins it.                                           *)
Retry(w, j) ==
  LET q == Retried(jobs, j)
  IN
  /\ w \in windows
  /\ jobs[j].status \in {"failed", "canceled"} /\ jobs[j].retryable
  /\ jobs[j].attempt < MaxAttempt
  /\ \/ j \in Files /\ StartFile(q, j, workers) /\ UNCHANGED rendererVars
     \/ j \in Folders /\ StartFolder(q, j, None, workers) /\ UNCHANGED rendererVars
     \/ /\ j \in Uploads
        /\ Commit(q, runners, workers)
        /\ owners' = [owners EXCEPT ![j] = w]
        /\ intents' = intents \cup {<<w, j>>}
        /\ UNCHANGED <<nativeVars, copies>>
  /\ UNCHANGED <<windows, batchVars, saved, restarts>>

ClearInactive ==
  /\ Inactive(jobs) # {}
  /\ Commit(Cleared(jobs), runners, workers)
  /\ UNCHANGED <<nativeVars, rendererVars, windows, batchVars, saved, restarts>>

Abandoned(w) ==
  /\ intents' = {i \in intents : i[1] # w}
  /\ copies' = {c \in copies : c.window # w}

(* failRendererTransferJobs                                                 *)
Interrupted(w) ==
  [j \in Jobs |-> IF owners[j] = w THEN Ended(jobs, j, "failed")[j] ELSE jobs[j]]

CloseWindow(w) ==
  /\ w \in windows
  /\ windows' = windows \ {w}
  /\ Abandoned(w)
  /\ owners' = [j \in Jobs |-> IF owners[j] = w THEN None ELSE owners[j]]
  /\ Commit(Interrupted(w), runners, workers)
  /\ UNCHANGED <<nativeVars, batchVars, saved, restarts>>

(* A renderer is reloaded, by the user or after it crashed: its code is     *)
(* gone, its webContents is not.                                            *)
Reload(w) ==
  /\ w \in windows
  /\ Abandoned(w)
  /\ UNCHANGED <<jobs, nativeVars, runners, owners, windows, batchVars, workers, saved, dirty, restarts>>

-----------------------------------------------------------------------------
(* makeTransferQueuePersistence: a flush takes the queue as it is; a write  *)
(* that fails is given up.  Bound of the model: no flush that no start will *)
(* read.                                                                    *)
Flush ==
  /\ dirty /\ dirty' = FALSE /\ restarts < MaxRestarts
  /\ saved' \in {jobs, saved}
  /\ UNCHANGED <<jobs, nativeVars, runners, rendererVars, windows, batchVars, workers, restarts>>

(* The application ends, with the flush of before-quit or without, and      *)
(* starts again from the file.                                              *)
Restart ==
  /\ restarts < MaxRestarts /\ restarts' = restarts + 1
  /\ saved' \in {saved, jobs}
  /\ jobs' = Recovered(saved') /\ dirty' = TRUE
  /\ handles' = [j \in Jobs |-> 0] /\ pending' = {} /\ items' = {} /\ runners' = {}
  /\ owners' = [j \in Jobs |-> None] /\ windows' = Windows /\ intents' = {} /\ copies' = {}
  /\ batch' = <<>> /\ sender' = None /\ workers' = [b \in Workers |-> None]

Batches == {js \in UNION {[1 .. n -> Files \cup Folders] : n \in 1 .. Cardinality(Jobs)} : IsInjective(js)}

Downloads ==
  \/ \E j \in Files \cup Folders : Download(j)
  \/ \E w \in Windows, js \in Batches : DownloadBatch(w, js)
  \/ \E b \in Workers : TakeNext(b)
  \/ \E u \in pending : WillDownload(u)
  \/ \E i \in items : ItemDone(i)
  \/ \E r \in runners : RunnerDone(r) \/ RunnerError(r) \/ RunnerObsolete(r) \/ RunnerStops(r) \/ RunnerStopped(r)

Renderers ==
  \/ \E w \in Windows, j \in Uploads : EnqueueUpload(w, j) \/ Begin(w, j)
  \/ \E c \in copies : CopyAborted(c) \/ CopyProceeds(c) \/ Finish(c)
  \/ \E w \in Windows : CloseWindow(w) \/ Reload(w)

Next ==
  \/ Downloads \/ Renderers
  \/ \E j \in Jobs : Cancel(j) \/ \E w \in Windows : Retry(w, j)
  \/ ClearInactive \/ Flush \/ Restart

Spec == Init /\ [][Next]_vars

-----------------------------------------------------------------------------
TypeOK ==
  /\ jobs \in [Jobs -> Job] /\ saved \in [Jobs -> Job]
  /\ handles \in [Jobs -> 0 .. MaxAttempt]
  /\ pending \subseteq [job : Files, attempt : 1 .. MaxAttempt]
  /\ items \subseteq [job : Files, attempt : 1 .. MaxAttempt, canceled : BOOLEAN]
  /\ runners \subseteq [job : Folders, attempt : 1 .. MaxAttempt, cancel : BOOLEAN, stopping : BOOLEAN,
                        worker : Workers \cup {None}]
  /\ owners \in [Jobs -> Windows \cup {None}] /\ windows \subseteq Windows
  /\ intents \subseteq Windows \X Uploads
  /\ copies \subseteq [window : Windows, job : Uploads, attempt : 1 .. MaxAttempt, abort : BOOLEAN,
                       phase : {"begun", "copying", "prompt", "confirmed", "done"},
                       outcome : Terminal \cup {"none"}]
  /\ batch \in Seq(Files \cup Folders) /\ sender \in Windows \cup {None}
  /\ workers \in [Workers -> Files \cup Folders \cup {None}]
  /\ dirty \in BOOLEAN /\ restarts \in 0 .. MaxRestarts

Runs(j) == jobs[j].status = "running"

(* A download that is shown as running is being worked on, by the attempt   *)
(* it is at: no cancel, retry, prune, failure or restart leaves a job that  *)
(* runs for ever.                                                           *)
RunningIsServed ==
  \A j \in Jobs : Runs(j) =>
    \/ j \in Files /\ \E x \in pending \cup items : x.job = j /\ x.attempt = jobs[j].attempt
    \/ j \in Folders /\ \E r \in runners : r.job = j /\ r.attempt = jobs[j].attempt
    \/ j \in Uploads /\ owners[j] \in windows

(* A queued job has somebody who will start it or fail it: a batch that has *)
(* not come to it, or a window.                                             *)
QueuedIsWaitedFor ==
  \A j \in Jobs : jobs[j].status = "queued" =>
    j \in Range(batch) \/ (j \in Uploads /\ owners[j] \in windows)

(* A renderer reports the outcome of a copy by the id of its job only; the  *)
(* job is then always still at the attempt the copy was begun for.          *)
ReportsItsAttempt ==
  \A c \in copies : Runs(c.job) /\ jobs[c.job].attempt = c.attempt

(* A job leaves the queue only when it has ended, and what has ended stays  *)
(* as it ended until the user retries it, however many outcomes come late.  *)
OutcomeStands ==
  [][\A j \in Jobs : restarts' = restarts =>
       /\ jobs[j].status \in Active => jobs'[j].status \in Active \cup Terminal
       /\ jobs[j].status \in Terminal =>
            jobs'[j].status \in {jobs[j].status, "gone"} \/ jobs'[j].attempt = jobs[j].attempt + 1]_vars

(* An upload under way is called canceled only when its copy was not made.  *)
CancelIsHonest ==
  [][\A j \in Uploads : Runs(j) /\ jobs'[j].status = "canceled" /\ restarts' = restarts =>
       \E c \in copies : c.job = j /\ c.phase = "done" /\ c.outcome = "canceled"]_vars

(* emain-ipc.ts:253: jobs a renderer drives are "failed as interrupted when *)
(* it goes away instead of staying running forever".  Refuted by Reload.    *)
UploadsAreServed == \A j \in Uploads : Runs(j) => \E c \in copies : c.job = j
=============================================================================
