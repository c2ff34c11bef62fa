-------------------------- MODULE ApplicationProofs --------------------------
(***************************************************************************)
(* Proofs about three components of the Electron application:              *)
(* Transfers.tla, for every number of jobs, renderers, batch workers,      *)
(* attempts and restarts and every size of the queue; TermSync.tla, for    *)
(* every size of the file and every number of appends, truncations, lost   *)
(* events, failed requests, saves and openings; WindowQueue.tla, for every *)
(* set of workspaces and tabs and every number of operations of the user   *)
(* and calls that fail; and Application.tla, where they run side by side.  *)
(***************************************************************************)
EXTENDS Application, FiniteSetTheorems, SequenceTheorems, TLAPS

(* Transfers: what always holds                                             *)

Queue == [Jobs -> Job]
Downloadable == Files \cup Folders

(* What is under way has been counted as an attempt.                        *)
Counted == \A j \in Jobs : jobs[j].status \in Active => jobs[j].attempt >= 1

(* No cancel reaches an upload through a handle, and a renderer that lives  *)
(* owns each that is active.                                                *)
UploadsOwned ==
  \A j \in Uploads : handles[j] = 0 /\ (jobs[j].status \in Active => owners[j] \in windows)

(* A copy belongs to the renderer that owns its job, and is of the attempt  *)
(* that runs; only a renderer that lives is about to begin one.             *)
CopiesBelong ==
  /\ \A c \in copies :
       /\ Runs(c.job) /\ jobs[c.job].attempt = c.attempt /\ owners[c.job] = c.window
       /\ c.phase = "done" => c.outcome \in Terminal
  /\ \A c, d \in copies : c.job = d.job => c = d
  /\ \A i \in intents : i[1] \in windows

FilesServed ==
  \A j \in Files : Runs(j) => \E x \in pending \cup items : x.job = j /\ x.attempt = jobs[j].attempt
FoldersServed ==
  \A j \in Folders : Runs(j) => \E r \in runners : r.job = j /\ r.attempt = jobs[j].attempt
QueuedInBatch == \A j \in Downloadable : jobs[j].status = "queued" => j \in Range(batch)

UploadInv == UploadsOwned /\ CopiesBelong
DownloadInv == FilesServed /\ FoldersServed /\ QueuedInBatch

Inv == TypeOK /\ Counted /\ UploadInv /\ DownloadInv

(* What a step does to one job, as OutcomeStands and CancelIsHonest see it. *)
Outcome(a, b) ==
  /\ a.status \in Active => b.status \in Active \cup Terminal
  /\ a.status \in Terminal => b.status \in {a.status, "gone"} \/ b.attempt = a.attempt + 1

Stands == restarts' = restarts => \A j \in Jobs : Outcome(jobs[j], jobs'[j])
Honest ==
  \A j \in Uploads : Runs(j) /\ jobs'[j].status = "canceled" /\ restarts' = restarts =>
    \E c \in copies : c.job = j /\ c.phase = "done" /\ c.outcome = "canceled"

(* What each step is shown to do.                                           *)
Kept == Inv' /\ Stands /\ Honest

-----------------------------------------------------------------------------
(* The queue's functions.                                                   *)

(* A job is as it was, or it had ended and was dropped.                     *)
Stays(a, b) == b = a \/ (a.status \in Terminal /\ b = Gone)

(* The records of jobs that are new or gone are records of jobs.            *)
LEMMA Records ==
  ASSUME TransfersAssumption
  PROVE  NewJob \in Job /\ Gone \in Job /\ Gone.status = "gone"
<1>1. 0 \in 0 .. MaxAttempt /\ 0 \in Nat
  BY DEF TransfersAssumption
<1>2. NewJob \in Job
  BY <1>1 DEF NewJob, Job
<1>3. Gone.status = "gone"
  BY DEF Gone, NewJob
<1>4. Gone \in Job
  BY <1>2 DEF Gone, Job
<1> QED
  BY <1>2, <1>3, <1>4

(* Pruning drops ended jobs only.                                           *)
LEMMA PrunedStays ==
  ASSUME TransfersAssumption, NEW q \in Queue
  PROVE  Pruned(q) \in Queue /\ \A j \in Jobs : Stays(q[j], Pruned(q)[j])
<1>1. ASSUME NEW j \in Jobs PROVE Pruned(q)[j] \in Job /\ Stays(q[j], Pruned(q)[j])
  BY Records DEF Pruned, Queue, Stays, Inactive
<1>2. Pruned(q) = [j \in Jobs |-> Pruned(q)[j]]
  BY DEF Pruned
<1> QED
  BY <1>1, <1>2 DEF Queue

(* So does clearing.                                                        *)
LEMMA ClearedStays ==
  ASSUME TransfersAssumption, NEW q \in Queue
  PROVE  Cleared(q) \in Queue /\ \A j \in Jobs : Stays(q[j], Cleared(q)[j])
  BY Records DEF Cleared, Queue, Stays, Inactive

(* Enqueueing new jobs queues them at their first attempt.                  *)
LEMMA EnqueuedIs ==
  ASSUME TransfersAssumption, NEW q \in Queue, NEW js \in Seq(Jobs)
  PROVE  /\ Enqueued(q, js) \in Queue
         /\ \A j \in Range(js) : Enqueued(q, js)[j].status = "queued" /\ Enqueued(q, js)[j].attempt = 1
         /\ \A j \in Jobs \ Range(js) : Stays(q[j], Enqueued(q, js)[j])
<1> DEFINE a == Added(q, js, 1)
<1>1. IsFiniteSet({i \in Jobs : q[i].status # "new"})
  BY FS_Subset DEF TransfersAssumption
<1>2. Cardinality({i \in Jobs : q[i].status # "new"}) \in Nat
  BY <1>1, FS_CardinalityType
<1>3. ASSUME NEW j \in Range(js)
      PROVE  a[j] \in Job /\ a[j].status = "queued" /\ a[j].attempt = 1
  <2>1. j \in Jobs /\ \E n \in DOMAIN js : js[n] = j
    BY DEF Range
  <2>2. (CHOOSE n \in DOMAIN js : js[n] = j) \in Nat
    BY <2>1
  <2> DEFINE at == Cardinality({i \in Jobs : q[i].status # "new"}) + CHOOSE n \in DOMAIN js : js[n] = j
  <2>3. at \in Nat
    BY <1>2, <2>2
  <2>4. a[j] = [NewJob EXCEPT !.status = "queued", !.attempt = 1, !.at = at]
    BY <2>1 DEF Added
  <2> HIDE DEF at, a
  <2>5. 1 \in 0 .. MaxAttempt
    BY DEF TransfersAssumption
  <2> QED
    BY <2>3, <2>4, <2>5 DEF NewJob, Job, Active
<1>4. ASSUME NEW j \in Jobs \ Range(js) PROVE a[j] = q[j]
  BY DEF Added
<1>5. a \in Queue
  <2>1. \A j \in Jobs : a[j] \in Job
    BY <1>3, <1>4 DEF Queue
  <2>2. a = [j \in Jobs |-> a[j]]
    BY DEF Added
  <2> HIDE DEF a
  <2> QED
    BY <2>1, <2>2 DEF Queue
<1>6. Range(js) \subseteq Jobs
  BY DEF Range
<1> HIDE DEF a
<1>7. Pruned(a) \in Queue /\ \A j \in Jobs : Stays(a[j], Pruned(a)[j])
  BY <1>5, PrunedStays
<1>8. Enqueued(q, js) = Pruned(a)
  BY DEF Enqueued, a
<1>9. "queued" \notin Terminal
  BY DEF Terminal
<1> QED
  BY <1>3, <1>4, <1>6, <1>7, <1>8, <1>9 DEF Stays

(* Ending a job touches that job alone, and only when it is active.         *)
LEMMA EndedIs ==
  ASSUME NEW q \in Queue, NEW j \in Jobs, NEW status \in Terminal
  PROVE  /\ Ended(q, j, status) \in Queue
         /\ \A k \in Jobs \ {j} : Ended(q, j, status)[k] = q[k]
         /\ \/ Ended(q, j, status) = q
            \/ q[j].status \in Active /\ Ended(q, j, status)[j].status = status
         /\ q[j].status = "running" \/ (q[j].status = "queued" /\ status # "completed") =>
              Ended(q, j, status)[j].status = status
         /\ Ended(q, j, status)[j].attempt = q[j].attempt
  BY DEF Ended, Queue, Job, Terminal, Active

(* An active job that fails or is canceled ends so.                         *)
LEMMA StoppedIs ==
  ASSUME NEW q \in Queue, NEW j \in Jobs, q[j].status \in Active, NEW status \in {"failed", "canceled"}
  PROVE  /\ Ended(q, j, status) \in Queue
         /\ \A k \in Jobs \ {j} : Ended(q, j, status)[k] = q[k]
         /\ Ended(q, j, status)[j].status = status /\ Ended(q, j, status)[j].attempt = q[j].attempt
  BY DEF Ended, Queue, Job, Terminal, Active

(* Failing an active job for good does no more.                             *)
LEMMA FailedForGoodIs ==
  ASSUME NEW q \in Queue, NEW j \in Jobs, q[j].status \in Active
  PROVE  /\ FailedForGood(q, j) \in Queue
         /\ \A k \in Jobs \ {j} : FailedForGood(q, j)[k] = q[k]
         /\ FailedForGood(q, j)[j].status = "failed"
<1>1. q[j].status \in {"queued", "running"}
  BY DEF Active
<1>2. "failed" \in Terminal /\ "failed" # "completed"
  BY DEF Terminal
<1>3. /\ Ended(q, j, "failed") \in Queue
      /\ \A k \in Jobs \ {j} : Ended(q, j, "failed")[k] = q[k]
      /\ Ended(q, j, "failed")[j].status = "failed"
  BY <1>1, <1>2, EndedIs
<1> QED
  BY <1>3 DEF FailedForGood, Queue, Job

(* Starting a job makes it run, at the attempt it is at.                    *)
LEMMA StartedIs ==
  ASSUME NEW q \in Queue, NEW j \in Jobs
  PROVE  /\ Started(q, j) \in Queue
         /\ \A k \in Jobs \ {j} : Started(q, j)[k] = q[k]
         /\ Started(q, j)[j].status = "running" /\ Started(q, j)[j].attempt = q[j].attempt
  BY DEF Started, Queue, Job, Active

(* A cancel ends a job that is queued, and marks one that runs.             *)
LEMMA CancelRequestedIs ==
  ASSUME NEW q \in Queue, NEW j \in Jobs
  PROVE  /\ CancelRequested(q, j) \in Queue
         /\ \A k \in Jobs \ {j} : CancelRequested(q, j)[k] = q[k]
         /\ CancelRequested(q, j)[j].attempt = q[j].attempt
         /\ q[j].status = "queued" => CancelRequested(q, j)[j].status = "canceled"
         /\ q[j].status # "queued" => CancelRequested(q, j)[j].status = q[j].status
  BY DEF CancelRequested, Ended, Queue, Job, Terminal, Active

(* A retry queues the job for its next attempt.                             *)
LEMMA RetriedIs ==
  ASSUME TransfersAssumption, NEW q \in Queue, NEW j \in Jobs, q[j].attempt < MaxAttempt
  PROVE  /\ Retried(q, j) \in Queue
         /\ \A k \in Jobs \ {j} : Retried(q, j)[k] = q[k]
         /\ Retried(q, j)[j].status = "queued" /\ Retried(q, j)[j].attempt = q[j].attempt + 1
<1>1. q[j] \in Job /\ q[j].attempt + 1 \in 0 .. MaxAttempt
  BY DEF TransfersAssumption, Queue, Job
<1> QED
  BY <1>1 DEF Retried, Queue, Job, Active

(* No job is active after a restart.                                        *)
LEMMA RecoveredIs ==
  ASSUME TransfersAssumption, NEW q \in Queue
  PROVE  Recovered(q) \in Queue /\ \A j \in Jobs : Recovered(q)[j].status \notin Active
<1> DEFINE r == [j \in Jobs |-> IF q[j].status \in Active THEN [q[j] EXCEPT !.status = "failed"] ELSE q[j]]
<1>1. \A j \in Jobs : r[j] \in Job /\ r[j].status \notin Active
  BY DEF Queue, Job, Active, Terminal
<1>2. r \in Queue
  BY <1>1 DEF Queue
<1> HIDE DEF r
<1>3. Pruned(r) \in Queue /\ \A j \in Jobs : Stays(r[j], Pruned(r)[j])
  BY <1>2, PrunedStays
<1>4. Recovered(q) = Pruned(r)
  BY DEF Recovered, r
<1> QED
  BY <1>1, <1>3, <1>4, Records DEF Stays, Active

(* A worker waits for a download or for none.                               *)
LEMMA SettledType ==
  ASSUME NEW q, NEW rs, NEW ws \in [Workers -> Files \cup Folders \cup {None}]
  PROVE  Settled(q, rs, ws) \in [Workers -> Files \cup Folders \cup {None}]
  BY DEF Settled

-----------------------------------------------------------------------------
(* What a step need not look at again.                                      *)

(* A job is as it was, was dropped, or an active one has ended.             *)
Ordinary(a, b) == Stays(a, b) \/ (a.status \in Active /\ b.status \in Terminal)

(* Nothing happens to a job that runs, but that its cancel is asked for.    *)
Gentle(a, b) ==
  \/ Stays(a, b)
  \/ a.status \in Active /\ b.status = a.status /\ b.attempt = a.attempt
  \/ a.status = "queued" /\ b.status \in Terminal

(* The statuses differ, and a job that stays and was active is as it was.   *)
LEMMA Statuses ==
  /\ Active \cap Terminal = {} /\ "new" \notin Active \cup Terminal /\ "gone" \notin Active \cup Terminal
  /\ \A a, b : Stays(a, b) /\ a.status \in Active => b = a
  /\ "queued" \in Active /\ "running" \in Active
  /\ "failed" \in Terminal /\ "canceled" \in Terminal /\ "completed" \in Terminal
  BY DEF Stays, Active, Terminal

(* Ordinary changes keep the attempts counted and outcomes standing.        *)
LEMMA OrdinaryFrame ==
  ASSUME TransfersAssumption, Counted, \A j \in Jobs : Ordinary(jobs[j], jobs'[j])
  PROVE  Counted' /\ Stands
<1>1. ASSUME NEW j \in Jobs
      PROVE  (jobs'[j].status \in Active => jobs'[j] = jobs[j]) /\ Outcome(jobs[j], jobs'[j])
  BY Statuses, Records DEF Ordinary, Stays, Outcome
<1> QED
  BY <1>1 DEF Counted, Stands

(* Where no upload that runs ends, the renderers' part is as it was.        *)
LEMMA UploadFrame ==
  ASSUME TransfersAssumption, TypeOK, UploadInv, UNCHANGED <<owners, intents, copies, windows>>,
         \A j \in Uploads : Gentle(jobs[j], jobs'[j]) /\ handles'[j] = 0
  PROVE  UploadInv' /\ Honest
<1>1. ASSUME NEW j \in Uploads
      PROVE  /\ jobs'[j].status \in Active => jobs[j].status \in Active
             /\ jobs[j].status = "running" => jobs'[j].status = "running" /\ jobs'[j].attempt = jobs[j].attempt
  BY Statuses, Records DEF Gentle, Stays
<1>2. UploadsOwned'
  BY <1>1 DEF UploadInv, UploadsOwned
<1>3. ASSUME NEW c \in copies
      PROVE  jobs'[c.job].status = "running" /\ jobs'[c.job].attempt = jobs[c.job].attempt
  BY <1>1 DEF UploadInv, CopiesBelong, TypeOK, Runs
<1>4. CopiesBelong'
  BY <1>3 DEF UploadInv, CopiesBelong, Runs
<1>5. Honest
  BY <1>1 DEF Honest, Runs
<1> QED
  BY <1>2, <1>4, <1>5 DEF UploadInv

(* A step of the downloads.                                                 *)
LEMMA DownloadMove ==
  ASSUME TransfersAssumption, Inv, TypeOK', DownloadInv', UNCHANGED <<rendererVars, windows>>,
         \A j \in Jobs : Ordinary(jobs[j], jobs'[j]),
         \A j \in Uploads : Stays(jobs[j], jobs'[j]) /\ handles'[j] = 0
  PROVE  Kept
<1>1. Counted' /\ Stands
  BY OrdinaryFrame DEF Inv
<1>2. UploadInv' /\ Honest
  BY UploadFrame DEF Inv, rendererVars, Gentle
<1> QED
  BY <1>1, <1>2 DEF Inv, Kept

(* Where downloads at most end, those that run are served as before.        *)
LEMMA DownloadFrame ==
  ASSUME TransfersAssumption, DownloadInv, UNCHANGED <<pending, items, runners, batch>>,
         \A j \in Downloadable : Ordinary(jobs[j], jobs'[j])
  PROVE  DownloadInv'
<1>1. ASSUME NEW j \in Downloadable PROVE jobs'[j].status \in Active => jobs'[j] = jobs[j]
  BY Statuses, Records DEF Ordinary, Stays, Downloadable, Jobs
<1>2. FilesServed'
  BY <1>1, Statuses DEF DownloadInv, FilesServed, Runs, Downloadable
<1>3. FoldersServed'
  BY <1>1, Statuses DEF DownloadInv, FoldersServed, Runs, Downloadable
<1>4. QueuedInBatch'
  BY <1>1, Statuses DEF DownloadInv, QueuedInBatch
<1> QED
  BY <1>2, <1>3, <1>4 DEF DownloadInv

(* A step of the renderers.                                                 *)
LEMMA RendererMove ==
  ASSUME TransfersAssumption, Inv, TypeOK', UploadInv', Honest, Counted', Stands,
         UNCHANGED <<pending, items, runners, batch>>,
         \A j \in Downloadable : Ordinary(jobs[j], jobs'[j])
  PROVE  Kept
  BY DownloadFrame DEF Inv, Kept

(* Where jobs are only saved, or nothing happens, all is as it was.         *)
LEMMA Unmoved ==
  ASSUME TransfersAssumption, Inv, saved' \in Queue, dirty' \in BOOLEAN,
         UNCHANGED <<jobs, nativeVars, runners, rendererVars, windows, batchVars, workers, restarts>>
  PROVE  Kept
<1>1. TypeOK'
  BY DEF Inv, TypeOK, Queue, nativeVars, rendererVars, batchVars
<1>2. \A j \in Jobs : Stays(jobs[j], jobs'[j]) /\ Ordinary(jobs[j], jobs'[j])
  BY DEF Stays, Ordinary
<1>3. \A j \in Uploads : handles'[j] = 0 /\ j \in Jobs
  BY DEF Inv, UploadInv, UploadsOwned, nativeVars, Jobs
<1>4. DownloadInv'
  BY <1>2, DownloadFrame DEF Inv, nativeVars, batchVars, Downloadable, Jobs
<1> QED
  BY <1>1, <1>2, <1>3, <1>4, DownloadMove

(* The tracker's commit.                                                    *)
LEMMA Committed ==
  ASSUME TypeOK, NEW q \in Queue, NEW rs, NEW ws \in [Workers -> Files \cup Folders \cup {None}],
         Commit(q, rs, ws)
  PROVE  /\ jobs' = q /\ jobs' \in [Jobs -> Job] /\ dirty' \in BOOLEAN /\ runners' = rs
         /\ workers' \in [Workers -> Files \cup Folders \cup {None}]
  BY SettledType DEF Commit, Queue

(* Jobs end or are dropped, and nothing else happens to the downloads.      *)
LEMMA EndingKept ==
  ASSUME TransfersAssumption, Inv, NEW q \in Queue, NEW ws \in [Workers -> Files \cup Folders \cup {None}],
         Commit(q, runners, ws), UNCHANGED <<pending, items, rendererVars, windows, saved, restarts>>,
         handles' \in [Jobs -> 0 .. MaxAttempt], \A j \in Uploads : handles'[j] = 0,
         batch' \in Seq(Files \cup Folders), sender' \in Windows \cup {None},
         \A j \in Range(batch) : j \in Range(batch') \/ q[j].status \notin Active,
         \A j \in Jobs : Ordinary(jobs[j], q[j]),
         \A j \in Uploads : Stays(jobs[j], q[j])
  PROVE  Kept
<1>1. /\ jobs' = q /\ jobs' \in [Jobs -> Job] /\ dirty' \in BOOLEAN /\ runners' = runners
      /\ workers' \in [Workers -> Files \cup Folders \cup {None}]
  BY Committed DEF Inv
<1>2. TypeOK'
  BY <1>1 DEF Inv, TypeOK, rendererVars
<1>3. ASSUME NEW j \in Downloadable PROVE jobs'[j].status \in Active => jobs'[j] = jobs[j]
  BY <1>1, Statuses, Records DEF Ordinary, Stays, Downloadable, Jobs
<1>4. FilesServed' /\ FoldersServed'
  BY <1>1, <1>3, Statuses DEF Inv, DownloadInv, FilesServed, FoldersServed, Runs, Downloadable
<1>5. QueuedInBatch'
  BY <1>1, <1>3, Statuses DEF Inv, DownloadInv, QueuedInBatch
<1> QED
  BY <1>1, <1>2, <1>4, <1>5, DownloadMove DEF DownloadInv

-----------------------------------------------------------------------------
(* The steps of the downloads.                                              *)

(* Starting a download, of a queue q that has just been made from jobs or   *)
(* is jobs: the job runs, and is worked on, or has failed.                  *)
LEMMA StartKept ==
  ASSUME TransfersAssumption, Inv, NEW q \in Queue, NEW j \in Files \cup Folders,
         NEW b \in Workers \cup {None}, NEW ws \in [Workers -> Files \cup Folders \cup {None}],
         q[j].status = "queued", q[j].attempt >= 1,
         \/ jobs[j].status = "new" \/ q[j] = jobs[j]
         \/ jobs[j].status \in Terminal /\ q[j].attempt = jobs[j].attempt + 1,
         \A k \in Jobs \ {j} : Stays(jobs[k], q[k]),
         (j \in Files /\ StartFile(q, j, ws)) \/ (j \in Folders /\ StartFolder(q, j, b, ws)),
         UNCHANGED <<rendererVars, windows, saved, restarts>>,
         batch' \in Seq(Files \cup Folders), sender' \in Windows \cup {None},
         \A k \in Range(batch) : k = j \/ k \in Range(batch')
  PROVE  Kept
<1> DEFINE new == [job |-> j, attempt |-> q[j].attempt]
<1>0. /\ j \in Jobs /\ j \notin Uploads /\ q[j].attempt \in 1 .. MaxAttempt
      /\ Uploads \subseteq Jobs /\ Downloadable \subseteq Jobs
  BY DEF TransfersAssumption, Jobs, Queue, Job, Downloadable
<1>1. /\ Started(q, j) \in Queue /\ Ended(q, j, "failed") \in Queue
      /\ \A k \in Jobs \ {j} : Started(q, j)[k] = q[k] /\ Ended(q, j, "failed")[k] = q[k]
      /\ Started(q, j)[j].status = "running" /\ Started(q, j)[j].attempt = q[j].attempt
      /\ Ended(q, j, "failed")[j].status = "failed" /\ Ended(q, j, "failed")[j].attempt = q[j].attempt
  BY <1>0, StartedIs, StoppedIs, Statuses
<1>2. /\ jobs' \in Queue /\ dirty' \in BOOLEAN
      /\ workers' \in [Workers -> Files \cup Folders \cup {None}]
      /\ \A k \in Jobs \ {j} : Stays(jobs[k], jobs'[k])
      /\ jobs'[j].status \in {"running", "failed"} /\ jobs'[j].attempt = q[j].attempt
  <2>1. CASE StartFile(q, j, ws)
    BY <2>1, <1>1, Committed DEF StartFile, Inv
  <2>2. CASE StartFolder(q, j, b, ws)
    BY <2>2, <1>1, Committed DEF StartFolder, Inv
  <2> QED
    BY <2>1, <2>2
<1>3. /\ pending' \in SUBSET (pending \cup {new}) /\ pending \subseteq pending' /\ items' = items
      /\ j \in Files \/ pending' = pending
      /\ runners' \in SUBSET (runners \cup {Runner(q, j, b)}) /\ runners \subseteq runners'
      /\ j \in Folders \/ runners' = runners
      /\ handles' \in [Jobs -> 0 .. MaxAttempt] /\ \A k \in Uploads : handles'[k] = handles[k]
      /\ jobs'[j].status = "running" => (j \in Files /\ new \in pending') \/ (j \in Folders /\ Runner(q, j, b) \in runners')
  <2>1. CASE j \in Files /\ StartFile(q, j, ws)
    BY <2>1, <1>1 DEF StartFile, Commit, nativeVars, Inv, TypeOK
  <2>2. CASE j \in Folders /\ StartFolder(q, j, b, ws)
    BY <2>2, <1>0, <1>1 DEF StartFolder, Commit, Inv, TypeOK
  <2> QED
    BY <2>1, <2>2
<1>4. TypeOK'
  <2>1. j \in Files => new \in [job : Files, attempt : 1 .. MaxAttempt]
    BY <1>0
  <2>2. j \in Folders => Runner(q, j, b) \in [job : Folders, attempt : 1 .. MaxAttempt, cancel : BOOLEAN,
                                               stopping : BOOLEAN, worker : Workers \cup {None}]
    BY <1>0 DEF Runner
  <2> HIDE DEF new
  <2> QED
    BY <1>2, <1>3, <2>1, <2>2 DEF Inv, TypeOK, Queue, rendererVars
<1>5. Counted'
  <2>1. ASSUME NEW k \in Jobs, jobs'[k].status \in Active PROVE jobs'[k].attempt >= 1
    <3>1. CASE k = j
      BY <3>1, <1>2
    <3>2. CASE k # j
      BY <3>2, <2>1, <1>2, Statuses, Records DEF Stays, Inv, Counted
    <3> QED
      BY <3>1, <3>2
  <2> QED
    BY <2>1 DEF Counted
<1>6. Stands
  <2>1. Outcome(jobs[j], jobs'[j])
    BY <1>0, <1>2, Statuses DEF Outcome
  <2>2. \A k \in Jobs \ {j} : Outcome(jobs[k], jobs'[k])
    BY <1>2, Statuses, Records DEF Outcome, Stays
  <2> QED
    BY <2>1, <2>2 DEF Stands
<1>7. UploadInv' /\ Honest
  <2>1. \A k \in Uploads : Stays(jobs[k], jobs'[k]) /\ handles'[k] = 0
    BY <1>0, <1>2, <1>3 DEF Inv, UploadInv, UploadsOwned
  <2> QED
    BY <2>1, UploadFrame DEF Inv, rendererVars, Gentle
<1>8. \A k \in Jobs \ {j} : jobs'[k].status \in Active => jobs'[k] = jobs[k]
  BY <1>2, Statuses, Records DEF Stays
<1>9. FilesServed'
  <2>1. ASSUME NEW k \in Files, jobs'[k].status = "running", k # j
        PROVE  \E x \in pending' \cup items' : x.job = k /\ x.attempt = jobs'[k].attempt
    <3>1. k \in Jobs /\ jobs'[k] = jobs[k]
      BY <2>1, <1>8, Statuses DEF Jobs
    <3> QED
      BY <3>1, <2>1, <1>3 DEF Inv, DownloadInv, FilesServed, Runs
  <2>2. ASSUME j \in Files, jobs'[j].status = "running"
        PROVE  \E x \in pending' \cup items' : x.job = j /\ x.attempt = jobs'[j].attempt
    <3>1. new \in pending' /\ new.job = j /\ new.attempt = jobs'[j].attempt
      BY <2>2, <1>2, <1>3 DEF TransfersAssumption
    <3> QED
      BY <3>1
  <2> QED
    BY <2>1, <2>2 DEF FilesServed, Runs
<1>10. FoldersServed'
  <2>1. ASSUME NEW k \in Folders, jobs'[k].status = "running", k # j
        PROVE  \E r \in runners' : r.job = k /\ r.attempt = jobs'[k].attempt
    <3>1. k \in Jobs /\ jobs'[k] = jobs[k]
      BY <2>1, <1>8, Statuses DEF Jobs
    <3> QED
      BY <3>1, <2>1, <1>3 DEF Inv, DownloadInv, FoldersServed, Runs
  <2>2. ASSUME j \in Folders, jobs'[j].status = "running"
        PROVE  \E r \in runners' : r.job = j /\ r.attempt = jobs'[j].attempt
    <3>1. Runner(q, j, b) \in runners'
      BY <2>2, <1>3 DEF TransfersAssumption
    <3>2. Runner(q, j, b).job = j /\ Runner(q, j, b).attempt = jobs'[j].attempt
      BY <1>2 DEF Runner
    <3> QED
      BY <3>1, <3>2
  <2> QED
    BY <2>1, <2>2 DEF FoldersServed, Runs
<1>11. QueuedInBatch'
  BY <1>0, <1>2, <1>8, Statuses DEF QueuedInBatch, Inv, DownloadInv
<1> QED
  BY <1>4, <1>5, <1>6, <1>7, <1>9, <1>10, <1>11 DEF Inv, DownloadInv, Kept

(* Enqueueing one job.                                                      *)
LEMMA EnqueuedOne ==
  ASSUME TransfersAssumption, NEW q \in Queue, NEW j \in Jobs, q[j].status = "new"
  PROVE  /\ Enqueued(q, <<j>>) \in Queue
         /\ Enqueued(q, <<j>>)[j].status = "queued" /\ Enqueued(q, <<j>>)[j].attempt = 1
         /\ \A k \in Jobs \ {j} : Stays(q[k], Enqueued(q, <<j>>)[k])
<1>1. <<j>> \in Seq(Jobs) /\ Range(<<j>>) = {j}
  BY DEF Range
<1> QED
  BY <1>1, EnqueuedIs

(* A download that is asked for.                                            *)
LEMMA DownloadKept ==
  ASSUME TransfersAssumption, Inv, NEW j \in Files \cup Folders, Download(j)
  PROVE  Kept
<1> DEFINE q == Enqueued(jobs, <<j>>)
<1>1. j \in Jobs /\ jobs \in Queue /\ workers \in [Workers -> Files \cup Folders \cup {None}]
  BY DEF Inv, TypeOK, Queue, Jobs
<1>2. /\ q \in Queue /\ q[j].status = "queued" /\ q[j].attempt = 1
      /\ \A k \in Jobs \ {j} : Stays(jobs[k], q[k])
  BY <1>1, EnqueuedOne DEF Download
<1>3. /\ jobs[j].status = "new" /\ UNCHANGED <<rendererVars, windows, saved, restarts, batch, sender>>
      /\ (j \in Files /\ StartFile(q, j, workers)) \/ (j \in Folders /\ StartFolder(q, j, None, workers))
  BY DEF Download, batchVars
<1> HIDE DEF q
<1>4. batch' \in Seq(Files \cup Folders) /\ sender' \in Windows \cup {None} /\ batch' = batch
  BY <1>3 DEF Inv, TypeOK
<1>5. q[j].attempt >= 1
  BY <1>2
<1> QED
  BY <1>1, <1>2, <1>3, <1>4, <1>5, StartKept

(* A batch of downloads that is asked for.                                  *)
LEMMA DownloadBatchKept ==
  ASSUME TransfersAssumption, Inv, NEW w, NEW js \in Seq(Files \cup Folders), DownloadBatch(w, js)
  PROVE  Kept
<1> DEFINE q == Enqueued(jobs, js)
<1>1. jobs \in Queue /\ workers \in [Workers -> Files \cup Folders \cup {None}] /\ w \in Windows
  BY DEF Inv, TypeOK, Queue, DownloadBatch
<1>2. /\ js \in Seq(Jobs) /\ Range(js) \subseteq Files \cup Folders /\ Downloadable \subseteq Jobs
      /\ \A j \in Range(js) : j \in Jobs /\ j \notin Uploads
  BY DEF TransfersAssumption, Jobs, Range, Downloadable
<1>3. /\ q \in Queue
      /\ \A j \in Range(js) : q[j].status = "queued" /\ q[j].attempt = 1
      /\ \A j \in Jobs \ Range(js) : Stays(jobs[j], q[j])
  BY <1>1, <1>2, EnqueuedIs DEF DownloadBatch
<1>4. /\ \A j \in Range(js) : jobs[j].status = "new"
      /\ Commit(q, runners, workers) /\ batch = <<>> /\ batch' = js /\ sender' = w
      /\ UNCHANGED <<nativeVars, rendererVars, windows, saved, restarts>>
  BY DEF DownloadBatch
<1> HIDE DEF q
<1>5. /\ jobs' = q /\ jobs' \in [Jobs -> Job] /\ dirty' \in BOOLEAN /\ runners' = runners
      /\ workers' \in [Workers -> Files \cup Folders \cup {None}]
  BY <1>1, <1>3, <1>4, Committed DEF Inv
<1>6. TypeOK'
  BY <1>1, <1>4, <1>5 DEF Inv, TypeOK, nativeVars, rendererVars
<1>7. \A j \in Jobs \ Range(js) : jobs'[j].status \in Active => jobs'[j] = jobs[j]
  BY <1>3, <1>5, Statuses, Records DEF Stays
<1>8. Counted'
  BY <1>3, <1>5, <1>7 DEF Inv, Counted
<1>9. Stands
  <2>1. \A j \in Jobs : Outcome(jobs[j], jobs'[j])
    BY <1>3, <1>4, <1>5, Statuses, Records DEF Outcome, Stays
  <2> QED
    BY <2>1 DEF Stands
<1>10. UploadInv' /\ Honest
  <2>1. \A k \in Uploads : Stays(jobs[k], jobs'[k]) /\ handles'[k] = 0
    BY <1>2, <1>3, <1>4, <1>5 DEF Inv, UploadInv, UploadsOwned, Jobs, nativeVars
  <2> QED
    BY <2>1, <1>4, UploadFrame DEF Inv, rendererVars, Gentle
<1>11. \A j \in Downloadable : jobs'[j].status = "running" => jobs'[j] = jobs[j] /\ jobs[j].status = "running"
  BY <1>2, <1>3, <1>5, <1>7, Statuses
<1>12. FilesServed' /\ FoldersServed'
  BY <1>4, <1>5, <1>11 DEF Inv, DownloadInv, FilesServed, FoldersServed, Runs, Downloadable, nativeVars
<1>13. QueuedInBatch'
  <2>1. \A j \in Downloadable : jobs[j].status # "queued"
    BY <1>4 DEF Inv, DownloadInv, QueuedInBatch, Range
  <2> QED
    BY <1>2, <1>4, <1>7, <2>1, Statuses DEF QueuedInBatch
<1> QED
  BY <1>6, <1>8, <1>9, <1>10, <1>12, <1>13 DEF Inv, DownloadInv, Kept

(* The other jobs of a sequence are in its tail.                            *)
LEMMA InTail ==
  ASSUME NEW S, NEW s \in Seq(S), s # <<>>, NEW x \in Range(s), x # Head(s)
  PROVE  x \in Range(Tail(s))
<1>1. PICK n \in DOMAIN s : s[n] = x
  BY DEF Range
<1>2. n \in 1 .. Len(s) /\ n # 1
  BY <1>1
<1>3. n - 1 \in 1 .. Len(Tail(s)) /\ Tail(s)[n - 1] = x
  BY <1>1, <1>2
<1> QED
  BY <1>3 DEF Range

(* A worker that takes the next job of the batch.                           *)
LEMMA TakeNextKept ==
  ASSUME TransfersAssumption, Inv, NEW b \in Workers, TakeNext(b)
  PROVE  Kept
<1> DEFINE j == Head(batch)
           taken == [workers EXCEPT ![b] = j]
<1>1. /\ batch # <<>> /\ batch' = Tail(batch) /\ batch \in Seq(Files \cup Folders)
      /\ UNCHANGED <<rendererVars, windows, sender, saved, restarts>>
  BY DEF TakeNext, Inv, TypeOK
<1>2. /\ j \in Files \cup Folders /\ j \in Jobs /\ j \notin Uploads
      /\ batch' \in Seq(Files \cup Folders) /\ sender' \in Windows \cup {None}
  BY <1>1 DEF TransfersAssumption, Jobs, Inv, TypeOK
<1>3. \A k \in Range(batch) : k = j \/ k \in Range(batch')
  BY <1>1, InTail
<1>4. taken \in [Workers -> Files \cup Folders \cup {None}] /\ jobs \in Queue
  BY <1>2 DEF Inv, TypeOK, Queue
<1>5. \/ jobs[j].status # "queued" /\ UNCHANGED <<jobs, dirty, nativeVars, runners, workers>>
      \/ /\ jobs[j].status = "queued" /\ UNCHANGED nativeVars
         /\ \/ Commit(Ended(jobs, j, "canceled"), runners, taken)
            \/ Commit(Ended(jobs, j, "failed"), runners, taken)
            \/ Commit(FailedForGood(jobs, j), runners, taken)
      \/ /\ jobs[j].status = "queued"
         /\ (j \in Files /\ StartFile(jobs, j, taken)) \/ (j \in Folders /\ StartFolder(jobs, j, b, taken))
  BY DEF TakeNext
<1> HIDE DEF j, taken
<1>6. CASE jobs[j].status # "queued" /\ UNCHANGED <<jobs, dirty, nativeVars, runners, workers>>
  <2>1. TypeOK'
    BY <1>1, <1>2, <1>6 DEF Inv, TypeOK, nativeVars, rendererVars
  <2>2. \A k \in Jobs : Stays(jobs[k], jobs'[k]) /\ Ordinary(jobs[k], jobs'[k])
    BY <1>6 DEF Stays, Ordinary
  <2>3. \A k \in Uploads : handles'[k] = 0 /\ k \in Jobs
    BY <1>6 DEF Inv, UploadInv, UploadsOwned, nativeVars, Jobs
  <2>4. DownloadInv'
    <3>1. FilesServed' /\ FoldersServed'
      BY <1>6 DEF Inv, DownloadInv, FilesServed, FoldersServed, Runs, nativeVars
    <3>2. QueuedInBatch'
      BY <1>3, <1>6 DEF Inv, DownloadInv, QueuedInBatch
    <3> QED
      BY <3>1, <3>2 DEF DownloadInv
  <2> QED
    BY <1>1, <2>1, <2>2, <2>3, <2>4, DownloadMove
<1>7. ASSUME NEW q \in Queue, jobs[j].status = "queued", UNCHANGED nativeVars, Commit(q, runners, taken),
             \A k \in Jobs \ {j} : q[k] = jobs[k], q[j].status \in Terminal
      PROVE  Kept
  <2>1. \A k \in Jobs : Ordinary(jobs[k], q[k])
    BY <1>7, Statuses DEF Ordinary, Stays
  <2>2. \A k \in Uploads : Stays(jobs[k], q[k])
    BY <1>2, <1>7 DEF Stays, Jobs
  <2>3. handles' \in [Jobs -> 0 .. MaxAttempt] /\ \A k \in Uploads : handles'[k] = 0
    BY <1>7 DEF Inv, TypeOK, UploadInv, UploadsOwned, nativeVars
  <2>4. \A k \in Range(batch) : k \in Range(batch') \/ q[k].status \notin Active
    BY <1>3, <1>7, Statuses
  <2>5. UNCHANGED <<pending, items, rendererVars, windows, saved, restarts>>
    BY <1>1, <1>7 DEF nativeVars
  <2> QED
    BY <1>2, <1>4, <1>7, <2>1, <2>2, <2>3, <2>4, <2>5, EndingKept
<1>8. CASE /\ jobs[j].status = "queued" /\ UNCHANGED nativeVars
           /\ \/ Commit(Ended(jobs, j, "canceled"), runners, taken)
              \/ Commit(Ended(jobs, j, "failed"), runners, taken)
              \/ Commit(FailedForGood(jobs, j), runners, taken)
  <2>1. ASSUME NEW status \in {"canceled", "failed"}
        PROVE  /\ Ended(jobs, j, status) \in Queue
               /\ \A k \in Jobs \ {j} : Ended(jobs, j, status)[k] = jobs[k]
               /\ Ended(jobs, j, status)[j].status \in Terminal
    BY <1>2, <1>4, <1>8, StoppedIs, Statuses
  <2>2. /\ FailedForGood(jobs, j) \in Queue
        /\ \A k \in Jobs \ {j} : FailedForGood(jobs, j)[k] = jobs[k]
        /\ FailedForGood(jobs, j)[j].status \in Terminal
    BY <1>2, <1>4, <1>8, FailedForGoodIs, Statuses
  <2> QED
    BY <1>7, <1>8, <2>1, <2>2
<1>9. CASE /\ jobs[j].status = "queued"
           /\ (j \in Files /\ StartFile(jobs, j, taken)) \/ (j \in Folders /\ StartFolder(jobs, j, b, taken))
  <2>1. jobs[j].attempt >= 1
    BY <1>2, <1>9, Statuses DEF Inv, Counted
  <2>2. \A k \in Jobs \ {j} : Stays(jobs[k], jobs[k])
    BY DEF Stays
  <2> QED
    BY <1>1, <1>2, <1>3, <1>4, <1>9, <2>1, <2>2, StartKept
<1> QED
  BY <1>5, <1>6, <1>8, <1>9

(* The handle of a download comes and goes.                                 *)
LEMMA HandleSet ==
  ASSUME TransfersAssumption, Inv, NEW j \in Jobs, j \notin Uploads, NEW n \in 0 .. MaxAttempt,
         handles' \in {handles, [handles EXCEPT ![j] = n]}
  PROVE  handles' \in [Jobs -> 0 .. MaxAttempt] /\ \A k \in Uploads : handles'[k] = 0 /\ k \in Jobs
  BY DEF Inv, TypeOK, UploadInv, UploadsOwned, Jobs

(* An item that appears takes the place of the URL that was asked for.      *)
LEMMA WillDownloadKept ==
  ASSUME TransfersAssumption, Inv, NEW u \in pending, WillDownload(u)
  PROVE  Kept
<1> DEFINE item == [job |-> u.job, attempt |-> u.attempt, canceled |-> FALSE]
<1>1. /\ u.job \in Files /\ u.attempt \in 1 .. MaxAttempt /\ u.job \in Jobs /\ u.job \notin Uploads
      /\ item \in [job : Files, attempt : 1 .. MaxAttempt, canceled : BOOLEAN]
  BY DEF Inv, TypeOK, Jobs, TransfersAssumption
<1>2. /\ pending' = pending \ {u}
      /\ items \subseteq items' /\ items' \subseteq items \cup {item}
      /\ jobs[u.job].status = "running" => item \in items'
      /\ handles' \in {handles, [handles EXCEPT ![u.job] = u.attempt]}
      /\ UNCHANGED <<jobs, runners, rendererVars, windows, batchVars, workers, saved, dirty, restarts>>
  BY DEF WillDownload
<1>3. handles' \in [Jobs -> 0 .. MaxAttempt] /\ \A k \in Uploads : handles'[k] = 0 /\ k \in Jobs
  <2>1. u.attempt \in 0 .. MaxAttempt
    BY <1>1
  <2> QED
    BY <1>1, <1>2, <2>1, HandleSet
<1>5. TypeOK'
  <2> HIDE DEF item
  <2> QED
    BY <1>1, <1>2, <1>3 DEF Inv, TypeOK, rendererVars, batchVars
<1>4. \A k \in Jobs : Stays(jobs[k], jobs'[k]) /\ Ordinary(jobs[k], jobs'[k])
  BY <1>2 DEF Stays, Ordinary
<1>6. FilesServed'
  <2>1. ASSUME NEW k \in Files, jobs[k].status = "running"
        PROVE  \E x \in pending' \cup items' : x.job = k /\ x.attempt = jobs[k].attempt
    <3>1. PICK x \in pending \cup items : x.job = k /\ x.attempt = jobs[k].attempt
      BY <2>1 DEF Inv, DownloadInv, FilesServed, Runs
    <3>2. CASE x = u
      <4>1. item \in items' /\ item.job = k /\ item.attempt = jobs[k].attempt
        BY <1>2, <2>1, <3>1, <3>2
      <4> QED
        BY <4>1
    <3>3. CASE x # u
      BY <1>2, <3>1, <3>3
    <3> QED
      BY <3>2, <3>3
  <2> QED
    BY <1>2, <2>1 DEF FilesServed, Runs
<1>7. FoldersServed' /\ QueuedInBatch'
  BY <1>2 DEF Inv, DownloadInv, FoldersServed, QueuedInBatch, Runs, batchVars
<1> QED
  BY <1>2, <1>3, <1>4, <1>5, <1>6, <1>7, DownloadMove DEF DownloadInv

(* Ending a job that is not an upload's is ordinary.                        *)
LEMMA EndedOrdinary ==
  ASSUME TransfersAssumption, NEW q \in Queue, NEW j \in Files \cup Folders, NEW status \in Terminal
  PROVE  /\ Ended(q, j, status) \in Queue
         /\ \A k \in Jobs : Ordinary(q[k], Ended(q, j, status)[k])
         /\ \A k \in Uploads : k \in Jobs /\ Ended(q, j, status)[k] = q[k]
         /\ \A k \in Jobs : Ended(q, j, status)[k].status \in Active => Ended(q, j, status)[k] = q[k]
         /\ Ended(q, j, status)[j].status # "running"
<1>1. j \in Jobs /\ j \notin Uploads /\ Uploads \subseteq Jobs
  BY DEF TransfersAssumption, Jobs
<1>2. /\ Ended(q, j, status) \in Queue
      /\ \A k \in Jobs \ {j} : Ended(q, j, status)[k] = q[k]
      /\ \/ Ended(q, j, status) = q
         \/ q[j].status \in Active /\ Ended(q, j, status)[j].status = status
      /\ q[j].status = "running" => Ended(q, j, status)[j].status = status
  BY <1>1, EndedIs
<1>3. "running" \notin Terminal
  BY Statuses
<1> QED
  BY <1>1, <1>2, <1>3, Statuses DEF Ordinary, Stays

(* An item that ends, ends the job it was of.                               *)
LEMMA ItemDoneKept ==
  ASSUME TransfersAssumption, Inv, NEW i \in items, ItemDone(i)
  PROVE  Kept
<1>1. i.job \in Files /\ i.job \in Jobs /\ i.job \notin Uploads /\ jobs \in Queue
      /\ workers \in [Workers -> Files \cup Folders \cup {None}]
  BY DEF Inv, TypeOK, Jobs, TransfersAssumption, Queue
<1>2. PICK status \in Terminal : Commit(Ended(jobs, i.job, status), runners, workers)
  BY Statuses DEF ItemDone
<1> DEFINE q == Ended(jobs, i.job, status)
<1>3. /\ q \in Queue /\ \A k \in Jobs : Ordinary(jobs[k], q[k])
      /\ \A k \in Uploads : k \in Jobs /\ q[k] = jobs[k]
      /\ \A k \in Jobs : q[k].status \in Active => q[k] = jobs[k]
      /\ q[i.job].status # "running"
  BY <1>1, EndedOrdinary
<1>4. /\ jobs' = q /\ jobs' \in [Jobs -> Job] /\ dirty' \in BOOLEAN /\ runners' = runners
      /\ workers' \in [Workers -> Files \cup Folders \cup {None}]
  BY <1>1, <1>2, <1>3, Committed DEF Inv
<1>5. /\ items' = items \ {i} /\ handles' \in [Jobs -> 0 .. MaxAttempt]
      /\ \A k \in Uploads : handles'[k] = 0
      /\ UNCHANGED <<pending, rendererVars, windows, batchVars, saved, restarts>>
  <2>1. handles' = [handles EXCEPT ![i.job] = 0] /\ 0 \in 0 .. MaxAttempt
    BY DEF ItemDone, TransfersAssumption
  <2> QED
    BY <1>1, <2>1, HandleSet DEF ItemDone
<1> HIDE DEF q
<1>6. TypeOK'
  BY <1>4, <1>5 DEF Inv, TypeOK, rendererVars, batchVars
<1>7. FilesServed'
  <2>1. ASSUME NEW k \in Files, jobs'[k].status = "running"
        PROVE  \E x \in pending' \cup items' : x.job = k /\ x.attempt = jobs'[k].attempt
    <3>1. k # i.job /\ jobs'[k] = jobs[k]
      BY <1>3, <1>4, <2>1, Statuses DEF Jobs
    <3>2. PICK x \in pending \cup items : x.job = k /\ x.attempt = jobs[k].attempt
      BY <2>1, <3>1 DEF Inv, DownloadInv, FilesServed, Runs
    <3> QED
      BY <1>5, <3>1, <3>2
  <2> QED
    BY <2>1 DEF FilesServed, Runs
<1>8. FoldersServed' /\ QueuedInBatch'
  BY <1>3, <1>4, <1>5, Statuses DEF Inv, DownloadInv, FoldersServed, QueuedInBatch, Runs, batchVars, Jobs, Downloadable
<1>9. \A k \in Uploads : Stays(jobs[k], jobs'[k])
  BY <1>3, <1>4 DEF Stays
<1> QED
  BY <1>3, <1>4, <1>5, <1>6, <1>7, <1>8, <1>9, DownloadMove DEF DownloadInv

(* A folder download that ends takes its job with it, if the job is at its  *)
(* attempt.                                                                 *)
LEMMA RunnerEndsKept ==
  ASSUME TransfersAssumption, Inv, NEW r \in runners, NEW status \in Terminal \cup {"none"},
         IsCurrent(r) => status \in Terminal, RunnerEnds(r, status)
  PROVE  Kept
<1> DEFINE q == IF status \in Terminal THEN Ended(jobs, r.job, status) ELSE jobs
<1>1. r.job \in Folders /\ r.job \in Jobs /\ r.job \notin Uploads /\ jobs \in Queue
      /\ workers \in [Workers -> Files \cup Folders \cup {None}]
  BY DEF Inv, TypeOK, Jobs, TransfersAssumption, Queue
<1>2. /\ q \in Queue /\ \A k \in Jobs : Ordinary(jobs[k], q[k])
      /\ \A k \in Uploads : k \in Jobs /\ q[k] = jobs[k]
      /\ \A k \in Jobs : q[k].status \in Active => q[k] = jobs[k]
      /\ IsCurrent(r) => q[r.job].status # "running"
  <2>1. CASE status \in Terminal
    BY <1>1, <2>1, EndedOrdinary
  <2>2. CASE status \notin Terminal
    BY <1>1, <2>2 DEF Ordinary, Stays, Jobs
  <2> QED
    BY <2>1, <2>2
<1>3. Commit(q, runners \ {r}, workers)
  BY DEF RunnerEnds
<1>4. /\ handles' \in [Jobs -> 0 .. MaxAttempt] /\ \A k \in Uploads : handles'[k] = 0
      /\ UNCHANGED <<pending, items, rendererVars, windows, batchVars, saved, restarts>>
  <2>1. handles' \in {handles, [handles EXCEPT ![r.job] = 0]} /\ 0 \in 0 .. MaxAttempt
    BY DEF RunnerEnds, TransfersAssumption
  <2> QED
    BY <1>1, <2>1, HandleSet DEF RunnerEnds
<1> HIDE DEF q
<1>5. /\ jobs' = q /\ jobs' \in [Jobs -> Job] /\ dirty' \in BOOLEAN /\ runners' = runners \ {r}
      /\ workers' \in [Workers -> Files \cup Folders \cup {None}]
  BY <1>1, <1>2, <1>3, Committed DEF Inv
<1>6. TypeOK'
  BY <1>4, <1>5 DEF Inv, TypeOK, rendererVars, batchVars
<1>7. FoldersServed'
  <2>1. ASSUME NEW k \in Folders, jobs'[k].status = "running"
        PROVE  \E x \in runners' : x.job = k /\ x.attempt = jobs'[k].attempt
    <3>1. k \in Jobs /\ jobs'[k] = jobs[k]
      BY <1>2, <1>5, <2>1, Statuses DEF Jobs
    <3>2. PICK x \in runners : x.job = k /\ x.attempt = jobs[k].attempt
      BY <2>1, <3>1 DEF Inv, DownloadInv, FoldersServed, Runs
    <3>3. k \in Present(jobs)
      BY <2>1, <3>1 DEF Present
    <3>4. x # r
      BY <1>2, <1>5, <2>1, <3>1, <3>2, <3>3 DEF IsCurrent
    <3> QED
      BY <1>5, <3>1, <3>2, <3>4
  <2> QED
    BY <2>1 DEF FoldersServed, Runs
<1>8. FilesServed' /\ QueuedInBatch'
  BY <1>2, <1>4, <1>5, Statuses DEF Inv, DownloadInv, FilesServed, QueuedInBatch, Runs, batchVars, Jobs, Downloadable
<1>9. \A k \in Uploads : Stays(jobs[k], jobs'[k])
  BY <1>2, <1>5 DEF Stays
<1> QED
  BY <1>2, <1>4, <1>5, <1>6, <1>7, <1>8, <1>9, DownloadMove DEF DownloadInv

(* A folder download that is asked to stop is at work until it has.         *)
LEMMA RunnerStopsKept ==
  ASSUME TransfersAssumption, Inv, NEW r \in runners, RunnerStops(r)
  PROVE  Kept
<1> DEFINE s == [r EXCEPT !.stopping = TRUE]
<1>1. /\ s \in [job : Folders, attempt : 1 .. MaxAttempt, cancel : BOOLEAN, stopping : BOOLEAN,
                worker : Workers \cup {None}]
      /\ s.job = r.job /\ s.attempt = r.attempt
  BY DEF Inv, TypeOK
<1>2. /\ runners' = (runners \ {r}) \cup {s}
      /\ UNCHANGED <<jobs, nativeVars, rendererVars, windows, batchVars, workers, saved, dirty, restarts>>
  BY DEF RunnerStops
<1> HIDE DEF s
<1>3. TypeOK'
  BY <1>1, <1>2 DEF Inv, TypeOK, nativeVars, rendererVars, batchVars
<1>4. \A k \in Jobs : Stays(jobs[k], jobs'[k]) /\ Ordinary(jobs[k], jobs'[k])
  BY <1>2 DEF Stays, Ordinary
<1>5. \A k \in Uploads : handles'[k] = 0 /\ k \in Jobs
  BY <1>2 DEF Inv, UploadInv, UploadsOwned, Jobs, nativeVars
<1>6. FoldersServed'
  <2>1. ASSUME NEW k \in Folders, jobs[k].status = "running"
        PROVE  \E x \in runners' : x.job = k /\ x.attempt = jobs[k].attempt
    <3>1. PICK x \in runners : x.job = k /\ x.attempt = jobs[k].attempt
      BY <2>1 DEF Inv, DownloadInv, FoldersServed, Runs
    <3> QED
      BY <1>1, <1>2, <3>1
  <2> QED
    BY <1>2, <2>1 DEF FoldersServed, Runs
<1>7. FilesServed' /\ QueuedInBatch'
  BY <1>2 DEF Inv, DownloadInv, FilesServed, QueuedInBatch, Runs, nativeVars, batchVars
<1> QED
  BY <1>2, <1>3, <1>4, <1>5, <1>6, <1>7, DownloadMove DEF DownloadInv

(* Every step of a folder download.                                         *)
LEMMA RunnerKept ==
  ASSUME TransfersAssumption, Inv, NEW r \in runners,
         RunnerDone(r) \/ RunnerError(r) \/ RunnerObsolete(r) \/ RunnerStops(r) \/ RunnerStopped(r)
  PROVE  Kept
<1>1. CASE RunnerStops(r)
  BY <1>1, RunnerStopsKept
<1>2. ASSUME ~RunnerStops(r)
      PROVE  \E status \in Terminal \cup {"none"} : (IsCurrent(r) => status \in Terminal) /\ RunnerEnds(r, status)
  BY <1>2, Statuses DEF RunnerDone, RunnerError, RunnerObsolete, RunnerStopped
<1> QED
  BY <1>1, <1>2, RunnerEndsKept

(* Every step of the downloads.                                             *)
LEMMA DownloadsKept == TransfersAssumption /\ Inv /\ Downloads => Kept
<1> SUFFICES ASSUME TransfersAssumption, Inv, Downloads PROVE Kept
  OBVIOUS
<1>1. ASSUME NEW w \in Windows, NEW js \in Batches, DownloadBatch(w, js) PROVE Kept
  <2>1. Cardinality(Jobs) \in Nat
    BY FS_CardinalityType DEF TransfersAssumption
  <2>2. PICK n \in 1 .. Cardinality(Jobs) : js \in [1 .. n -> Files \cup Folders]
    BY DEF Batches
  <2>3. js \in Seq(Files \cup Folders)
    BY <2>1, <2>2
  <2> QED
    BY <1>1, <2>3, DownloadBatchKept
<1> QED
  BY <1>1, DownloadKept, TakeNextKept, WillDownloadKept, ItemDoneKept, RunnerKept DEF Downloads

-----------------------------------------------------------------------------
(* The steps of the renderers.                                              *)

(* A copy is of an upload that runs.                                        *)
LEMMA CopyRuns ==
  ASSUME Inv, NEW c \in copies
  PROVE  /\ c.job \in Uploads /\ c.job \in Jobs /\ jobs[c.job].status = "running"
         /\ jobs[c.job].attempt = c.attempt /\ owners[c.job] = c.window
  BY DEF Inv, TypeOK, UploadInv, CopiesBelong, Runs, Jobs

(* A renderer enqueues an upload, which it owns.                            *)
LEMMA EnqueueUploadKept ==
  ASSUME TransfersAssumption, Inv, NEW w, NEW j \in Uploads, EnqueueUpload(w, j)
  PROVE  Kept
<1> DEFINE q == Enqueued(jobs, <<j>>)
<1>1. /\ j \in Jobs /\ j \notin Downloadable /\ jobs \in Queue /\ w \in windows /\ w \in Windows
      /\ Uploads \subseteq Jobs /\ Downloadable \subseteq Jobs
      /\ workers \in [Workers -> Files \cup Folders \cup {None}]
  BY DEF TransfersAssumption, Inv, TypeOK, Queue, Jobs, Downloadable, EnqueueUpload
<1>2. /\ q \in Queue /\ q[j].status = "queued" /\ q[j].attempt = 1
      /\ \A k \in Jobs \ {j} : Stays(jobs[k], q[k])
  BY <1>1, EnqueuedOne DEF EnqueueUpload
<1>3. /\ jobs[j].status = "new" /\ Commit(q, runners, workers)
      /\ owners' = [owners EXCEPT ![j] = w] /\ intents' = intents \cup {<<w, j>>}
      /\ UNCHANGED <<nativeVars, copies, windows, batchVars, saved, restarts>>
  BY DEF EnqueueUpload
<1> HIDE DEF q
<1>4. /\ jobs' = q /\ jobs' \in [Jobs -> Job] /\ dirty' \in BOOLEAN /\ runners' = runners
      /\ workers' \in [Workers -> Files \cup Folders \cup {None}]
  BY <1>1, <1>2, <1>3, Committed DEF Inv
<1>5. TypeOK'
  <2>1. owners' \in [Jobs -> Windows \cup {None}]
    BY <1>1, <1>3 DEF Inv, TypeOK
  <2>2. intents' \subseteq Windows \X Uploads
    BY <1>1, <1>3 DEF Inv, TypeOK
  <2> QED
    BY <1>1, <1>3, <1>4, <2>1, <2>2 DEF Inv, TypeOK, nativeVars, batchVars
<1>6. \A k \in Jobs \ {j} : (jobs'[k].status \in Active \/ jobs[k].status \in Active) => jobs'[k] = jobs[k]
  BY <1>2, <1>4, Statuses, Records DEF Stays
<1>7. Counted'
  BY <1>2, <1>4, <1>6 DEF Inv, Counted
<1>8. Stands
  <2>1. \A k \in Jobs : Outcome(jobs[k], jobs'[k])
    BY <1>2, <1>3, <1>4, Statuses, Records DEF Outcome, Stays
  <2> QED
    BY <2>1 DEF Stands
<1>9. Honest
  BY <1>1, <1>2, <1>4, <1>6, Statuses DEF Honest, Runs
<1>10. UploadsOwned'
  BY <1>1, <1>3, <1>4, <1>6 DEF Inv, TypeOK, UploadInv, UploadsOwned, nativeVars
<1>11. CopiesBelong'
  <2>1. ASSUME NEW c \in copies PROVE c.job # j /\ jobs'[c.job] = jobs[c.job] /\ owners'[c.job] = owners[c.job]
    BY <1>1, <1>3, <1>6, CopyRuns, Statuses DEF Inv, TypeOK
  <2>2. \A i \in intents' : i[1] \in windows
    BY <1>1, <1>3 DEF Inv, UploadInv, CopiesBelong
  <2> QED
    BY <1>3, <2>1, <2>2 DEF Inv, UploadInv, CopiesBelong, Runs
<1>12. \A k \in Downloadable : Ordinary(jobs[k], jobs'[k])
  BY <1>1, <1>2, <1>4 DEF Ordinary
<1> QED
  BY <1>3, <1>4, <1>5, <1>7, <1>8, <1>9, <1>10, <1>11, <1>12, RendererMove DEF UploadInv, nativeVars, batchVars

(* A step of the renderers that leaves the queue alone.                     *)
LEMMA QuietMove ==
  ASSUME TransfersAssumption, Inv, CopiesBelong', intents' \subseteq intents, windows' = windows,
         copies' \subseteq [window : Windows, job : Uploads, attempt : 1 .. MaxAttempt, abort : BOOLEAN,
                            phase : {"begun", "copying", "prompt", "confirmed", "done"},
                            outcome : Terminal \cup {"none"}],
         UNCHANGED <<jobs, nativeVars, runners, owners, batchVars, workers, saved, dirty, restarts>>
  PROVE  Kept
<1>1. TypeOK'
  BY DEF Inv, TypeOK, nativeVars, batchVars
<1>2. UploadsOwned'
  BY DEF Inv, UploadInv, UploadsOwned, nativeVars
<1>3. \A k \in Jobs : Ordinary(jobs[k], jobs'[k])
  BY DEF Ordinary, Stays
<1>4. Counted' /\ Stands
  BY <1>3, OrdinaryFrame DEF Inv
<1>5. Honest
  BY DEF Honest, Runs
<1> QED
  BY <1>1, <1>2, <1>3, <1>4, <1>5, RendererMove DEF UploadInv, nativeVars, batchVars, Downloadable, Jobs

(* It begins the upload, if that is still queued.                           *)
LEMMA BeginKept ==
  ASSUME TransfersAssumption, Inv, NEW w \in Windows, NEW j \in Uploads, Begin(w, j)
  PROVE  Kept
<1>1. /\ j \in Jobs /\ j \notin Downloadable /\ jobs \in Queue /\ w \in windows
      /\ Uploads \subseteq Jobs /\ Downloadable \subseteq Jobs
      /\ workers \in [Workers -> Files \cup Folders \cup {None}]
      /\ intents' \subseteq intents
      /\ UNCHANGED <<nativeVars, windows, batchVars, saved, restarts>>
  BY DEF TransfersAssumption, Inv, TypeOK, UploadInv, CopiesBelong, Queue, Jobs, Downloadable, Begin
<1>2. CASE jobs[j].status # "queued"
  <2>1. UNCHANGED <<jobs, dirty, runners, workers, owners, copies>>
    BY <1>2 DEF Begin
  <2>2. CopiesBelong'
    BY <1>1, <2>1 DEF Inv, UploadInv, CopiesBelong, Runs
  <2> QED
    BY <1>1, <2>1, <2>2, QuietMove DEF Inv, TypeOK
<1>3. CASE jobs[j].status = "queued"
  <2> DEFINE new == Copy(w, j, "begun")
             q == Started(jobs, j)
  <2>1. /\ Commit(q, runners, workers)
        /\ owners' = [owners EXCEPT ![j] = w] /\ copies' = copies \cup {new}
    BY <1>3 DEF Begin
  <2>2. /\ q \in Queue /\ \A k \in Jobs \ {j} : q[k] = jobs[k]
        /\ q[j].status = "running" /\ q[j].attempt = jobs[j].attempt
    BY <1>1, StartedIs
  <2>3. jobs[j].attempt \in 1 .. MaxAttempt
    BY <1>1, <1>3, Statuses DEF Inv, Counted, Queue, Job, TransfersAssumption
  <2>4. /\ new \in [window : Windows, job : Uploads, attempt : 1 .. MaxAttempt, abort : BOOLEAN,
                    phase : {"begun", "copying", "prompt", "confirmed", "done"},
                    outcome : Terminal \cup {"none"}]
        /\ new.job = j /\ new.attempt = jobs[j].attempt /\ new.window = w /\ new.phase = "begun"
    BY <2>3 DEF Copy
  <2> HIDE DEF new, q
  <2>5. /\ jobs' = q /\ jobs' \in [Jobs -> Job] /\ dirty' \in BOOLEAN /\ runners' = runners
        /\ workers' \in [Workers -> Files \cup Folders \cup {None}]
    BY <1>1, <2>1, <2>2, Committed DEF Inv
  <2>6. TypeOK'
    BY <1>1, <2>1, <2>4, <2>5 DEF Inv, TypeOK, nativeVars, batchVars
  <2>7. Counted'
    BY <2>2, <2>3, <2>5 DEF Inv, Counted
  <2>8. Stands
    <3>1. \A k \in Jobs : Outcome(jobs[k], jobs'[k])
      BY <1>3, <2>2, <2>5, Statuses DEF Outcome
    <3> QED
      BY <3>1 DEF Stands
  <2>9. Honest
    BY <1>1, <2>2, <2>5 DEF Honest, Runs
  <2>10. UploadsOwned'
    BY <1>1, <2>1, <2>2, <2>5 DEF Inv, TypeOK, UploadInv, UploadsOwned, nativeVars
  <2>11. CopiesBelong'
    <3>1. ASSUME NEW c \in copies
          PROVE  c.job # j /\ jobs'[c.job] = jobs[c.job] /\ owners'[c.job] = owners[c.job]
      BY <1>1, <1>3, <2>1, <2>2, <2>5, CopyRuns DEF Inv, TypeOK
    <3>2. jobs'[j].status = "running" /\ jobs'[j].attempt = new.attempt /\ owners'[j] = w
      BY <2>1, <2>2, <2>4, <2>5, <1>1 DEF Inv, TypeOK
    <3>3. \A c \in copies' : c = new \/ c \in copies
      BY <2>1
    <3>4. \A c \in copies' : /\ Runs(c.job)' /\ jobs'[c.job].attempt = c.attempt /\ owners'[c.job] = c.window
                             /\ c.phase = "done" => c.outcome \in Terminal
      BY <2>4, <3>1, <3>2, <3>3 DEF Inv, UploadInv, CopiesBelong, Runs
    <3>5. \A c, d \in copies' : c.job = d.job => c = d
      BY <2>4, <3>1, <3>3 DEF Inv, UploadInv, CopiesBelong
    <3>6. \A i \in intents' : i[1] \in windows'
      BY <1>1 DEF Inv, UploadInv, CopiesBelong
    <3> QED
      BY <3>4, <3>5, <3>6 DEF CopiesBelong
  <2>12. \A k \in Downloadable : Ordinary(jobs[k], jobs'[k])
    BY <1>1, <2>2, <2>5 DEF Ordinary, Stays
  <2> QED
    BY <1>1, <2>5, <2>6, <2>7, <2>8, <2>9, <2>10, <2>11, <2>12, RendererMove DEF UploadInv, nativeVars, batchVars
<1> QED
  BY <1>2, <1>3

(* A copy goes on, or has an outcome to report.                             *)
LEMMA CopyStepKept ==
  ASSUME TransfersAssumption, Inv, NEW c \in copies, NEW next, CopyStep(c, next),
         next \in [window : Windows, job : Uploads, attempt : 1 .. MaxAttempt, abort : BOOLEAN,
                   phase : {"begun", "copying", "prompt", "confirmed", "done"},
                   outcome : Terminal \cup {"none"}],
         next.job = c.job, next.window = c.window, next.attempt = c.attempt,
         next.phase = "done" => next.outcome \in Terminal
  PROVE  Kept
<1>1. /\ copies' = (copies \ {c}) \cup {next}
      /\ UNCHANGED <<jobs, nativeVars, runners, owners, intents, windows, batchVars, workers, saved, dirty, restarts>>
  BY DEF CopyStep
<1>2. \A d \in copies' : d = next \/ (d \in copies /\ d # c)
  BY <1>1
<1>3. \A d \in copies' : /\ Runs(d.job)' /\ jobs'[d.job].attempt = d.attempt /\ owners'[d.job] = d.window
                         /\ d.phase = "done" => d.outcome \in Terminal
  BY <1>1, <1>2 DEF Inv, UploadInv, CopiesBelong, Runs
<1>4. \A d, e \in copies' : d.job = e.job => d = e
  BY <1>2 DEF Inv, UploadInv, CopiesBelong
<1>5. CopiesBelong'
  BY <1>1, <1>3, <1>4 DEF Inv, UploadInv, CopiesBelong
<1>6. copies' \subseteq [window : Windows, job : Uploads, attempt : 1 .. MaxAttempt, abort : BOOLEAN,
                         phase : {"begun", "copying", "prompt", "confirmed", "done"},
                         outcome : Terminal \cup {"none"}]
  BY <1>1 DEF Inv, TypeOK
<1> QED
  BY <1>1, <1>5, <1>6, QuietMove

(* Every step of a copy.                                                    *)
LEMMA CopyKept ==
  ASSUME TransfersAssumption, Inv, NEW c \in copies, CopyAborted(c) \/ CopyProceeds(c)
  PROVE  Kept
<1> DEFINE Type == [window : Windows, job : Uploads, attempt : 1 .. MaxAttempt, abort : BOOLEAN,
                    phase : {"begun", "copying", "prompt", "confirmed", "done"},
                    outcome : Terminal \cup {"none"}]
           Follows(next) == /\ next \in Type
                            /\ next.job = c.job /\ next.window = c.window /\ next.attempt = c.attempt
                            /\ next.phase = "done" => next.outcome \in Terminal
<1>1. c \in Type
  BY DEF Inv, TypeOK
<1>2. \A outcome \in Terminal : Follows(Reports(c, outcome))
  BY <1>1 DEF Reports
<1>3. \A phase \in {"copying", "prompt", "confirmed"} : Follows([c EXCEPT !.phase = phase])
  BY <1>1
<1>4. c.phase # "done" => Follows([c EXCEPT !.abort = TRUE])
  BY <1>1
<1>5. \E next : CopyStep(c, next) /\ Follows(next)
  <2> HIDE DEF Follows
  <2> QED
    BY <1>2, <1>3, <1>4, Statuses DEF CopyAborted, CopyProceeds
<1> QED
  BY <1>5, CopyStepKept

(* A renderer reports the outcome of its copy.                              *)
LEMMA FinishKept ==
  ASSUME TransfersAssumption, Inv, NEW c \in copies, Finish(c)
  PROVE  Kept
<1> DEFINE j == c.job
<1>1. /\ j \in Uploads /\ j \in Jobs /\ j \notin Downloadable /\ jobs \in Queue
      /\ Uploads \subseteq Jobs /\ Downloadable \subseteq Jobs
      /\ workers \in [Workers -> Files \cup Folders \cup {None}]
      /\ jobs[j].status = "running" /\ c.phase = "done" /\ c.outcome \in Terminal
  BY CopyRuns DEF TransfersAssumption, Inv, TypeOK, UploadInv, CopiesBelong, Queue, Jobs, Downloadable, Finish
<1>2. /\ copies' = copies \ {c} /\ owners' = [owners EXCEPT ![j] = None]
      /\ UNCHANGED <<nativeVars, intents, windows, batchVars, saved, restarts>>
  BY DEF Finish
<1>3. PICK q \in Queue :
        /\ Commit(q, runners, workers)
        /\ \A k \in Jobs \ {j} : q[k] = jobs[k]
        /\ q[j].status \in Terminal /\ (q[j].status = "canceled" => c.outcome = "canceled")
  <2>1. CASE Commit(Ended(jobs, j, c.outcome), runners, workers)
    BY <1>1, <2>1, EndedIs
  <2>2. CASE Commit(FailedForGood(jobs, j), runners, workers)
    BY <1>1, <2>2, FailedForGoodIs, Statuses
  <2> QED
    BY <2>1, <2>2 DEF Finish
<1> HIDE DEF j
<1>4. /\ jobs' = q /\ jobs' \in [Jobs -> Job] /\ dirty' \in BOOLEAN /\ runners' = runners
      /\ workers' \in [Workers -> Files \cup Folders \cup {None}]
  BY <1>1, <1>3, Committed DEF Inv
<1>5. TypeOK'
  BY <1>2, <1>4 DEF Inv, TypeOK, nativeVars, batchVars
<1>6. \A k \in Jobs : Ordinary(jobs[k], jobs'[k])
  BY <1>1, <1>3, <1>4, Statuses DEF Ordinary, Stays
<1>7. Counted' /\ Stands
  BY <1>6, OrdinaryFrame DEF Inv
<1>8. Honest
  BY <1>1, <1>3, <1>4 DEF Honest, Runs, j
<1>9. UploadsOwned'
  BY <1>1, <1>2, <1>3, <1>4, Statuses DEF Inv, TypeOK, UploadInv, UploadsOwned, nativeVars
<1>10. CopiesBelong'
  <2>1. ASSUME NEW d \in copies'
        PROVE  d \in copies /\ d.job # j /\ jobs'[d.job] = jobs[d.job] /\ owners'[d.job] = owners[d.job]
    <3>1. d \in copies /\ d.job # j
      BY <1>2 DEF Inv, UploadInv, CopiesBelong, j
    <3> QED
      BY <1>2, <1>3, <1>4, <3>1, CopyRuns DEF Inv, TypeOK
  <2> QED
    BY <1>2, <2>1 DEF Inv, UploadInv, CopiesBelong, Runs
<1> QED
  BY <1>1, <1>2, <1>4, <1>5, <1>6, <1>7, <1>8, <1>9, <1>10, RendererMove DEF UploadInv, nativeVars, batchVars

(* A window that closes takes its copies, its intents and its jobs along.   *)
LEMMA CloseWindowKept ==
  ASSUME TransfersAssumption, Inv, NEW w, CloseWindow(w)
  PROVE  Kept
<1> DEFINE q == Interrupted(w)
<1>1. jobs \in Queue /\ workers \in [Workers -> Files \cup Folders \cup {None}]
  BY DEF Inv, TypeOK, Queue
<1>2. ASSUME NEW k \in Jobs
      PROVE  /\ q[k] \in Job /\ Ordinary(jobs[k], q[k])
             /\ q[k].status \in Active => q[k] = jobs[k] /\ owners[k] # w
             /\ owners[k] # w => q[k] = jobs[k]
             /\ jobs[k].status = "running" => q[k].status # "canceled"
  <2>1. CASE owners[k] = w
    <3>1. q[k] = Ended(jobs, k, "failed")[k]
      BY <2>1 DEF Interrupted
    <3>2. /\ Ended(jobs, k, "failed") \in Queue
          /\ \/ Ended(jobs, k, "failed") = jobs
             \/ jobs[k].status \in Active /\ Ended(jobs, k, "failed")[k].status = "failed"
          /\ jobs[k].status = "running" \/ jobs[k].status = "queued" => Ended(jobs, k, "failed")[k].status = "failed"
      BY <1>1, EndedIs, Statuses
    <3>3. jobs[k].status \in Active => jobs[k].status = "running" \/ jobs[k].status = "queued"
      BY DEF Active
    <3> HIDE DEF q
    <3> QED
      BY <2>1, <3>1, <3>2, <3>3, Statuses DEF Ordinary, Stays, Queue
  <2>2. CASE owners[k] # w
    <3>1. q[k] = jobs[k]
      BY <2>2 DEF Interrupted
    <3> HIDE DEF q
    <3> QED
      BY <1>1, <2>2, <3>1 DEF Ordinary, Stays, Queue
  <2> QED
    BY <2>1, <2>2
<1>3. q \in Queue
  <2>1. q = [k \in Jobs |-> q[k]]
    BY DEF Interrupted
  <2> HIDE DEF q
  <2> QED
    BY <1>2, <2>1 DEF Queue
<1>4. /\ Commit(q, runners, workers) /\ windows' = windows \ {w}
      /\ owners' = [k \in Jobs |-> IF owners[k] = w THEN None ELSE owners[k]]
      /\ intents' = {i \in intents : i[1] # w} /\ copies' = {c \in copies : c.window # w}
      /\ UNCHANGED <<nativeVars, batchVars, saved, restarts>>
  BY DEF CloseWindow, Abandoned
<1> HIDE DEF q
<1>5. /\ jobs' = q /\ jobs' \in [Jobs -> Job] /\ dirty' \in BOOLEAN /\ runners' = runners
      /\ workers' \in [Workers -> Files \cup Folders \cup {None}]
  BY <1>1, <1>3, <1>4, Committed DEF Inv
<1>6. TypeOK'
  BY <1>4, <1>5 DEF Inv, TypeOK, nativeVars, batchVars
<1>7. Counted' /\ Stands
  BY <1>2, <1>5, OrdinaryFrame DEF Inv
<1>8. Honest
  BY <1>2, <1>5 DEF Honest, Runs, Jobs
<1>9. UploadsOwned'
  BY <1>2, <1>4, <1>5 DEF Inv, TypeOK, UploadInv, UploadsOwned, nativeVars, Jobs
<1>10. CopiesBelong'
  <2>1. ASSUME NEW c \in copies'
        PROVE  c \in copies /\ jobs'[c.job] = jobs[c.job] /\ owners'[c.job] = owners[c.job]
    BY <1>2, <1>4, <1>5, CopyRuns
  <2> QED
    BY <1>4, <2>1 DEF Inv, UploadInv, CopiesBelong, Runs
<1>11. \A k \in Downloadable : Ordinary(jobs[k], jobs'[k])
  BY <1>2, <1>5 DEF Downloadable, Jobs
<1> QED
  BY <1>4, <1>5, <1>6, <1>7, <1>8, <1>9, <1>10, <1>11, RendererMove DEF UploadInv, nativeVars, batchVars

(* A renderer that is reloaded takes only its copies and intents.           *)
LEMMA ReloadKept ==
  ASSUME TransfersAssumption, Inv, NEW w, Reload(w)
  PROVE  Kept
<1>1. /\ intents' \subseteq intents /\ copies' \subseteq copies
      /\ UNCHANGED <<jobs, nativeVars, runners, owners, windows, batchVars, workers, saved, dirty, restarts>>
  BY DEF Reload, Abandoned
<1>2. CopiesBelong'
  BY <1>1 DEF Inv, UploadInv, CopiesBelong, Runs
<1> QED
  BY <1>1, <1>2, QuietMove DEF Inv, TypeOK

(* Every step of the renderers.                                             *)
LEMMA RenderersKept == TransfersAssumption /\ Inv /\ Renderers => Kept
<1> SUFFICES ASSUME TransfersAssumption, Inv, Renderers PROVE Kept
  OBVIOUS
<1> QED
  BY EnqueueUploadKept, BeginKept, CopyKept, FinishKept, CloseWindowKept, ReloadKept DEF Renderers

-----------------------------------------------------------------------------
(* What the user does, and restarts.                                        *)

(* A cancel leaves what runs at work, or ends it.                           *)
LEMMA CancelKept ==
  ASSUME TransfersAssumption, Inv, NEW j \in Jobs, Cancel(j)
  PROVE  Kept
<1>1. /\ jobs \in Queue /\ jobs[j].status \in Active
      /\ Uploads \subseteq Jobs /\ Downloadable \subseteq Jobs /\ Uploads \cap Downloadable = {}
      /\ workers \in [Workers -> Files \cup Folders \cup {None}]
      /\ UNCHANGED <<pending, rendererVars, windows, batchVars, saved, restarts>>
  BY DEF TransfersAssumption, Inv, TypeOK, Queue, Jobs, Downloadable, Cancel
<1>2. PICK q, rs :
        /\ q \in {CancelRequested(jobs, j), Ended(jobs, j, "canceled")}
        /\ Commit(q, rs, workers) /\ (q = Ended(jobs, j, "canceled") \/ j \in Folders \cup Uploads)
        /\ j \in Uploads => q = CancelRequested(jobs, j)
        /\ rs \subseteq [job : Folders, attempt : 1 .. MaxAttempt, cancel : BOOLEAN, stopping : BOOLEAN,
                         worker : Workers \cup {None}]
        /\ \A r \in runners : \E s \in rs : s.job = r.job /\ s.attempt = r.attempt
  <2>1. CASE handles[j] # 0
    <3> DEFINE reached(x) == x.job = j /\ x.attempt = handles[j]
               rs == {IF reached(r) THEN [r EXCEPT !.cancel = TRUE] ELSE r : r \in runners}
               q == IF j \in Folders THEN CancelRequested(jobs, j) ELSE Ended(jobs, j, "canceled")
    <3>1. Commit(q, rs, workers) /\ j \notin Uploads
      BY <2>1 DEF Cancel, Inv, UploadInv, UploadsOwned
    <3>2. runners \subseteq [job : Folders, attempt : 1 .. MaxAttempt, cancel : BOOLEAN, stopping : BOOLEAN,
                             worker : Workers \cup {None}]
      BY DEF Inv, TypeOK
    <3>3. rs \subseteq [job : Folders, attempt : 1 .. MaxAttempt, cancel : BOOLEAN, stopping : BOOLEAN,
                        worker : Workers \cup {None}]
      BY <3>2
    <3>4. ASSUME NEW r \in runners PROVE \E s \in rs : s.job = r.job /\ s.attempt = r.attempt
      <4>1. (IF reached(r) THEN [r EXCEPT !.cancel = TRUE] ELSE r) \in rs
        OBVIOUS
      <4>2. r \in [job : Folders, attempt : 1 .. MaxAttempt, cancel : BOOLEAN, stopping : BOOLEAN,
                   worker : Workers \cup {None}]
        BY DEF Inv, TypeOK
      <4>3. LET s == IF reached(r) THEN [r EXCEPT !.cancel = TRUE] ELSE r IN s.job = r.job /\ s.attempt = r.attempt
        BY <4>2
      <4> QED
        BY <4>1, <4>3
    <3> HIDE DEF rs
    <3> QED
      BY <3>1, <3>3, <3>4
  <2>2. CASE handles[j] = 0
    <3>1. Commit(IF j \in Uploads THEN CancelRequested(jobs, j) ELSE Ended(jobs, j, "canceled"), runners, workers)
      BY <2>2 DEF Cancel
    <3> QED
      BY <3>1 DEF Inv, TypeOK
  <2> QED
    BY <2>1, <2>2
<1>3. /\ q \in Queue /\ \A k \in Jobs \ {j} : q[k] = jobs[k]
      /\ q[j].attempt = jobs[j].attempt
      /\ q[j].status = jobs[j].status \/ q[j].status = "canceled"
      /\ q[j].status = "queued" => jobs[j].status = "queued"
      /\ j \in Uploads /\ jobs[j].status = "running" => q[j].status = "running"
      /\ j \in Files => q[j].status # "running"
  <2>1. CASE q = CancelRequested(jobs, j)
    <3>1. j \in Folders \cup Uploads \/ q = Ended(jobs, j, "canceled")
      BY <1>2
    <3>2. jobs[j].status # "queued" => q[j].status = jobs[j].status
      BY <1>1, <2>1, CancelRequestedIs
    <3>3. /\ q \in Queue /\ \A k \in Jobs \ {j} : q[k] = jobs[k]
          /\ q[j].attempt = jobs[j].attempt
          /\ q[j].status = jobs[j].status \/ q[j].status = "canceled"
      BY <1>1, <2>1, CancelRequestedIs
    <3>4. q = Ended(jobs, j, "canceled") => q[j].status = "canceled"
      BY <1>1, EndedIs DEF Active, Terminal
    <3>5. j \in Files => j \notin Folders \cup Uploads
      BY DEF TransfersAssumption
    <3> QED
      BY <3>1, <3>2, <3>3, <3>4, <3>5
  <2>2. CASE q = Ended(jobs, j, "canceled") /\ q # CancelRequested(jobs, j)
    <3>1. /\ q \in Queue /\ \A k \in Jobs \ {j} : q[k] = jobs[k]
          /\ q[j].attempt = jobs[j].attempt /\ q[j].status = "canceled"
      BY <1>1, <2>2, StoppedIs
    <3> QED
      BY <1>2, <2>2, <3>1
  <2> QED
    BY <1>2, <2>1, <2>2
<1>4. /\ jobs' = q /\ jobs' \in [Jobs -> Job] /\ dirty' \in BOOLEAN /\ runners' = rs
      /\ workers' \in [Workers -> Files \cup Folders \cup {None}]
  BY <1>1, <1>2, <1>3, Committed DEF Inv
<1>5. /\ handles' \in [Jobs -> 0 .. MaxAttempt] /\ \A k \in Uploads : handles'[k] = 0
      /\ items' \subseteq [job : Files, attempt : 1 .. MaxAttempt, canceled : BOOLEAN]
      /\ \A i \in items : \E x \in items' : x.job = i.job /\ x.attempt = i.attempt
  <2>1. CASE handles[j] # 0
    <3> DEFINE reached(x) == x.job = j /\ x.attempt = handles[j]
    <3>1. /\ handles' = [handles EXCEPT ![j] = 0]
          /\ items' = {IF reached(i) THEN [i EXCEPT !.canceled = TRUE] ELSE i : i \in items}
      BY <2>1 DEF Cancel
    <3>2. handles' \in [Jobs -> 0 .. MaxAttempt] /\ \A k \in Uploads : handles'[k] = 0
      <4>1. j \notin Uploads /\ 0 \in 0 .. MaxAttempt
        BY <2>1 DEF Inv, UploadInv, UploadsOwned, TransfersAssumption
      <4> QED
        BY <3>1, <4>1, HandleSet
    <3>3. items \subseteq [job : Files, attempt : 1 .. MaxAttempt, canceled : BOOLEAN]
      BY DEF Inv, TypeOK
    <3>4. items' \subseteq [job : Files, attempt : 1 .. MaxAttempt, canceled : BOOLEAN]
      BY <3>1, <3>3
    <3>5. ASSUME NEW i \in items PROVE \E x \in items' : x.job = i.job /\ x.attempt = i.attempt
      <4>1. (IF reached(i) THEN [i EXCEPT !.canceled = TRUE] ELSE i) \in items'
        BY <3>1
      <4>2. i \in [job : Files, attempt : 1 .. MaxAttempt, canceled : BOOLEAN]
        BY <3>3
      <4>3. LET x == IF reached(i) THEN [i EXCEPT !.canceled = TRUE] ELSE i IN x.job = i.job /\ x.attempt = i.attempt
        BY <4>2
      <4> QED
        BY <4>1, <4>3
    <3> QED
      BY <3>2, <3>4, <3>5
  <2>2. CASE handles[j] = 0
    BY <2>2 DEF Cancel, Inv, TypeOK, UploadInv, UploadsOwned
  <2> QED
    BY <2>1, <2>2
<1>6. TypeOK'
  <2>1. runners' \subseteq [job : Folders, attempt : 1 .. MaxAttempt, cancel : BOOLEAN, stopping : BOOLEAN,
                            worker : Workers \cup {None}]
    BY <1>2, <1>4
  <2> QED
    BY <1>1, <1>4, <1>5, <2>1 DEF Inv, TypeOK, rendererVars, batchVars
<1>7. Counted'
  BY <1>1, <1>3, <1>4 DEF Inv, Counted
<1>8. Stands
  <2>1. \A k \in Jobs : Outcome(jobs[k], jobs'[k])
    BY <1>1, <1>3, <1>4, Statuses DEF Outcome
  <2> QED
    BY <2>1 DEF Stands
<1>9. UploadInv' /\ Honest
  <2>1. \A k \in Uploads : Gentle(jobs[k], jobs'[k])
    BY <1>1, <1>3, <1>4, Statuses DEF Gentle, Stays, Active
  <2> QED
    BY <1>1, <1>5, <2>1, UploadFrame DEF Inv, rendererVars
<1>10. ASSUME NEW k \in Jobs, jobs'[k].status \in Active
       PROVE  jobs'[k].status = jobs[k].status /\ jobs'[k].attempt = jobs[k].attempt
  BY <1>3, <1>4, <1>10, Statuses
<1>11. FilesServed'
  <2>1. ASSUME NEW k \in Files, jobs'[k].status = "running"
        PROVE  \E x \in pending' \cup items' : x.job = k /\ x.attempt = jobs'[k].attempt
    <3>1. k \in Jobs /\ jobs[k].status = "running" /\ jobs'[k].attempt = jobs[k].attempt
      BY <1>10, <2>1, Statuses DEF Jobs
    <3>2. PICK x \in pending \cup items : x.job = k /\ x.attempt = jobs[k].attempt
      BY <3>1 DEF Inv, DownloadInv, FilesServed, Runs
    <3> QED
      BY <1>1, <1>5, <3>1, <3>2
  <2> QED
    BY <2>1 DEF FilesServed, Runs
<1>12. FoldersServed'
  <2>1. ASSUME NEW k \in Folders, jobs'[k].status = "running"
        PROVE  \E x \in runners' : x.job = k /\ x.attempt = jobs'[k].attempt
    <3>1. k \in Jobs /\ jobs[k].status = "running" /\ jobs'[k].attempt = jobs[k].attempt
      BY <1>10, <2>1, Statuses DEF Jobs
    <3>2. PICK x \in runners : x.job = k /\ x.attempt = jobs[k].attempt
      BY <3>1 DEF Inv, DownloadInv, FoldersServed, Runs
    <3> QED
      BY <1>2, <1>4, <3>1, <3>2
  <2> QED
    BY <2>1 DEF FoldersServed, Runs
<1>13. QueuedInBatch'
  BY <1>1, <1>10, Statuses DEF Inv, DownloadInv, QueuedInBatch, batchVars
<1> QED
  BY <1>6, <1>7, <1>8, <1>9, <1>11, <1>12, <1>13 DEF Inv, DownloadInv, Kept

(* A retry starts a download anew, or waits for a renderer to begin.        *)
LEMMA RetryKept ==
  ASSUME TransfersAssumption, Inv, NEW w, NEW j \in Jobs, Retry(w, j)
  PROVE  Kept
<1> DEFINE q == Retried(jobs, j)
<1>1. /\ jobs \in Queue /\ jobs[j].status \in Terminal /\ jobs[j].attempt < MaxAttempt
      /\ w \in windows /\ w \in Windows /\ jobs[j].attempt \in Nat
      /\ Uploads \subseteq Jobs /\ Downloadable \subseteq Jobs /\ Uploads \cap Downloadable = {}
      /\ workers \in [Workers -> Files \cup Folders \cup {None}]
      /\ UNCHANGED <<windows, batchVars, saved, restarts>>
  BY DEF TransfersAssumption, Inv, TypeOK, Queue, Jobs, Job, Downloadable, Retry, Terminal
<1>2. /\ q \in Queue /\ \A k \in Jobs \ {j} : q[k] = jobs[k]
      /\ q[j].status = "queued" /\ q[j].attempt = jobs[j].attempt + 1
  BY <1>1, RetriedIs
<1>3. CASE \/ j \in Files /\ StartFile(q, j, workers) /\ UNCHANGED rendererVars
           \/ j \in Folders /\ StartFolder(q, j, None, workers) /\ UNCHANGED rendererVars
  <2> HIDE DEF q
  <2>1. j \in Files \cup Folders /\ q[j].attempt >= 1 /\ \A k \in Jobs \ {j} : Stays(jobs[k], q[k])
    BY <1>1, <1>2, <1>3 DEF Stays
  <2>2. batch' \in Seq(Files \cup Folders) /\ sender' \in Windows \cup {None} /\ batch' = batch
    BY <1>1 DEF Inv, TypeOK, batchVars
  <2> QED
    BY <1>1, <1>2, <1>3, <2>1, <2>2, StartKept
<1>4. CASE /\ j \in Uploads
           /\ Commit(q, runners, workers)
           /\ owners' = [owners EXCEPT ![j] = w]
           /\ intents' = intents \cup {<<w, j>>}
           /\ UNCHANGED <<nativeVars, copies>>
  <2> HIDE DEF q
  <2>1. /\ jobs' = q /\ jobs' \in [Jobs -> Job] /\ dirty' \in BOOLEAN /\ runners' = runners
        /\ workers' \in [Workers -> Files \cup Folders \cup {None}]
    BY <1>1, <1>2, <1>4, Committed DEF Inv
  <2>2. TypeOK'
    <3>1. owners' \in [Jobs -> Windows \cup {None}]
      BY <1>1, <1>4 DEF Inv, TypeOK
    <3>2. intents' \subseteq Windows \X Uploads
      BY <1>1, <1>4 DEF Inv, TypeOK
    <3> QED
      BY <1>1, <1>4, <2>1, <3>1, <3>2 DEF Inv, TypeOK, nativeVars, batchVars
  <2>3. Counted'
    BY <1>1, <1>2, <2>1 DEF Inv, Counted
  <2>4. Stands
    <3>1. \A k \in Jobs : Outcome(jobs[k], jobs'[k])
      BY <1>1, <1>2, <2>1, Statuses DEF Outcome
    <3> QED
      BY <3>1 DEF Stands
  <2>5. Honest
    BY <1>1, <1>2, <2>1 DEF Honest, Runs
  <2>6. UploadsOwned'
    BY <1>1, <1>2, <1>4, <2>1 DEF Inv, TypeOK, UploadInv, UploadsOwned, nativeVars
  <2>7. CopiesBelong'
    <3>1. ASSUME NEW c \in copies
          PROVE  c.job # j /\ jobs'[c.job] = jobs[c.job] /\ owners'[c.job] = owners[c.job]
      BY <1>1, <1>2, <1>4, <2>1, CopyRuns, Statuses DEF Inv, TypeOK
    <3>2. \A i \in intents' : i[1] \in windows
      BY <1>1, <1>4 DEF Inv, UploadInv, CopiesBelong
    <3> QED
      BY <1>1, <1>4, <3>1, <3>2 DEF Inv, UploadInv, CopiesBelong, Runs
  <2>8. \A k \in Downloadable : Ordinary(jobs[k], jobs'[k])
    BY <1>1, <1>2, <1>4, <2>1 DEF Ordinary, Stays
  <2> QED
    BY <1>1, <1>4, <2>1, <2>2, <2>3, <2>4, <2>5, <2>6, <2>7, <2>8, RendererMove
       DEF UploadInv, nativeVars, batchVars
<1> QED
  BY <1>3, <1>4 DEF Retry

(* Clearing drops ended jobs only.                                          *)
LEMMA ClearInactiveKept ==
  ASSUME TransfersAssumption, Inv, ClearInactive
  PROVE  Kept
<1>1. jobs \in Queue /\ workers \in [Workers -> Files \cup Folders \cup {None}]
  BY DEF Inv, TypeOK, Queue
<1>2. Cleared(jobs) \in Queue /\ \A k \in Jobs : Stays(jobs[k], Cleared(jobs)[k])
  BY <1>1, ClearedStays
<1>3. \A k \in Jobs : Ordinary(jobs[k], Cleared(jobs)[k])
  BY <1>2 DEF Ordinary
<1>4. Commit(Cleared(jobs), runners, workers)
      /\ UNCHANGED <<pending, items, handles, rendererVars, windows, batch, sender, saved, restarts>>
  BY DEF ClearInactive, nativeVars, batchVars
<1>5. /\ handles' \in [Jobs -> 0 .. MaxAttempt] /\ \A k \in Uploads : handles'[k] = 0 /\ k \in Jobs
      /\ batch' \in Seq(Files \cup Folders) /\ sender' \in Windows \cup {None}
  BY <1>4 DEF Inv, TypeOK, UploadInv, UploadsOwned, Jobs
<1> QED
  BY <1>1, <1>2, <1>3, <1>4, <1>5, EndingKept

(* A flush changes what is saved only.                                      *)
LEMMA FlushKept ==
  ASSUME TransfersAssumption, Inv, Flush
  PROVE  Kept
  BY Unmoved DEF Flush, Inv, TypeOK, Queue

(* After a restart nothing is active, and nothing is under way.             *)
LEMMA RestartKept ==
  ASSUME TransfersAssumption, Inv, Restart
  PROVE  Kept
<1>1. saved' \in Queue
  BY DEF Restart, Inv, TypeOK, Queue
<1>2. jobs' \in Queue /\ \A j \in Jobs : jobs'[j].status \notin Active
  BY <1>1, RecoveredIs DEF Restart
<1>3. /\ handles' = [j \in Jobs |-> 0] /\ pending' = {} /\ items' = {} /\ runners' = {}
      /\ owners' = [j \in Jobs |-> None] /\ windows' = Windows /\ intents' = {} /\ copies' = {}
      /\ batch' = <<>> /\ sender' = None /\ workers' = [b \in Workers |-> None]
      /\ dirty' = TRUE /\ restarts' = restarts + 1 /\ restarts' \in 0 .. MaxRestarts
      /\ restarts' # restarts
  BY DEF Restart, Inv, TypeOK, TransfersAssumption
<1>4. TypeOK'
  BY <1>1, <1>2, <1>3 DEF TypeOK, Queue, TransfersAssumption
<1>5. Counted' /\ Stands /\ Honest
  BY <1>2, <1>3 DEF Counted, Stands, Honest
<1>6. UploadInv'
  BY <1>2, <1>3 DEF UploadInv, UploadsOwned, CopiesBelong, Jobs
<1>7. DownloadInv'
  BY <1>2, <1>3, Statuses DEF DownloadInv, FilesServed, FoldersServed, QueuedInBatch, Runs, Downloadable, Jobs
<1> QED
  BY <1>4, <1>5, <1>6, <1>7 DEF Inv, Kept

-----------------------------------------------------------------------------
(* The theorems.                                                            *)

(* The initial state satisfies the invariant.                               *)
LEMMA InitInv == TransfersAssumption /\ Init => Inv
<1> SUFFICES ASSUME TransfersAssumption, Init PROVE Inv
  OBVIOUS
<1>1. jobs \in [Jobs -> Job] /\ saved \in [Jobs -> Job] /\ \A j \in Jobs : jobs[j].status = "new"
  BY Records DEF Init, NewJob
<1>2. TypeOK
  <2>1. 0 \in 0 .. MaxAttempt /\ 0 \in 0 .. MaxRestarts
    BY DEF TransfersAssumption
  <2>2. /\ handles \in [Jobs -> 0 .. MaxAttempt] /\ owners \in [Jobs -> Windows \cup {None}]
        /\ workers \in [Workers -> Files \cup Folders \cup {None}] /\ batch \in Seq(Files \cup Folders)
    BY <2>1 DEF Init
  <2>3. /\ pending = {} /\ items = {} /\ runners = {} /\ intents = {} /\ copies = {} /\ windows = Windows
        /\ sender = None /\ dirty = FALSE /\ restarts = 0
    BY DEF Init
  <2> QED
    BY <1>1, <2>1, <2>2, <2>3 DEF TypeOK
<1>3. Counted /\ UploadInv
  BY <1>1, Statuses DEF Init, Counted, UploadInv, UploadsOwned, CopiesBelong, Jobs
<1>4. DownloadInv
  BY <1>1, Statuses DEF DownloadInv, FilesServed, FoldersServed, QueuedInBatch, Runs, Downloadable, Jobs
<1> QED
  BY <1>2, <1>3, <1>4 DEF Inv

(* Every step keeps the invariant, lets outcomes stand and cancels          *)
(* honestly.                                                                *)
LEMMA StepKept == TransfersAssumption /\ Inv /\ [Next]_vars => Kept
<1> SUFFICES ASSUME TransfersAssumption, Inv, [Next]_vars PROVE Kept
  OBVIOUS
<1>1. CASE UNCHANGED vars
  BY <1>1, Unmoved DEF vars, nativeVars, rendererVars, batchVars, Inv, TypeOK, Queue
<1>2. CASE Next
  BY <1>2, DownloadsKept, RenderersKept, CancelKept, RetryKept, ClearInactiveKept, FlushKept, RestartKept DEF Next
<1> QED
  BY <1>1, <1>2

(* The invariant holds in every reachable state.                            *)
LEMMA InvHolds == ASSUME TransfersAssumption PROVE Spec => []Inv
<1>1. Init => Inv
  BY InitInv
<1>2. Inv /\ [Next]_vars => Inv'
  BY StepKept DEF Kept
<1> QED
  BY <1>1, <1>2, PTL DEF Spec

(* The variables keep their types.                                          *)
THEOREM TransfersTypeCorrect == ASSUME TransfersAssumption PROVE Spec => []TypeOK
<1>1. Inv => TypeOK
  BY DEF Inv
<1> QED
  BY <1>1, InvHolds, PTL

(* What runs is worked on by the attempt it is at: no cancel, retry, prune, *)
(* failure, closed window or restart leaves a job that runs for ever.       *)
THEOREM TransfersServed == ASSUME TransfersAssumption PROVE Spec => []RunningIsServed
<1>1. Inv => RunningIsServed
  BY Statuses DEF Inv, UploadInv, UploadsOwned, DownloadInv, FilesServed, FoldersServed, RunningIsServed, Runs, Jobs
<1> QED
  BY <1>1, InvHolds, PTL

(* What is queued has a batch or a window that will start or fail it.       *)
THEOREM TransfersWaitedFor == ASSUME TransfersAssumption PROVE Spec => []QueuedIsWaitedFor
<1>1. Inv => QueuedIsWaitedFor
  BY Statuses DEF Inv, UploadInv, UploadsOwned, DownloadInv, QueuedInBatch, QueuedIsWaitedFor, Downloadable, Jobs
<1> QED
  BY <1>1, InvHolds, PTL

(* A renderer that reports an outcome by job id reports on the attempt the  *)
(* job is at.                                                               *)
THEOREM TransfersReported == ASSUME TransfersAssumption PROVE Spec => []ReportsItsAttempt
<1>1. Inv => ReportsItsAttempt
  BY DEF Inv, UploadInv, CopiesBelong, ReportsItsAttempt
<1> QED
  BY <1>1, InvHolds, PTL

(* Active jobs are not dropped and outcomes stand until a retry.            *)
THEOREM TransfersOutcomeStands == ASSUME TransfersAssumption PROVE Spec => OutcomeStands
<1> DEFINE A == \A j \in Jobs : restarts' = restarts =>
       /\ jobs[j].status \in Active => jobs'[j].status \in Active \cup Terminal
       /\ jobs[j].status \in Terminal =>
            jobs'[j].status \in {jobs[j].status, "gone"} \/ jobs'[j].attempt = jobs[j].attempt + 1
<1>1. Inv /\ [Next]_vars => [A]_vars
  <2>1. Inv /\ [Next]_vars => Stands
    BY StepKept DEF Kept
  <2>2. Stands => A
    BY DEF Stands, Outcome
  <2> QED
    BY <2>1, <2>2
<1>2. Spec => [][A]_vars
  <2> HIDE DEF A
  <2> QED
    BY <1>1, InvHolds, PTL DEF Spec
<1> QED
  BY <1>2 DEF OutcomeStands

(* An upload under way is called canceled only when its copy was not made.  *)
THEOREM TransfersCancelHonest == ASSUME TransfersAssumption PROVE Spec => CancelIsHonest
<1>1. Inv /\ [Next]_vars => [Honest]_vars
  BY StepKept DEF Kept
<1>2. Spec => [][Honest]_vars
  BY <1>1, InvHolds, PTL DEF Spec
<1> QED
  BY <1>2 DEF CancelIsHonest, Honest

-----------------------------------------------------------------------------
(* TermSync: what always holds                                              *)

(* The names of the types and stages of the view.                           *)
FileState == [epoch : Epochs, size : Positions]
ScreenSave == [epoch : Epochs, offset : Positions, screen : Screen, cut : BOOLEAN]
Snapshot == [at : Epochs, save : ScreenSave]
FileAnswer == [epoch : Epochs, from : Positions, size : Positions]
FileEvent == [op : {"append", "truncate"}, epoch : Epochs, from : Positions, to : Positions]
XtermWrite == [bytes : Screen, offset : Positions]
Bound == [lost : Nat, saves : Nat, fails : Nat, opens : Nat]

Opening == {"cache", "main", "all", "writeCache", "writeMain", "drain"}
Restoring == {"writeCache", "writeMain"}
Applying == {"apply", "missing", "fresh", "writeMissing", "writeFresh"}

ServerTypes ==
  /\ file \in FileState /\ cache \in ScreenSave /\ saves \subseteq ScreenSave
  /\ unsent \in Seq(FileEvent) /\ Len(unsent) <= 1 /\ events \in Seq(FileEvent)
  /\ used \in Bound

ScreenTypes ==
  /\ fileEpoch \in Epochs /\ termFileEpoch \in Epochs /\ ptyOffset \in Positions
  /\ loaded \in BOOLEAN /\ appendDrainScheduled \in BOOLEAN
  /\ heldData \in Seq(AppendRec) /\ pendingAppends \in Seq(AppendRec) /\ shown \in Screen
  /\ snapshot \in Seq(Snapshot) /\ Len(snapshot) <= 1 /\ cut \in BOOLEAN

ProcessTypes ==
  /\ pc \in Asking \cup Restoring \cup {"drain", "idle"} \cup Applying
  /\ epoch \in Epochs /\ append \in AppendRec
  /\ cached \in ScreenSave /\ write \in XtermWrite
  /\ Len(reply) <= 1
  /\ IF pc = "cache" THEN reply \in Seq(ScreenSave) ELSE reply \in Seq(FileAnswer)

ViewTypes == ServerTypes /\ ScreenTypes /\ ProcessTypes

(* What each stage of the process goes with.                                *)
Stages ==
  /\ pc \in Opening => ~loaded
  /\ pc = "idle" => loaded
  /\ ~loaded => pendingAppends = <<>> /\ ~appendDrainScheduled
  /\ pc \in Restoring => reply # <<>>
  /\ pc \notin Asking \cup Restoring => reply = <<>>

Truncates(e) == e.op = "truncate"

(* The view has seen no more truncations than there were, and those on      *)
(* their way come in order.                                                 *)
Truncations ==
  /\ fileEpoch <= file.epoch /\ termFileEpoch <= file.epoch /\ epoch <= fileEpoch
  /\ \A i \in 1 .. Len(events) :
       Truncates(events[i]) => fileEpoch < events[i].epoch /\ events[i].epoch <= file.epoch
  /\ \A i, j \in 1 .. Len(events) :
       i < j /\ Truncates(events[i]) /\ Truncates(events[j]) => events[i].epoch < events[j].epoch

(* An append that was made: of the file f as it is, or of one that is gone. *)
WasMade(f, a) ==
  /\ a.epoch <= f.epoch /\ a.from < a.to
  /\ a.epoch = f.epoch => a.to <= f.size

Waits(f, a) == WasMade(f, a) /\ a.at = fileEpoch /\ a.epoch = termFileEpoch

AppendsMade ==
  /\ \A i \in 1 .. Len(unsent) : unsent[i].op = "append" /\ WasMade(file, unsent[i])
  /\ \A i \in 1 .. Len(events) : events[i].op = "append" => WasMade(file, events[i])
  /\ \A i \in 1 .. Len(heldData) : WasMade(file, heldData[i])
  /\ \A i \in 1 .. Len(pendingAppends) : Waits(file, pendingAppends[i])

AppendApplies ==
  /\ append.at <= fileEpoch
  /\ pc \in Applying =>
       /\ WasMade(file, append)
       /\ ~Stale => append.epoch = termFileEpoch
       /\ ~loaded => append.at = epoch

(* Faithful, of a file f.                                                   *)
Begins(f) == Larger(0, f.size - MaxSize)
Follow(x, y, start) == y[2] = x[2] + 1 \/ (y[2] > x[2] + 1 /\ y[2] <= start)
IsFaithful(f, screen, e, offset) ==
  /\ \A i \in 1 .. Len(screen) : screen[i][1] = e
  /\ \A i \in 2 .. Len(screen) : Follow(screen[i - 1], screen[i], Begins(f))
  /\ screen # <<>> => screen[Len(screen)][2] = offset - 1

Fits(f, screen, e, offset) == e = f.epoch => IsFaithful(f, screen, e, offset)
StandsFor(f, s) == s.epoch <= f.epoch /\ (~s.cut => Fits(f, s.screen, s.epoch, s.offset))

(* Saved screens, wherever they are, stand for the file.                    *)
SavesStand ==
  /\ StandsFor(file, cache) /\ StandsFor(file, cached) /\ \A s \in saves : StandsFor(file, s)
  /\ \A i \in 1 .. Len(snapshot) : StandsFor(file, snapshot[i].save)
  /\ pc = "cache" /\ reply # <<>> => StandsFor(file, reply[1])

(* The answer r to a request for the file from `asked` on: where bytes are  *)
(* left out the file no longer had them.                                    *)
Answers(f, r, asked) ==
  /\ r.epoch <= f.epoch /\ asked <= r.from /\ (asked < r.from => r.from < r.size)
  /\ r.epoch = f.epoch => r.size <= f.size /\ (asked < r.from => r.from <= Begins(f))

Loads(r) ==
  /\ pc \in {"main", "writeCache"} => Answers(file, r, cached.offset)
  /\ pc \in {"all", "writeMain"} => r.epoch <= file.epoch /\ (r.epoch = file.epoch => r.size <= file.size)
  /\ pc \in Restoring /\ epoch = fileEpoch => r.epoch = termFileEpoch
  /\ pc = "writeCache" =>
       /\ write.bytes = cached.screen /\ write.offset = cached.offset /\ cached.epoch = r.epoch
       /\ cached.offset <= r.size /\ (cached.cut => cut)
  /\ pc = "writeMain" => write.offset = r.size

Fetches(r) ==
  pc = "missing" /\ ~Stale =>
    /\ Answers(file, r, ptyOffset) /\ termFileEpoch <= r.epoch
    /\ r.epoch = append.epoch => append.to <= r.size

RepliesHold ==
  /\ reply # <<>> => Loads(reply[1]) /\ Fetches(reply[1])
  /\ pc = "missing" /\ ~Stale => ptyOffset < append.from
  /\ pc = "writeFresh" => write.offset = append.to

NotShownYet ==
  ~loaded /\ (pc \in {"cache", "main", "all", "writeCache"} \/ (epoch # fileEpoch /\ pc # "writeMain"))

Showing ==
  /\ Appending => ~Stale
  /\ NotShownYet => shown = <<>>
  /\ pc \notin Restoring => Fits(file, shown, termFileEpoch, ptyOffset)
  /\ Appending \/ (pc \in Restoring /\ epoch = fileEpoch)
       => Fits(file, shown \o write.bytes, termFileEpoch, write.offset)
  /\ pc = "writeMissing" /\ termFileEpoch = file.epoch => append.from <= write.offset
  /\ pc = "fresh" /\ ~Stale /\ termFileEpoch = file.epoch => append.from <= ptyOffset

ViewInv ==
  /\ ViewTypes /\ Stages /\ Truncations /\ AppendsMade /\ AppendApplies
  /\ SavesStand /\ RepliesHold /\ (~cut => Showing)

-----------------------------------------------------------------------------
(* Completeness                                                             *)

(* The append that made the file as long as it is comes after event k.      *)
Newest(f, a) == a.epoch = f.epoch /\ a.to = f.size
Follows(f, q) == \E i \in 1 .. Len(q) : Newest(f, q[i])
Comes(f, u, q, k) ==
  \/ f.size = 0 /\ k > 0
  \/ Follows(f, u)
  \/ \E i \in 1 .. Len(q) : i > k /\ q[i].op = "append" /\ Newest(f, q[i])
TruncationComes(f, q) == \E i \in 1 .. Len(q) : Truncates(q[i]) /\ q[i].epoch = f.epoch

EventsComplete ==
  /\ (\E i \in 1 .. Len(events) : Truncates(events[i])) => TruncationComes(file, events)
  /\ used.lost = 0 =>
       \A i \in 1 .. Len(events) :
         Truncates(events[i]) /\ events[i].epoch = file.epoch => Comes(file, unsent, events, i)

CurrentLoad == ~loaded /\ epoch = fileEpoch
Shows(size) ==
  \/ ptyOffset = size
  \/ Appending /\ write.offset = size
  \/ pc \in Applying /\ ~Stale /\ append.to = size
Following == loaded \/ (CurrentLoad /\ pc \in {"drain"} \cup Applying)

EpochKnown ==
  /\ CurrentLoad /\ pc \in {"main", "all"} /\ reply # <<>> =>
       (reply[1].epoch = file.epoch \/ TruncationComes(file, events))
  /\ (loaded \/ (CurrentLoad /\ pc \notin {"cache", "main", "all"})) =>
       (termFileEpoch = file.epoch \/ TruncationComes(file, events))

AllComes ==
  /\ CurrentLoad /\ pc \in {"main", "all"} \cup Restoring /\ reply # <<>> /\ reply[1].epoch = file.epoch =>
       (reply[1].size = file.size \/ Comes(file, unsent, events, 0) \/ Follows(file, heldData))
  /\ Following /\ termFileEpoch = file.epoch =>
       /\ ptyOffset <= file.size
       /\ Appending => ptyOffset < write.offset /\ write.offset <= file.size
       /\ \/ Shows(file.size) \/ Comes(file, unsent, events, 0) \/ Follows(file, pendingAppends)
          \/ ~loaded /\ Follows(file, heldData)

Undisturbed == used.lost = 0 /\ used.fails = 0 /\ ~cut
CompleteInv ==
  /\ EventsComplete
  /\ Undisturbed => EpochKnown /\ AllComes /\ (pendingAppends # <<>> => appendDrainScheduled)

-----------------------------------------------------------------------------
(* Sequences                                                                *)

(* The rest of a sequence that is not empty, and its head.                  *)
LEMMA TailIs ==
  ASSUME NEW S, NEW q \in Seq(S), q # <<>>
  PROVE  /\ Tail(q) \in Seq(S) /\ Len(Tail(q)) = Len(q) - 1 /\ Len(q) \in Nat \ {0}
         /\ \A i \in 1 .. Len(q) - 1 : Tail(q)[i] = q[i + 1] /\ i + 1 \in 1 .. Len(q)
         /\ Head(q) = q[1] /\ q[1] \in S /\ 1 \in 1 .. Len(q)
  OBVIOUS

(* A sequence with one more element.                                        *)
LEMMA AppendIs ==
  ASSUME NEW S, NEW q \in Seq(S), NEW x \in S
  PROVE  /\ Append(q, x) \in Seq(S) /\ Len(Append(q, x)) = Len(q) + 1 /\ Len(q) \in Nat
         /\ \A i \in 1 .. Len(q) : Append(q, x)[i] = q[i] /\ i \in 1 .. Len(q) + 1
         /\ Append(q, x)[Len(q) + 1] = x /\ Len(q) + 1 \in 1 .. Len(q) + 1
         /\ \A i \in 1 .. Len(q) + 1 : i \in 1 .. Len(q) \/ i = Len(q) + 1
  OBVIOUS

(* A sequence behind another.                                               *)
LEMMA ConcatIs ==
  ASSUME NEW S, NEW q \in Seq(S), NEW r \in Seq(S)
  PROVE  /\ q \o r \in Seq(S) /\ Len(q \o r) = Len(q) + Len(r) /\ Len(q) \in Nat /\ Len(r) \in Nat
         /\ \A i \in 1 .. Len(q) : (q \o r)[i] = q[i]
         /\ \A i \in 1 .. Len(r) : (q \o r)[Len(q) + i] = r[i]
  OBVIOUS

(* What is left of a sequence without its first n elements.                 *)
LEMMA SubSeqIs ==
  ASSUME NEW S, NEW q \in Seq(S), NEW n \in 0 .. Len(q)
  PROVE  /\ SubSeq(q, n + 1, Len(q)) \in Seq(S) /\ Len(SubSeq(q, n + 1, Len(q))) = Len(q) - n
         /\ \A i \in 1 .. Len(q) - n : SubSeq(q, n + 1, Len(q))[i] = q[i + n]
  OBVIOUS

-----------------------------------------------------------------------------
(* Files and screens                                                        *)

(* The size and the first byte of a file are numbers.                       *)
LEMMA FileIs ==
  ASSUME TermSyncAssumption, NEW f \in FileState
  PROVE  /\ Begins(f) \in Positions /\ f.epoch \in Nat /\ f.size \in Nat
         /\ Begins(f) = 0 \/ Begins(f) < f.size
         /\ 0 \in Positions /\ 0 \in Epochs
  BY DEF TermSyncAssumption, FileState, Begins, Larger, Positions, Epochs

(* A screen that fits a file still does when the file has grown or got      *)
(* another epoch.                                                           *)
LEMMA FitsKept ==
  ASSUME TermSyncAssumption, NEW f \in FileState, NEW g \in FileState,
         NEW s \in Screen, NEW e \in Epochs, NEW o, Fits(f, s, e, o), e <= f.epoch,
         f.epoch < g.epoch \/ (f.epoch = g.epoch /\ f.size <= g.size)
  PROVE  Fits(g, s, e, o)
<1>1. SUFFICES ASSUME e = g.epoch PROVE IsFaithful(g, s, e, o)
  BY DEF Fits
<1>2. IsFaithful(f, s, e, o) /\ f.size <= g.size
  BY <1>1, FileIs DEF Fits, Epochs, TermSyncAssumption
<1>3. Begins(f) <= Begins(g)
  BY <1>2, FileIs DEF Begins, Larger, FileState, TermSyncAssumption
<1>4. ASSUME NEW i \in 2 .. Len(s) PROVE Follow(s[i - 1], s[i], Begins(g))
  <2>1. Follow(s[i - 1], s[i], Begins(f))
    BY <1>2 DEF IsFaithful
  <2>2. s[i][2] \in Positions
    BY DEF Screen
  <2> QED
    BY <1>3, <2>1, <2>2, FileIs DEF Follow, Positions, TermSyncAssumption
<1> QED
  BY <1>2, <1>4 DEF IsFaithful

(* An empty screen fits every file.                                         *)
LEMMA EmptyFits == \A f, e, o : Fits(f, <<>>, e, o)
  BY DEF Fits, IsFaithful

(* Bytes lists the positions from..to-1 of a file.                          *)
LEMMA BytesAre ==
  ASSUME TermSyncAssumption, NEW e \in Epochs, NEW from \in Positions, NEW to \in Positions, from <= to
  PROVE  /\ Bytes(e, from, to) \in Screen /\ Len(Bytes(e, from, to)) = to - from
         /\ \A i \in 1 .. to - from : Bytes(e, from, to)[i] = <<e, from + i - 1>>
<1>1. to - from \in Nat /\ \A n \in 1 .. to - from : from + n - 1 \in Positions
  BY DEF Positions, TermSyncAssumption
<1>2. \A n \in 1 .. to - from : <<e, from + n - 1>> \in Epochs \X Positions
  BY <1>1
<1> QED
  BY <1>1, <1>2 DEF Bytes, Screen

(* Bytes put behind a screen: they follow it, or the file does not have     *)
(* what lies between.                                                       *)
LEMMA BytesFollow ==
  ASSUME TermSyncAssumption, NEW f \in FileState, NEW s \in Screen, NEW e \in Epochs,
         NEW o \in Positions, NEW from \in Positions, NEW to \in Positions,
         Fits(f, s, e, o), from <= to,
         e = f.epoch => from = o \/ s = <<>> \/ (o < from /\ from <= Begins(f) /\ from < to)
  PROVE  Fits(f, s \o Bytes(e, from, to), e, IF s # <<>> /\ from = to THEN o ELSE to)
<1> DEFINE b == Bytes(e, from, to)
           t == s \o b
<1>1. /\ b \in Screen /\ Len(b) = to - from
      /\ \A i \in 1 .. to - from : b[i] = <<e, from + i - 1>>
  BY BytesAre
<1>2. /\ t \in Screen /\ Len(t) = Len(s) + Len(b) /\ Len(s) \in Nat /\ Len(b) \in Nat
      /\ \A i \in 1 .. Len(s) : t[i] = s[i]
      /\ \A i \in 1 .. Len(b) : t[Len(s) + i] = b[i]
  <2> DEFINE S == Epochs \X Positions
  <2>1. s \in Seq(S) /\ b \in Seq(S)
    BY <1>1 DEF Screen
  <2>. HIDE DEF b, S
  <2>2. /\ t \in Seq(S) /\ Len(t) = Len(s) + Len(b) /\ Len(s) \in Nat /\ Len(b) \in Nat
        /\ \A i \in 1 .. Len(s) : t[i] = s[i]
        /\ \A i \in 1 .. Len(b) : t[Len(s) + i] = b[i]
    BY <2>1, ConcatIs
  <2> QED
    BY <2>2 DEF S, Screen
<1>. HIDE DEF b, t
<1>3. SUFFICES ASSUME e = f.epoch PROVE IsFaithful(f, t, e, IF s # <<>> /\ from = to THEN o ELSE to)
  BY DEF Fits, t, b
<1>4. /\ \A i \in 1 .. Len(s) : s[i][1] = e
      /\ \A i \in 2 .. Len(s) : Follow(s[i - 1], s[i], Begins(f))
      /\ s # <<>> => s[Len(s)][2] = o - 1
  BY <1>3 DEF Fits, IsFaithful
<1>5. from \in Nat /\ to \in Nat /\ o \in Nat
  BY DEF Positions
<1>6. \A i \in 1 .. Len(b) : b[i][1] = e /\ b[i][2] = from + i - 1
  BY <1>1
<1>7. ASSUME NEW i \in 1 .. Len(t), i > Len(s)
      PROVE  i - Len(s) \in 1 .. Len(b) /\ t[i] = b[i - Len(s)]
  <2>1. i - Len(s) \in 1 .. Len(b) /\ Len(s) + (i - Len(s)) = i
    BY <1>2, <1>7
  <2> QED
    BY <2>1, <1>2
<1>8. \A i \in 1 .. Len(t) : t[i][1] = e
  <2> TAKE i \in 1 .. Len(t)
  <2>1. CASE i <= Len(s)
    BY <2>1, <1>2, <1>4
  <2>2. CASE i > Len(s)
    BY <2>2, <1>7, <1>6
  <2> QED
    BY <2>1, <2>2, <1>2
<1>9. \A i \in 2 .. Len(t) : Follow(t[i - 1], t[i], Begins(f))
  <2> TAKE i \in 2 .. Len(t)
  <2>0. i \in 1 .. Len(t) /\ i - 1 \in 1 .. Len(t) /\ i \in Int
    BY <1>2
  <2>1. CASE i <= Len(s)
    <3>1. t[i] = s[i] /\ t[i - 1] = s[i - 1]
      BY <2>1, <1>2
    <3> QED
      BY <2>1, <3>1, <1>4
  <2>2. CASE i = Len(s) + 1
    <3>1. t[i] = b[1] /\ 1 \in 1 .. Len(b) /\ i - 1 = Len(s) /\ Len(s) \in 1 .. Len(s) /\ t[i - 1] = s[Len(s)] /\ s # <<>>
      BY <2>2, <1>2, <2>0
    <3>2. t[i][2] = from /\ t[i - 1][2] = o - 1 /\ from < to
      BY <3>1, <1>4, <1>6, <1>1, <1>5
    <3>3. from = o \/ (o < from /\ from <= Begins(f))
      BY <3>1, <1>3
    <3> QED
      BY <3>2, <3>3, <1>5, FileIs DEF Follow, Positions
  <2>3. CASE i > Len(s) + 1
    <3>1. i > Len(s) /\ i - 1 > Len(s)
      BY <2>3, <1>2
    <3>2. t[i] = b[i - Len(s)] /\ t[i - 1] = b[i - 1 - Len(s)]
      BY <2>0, <3>1, <1>7
    <3>3. i - Len(s) \in 1 .. Len(b) /\ i - 1 - Len(s) \in 1 .. Len(b)
      BY <2>0, <3>1, <1>7
    <3>4. t[i][2] = from + (i - Len(s)) - 1 /\ t[i - 1][2] = from + (i - 1 - Len(s)) - 1
      BY <3>2, <3>3, <1>6
    <3> QED
      BY <3>4, <1>5, <1>2, <2>0 DEF Follow
  <2> QED
    BY <2>1, <2>2, <2>3, <1>2
<1>10. t # <<>> => t[Len(t)][2] = (IF s # <<>> /\ from = to THEN o ELSE to) - 1
  <2>1. CASE from = to
    <3>1. Len(b) = 0 /\ Len(t) = Len(s)
      BY <2>1, <1>1, <1>2, <1>5
    <3>2. t # <<>> => Len(s) \in 1 .. Len(s) /\ s # <<>>
      BY <3>1, <1>2 DEF Screen
    <3> QED
      BY <3>1, <3>2, <2>1, <1>2, <1>4
  <2>2. CASE from < to
    <3>1. Len(t) > Len(s) /\ Len(t) \in 1 .. Len(t) /\ Len(t) - Len(s) = to - from
      BY <2>2, <1>1, <1>2, <1>5
    <3>2. t[Len(t)] = b[to - from] /\ to - from \in 1 .. Len(b)
      BY <3>1, <1>7
    <3> QED
      BY <3>2, <1>6, <1>5, <2>2
  <2> QED
    BY <2>1, <2>2, <1>5
<1> QED
  BY <1>8, <1>9, <1>10 DEF IsFaithful

(* What TermSync calls faithful.                                            *)
LEMMA FaithfulIs ==
  ASSUME NEW s \in Screen, NEW e, NEW o, IsFaithful(file, s, e, o)
  PROVE  Faithful(s, e, o)
<1>1. ASSUME NEW i \in 2 .. Len(s)
      PROVE  LET hole == s[i][2] - s[i - 1][2] - 1
             IN  hole = 0 \/ (hole > 0 /\ s[i][2] <= Start)
  <2>1. Follow(s[i - 1], s[i], Begins(file))
    BY DEF IsFaithful
  <2>2. s[i][2] \in Positions /\ s[i - 1][2] \in Positions
    BY DEF Screen
  <2> QED
    BY <2>1, <2>2 DEF Follow, Begins, Start, Positions
<1> QED
  BY <1>1 DEF IsFaithful, Faithful

-----------------------------------------------------------------------------
(* Batches                                                                  *)

(* A part of 1 .. n that has every number below one it has is 1 .. m.       *)
LEMMA Initial ==
  ASSUME NEW n \in Nat, NEW S \in SUBSET (1 .. n), \A i \in S : \A j \in 1 .. i : j \in S
  PROVE  /\ Cardinality(S) \in Nat /\ S = 1 .. Cardinality(S)
<1>1. IsFiniteSet(1 .. n) /\ IsFiniteSet(S) /\ Cardinality(S) \in Nat
  <2>1. IsFiniteSet(1 .. n)
    BY FS_Interval
  <2>2. IsFiniteSet(S)
    BY <2>1, FS_Subset
  <2> QED
    BY <2>1, <2>2, FS_CardinalityType
<1>2. ASSUME NEW i \in S PROVE i <= Cardinality(S)
  <2>1. i \in Nat /\ (1 .. i) \in SUBSET S
    OBVIOUS
  <2>2. Cardinality(1 .. i) = IF 1 > i THEN 0 ELSE i - 1 + 1
    BY <2>1, FS_Interval
  <2>3. Cardinality(1 .. i) <= Cardinality(S)
    BY <1>1, <2>1, FS_Subset
  <2> QED
    BY <1>1, <2>1, <2>2, <2>3
<1>3. S \in SUBSET (1 .. Cardinality(S)) /\ IsFiniteSet(1 .. Cardinality(S))
  <2>1. IsFiniteSet(1 .. Cardinality(S))
    BY <1>1, FS_Interval
  <2> QED
    BY <2>1, <1>1, <1>2
<1>4. Cardinality(1 .. Cardinality(S)) = Cardinality(S)
  <2> DEFINE c == Cardinality(S)
  <2>1. c \in Nat
    BY <1>1
  <2>. HIDE DEF c
  <2>2. Cardinality(1 .. c) = c
    BY <2>1, FS_Interval
  <2> QED
    BY <2>2 DEF c
<1> QED
  BY <1>1, <1>3, <1>4, FS_Subset

(* A batch is a part of the queue whose appends follow each other.          *)
LEMMA BatchIs ==
  ASSUME TermSyncAssumption, NEW q \in Seq(AppendRec), q # <<>>
  PROVE  BatchSize(q) \in 1 .. Len(q) /\ Joined(q, BatchSize(q))
<1> DEFINE S == {n \in 1 .. Len(q) : Joined(q, n)}
           m == Cardinality(S)
<1>1. Len(q) \in Nat /\ 1 \in 1 .. Len(q)
  OBVIOUS
<1>2. S \in SUBSET (1 .. Len(q)) /\ \A i \in S : \A j \in 1 .. i : j \in S
  BY <1>1 DEF Joined
<1>3. m \in Nat /\ S = 1 .. m
  BY <1>1, <1>2, Initial
<1>4. 1 \in S
  BY <1>1 DEF Joined
<1>. HIDE DEF m
<1>5. m \in S /\ m + 1 \notin S
  BY <1>3, <1>4
<1>6. m \in 1 .. Len(q) /\ Joined(q, m) /\ (m < Len(q) => ~Joined(q, m + 1))
  BY <1>5, <1>1, <1>3
<1> QED
  BY <1>6 DEF BatchSize

(* The appends of a batch were made; what follows from them does from it.   *)
LEMMA BatchMade ==
  ASSUME TermSyncAssumption, NEW f \in FileState, NEW q \in Seq(AppendRec), q # <<>>,
         \A i \in 1 .. Len(q) : WasMade(f, q[i])
  PROVE  /\ Batch(q) \in AppendRec /\ Batch(q).at = q[1].at /\ Batch(q).epoch = q[1].epoch
         /\ WasMade(f, Batch(q))
         /\ Rest(q) \in Seq(AppendRec)
         /\ \A i \in 1 .. Len(Rest(q)) : \E j \in 1 .. Len(q) : Rest(q)[i] = q[j]
         /\ Follows(f, q) => Follows(f, Rest(q)) \/ Newest(f, Batch(q))
<1> DEFINE n == BatchSize(q)
<1>1. n \in 1 .. Len(q) /\ Joined(q, n) /\ Len(q) \in Nat /\ 1 \in 1 .. Len(q)
  BY BatchIs
<1>2. Batch(q) = [q[1] EXCEPT !.to = q[n].to] /\ q[1] \in AppendRec /\ q[n] \in AppendRec
  BY <1>1 DEF Batch
<1>. HIDE DEF n
<1>3. /\ Batch(q) \in AppendRec /\ Batch(q).at = q[1].at /\ Batch(q).epoch = q[1].epoch
      /\ Batch(q).from = q[1].from /\ Batch(q).to = q[n].to
  BY <1>2 DEF AppendRec
<1>4. q[n].epoch = q[1].epoch
  BY <1>1 DEF Joined
<1>5. ASSUME NEW i \in 1 .. Len(q)
      PROVE  q[i].from < q[i].to /\ q[i].from \in Nat /\ q[i].to \in Nat
  <2>1. q[i] \in AppendRec
    OBVIOUS
  <2>2. q[i].from \in Nat /\ q[i].to \in Nat
    BY <2>1 DEF AppendRec, Positions
  <2> QED
    BY <2>2 DEF WasMade
<1>6. q[1].from < q[n].to
  <2> DEFINE S == {k \in 1 .. n : \A j \in 1 .. k : q[1].from < q[j].to}
             m == Cardinality(S)
  <2>1. n \in Nat /\ S \in SUBSET (1 .. n) /\ \A i \in S : \A j \in 1 .. i : j \in S
    BY <1>1
  <2>2. m \in Nat /\ S = 1 .. m
    BY <2>1, Initial
  <2>3. 1 \in S
    BY <1>1, <1>5
  <2>. HIDE DEF m
  <2>4. m \in S /\ m + 1 \notin S
    BY <2>2, <2>3
  <2>5. m = n
    <3>1. SUFFICES ASSUME m < n PROVE FALSE
      BY <2>4, <2>1
    <3>2. m + 1 \in 2 .. n /\ m \in 1 .. n /\ m + 1 \in 1 .. Len(q) /\ m \in 1 .. Len(q)
      BY <3>1, <2>4, <2>1, <1>1
    <3>3. q[m + 1].from = q[m + 1 - 1].to /\ m + 1 - 1 = m
      BY <3>2, <1>1 DEF Joined
    <3>4. q[1].from < q[m].to
      BY <2>4, <3>2
    <3>5. q[1].from < q[m + 1].to
      BY <3>2, <3>3, <3>4, <1>5, <1>1
    <3>6. \A j \in 1 .. m + 1 : j \in 1 .. m \/ j = m + 1
      BY <2>2
    <3> QED
      BY <3>2, <3>5, <3>6, <2>4
  <2> QED
    BY <2>4, <2>5, <1>1
<1>7. WasMade(f, Batch(q))
  BY <1>1, <1>3, <1>4, <1>6 DEF WasMade
<1>8. /\ Rest(q) \in Seq(AppendRec) /\ Len(Rest(q)) = Len(q) - n
      /\ \A i \in 1 .. Len(q) - n : Rest(q)[i] = q[i + n]
  BY <1>1, SubSeqIs DEF Rest, n
<1>9. \A i \in 1 .. Len(Rest(q)) : \E j \in 1 .. Len(q) : Rest(q)[i] = q[j]
  <2> TAKE i \in 1 .. Len(Rest(q))
  <2>1. Rest(q)[i] = q[i + n] /\ i + n \in 1 .. Len(q)
    BY <1>1, <1>8
  <2> QED
    BY <2>1
<1>10. ASSUME Follows(f, q) PROVE Follows(f, Rest(q)) \/ Newest(f, Batch(q))
  <2>1. PICK i \in 1 .. Len(q) : Newest(f, q[i])
    BY <1>10 DEF Follows
  <2>2. CASE i > n
    <3>1. i - n \in 1 .. Len(Rest(q)) /\ Rest(q)[i - n] = q[i]
      BY <2>2, <1>1, <1>8
    <3> QED
      BY <3>1, <2>1 DEF Follows
  <2>3. CASE i = n
    BY <2>1, <2>3, <1>3, <1>4 DEF Newest
  <2>4. CASE i < n
    <3>1. i + 1 \in 2 .. n /\ i + 1 \in 1 .. Len(q) /\ i + 1 - 1 = i /\ (i = 1 \/ i \in 2 .. n)
      BY <2>4, <1>1
    <3>2. q[i + 1].from = q[i].to /\ q[i + 1].epoch = q[1].epoch /\ q[i].epoch = q[1].epoch
      BY <3>1, <1>1 DEF Joined
    <3>3. WasMade(f, q[i + 1]) /\ q[i].to = f.size /\ q[i].epoch = f.epoch
      BY <3>1, <2>1 DEF Newest
    <3>4. q[i + 1].from < q[i + 1].to /\ q[i + 1].to <= f.size /\ f.size \in Nat
      BY <3>2, <3>3, FileIs DEF WasMade
    <3>5. q[i + 1].to \in Nat
      BY <3>1, <1>5
    <3> QED
      BY <3>2, <3>3, <3>4, <3>5
  <2> QED
    BY <2>2, <2>3, <2>4, <1>1
<1> QED
  BY <1>3, <1>7, <1>8, <1>9, <1>10

(* Types                                                                    *)

(* The values the view starts from are of their types.                      *)
LEMMA InRange ==
  ASSUME TermSyncAssumption
  PROVE  /\ \A e : e \in Epochs <=> (e \in Nat /\ e <= MaxEpoch)
         /\ \A p : p \in Positions <=> (p \in Nat /\ p <= MaxBytes)
         /\ 0 \in Epochs /\ 0 \in Positions
         /\ <<>> \in Screen /\ NoScreen \in ScreenSave /\ NoAppend \in AppendRec /\ NoWrite \in XtermWrite
<1>1. /\ \A e : e \in Epochs <=> (e \in Nat /\ e <= MaxEpoch)
      /\ \A p : p \in Positions <=> (p \in Nat /\ p <= MaxBytes)
      /\ 0 \in Epochs /\ 0 \in Positions /\ 0 \in 0 .. MaxEpoch
  BY DEF Epochs, Positions, TermSyncAssumption
<1>2. <<>> \in Screen
  BY DEF Screen
<1> QED
  BY <1>1, <1>2 DEF NoScreen, NoAppend, NoWrite, ScreenSave, AppendRec, XtermWrite

(* The bounds are numbers.                                                  *)
LEMMA MaxEpochIs == ASSUME TermSyncAssumption PROVE MaxEpoch \in Nat /\ MaxBytes \in Nat
  BY DEF TermSyncAssumption

(* What is shown and what is written make a screen.                         *)
LEMMA Joins == \A s, t \in Screen : s \o t \in Screen
  BY DEF Screen

(* What is asked for is of the type it is used as.                          *)
LEMMA Typed ==
  ASSUME TermSyncAssumption, ViewTypes
  PROVE  /\ file.epoch \in Epochs /\ file.size \in Positions /\ file.epoch \in Nat /\ file.size \in Nat
         /\ fileEpoch \in Nat /\ termFileEpoch \in Nat /\ ptyOffset \in Nat /\ epoch \in Nat
         /\ ptyOffset \in Positions /\ termFileEpoch \in Epochs /\ shown \in Screen
         /\ shown \o write.bytes \in Screen
         /\ append.at \in Nat /\ append.epoch \in Nat /\ append.from \in Nat /\ append.to \in Nat
         /\ append.from \in Positions /\ append.to \in Positions /\ append.epoch \in Epochs
         /\ write.bytes \in Screen /\ write.offset \in Positions /\ write.offset \in Nat
         /\ cached.screen \in Screen /\ cached.offset \in Positions /\ cached.offset \in Nat
         /\ cached.epoch \in Epochs /\ cached.cut \in BOOLEAN
         /\ pc # "cache" /\ reply # <<>> =>
              /\ reply[1] \in FileAnswer /\ reply[1].epoch \in Epochs /\ reply[1].epoch \in Nat
              /\ reply[1].from \in Positions /\ reply[1].size \in Positions
              /\ reply[1].from \in Nat /\ reply[1].size \in Nat
         /\ pc = "cache" /\ reply # <<>> => reply[1] \in ScreenSave
<1>1. /\ file \in FileState /\ fileEpoch \in Epochs /\ termFileEpoch \in Epochs
      /\ ptyOffset \in Positions /\ shown \in Screen
  BY DEF ViewTypes, ServerTypes, ScreenTypes
<1>2. epoch \in Epochs /\ append \in AppendRec /\ write \in XtermWrite /\ cached \in ScreenSave
  BY DEF ViewTypes, ProcessTypes
<1>3. /\ pc # "cache" /\ reply # <<>> => reply[1] \in FileAnswer
      /\ pc = "cache" /\ reply # <<>> => reply[1] \in ScreenSave
  BY DEF ViewTypes, ProcessTypes
<1>4. \A x \in 0 .. MaxEpoch : x \in Nat
  OBVIOUS
<1> QED
  BY <1>1, <1>2, <1>3, <1>4, InRange, Joins DEF FileState, AppendRec, XtermWrite, ScreenSave, FileAnswer

(* Data is the part of the file an answer carries, or nothing.              *)
LEMMA DataIs ==
  ASSUME TermSyncAssumption, NEW r \in FileAnswer
  PROVE  /\ Data(r) \in XtermWrite /\ Data(r).offset = r.size
         /\ Data(r).bytes = Bytes(r.epoch, r.from, Larger(r.from, r.size))
         /\ Larger(r.from, r.size) \in Positions /\ r.from <= Larger(r.from, r.size)
         /\ Data(r).bytes \in Screen
         /\ Data(r).bytes = <<>> <=> r.size <= r.from
<1>1. /\ r.epoch \in Epochs /\ r.from \in Positions /\ r.size \in Positions
      /\ r.from \in Nat /\ r.size \in Nat
  BY InRange DEF FileAnswer
<1>2. Larger(r.from, r.size) \in Positions /\ r.from <= Larger(r.from, r.size)
  BY <1>1 DEF Larger
<1>3. /\ Bytes(r.epoch, r.from, Larger(r.from, r.size)) \in Screen
      /\ Len(Bytes(r.epoch, r.from, Larger(r.from, r.size))) = Larger(r.from, r.size) - r.from
  BY <1>1, <1>2, BytesAre
<1>4. \A s \in Screen : s = <<>> <=> Len(s) = 0
  BY DEF Screen
<1>5. Larger(r.from, r.size) - r.from = 0 <=> r.size <= r.from
  BY <1>1 DEF Larger
<1> QED
  BY <1>1, <1>2, <1>3, <1>4, <1>5 DEF Data, XtermWrite

(* The bytes of an answer behind what is shown                              *)
LEMMA DataFits ==
  ASSUME TermSyncAssumption, NEW f \in FileState, NEW s \in Screen, NEW r \in FileAnswer,
         NEW o \in Positions, Fits(f, s, r.epoch, o),
         s = <<>> \/ (o <= r.size /\ Answers(f, r, o))
  PROVE  Fits(f, s \o Data(r).bytes, r.epoch, r.size)
<1> DEFINE to == Larger(r.from, r.size)
<1>1. /\ Data(r).bytes = Bytes(r.epoch, r.from, to) /\ to \in Positions /\ r.from <= to
      /\ Data(r).bytes \in Screen /\ (Data(r).bytes = <<>> <=> r.size <= r.from)
  BY DataIs
<1>2. /\ r.epoch \in Epochs /\ r.from \in Positions /\ r.from \in Nat /\ r.size \in Nat /\ o \in Nat
      /\ (r.from < r.size => to = r.size)
  BY InRange DEF FileAnswer, Larger
<1>. HIDE DEF to
<1>3. CASE s = <<>> /\ r.size <= r.from
  <2>1. s \o Data(r).bytes = <<>>
    BY <1>1, <1>3
  <2> QED
    BY <2>1, EmptyFits
<1>4. CASE s = <<>> /\ r.from < r.size
  <2>1. Fits(f, s \o Bytes(r.epoch, r.from, to), r.epoch, IF s # <<>> /\ r.from = to THEN o ELSE to)
    BY <1>1, <1>2, <1>4, BytesFollow
  <2> QED
    BY <1>1, <1>2, <1>4, <2>1
<1>5. CASE s # <<>>
  <2>1. /\ o <= r.from /\ o <= r.size /\ (o < r.from => r.from < r.size)
        /\ r.epoch = f.epoch => (o < r.from => r.from <= Begins(f))
    BY <1>5 DEF Answers
  <2>2. r.epoch = f.epoch => r.from = o \/ s = <<>> \/ (o < r.from /\ r.from <= Begins(f) /\ r.from < to)
    BY <1>2, <2>1
  <2>3. Fits(f, s \o Bytes(r.epoch, r.from, to), r.epoch, IF s # <<>> /\ r.from = to THEN o ELSE to)
    BY <1>1, <1>2, <2>2, BytesFollow
  <2>4. (IF r.from = to THEN o ELSE to) = r.size
    <3>1. CASE r.from < r.size
      BY <3>1, <1>2
    <3>2. CASE r.size <= r.from
      <4>1. r.from = o /\ r.size = o
        BY <3>2, <1>2, <2>1
      <4>2. to = r.from
        BY <3>2, <1>2 DEF to, Larger
      <4> QED
        BY <4>1, <4>2
    <3> QED
      BY <3>1, <3>2, <1>2
  <2> QED
    BY <1>1, <1>5, <2>3, <2>4
<1> QED
  BY <1>3, <1>4, <1>5, <1>2

-----------------------------------------------------------------------------
(* The actions                                                              *)

Later(f, g) == f.epoch < g.epoch \/ (f.epoch = g.epoch /\ f.size <= g.size)

(* What was true of a file is true of it later.                             *)
LEMMA LaterKeeps ==
  ASSUME TermSyncAssumption, NEW f \in FileState, NEW g \in FileState, Later(f, g)
  PROVE  /\ f.epoch <= g.epoch
         /\ \A a : a.epoch \in Nat /\ a.to \in Nat /\ WasMade(f, a) => WasMade(g, a)
         /\ \A k : \A r \in FileAnswer : Answers(f, r, k) => Answers(g, r, k)
         /\ \A s \in ScreenSave : StandsFor(f, s) => StandsFor(g, s)
         /\ \A o : \A s \in Screen, e \in Epochs : e <= f.epoch /\ Fits(f, s, e, o) => Fits(g, s, e, o)
<1>1. f.epoch <= g.epoch /\ f.epoch \in Nat /\ g.epoch \in Nat /\ f.size \in Nat /\ g.size \in Nat
  BY FileIs DEF Later
<1>2. \A a : a.epoch \in Nat /\ a.to \in Nat /\ WasMade(f, a) => WasMade(g, a)
  BY <1>1 DEF WasMade, Later
<1>3. \A k : \A r \in FileAnswer : Answers(f, r, k) => Answers(g, r, k)
  <2> TAKE k
  <2> TAKE r \in FileAnswer
  <2>1. r.epoch \in Nat /\ r.from \in Nat /\ r.size \in Nat
    BY DEF FileAnswer, Epochs, Positions
  <2>2. f.epoch = g.epoch => Begins(f) <= Begins(g)
    BY <1>1 DEF Later, Begins, Larger, TermSyncAssumption
  <2>3. Begins(f) \in Nat /\ Begins(g) \in Nat
    BY FileIs DEF Positions
  <2> QED
    BY <1>1, <2>1, <2>2, <2>3 DEF Answers, Later
<1>4. \A o : \A s \in Screen, e \in Epochs : e <= f.epoch /\ Fits(f, s, e, o) => Fits(g, s, e, o)
  BY FitsKept DEF Later
<1>5. ASSUME NEW s \in ScreenSave, StandsFor(f, s) PROVE StandsFor(g, s)
  <2>1. s.screen \in Screen /\ s.epoch \in Epochs /\ s.epoch \in Nat
    BY DEF ScreenSave, Epochs
  <2>2. s.epoch <= f.epoch /\ (~s.cut => Fits(f, s.screen, s.epoch, s.offset))
    BY <1>5 DEF StandsFor
  <2>3. s.epoch <= g.epoch
    BY <1>1, <2>1, <2>2
  <2> QED
    BY <1>4, <2>1, <2>2, <2>3 DEF StandsFor
<1> QED
  BY <1>1, <1>2, <1>3, <1>4, <1>5

(* What holds of the view and the file as it is holds of a later one.       *)
LEMMA LaterView ==
  ASSUME TermSyncAssumption, ViewInv, NEW g \in FileState, Later(file, g)
  PROVE  /\ file.epoch <= g.epoch
         /\ \A i \in 1 .. Len(events) : events[i].op = "append" => WasMade(g, events[i])
         /\ \A i \in 1 .. Len(heldData) : WasMade(g, heldData[i])
         /\ \A i \in 1 .. Len(pendingAppends) : Waits(g, pendingAppends[i])
         /\ \A i \in 1 .. Len(unsent) : unsent[i].op = "append" /\ WasMade(g, unsent[i])
         /\ pc \in Applying => WasMade(g, append)
         /\ StandsFor(g, cache) /\ StandsFor(g, cached) /\ \A s \in saves : StandsFor(g, s)
         /\ \A i \in 1 .. Len(snapshot) : StandsFor(g, snapshot[i].save)
         /\ pc = "cache" /\ reply # <<>> => StandsFor(g, reply[1])
         /\ \A k : pc # "cache" /\ reply # <<>> /\ Answers(file, reply[1], k) => Answers(g, reply[1], k)
         /\ \A o : \A s \in Screen : Fits(file, s, termFileEpoch, o) => Fits(g, s, termFileEpoch, o)
<1>1. ViewTypes /\ AppendsMade /\ AppendApplies /\ SavesStand /\ Truncations
  BY DEF ViewInv
<1>2. file \in FileState
  BY <1>1 DEF ViewTypes, ServerTypes
<1>3. /\ file.epoch <= g.epoch
      /\ \A a : a.epoch \in Nat /\ a.to \in Nat /\ WasMade(file, a) => WasMade(g, a)
      /\ \A k : \A r \in FileAnswer : Answers(file, r, k) => Answers(g, r, k)
      /\ \A s \in ScreenSave : StandsFor(file, s) => StandsFor(g, s)
      /\ \A o : \A s \in Screen, e \in Epochs : e <= file.epoch /\ Fits(file, s, e, o) => Fits(g, s, e, o)
  BY <1>2, LaterKeeps
<1>4. \A a \in AppendRec \cup FileEvent : a.epoch \in Nat /\ a.to \in Nat
  BY InRange DEF AppendRec, FileEvent
<1>5. /\ \A i \in 1 .. Len(events) : events[i] \in FileEvent
      /\ \A i \in 1 .. Len(unsent) : unsent[i] \in FileEvent
  BY <1>1 DEF ViewTypes, ServerTypes
<1>6. /\ \A i \in 1 .. Len(heldData) : heldData[i] \in AppendRec
      /\ \A i \in 1 .. Len(pendingAppends) : pendingAppends[i] \in AppendRec
      /\ \A i \in 1 .. Len(snapshot) : snapshot[i] \in Snapshot
      /\ append \in AppendRec
  BY <1>1 DEF ViewTypes, ScreenTypes, ProcessTypes
<1>7. /\ \A i \in 1 .. Len(events) : events[i].op = "append" => WasMade(g, events[i])
      /\ \A i \in 1 .. Len(unsent) : unsent[i].op = "append" /\ WasMade(g, unsent[i])
  BY <1>1, <1>3, <1>4, <1>5 DEF AppendsMade
<1>8. /\ \A i \in 1 .. Len(heldData) : WasMade(g, heldData[i])
      /\ \A i \in 1 .. Len(pendingAppends) : Waits(g, pendingAppends[i])
  BY <1>1, <1>3, <1>4, <1>6 DEF AppendsMade, Waits
<1>9. pc \in Applying => WasMade(g, append)
  BY <1>1, <1>3, <1>4, <1>6 DEF AppendApplies
<1>10. StandsFor(g, cache) /\ StandsFor(g, cached) /\ \A s \in saves : StandsFor(g, s)
  BY <1>1, <1>3 DEF SavesStand, ViewTypes, ServerTypes, ProcessTypes
<1>11. \A i \in 1 .. Len(snapshot) : StandsFor(g, snapshot[i].save)
  <2>1. \A s \in Snapshot : s.save \in ScreenSave
    BY DEF Snapshot
  <2> QED
    BY <1>1, <1>3, <1>6, <2>1 DEF SavesStand
<1>12. pc = "cache" /\ reply # <<>> => StandsFor(g, reply[1])
  BY <1>1, <1>3, Typed DEF SavesStand
<1>13. \A k : pc # "cache" /\ reply # <<>> /\ Answers(file, reply[1], k) => Answers(g, reply[1], k)
  BY <1>1, <1>3, Typed
<1>14. \A o : \A s \in Screen : Fits(file, s, termFileEpoch, o) => Fits(g, s, termFileEpoch, o)
  <2>1. termFileEpoch \in Epochs /\ termFileEpoch <= file.epoch
    BY <1>1 DEF ViewTypes, ScreenTypes, Truncations
  <2> QED
    BY <2>1, <1>3
<1> QED
  BY <1>3, <1>7, <1>8, <1>9, <1>10, <1>11, <1>12, <1>13, <1>14

(* The file grows: all that fitted it fits it still, and the append it      *)
(* leaves unsent was made.                                                  *)
LEMMA AppendDataKeeps ==
  ASSUME TermSyncAssumption, ViewInv, NEW n \in 1 .. 2, AppendData(n)
  PROVE  ViewInv'
<1>0. /\ ViewTypes /\ ServerTypes /\ ScreenTypes /\ ProcessTypes /\ Stages /\ Truncations
      /\ AppendsMade /\ AppendApplies /\ SavesStand /\ RepliesHold /\ (~cut => Showing)
  BY DEF ViewInv, ViewTypes
<1> DEFINE a == [op |-> "append", epoch |-> file.epoch, from |-> file.size, to |-> file.size + n]
<1>a. /\ file' = [file EXCEPT !.size = file.size + n] /\ unsent' = <<a>>
      /\ file.size + n <= MaxBytes
  BY DEF AppendData
<1>b. /\ file.epoch \in Epochs /\ file.size \in Positions /\ file.epoch \in Nat /\ file.size \in Nat
      /\ file \in FileState
  BY <1>0, Typed DEF ViewTypes, ServerTypes
<1>c. /\ file' \in FileState /\ file'.epoch = file.epoch /\ file'.size = file.size + n
      /\ file.size + n \in Positions
  BY <1>a, <1>b, InRange DEF FileState
<1>d. Later(file, file')
  BY <1>b, <1>c DEF Later
<1>e. a \in FileEvent /\ a.op = "append" /\ WasMade(file', a)
  BY <1>b, <1>c DEF FileEvent, WasMade
<1>f. /\ unsent' \in Seq(FileEvent) /\ Len(unsent') = 1
      /\ \A i \in 1 .. Len(unsent') : unsent'[i].op = "append" /\ WasMade(file', unsent'[i])
  <2>. HIDE DEF a
  <2> QED
    BY <1>a, <1>e
<1>1. ServerTypes'
  BY <1>0, <1>c, <1>d, <1>f, LaterView DEF AppendData, viewVars, procVars, ServerTypes
<1>2. ScreenTypes'
  BY <1>0 DEF AppendData, viewVars, procVars, ScreenTypes
<1>3. ProcessTypes'
  BY <1>0 DEF AppendData, viewVars, procVars, ProcessTypes, Asking, Restoring, Applying
<1>4. Stages'
  BY <1>0 DEF AppendData, viewVars, procVars, Stages, Opening, Restoring, Asking
<1>5. Truncations'
  BY <1>0 DEF AppendData, viewVars, procVars, Truncations
<1>6. AppendsMade'
  BY <1>0, <1>c, <1>d, <1>f, LaterView DEF AppendData, viewVars, procVars, AppendsMade, Waits
<1>7. AppendApplies'
  BY <1>0, <1>c, <1>d, <1>f, LaterView
     DEF AppendData, viewVars, procVars, AppendApplies, Applying, Stale
<1>8. SavesStand'
  BY <1>0, <1>c, <1>d, <1>f, LaterView DEF AppendData, viewVars, procVars, SavesStand
<1>9. RepliesHold'
  <2>1. reply # <<>> => Loads(reply[1])'
    <3>1. SUFFICES ASSUME reply # <<>>, pc # "cache" PROVE Loads(reply[1])'
      BY DEF AppendData, procVars, Loads, Restoring
    <3>2. Loads(reply[1]) /\ reply[1].epoch \in Nat /\ reply[1].size \in Nat /\ file'.epoch \in Nat
      BY <3>1, <1>0, <1>b, <1>c, Typed DEF RepliesHold
    <3>3. Answers(file, reply[1], cached.offset) => Answers(file', reply[1], cached.offset)
      BY <3>1, <1>c, <1>d, LaterView
    <3> QED
      BY <3>2, <3>3, <1>b, <1>c DEF AppendData, viewVars, procVars, Loads
  <2>2. reply # <<>> => Fetches(reply[1])'
    BY <1>0, <1>b, <1>c, <1>d, LaterView
       DEF AppendData, viewVars, procVars, RepliesHold, Fetches, Stale
  <2> QED
    BY <1>0, <2>1, <2>2 DEF AppendData, viewVars, procVars, RepliesHold, Stale
<1>10. ~cut' => Showing'
  BY <1>0, <1>c, <1>d, LaterView, Typed
     DEF AppendData, viewVars, procVars, Showing, Appending, Restoring, NotShownYet, Stale,
         ViewTypes
<1> QED
  BY <1>1, <1>2, <1>3, <1>4, <1>5, <1>6, <1>7, <1>8, <1>9, <1>10 DEF ViewInv, ViewTypes

(* An append that is published is an event that was made.                   *)
LEMMA PublishKeeps ==
  ASSUME TermSyncAssumption, ViewInv, Publish
  PROVE  ViewInv'
<1>0. /\ ViewTypes /\ ServerTypes /\ ScreenTypes /\ ProcessTypes /\ Stages /\ Truncations
      /\ AppendsMade /\ AppendApplies /\ SavesStand /\ RepliesHold /\ (~cut => Showing)
  BY DEF ViewInv, ViewTypes
<1>a. unsent' = <<>> /\ used' \in Bound /\ \/ events' = events
                                           \/ events' = events \o unsent
  BY <1>0 DEF Publish, ServerTypes, Bound
<1>b. /\ events \in Seq(FileEvent) /\ unsent \in Seq(FileEvent) /\ events' \in Seq(FileEvent)
      /\ \A i \in 1 .. Len(unsent) : unsent[i].op = "append"
  <2>1. events \in Seq(FileEvent) /\ unsent \in Seq(FileEvent)
    BY <1>0 DEF ServerTypes
  <2>2. events \o unsent \in Seq(FileEvent)
    BY <2>1, ConcatIs
  <2> QED
    BY <1>a, <1>0, <2>1, <2>2 DEF AppendsMade
<1>c. \A i \in 1 .. Len(events') :
        \/ i \in 1 .. Len(events) /\ events'[i] = events[i]
        \/ i > Len(events) /\ \E j \in 1 .. Len(unsent) : events'[i] = unsent[j]
  <2> TAKE i \in 1 .. Len(events')
  <2>1. CASE events' = events
    BY <2>1
  <2>2. CASE events' = events \o unsent
    <3>1. /\ Len(events') = Len(events) + Len(unsent) /\ Len(events) \in Nat /\ Len(unsent) \in Nat
          /\ \A k \in 1 .. Len(events) : events'[k] = events[k]
          /\ \A k \in 1 .. Len(unsent) : events'[Len(events) + k] = unsent[k]
      BY <2>2, <1>b, ConcatIs
    <3>2. CASE i <= Len(events)
      BY <3>1, <3>2
    <3>3. CASE i > Len(events)
      <4>1. i - Len(events) \in 1 .. Len(unsent) /\ Len(events) + (i - Len(events)) = i
        BY <3>1, <3>3
      <4> QED
        BY <3>1, <3>3, <4>1
    <3> QED
      BY <3>1, <3>2, <3>3
  <2> QED
    BY <1>a, <2>1, <2>2
<1>1. ServerTypes'
  BY <1>0, <1>a, <1>b DEF Publish, viewVars, procVars, ServerTypes
<1>2. ScreenTypes'
  BY <1>0 DEF Publish, viewVars, procVars, ScreenTypes
<1>3. ProcessTypes'
  BY <1>0 DEF Publish, viewVars, procVars, ProcessTypes, Asking, Restoring, Applying
<1>4. Stages'
  BY <1>0 DEF Publish, viewVars, procVars, Stages, Opening, Restoring, Asking
<1>5. Truncations'
  BY <1>0, <1>b, <1>c DEF Publish, viewVars, procVars, Truncations, Truncates
<1>6. AppendsMade'
  BY <1>0, <1>a, <1>b, <1>c DEF Publish, viewVars, procVars, AppendsMade, Waits
<1>7. AppendApplies'
  BY <1>0 DEF Publish, viewVars, procVars, AppendApplies, Applying, Stale
<1>8. SavesStand'
  BY <1>0 DEF Publish, viewVars, procVars, SavesStand
<1>9. RepliesHold'
  BY <1>0 DEF Publish, viewVars, procVars, RepliesHold, Loads, Fetches, Restoring, Stale
<1>10. ~cut' => Showing'
  BY <1>0 DEF Publish, viewVars, procVars, Showing, Appending, Restoring, NotShownYet, Stale
<1> QED
  BY <1>1, <1>2, <1>3, <1>4, <1>5, <1>6, <1>7, <1>8, <1>9, <1>10 DEF ViewInv, ViewTypes

(* A truncation outdates all that is saved and shown, and its event is the  *)
(* last.                                                                    *)
LEMMA TruncateKeeps ==
  ASSUME TermSyncAssumption, ViewInv, Truncate
  PROVE  ViewInv'
<1>0. /\ ViewTypes /\ ServerTypes /\ ScreenTypes /\ ProcessTypes /\ Stages /\ Truncations
      /\ AppendsMade /\ AppendApplies /\ SavesStand /\ RepliesHold /\ (~cut => Showing)
  BY DEF ViewInv, ViewTypes
<1> DEFINE t == [op |-> "truncate", epoch |-> file.epoch + 1, from |-> 0, to |-> 0]
<1>a. /\ file' = [epoch |-> file.epoch + 1, size |-> 0] /\ events' = Append(events, t) /\ cache' = NoScreen
      /\ file.epoch < MaxEpoch
  BY DEF Truncate
<1>b. /\ file.epoch \in Nat /\ file.size \in Nat /\ file \in FileState /\ events \in Seq(FileEvent)
  BY <1>0, Typed DEF ViewTypes, ServerTypes
<1>c. /\ file' \in FileState /\ file'.epoch = file.epoch + 1 /\ file'.size = 0
      /\ file.epoch + 1 \in Epochs /\ file'.epoch \in Nat
  BY <1>a, <1>b, InRange, MaxEpochIs DEF FileState
<1>d. Later(file, file')
  BY <1>b, <1>c DEF Later
<1>e. t \in FileEvent /\ t.op = "truncate" /\ t.epoch = file'.epoch
  BY <1>c, InRange DEF FileEvent
<1>f. /\ events' \in Seq(FileEvent) /\ Len(events') = Len(events) + 1 /\ Len(events) \in Nat
      /\ \A i \in 1 .. Len(events) : events'[i] = events[i]
      /\ events'[Len(events) + 1] = t
      /\ \A i \in 1 .. Len(events') : i \in 1 .. Len(events) \/ i = Len(events) + 1
  <2>. HIDE DEF t
  <2> QED
    BY <1>a, <1>b, <1>e, AppendIs
<1>g. cache' \in ScreenSave /\ StandsFor(file', cache')
  BY <1>a, <1>c, InRange, EmptyFits DEF StandsFor, NoScreen
<1>h. \A i \in 1 .. Len(events) : events[i].epoch \in Nat
  <2>1. \A e \in FileEvent : e.epoch \in Nat
    BY InRange DEF FileEvent
  <2> QED
    BY <1>b, <2>1
<1>. HIDE DEF t
<1>1. ServerTypes'
  BY <1>0, <1>c, <1>f, <1>g DEF Truncate, viewVars, procVars, ServerTypes
<1>2. ScreenTypes'
  BY <1>0 DEF Truncate, viewVars, procVars, ScreenTypes
<1>3. ProcessTypes'
  BY <1>0 DEF Truncate, viewVars, procVars, ProcessTypes, Asking, Restoring, Applying
<1>4. Stages'
  BY <1>0 DEF Truncate, viewVars, procVars, Stages, Opening, Restoring, Asking
<1>5. Truncations'
  <2>1. fileEpoch \in Nat /\ termFileEpoch \in Nat
    BY <1>0, Typed DEF ViewTypes
  <2>2. ASSUME NEW i \in 1 .. Len(events'), Truncates(events'[i])
        PROVE  fileEpoch < events'[i].epoch /\ events'[i].epoch <= file'.epoch
    <3>1. CASE i \in 1 .. Len(events)
      <4>1. fileEpoch < events[i].epoch /\ events[i].epoch <= file.epoch /\ events[i].epoch \in Nat
        BY <1>0, <1>h, <1>f, <2>2, <3>1 DEF Truncations
      <4> QED
        BY <1>b, <1>c, <1>f, <3>1, <4>1
    <3>2. CASE i = Len(events) + 1
      BY <3>2, <1>0, <1>b, <1>c, <1>e, <1>f, <2>1 DEF Truncations
    <3> QED
      BY <1>f, <3>1, <3>2
  <2>3. ASSUME NEW i \in 1 .. Len(events'), NEW j \in 1 .. Len(events'), i < j,
               Truncates(events'[i]), Truncates(events'[j])
        PROVE  events'[i].epoch < events'[j].epoch
    <3>1. i \in 1 .. Len(events)
      BY <2>3, <1>f
    <3>2. events[i].epoch <= file.epoch /\ events[i].epoch \in Nat /\ events'[i] = events[i]
      BY <1>0, <1>h, <1>f, <2>3, <3>1 DEF Truncations
    <3>3. CASE j \in 1 .. Len(events)
      BY <3>1, <3>3, <2>3, <1>0, <1>f DEF Truncations
    <3>4. CASE j = Len(events) + 1
      BY <3>2, <3>4, <1>b, <1>c, <1>e, <1>f
    <3> QED
      BY <1>f, <3>3, <3>4
  <2>5. fileEpoch <= file'.epoch /\ termFileEpoch <= file'.epoch
    BY <1>0, <1>b, <1>c, <2>1 DEF Truncations
  <2> QED
    BY <1>0, <2>2, <2>3, <2>5 DEF Truncate, viewVars, procVars, Truncations
<1>6. AppendsMade'
  BY <1>0, <1>c, <1>d, <1>e, <1>f, LaterView DEF Truncate, viewVars, procVars, AppendsMade, Waits
<1>7. AppendApplies'
  BY <1>0, <1>c, <1>d, LaterView DEF Truncate, viewVars, procVars, AppendApplies, Applying, Stale
<1>8. SavesStand'
  BY <1>0, <1>c, <1>d, <1>g, LaterView DEF Truncate, viewVars, procVars, SavesStand
<1>9. RepliesHold'
  <2>1. reply # <<>> => Loads(reply[1])'
    <3>1. SUFFICES ASSUME reply # <<>>, pc # "cache" PROVE Loads(reply[1])'
      BY DEF Truncate, procVars, Loads, Restoring
    <3>2. Loads(reply[1]) /\ reply[1].epoch \in Nat /\ reply[1].size \in Nat /\ file'.epoch \in Nat
      BY <3>1, <1>0, <1>b, <1>c, Typed DEF RepliesHold
    <3>3. Answers(file, reply[1], cached.offset) => Answers(file', reply[1], cached.offset)
      BY <3>1, <1>c, <1>d, LaterView
    <3> QED
      BY <3>2, <3>3, <1>b, <1>c DEF Truncate, viewVars, procVars, Loads
  <2>2. reply # <<>> => Fetches(reply[1])'
    BY <1>0, <1>b, <1>c, <1>d, LaterView
       DEF Truncate, viewVars, procVars, RepliesHold, Fetches, Stale
  <2> QED
    BY <1>0, <2>1, <2>2 DEF Truncate, viewVars, procVars, RepliesHold, Stale
<1>10. ~cut' => Showing'
  <2>1. termFileEpoch # file'.epoch
    BY <1>0, <1>b, <1>c, Typed DEF Truncations, ViewTypes
  <2> QED
    BY <1>0, <2>1 DEF Truncate, viewVars, procVars, Showing, Appending, Restoring, NotShownYet, Stale, Fits
<1> QED
  BY <1>1, <1>2, <1>3, <1>4, <1>5, <1>6, <1>7, <1>8, <1>9, <1>10 DEF ViewInv, ViewTypes

(* The cache takes a screen that stands for the file.                       *)
LEMMA SaveTerminalStateKeeps ==
  ASSUME TermSyncAssumption, ViewInv, NEW s \in saves, SaveTerminalState(s)
  PROVE  ViewInv'
<1>0. /\ ViewTypes /\ ServerTypes /\ ScreenTypes /\ ProcessTypes /\ Stages /\ Truncations
      /\ AppendsMade /\ AppendApplies /\ SavesStand /\ RepliesHold /\ (~cut => Showing)
  BY DEF ViewInv, ViewTypes
<1>1. ServerTypes'
  BY <1>0 DEF SaveTerminalState, viewVars, procVars, ServerTypes
<1>2. ScreenTypes'
  BY <1>0 DEF SaveTerminalState, viewVars, procVars, ScreenTypes
<1>3. ProcessTypes'
  BY <1>0 DEF SaveTerminalState, viewVars, procVars, ProcessTypes, Asking, Restoring, Applying
<1>4. Stages'
  BY <1>0 DEF SaveTerminalState, viewVars, procVars, Stages, Opening, Restoring, Asking
<1>5. Truncations'
  BY <1>0 DEF SaveTerminalState, viewVars, procVars, Truncations
<1>6. AppendsMade'
  BY <1>0 DEF SaveTerminalState, viewVars, procVars, AppendsMade, Waits
<1>7. AppendApplies'
  BY <1>0 DEF SaveTerminalState, viewVars, procVars, AppendApplies, Applying, Stale
<1>8. SavesStand'
  BY <1>0 DEF SaveTerminalState, viewVars, procVars, SavesStand
<1>9. RepliesHold'
  BY <1>0 DEF SaveTerminalState, viewVars, procVars, RepliesHold, Loads, Fetches, Restoring, Stale
<1>10. ~cut' => Showing'
  BY <1>0
     DEF SaveTerminalState, viewVars, procVars, Showing, Appending, Restoring, NotShownYet, Stale
<1> QED
  BY <1>1, <1>2, <1>3, <1>4, <1>5, <1>6, <1>7, <1>8, <1>9, <1>10 DEF ViewInv, ViewTypes

(* The view is emptied, and what it was doing is stale, or its load no      *)
(* longer of the file it knows.                                             *)
LEMMA HandleTruncateKeeps ==
  ASSUME TermSyncAssumption, ViewInv, HandleTruncate
  PROVE  ViewInv'
<1>0. /\ ViewTypes /\ ServerTypes /\ ScreenTypes /\ ProcessTypes /\ Stages /\ Truncations
      /\ AppendsMade /\ AppendApplies /\ SavesStand /\ RepliesHold /\ (~cut => Showing)
  BY DEF ViewInv, ViewTypes
<1>a. /\ events' = Tail(events) /\ events # <<>> /\ Head(events).op = "truncate" /\ pc # "fresh"
      /\ fileEpoch' = fileEpoch + 1 /\ termFileEpoch' = Head(events).epoch
  BY DEF HandleTruncate, RunsOn
<1>b. /\ events \in Seq(FileEvent) /\ events' \in Seq(FileEvent)
      /\ Len(events') = Len(events) - 1 /\ Len(events) \in Nat \ {0}
      /\ \A i \in 1 .. Len(events') : events'[i] = events[i + 1] /\ i + 1 \in 1 .. Len(events)
      /\ Head(events) = events[1] /\ events[1] \in FileEvent /\ 1 \in 1 .. Len(events)
  <2>1. events \in Seq(FileEvent)
    BY <1>0 DEF ServerTypes
  <2> QED
    BY <1>a, <2>1, TailIs
<1>c. /\ fileEpoch < events[1].epoch /\ events[1].epoch <= file.epoch
      /\ fileEpoch \in Nat /\ file.epoch \in Nat /\ file.epoch <= MaxEpoch /\ epoch \in Nat
      /\ events[1].epoch \in Nat /\ events[1].epoch \in Epochs /\ append.at \in Nat
      /\ epoch <= fileEpoch
  <2>1. events[1].epoch \in Epochs
    BY <1>b DEF FileEvent
  <2> QED
    BY <1>0, <1>a, <1>b, <2>1, Typed, InRange DEF Truncations, Truncates
<1>d. fileEpoch + 1 \in Epochs /\ fileEpoch + 1 <= events[1].epoch /\ epoch # fileEpoch + 1
  BY <1>c, MaxEpochIs DEF Epochs
<1>1. ServerTypes'
  BY <1>0, <1>b DEF HandleTruncate, serverVars, procVars, ServerTypes
<1>2. ScreenTypes'
  BY <1>0, <1>a, <1>b, <1>c, <1>d, InRange DEF HandleTruncate, serverVars, procVars, ScreenTypes
<1>3. ProcessTypes'
  BY <1>0 DEF HandleTruncate, serverVars, procVars, ProcessTypes, Asking, Restoring, Applying
<1>4. Stages'
  BY <1>0 DEF HandleTruncate, serverVars, procVars, Stages, Opening, Restoring, Asking
<1>5. Truncations'
  <2>1. ASSUME NEW i \in 1 .. Len(events'), Truncates(events'[i])
        PROVE  fileEpoch + 1 < events'[i].epoch /\ events'[i].epoch <= file.epoch
    <3>1. PICK k \in 1 .. Len(events) : events'[i] = events[k] /\ 1 < k /\ Truncates(events[1])
      BY <1>a, <1>b DEF Truncates
    <3>2. events[1].epoch < events[k].epoch /\ events[k].epoch <= file.epoch
      BY <1>0, <1>b, <2>1, <3>1 DEF Truncations
    <3>3. events[k].epoch \in Nat
      <4>1. \A e \in FileEvent : e.epoch \in Nat
        BY InRange DEF FileEvent
      <4> QED
        BY <1>b, <3>1, <4>1
    <3>4. events[1].epoch \in Nat /\ fileEpoch + 1 <= events[1].epoch /\ fileEpoch + 1 \in Nat
      BY <1>c, <1>d
    <3> QED
      BY <3>1, <3>2, <3>3, <3>4
  <2>2. ASSUME NEW i \in 1 .. Len(events'), NEW j \in 1 .. Len(events'), i < j,
               Truncates(events'[i]), Truncates(events'[j])
        PROVE  events'[i].epoch < events'[j].epoch
    <3>1. i + 1 < j + 1 /\ i + 1 \in 1 .. Len(events) /\ j + 1 \in 1 .. Len(events)
      BY <1>b, <2>2
    <3> QED
      BY <1>0, <1>b, <2>2, <3>1 DEF Truncations
  <2>3. file' = file /\ epoch' = epoch
    BY DEF HandleTruncate, serverVars, procVars
  <2>4. fileEpoch + 1 <= file.epoch /\ epoch <= fileEpoch + 1
    BY <1>c
  <2> QED
    BY <1>a, <1>b, <1>c, <2>1, <2>2, <2>3, <2>4 DEF Truncations
<1>6. AppendsMade'
  BY <1>0, <1>b DEF HandleTruncate, serverVars, procVars, AppendsMade, Waits
<1>7. AppendApplies'
  BY <1>0, <1>a, <1>c DEF HandleTruncate, serverVars, procVars, AppendApplies, Applying, Stale
<1>8. SavesStand'
  BY <1>0 DEF HandleTruncate, serverVars, procVars, SavesStand
<1>9. RepliesHold'
  <2>1. Stale' /\ epoch' # fileEpoch'
    BY <1>0, <1>a, <1>c DEF HandleTruncate, procVars, AppendApplies, Stale
  <2>2. cut' = (cut \/ Appending)
    BY DEF HandleTruncate
  <2>3. reply # <<>> => Loads(reply[1])'
    BY <1>0, <2>1, <2>2 DEF HandleTruncate, serverVars, procVars, RepliesHold, Loads, Appending
  <2> QED
    BY <1>0, <2>1, <2>3 DEF HandleTruncate, serverVars, procVars, RepliesHold, Fetches
<1>10. ~cut' => Showing'
  <2>1. Stale' /\ epoch' # fileEpoch'
    BY <1>0, <1>a, <1>c DEF HandleTruncate, procVars, AppendApplies, Stale
  <2>2. shown' = <<>> /\ pc' = pc /\ (~cut' => ~Appending)
    BY DEF HandleTruncate, procVars
  <2> QED
    BY <2>1, <2>2, EmptyFits DEF Showing, Appending, Restoring
<1> QED
  BY <1>1, <1>2, <1>3, <1>4, <1>5, <1>6, <1>7, <1>8, <1>9, <1>10 DEF ViewInv, ViewTypes

(* What is held or queued was made, and what is queued is of the file the   *)
(* view knows.                                                              *)
LEMMA HandleAppendKeeps ==
  ASSUME TermSyncAssumption, ViewInv, HandleAppend
  PROVE  ViewInv'
<1>0. /\ ViewTypes /\ ServerTypes /\ ScreenTypes /\ ProcessTypes /\ Stages /\ Truncations
      /\ AppendsMade /\ AppendApplies /\ SavesStand /\ RepliesHold /\ (~cut => Showing)
  BY DEF ViewInv, ViewTypes
<1>a. /\ events' = Tail(events) /\ events # <<>> /\ Head(events).op = "append"
      /\ fileEpoch' = fileEpoch /\ termFileEpoch' = termFileEpoch /\ loaded' = loaded
      /\ IF IsCurrentAppend(Head(events))
           THEN pendingAppends' = Append(pendingAppends, Live(Head(events))) /\ appendDrainScheduled'
           ELSE UNCHANGED <<pendingAppends, appendDrainScheduled>>
      /\ heldData' = IF loaded THEN heldData ELSE Append(heldData, Live(Head(events)))
      /\ UNCHANGED <<ptyOffset, shown, snapshot, cut, file, unsent>>
  BY DEF HandleAppend, Held, serverVars
<1>b. /\ events \in Seq(FileEvent) /\ events' \in Seq(FileEvent)
      /\ Len(events') = Len(events) - 1 /\ Len(events) \in Nat \ {0}
      /\ \A i \in 1 .. Len(events') : events'[i] = events[i + 1] /\ i + 1 \in 1 .. Len(events)
      /\ Head(events) = events[1] /\ events[1] \in FileEvent /\ 1 \in 1 .. Len(events)
  <2>1. events \in Seq(FileEvent)
    BY <1>0 DEF ServerTypes
  <2> QED
    BY <1>a, <2>1, TailIs
<1> DEFINE a == Live(events[1])
<1>c. /\ a \in AppendRec /\ a.at = fileEpoch /\ a.epoch = events[1].epoch
      /\ a.from = events[1].from /\ a.to = events[1].to /\ WasMade(file, a)
  <2>1. fileEpoch \in 0 .. MaxEpoch
    BY <1>0 DEF ScreenTypes, Epochs
  <2>2. /\ events[1].epoch \in Epochs /\ events[1].from \in Positions /\ events[1].to \in Positions
        /\ WasMade(file, events[1])
    BY <1>0, <1>a, <1>b DEF FileEvent, AppendsMade
  <2> QED
    BY <2>1, <2>2 DEF Live, AppendRec, WasMade
<1>. HIDE DEF a
<1>d. /\ heldData \in Seq(AppendRec) /\ pendingAppends \in Seq(AppendRec)
  BY <1>0 DEF ScreenTypes
<1>e. /\ heldData' \in Seq(AppendRec) /\ pendingAppends' \in Seq(AppendRec)
      /\ \A i \in 1 .. Len(heldData') : heldData'[i] = a \/ \E j \in 1 .. Len(heldData) : heldData'[i] = heldData[j]
      /\ \A i \in 1 .. Len(pendingAppends') :
           \/ IsCurrentAppend(events[1]) /\ pendingAppends'[i] = a
           \/ \E j \in 1 .. Len(pendingAppends) : pendingAppends'[i] = pendingAppends[j]
  <2>1. /\ heldData' = heldData \/ heldData' = Append(heldData, a)
        /\ pendingAppends' = pendingAppends \/ (IsCurrentAppend(events[1]) /\ pendingAppends' = Append(pendingAppends, a))
    BY <1>a, <1>b DEF a
  <2>2. /\ Append(heldData, a) \in Seq(AppendRec)
        /\ \A i \in 1 .. Len(Append(heldData, a)) :
             Append(heldData, a)[i] = a \/ \E j \in 1 .. Len(heldData) : Append(heldData, a)[i] = heldData[j]
    BY <1>c, <1>d, AppendIs
  <2>3. /\ Append(pendingAppends, a) \in Seq(AppendRec)
        /\ \A i \in 1 .. Len(Append(pendingAppends, a)) :
             \/ Append(pendingAppends, a)[i] = a
             \/ \E j \in 1 .. Len(pendingAppends) : Append(pendingAppends, a)[i] = pendingAppends[j]
    BY <1>c, <1>d, AppendIs
  <2> QED
    BY <1>d, <2>1, <2>2, <2>3
<1>1. ServerTypes'
  BY <1>0, <1>b DEF HandleAppend, serverVars, procVars, IsCurrentAppend, Held, Live, ServerTypes
<1>2. ScreenTypes'
  BY <1>0, <1>a, <1>e DEF ScreenTypes
<1>3. ProcessTypes'
  BY <1>0
     DEF HandleAppend, serverVars, procVars, IsCurrentAppend, Held, Live, ProcessTypes, Asking, Restoring,
         Applying
<1>4. Stages'
  BY <1>0
     DEF HandleAppend, serverVars, procVars, IsCurrentAppend, Held, Live, Stages, Opening, Restoring,
         Asking
<1>5. Truncations'
  BY <1>0 DEF HandleAppend, serverVars, procVars, IsCurrentAppend, Held, Live, Truncations
<1>6. AppendsMade'
  <2>1. IsCurrentAppend(events[1]) => Waits(file, a)
    BY <1>c DEF IsCurrentAppend, Waits
  <2>2. \A i \in 1 .. Len(heldData') : WasMade(file, heldData'[i])
    BY <1>0, <1>c, <1>e DEF AppendsMade
  <2>3. \A i \in 1 .. Len(pendingAppends') : Waits(file, pendingAppends'[i])
    BY <1>0, <1>e, <2>1 DEF AppendsMade
  <2> QED
    BY <1>0, <1>a, <1>b, <2>2, <2>3 DEF AppendsMade, Waits
<1>7. AppendApplies'
  BY <1>0
     DEF HandleAppend, serverVars, procVars, IsCurrentAppend, Held, Live, AppendApplies, Applying, Stale
<1>8. SavesStand'
  BY <1>0 DEF HandleAppend, serverVars, procVars, IsCurrentAppend, Held, Live, SavesStand
<1>9. RepliesHold'
  BY <1>0
     DEF HandleAppend, serverVars, procVars, IsCurrentAppend, Held, Live, RepliesHold, Loads, Fetches,
         Restoring, Stale
<1>10. ~cut' => Showing'
  BY <1>0
     DEF HandleAppend, serverVars, procVars, IsCurrentAppend, Held, Live, Showing, Appending, Restoring,
         NotShownYet, Stale
<1> QED
  BY <1>1, <1>2, <1>3, <1>4, <1>5, <1>6, <1>7, <1>8, <1>9, <1>10 DEF ViewInv, ViewTypes

(* The answer is of the file as it is, from what was asked for on or from   *)
(* where the file begins.                                                   *)
LEMMA ServeKeeps ==
  ASSUME TermSyncAssumption, ViewInv, Serve
  PROVE  ViewInv'
<1>0. /\ ViewTypes /\ ServerTypes /\ ScreenTypes /\ ProcessTypes /\ Stages /\ Truncations
      /\ AppendsMade /\ AppendApplies /\ SavesStand /\ RepliesHold /\ (~cut => Showing)
  BY DEF ViewInv, ViewTypes
<1>v. ViewTypes
  BY <1>0
<1> DEFINE asked == CASE pc = "main" -> cached.offset [] pc = "missing" -> ptyOffset [] OTHER -> 0
           r == [epoch |-> file.epoch, from |-> Larger(asked, Start), size |-> file.size]
<1>a. /\ pc \in Asking /\ reply = <<>> /\ reply' = IF pc = "cache" THEN <<cache>> ELSE <<r>>
      /\ UNCHANGED <<pc, epoch, append, cached, write, cut, file, ptyOffset, fileEpoch, termFileEpoch, cache>>
  BY DEF Serve, ServerUnmoved, serverVars, viewVars
<1>f. /\ file.epoch \in Epochs /\ file.size \in Positions /\ file.epoch \in Nat /\ file.size \in Nat
      /\ cached.offset \in Positions /\ ptyOffset \in Positions
  BY <1>v, Typed
<1>b. /\ asked \in Positions /\ Start = Begins(file) /\ Begins(file) \in Positions
      /\ Begins(file) = 0 \/ Begins(file) < file.size
  BY <1>0, <1>f, InRange, FileIs DEF Start, Begins, ServerTypes
<1>c. r \in FileAnswer /\ Answers(file, r, asked) /\ r.epoch = file.epoch /\ r.size = file.size
  <2>. HIDE DEF asked
  <2>1. /\ Larger(asked, Start) \in Positions /\ asked <= Larger(asked, Start)
        /\ asked < Larger(asked, Start) => Larger(asked, Start) = Begins(file) /\ Begins(file) > 0
    BY <1>b, InRange DEF Larger
  <2>2. r \in FileAnswer /\ r.epoch = file.epoch /\ r.size = file.size /\ r.from = Larger(asked, Start)
    BY <1>f, <2>1 DEF FileAnswer
  <2>3. file.epoch <= file.epoch /\ file.size <= file.size
    BY <1>f
  <2>4. asked < r.from => r.from < file.size /\ r.from <= Begins(file)
    BY <1>b, <2>1, <2>2, InRange
  <2> QED
    BY <2>1, <2>2, <2>3, <2>4 DEF Answers
<1>d. cache \in ScreenSave /\ StandsFor(file, cache)
  BY <1>0 DEF ServerTypes, SavesStand
<1>. HIDE DEF r, asked
<1>e. /\ Len(reply') = 1 /\ reply' # <<>>
      /\ pc = "cache" => reply'[1] = cache /\ reply' \in Seq(ScreenSave)
      /\ pc # "cache" => reply'[1] = r /\ reply' \in Seq(FileAnswer)
  BY <1>a, <1>c, <1>d
<1>1. ServerTypes'
  BY <1>0 DEF Serve, ServerUnmoved, serverVars, viewVars, Asking, ServerTypes
<1>2. ScreenTypes'
  BY <1>0 DEF Serve, ServerUnmoved, serverVars, viewVars, Asking, ScreenTypes
<1>3. ProcessTypes'
  BY <1>0, <1>e DEF Serve, ServerUnmoved, serverVars, viewVars, Asking, ProcessTypes, Restoring, Applying
<1>4. Stages'
  BY <1>0, <1>e DEF Serve, ServerUnmoved, serverVars, viewVars, Asking, Stages, Opening, Restoring
<1>5. Truncations'
  BY <1>0 DEF Serve, ServerUnmoved, serverVars, viewVars, Asking, Truncations
<1>6. AppendsMade'
  BY <1>0 DEF Serve, ServerUnmoved, serverVars, viewVars, Asking, AppendsMade, Waits
<1>7. AppendApplies'
  BY <1>0 DEF Serve, ServerUnmoved, serverVars, viewVars, Asking, AppendApplies, Applying, Stale
<1>8. SavesStand'
  BY <1>0, <1>d, <1>e DEF Serve, ServerUnmoved, serverVars, viewVars, Asking, SavesStand
<1>9. RepliesHold'
  <2>1. pc # "cache" => Loads(reply[1])'
    <3>1. pc = "main" => asked = cached.offset
      BY DEF asked
    <3> QED
      BY <1>a, <1>c, <1>e, <1>f, <3>1 DEF Loads, Asking, Restoring, Answers
  <2>2. pc # "cache" => Fetches(reply[1])'
    <3>1. pc = "missing" => asked = ptyOffset
      BY DEF asked
    <3>2. /\ termFileEpoch <= file.epoch
          /\ pc = "missing" /\ file.epoch = append.epoch => append.to <= file.size
      BY <1>0 DEF Truncations, AppendApplies, WasMade, Applying
    <3> QED
      BY <1>a, <1>c, <1>e, <3>1, <3>2 DEF Fetches, Stale
  <2> QED
    BY <1>0, <1>a, <1>e, <2>1, <2>2 DEF RepliesHold, Stale, Loads, Fetches, Restoring
<1>10. ~cut' => Showing'
  BY <1>0
     DEF Serve, ServerUnmoved, serverVars, viewVars, Asking, Showing, Appending, Restoring, NotShownYet,
         Stale
<1> QED
  BY <1>1, <1>2, <1>3, <1>4, <1>5, <1>6, <1>7, <1>8, <1>9, <1>10 DEF ViewInv, ViewTypes

(* A saved screen that stands for the file is read.                         *)
LEMMA GotCacheKeeps ==
  ASSUME TermSyncAssumption, ViewInv, GotCache
  PROVE  ViewInv'
<1>0. /\ ViewTypes /\ ServerTypes /\ ScreenTypes /\ ProcessTypes /\ Stages /\ Truncations
      /\ AppendsMade /\ AppendApplies /\ SavesStand /\ RepliesHold /\ (~cut => Showing)
  BY DEF ViewInv, ViewTypes
<1>1. ServerTypes'
  BY <1>0 DEF GotCache, ServerUnmoved, serverVars, viewVars, ServerTypes
<1>2. ScreenTypes'
  BY <1>0 DEF GotCache, ServerUnmoved, serverVars, viewVars, ScreenTypes
<1>3. ProcessTypes'
  BY <1>0 DEF GotCache, ServerUnmoved, serverVars, viewVars, ProcessTypes, Asking, Restoring, Applying
<1>4. Stages'
  BY <1>0 DEF GotCache, ServerUnmoved, serverVars, viewVars, Stages, Opening, Restoring, Asking
<1>5. Truncations'
  BY <1>0 DEF GotCache, ServerUnmoved, serverVars, viewVars, Truncations
<1>6. AppendsMade'
  BY <1>0 DEF GotCache, ServerUnmoved, serverVars, viewVars, AppendsMade, Waits
<1>7. AppendApplies'
  BY <1>0 DEF GotCache, ServerUnmoved, serverVars, viewVars, AppendApplies, Applying, Stale
<1>8. SavesStand'
  BY <1>0 DEF GotCache, ServerUnmoved, serverVars, viewVars, SavesStand
<1>9. RepliesHold'
  BY <1>0 DEF GotCache, ServerUnmoved, serverVars, viewVars, RepliesHold, Loads, Fetches, Restoring, Stale
<1>10. ~cut' => Showing'
  BY <1>0
     DEF GotCache, ServerUnmoved, serverVars, viewVars, Showing, Appending, Restoring, NotShownYet, Stale
<1> QED
  BY <1>1, <1>2, <1>3, <1>4, <1>5, <1>6, <1>7, <1>8, <1>9, <1>10 DEF ViewInv, ViewTypes

(* The screen is used only if it is of the file the answer is of, and does  *)
(* not go beyond it.                                                        *)
LEMMA GotMainKeeps ==
  ASSUME TermSyncAssumption, ViewInv, GotMain
  PROVE  ViewInv'
<1>0. /\ ViewTypes /\ ServerTypes /\ ScreenTypes /\ ProcessTypes /\ Stages /\ Truncations
      /\ AppendsMade /\ AppendApplies /\ SavesStand /\ RepliesHold /\ (~cut => Showing)
  BY DEF ViewInv, ViewTypes
<1> DEFINE r == reply[1]
<1>a. /\ pc = "main" /\ reply # <<>> /\ termFileEpoch' = r.epoch
      /\ \/ /\ cached.offset \in 1 .. r.size /\ cached.epoch = r.epoch
            /\ write' = [bytes |-> cached.screen, offset |-> cached.offset] /\ pc' = "writeCache"
            /\ cut' = (cut \/ cached.cut) /\ reply' = reply
         \/ pc' = "all" /\ reply' = <<>> /\ write' = write /\ cut' = cut
      /\ UNCHANGED <<file, unsent, events, cache, saves, snapshot, used, fileEpoch, ptyOffset, loaded,
                     heldData, pendingAppends, appendDrainScheduled, shown, epoch, append, cached>>
  BY DEF GotMain, ServerUnmoved, serverVars, CanUseTerminalCache
<1>b. ~loaded /\ pendingAppends = <<>> /\ ~appendDrainScheduled /\ (~cut => shown = <<>>)
  BY <1>0, <1>a DEF Stages, Opening, Showing, NotShownYet
<1>c. /\ r \in FileAnswer /\ r.epoch \in Epochs /\ r.epoch \in Nat /\ r.size \in Nat
      /\ reply \in Seq(FileAnswer) /\ cached.screen \in Screen /\ cached.offset \in Positions
      /\ cached.offset \in Nat /\ cached.cut \in BOOLEAN /\ cut \in BOOLEAN
  BY <1>0, <1>a, Typed DEF ProcessTypes, ScreenTypes
<1>d. Answers(file, r, cached.offset) /\ r.epoch <= file.epoch
  BY <1>0, <1>a DEF RepliesHold, Loads, Answers
<1>. HIDE DEF r
<1>1. ServerTypes'
  BY <1>0, <1>a DEF ServerTypes
<1>2. ScreenTypes'
  BY <1>0, <1>a, <1>c DEF ScreenTypes
<1>3. ProcessTypes'
  <2>1. /\ pc' \in {"writeCache", "all"} /\ pc' # "cache"
        /\ reply' \in Seq(FileAnswer) /\ Len(reply') <= 1
    <3>1. pc' \in {"writeCache", "all"} /\ (reply' = reply \/ reply' = <<>>)
      BY <1>a
    <3>2. Len(reply) <= 1 /\ <<>> \in Seq(FileAnswer) /\ Len(<<>>) <= 1
      BY <1>0 DEF ProcessTypes
    <3> QED
      BY <1>c, <3>1, <3>2
  <2>2. write' \in XtermWrite /\ epoch' \in Epochs /\ append' \in AppendRec /\ cached' \in ScreenSave
    BY <1>0, <1>a, <1>c DEF ProcessTypes, XtermWrite
  <2> QED
    BY <2>1, <2>2 DEF ProcessTypes, Asking, Restoring
<1>4. Stages'
  BY <1>a, <1>b DEF Stages, Opening, Asking, Restoring
<1>5. Truncations'
  BY <1>0, <1>a, <1>d DEF Truncations
<1>6. AppendsMade'
  BY <1>0, <1>a, <1>b DEF AppendsMade
<1>7. AppendApplies'
  BY <1>0, <1>a DEF AppendApplies, Applying, Stale
<1>8. SavesStand'
  BY <1>0, <1>a DEF SavesStand
<1>9. RepliesHold'
  <2>1. reply' # <<>> => Loads(reply[1])'
    BY <1>a, <1>c, <1>d DEF Loads, Restoring, r
  <2> QED
    BY <1>a, <2>1 DEF RepliesHold, Fetches
<1>10. ~cut' => Showing'
  <2>. SUFFICES ASSUME ~cut' PROVE Showing'
    OBVIOUS
  <2>1. ~cut /\ shown = <<>> /\ shown' = <<>>
    BY <1>a, <1>b, <1>c
  <2>2. CASE pc' = "all"
    BY <1>a, <2>1, <2>2, EmptyFits DEF Showing, Appending, Restoring, NotShownYet, Stale
  <2>3. CASE pc' = "writeCache"
    <3>1. /\ ~cached.cut /\ cached.epoch = r.epoch /\ write'.bytes = cached.screen /\ write'.offset = cached.offset
      BY <1>a, <1>c, <2>3
    <3>2. Fits(file, cached.screen, r.epoch, cached.offset)
      BY <1>0, <3>1 DEF SavesStand, StandsFor
    <3>3. shown' \o write'.bytes = cached.screen
      BY <1>c, <2>1, <3>1 DEF Screen
    <3> QED
      BY <1>a, <2>1, <2>3, <3>1, <3>2, <3>3, EmptyFits DEF Showing, Appending, Restoring, NotShownYet
  <2> QED
    BY <1>a, <2>2, <2>3
<1> QED
  BY <1>1, <1>2, <1>3, <1>4, <1>5, <1>6, <1>7, <1>8, <1>9, <1>10 DEF ViewInv, ViewTypes

(* The whole file is written to an empty screen.                            *)
LEMMA GotAllKeeps ==
  ASSUME TermSyncAssumption, ViewInv, GotAll
  PROVE  ViewInv'
<1>0. /\ ViewTypes /\ ServerTypes /\ ScreenTypes /\ ProcessTypes /\ Stages /\ Truncations
      /\ AppendsMade /\ AppendApplies /\ SavesStand /\ RepliesHold /\ (~cut => Showing)
  BY DEF ViewInv, ViewTypes
<1> DEFINE r == reply[1]
<1>a. /\ pc = "all" /\ reply # <<>> /\ termFileEpoch' = r.epoch
      /\ write' = Data(r) /\ pc' = "writeMain"
      /\ UNCHANGED <<file, unsent, events, cache, saves, snapshot, used, fileEpoch, ptyOffset, loaded,
                     heldData, pendingAppends, appendDrainScheduled, shown, epoch, append, cached, reply, cut>>
  BY DEF GotAll, ServerUnmoved, serverVars
<1>b. ~loaded /\ pendingAppends = <<>> /\ ~appendDrainScheduled /\ (~cut => shown = <<>>)
  BY <1>0, <1>a DEF Stages, Opening, Showing, NotShownYet
<1>c. /\ r \in FileAnswer /\ r.epoch \in Epochs /\ reply \in Seq(FileAnswer)
  BY <1>0, <1>a, Typed DEF ProcessTypes
<1>d. r.epoch <= file.epoch /\ (r.epoch = file.epoch => r.size <= file.size)
  BY <1>0, <1>a DEF RepliesHold, Loads
<1>e. Data(r) \in XtermWrite /\ Data(r).offset = r.size
  BY <1>c, DataIs
<1>. HIDE DEF r
<1>1. ServerTypes'
  BY <1>0, <1>a DEF ServerTypes
<1>2. ScreenTypes'
  BY <1>0, <1>a, <1>c DEF ScreenTypes
<1>3. ProcessTypes'
  BY <1>0, <1>a, <1>c, <1>e DEF ProcessTypes, Asking, Restoring
<1>4. Stages'
  BY <1>a, <1>b DEF Stages, Opening, Asking, Restoring
<1>5. Truncations'
  BY <1>0, <1>a, <1>d DEF Truncations
<1>6. AppendsMade'
  BY <1>0, <1>a, <1>b DEF AppendsMade
<1>7. AppendApplies'
  BY <1>0, <1>a DEF AppendApplies, Applying, Stale
<1>8. SavesStand'
  BY <1>0, <1>a DEF SavesStand
<1>9. RepliesHold'
  <2>1. Loads(reply[1])'
    BY <1>a, <1>d, <1>e DEF Loads, Restoring, r
  <2> QED
    BY <1>a, <2>1 DEF RepliesHold, Fetches
<1>10. ~cut' => Showing'
  <2>. SUFFICES ASSUME ~cut' PROVE Showing'
    OBVIOUS
  <2>1. ~cut /\ shown = <<>> /\ shown' = <<>> /\ file \in FileState /\ ptyOffset \in Positions
    BY <1>0, <1>a, <1>b DEF ServerTypes, ScreenTypes
  <2>2. Fits(file, shown \o Data(r).bytes, r.epoch, r.size)
    BY <1>c, <2>1, EmptyFits, InRange, DataFits
  <2> QED
    BY <1>a, <1>e, <2>1, <2>2 DEF Showing, Appending, Restoring, NotShownYet
<1> QED
  BY <1>1, <1>2, <1>3, <1>4, <1>5, <1>6, <1>7, <1>8, <1>9, <1>10 DEF ViewInv, ViewTypes

(* The rest of the file follows the saved screen.                           *)
LEMMA CacheWrittenKeeps ==
  ASSUME TermSyncAssumption, ViewInv, CacheWritten
  PROVE  ViewInv'
<1>0. /\ ViewTypes /\ ServerTypes /\ ScreenTypes /\ ProcessTypes /\ Stages /\ Truncations
      /\ AppendsMade /\ AppendApplies /\ SavesStand /\ RepliesHold /\ (~cut => Showing)
  BY DEF ViewInv, ViewTypes
<1> DEFINE r == reply[1]
<1>a. /\ pc = "writeCache"
      /\ \/ /\ shown' = shown \o write.bytes /\ ptyOffset' = write.offset
            /\ write' = Data(r) /\ pc' = "writeMain" /\ reply' = reply
         \/ /\ shown' = <<>> /\ ptyOffset' = write.offset
            /\ write' = NoWrite /\ pc' = "all" /\ reply' = <<>>
      /\ UNCHANGED <<file, unsent, events, cache, saves, snapshot, used, fileEpoch, termFileEpoch, loaded,
                     heldData, pendingAppends, appendDrainScheduled, epoch, append, cached, cut>>
  BY DEF CacheWritten, Written, ServerUnmoved, serverVars
<1>b. ~loaded /\ pendingAppends = <<>> /\ ~appendDrainScheduled /\ reply # <<>>
  BY <1>0, <1>a DEF Stages, Opening, Restoring
<1>c. /\ r \in FileAnswer /\ r.epoch \in Nat /\ r.size \in Nat /\ reply \in Seq(FileAnswer)
      /\ write.offset \in Positions /\ shown \o write.bytes \in Screen /\ <<>> \in Screen
      /\ cached.offset \in Positions
  BY <1>0, <1>a, <1>b, Typed, InRange DEF ProcessTypes
<1>d. Loads(r)
  BY <1>0, <1>b DEF RepliesHold
<1>e. Data(r) \in XtermWrite /\ Data(r).offset = r.size /\ NoWrite \in XtermWrite
  BY <1>c, DataIs, InRange
<1>. HIDE DEF r
<1>1. ServerTypes'
  BY <1>0, <1>a DEF ServerTypes
<1>2. ScreenTypes'
  BY <1>0, <1>a, <1>c DEF ScreenTypes
<1>3. ProcessTypes'
  <2>1. /\ pc' \in {"writeMain", "all"} /\ pc' # "cache"
        /\ reply' \in Seq(FileAnswer) /\ Len(reply') <= 1
    <3>1. pc' \in {"writeMain", "all"} /\ (reply' = reply \/ reply' = <<>>)
      BY <1>a
    <3>2. Len(reply) <= 1 /\ <<>> \in Seq(FileAnswer) /\ Len(<<>>) <= 1
      BY <1>0 DEF ProcessTypes
    <3> QED
      BY <1>c, <3>1, <3>2
  <2>2. write' \in XtermWrite /\ epoch' \in Epochs /\ append' \in AppendRec /\ cached' \in ScreenSave
    BY <1>0, <1>a, <1>e DEF ProcessTypes
  <2> QED
    BY <2>1, <2>2 DEF ProcessTypes, Asking, Restoring
<1>4. Stages'
  BY <1>a, <1>b DEF Stages, Opening, Asking, Restoring
<1>5. Truncations'
  BY <1>0, <1>a DEF Truncations
<1>6. AppendsMade'
  BY <1>0, <1>a, <1>b DEF AppendsMade
<1>7. AppendApplies'
  BY <1>0, <1>a DEF AppendApplies, Applying, Stale
<1>8. SavesStand'
  BY <1>0, <1>a DEF SavesStand
<1>9. RepliesHold'
  <2>1. reply' # <<>> => Loads(reply[1])'
    BY <1>a, <1>d, <1>e DEF Loads, Restoring, Answers, r
  <2> QED
    BY <1>a, <2>1 DEF RepliesHold, Fetches
<1>10. ~cut' => Showing'
  <2>. SUFFICES ASSUME ~cut' PROVE Showing'
    OBVIOUS
  <2>1. Showing /\ file \in FileState
    BY <1>0, <1>a DEF ServerTypes
  <2>2. CASE pc' = "all"
    BY <1>a, <2>1, <2>2, EmptyFits DEF Showing, Appending, Restoring, NotShownYet, Stale
  <2>3. CASE pc' = "writeMain"
    <3>2. ASSUME epoch = fileEpoch
          PROVE  Fits(file, shown' \o Data(r).bytes, termFileEpoch, r.size)
      <4>1. Fits(file, shown \o write.bytes, termFileEpoch, write.offset) /\ r.epoch = termFileEpoch
        BY <1>a, <1>d, <2>1, <3>2 DEF Showing, Restoring, Loads
      <4>2. write.offset = cached.offset /\ Answers(file, r, cached.offset) /\ cached.offset <= r.size
        BY <1>a, <1>d DEF Loads
      <4> QED
        BY <1>a, <1>c, <2>1, <2>3, <4>1, <4>2, DataFits
    <3> QED
      BY <1>a, <1>e, <2>1, <2>3, <3>2 DEF Showing, Appending, Restoring, NotShownYet
  <2> QED
    BY <1>a, <2>2, <2>3
<1> QED
  BY <1>1, <1>2, <1>3, <1>4, <1>5, <1>6, <1>7, <1>8, <1>9, <1>10 DEF ViewInv, ViewTypes

(* The screen shows the file, or is emptied since the file it shows is      *)
(* gone.                                                                    *)
LEMMA MainWrittenKeeps ==
  ASSUME TermSyncAssumption, ViewInv, MainWritten
  PROVE  ViewInv'
<1>0. /\ ViewTypes /\ ServerTypes /\ ScreenTypes /\ ProcessTypes /\ Stages /\ Truncations
      /\ AppendsMade /\ AppendApplies /\ SavesStand /\ RepliesHold /\ (~cut => Showing)
  BY DEF ViewInv, ViewTypes
<1>a. /\ pc = "writeMain" /\ write' = NoWrite /\ reply' = <<>>
      /\ \/ /\ epoch = fileEpoch /\ pc' = "drain" /\ epoch' = epoch
            /\ shown' = shown \o write.bytes /\ ptyOffset' = write.offset
         \/ /\ epoch # fileEpoch /\ pc' = "cache" /\ epoch' = fileEpoch
            /\ shown' = <<>> /\ ptyOffset' = 0
      /\ UNCHANGED <<file, unsent, events, cache, saves, snapshot, used, fileEpoch, termFileEpoch, loaded,
                     heldData, pendingAppends, appendDrainScheduled, append, cached, cut>>
  BY DEF MainWritten, Written, ServerUnmoved, serverVars
<1>b. ~loaded /\ pendingAppends = <<>> /\ ~appendDrainScheduled
  BY <1>0, <1>a DEF Stages, Opening
<1>c. /\ fileEpoch \in Epochs /\ fileEpoch \in Nat /\ epoch \in Epochs
      /\ write.offset \in Positions /\ shown \o write.bytes \in Screen
      /\ <<>> \in Screen /\ 0 \in Positions /\ NoWrite \in XtermWrite
  BY <1>0, Typed, InRange DEF ScreenTypes, ProcessTypes
<1>d. shown' \in Screen /\ ptyOffset' \in Positions /\ epoch' \in Epochs
  BY <1>a, <1>c
<1>1. ServerTypes'
  BY <1>0 DEF MainWritten, ServerUnmoved, serverVars, Written, ServerTypes
<1>2. ScreenTypes'
  BY <1>0, <1>a, <1>d DEF ScreenTypes
<1>3. ProcessTypes'
  <2>1. /\ pc' \in {"drain", "cache"} /\ reply' \in Seq(ScreenSave) /\ reply' \in Seq(FileAnswer) /\ Len(reply') = 0
    BY <1>a
  <2> QED
    BY <1>0, <1>a, <1>c, <1>d, <2>1 DEF ProcessTypes, Asking, Restoring
<1>4. Stages'
  BY <1>a, <1>b DEF Stages, Opening, Asking, Restoring
<1>5. Truncations'
  BY <1>0, <1>a, <1>c DEF Truncations
<1>6. AppendsMade'
  BY <1>0, <1>a, <1>b DEF AppendsMade
<1>7. AppendApplies'
  BY <1>0, <1>a DEF AppendApplies, Applying, Stale
<1>8. SavesStand'
  BY <1>0, <1>a DEF SavesStand
<1>9. RepliesHold'
  BY <1>a DEF RepliesHold
<1>10. ~cut' => Showing'
  <2>. SUFFICES ASSUME ~cut' PROVE Showing'
    OBVIOUS
  <2>1. CASE epoch = fileEpoch
    <3>1. Fits(file, shown', termFileEpoch, ptyOffset')
      BY <1>0, <1>a, <2>1 DEF Showing, Restoring
    <3>2. pc' = "drain" /\ epoch' = fileEpoch'
      BY <1>a, <2>1
    <3> QED
      BY <1>a, <3>1, <3>2 DEF Showing, Appending, Restoring, NotShownYet
  <2>2. CASE epoch # fileEpoch
    BY <1>a, <2>2, EmptyFits DEF Showing, Appending, Restoring, NotShownYet
  <2> QED
    BY <2>1, <2>2
<1> QED
  BY <1>1, <1>2, <1>3, <1>4, <1>5, <1>6, <1>7, <1>8, <1>9, <1>10 DEF ViewInv, ViewTypes

(* A held append is dropped or applied, and is of the file the view knows;  *)
(* or all is loaded, or loads again.                                        *)
LEMMA DrainKeeps ==
  ASSUME TermSyncAssumption, ViewInv, Drain
  PROVE  ViewInv'
<1>0. /\ ViewTypes /\ ServerTypes /\ ScreenTypes /\ ProcessTypes /\ Stages /\ Truncations
      /\ AppendsMade /\ AppendApplies /\ SavesStand /\ RepliesHold /\ (~cut => Showing)
  BY DEF ViewInv, ViewTypes
<1>u. /\ pc = "drain"
      /\ UNCHANGED <<file, unsent, events, cache, saves, snapshot, used, fileEpoch, termFileEpoch, ptyOffset,
                     pendingAppends, appendDrainScheduled, shown, cached, reply, write, cut>>
  BY DEF Drain, ServerUnmoved, serverVars
<1>a. \/ /\ heldData # <<>> /\ heldData' = Tail(heldData)
         /\ loaded' = loaded /\ pc' = pc /\ epoch' = epoch /\ append' = append
      \/ /\ epoch = fileEpoch /\ heldData # <<>> /\ heldData[1].epoch = termFileEpoch
         /\ heldData' = Rest(heldData) /\ append' = [Batch(heldData) EXCEPT !.at = epoch]
         /\ pc' = "apply" /\ loaded' = loaded /\ epoch' = epoch
      \/ /\ epoch = fileEpoch /\ loaded' = TRUE /\ pc' = "idle"
         /\ heldData' = heldData /\ epoch' = epoch /\ append' = append
      \/ /\ epoch # fileEpoch /\ pc' = "cache" /\ epoch' = fileEpoch
         /\ loaded' = loaded /\ heldData' = heldData /\ append' = append
  BY DEF Drain
<1>b. ~loaded /\ pendingAppends = <<>> /\ ~appendDrainScheduled /\ reply = <<>>
  BY <1>0, <1>u DEF Stages, Opening, Asking, Restoring
<1>c. /\ heldData \in Seq(AppendRec) /\ fileEpoch \in Epochs /\ epoch \in Epochs /\ append \in AppendRec
      /\ fileEpoch \in Nat /\ file \in FileState /\ \A e \in Epochs : e \in 0 .. MaxEpoch
  BY <1>0, Typed DEF ServerTypes, ScreenTypes, ProcessTypes, Epochs
<1>d. \A i \in 1 .. Len(heldData) : WasMade(file, heldData[i])
  BY <1>0 DEF AppendsMade
<1>e. /\ heldData' \in Seq(AppendRec)
      /\ \A i \in 1 .. Len(heldData') : WasMade(file, heldData'[i])
      /\ append' \in AppendRec
      /\ pc' = "apply" =>
           /\ WasMade(file, append') /\ append'.epoch = termFileEpoch /\ append'.at = epoch /\ epoch = fileEpoch
      /\ pc' # "apply" => append' = append
  <2>1. CASE heldData # <<>> /\ heldData' = Tail(heldData) /\ pc' = pc /\ append' = append
    BY <2>1, <1>c, <1>d, <1>u, TailIs
  <2>2. CASE /\ epoch = fileEpoch /\ heldData # <<>> /\ heldData[1].epoch = termFileEpoch
             /\ heldData' = Rest(heldData) /\ append' = [Batch(heldData) EXCEPT !.at = epoch]
             /\ pc' = "apply"
    <3>1. /\ Batch(heldData) \in AppendRec /\ Batch(heldData).epoch = heldData[1].epoch
          /\ WasMade(file, Batch(heldData)) /\ Rest(heldData) \in Seq(AppendRec)
          /\ \A i \in 1 .. Len(Rest(heldData)) : \E j \in 1 .. Len(heldData) : Rest(heldData)[i] = heldData[j]
      BY <2>2, <1>c, <1>d, BatchMade
    <3>2. \A b \in AppendRec, e \in 0 .. MaxEpoch :
            /\ [b EXCEPT !.at = e] \in AppendRec /\ [b EXCEPT !.at = e].at = e
            /\ [b EXCEPT !.at = e].epoch = b.epoch /\ [b EXCEPT !.at = e].from = b.from
            /\ [b EXCEPT !.at = e].to = b.to
      BY DEF AppendRec
    <3>3. /\ append' \in AppendRec /\ append'.at = epoch /\ append'.epoch = Batch(heldData).epoch
          /\ append'.from = Batch(heldData).from /\ append'.to = Batch(heldData).to
      BY <2>2, <1>c, <3>1, <3>2
    <3>4. WasMade(file, append')
      BY <3>1, <3>3 DEF WasMade
    <3> QED
      BY <2>2, <1>d, <3>1, <3>3, <3>4
  <2>3. CASE heldData' = heldData /\ append' = append /\ pc' # "apply"
    BY <2>3, <1>c, <1>d
  <2> QED
    BY <1>a, <2>1, <2>2, <2>3
<1>f. /\ pc' \in {"drain", "apply", "idle", "cache"} /\ loaded' \in BOOLEAN /\ epoch' \in {epoch, fileEpoch}
      /\ pc' = "idle" <=> loaded'
      /\ pc' \in {"apply", "idle"} => epoch = fileEpoch /\ epoch' = epoch
      /\ pc' = "cache" => epoch # fileEpoch /\ epoch' = fileEpoch
      /\ pc' # "cache" => epoch' = epoch
  <2>1. loaded = FALSE
    BY <1>0, <1>b DEF ScreenTypes
  <2> QED
    BY <1>a, <1>u, <2>1
<1>1. ServerTypes'
  BY <1>0, <1>u DEF ServerTypes
<1>2. ScreenTypes'
  BY <1>0, <1>u, <1>e, <1>f DEF ScreenTypes
<1>3. ProcessTypes'
  <2>1. reply' = <<>> /\ reply' \in Seq(ScreenSave) /\ reply' \in Seq(FileAnswer) /\ Len(reply') <= 1
    BY <1>b, <1>u
  <2>2. epoch' \in Epochs /\ pc' \in Asking \cup Restoring \cup {"drain", "idle"} \cup Applying
    BY <1>c, <1>f DEF Asking, Applying
  <2> QED
    BY <1>0, <1>u, <1>e, <2>1, <2>2 DEF ProcessTypes
<1>4. Stages'
  BY <1>b, <1>f, <1>u DEF Stages, Opening, Asking, Restoring
<1>5. Truncations'
  BY <1>0, <1>c, <1>f, <1>u DEF Truncations
<1>6. AppendsMade'
  BY <1>0, <1>u, <1>e DEF AppendsMade, Waits
<1>7. AppendApplies'
  <2>1. pc \notin Applying /\ (pc' \in Applying => pc' = "apply")
    BY <1>u, <1>f DEF Applying
  <2>2. append'.at <= fileEpoch /\ fileEpoch' = fileEpoch /\ termFileEpoch' = termFileEpoch /\ file' = file
    BY <1>0, <1>u, <1>c, <1>e, <1>f DEF AppendApplies
  <2> QED
    BY <1>e, <1>f, <2>1, <2>2 DEF AppendApplies
<1>8. SavesStand'
  BY <1>0, <1>u, <1>b DEF SavesStand
<1>9. RepliesHold'
  BY <1>u, <1>b, <1>f DEF RepliesHold
<1>10. ~cut' => Showing'
  <2>1. (~cut => Fits(file, shown, termFileEpoch, ptyOffset)) /\ (~cut /\ epoch # fileEpoch => shown = <<>>)
    BY <1>0, <1>b, <1>u DEF Showing, Restoring, NotShownYet
  <2> QED
    BY <1>u, <1>f, <2>1 DEF Showing, Appending, Restoring, NotShownYet
<1> QED
  BY <1>1, <1>2, <1>3, <1>4, <1>5, <1>6, <1>7, <1>8, <1>9, <1>10 DEF ViewInv, ViewTypes

(* A batch of what is queued is applied.                                    *)
LEMMA TakePendingKeeps ==
  ASSUME TermSyncAssumption, ViewInv, TakePending
  PROVE  ViewInv'
<1>0. /\ ViewTypes /\ ServerTypes /\ ScreenTypes /\ ProcessTypes /\ Stages /\ Truncations
      /\ AppendsMade /\ AppendApplies /\ SavesStand /\ RepliesHold /\ (~cut => Showing)
  BY DEF ViewInv, ViewTypes
<1>a. /\ pc = "idle" /\ appendDrainScheduled
      /\ \/ /\ pendingAppends = <<>> /\ appendDrainScheduled' = FALSE
            /\ pendingAppends' = pendingAppends /\ append' = append /\ pc' = pc
         \/ /\ pendingAppends # <<>> /\ append' = Batch(pendingAppends) /\ pendingAppends' = Rest(pendingAppends)
            /\ pc' = "apply" /\ appendDrainScheduled' = appendDrainScheduled
      /\ UNCHANGED <<file, unsent, events, cache, saves, snapshot, used, fileEpoch, termFileEpoch, ptyOffset,
                     loaded, heldData, shown, epoch, cached, reply, write, cut>>
  BY DEF TakePending, ServerUnmoved, serverVars
<1>b. loaded /\ reply = <<>>
  BY <1>0, <1>a DEF Stages, Asking, Restoring
<1>c. /\ pendingAppends \in Seq(AppendRec) /\ append \in AppendRec /\ fileEpoch \in Nat /\ file \in FileState
  BY <1>0, Typed DEF ServerTypes, ScreenTypes, ProcessTypes
<1>d. \A i \in 1 .. Len(pendingAppends) : Waits(file, pendingAppends[i]) /\ WasMade(file, pendingAppends[i])
  BY <1>0 DEF AppendsMade, Waits
<1>e. /\ pendingAppends' \in Seq(AppendRec) /\ append' \in AppendRec
      /\ \A i \in 1 .. Len(pendingAppends') : Waits(file, pendingAppends'[i])
      /\ pc' = "apply" =>
           WasMade(file, append') /\ append'.epoch = termFileEpoch /\ append'.at = fileEpoch
      /\ pc' # "apply" => append' = append
  <2>1. CASE pendingAppends' = pendingAppends /\ append' = append /\ pc' = pc
    BY <2>1, <1>a, <1>c, <1>d
  <2>2. CASE /\ pendingAppends # <<>> /\ append' = Batch(pendingAppends) /\ pendingAppends' = Rest(pendingAppends)
             /\ pc' = "apply"
    <3>1. /\ Batch(pendingAppends) \in AppendRec /\ Batch(pendingAppends).epoch = pendingAppends[1].epoch
          /\ Batch(pendingAppends).at = pendingAppends[1].at
          /\ WasMade(file, Batch(pendingAppends)) /\ Rest(pendingAppends) \in Seq(AppendRec)
          /\ \A i \in 1 .. Len(Rest(pendingAppends)) :
               \E j \in 1 .. Len(pendingAppends) : Rest(pendingAppends)[i] = pendingAppends[j]
      BY <2>2, <1>c, <1>d, BatchMade
    <3>2. 1 \in 1 .. Len(pendingAppends)
      BY <2>2, <1>c
    <3>3. pendingAppends[1].epoch = termFileEpoch /\ pendingAppends[1].at = fileEpoch
      BY <3>2, <1>d DEF Waits
    <3> QED
      BY <2>2, <1>d, <3>1, <3>3
  <2> QED
    BY <1>a, <2>1, <2>2
<1>f. pc' \in {"idle", "apply"} /\ appendDrainScheduled' \in BOOLEAN
  BY <1>a, <1>0 DEF ScreenTypes
<1>1. ServerTypes'
  BY <1>0, <1>a DEF ServerTypes
<1>2. ScreenTypes'
  <2>1. UNCHANGED <<fileEpoch, termFileEpoch, ptyOffset, loaded, heldData, shown, snapshot, cut>>
    BY <1>a
  <2> QED
    BY <1>0, <1>e, <1>f, <2>1 DEF ScreenTypes
<1>3. ProcessTypes'
  <2>1. reply' = <<>> /\ reply' \in Seq(ScreenSave) /\ reply' \in Seq(FileAnswer) /\ Len(reply') <= 1
    BY <1>b, <1>a
  <2>2. UNCHANGED <<epoch, cached, write>> /\ pc' \in Asking \cup Restoring \cup {"drain", "idle"} \cup Applying
    BY <1>a, <1>f DEF Applying
  <2> QED
    BY <1>0, <1>e, <2>1, <2>2 DEF ProcessTypes
<1>4. Stages'
  BY <1>a, <1>b, <1>f DEF Stages, Opening, Asking, Restoring
<1>5. Truncations'
  BY <1>0, <1>a DEF Truncations
<1>6. AppendsMade'
  BY <1>0, <1>a, <1>e DEF AppendsMade, Waits
<1>7. AppendApplies'
  <2>1. pc \notin Applying /\ (pc' \in Applying => pc' = "apply")
    BY <1>a, <1>f DEF Applying
  <2>2. append'.at <= fileEpoch /\ UNCHANGED <<fileEpoch, termFileEpoch, file, loaded>>
    BY <1>0, <1>a, <1>c, <1>e, <1>f DEF AppendApplies
  <2> QED
    BY <1>b, <1>e, <2>1, <2>2 DEF AppendApplies
<1>8. SavesStand'
  BY <1>0, <1>a, <1>b DEF SavesStand
<1>9. RepliesHold'
  BY <1>a, <1>b, <1>f DEF RepliesHold
<1>10. ~cut' => Showing'
  <2>1. ~cut => Fits(file, shown, termFileEpoch, ptyOffset)
    BY <1>0, <1>a DEF Showing, Restoring
  <2> QED
    BY <1>a, <1>b, <1>f, <2>1 DEF Showing, Appending, Restoring, NotShownYet
<1> QED
  BY <1>1, <1>2, <1>3, <1>4, <1>5, <1>6, <1>7, <1>8, <1>9, <1>10 DEF ViewInv, ViewTypes

(* Of an append behind what is shown the rest is asked for.                 *)
LEMMA ApplyFileAppendKeeps ==
  ASSUME TermSyncAssumption, ViewInv, ApplyFileAppend
  PROVE  ViewInv'
<1>0. /\ ViewTypes /\ ServerTypes /\ ScreenTypes /\ ProcessTypes /\ Stages /\ Truncations
      /\ AppendsMade /\ AppendApplies /\ SavesStand /\ RepliesHold /\ (~cut => Showing)
  BY DEF ViewInv, ViewTypes
<1>a. /\ pc = "apply"
      /\ \/ Stale /\ pc' = Returned
         \/ ~Stale /\ append.from > ptyOffset /\ pc' = "missing"
         \/ ~Stale /\ ~(append.from > ptyOffset) /\ pc' = "fresh"
      /\ UNCHANGED <<file, unsent, events, cache, saves, snapshot, used, fileEpoch, termFileEpoch, ptyOffset, loaded,
                     heldData, pendingAppends, appendDrainScheduled, shown, epoch, append, cached, reply, write, cut>>
  BY DEF ApplyFileAppend, ServerUnmoved, serverVars, viewVars
<1>b. reply = <<>>
  BY <1>0, <1>a DEF Stages, Asking, Restoring
<1>c. append.from \in Nat /\ ptyOffset \in Nat
  BY <1>0, Typed
<1>d. pc' \in {"idle", "drain", "missing", "fresh"} /\ (pc' = "idle" => loaded) /\ (pc' = "drain" => ~loaded)
  BY <1>a DEF Returned
<1>1. ServerTypes'
  BY <1>0, <1>a DEF ServerTypes
<1>2. ScreenTypes'
  BY <1>0, <1>a DEF ScreenTypes
<1>3. ProcessTypes'
  <2>1. reply' = <<>> /\ reply' \in Seq(ScreenSave) /\ reply' \in Seq(FileAnswer) /\ Len(reply') <= 1
    BY <1>b, <1>a
  <2>2. UNCHANGED <<epoch, append, cached, write>> /\ pc' \in Asking \cup Restoring \cup {"drain", "idle"} \cup Applying
    BY <1>a, <1>d DEF Applying
  <2> QED
    BY <1>0, <2>1, <2>2 DEF ProcessTypes
<1>4. Stages'
  BY <1>0, <1>a, <1>b, <1>d DEF Stages, Opening, Asking, Restoring
<1>5. Truncations'
  BY <1>0, <1>a DEF Truncations
<1>6. AppendsMade'
  BY <1>0, <1>a DEF AppendsMade, Waits
<1>7. AppendApplies'
  BY <1>0, <1>a DEF AppendApplies, Applying, Stale
<1>8. SavesStand'
  BY <1>0, <1>a, <1>d DEF SavesStand
<1>9. RepliesHold'
  <2>1. pc' = "missing" /\ ~Stale' => ptyOffset < append.from
    BY <1>a, <1>c DEF Stale, Returned
  <2> QED
    BY <1>a, <1>b, <1>d, <2>1 DEF RepliesHold
<1>10. ~cut' => Showing'
  <2>1. (~cut => Fits(file, shown, termFileEpoch, ptyOffset)) /\ (~cut /\ ~loaded /\ epoch # fileEpoch => shown = <<>>)
    BY <1>0, <1>a DEF Showing, Restoring, NotShownYet
  <2>2. pc' = "fresh" => append.from <= ptyOffset
    BY <1>a, <1>c DEF Returned
  <2> QED
    BY <1>a, <1>d, <2>1, <2>2 DEF Showing, Appending, Restoring, NotShownYet
<1> QED
  BY <1>1, <1>2, <1>3, <1>4, <1>5, <1>6, <1>7, <1>8, <1>9, <1>10 DEF ViewInv, ViewTypes

(* What was missing follows what is shown, and it reaches the append.       *)
LEMMA GotMissingKeeps ==
  ASSUME TermSyncAssumption, ViewInv, GotMissing
  PROVE  ViewInv'
<1>0. /\ ViewTypes /\ ServerTypes /\ ScreenTypes /\ ProcessTypes /\ Stages /\ Truncations
      /\ AppendsMade /\ AppendApplies /\ SavesStand /\ RepliesHold /\ (~cut => Showing)
  BY DEF ViewInv, ViewTypes
<1> DEFINE r == reply[1]
<1>a. /\ pc = "missing" /\ reply # <<>> /\ reply' = <<>>
      /\ \/ Stale /\ pc' = Returned /\ write' = write
         \/ ~Stale /\ Data(r).bytes = <<>> /\ pc' = "fresh" /\ write' = write
         \/ ~Stale /\ Data(r).bytes # <<>> /\ pc' = "writeMissing" /\ write' = Data(r)
      /\ UNCHANGED <<file, unsent, events, cache, saves, snapshot, used, fileEpoch, termFileEpoch, ptyOffset, loaded,
                     heldData, pendingAppends, appendDrainScheduled, shown, epoch, append, cached, cut>>
  BY DEF GotMissing, ServerUnmoved, serverVars, viewVars
<1>c. /\ append.from \in Nat /\ append.to \in Nat /\ append.epoch \in Nat
      /\ ptyOffset \in Nat /\ ptyOffset \in Positions /\ termFileEpoch \in Nat
      /\ file.epoch \in Nat /\ shown \in Screen /\ file \in FileState
      /\ r \in FileAnswer /\ r.epoch \in Nat /\ r.from \in Nat /\ r.size \in Nat
  BY <1>0, <1>a, Typed DEF ServerTypes
<1>d. pc' \in {"idle", "drain", "fresh", "writeMissing"} /\ (pc' = "idle" => loaded) /\ (pc' = "drain" => ~loaded)
  BY <1>a DEF Returned
<1>e. Data(r) \in XtermWrite /\ Data(r).offset = r.size /\ (Data(r).bytes = <<>> <=> r.size <= r.from)
  BY <1>c, DataIs
<1>f. ~Stale =>
        /\ Answers(file, r, ptyOffset) /\ termFileEpoch <= r.epoch /\ ptyOffset < append.from
        /\ (r.epoch = append.epoch => append.to <= r.size)
        /\ append.from < append.to /\ append.epoch = termFileEpoch
  BY <1>0, <1>a DEF RepliesHold, Fetches, AppendApplies, Applying, WasMade
<1>g. ~Stale /\ termFileEpoch = file.epoch =>
        r.epoch = termFileEpoch /\ append.from <= r.size /\ ptyOffset < r.size /\ Data(r).bytes # <<>>
  <2>. SUFFICES ASSUME ~Stale, termFileEpoch = file.epoch
                PROVE  r.epoch = termFileEpoch /\ append.from <= r.size /\ ptyOffset < r.size /\ Data(r).bytes # <<>>
    OBVIOUS
  <2>1. r.epoch <= file.epoch /\ ptyOffset <= r.from /\ (ptyOffset < r.from => r.from < r.size)
    BY <1>f DEF Answers
  <2>2. r.epoch = termFileEpoch
    BY <1>c, <1>f, <2>1
  <2>3. append.to <= r.size /\ append.from < append.to /\ ptyOffset < append.from
    BY <1>f, <2>2
  <2>4. append.from <= r.size /\ ptyOffset < r.size
    BY <1>c, <2>3
  <2>5. ~(r.size <= r.from)
    BY <1>c, <2>1, <2>4
  <2> QED
    BY <1>e, <2>2, <2>4, <2>5
<1>. HIDE DEF r
<1>1. ServerTypes'
  BY <1>0, <1>a DEF ServerTypes
<1>2. ScreenTypes'
  BY <1>0, <1>a DEF ScreenTypes
<1>3. ProcessTypes'
  <2>1. reply' = <<>> /\ reply' \in Seq(ScreenSave) /\ reply' \in Seq(FileAnswer) /\ Len(reply') <= 1
    BY <1>a
  <2>2. UNCHANGED <<epoch, append, cached>> /\ pc' \in Asking \cup Restoring \cup {"drain", "idle"} \cup Applying
    BY <1>a, <1>d DEF Applying
  <2>3. write' \in XtermWrite
    BY <1>0, <1>a, <1>e DEF ProcessTypes
  <2> QED
    BY <1>0, <2>1, <2>2, <2>3 DEF ProcessTypes
<1>4. Stages'
  BY <1>0, <1>a, <1>d DEF Stages, Opening, Asking, Restoring
<1>5. Truncations'
  BY <1>0, <1>a DEF Truncations
<1>6. AppendsMade'
  BY <1>0, <1>a DEF AppendsMade, Waits
<1>7. AppendApplies'
  BY <1>0, <1>a DEF AppendApplies, Applying, Stale
<1>8. SavesStand'
  BY <1>0, <1>a, <1>d DEF SavesStand
<1>9. RepliesHold'
  BY <1>a, <1>d DEF RepliesHold
<1>10. ~cut' => Showing'
  <2>1. (~cut => Fits(file, shown, termFileEpoch, ptyOffset)) /\ (~cut /\ ~loaded /\ epoch # fileEpoch => shown = <<>>)
    BY <1>0, <1>a DEF Showing, Restoring, NotShownYet
  <2>2. pc' = "writeMissing" =>
          ~Stale /\ write' = Data(r) /\ (termFileEpoch = file.epoch => append.from <= write'.offset)
    BY <1>a, <1>e, <1>g DEF Returned
  <2>3. pc' = "writeMissing" /\ ~cut => Fits(file, shown \o write'.bytes, termFileEpoch, write'.offset)
    <3>. SUFFICES ASSUME pc' = "writeMissing", ~cut, termFileEpoch = file.epoch
                  PROVE  Fits(file, shown \o Data(r).bytes, termFileEpoch, r.size)
      BY <2>2, <1>e DEF Fits
    <3>1. r.epoch = termFileEpoch /\ ptyOffset <= r.size /\ Answers(file, r, ptyOffset)
      BY <2>2, <1>c, <1>f, <1>g
    <3> QED
      BY <1>c, <2>1, <3>1, DataFits
  <2>4. pc' = "fresh" /\ ~Stale => termFileEpoch # file.epoch
    BY <1>a, <1>g DEF Returned
  <2>5. (Stale <=> Stale') /\ UNCHANGED <<shown, termFileEpoch, ptyOffset, file, loaded, epoch, fileEpoch, append, cut>>
    BY <1>a DEF Stale
  <2> QED
    BY <1>d, <2>1, <2>2, <2>3, <2>4, <2>5 DEF Showing, Appending, Restoring, NotShownYet
<1> QED
  BY <1>1, <1>2, <1>3, <1>4, <1>5, <1>6, <1>7, <1>8, <1>9, <1>10 DEF ViewInv, ViewTypes

(* What is written of an append follows what is shown.                      *)
LEMMA WriteFreshKeeps ==
  ASSUME TermSyncAssumption, ViewInv, WriteFresh
  PROVE  ViewInv'
<1>0. /\ ViewTypes /\ ServerTypes /\ ScreenTypes /\ ProcessTypes /\ Stages /\ Truncations
      /\ AppendsMade /\ AppendApplies /\ SavesStand /\ RepliesHold /\ (~cut => Showing)
  BY DEF ViewInv, ViewTypes
<1> DEFINE from == Larger(append.from, ptyOffset)
<1>a. /\ pc = "fresh"
      /\ \/ (Stale \/ from >= append.to) /\ pc' = Returned /\ write' = write
         \/ /\ ~Stale /\ ~(from >= append.to) /\ pc' = "writeFresh"
            /\ write' = [bytes |-> Bytes(append.epoch, from, append.to), offset |-> append.to]
      /\ UNCHANGED <<file, unsent, events, cache, saves, snapshot, used, fileEpoch, termFileEpoch, ptyOffset, loaded,
                     heldData, pendingAppends, appendDrainScheduled, shown, epoch, append, cached, reply, cut>>
  BY DEF WriteFresh, Fresh, ServerUnmoved, serverVars, viewVars
<1>b. reply = <<>>
  BY <1>0, <1>a DEF Stages, Asking, Restoring
<1>c. /\ append.from \in Nat /\ append.to \in Nat /\ append.epoch \in Epochs
      /\ append.from \in Positions /\ append.to \in Positions
      /\ ptyOffset \in Nat /\ ptyOffset \in Positions /\ shown \in Screen /\ file \in FileState
  BY <1>0, Typed DEF ServerTypes
<1>d. pc' \in {"idle", "drain", "writeFresh"} /\ (pc' = "idle" => loaded) /\ (pc' = "drain" => ~loaded)
  BY <1>a DEF Returned
<1>e. from \in Positions /\ from \in Nat /\ (append.from <= ptyOffset => from = ptyOffset)
  BY <1>c DEF Larger
<1>. HIDE DEF from
<1>f. pc' = "writeFresh" =>
        /\ Bytes(append.epoch, from, append.to) \in Screen /\ from < append.to
        /\ write'.bytes = Bytes(append.epoch, from, append.to) /\ write'.offset = append.to
        /\ write' \in XtermWrite
  <2>1. from < append.to => Bytes(append.epoch, from, append.to) \in Screen
    BY <1>c, <1>e, BytesAre
  <2>2. pc' = "writeFresh" =>
           from < append.to /\ write' = [bytes |-> Bytes(append.epoch, from, append.to), offset |-> append.to]
    BY <1>a, <1>c, <1>e DEF Returned
  <2> QED
    BY <1>c, <2>1, <2>2 DEF XtermWrite
<1>g. pc' # "writeFresh" => write' = write
  BY <1>a, <1>d
<1>1. ServerTypes'
  BY <1>0, <1>a DEF ServerTypes
<1>2. ScreenTypes'
  BY <1>0, <1>a DEF ScreenTypes
<1>3. ProcessTypes'
  <2>1. reply' = <<>> /\ reply' \in Seq(ScreenSave) /\ reply' \in Seq(FileAnswer) /\ Len(reply') <= 1
    BY <1>a, <1>b
  <2>2. UNCHANGED <<epoch, append, cached>> /\ pc' \in Asking \cup Restoring \cup {"drain", "idle"} \cup Applying
    BY <1>a, <1>d DEF Applying
  <2>3. write' \in XtermWrite
    BY <1>0, <1>f, <1>g DEF ProcessTypes
  <2> QED
    BY <1>0, <2>1, <2>2, <2>3 DEF ProcessTypes
<1>4. Stages'
  BY <1>0, <1>a, <1>b, <1>d DEF Stages, Opening, Asking, Restoring
<1>5. Truncations'
  BY <1>0, <1>a DEF Truncations
<1>6. AppendsMade'
  BY <1>0, <1>a DEF AppendsMade, Waits
<1>7. AppendApplies'
  BY <1>0, <1>a DEF AppendApplies, Applying, Stale
<1>8. SavesStand'
  BY <1>0, <1>a, <1>d DEF SavesStand
<1>9. RepliesHold'
  BY <1>a, <1>b, <1>d, <1>f DEF RepliesHold
<1>10. ~cut' => Showing'
  <2>1. (~cut => Fits(file, shown, termFileEpoch, ptyOffset)) /\ (~cut /\ ~loaded /\ epoch # fileEpoch => shown = <<>>)
    BY <1>0, <1>a DEF Showing, Restoring, NotShownYet
  <2>2. pc' = "writeFresh" => ~Stale /\ append.epoch = termFileEpoch
    BY <1>0, <1>a DEF AppendApplies, Applying, Returned
  <2>3. pc' = "writeFresh" /\ ~cut => Fits(file, shown \o write'.bytes, termFileEpoch, write'.offset)
    <3>. SUFFICES ASSUME pc' = "writeFresh", ~cut, termFileEpoch = file.epoch
                  PROVE  Fits(file, shown \o Bytes(append.epoch, from, append.to), termFileEpoch, append.to)
      BY <1>f DEF Fits
    <3>1. append.from <= ptyOffset
      BY <1>0, <1>a, <2>2 DEF Showing
    <3>2. from = ptyOffset /\ from < append.to
      BY <1>e, <1>f, <3>1
    <3>3. Fits(file, shown, append.epoch, ptyOffset)
      BY <2>1, <2>2
    <3>4. Fits(file, shown \o Bytes(append.epoch, from, append.to), append.epoch,
               IF shown # <<>> /\ from = append.to THEN ptyOffset ELSE append.to)
      BY <1>c, <1>e, <3>2, <3>3, BytesFollow
    <3>5. from # append.to
      BY <1>c, <1>e, <3>2
    <3> QED
      BY <2>2, <3>4, <3>5
  <2>5. (Stale <=> Stale') /\ UNCHANGED <<shown, termFileEpoch, ptyOffset, file, loaded, epoch, fileEpoch, append, cut>>
    BY <1>a DEF Stale
  <2> QED
    BY <1>d, <2>1, <2>2, <2>3, <2>5 DEF Showing, Appending, Restoring, NotShownYet
<1> QED
  BY <1>1, <1>2, <1>3, <1>4, <1>5, <1>6, <1>7, <1>8, <1>9, <1>10 DEF ViewInv, ViewTypes

(* What was written is shown.                                               *)
LEMMA AppendWrittenKeeps ==
  ASSUME TermSyncAssumption, ViewInv, AppendWritten
  PROVE  ViewInv'
<1>0. /\ ViewTypes /\ ServerTypes /\ ScreenTypes /\ ProcessTypes /\ Stages /\ Truncations
      /\ AppendsMade /\ AppendApplies /\ SavesStand /\ RepliesHold /\ (~cut => Showing)
  BY DEF ViewInv, ViewTypes
<1>a. /\ pc \in {"writeMissing", "writeFresh"}
      /\ shown' = shown \o write.bytes /\ ptyOffset' = write.offset /\ write' = NoWrite
      /\ \/ pc = "writeMissing" /\ pc' = "fresh"
         \/ pc = "writeFresh" /\ pc' = Returned
      /\ UNCHANGED <<file, unsent, events, cache, saves, snapshot, used, fileEpoch, termFileEpoch, loaded,
                     heldData, pendingAppends, appendDrainScheduled, epoch, append, cached, reply, cut>>
  BY DEF AppendWritten, Appending, Written, ServerUnmoved, serverVars
<1>b. reply = <<>>
  BY <1>0, <1>a DEF Stages, Asking, Restoring
<1>c. shown' \in Screen /\ ptyOffset' \in Positions /\ write' \in XtermWrite
  BY <1>0, <1>a, Typed, InRange
<1>d. pc' \in {"idle", "drain", "fresh"} /\ (pc' = "idle" => loaded) /\ (pc' = "drain" => ~loaded)
  BY <1>a DEF Returned
<1>1. ServerTypes'
  BY <1>0, <1>a DEF ServerTypes
<1>2. ScreenTypes'
  BY <1>0, <1>a, <1>c DEF ScreenTypes
<1>3. ProcessTypes'
  <2>1. reply' = <<>> /\ reply' \in Seq(ScreenSave) /\ reply' \in Seq(FileAnswer) /\ Len(reply') <= 1
    BY <1>a, <1>b
  <2>2. UNCHANGED <<epoch, append, cached>> /\ pc' \in Asking \cup Restoring \cup {"drain", "idle"} \cup Applying
    BY <1>a, <1>d DEF Applying
  <2> QED
    BY <1>0, <1>c, <2>1, <2>2 DEF ProcessTypes
<1>4. Stages'
  BY <1>0, <1>a, <1>b, <1>d DEF Stages, Opening, Asking, Restoring
<1>5. Truncations'
  BY <1>0, <1>a DEF Truncations
<1>6. AppendsMade'
  BY <1>0, <1>a DEF AppendsMade, Waits
<1>7. AppendApplies'
  BY <1>0, <1>a DEF AppendApplies, Applying, Stale
<1>8. SavesStand'
  BY <1>0, <1>a, <1>d DEF SavesStand
<1>9. RepliesHold'
  BY <1>a, <1>b, <1>d DEF RepliesHold
<1>10. ~cut' => Showing'
  <2>. SUFFICES ASSUME ~cut PROVE Showing'
    BY <1>a
  <2>1. ~Stale /\ Fits(file, shown \o write.bytes, termFileEpoch, write.offset)
    BY <1>0, <1>a DEF Showing, Appending
  <2>2. ~loaded => append.at = epoch /\ append.at = fileEpoch
    BY <1>0, <1>a, <2>1 DEF AppendApplies, Applying, Stale
  <2>3. pc' = "fresh" /\ termFileEpoch = file.epoch => append.from <= write.offset
    BY <1>0, <1>a, <1>d DEF Showing, Returned
  <2> QED
    BY <1>a, <1>d, <2>1, <2>2, <2>3 DEF Showing, Appending, Restoring, NotShownYet
<1> QED
  BY <1>1, <1>2, <1>3, <1>4, <1>5, <1>6, <1>7, <1>8, <1>9, <1>10 DEF ViewInv, ViewTypes

(* A failed request leaves what is shown as it is.                          *)
LEMMA FetchFailsKeeps ==
  ASSUME TermSyncAssumption, ViewInv, FetchFails
  PROVE  ViewInv'
<1>0. /\ ViewTypes /\ ServerTypes /\ ScreenTypes /\ ProcessTypes /\ Stages /\ Truncations
      /\ AppendsMade /\ AppendApplies /\ SavesStand /\ RepliesHold /\ (~cut => Showing)
  BY DEF ViewInv, ViewTypes
<1>1. ServerTypes'
  <2>1. used' \in Bound
    BY <1>0 DEF FetchFails, ServerTypes, Bound
  <2> QED
    BY <1>0, <2>1 DEF FetchFails, ServerUnmoved, serverVars, ServerTypes
<1>2. ScreenTypes'
  BY <1>0 DEF FetchFails, ServerUnmoved, serverVars, Asking, ScreenTypes
<1>3. ProcessTypes'
  BY <1>0 DEF FetchFails, ServerUnmoved, serverVars, Asking, ProcessTypes, Restoring, Applying
<1>4. Stages'
  BY <1>0 DEF FetchFails, ServerUnmoved, serverVars, Asking, Stages, Opening, Restoring
<1>5. Truncations'
  BY <1>0 DEF FetchFails, ServerUnmoved, serverVars, Asking, Truncations
<1>6. AppendsMade'
  BY <1>0 DEF FetchFails, ServerUnmoved, serverVars, Asking, AppendsMade, Waits
<1>7. AppendApplies'
  BY <1>0 DEF FetchFails, ServerUnmoved, serverVars, Asking, AppendApplies, Applying, Stale
<1>8. SavesStand'
  BY <1>0 DEF FetchFails, ServerUnmoved, serverVars, Asking, SavesStand
<1>9. RepliesHold'
  BY <1>0 DEF FetchFails, ServerUnmoved, serverVars, Asking, RepliesHold, Loads, Fetches, Restoring, Stale
<1>10. ~cut' => Showing'
  BY <1>0
     DEF FetchFails, ServerUnmoved, serverVars, Asking, Showing, Appending, Restoring, NotShownYet, Stale
<1> QED
  BY <1>1, <1>2, <1>3, <1>4, <1>5, <1>6, <1>7, <1>8, <1>9, <1>10 DEF ViewInv, ViewTypes

(* The screen that is saved is the one that is shown.                       *)
LEMMA ProcessAndCacheDataKeeps ==
  ASSUME TermSyncAssumption, ViewInv, ProcessAndCacheData
  PROVE  ViewInv'
<1>0. /\ ViewTypes /\ ServerTypes /\ ScreenTypes /\ ProcessTypes /\ Stages /\ Truncations
      /\ AppendsMade /\ AppendApplies /\ SavesStand /\ RepliesHold /\ (~cut => Showing)
  BY DEF ViewInv, ViewTypes
<1> DEFINE s == [at |-> fileEpoch, save |-> [epoch |-> termFileEpoch, offset |-> ptyOffset,
                                             screen |-> shown, cut |-> cut]]
<1>a. /\ snapshot' = <<s>> /\ ~RunsOn /\ loaded
      /\ UNCHANGED <<file, unsent, cache, events, saves, fileEpoch, termFileEpoch, ptyOffset, loaded, heldData,
                     pendingAppends, appendDrainScheduled, shown, pc, epoch, append, cached, reply, write, cut>>
  BY DEF ProcessAndCacheData, serverVars, viewVars, procVars
<1>b. used' \in Bound
  BY <1>0 DEF ProcessAndCacheData, ServerTypes, Bound
<1>c. s \in Snapshot /\ s.save = [epoch |-> termFileEpoch, offset |-> ptyOffset, screen |-> shown, cut |-> cut]
  BY <1>0 DEF ScreenTypes, Snapshot, ScreenSave
<1>d. StandsFor(file, s.save)
  <2>1. pc \notin Restoring
    BY <1>0, <1>a DEF Stages, Opening, Restoring
  <2> QED
    BY <1>0, <1>c, <2>1 DEF StandsFor, Showing, Truncations
<1>. HIDE DEF s
<1>e. /\ snapshot' \in Seq(Snapshot) /\ Len(snapshot') = 1
      /\ \A i \in 1 .. Len(snapshot') : StandsFor(file, snapshot'[i].save)
  BY <1>a, <1>c, <1>d
<1>1. ServerTypes'
  BY <1>0, <1>a, <1>b DEF ServerTypes
<1>2. ScreenTypes'
  BY <1>0, <1>a, <1>e DEF ScreenTypes
<1>3. ProcessTypes'
  BY <1>0
     DEF ProcessAndCacheData, serverVars, viewVars, procVars, RunsOn, ProcessTypes, Asking, Restoring,
         Applying
<1>4. Stages'
  BY <1>0
     DEF ProcessAndCacheData, serverVars, viewVars, procVars, RunsOn, Stages, Opening, Restoring,
         Asking
<1>5. Truncations'
  BY <1>0 DEF ProcessAndCacheData, serverVars, viewVars, procVars, RunsOn, Truncations
<1>6. AppendsMade'
  BY <1>0 DEF ProcessAndCacheData, serverVars, viewVars, procVars, RunsOn, AppendsMade, Waits
<1>7. AppendApplies'
  BY <1>0
     DEF ProcessAndCacheData, serverVars, viewVars, procVars, RunsOn, AppendApplies, Applying, Stale
<1>8. SavesStand'
  BY <1>0, <1>a, <1>e DEF SavesStand
<1>9. RepliesHold'
  BY <1>0
     DEF ProcessAndCacheData, serverVars, viewVars, procVars, RunsOn, RepliesHold, Loads, Fetches,
         Restoring, Stale
<1>10. ~cut' => Showing'
  BY <1>0
     DEF ProcessAndCacheData, serverVars, viewVars, procVars, RunsOn, Showing, Appending, Restoring,
         NotShownYet, Stale
<1> QED
  BY <1>1, <1>2, <1>3, <1>4, <1>5, <1>6, <1>7, <1>8, <1>9, <1>10 DEF ViewInv, ViewTypes

(* A screen that is sent stands for the file.                               *)
LEMMA SendSaveKeeps ==
  ASSUME TermSyncAssumption, ViewInv, SendSave
  PROVE  ViewInv'
<1>0. /\ ViewTypes /\ ServerTypes /\ ScreenTypes /\ ProcessTypes /\ Stages /\ Truncations
      /\ AppendsMade /\ AppendApplies /\ SavesStand /\ RepliesHold /\ (~cut => Showing)
  BY DEF ViewInv, ViewTypes
<1>1. ServerTypes'
  <2>1. snapshot \in Seq(Snapshot) /\ snapshot # <<>>
    BY <1>0 DEF SendSave, ScreenTypes
  <2>2. snapshot[1] \in Snapshot
    BY <2>1
  <2>3. snapshot[1].save \in ScreenSave
    BY <2>2 DEF Snapshot
  <2> QED
    BY <1>0, <2>3 DEF SendSave, serverVars, ServerTypes
<1>2. ScreenTypes'
  BY <1>0 DEF SendSave, serverVars, viewVars, procVars, ScreenTypes
<1>3. ProcessTypes'
  BY <1>0 DEF SendSave, serverVars, viewVars, procVars, ProcessTypes, Asking, Restoring, Applying
<1>4. Stages'
  BY <1>0 DEF SendSave, serverVars, viewVars, procVars, Stages, Opening, Restoring, Asking
<1>5. Truncations'
  BY <1>0 DEF SendSave, serverVars, viewVars, procVars, Truncations
<1>6. AppendsMade'
  BY <1>0 DEF SendSave, serverVars, viewVars, procVars, AppendsMade, Waits
<1>7. AppendApplies'
  BY <1>0 DEF SendSave, serverVars, viewVars, procVars, AppendApplies, Applying, Stale
<1>8. SavesStand'
  BY <1>0 DEF SendSave, serverVars, viewVars, procVars, SavesStand
<1>9. RepliesHold'
  BY <1>0
     DEF SendSave, serverVars, viewVars, procVars, RepliesHold, Loads, Fetches, Restoring, Stale
<1>10. ~cut' => Showing'
  BY <1>0
     DEF SendSave, serverVars, viewVars, procVars, Showing, Appending, Restoring, NotShownYet, Stale
<1> QED
  BY <1>1, <1>2, <1>3, <1>4, <1>5, <1>6, <1>7, <1>8, <1>9, <1>10 DEF ViewInv, ViewTypes

(* A view that is opened again shows nothing.                               *)
LEMMA OpenKeeps ==
  ASSUME TermSyncAssumption, ViewInv, Open
  PROVE  ViewInv'
<1>0. /\ ViewTypes /\ ServerTypes /\ ScreenTypes /\ ProcessTypes /\ Stages /\ Truncations
      /\ AppendsMade /\ AppendApplies /\ SavesStand /\ RepliesHold /\ (~cut => Showing)
  BY DEF ViewInv, ViewTypes
<1>a. /\ fileEpoch' = 0 /\ termFileEpoch' = 0 /\ ptyOffset' = 0 /\ loaded' = FALSE
      /\ heldData' = <<>> /\ pendingAppends' = <<>> /\ appendDrainScheduled' = FALSE /\ shown' = <<>>
      /\ pc' = "cache" /\ epoch' = 0 /\ append' = NoAppend /\ cached' = NoScreen /\ reply' = <<>> /\ write' = NoWrite
      /\ snapshot' = <<>> /\ cut' = FALSE
      /\ UNCHANGED <<file, unsent, cache, events, saves>>
  BY DEF Open, serverVars
<1>b. used' \in Bound
  BY <1>0 DEF Open, ServerTypes, Bound
<1>c. /\ file.epoch \in Nat /\ 0 \in Epochs /\ 0 \in Positions /\ NoAppend \in AppendRec
      /\ NoScreen \in ScreenSave /\ NoWrite \in XtermWrite /\ <<>> \in Screen
      /\ events \in Seq(FileEvent)
  BY <1>0, InRange, Typed DEF ServerTypes
<1>d. <<>> \in Seq(AppendRec) /\ <<>> \in Seq(Snapshot) /\ <<>> \in Seq(ScreenSave) /\ Len(<<>>) = 0
  OBVIOUS
<1>1. ServerTypes'
  BY <1>0, <1>a, <1>b DEF ServerTypes
<1>2. ScreenTypes'
  <2>1. fileEpoch' \in Epochs /\ termFileEpoch' \in Epochs /\ ptyOffset' \in Positions
    BY <1>a, <1>c
  <2>2. loaded' \in BOOLEAN /\ appendDrainScheduled' \in BOOLEAN /\ cut' \in BOOLEAN
    BY <1>a
  <2>3. heldData' \in Seq(AppendRec) /\ pendingAppends' \in Seq(AppendRec) /\ shown' \in Screen
    BY <1>a, <1>c, <1>d
  <2>4. snapshot' \in Seq(Snapshot) /\ Len(snapshot') <= 1
    BY <1>a, <1>d
  <2> QED
    BY <2>1, <2>2, <2>3, <2>4 DEF ScreenTypes
<1>3. ProcessTypes'
  BY <1>a, <1>c, <1>d DEF ProcessTypes, Asking
<1>4. Stages'
  BY <1>a DEF Stages, Opening, Asking, Restoring
<1>5. Truncations'
  <2>1. ASSUME NEW i \in 1 .. Len(events), Truncates(events[i])
        PROVE  0 < events[i].epoch /\ events[i].epoch <= file.epoch
    <3>1. events[i] \in FileEvent
      BY <1>c
    <3>2. events[i].epoch \in Nat /\ fileEpoch \in Nat
      BY <1>0, <3>1, InRange DEF FileEvent, ScreenTypes
    <3> QED
      BY <1>0, <2>1, <3>2 DEF Truncations
  <2> QED
    BY <1>0, <1>a, <1>c, <2>1 DEF Truncations
<1>6. AppendsMade'
  BY <1>0, <1>a, <1>d DEF AppendsMade
<1>7. AppendApplies'
  BY <1>a DEF AppendApplies, Applying, NoAppend
<1>8. SavesStand'
  <2>1. StandsFor(file, NoScreen)
    BY <1>c, EmptyFits DEF StandsFor, NoScreen
  <2> QED
    BY <1>0, <1>a, <1>d, <2>1 DEF SavesStand
<1>9. RepliesHold'
  BY <1>a DEF RepliesHold
<1>10. ~cut' => Showing'
  BY <1>a, EmptyFits DEF Showing, Appending, Restoring
<1> QED
  BY <1>1, <1>2, <1>3, <1>4, <1>5, <1>6, <1>7, <1>8, <1>9, <1>10 DEF ViewInv, ViewTypes

-----------------------------------------------------------------------------
(* ... and completeness                                                     *)

(* What has yet to come when an event has been handled.                     *)
LEMMA ComesTail ==
  ASSUME NEW f, NEW u, NEW q \in Seq(FileEvent), q # <<>>
  PROVE  /\ \A k \in Nat \ {0} : Comes(f, u, q, k + 1) => Comes(f, u, Tail(q), k)
         /\ Comes(f, u, q, 1) => f.size = 0 \/ Comes(f, u, Tail(q), 0)
         /\ Comes(f, u, q, 0) => Comes(f, u, Tail(q), 0) \/ (q[1].op = "append" /\ Newest(f, q[1]))
         /\ TruncationComes(f, q) => TruncationComes(f, Tail(q)) \/ (Truncates(q[1]) /\ q[1].epoch = f.epoch)
<1> DEFINE t == Tail(q)
<1>1. /\ Len(t) = Len(q) - 1 /\ Len(q) \in Nat \ {0}
      /\ \A i \in 1 .. Len(q) - 1 : t[i] = q[i + 1]
  BY TailIs
<1>. HIDE DEF t
<1>2. ASSUME NEW i \in 1 .. Len(q), i # 1 PROVE i - 1 \in 1 .. Len(t) /\ t[i - 1] = q[i] /\ i \in Nat
  <2>1. i - 1 \in 1 .. Len(q) - 1 /\ (i - 1) + 1 = i
    BY <1>1, <1>2
  <2> QED
    BY <1>1, <2>1
<1>3. ASSUME NEW k \in Nat, NEW i \in 1 .. Len(q), i > k + 1, q[i].op = "append", Newest(f, q[i])
      PROVE  Comes(f, u, t, k)
  <2>1. i # 1 /\ i - 1 > k
    BY <1>3
  <2> QED
    BY <1>2, <1>3, <2>1 DEF Comes
<1>4. ASSUME NEW k \in Nat \ {0}, Comes(f, u, q, k + 1) PROVE Comes(f, u, t, k)
  <2>1. CASE f.size = 0 \/ Follows(f, u)
    BY <2>1 DEF Comes
  <2>2. CASE \E i \in 1 .. Len(q) : i > k + 1 /\ q[i].op = "append" /\ Newest(f, q[i])
    BY <2>2, <1>3
  <2> QED
    BY <1>4, <2>1, <2>2 DEF Comes
<1>5. ASSUME Comes(f, u, q, 1) PROVE f.size = 0 \/ Comes(f, u, t, 0)
  <2>1. CASE f.size = 0 \/ Follows(f, u)
    BY <2>1 DEF Comes
  <2>2. CASE \E i \in 1 .. Len(q) : i > 0 + 1 /\ q[i].op = "append" /\ Newest(f, q[i])
    BY <2>2, <1>3
  <2> QED
    BY <1>5, <2>1, <2>2 DEF Comes
<1>6. ASSUME Comes(f, u, q, 0) PROVE Comes(f, u, t, 0) \/ (q[1].op = "append" /\ Newest(f, q[1]))
  <2>1. CASE Follows(f, u)
    BY <2>1 DEF Comes
  <2>2. CASE \E i \in 1 .. Len(q) : q[i].op = "append" /\ Newest(f, q[i])
    <3>1. PICK i \in 1 .. Len(q) : q[i].op = "append" /\ Newest(f, q[i])
      BY <2>2
    <3>2. CASE i = 1
      BY <3>1, <3>2
    <3>3. CASE i # 1
      <4>1. i > 0 + 1
        BY <3>3
      <4> QED
        BY <3>1, <4>1, <1>3
    <3> QED
      BY <3>2, <3>3
  <2> QED
    BY <1>6, <2>1, <2>2 DEF Comes
<1>7. ASSUME TruncationComes(f, q)
      PROVE  TruncationComes(f, t) \/ (Truncates(q[1]) /\ q[1].epoch = f.epoch)
  BY <1>2, <1>7 DEF TruncationComes
<1> QED
  BY <1>4, <1>5, <1>6, <1>7 DEF t

(* An append more in a queue, or an older one less.                         *)
LEMMA FollowsOn ==
  ASSUME NEW f, NEW S, NEW q \in Seq(S)
  PROVE  /\ \A x \in S : Follows(f, q) \/ Newest(f, x) => Follows(f, Append(q, x))
         /\ q # <<>> /\ q[1].epoch # f.epoch /\ Follows(f, q) => Follows(f, Tail(q))
<1>1. ASSUME NEW x \in S, Follows(f, q) \/ Newest(f, x) PROVE Follows(f, Append(q, x))
  BY <1>1, AppendIs DEF Follows
<1>2. ASSUME q # <<>>, q[1].epoch # f.epoch, Follows(f, q) PROVE Follows(f, Tail(q))
  <2>1. PICK i \in 1 .. Len(q) : Newest(f, q[i])
    BY <1>2 DEF Follows
  <2>2. i # 1
    BY <1>2, <2>1 DEF Newest
  <2>3. i - 1 \in 1 .. Len(q) - 1 /\ (i - 1) + 1 = i
    BY <2>2
  <2> QED
    BY <1>2, <2>1, <2>3, TailIs DEF Follows
<1> QED
  BY <1>1, <1>2

(* What was unsent comes as the last event.                                 *)
LEMMA ComesPublished ==
  ASSUME NEW f, NEW u \in Seq(FileEvent), NEW q \in Seq(FileEvent),
         \A i \in 1 .. Len(u) : u[i].op = "append"
  PROVE  /\ \A k \in 0 .. Len(q) : Comes(f, u, q, k) => Comes(f, <<>>, q \o u, k)
         /\ TruncationComes(f, q) => TruncationComes(f, q \o u)
         /\ \A i \in 1 .. Len(q \o u) : Truncates((q \o u)[i]) => i \in 1 .. Len(q) /\ (q \o u)[i] = q[i]
<1> DEFINE t == q \o u
<1>1. /\ Len(t) = Len(q) + Len(u) /\ Len(q) \in Nat /\ Len(u) \in Nat
      /\ \A i \in 1 .. Len(q) : t[i] = q[i]
      /\ \A i \in 1 .. Len(u) : t[Len(q) + i] = u[i]
  BY ConcatIs
<1>. HIDE DEF t
<1>2. ASSUME NEW k \in 0 .. Len(q), Comes(f, u, q, k) PROVE Comes(f, <<>>, t, k)
  <2>1. CASE Follows(f, u)
    <3>1. PICK i \in 1 .. Len(u) : Newest(f, u[i])
      BY <2>1 DEF Follows
    <3>2. Len(q) + i \in 1 .. Len(t) /\ Len(q) + i > k /\ t[Len(q) + i] = u[i]
      BY <1>1
    <3> QED
      BY <3>1, <3>2 DEF Comes
  <2>2. CASE \E i \in 1 .. Len(q) : i > k /\ q[i].op = "append" /\ Newest(f, q[i])
    BY <1>1, <2>2 DEF Comes
  <2> QED
    BY <1>2, <2>1, <2>2 DEF Comes
<1>3. TruncationComes(f, q) => TruncationComes(f, t)
  BY <1>1 DEF TruncationComes
<1>4. ASSUME NEW i \in 1 .. Len(t), Truncates(t[i]) PROVE i \in 1 .. Len(q) /\ t[i] = q[i]
  <2>1. ASSUME i > Len(q) PROVE FALSE
    <3>1. i - Len(q) \in 1 .. Len(u) /\ Len(q) + (i - Len(q)) = i
      BY <1>1, <2>1
    <3>2. t[i].op = "append"
      BY <1>1, <3>1
    <3> QED
      BY <1>4, <3>2 DEF Truncates
  <2> QED
    BY <1>1, <2>1
<1> QED
  BY <1>2, <1>3, <1>4 DEF t

(* The append that made the file longer is yet to be published.             *)
LEMMA AppendDataCompletes ==
  ASSUME TermSyncAssumption, ViewInv, CompleteInv, NEW n \in 1 .. 2, AppendData(n)
  PROVE  CompleteInv'
<1>0. /\ ViewTypes /\ ServerTypes /\ ScreenTypes /\ ProcessTypes /\ Stages /\ Truncations
      /\ AppendsMade /\ AppendApplies /\ RepliesHold /\ EventsComplete
      /\ (Undisturbed => EpochKnown /\ AllComes /\ (pendingAppends # <<>> => appendDrainScheduled))
  BY DEF ViewInv, ViewTypes, CompleteInv
<1> DEFINE a == [op |-> "append", epoch |-> file.epoch, from |-> file.size, to |-> file.size + n]
<1>u. /\ file' = [file EXCEPT !.size = file.size + n] /\ unsent' = <<a>>
      /\ UNCHANGED <<events, used, fileEpoch, termFileEpoch, ptyOffset, loaded, heldData, pendingAppends,
                     appendDrainScheduled, shown, pc, epoch, append, cached, reply, write, cut>>
  BY DEF AppendData, viewVars, procVars
<1>v. /\ file'.epoch = file.epoch /\ file'.size = file.size + n /\ file.size \in Nat /\ file.size + n \in Nat
      /\ file.size <= file'.size /\ file'.size \in Nat /\ Newest(file', a)
  BY <1>0, <1>u DEF ServerTypes, FileState, Positions, Newest
<1>w. \A k : Comes(file', unsent', events, k)
  BY <1>u, <1>v DEF Comes, Follows
<1>x. TruncationComes(file', events) <=> TruncationComes(file, events)
  BY <1>v DEF TruncationComes
<1>. HIDE DEF a
<1>1. EventsComplete'
  BY <1>0, <1>u, <1>w, <1>x DEF EventsComplete
<1>. SUFFICES ASSUME Undisturbed'
              PROVE  EpochKnown' /\ AllComes' /\ (pendingAppends' # <<>> => appendDrainScheduled')
  BY <1>1 DEF CompleteInv
<1>2. Undisturbed /\ EpochKnown /\ AllComes /\ (pendingAppends # <<>> => appendDrainScheduled)
  BY <1>0, <1>u DEF Undisturbed
<1>3. EpochKnown'
  BY <1>u, <1>v, <1>x, <1>2 DEF EpochKnown, CurrentLoad
<1>4. AllComes'
  <2>1. Following' /\ termFileEpoch' = file'.epoch =>
          ptyOffset <= file'.size /\ (Appending => ptyOffset < write.offset /\ write.offset <= file'.size)
    <3>1. ptyOffset \in Nat /\ write.offset \in Nat
      BY <1>0, Typed
    <3> QED
      BY <1>u, <1>v, <1>2, <3>1 DEF AllComes, Following, CurrentLoad
  <2> QED
    BY <1>u, <1>w, <2>1 DEF AllComes, Appending
<1>5. pendingAppends' # <<>> => appendDrainScheduled'
  BY <1>0, <1>u, <1>2
<1> QED
  BY <1>3, <1>4, <1>5

(* The append comes as an event, unless it is lost.                         *)
LEMMA PublishCompletes ==
  ASSUME TermSyncAssumption, ViewInv, CompleteInv, Publish
  PROVE  CompleteInv'
<1>0. /\ ViewTypes /\ ServerTypes /\ ScreenTypes /\ ProcessTypes /\ Stages /\ Truncations
      /\ AppendsMade /\ AppendApplies /\ RepliesHold /\ EventsComplete
      /\ (Undisturbed => EpochKnown /\ AllComes /\ (pendingAppends # <<>> => appendDrainScheduled))
  BY DEF ViewInv, ViewTypes, CompleteInv
<1>u. /\ unsent' = <<>>
      /\ \/ events' = events \o unsent /\ used' = used
         \/ events' = events /\ used' = [used EXCEPT !.lost = used.lost + 1]
      /\ UNCHANGED <<file, fileEpoch, termFileEpoch, ptyOffset, loaded, heldData, pendingAppends,
                     appendDrainScheduled, shown, pc, epoch, append, cached, reply, write, cut>>
  BY DEF Publish, viewVars, procVars
<1>v. /\ unsent \in Seq(FileEvent) /\ events \in Seq(FileEvent)
      /\ \A i \in 1 .. Len(unsent) : unsent[i].op = "append"
      /\ used.lost \in Nat
  BY <1>0 DEF ServerTypes, AppendsMade, Bound
<1>w. \/ used' = used /\ events' = events \o unsent
      \/ used' # used /\ used'.lost # 0 /\ events' = events /\ used'.lost \in Nat
  <2>1. ASSUME used' = [used EXCEPT !.lost = used.lost + 1] PROVE used'.lost = used.lost + 1
    BY <1>0, <2>1 DEF ServerTypes, Bound
  <2> QED
    BY <1>u, <1>v, <2>1
<1>x. /\ TruncationComes(file, events) => TruncationComes(file, events')
      /\ \A i \in 1 .. Len(events') : Truncates(events'[i]) => i \in 1 .. Len(events) /\ events'[i] = events[i]
  <2>1. CASE events' = events
    BY <2>1
  <2>2. CASE events' = events \o unsent
    BY <1>v, <2>2, ComesPublished
  <2> QED
    BY <1>u, <2>1, <2>2
<1>y. ASSUME used' = used, NEW k \in 0 .. Len(events), Comes(file, unsent, events, k)
      PROVE  Comes(file, unsent', events', k)
  <2>1. events' = events \o unsent /\ unsent' = <<>>
    BY <1>u, <1>w, <1>y
  <2>2. Comes(file, <<>>, events \o unsent, k)
    BY <1>v, <1>y, ComesPublished
  <2> QED
    BY <2>1, <2>2
<1>z. 0 \in 0 .. Len(events)
  BY <1>v
<1>1. EventsComplete'
  <2>1. (\E i \in 1 .. Len(events') : Truncates(events'[i])) => TruncationComes(file, events')
    BY <1>0, <1>x DEF EventsComplete
  <2>2. ASSUME used'.lost = 0, NEW i \in 1 .. Len(events'), Truncates(events'[i]), events'[i].epoch = file.epoch
        PROVE  Comes(file, unsent', events', i)
    <3>1. used' = used /\ used.lost = 0
      BY <1>w, <2>2
    <3>2. i \in 1 .. Len(events) /\ events'[i] = events[i] /\ i \in 0 .. Len(events)
      BY <1>v, <1>x, <2>2
    <3> QED
      BY <1>0, <1>y, <2>2, <3>1, <3>2 DEF EventsComplete
  <2> QED
    BY <1>u, <2>1, <2>2 DEF EventsComplete
<1>. SUFFICES ASSUME Undisturbed'
              PROVE  EpochKnown' /\ AllComes' /\ (pendingAppends' # <<>> => appendDrainScheduled')
  BY <1>1 DEF CompleteInv
<1>2. Undisturbed /\ EpochKnown /\ AllComes /\ (pendingAppends # <<>> => appendDrainScheduled)
  BY <1>0, <1>u, <1>w DEF Undisturbed
<1>q. used' = used
  BY <1>w DEF Undisturbed
<1>3. EpochKnown'
  BY <1>u, <1>x, <1>2 DEF EpochKnown, CurrentLoad
<1>4. AllComes'
  BY <1>u, <1>y, <1>z, <1>2, <1>q DEF AllComes, CurrentLoad, Following, Shows, Appending, Stale
<1>5. pendingAppends' # <<>> => appendDrainScheduled'
  BY <1>0, <1>u, <1>2
<1> QED
  BY <1>3, <1>4, <1>5

(* The event of the truncation comes.                                       *)
LEMMA TruncateCompletes ==
  ASSUME TermSyncAssumption, ViewInv, CompleteInv, Truncate
  PROVE  CompleteInv'
<1>0. /\ ViewTypes /\ ServerTypes /\ ScreenTypes /\ ProcessTypes /\ Stages /\ Truncations
      /\ AppendsMade /\ AppendApplies /\ RepliesHold /\ EventsComplete
      /\ (Undisturbed => EpochKnown /\ AllComes /\ (pendingAppends # <<>> => appendDrainScheduled))
  BY DEF ViewInv, ViewTypes, CompleteInv
<1> DEFINE t == [op |-> "truncate", epoch |-> file.epoch + 1, from |-> 0, to |-> 0]
<1>u. /\ file' = [epoch |-> file.epoch + 1, size |-> 0] /\ events' = Append(events, t)
      /\ UNCHANGED <<unsent, used, fileEpoch, termFileEpoch, ptyOffset, loaded, heldData, pendingAppends,
                     appendDrainScheduled, shown, pc, epoch, append, cached, reply, write, cut>>
  BY DEF Truncate, viewVars, procVars
<1>v. /\ file'.epoch = file.epoch + 1 /\ file'.size = 0 /\ file.epoch \in Nat
      /\ events \in Seq(FileEvent) /\ t.epoch = file'.epoch /\ t.op = "truncate"
  BY <1>0, <1>u DEF ServerTypes, FileState, Epochs
<1>w. /\ Len(events') = Len(events) + 1 /\ Len(events) \in Nat
      /\ events'[Len(events) + 1] = t /\ Len(events) + 1 \in 1 .. Len(events')
  <2>. HIDE DEF t
  <2> QED
    BY <1>u, <1>v
<1>x. TruncationComes(file', events')
  BY <1>v, <1>w DEF TruncationComes, Truncates
<1>. HIDE DEF t
<1>1. EventsComplete'
  <2>1. \A i \in 1 .. Len(events') : Comes(file', unsent', events', i)
    BY <1>v, <1>w DEF Comes
  <2> QED
    BY <1>x, <2>1 DEF EventsComplete
<1>. SUFFICES ASSUME Undisturbed'
              PROVE  EpochKnown' /\ AllComes' /\ (pendingAppends' # <<>> => appendDrainScheduled')
  BY <1>1 DEF CompleteInv
<1>2. Undisturbed /\ EpochKnown /\ AllComes /\ (pendingAppends # <<>> => appendDrainScheduled)
  BY <1>0, <1>u DEF Undisturbed
<1>3. EpochKnown'
  BY <1>x DEF EpochKnown
<1>4. AllComes'
  <2>1. termFileEpoch # file'.epoch
    <3>1. termFileEpoch <= file.epoch /\ termFileEpoch \in Nat
      BY <1>0, Typed DEF Truncations
    <3> QED
      BY <1>v, <3>1
  <2>2. pc \in {"main", "all"} \cup Restoring /\ reply # <<>> => reply[1].epoch # file'.epoch
    <3>. SUFFICES ASSUME pc \in {"main", "all"} \cup Restoring, reply # <<>> PROVE reply[1].epoch # file'.epoch
      OBVIOUS
    <3>1. reply[1].epoch <= file.epoch
      BY <1>0 DEF RepliesHold, Loads, Answers, Restoring
    <3>2. reply[1].epoch \in Nat
      BY <1>0, Typed DEF Restoring
    <3> QED
      BY <1>v, <3>1, <3>2
  <2> QED
    BY <1>u, <2>1, <2>2 DEF AllComes
<1>5. pendingAppends' # <<>> => appendDrainScheduled'
  BY <1>0, <1>u, <1>2
<1> QED
  BY <1>3, <1>4, <1>5

(* A save is not about what comes.                                          *)
LEMMA SaveTerminalStateCompletes ==
  ASSUME TermSyncAssumption, ViewInv, CompleteInv, NEW s \in saves, SaveTerminalState(s)
  PROVE  CompleteInv'
<1>0. /\ ViewTypes /\ ServerTypes /\ ScreenTypes /\ ProcessTypes /\ Stages /\ Truncations
      /\ AppendsMade /\ AppendApplies /\ RepliesHold /\ EventsComplete
      /\ (Undisturbed => EpochKnown /\ AllComes /\ (pendingAppends # <<>> => appendDrainScheduled))
  BY DEF ViewInv, ViewTypes, CompleteInv
<1>u. UNCHANGED <<file, unsent, events, used, fileEpoch, termFileEpoch, ptyOffset, loaded, heldData, pendingAppends,
                     appendDrainScheduled, shown, pc, epoch, append, cached, reply, write, cut>>
  BY DEF SaveTerminalState, viewVars, procVars
<1>1. EventsComplete'
  BY <1>0, <1>u DEF EventsComplete
<1>. SUFFICES ASSUME Undisturbed'
              PROVE  EpochKnown' /\ AllComes' /\ (pendingAppends' # <<>> => appendDrainScheduled')
  BY <1>1 DEF CompleteInv
<1>2. Undisturbed /\ EpochKnown /\ AllComes /\ (pendingAppends # <<>> => appendDrainScheduled)
  BY <1>0, <1>u DEF Undisturbed
<1>3. EpochKnown'
  BY <1>0, <1>u, <1>2 DEF EpochKnown, CurrentLoad, Stages, Opening, Restoring, Asking
<1>4. AllComes'
  BY <1>0, <1>u, <1>2 DEF AllComes, CurrentLoad, Following, Shows, Appending, Applying, Stale, Stages, Opening, Restoring, Asking
<1>5. pendingAppends' # <<>> => appendDrainScheduled'
  BY <1>0, <1>u, <1>2
<1> QED
  BY <1>3, <1>4, <1>5

(* The last truncation to be handled leaves the view with the epoch of the  *)
(* file, and its appends come after it.                                     *)
LEMMA HandleTruncateCompletes ==
  ASSUME TermSyncAssumption, ViewInv, CompleteInv, HandleTruncate
  PROVE  CompleteInv'
<1>0. /\ ViewTypes /\ ServerTypes /\ ScreenTypes /\ ProcessTypes /\ Stages /\ Truncations
      /\ AppendsMade /\ AppendApplies /\ RepliesHold /\ EventsComplete
      /\ (Undisturbed => EpochKnown /\ AllComes /\ (pendingAppends # <<>> => appendDrainScheduled))
  BY DEF ViewInv, ViewTypes, CompleteInv
<1>u. /\ events # <<>> /\ Head(events).op = "truncate" /\ events' = Tail(events)
      /\ fileEpoch' = fileEpoch + 1 /\ termFileEpoch' = Head(events).epoch
      /\ heldData' = <<>> /\ pendingAppends' = <<>> /\ ptyOffset' = 0
      /\ cut' = (cut \/ Appending)
      /\ UNCHANGED <<file, unsent, used, loaded, pc, epoch, append, reply, write>>
  BY DEF HandleTruncate, serverVars, procVars
<1>v. /\ events \in Seq(FileEvent) /\ Head(events) = events[1] /\ 1 \in 1 .. Len(events) /\ Truncates(events[1])
      /\ Len(events') = Len(events) - 1 /\ Len(events) \in Nat
      /\ \A i \in 1 .. Len(events') : i + 1 \in 1 .. Len(events) /\ events'[i] = events[i + 1] /\ 1 < i + 1
  <2>1. events \in Seq(FileEvent)
    BY <1>0 DEF ServerTypes
  <2>2. /\ Len(events') = Len(events) - 1 /\ Len(events) \in Nat \ {0}
        /\ \A i \in 1 .. Len(events) - 1 : events'[i] = events[i + 1] /\ i + 1 \in 1 .. Len(events)
        /\ Head(events) = events[1] /\ 1 \in 1 .. Len(events)
    BY <1>u, <2>1, TailIs
  <2> QED
    BY <1>u, <2>1, <2>2 DEF Truncates
<1>w. TruncationComes(file, events)
  BY <1>0, <1>v DEF EventsComplete
<1>x. TruncationComes(file, events') \/ events[1].epoch = file.epoch
  BY <1>u, <1>v, <1>w, ComesTail
<1>y. /\ fileEpoch \in Nat /\ epoch \in Nat /\ epoch <= fileEpoch /\ file.epoch \in Nat /\ file.size \in Nat
      /\ \A i \in 1 .. Len(events) : events[i].epoch \in Nat
  <2>1. \A e \in FileEvent : e.epoch \in Nat
    BY InRange DEF FileEvent
  <2> QED
    BY <1>0, <1>v, <2>1, Typed DEF Truncations
<1>1. EventsComplete'
  <2>1. ASSUME NEW i \in 1 .. Len(events'), Truncates(events'[i]) PROVE TruncationComes(file, events')
    <3>1. events[1].epoch < events[i + 1].epoch /\ events[i + 1].epoch <= file.epoch
      BY <1>0, <1>v, <2>1 DEF Truncations
    <3>2. events[1].epoch # file.epoch
      BY <1>v, <1>y, <3>1
    <3> QED
      BY <1>x, <3>2
  <2>2. ASSUME used.lost = 0, NEW i \in 1 .. Len(events'), Truncates(events'[i]), events'[i].epoch = file.epoch
        PROVE  Comes(file, unsent, events', i)
    <3>1. Comes(file, unsent, events, i + 1) /\ i \in Nat \ {0}
      BY <1>0, <1>v, <2>2 DEF EventsComplete
    <3> QED
      BY <1>u, <1>v, <3>1, ComesTail
  <2> QED
    BY <1>u, <2>1, <2>2 DEF EventsComplete
<1>. SUFFICES ASSUME Undisturbed'
              PROVE  EpochKnown' /\ AllComes' /\ (pendingAppends' # <<>> => appendDrainScheduled')
  BY <1>1 DEF CompleteInv
<1>2. Undisturbed /\ EpochKnown /\ AllComes /\ (pendingAppends # <<>> => appendDrainScheduled)
  BY <1>0, <1>u DEF Undisturbed
<1>p. epoch # fileEpoch' /\ ~Appending
  <2>1. ~Appending
    BY <1>u DEF Undisturbed
  <2> QED
    BY <1>u, <1>y, <2>1
<1>q. ~CurrentLoad' /\ (termFileEpoch' = file.epoch \/ TruncationComes(file, events'))
  BY <1>p, <1>u, <1>v, <1>x DEF CurrentLoad
<1>3. EpochKnown'
  BY <1>u, <1>q DEF EpochKnown
<1>4. AllComes'
  <2>1. ASSUME termFileEpoch' = file.epoch PROVE 0 = file.size \/ Comes(file, unsent, events', 0)
    <3>1. Comes(file, unsent, events, 1)
      BY <1>0, <1>u, <1>v, <1>2, <2>1 DEF EventsComplete, Undisturbed
    <3> QED
      BY <1>u, <1>v, <3>1, ComesTail
  <2>2. ptyOffset' = 0 /\ 0 <= file.size /\ ~Appending'
    BY <1>u, <1>p, <1>y DEF Appending
  <2> QED
    BY <1>u, <1>q, <2>1, <2>2 DEF AllComes, Shows
<1>5. pendingAppends' # <<>> => appendDrainScheduled'
  BY <1>u
<1> QED
  BY <1>3, <1>4, <1>5

(* The append that was to come is held or queued, or is of a file that is   *)
(* gone.                                                                    *)
LEMMA HandleAppendCompletes ==
  ASSUME TermSyncAssumption, ViewInv, CompleteInv, HandleAppend
  PROVE  CompleteInv'
<1>0. /\ ViewTypes /\ ServerTypes /\ ScreenTypes /\ ProcessTypes /\ Stages /\ Truncations
      /\ AppendsMade /\ AppendApplies /\ RepliesHold /\ EventsComplete
      /\ (Undisturbed => EpochKnown /\ AllComes /\ (pendingAppends # <<>> => appendDrainScheduled))
  BY DEF ViewInv, ViewTypes, CompleteInv
<1>u. /\ events # <<>> /\ Head(events).op = "append" /\ events' = Tail(events)
      /\ IF loaded /\ Head(events).epoch = termFileEpoch
           THEN pendingAppends' = Append(pendingAppends, Live(Head(events))) /\ appendDrainScheduled' = TRUE
           ELSE UNCHANGED <<pendingAppends, appendDrainScheduled>>
      /\ heldData' = IF loaded THEN heldData ELSE Append(heldData, Live(Head(events)))
      /\ UNCHANGED <<file, unsent, used, fileEpoch, termFileEpoch, ptyOffset, loaded, pc, epoch, append, reply, write, cut>>
  BY DEF HandleAppend, IsCurrentAppend, Held, serverVars, procVars
<1>v. /\ events \in Seq(FileEvent) /\ Head(events) = events[1] /\ 1 \in 1 .. Len(events) /\ ~Truncates(events[1])
      /\ events[1] \in FileEvent
      /\ Len(events') = Len(events) - 1 /\ Len(events) \in Nat
      /\ \A i \in 1 .. Len(events') : i + 1 \in 1 .. Len(events) /\ events'[i] = events[i + 1]
  <2>1. events \in Seq(FileEvent)
    BY <1>0 DEF ServerTypes
  <2>2. /\ Len(events') = Len(events) - 1 /\ Len(events) \in Nat \ {0}
        /\ \A i \in 1 .. Len(events) - 1 : events'[i] = events[i + 1] /\ i + 1 \in 1 .. Len(events)
        /\ Head(events) = events[1] /\ 1 \in 1 .. Len(events) /\ events[1] \in FileEvent
    BY <1>u, <2>1, TailIs
  <2> QED
    BY <1>u, <2>1, <2>2 DEF Truncates
<1> DEFINE a == Live(events[1])
<1>w. a \in AppendRec /\ a.epoch = events[1].epoch /\ (Newest(file, events[1]) => Newest(file, a))
  <2>1. fileEpoch \in 0 .. MaxEpoch
    BY <1>0 DEF ScreenTypes, Epochs
  <2> QED
    BY <1>v, <2>1 DEF Live, AppendRec, FileEvent, Newest
<1>. HIDE DEF a
<1>x. TruncationComes(file, events) => TruncationComes(file, events')
  BY <1>u, <1>v, ComesTail
<1>y. Comes(file, unsent, events, 0) => Comes(file, unsent, events', 0) \/ Newest(file, events[1])
  BY <1>u, <1>v, ComesTail
<1>z. /\ ~loaded => heldData' = Append(heldData, a)
      /\ loaded => heldData' = heldData
      /\ loaded /\ events[1].epoch = termFileEpoch =>
           pendingAppends' = Append(pendingAppends, a) /\ appendDrainScheduled' = TRUE
      /\ ~(loaded /\ events[1].epoch = termFileEpoch) =>
           pendingAppends' = pendingAppends /\ appendDrainScheduled' = appendDrainScheduled
  BY <1>u, <1>v DEF a
<1>1. EventsComplete'
  <2>1. ASSUME used.lost = 0, NEW i \in 1 .. Len(events'), Truncates(events'[i]), events'[i].epoch = file.epoch
        PROVE  Comes(file, unsent, events', i)
    <3>1. Comes(file, unsent, events, i + 1) /\ i \in Nat \ {0}
      BY <1>0, <1>v, <2>1 DEF EventsComplete
    <3> QED
      BY <1>u, <1>v, <3>1, ComesTail
  <2>2. (\E i \in 1 .. Len(events') : Truncates(events'[i])) => TruncationComes(file, events')
    BY <1>0, <1>v, <1>x DEF EventsComplete
  <2> QED
    BY <1>u, <2>1, <2>2 DEF EventsComplete
<1>. SUFFICES ASSUME Undisturbed'
              PROVE  EpochKnown' /\ AllComes' /\ (pendingAppends' # <<>> => appendDrainScheduled')
  BY <1>1 DEF CompleteInv
<1>2. Undisturbed /\ EpochKnown /\ AllComes /\ (pendingAppends # <<>> => appendDrainScheduled)
  BY <1>0, <1>u DEF Undisturbed
<1>q. /\ Follows(file, heldData) \/ (~loaded /\ Newest(file, events[1])) => Follows(file, heldData')
      /\ \/ Follows(file, pendingAppends)
         \/ loaded /\ events[1].epoch = termFileEpoch /\ Newest(file, events[1])
         => Follows(file, pendingAppends')
  <2>1. heldData \in Seq(AppendRec) /\ pendingAppends \in Seq(AppendRec)
    BY <1>0 DEF ScreenTypes
  <2>2. /\ Follows(file, heldData) \/ Newest(file, a) => Follows(file, Append(heldData, a))
        /\ Follows(file, pendingAppends) \/ Newest(file, a) => Follows(file, Append(pendingAppends, a))
    BY <1>w, <2>1, FollowsOn
  <2> QED
    BY <1>w, <1>z, <2>2
<1>3. EpochKnown'
  BY <1>u, <1>x, <1>2 DEF EpochKnown, CurrentLoad
<1>4. AllComes'
  <2>1. ASSUME CurrentLoad', pc' \in {"main", "all"} \cup Restoring, reply' # <<>>, (reply[1].epoch)' = file'.epoch
        PROVE  (reply[1].size)' = file'.size \/ Comes(file', unsent', events', 0) \/ Follows(file', heldData')
    BY <1>u, <1>y, <1>q, <1>2, <2>1 DEF AllComes, CurrentLoad
  <2>2. ASSUME Following', termFileEpoch' = file'.epoch
        PROVE  \/ Shows(file.size)' \/ Comes(file', unsent', events', 0) \/ Follows(file', pendingAppends')
               \/ ~loaded' /\ Follows(file', heldData')
    <3>1. Following /\ termFileEpoch = file.epoch
      BY <1>u, <2>2 DEF Following, CurrentLoad
    <3>2. \/ Shows(file.size) \/ Comes(file, unsent, events, 0) \/ Follows(file, pendingAppends)
          \/ ~loaded /\ Follows(file, heldData)
      BY <1>2, <3>1 DEF AllComes
    <3>3. Shows(file.size) => Shows(file.size)'
      BY <1>u DEF Shows, Appending, Stale
    <3>4. Newest(file, events[1]) => events[1].epoch = termFileEpoch
      BY <3>1 DEF Newest
    <3> QED
      BY <1>u, <1>y, <1>q, <3>2, <3>3, <3>4
  <2>3. Following' /\ termFileEpoch' = file'.epoch =>
          ptyOffset' <= file'.size /\ (Appending' => ptyOffset' < write'.offset /\ write'.offset <= file'.size)
    BY <1>u, <1>2 DEF AllComes, Following, CurrentLoad, Appending
  <2> QED
    BY <2>1, <2>2, <2>3 DEF AllComes
<1>5. pendingAppends' # <<>> => appendDrainScheduled'
  BY <1>u, <1>z, <1>2
<1> QED
  BY <1>3, <1>4, <1>5

(* The answer has the size of the file.                                     *)
LEMMA ServeCompletes ==
  ASSUME TermSyncAssumption, ViewInv, CompleteInv, Serve
  PROVE  CompleteInv'
<1>0. /\ ViewTypes /\ ServerTypes /\ ScreenTypes /\ ProcessTypes /\ Stages /\ Truncations
      /\ AppendsMade /\ AppendApplies /\ RepliesHold /\ EventsComplete
      /\ (Undisturbed => EpochKnown /\ AllComes /\ (pendingAppends # <<>> => appendDrainScheduled))
  BY DEF ViewInv, ViewTypes, CompleteInv
<1>u. /\ pc # "cache" => reply'[1].epoch = file.epoch /\ reply'[1].size = file.size
      /\ UNCHANGED <<file, unsent, events, used, fileEpoch, termFileEpoch, ptyOffset, loaded, heldData, pendingAppends,
                     appendDrainScheduled, shown, pc, epoch, append, cached, write, cut>>
  BY DEF Serve, ServerUnmoved, serverVars, viewVars
<1>1. EventsComplete'
  BY <1>0, <1>u DEF EventsComplete
<1>. SUFFICES ASSUME Undisturbed'
              PROVE  EpochKnown' /\ AllComes' /\ (pendingAppends' # <<>> => appendDrainScheduled')
  BY <1>1 DEF CompleteInv
<1>2. Undisturbed /\ EpochKnown /\ AllComes /\ (pendingAppends # <<>> => appendDrainScheduled)
  BY <1>0, <1>u DEF Undisturbed
<1>3. EpochKnown'
  <2>1. CurrentLoad' <=> CurrentLoad
    BY <1>u DEF CurrentLoad
  <2> QED
    BY <1>u, <1>2, <2>1 DEF EpochKnown
<1>4. AllComes'
  <2>1. (Following' <=> Following) /\ (Shows(file.size)' <=> Shows(file.size)) /\ (Appending' <=> Appending)
    BY <1>u DEF Following, CurrentLoad, Shows, Appending, Stale
  <2> QED
    BY <1>u, <1>2, <2>1 DEF AllComes, Restoring
<1>5. pendingAppends' # <<>> => appendDrainScheduled'
  BY <1>0, <1>u, <1>2
<1> QED
  BY <1>3, <1>4, <1>5

(* No request is answered.                                                  *)
LEMMA GotCacheCompletes ==
  ASSUME TermSyncAssumption, ViewInv, CompleteInv, GotCache
  PROVE  CompleteInv'
<1>0. /\ ViewTypes /\ ServerTypes /\ ScreenTypes /\ ProcessTypes /\ Stages /\ Truncations
      /\ AppendsMade /\ AppendApplies /\ RepliesHold /\ EventsComplete
      /\ (Undisturbed => EpochKnown /\ AllComes /\ (pendingAppends # <<>> => appendDrainScheduled))
  BY DEF ViewInv, ViewTypes, CompleteInv
<1>u. /\ pc = "cache" /\ pc' = "main" /\ reply' = <<>>
      /\ UNCHANGED <<file, unsent, events, used, fileEpoch, termFileEpoch, ptyOffset, loaded, heldData, pendingAppends,
                     appendDrainScheduled, shown, epoch, append, write, cut>>
  BY DEF GotCache, ServerUnmoved, serverVars, viewVars
<1>1. EventsComplete'
  BY <1>0, <1>u DEF EventsComplete
<1>. SUFFICES ASSUME Undisturbed'
              PROVE  EpochKnown' /\ AllComes' /\ (pendingAppends' # <<>> => appendDrainScheduled')
  BY <1>1 DEF CompleteInv
<1>2. Undisturbed /\ EpochKnown /\ AllComes /\ (pendingAppends # <<>> => appendDrainScheduled)
  BY <1>0, <1>u DEF Undisturbed
<1>3. EpochKnown'
  BY <1>0, <1>u, <1>2 DEF EpochKnown, CurrentLoad, Stages, Opening, Restoring, Asking
<1>4. AllComes'
  BY <1>0, <1>u, <1>2 DEF AllComes, CurrentLoad, Following, Shows, Appending, Applying, Stale, Stages, Opening, Restoring, Asking
<1>5. pendingAppends' # <<>> => appendDrainScheduled'
  BY <1>0, <1>u, <1>2
<1> QED
  BY <1>3, <1>4, <1>5

(* The epoch of the answer is the one of the file, or a truncation comes.   *)
LEMMA GotMainCompletes ==
  ASSUME TermSyncAssumption, ViewInv, CompleteInv, GotMain
  PROVE  CompleteInv'
<1>0. /\ ViewTypes /\ ServerTypes /\ ScreenTypes /\ ProcessTypes /\ Stages /\ Truncations
      /\ AppendsMade /\ AppendApplies /\ RepliesHold /\ EventsComplete
      /\ (Undisturbed => EpochKnown /\ AllComes /\ (pendingAppends # <<>> => appendDrainScheduled))
  BY DEF ViewInv, ViewTypes, CompleteInv
<1> DEFINE r == reply[1]
<1>u. /\ pc = "main" /\ reply # <<>> /\ termFileEpoch' = r.epoch
      /\ \/ /\ cached.offset \in 1 .. r.size /\ cached.epoch = r.epoch
            /\ write' = [bytes |-> cached.screen, offset |-> cached.offset] /\ pc' = "writeCache"
            /\ cut' = (cut \/ cached.cut) /\ reply' = reply
         \/ pc' = "all" /\ reply' = <<>> /\ write' = write /\ cut' = cut
      /\ UNCHANGED <<file, unsent, events, cache, saves, snapshot, used, fileEpoch, ptyOffset, loaded,
                     heldData, pendingAppends, appendDrainScheduled, shown, epoch, append, cached>>
  BY DEF GotMain, ServerUnmoved, serverVars, CanUseTerminalCache
<1>1. EventsComplete'
  BY <1>0, <1>u DEF EventsComplete
<1>. SUFFICES ASSUME Undisturbed'
              PROVE  EpochKnown' /\ AllComes' /\ (pendingAppends' # <<>> => appendDrainScheduled')
  BY <1>1 DEF CompleteInv
<1>2. Undisturbed /\ EpochKnown /\ AllComes /\ (pendingAppends # <<>> => appendDrainScheduled)
  <2>1. ~cut
    BY <1>u, <1>0 DEF Undisturbed, ScreenTypes, ProcessTypes, ScreenSave
  <2> QED
    BY <1>0, <1>u, <2>1 DEF Undisturbed
<1>3. EpochKnown'
  BY <1>0, <1>u, <1>2 DEF EpochKnown, CurrentLoad, Stages, Opening, Restoring, Asking
<1>4. AllComes'
  BY <1>0, <1>u, <1>2 DEF AllComes, CurrentLoad, Following, Shows, Appending, Applying, Stale, Stages, Opening, Restoring, Asking
<1>5. pendingAppends' # <<>> => appendDrainScheduled'
  BY <1>0, <1>u, <1>2
<1> QED
  BY <1>3, <1>4, <1>5

(* So is it when all is loaded again.                                       *)
LEMMA GotAllCompletes ==
  ASSUME TermSyncAssumption, ViewInv, CompleteInv, GotAll
  PROVE  CompleteInv'
<1>0. /\ ViewTypes /\ ServerTypes /\ ScreenTypes /\ ProcessTypes /\ Stages /\ Truncations
      /\ AppendsMade /\ AppendApplies /\ RepliesHold /\ EventsComplete
      /\ (Undisturbed => EpochKnown /\ AllComes /\ (pendingAppends # <<>> => appendDrainScheduled))
  BY DEF ViewInv, ViewTypes, CompleteInv
<1> DEFINE r == reply[1]
<1>u. /\ pc = "all" /\ reply # <<>> /\ termFileEpoch' = r.epoch
      /\ write' = Data(r) /\ pc' = "writeMain"
      /\ UNCHANGED <<file, unsent, events, cache, saves, snapshot, used, fileEpoch, ptyOffset, loaded,
                     heldData, pendingAppends, appendDrainScheduled, shown, epoch, append, cached, reply, cut>>
  BY DEF GotAll, ServerUnmoved, serverVars
<1>1. EventsComplete'
  BY <1>0, <1>u DEF EventsComplete
<1>. SUFFICES ASSUME Undisturbed'
              PROVE  EpochKnown' /\ AllComes' /\ (pendingAppends' # <<>> => appendDrainScheduled')
  BY <1>1 DEF CompleteInv
<1>2. Undisturbed /\ EpochKnown /\ AllComes /\ (pendingAppends # <<>> => appendDrainScheduled)
  BY <1>0, <1>u DEF Undisturbed
<1>3. EpochKnown'
  BY <1>0, <1>u, <1>2 DEF EpochKnown, CurrentLoad, Stages, Opening, Restoring, Asking
<1>4. AllComes'
  BY <1>0, <1>u, <1>2 DEF AllComes, CurrentLoad, Following, Shows, Appending, Applying, Stale, Stages, Opening, Restoring, Asking
<1>5. pendingAppends' # <<>> => appendDrainScheduled'
  BY <1>0, <1>u, <1>2
<1> QED
  BY <1>3, <1>4, <1>5

(* What is written next has the size of the answer.                         *)
LEMMA CacheWrittenCompletes ==
  ASSUME TermSyncAssumption, ViewInv, CompleteInv, CacheWritten
  PROVE  CompleteInv'
<1>0. /\ ViewTypes /\ ServerTypes /\ ScreenTypes /\ ProcessTypes /\ Stages /\ Truncations
      /\ AppendsMade /\ AppendApplies /\ RepliesHold /\ EventsComplete
      /\ (Undisturbed => EpochKnown /\ AllComes /\ (pendingAppends # <<>> => appendDrainScheduled))
  BY DEF ViewInv, ViewTypes, CompleteInv
<1> DEFINE r == reply[1]
<1>u. /\ pc = "writeCache"
      /\ \/ /\ shown' = shown \o write.bytes /\ ptyOffset' = write.offset
            /\ write' = Data(r) /\ pc' = "writeMain" /\ reply' = reply
         \/ /\ shown' = <<>> /\ ptyOffset' = write.offset
            /\ write' = NoWrite /\ pc' = "all" /\ reply' = <<>>
      /\ UNCHANGED <<file, unsent, events, cache, saves, snapshot, used, fileEpoch, termFileEpoch, loaded,
                     heldData, pendingAppends, appendDrainScheduled, epoch, append, cached, cut>>
  BY DEF CacheWritten, Written, ServerUnmoved, serverVars
<1>1. EventsComplete'
  BY <1>0, <1>u DEF EventsComplete
<1>. SUFFICES ASSUME Undisturbed'
              PROVE  EpochKnown' /\ AllComes' /\ (pendingAppends' # <<>> => appendDrainScheduled')
  BY <1>1 DEF CompleteInv
<1>2. Undisturbed /\ EpochKnown /\ AllComes /\ (pendingAppends # <<>> => appendDrainScheduled)
  BY <1>0, <1>u DEF Undisturbed
<1>3. EpochKnown'
  BY <1>0, <1>u, <1>2 DEF EpochKnown, CurrentLoad, Stages, Opening, Restoring, Asking
<1>4. AllComes'
  BY <1>0, <1>u, <1>2 DEF AllComes, CurrentLoad, Following, Shows, Appending, Applying, Stale, Stages, Opening, Restoring, Asking
<1>5. pendingAppends' # <<>> => appendDrainScheduled'
  BY <1>0, <1>u, <1>2
<1> QED
  BY <1>3, <1>4, <1>5

(* What is written has the size of the file, or the append that makes it    *)
(* longer comes or is held.                                                 *)
LEMMA MainWrittenCompletes ==
  ASSUME TermSyncAssumption, ViewInv, CompleteInv, MainWritten
  PROVE  CompleteInv'
<1>0. /\ ViewTypes /\ ServerTypes /\ ScreenTypes /\ ProcessTypes /\ Stages /\ Truncations
      /\ AppendsMade /\ AppendApplies /\ RepliesHold /\ EventsComplete
      /\ (Undisturbed => EpochKnown /\ AllComes /\ (pendingAppends # <<>> => appendDrainScheduled))
  BY DEF ViewInv, ViewTypes, CompleteInv
<1>u. /\ pc = "writeMain" /\ write' = NoWrite /\ reply' = <<>>
      /\ \/ /\ epoch = fileEpoch /\ pc' = "drain" /\ epoch' = epoch
            /\ shown' = shown \o write.bytes /\ ptyOffset' = write.offset
         \/ /\ epoch # fileEpoch /\ pc' = "cache" /\ epoch' = fileEpoch
            /\ shown' = <<>> /\ ptyOffset' = 0
      /\ UNCHANGED <<file, unsent, events, cache, saves, snapshot, used, fileEpoch, termFileEpoch, loaded,
                     heldData, pendingAppends, appendDrainScheduled, append, cached, cut>>
  BY DEF MainWritten, Written, ServerUnmoved, serverVars
<1>1. EventsComplete'
  BY <1>0, <1>u DEF EventsComplete
<1>. SUFFICES ASSUME Undisturbed'
              PROVE  EpochKnown' /\ AllComes' /\ (pendingAppends' # <<>> => appendDrainScheduled')
  BY <1>1 DEF CompleteInv
<1>2. Undisturbed /\ EpochKnown /\ AllComes /\ (pendingAppends # <<>> => appendDrainScheduled)
  BY <1>0, <1>u DEF Undisturbed
<1>3. EpochKnown'
  BY <1>0, <1>u, <1>2 DEF EpochKnown, CurrentLoad, Stages, Opening, Restoring, Asking
<1>4. AllComes'
  <2>1. pc' \in {"drain", "cache"} /\ reply' = <<>> /\ ~loaded
    BY <1>u, <1>0 DEF Stages, Opening
  <2>2. ASSUME Following', termFileEpoch = file.epoch
        PROVE  ptyOffset' <= file.size /\ (Shows(file.size)' \/ Comes(file, unsent, events, 0) \/ Follows(file, heldData))
    <3>1. epoch = fileEpoch /\ ptyOffset' = write.offset /\ CurrentLoad
      BY <1>u, <2>1, <2>2 DEF Following, CurrentLoad, Applying
    <3>2. reply # <<>>
      BY <1>0, <1>u DEF Stages, Restoring
    <3>3. reply[1].epoch = termFileEpoch /\ write.offset = reply[1].size /\ reply[1].size <= file.size
      BY <1>0, <1>u, <2>2, <3>1, <3>2 DEF RepliesHold, Loads, Restoring
    <3>4. \/ reply[1].size = file.size \/ Comes(file, unsent, events, 0) \/ Follows(file, heldData)
      BY <1>2, <1>u, <2>2, <3>1, <3>2, <3>3 DEF AllComes, Restoring
    <3> QED
      BY <1>u, <3>1, <3>3, <3>4 DEF Shows
  <2> QED
    BY <1>u, <2>1, <2>2 DEF AllComes, Appending
<1>5. pendingAppends' # <<>> => appendDrainScheduled'
  BY <1>0, <1>u, <1>2
<1> QED
  BY <1>3, <1>4, <1>5

(* What was held is applied, or is of a file that is gone.                  *)
LEMMA DrainCompletes ==
  ASSUME TermSyncAssumption, ViewInv, CompleteInv, Drain
  PROVE  CompleteInv'
<1>0. /\ ViewTypes /\ ServerTypes /\ ScreenTypes /\ ProcessTypes /\ Stages /\ Truncations
      /\ AppendsMade /\ AppendApplies /\ RepliesHold /\ EventsComplete
      /\ (Undisturbed => EpochKnown /\ AllComes /\ (pendingAppends # <<>> => appendDrainScheduled))
  BY DEF ViewInv, ViewTypes, CompleteInv
<1>u. /\ pc = "drain"
      /\ UNCHANGED <<file, unsent, events, cache, saves, snapshot, used, fileEpoch, termFileEpoch, ptyOffset,
                     pendingAppends, appendDrainScheduled, shown, cached, reply, write, cut>>
  BY DEF Drain, ServerUnmoved, serverVars
<1>a. \/ /\ epoch = fileEpoch /\ heldData # <<>> /\ heldData[1].epoch # termFileEpoch /\ heldData' = Tail(heldData)
         /\ loaded' = loaded /\ pc' = pc /\ epoch' = epoch /\ append' = append
      \/ /\ epoch = fileEpoch /\ heldData # <<>> /\ heldData[1].epoch = termFileEpoch
         /\ heldData' = Rest(heldData) /\ append' = [Batch(heldData) EXCEPT !.at = epoch]
         /\ pc' = "apply" /\ loaded' = loaded /\ epoch' = epoch
      \/ /\ epoch = fileEpoch /\ heldData = <<>> /\ loaded' = TRUE /\ pc' = "idle"
         /\ heldData' = heldData /\ epoch' = epoch /\ append' = append
      \/ /\ epoch # fileEpoch /\ pc' = "cache" /\ epoch' = fileEpoch
         /\ loaded' = loaded /\ heldData' = heldData /\ append' = append
  BY DEF Drain
<1>1. EventsComplete'
  BY <1>0, <1>u DEF EventsComplete
<1>. SUFFICES ASSUME Undisturbed'
              PROVE  EpochKnown' /\ AllComes' /\ (pendingAppends' # <<>> => appendDrainScheduled')
  BY <1>1 DEF CompleteInv
<1>2. Undisturbed /\ EpochKnown /\ AllComes /\ (pendingAppends # <<>> => appendDrainScheduled)
  BY <1>0, <1>u DEF Undisturbed
<1>q. /\ ~loaded /\ pendingAppends = <<>> /\ reply = <<>> /\ heldData \in Seq(AppendRec)
      /\ fileEpoch \in Nat /\ file \in FileState
  BY <1>0, <1>u, Typed DEF Stages, Opening, Asking, Restoring, ScreenTypes, ServerTypes
<1>3. EpochKnown'
  BY <1>u, <1>a, <1>q, <1>2 DEF EpochKnown, CurrentLoad
<1>4. AllComes'
  <2>1. reply' = <<>> /\ ~Appending' /\ pc' \in {"drain", "apply", "idle", "cache"}
    BY <1>u, <1>a, <1>q DEF Appending
  <2>2. ASSUME Following', termFileEpoch = file.epoch
        PROVE  /\ ptyOffset <= file.size
               /\ \/ Shows(file.size)' \/ Comes(file, unsent, events, 0)
                  \/ ~loaded' /\ Follows(file, heldData')
    <3>1. epoch = fileEpoch /\ Following
      BY <1>u, <1>a, <1>q, <2>2 DEF Following, CurrentLoad, Applying
    <3>2. /\ ptyOffset <= file.size
          /\ ptyOffset = file.size \/ Comes(file, unsent, events, 0) \/ Follows(file, heldData)
      BY <1>2, <1>u, <1>q, <2>2, <3>1 DEF AllComes, Shows, Appending, Applying, Follows
    <3>3. ptyOffset = file.size => Shows(file.size)'
      BY <1>u DEF Shows
    <3>4. ASSUME Follows(file, heldData) PROVE Shows(file.size)' \/ (~loaded' /\ Follows(file, heldData'))
      <4>1. CASE heldData # <<>> /\ heldData[1].epoch # termFileEpoch /\ heldData' = Tail(heldData) /\ loaded' = loaded
        BY <1>q, <2>2, <3>4, <4>1, FollowsOn
      <4>2. CASE /\ heldData # <<>> /\ heldData' = Rest(heldData) /\ append' = [Batch(heldData) EXCEPT !.at = epoch]
                 /\ pc' = "apply" /\ loaded' = loaded
        <5>1. /\ Follows(file, Rest(heldData)) \/ Newest(file, Batch(heldData))
              /\ Batch(heldData) \in AppendRec
          BY <1>0, <1>q, <3>4, <4>2, BatchMade DEF AppendsMade
        <5>2. append'.at = epoch /\ append'.to = Batch(heldData).to
          BY <4>2, <5>1 DEF AppendRec
        <5>3. Newest(file, Batch(heldData)) => Shows(file.size)'
          BY <1>u, <3>1, <4>2, <5>2 DEF Newest, Shows, Applying, Stale
        <5> QED
          BY <1>q, <4>2, <5>1, <5>3
      <4>3. CASE heldData = <<>>
        BY <3>4, <4>3 DEF Follows
      <4> QED
        BY <1>a, <3>1, <4>1, <4>2, <4>3
    <3> QED
      BY <3>2, <3>3, <3>4
  <2> QED
    BY <1>u, <2>1, <2>2 DEF AllComes
<1>5. pendingAppends' # <<>> => appendDrainScheduled'
  BY <1>0, <1>u, <1>2
<1> QED
  BY <1>3, <1>4, <1>5

(* What was queued is applied.                                              *)
LEMMA TakePendingCompletes ==
  ASSUME TermSyncAssumption, ViewInv, CompleteInv, TakePending
  PROVE  CompleteInv'
<1>0. /\ ViewTypes /\ ServerTypes /\ ScreenTypes /\ ProcessTypes /\ Stages /\ Truncations
      /\ AppendsMade /\ AppendApplies /\ RepliesHold /\ EventsComplete
      /\ (Undisturbed => EpochKnown /\ AllComes /\ (pendingAppends # <<>> => appendDrainScheduled))
  BY DEF ViewInv, ViewTypes, CompleteInv
<1>u. /\ pc = "idle" /\ appendDrainScheduled
      /\ \/ /\ pendingAppends = <<>> /\ appendDrainScheduled' = FALSE
            /\ pendingAppends' = pendingAppends /\ append' = append /\ pc' = pc
         \/ /\ pendingAppends # <<>> /\ append' = Batch(pendingAppends) /\ pendingAppends' = Rest(pendingAppends)
            /\ pc' = "apply" /\ appendDrainScheduled' = appendDrainScheduled
      /\ UNCHANGED <<file, unsent, events, cache, saves, snapshot, used, fileEpoch, termFileEpoch, ptyOffset,
                     loaded, heldData, shown, epoch, cached, reply, write, cut>>
  BY DEF TakePending, ServerUnmoved, serverVars
<1>1. EventsComplete'
  BY <1>0, <1>u DEF EventsComplete
<1>. SUFFICES ASSUME Undisturbed'
              PROVE  EpochKnown' /\ AllComes' /\ (pendingAppends' # <<>> => appendDrainScheduled')
  BY <1>1 DEF CompleteInv
<1>2. Undisturbed /\ EpochKnown /\ AllComes /\ (pendingAppends # <<>> => appendDrainScheduled)
  BY <1>0, <1>u DEF Undisturbed
<1>q. /\ loaded /\ reply = <<>> /\ pendingAppends \in Seq(AppendRec)
      /\ fileEpoch \in Nat /\ file \in FileState
  BY <1>0, <1>u, Typed DEF Stages, Asking, Restoring, ScreenTypes, ServerTypes
<1>3. EpochKnown'
  BY <1>0, <1>u, <1>2 DEF EpochKnown, CurrentLoad, Stages, Opening, Restoring, Asking
<1>4. AllComes'
  <2>1. reply' = <<>> /\ ~Appending'
    BY <1>u, <1>q DEF Appending
  <2>2. ASSUME termFileEpoch = file.epoch
        PROVE  /\ ptyOffset <= file.size
               /\ \/ Shows(file.size)' \/ Comes(file, unsent, events, 0) \/ Follows(file, pendingAppends')
    <3>1. Following /\ ~Appending /\ pc \notin Applying
      BY <1>q, <1>u DEF Following, Appending, Applying
    <3>2. /\ ptyOffset <= file.size
          /\ ptyOffset = file.size \/ Comes(file, unsent, events, 0) \/ Follows(file, pendingAppends)
      BY <1>2, <1>q, <2>2, <3>1 DEF AllComes, Shows
    <3>3. ptyOffset = file.size => Shows(file.size)'
      BY <1>u DEF Shows
    <3>4. ASSUME Follows(file, pendingAppends) PROVE Shows(file.size)' \/ Follows(file, pendingAppends')
      <4>1. CASE pendingAppends' = pendingAppends
        BY <3>4, <4>1
      <4>2. CASE /\ pendingAppends # <<>> /\ append' = Batch(pendingAppends) /\ pendingAppends' = Rest(pendingAppends)
                 /\ pc' = "apply"
        <5>1. \A i \in 1 .. Len(pendingAppends) : WasMade(file, pendingAppends[i])
          BY <1>0 DEF AppendsMade, Waits
        <5>2. /\ Follows(file, Rest(pendingAppends)) \/ Newest(file, Batch(pendingAppends))
              /\ Batch(pendingAppends).at = pendingAppends[1].at
          BY <1>q, <3>4, <4>2, <5>1, BatchMade
        <5>3. 1 \in 1 .. Len(pendingAppends)
          BY <1>q, <4>2
        <5>4. pendingAppends[1].at = fileEpoch
          BY <1>0, <5>3 DEF AppendsMade, Waits
        <5>5. Newest(file, Batch(pendingAppends)) => Shows(file.size)'
          BY <1>u, <4>2, <5>2, <5>4 DEF Newest, Shows, Applying, Stale
        <5> QED
          BY <4>2, <5>2, <5>5
      <4> QED
        BY <1>u, <4>1, <4>2
    <3> QED
      BY <3>2, <3>3, <3>4
  <2> QED
    BY <1>u, <2>1, <2>2 DEF AllComes
<1>5. pendingAppends' # <<>> => appendDrainScheduled'
  BY <1>0, <1>u, <1>2
<1> QED
  BY <1>3, <1>4, <1>5

(* The append that is applied is fetched or written.                        *)
LEMMA ApplyFileAppendCompletes ==
  ASSUME TermSyncAssumption, ViewInv, CompleteInv, ApplyFileAppend
  PROVE  CompleteInv'
<1>0. /\ ViewTypes /\ ServerTypes /\ ScreenTypes /\ ProcessTypes /\ Stages /\ Truncations
      /\ AppendsMade /\ AppendApplies /\ RepliesHold /\ EventsComplete
      /\ (Undisturbed => EpochKnown /\ AllComes /\ (pendingAppends # <<>> => appendDrainScheduled))
  BY DEF ViewInv, ViewTypes, CompleteInv
<1>u. /\ pc = "apply"
      /\ \/ Stale /\ pc' = Returned
         \/ ~Stale /\ append.from > ptyOffset /\ pc' = "missing"
         \/ ~Stale /\ ~(append.from > ptyOffset) /\ pc' = "fresh"
      /\ UNCHANGED <<file, unsent, events, cache, saves, snapshot, used, fileEpoch, termFileEpoch, ptyOffset, loaded,
                     heldData, pendingAppends, appendDrainScheduled, shown, epoch, append, cached, reply, write, cut>>
  BY DEF ApplyFileAppend, ServerUnmoved, serverVars, viewVars
<1>1. EventsComplete'
  BY <1>0, <1>u DEF EventsComplete
<1>. SUFFICES ASSUME Undisturbed'
              PROVE  EpochKnown' /\ AllComes' /\ (pendingAppends' # <<>> => appendDrainScheduled')
  BY <1>1 DEF CompleteInv
<1>2. Undisturbed /\ EpochKnown /\ AllComes /\ (pendingAppends # <<>> => appendDrainScheduled)
  BY <1>0, <1>u DEF Undisturbed
<1>3. EpochKnown'
  BY <1>0, <1>u, <1>2 DEF EpochKnown, CurrentLoad, Stages, Opening, Restoring, Asking
<1>4. AllComes'
  <2>1. reply' = <<>> \/ pc' \notin {"main", "all"} \cup Restoring
    BY <1>u DEF Returned, Restoring
  <2>. SUFFICES ASSUME Following', termFileEpoch = file.epoch
                PROVE  /\ ptyOffset' <= file.size
                       /\ Appending' => ptyOffset' < write'.offset /\ write'.offset <= file.size
                       /\ \/ Shows(file.size)' \/ Comes(file, unsent, events, 0) \/ Follows(file, pendingAppends)
                          \/ ~loaded /\ Follows(file, heldData)
    BY <1>u, <2>1 DEF AllComes
  <2>2. Following
    BY <1>u DEF Following, CurrentLoad, Applying
  <2>3. /\ ptyOffset <= file.size
        /\ Appending => ptyOffset < write.offset /\ write.offset <= file.size
        /\ \/ Shows(file.size) \/ Comes(file, unsent, events, 0) \/ Follows(file, pendingAppends)
           \/ ~loaded /\ Follows(file, heldData)
    BY <1>2, <2>2 DEF AllComes
  <2>4. Shows(file.size) => Shows(file.size)'
    BY <1>u DEF Shows, Appending, Applying, Stale
  <2>5. ~Appending'
    BY <1>u DEF Appending, Returned
  <2> QED
    BY <1>u, <2>3, <2>4, <2>5
<1>5. pendingAppends' # <<>> => appendDrainScheduled'
  BY <1>0, <1>u, <1>2
<1> QED
  BY <1>3, <1>4, <1>5

(* What was fetched reaches the append.                                     *)
LEMMA GotMissingCompletes ==
  ASSUME TermSyncAssumption, ViewInv, CompleteInv, GotMissing
  PROVE  CompleteInv'
<1>0. /\ ViewTypes /\ ServerTypes /\ ScreenTypes /\ ProcessTypes /\ Stages /\ Truncations
      /\ AppendsMade /\ AppendApplies /\ RepliesHold /\ EventsComplete
      /\ (Undisturbed => EpochKnown /\ AllComes /\ (pendingAppends # <<>> => appendDrainScheduled))
  BY DEF ViewInv, ViewTypes, CompleteInv
<1> DEFINE r == reply[1]
<1>u. /\ pc = "missing" /\ reply # <<>> /\ reply' = <<>>
      /\ \/ Stale /\ pc' = Returned /\ write' = write
         \/ ~Stale /\ Data(r).bytes = <<>> /\ pc' = "fresh" /\ write' = write
         \/ ~Stale /\ Data(r).bytes # <<>> /\ pc' = "writeMissing" /\ write' = Data(r)
      /\ UNCHANGED <<file, unsent, events, cache, saves, snapshot, used, fileEpoch, termFileEpoch, ptyOffset, loaded,
                     heldData, pendingAppends, appendDrainScheduled, shown, epoch, append, cached, cut>>
  BY DEF GotMissing, ServerUnmoved, serverVars, viewVars
<1>1. EventsComplete'
  BY <1>0, <1>u DEF EventsComplete
<1>. SUFFICES ASSUME Undisturbed'
              PROVE  EpochKnown' /\ AllComes' /\ (pendingAppends' # <<>> => appendDrainScheduled')
  BY <1>1 DEF CompleteInv
<1>2. Undisturbed /\ EpochKnown /\ AllComes /\ (pendingAppends # <<>> => appendDrainScheduled)
  BY <1>0, <1>u DEF Undisturbed
<1>3. EpochKnown'
  BY <1>0, <1>u, <1>2 DEF EpochKnown, CurrentLoad, Stages, Opening, Restoring, Asking
<1>4. AllComes'
  <2>1. reply' = <<>> \/ pc' \notin {"main", "all"} \cup Restoring
    BY <1>u DEF Returned, Restoring
  <2>. SUFFICES ASSUME Following', termFileEpoch = file.epoch
                PROVE  /\ ptyOffset' <= file.size
                       /\ Appending' => ptyOffset' < write'.offset /\ write'.offset <= file.size
                       /\ \/ Shows(file.size)' \/ Comes(file, unsent, events, 0) \/ Follows(file, pendingAppends)
                          \/ ~loaded /\ Follows(file, heldData)
    BY <1>u, <2>1 DEF AllComes
  <2>2. Following
    BY <1>u DEF Following, CurrentLoad, Applying
  <2>3. /\ ptyOffset <= file.size
        /\ Appending => ptyOffset < write.offset /\ write.offset <= file.size
        /\ \/ Shows(file.size) \/ Comes(file, unsent, events, 0) \/ Follows(file, pendingAppends)
           \/ ~loaded /\ Follows(file, heldData)
    BY <1>2, <2>2 DEF AllComes
  <2>4. Shows(file.size) => Shows(file.size)'
    BY <1>u DEF Shows, Appending, Applying, Stale
  <2>5. ASSUME Appending' PROVE ptyOffset < write'.offset /\ write'.offset <= file.size
    <3>1. ~Stale /\ write' = Data(r)
      BY <1>u, <2>5 DEF Appending, Returned
    <3>2. /\ append.epoch = termFileEpoch /\ append.from < append.to /\ ptyOffset < append.from
          /\ r.epoch <= file.epoch /\ termFileEpoch <= r.epoch
          /\ (r.epoch = file.epoch => r.size <= file.size)
          /\ (r.epoch = append.epoch => append.to <= r.size)
      BY <1>0, <1>u, <3>1 DEF RepliesHold, Fetches, Answers, AppendApplies, Applying, WasMade
    <3>3. /\ r.epoch \in Nat /\ file.epoch \in Nat /\ r.size \in Nat /\ ptyOffset \in Nat
          /\ append.from \in Nat /\ append.to \in Nat
      BY <1>0, <1>u, Typed
    <3>4. write'.offset = r.size
      BY <3>1 DEF Data
    <3>5. r.epoch = file.epoch
      BY <3>2, <3>3
    <3> QED
      BY <3>2, <3>3, <3>4, <3>5
  <2> QED
    BY <1>u, <2>3, <2>4, <2>5
<1>5. pendingAppends' # <<>> => appendDrainScheduled'
  BY <1>0, <1>u, <1>2
<1> QED
  BY <1>3, <1>4, <1>5

(* What is left of the append is written, or nothing is left.               *)
LEMMA WriteFreshCompletes ==
  ASSUME TermSyncAssumption, ViewInv, CompleteInv, WriteFresh
  PROVE  CompleteInv'
<1>0. /\ ViewTypes /\ ServerTypes /\ ScreenTypes /\ ProcessTypes /\ Stages /\ Truncations
      /\ AppendsMade /\ AppendApplies /\ RepliesHold /\ EventsComplete
      /\ (Undisturbed => EpochKnown /\ AllComes /\ (pendingAppends # <<>> => appendDrainScheduled))
  BY DEF ViewInv, ViewTypes, CompleteInv
<1> DEFINE from == Larger(append.from, ptyOffset)
<1>u. /\ pc = "fresh"
      /\ \/ (Stale \/ from >= append.to) /\ pc' = Returned /\ write' = write
         \/ /\ ~Stale /\ ~(from >= append.to) /\ pc' = "writeFresh"
            /\ write' = [bytes |-> Bytes(append.epoch, from, append.to), offset |-> append.to]
      /\ UNCHANGED <<file, unsent, events, cache, saves, snapshot, used, fileEpoch, termFileEpoch, ptyOffset, loaded,
                     heldData, pendingAppends, appendDrainScheduled, shown, epoch, append, cached, reply, cut>>
  BY DEF WriteFresh, Fresh, ServerUnmoved, serverVars, viewVars
<1>1. EventsComplete'
  BY <1>0, <1>u DEF EventsComplete
<1>. SUFFICES ASSUME Undisturbed'
              PROVE  EpochKnown' /\ AllComes' /\ (pendingAppends' # <<>> => appendDrainScheduled')
  BY <1>1 DEF CompleteInv
<1>2. Undisturbed /\ EpochKnown /\ AllComes /\ (pendingAppends # <<>> => appendDrainScheduled)
  BY <1>0, <1>u DEF Undisturbed
<1>3. EpochKnown'
  BY <1>0, <1>u, <1>2 DEF EpochKnown, CurrentLoad, Stages, Opening, Restoring, Asking
<1>4. AllComes'
  <2>1. reply' = <<>> \/ pc' \notin {"main", "all"} \cup Restoring
    BY <1>u DEF Returned, Restoring
  <2>. SUFFICES ASSUME Following', termFileEpoch = file.epoch
                PROVE  /\ ptyOffset' <= file.size
                       /\ Appending' => ptyOffset' < write'.offset /\ write'.offset <= file.size
                       /\ \/ Shows(file.size)' \/ Comes(file, unsent, events, 0) \/ Follows(file, pendingAppends)
                          \/ ~loaded /\ Follows(file, heldData)
    BY <1>u, <2>1 DEF AllComes
  <2>2. Following
    BY <1>u DEF Following, CurrentLoad, Applying
  <2>3. /\ ptyOffset <= file.size
        /\ Appending => ptyOffset < write.offset /\ write.offset <= file.size
        /\ \/ Shows(file.size) \/ Comes(file, unsent, events, 0) \/ Follows(file, pendingAppends)
           \/ ~loaded /\ Follows(file, heldData)
    BY <1>2, <2>2 DEF AllComes
  <2>c. /\ append.from \in Nat /\ append.to \in Nat /\ ptyOffset \in Nat /\ file.size \in Nat
    BY <1>0, Typed
  <2>a. ~Stale => append.to <= file.size /\ append.from < append.to
    BY <1>0, <1>u DEF AppendApplies, Applying, WasMade
  <2>f. from \in Nat /\ ptyOffset <= from /\ (from = append.from \/ from = ptyOffset)
    BY <2>c DEF Larger
  <2>. HIDE DEF from
  <2>4. ASSUME Shows(file.size) PROVE Shows(file.size)'
    <3>1. ptyOffset = file.size \/ (~Stale /\ append.to = file.size)
      BY <1>u, <2>4 DEF Shows, Appending, Applying
    <3>2. CASE ptyOffset = file.size
      BY <1>u, <3>2 DEF Shows
    <3>3. CASE ~Stale /\ append.to = file.size /\ from >= append.to
      <4>1. ptyOffset = file.size
        BY <2>3, <2>a, <2>c, <2>f, <3>3
      <4> QED
        BY <1>u, <4>1 DEF Shows
    <3>4. CASE ~Stale /\ append.to = file.size /\ ~(from >= append.to)
      BY <1>u, <3>4 DEF Shows, Applying, Stale
    <3> QED
      BY <3>1, <3>2, <3>3, <3>4
  <2>5. ASSUME Appending' PROVE ptyOffset < write'.offset /\ write'.offset <= file.size
    <3>1. ~Stale /\ ~(from >= append.to) /\ write'.offset = append.to
      BY <1>u, <2>5 DEF Appending, Returned
    <3> QED
      BY <2>a, <2>c, <2>f, <3>1
  <2> QED
    BY <1>u, <2>3, <2>4, <2>5
<1>5. pendingAppends' # <<>> => appendDrainScheduled'
  BY <1>0, <1>u, <1>2
<1> QED
  BY <1>3, <1>4, <1>5

(* The offset is the one that was written.                                  *)
LEMMA AppendWrittenCompletes ==
  ASSUME TermSyncAssumption, ViewInv, CompleteInv, AppendWritten
  PROVE  CompleteInv'
<1>0. /\ ViewTypes /\ ServerTypes /\ ScreenTypes /\ ProcessTypes /\ Stages /\ Truncations
      /\ AppendsMade /\ AppendApplies /\ RepliesHold /\ EventsComplete
      /\ (Undisturbed => EpochKnown /\ AllComes /\ (pendingAppends # <<>> => appendDrainScheduled))
  BY DEF ViewInv, ViewTypes, CompleteInv
<1>u. /\ pc \in {"writeMissing", "writeFresh"}
      /\ shown' = shown \o write.bytes /\ ptyOffset' = write.offset /\ write' = NoWrite
      /\ \/ pc = "writeMissing" /\ pc' = "fresh"
         \/ pc = "writeFresh" /\ pc' = Returned
      /\ UNCHANGED <<file, unsent, events, cache, saves, snapshot, used, fileEpoch, termFileEpoch, loaded,
                     heldData, pendingAppends, appendDrainScheduled, epoch, append, cached, reply, cut>>
  BY DEF AppendWritten, Appending, Written, ServerUnmoved, serverVars
<1>1. EventsComplete'
  BY <1>0, <1>u DEF EventsComplete
<1>. SUFFICES ASSUME Undisturbed'
              PROVE  EpochKnown' /\ AllComes' /\ (pendingAppends' # <<>> => appendDrainScheduled')
  BY <1>1 DEF CompleteInv
<1>2. Undisturbed /\ EpochKnown /\ AllComes /\ (pendingAppends # <<>> => appendDrainScheduled)
  BY <1>0, <1>u DEF Undisturbed
<1>3. EpochKnown'
  BY <1>0, <1>u, <1>2 DEF EpochKnown, CurrentLoad, Stages, Opening, Restoring, Asking
<1>4. AllComes'
  <2>1. reply' = <<>> \/ pc' \notin {"main", "all"} \cup Restoring
    BY <1>u DEF Returned, Restoring
  <2>. SUFFICES ASSUME Following', termFileEpoch = file.epoch
                PROVE  /\ ptyOffset' <= file.size
                       /\ Appending' => ptyOffset' < write'.offset /\ write'.offset <= file.size
                       /\ \/ Shows(file.size)' \/ Comes(file, unsent, events, 0) \/ Follows(file, pendingAppends)
                          \/ ~loaded /\ Follows(file, heldData)
    BY <1>u, <2>1 DEF AllComes
  <2>2. Following
    BY <1>u DEF Following, CurrentLoad, Applying
  <2>3. /\ ptyOffset <= file.size
        /\ Appending => ptyOffset < write.offset /\ write.offset <= file.size
        /\ \/ Shows(file.size) \/ Comes(file, unsent, events, 0) \/ Follows(file, pendingAppends)
           \/ ~loaded /\ Follows(file, heldData)
    BY <1>2, <2>2 DEF AllComes
  <2>c. ptyOffset \in Nat /\ write.offset \in Nat /\ file.size \in Nat
    BY <1>0, Typed
  <2>4. ptyOffset < write.offset /\ write.offset <= file.size
    BY <1>u, <2>3 DEF Appending
  <2>5. ~Appending'
    BY <1>u DEF Appending, Returned
  <2>6. ASSUME Shows(file.size) PROVE Shows(file.size)'
    <3>1. CASE ptyOffset' = file.size
      BY <3>1, <1>u DEF Shows
    <3>2. CASE write.offset # file.size
      <4>1. ~Stale /\ append.to = file.size
        BY <1>u, <2>c, <2>4, <2>6, <3>2 DEF Shows
      <4>2. pc = "writeMissing"
        BY <1>0, <1>u, <3>2, <4>1 DEF RepliesHold
      <4> QED
        BY <1>u, <4>1, <4>2 DEF Shows, Applying, Stale
    <3> QED
      BY <1>u, <3>1, <3>2
  <2> QED
    BY <1>u, <2>3, <2>4, <2>5, <2>6
<1>5. pendingAppends' # <<>> => appendDrainScheduled'
  BY <1>0, <1>u, <1>2
<1> QED
  BY <1>3, <1>4, <1>5

(* A failed request is counted as a disturbance.                            *)
LEMMA FetchFailsCompletes ==
  ASSUME TermSyncAssumption, ViewInv, CompleteInv, FetchFails
  PROVE  CompleteInv'
<1>0. /\ ViewTypes /\ ServerTypes /\ ScreenTypes /\ ProcessTypes /\ Stages /\ Truncations
      /\ AppendsMade /\ AppendApplies /\ RepliesHold /\ EventsComplete
      /\ (Undisturbed => EpochKnown /\ AllComes /\ (pendingAppends # <<>> => appendDrainScheduled))
  BY DEF ViewInv, ViewTypes, CompleteInv
<1>u. /\ used' = [used EXCEPT !.fails = used.fails + 1]
      /\ UNCHANGED <<file, unsent, events, cut>>
  BY DEF FetchFails, ServerUnmoved, serverVars
<1>1. EventsComplete'
  <2>1. used'.lost = used.lost
    BY <1>0, <1>u DEF ServerTypes, Bound
  <2> QED
    BY <1>0, <1>u, <2>1 DEF EventsComplete
<1>2. ~Undisturbed'
  BY <1>0, <1>u DEF Undisturbed, ServerTypes, Bound
<1> QED
  BY <1>1, <1>2 DEF CompleteInv

(* A snapshot is not about what comes.                                      *)
LEMMA ProcessAndCacheDataCompletes ==
  ASSUME TermSyncAssumption, ViewInv, CompleteInv, ProcessAndCacheData
  PROVE  CompleteInv'
<1>0. /\ ViewTypes /\ ServerTypes /\ ScreenTypes /\ ProcessTypes /\ Stages /\ Truncations
      /\ AppendsMade /\ AppendApplies /\ RepliesHold /\ EventsComplete
      /\ (Undisturbed => EpochKnown /\ AllComes /\ (pendingAppends # <<>> => appendDrainScheduled))
  BY DEF ViewInv, ViewTypes, CompleteInv
<1>u. /\ used' = [used EXCEPT !.saves = used.saves + 1]
      /\ UNCHANGED <<file, unsent, events, fileEpoch, termFileEpoch, ptyOffset, loaded, heldData, pendingAppends,
                     appendDrainScheduled, shown, pc, epoch, append, cached, reply, write, cut>>
  BY DEF ProcessAndCacheData, serverVars, viewVars, procVars
<1>v. used'.lost = used.lost /\ used'.fails = used.fails
  BY <1>0, <1>u DEF ServerTypes, Bound
<1>1. EventsComplete'
  BY <1>0, <1>u, <1>v DEF EventsComplete
<1>. SUFFICES ASSUME Undisturbed'
              PROVE  EpochKnown' /\ AllComes' /\ (pendingAppends' # <<>> => appendDrainScheduled')
  BY <1>1 DEF CompleteInv
<1>2. Undisturbed /\ EpochKnown /\ AllComes /\ (pendingAppends # <<>> => appendDrainScheduled)
  BY <1>0, <1>u, <1>v DEF Undisturbed
<1>3. EpochKnown'
  BY <1>0, <1>u, <1>2 DEF EpochKnown, CurrentLoad, Stages, Opening, Restoring, Asking
<1>4. AllComes'
  BY <1>0, <1>u, <1>2 DEF AllComes, CurrentLoad, Following, Shows, Appending, Applying, Stale, Stages, Opening, Restoring, Asking
<1>5. pendingAppends' # <<>> => appendDrainScheduled'
  BY <1>0, <1>u, <1>2
<1> QED
  BY <1>3, <1>4, <1>5

(* Neither is one that is sent.                                             *)
LEMMA SendSaveCompletes ==
  ASSUME TermSyncAssumption, ViewInv, CompleteInv, SendSave
  PROVE  CompleteInv'
<1>0. /\ ViewTypes /\ ServerTypes /\ ScreenTypes /\ ProcessTypes /\ Stages /\ Truncations
      /\ AppendsMade /\ AppendApplies /\ RepliesHold /\ EventsComplete
      /\ (Undisturbed => EpochKnown /\ AllComes /\ (pendingAppends # <<>> => appendDrainScheduled))
  BY DEF ViewInv, ViewTypes, CompleteInv
<1>u. UNCHANGED <<file, unsent, events, used, fileEpoch, termFileEpoch, ptyOffset, loaded, heldData, pendingAppends,
                     appendDrainScheduled, shown, pc, epoch, append, cached, reply, write, cut>>
  BY DEF SendSave, serverVars, viewVars, procVars
<1>1. EventsComplete'
  BY <1>0, <1>u DEF EventsComplete
<1>. SUFFICES ASSUME Undisturbed'
              PROVE  EpochKnown' /\ AllComes' /\ (pendingAppends' # <<>> => appendDrainScheduled')
  BY <1>1 DEF CompleteInv
<1>2. Undisturbed /\ EpochKnown /\ AllComes /\ (pendingAppends # <<>> => appendDrainScheduled)
  BY <1>0, <1>u DEF Undisturbed
<1>3. EpochKnown'
  BY <1>0, <1>u, <1>2 DEF EpochKnown, CurrentLoad, Stages, Opening, Restoring, Asking
<1>4. AllComes'
  BY <1>0, <1>u, <1>2 DEF AllComes, CurrentLoad, Following, Shows, Appending, Applying, Stale, Stages, Opening, Restoring, Asking
<1>5. pendingAppends' # <<>> => appendDrainScheduled'
  BY <1>0, <1>u, <1>2
<1> QED
  BY <1>3, <1>4, <1>5

(* A view that is opened again knows nothing yet.                           *)
LEMMA OpenCompletes ==
  ASSUME TermSyncAssumption, ViewInv, CompleteInv, Open
  PROVE  CompleteInv'
<1>0. /\ ViewTypes /\ ServerTypes /\ ScreenTypes /\ ProcessTypes /\ Stages /\ Truncations
      /\ AppendsMade /\ AppendApplies /\ RepliesHold /\ EventsComplete
      /\ (Undisturbed => EpochKnown /\ AllComes /\ (pendingAppends # <<>> => appendDrainScheduled))
  BY DEF ViewInv, ViewTypes, CompleteInv
<1>u. /\ fileEpoch' = 0 /\ termFileEpoch' = 0 /\ ptyOffset' = 0 /\ loaded' = FALSE
      /\ heldData' = <<>> /\ pendingAppends' = <<>> /\ appendDrainScheduled' = FALSE /\ shown' = <<>>
      /\ pc' = "cache" /\ epoch' = 0 /\ append' = NoAppend /\ cached' = NoScreen /\ reply' = <<>> /\ write' = NoWrite
      /\ snapshot' = <<>> /\ cut' = FALSE
      /\ UNCHANGED <<file, unsent, cache, events, saves>>
      /\ used' = [used EXCEPT !.opens = used.opens + 1]
  BY DEF Open, serverVars
<1>v. used'.lost = used.lost /\ used'.fails = used.fails
  BY <1>0, <1>u DEF ServerTypes, Bound
<1>1. EventsComplete'
  BY <1>0, <1>u, <1>v DEF EventsComplete
<1>2. EpochKnown' /\ AllComes' /\ (pendingAppends' # <<>> => appendDrainScheduled')
  BY <1>u DEF EpochKnown, AllComes, CurrentLoad, Following, Applying
<1> QED
  BY <1>1, <1>2 DEF CompleteInv

-----------------------------------------------------------------------------
(* All of it                                                                *)

(* It holds when all begins.                                                *)
LEMMA ViewBegins ==
  ASSUME TermSyncAssumption, TermInit
  PROVE  ViewInv /\ CompleteInv
<1>1. /\ file = [epoch |-> 0, size |-> 0] /\ unsent = <<>> /\ cache = NoScreen
      /\ events = <<>> /\ saves = {} /\ snapshot = <<>>
      /\ cut = FALSE /\ used = [lost |-> 0, saves |-> 0, fails |-> 0, opens |-> 0]
      /\ fileEpoch = 0 /\ termFileEpoch = 0 /\ ptyOffset = 0 /\ loaded = FALSE
      /\ heldData = <<>> /\ pendingAppends = <<>> /\ appendDrainScheduled = FALSE /\ shown = <<>>
      /\ pc = "cache" /\ epoch = 0 /\ append = NoAppend /\ cached = NoScreen /\ reply = <<>> /\ write = NoWrite
  BY DEF TermInit, ViewInit
<1>2. /\ 0 \in Epochs /\ 0 \in Positions /\ NoAppend \in AppendRec /\ NoScreen \in ScreenSave
      /\ NoWrite \in XtermWrite /\ <<>> \in Screen
  BY InRange
<1>3. \A S : <<>> \in Seq(S) /\ Len(<<>>) = 0
  OBVIOUS
<1>4. StandsFor(file, NoScreen)
  BY <1>1, EmptyFits DEF StandsFor, NoScreen
<1>5. ServerTypes
  BY <1>1, <1>2, <1>3 DEF ServerTypes, FileState, Bound
<1>6. ScreenTypes
  <2>1. fileEpoch \in Epochs /\ termFileEpoch \in Epochs /\ ptyOffset \in Positions
    BY <1>1, <1>2
  <2>2. loaded \in BOOLEAN /\ appendDrainScheduled \in BOOLEAN /\ cut \in BOOLEAN
    BY <1>1
  <2>3. /\ heldData \in Seq(AppendRec) /\ pendingAppends \in Seq(AppendRec)
        /\ snapshot \in Seq(Snapshot) /\ Len(snapshot) <= 1 /\ shown \in Screen
    BY <1>1, <1>2
  <2> QED
    BY <2>1, <2>2, <2>3 DEF ScreenTypes
<1>7. ProcessTypes
  BY <1>1, <1>2, <1>3 DEF ProcessTypes, Asking
<1>8. Stages /\ Truncations /\ AppendsMade /\ RepliesHold
  BY <1>1, <1>3 DEF Stages, Opening, Asking, Restoring, Truncations, AppendsMade, RepliesHold
<1>9. AppendApplies
  BY <1>1 DEF AppendApplies, Applying, NoAppend
<1>10. SavesStand
  BY <1>1, <1>3, <1>4 DEF SavesStand
<1>11. Showing
  BY <1>1, EmptyFits DEF Showing, Appending, Restoring
<1>12. CompleteInv
  BY <1>1, <1>3 DEF CompleteInv, EventsComplete, EpochKnown, AllComes, CurrentLoad, Following, Applying
<1> QED
  BY <1>5, <1>6, <1>7, <1>8, <1>9, <1>10, <1>11, <1>12 DEF ViewInv, ViewTypes

(* ... after every step, ...                                                *)
LEMMA ViewGoesOn ==
  ASSUME TermSyncAssumption, ViewInv, CompleteInv, TermNext
  PROVE  ViewInv' /\ CompleteInv'
<1>1. ASSUME NEW n \in 1 .. 2, AppendData(n) PROVE ViewInv' /\ CompleteInv'
  BY <1>1, AppendDataKeeps, AppendDataCompletes
<1>2. CASE Publish
  BY <1>2, PublishKeeps, PublishCompletes
<1>3. CASE Truncate
  BY <1>3, TruncateKeeps, TruncateCompletes
<1>4. ASSUME NEW s \in saves, SaveTerminalState(s) PROVE ViewInv' /\ CompleteInv'
  BY <1>4, SaveTerminalStateKeeps, SaveTerminalStateCompletes
<1>5. CASE HandleTruncate
  BY <1>5, HandleTruncateKeeps, HandleTruncateCompletes
<1>6. CASE HandleAppend
  BY <1>6, HandleAppendKeeps, HandleAppendCompletes
<1>7. CASE Serve
  BY <1>7, ServeKeeps, ServeCompletes
<1>8. CASE GotCache
  BY <1>8, GotCacheKeeps, GotCacheCompletes
<1>9. CASE GotMain
  BY <1>9, GotMainKeeps, GotMainCompletes
<1>10. CASE GotAll
  BY <1>10, GotAllKeeps, GotAllCompletes
<1>11. CASE CacheWritten
  BY <1>11, CacheWrittenKeeps, CacheWrittenCompletes
<1>12. CASE MainWritten
  BY <1>12, MainWrittenKeeps, MainWrittenCompletes
<1>13. CASE Drain
  BY <1>13, DrainKeeps, DrainCompletes
<1>14. CASE TakePending
  BY <1>14, TakePendingKeeps, TakePendingCompletes
<1>15. CASE ApplyFileAppend
  BY <1>15, ApplyFileAppendKeeps, ApplyFileAppendCompletes
<1>16. CASE GotMissing
  BY <1>16, GotMissingKeeps, GotMissingCompletes
<1>17. CASE WriteFresh
  BY <1>17, WriteFreshKeeps, WriteFreshCompletes
<1>18. CASE AppendWritten
  BY <1>18, AppendWrittenKeeps, AppendWrittenCompletes
<1>19. CASE FetchFails
  BY <1>19, FetchFailsKeeps, FetchFailsCompletes
<1>20. CASE ProcessAndCacheData
  BY <1>20, ProcessAndCacheDataKeeps, ProcessAndCacheDataCompletes
<1>21. CASE SendSave
  BY <1>21, SendSaveKeeps, SendSaveCompletes
<1>22. CASE Open
  BY <1>22, OpenKeeps, OpenCompletes
<1> QED
  BY <1>1, <1>2, <1>3, <1>4, <1>5, <1>6, <1>7, <1>8, <1>9, <1>10, <1>11, <1>12, <1>13, <1>14, <1>15, <1>16,
     <1>17, <1>18, <1>19, <1>20, <1>21, <1>22 DEF TermNext, Process

(* ... and while nothing happens.                                           *)
LEMMA ViewRests ==
  ASSUME ViewInv, CompleteInv, UNCHANGED termVars
  PROVE  ViewInv' /\ CompleteInv'
<1>1. UNCHANGED <<file, unsent, cache, events, saves, snapshot, fileEpoch, termFileEpoch, ptyOffset, loaded,
                  heldData, pendingAppends, appendDrainScheduled, shown, pc, epoch, append, cached, reply,
                  write, cut, used>>
  BY DEF termVars, serverVars, viewVars, procVars
<1>2. ServerTypes' /\ ScreenTypes' /\ ProcessTypes'
  BY <1>1 DEF ViewInv, ViewTypes, ServerTypes, ScreenTypes, ProcessTypes
<1>3. Stages' /\ Truncations'
  BY <1>1 DEF ViewInv, Stages, Truncations
<1>4. AppendsMade' /\ AppendApplies'
  BY <1>1 DEF ViewInv, AppendsMade, AppendApplies, Waits, Stale
<1>5. SavesStand'
  BY <1>1 DEF ViewInv, SavesStand
<1>6. RepliesHold'
  BY <1>1 DEF ViewInv, RepliesHold, Loads, Fetches, Stale
<1>7. ~cut' => Showing'
  BY <1>1 DEF ViewInv, Showing, Appending, NotShownYet, Stale
<1>8. CompleteInv'
  BY <1>1 DEF CompleteInv, EventsComplete, Undisturbed, EpochKnown, AllComes, CurrentLoad, Following, Shows,
              Appending, Stale
<1> QED
  BY <1>2, <1>3, <1>4, <1>5, <1>6, <1>7, <1>8 DEF ViewInv, ViewTypes

(* What it says of the properties of TermSync.                              *)
LEMMA ViewMeans ==
  ASSUME TermSyncAssumption, ViewInv, CompleteInv
  PROVE  TermTypeOK /\ ShownIsFile /\ CacheIsFile /\ AllIsShown
<1>0. /\ ViewTypes /\ ServerTypes /\ ScreenTypes /\ ProcessTypes /\ Stages /\ SavesStand /\ (~cut => Showing)
      /\ EventsComplete
      /\ (Undisturbed => EpochKnown /\ AllComes /\ (pendingAppends # <<>> => appendDrainScheduled))
  BY DEF ViewInv, ViewTypes, CompleteInv
<1>1. TermTypeOK
  BY <1>0 DEF TermTypeOK, ServerTypes, ScreenTypes, ProcessTypes, FileState, ScreenSave, Asking, Restoring, Applying
<1>2. ShownIsFile
  <2>. SUFFICES ASSUME ViewSettled, ~cut PROVE Faithful(shown, file.epoch, ptyOffset)
    BY DEF ShownIsFile
  <2>1. IsFaithful(file, shown, file.epoch, ptyOffset) /\ shown \in Screen
    BY <1>0 DEF ViewSettled, Showing, Restoring, Fits, ScreenTypes
  <2> QED
    BY <2>1, FaithfulIs
<1>3. CacheIsFile
  <2>. SUFFICES ASSUME ~cache.cut, cache.epoch = file.epoch
                PROVE  Faithful(cache.screen, file.epoch, cache.offset)
    BY DEF CacheIsFile
  <2>1. IsFaithful(file, cache.screen, file.epoch, cache.offset) /\ cache.screen \in Screen
    BY <1>0 DEF SavesStand, StandsFor, Fits, ServerTypes, ScreenSave
  <2> QED
    BY <2>1, FaithfulIs
<1>4. AllIsShown
  <2>. SUFFICES ASSUME ViewSettled, ~cut, ~appendDrainScheduled, events = <<>>, unsent = <<>>,
                       used.lost = 0, used.fails = 0
                PROVE  ptyOffset = file.size
    BY DEF AllIsShown
  <2>1. AllComes /\ pendingAppends = <<>>
    BY <1>0 DEF Undisturbed
  <2>2. \/ Shows(file.size) \/ Comes(file, unsent, events, 0) \/ Follows(file, pendingAppends)
        \/ ~loaded /\ Follows(file, heldData)
    BY <2>1 DEF AllComes, Following, ViewSettled
  <2>3. ~Comes(file, unsent, events, 0) /\ ~Follows(file, pendingAppends)
    BY <2>1 DEF Comes, Follows
  <2> QED
    BY <2>2, <2>3 DEF Shows, ViewSettled, Appending, Applying
<1> QED
  BY <1>1, <1>2, <1>3, <1>4

(* The invariants of the view hold in every state.                          *)
LEMMA ViewHolds == ASSUME TermSyncAssumption PROVE TermSpec => [](ViewInv /\ CompleteInv)
<1>1. TermInit => ViewInv /\ CompleteInv
  BY ViewBegins
<1>2. ViewInv /\ CompleteInv /\ [TermNext]_termVars => (ViewInv /\ CompleteInv)'
  BY ViewGoesOn, ViewRests
<1> QED
  BY <1>1, <1>2, PTL DEF TermSpec

(* Every variable of the view, the file and the requests keeps its type.    *)
THEOREM ViewTypeCorrect == ASSUME TermSyncAssumption PROVE TermSpec => []TermTypeOK
<1>1. ViewInv /\ CompleteInv => TermTypeOK
  BY ViewMeans
<1> QED
  BY <1>1, ViewHolds, PTL

(* A settled terminal shows the bytes of its file in order, each once and   *)
(* none left out, whatever was loaded, appended, truncated, lost or failed  *)
(* before (termwrap.ts), unless a truncation found an append being written. *)
THEOREM ViewShowsFile == ASSUME TermSyncAssumption PROVE TermSpec => []ShownIsFile
<1>1. ViewInv /\ CompleteInv => ShownIsFile
  BY ViewMeans
<1> QED
  BY <1>1, ViewHolds, PTL

(* The cached screen stands for the file up to its offset, however late the *)
(* save arrived and whichever view it was that sent it.                     *)
THEOREM CacheStandsForFile == ASSUME TermSyncAssumption PROVE TermSpec => []CacheIsFile
<1>1. ViewInv /\ CompleteInv => CacheIsFile
  BY ViewMeans
<1> QED
  BY <1>1, ViewHolds, PTL

(* When no event was lost and no request failed, a settled terminal with no *)
(* event on its way has shown the whole file.                               *)
THEOREM ViewShowsAll == ASSUME TermSyncAssumption PROVE TermSpec => []AllIsShown
<1>1. ViewInv /\ CompleteInv => AllIsShown
  BY ViewMeans
<1> QED
  BY <1>1, ViewHolds, PTL

-----------------------------------------------------------------------------
(* WindowQueue: what always holds                                           *)

(* What a variable that names a tab may be, and where the main process may  *)
(* be in its queue.                                                         *)
TabIds == Tabs \cup {NoTab}
Steps == {Idle, Looping, Calling, Loading} \cup {Reply(r) : r \in TabIds \cup {Null, Failed}}

(* The types of all variables. The view of the window, once there is one,   *)
(* is of the active tab.                                                    *)
WindowTypes ==
  /\ tabs \in [Workspaces -> Seq(usedTabs)] /\ usedTabs \subseteq Tabs
  /\ active \in [Workspaces -> TabIds]
  /\ home \in Workspaces \cup {NoWs} /\ workspaceId \in Workspaces /\ asking \in Workspaces \cup {NoWs}
  /\ activeTabId \in TabIds /\ savedTabId \in {NoTab, activeTabId} /\ shownTabId \in TabIds
  /\ queue \in Seq(Entries) /\ Len(queue) <= 2
  /\ proc \in Steps /\ (proc # Idle => queue # <<>>)
  /\ known \in Seq(Tabs) /\ echoes \in Seq(TabIds) /\ updates \in Seq(Seq(Tabs))
  /\ exits \in Seq([ws : Workspaces, tab : TabIds])
  /\ ops \in Nat /\ fails \in Nat /\ gone \in Nat /\ crossed \in BOOLEAN /\ strayed \in BOOLEAN

(* The window opens: its first tab has to be shown.                         *)
Opens ==
  /\ queue = <<[op |-> "switchtab", tab |-> active[Home], set |-> FALSE, own |-> FALSE]>>
  /\ proc = Looping /\ home = Home /\ workspaceId = Home
  /\ activeTabId = NoTab /\ savedTabId = NoTab /\ shownTabId = NoTab
  /\ asking = NoWs /\ echoes = <<>> /\ updates = <<>>

(* The backend has answered the call of the round.                          *)
Replied == proc.at = "reply"
Succeeds == Replied /\ proc.result \notin {Null, Failed}

(* A tab the user has clicked.                                              *)
Click(e) == e.op = "switchtab" /\ e.set /\ e.own

(* The main process and the backend agree.                                  *)
Agreed == workspaceId = home /\ activeTabId = active[home]

(* A call that succeeded has changed the backend, and the main process does *)
(* not know.                                                                *)
Answered ==
  /\ active[home] = proc.result
  /\ IF Head(queue).op = "switchworkspace" THEN home = Head(queue).ws ELSE workspaceId = home
  /\ Head(queue).op = "switchtab" => Head(queue).tab = proc.result

(* What the main process knows. Only tabs the user clicked are switched to, *)
(* but for the first one, and while a call waits or runs there is a view.   *)
MainInv ==
  /\ exits = <<>>
  /\ (savedTabId = NoTab) = (Opens \/ proc = Loading)
  /\ savedTabId = NoTab => shownTabId = NoTab /\ echoes = <<>>
  /\ Succeeds => proc.result # NoTab
  /\ \A i \in 1 .. Len(queue) : queue[i].op = "switchtab" =>
       (Click(queue[i]) /\ queue[i].tab \in Tabs) \/ (i = 1 /\ (Opens \/ proc = Loading))
  /\ home # NoWs =>
       /\ \A w \in Workspaces : active[w] \in Tabs
       /\ Opens \/ IF Succeeds THEN Answered ELSE Agreed
       /\ Replied /\ proc.result = Null => Head(queue).op = "switchworkspace"

(* The main process will tell the renderer where the window is.             *)
WillTell == Succeeds /\ Head(queue).op \in {"closetab", "switchworkspace"}

(* The tabs the renderer knows once all updates reached it.                 *)
NewestList(list) == (IF updates = <<>> THEN known ELSE updates[Len(updates)]) = list

(* What the renderer shows: the last echo that is under way, or what it     *)
(* shows itself, is a tab of the workspace.                                 *)
ShownInv ==
  /\ \A w \in Workspaces : Contains(tabs[w], active[w])
  /\ shownTabId = NoTab => savedTabId = NoTab /\ echoes = <<>>
  /\ \A i \in 1 .. Len(echoes) : echoes[i] # NoTab
  /\ \A i \in 1 .. Len(updates) : updates[i] # <<>>
  /\ shownTabId # NoTab =>
       /\ NewestList(tabs[home])
       /\ \/ WillTell
          \/ /\ echoes # <<>> => Contains(tabs[home], echoes[Len(echoes)])
             /\ echoes = <<>> /\ updates = <<>> => Contains(tabs[home], shownTabId)

(* There are only clicks in the queue.                                      *)
AllClicks == \A i \in 1 .. Len(queue) : Click(queue[i])

(* What the renderer shows is what was clicked last, what the last echo     *)
(* says, or the active tab.                                                 *)
Agrees ==
  IF queue = <<>> THEN echoes = <<activeTabId>> \/ (echoes = <<>> /\ shownTabId = activeTabId)
  ELSE echoes = <<>> /\ IF AllClicks THEN shownTabId = queue[Len(queue)].tab
                        ELSE Succeeds \/ (updates = <<>> /\ shownTabId = activeTabId)

(* While nothing crossed a click the queue holds clicks, or one action of   *)
(* another kind.                                                            *)
UncrossedInv ==
  /\ ~strayed
  /\ proc = Idle => queue = <<>>
  /\ Len(queue) = 1 \/ (AllClicks /\ proc # Loading)
  /\ \A i \in 1 .. Len(queue) : queue[i].op = "switchtab" => Contains(tabs[home], queue[i].tab)
  /\ shownTabId # NoTab => Agrees /\ \A i \in 1 .. Len(updates) : updates[i] = tabs[home]

(* What the properties leave out, a part of the invariant leaves out too.   *)
WindowInv ==
  /\ WindowTypes
  /\ gone = 0 => MainInv
  /\ gone = 0 /\ home # NoWs /\ ~strayed => ShownInv
  /\ gone = 0 /\ home # NoWs /\ ~crossed => UncrossedInv

-----------------------------------------------------------------------------
(* Lists of tabs                                                            *)

(* The position of an element that is in a list.                            *)
LEMMA IndexOfIs ==
  ASSUME NEW S, NEW q \in Seq(S), NEW e
  PROVE  /\ IndexOf(q, e) \in 0 .. Len(q) /\ Len(q) \in Nat
         /\ Contains(q, e) => IndexOf(q, e) \in 1 .. Len(q) /\ q[IndexOf(q, e)] = e
<1>1. ASSUME Contains(q, e) PROVE IndexOf(q, e) \in 1 .. Len(q) /\ q[IndexOf(q, e)] = e
  BY <1>1 DEF IndexOf, Contains
<1>2. ASSUME ~Contains(q, e) PROVE IndexOf(q, e) = 0
  BY <1>2 DEF IndexOf
<1> QED
  BY <1>1, <1>2

(* A list without an element keeps the others.                              *)
LEMMA WithoutIs ==
  ASSUME NEW S, NEW q \in Seq(S), NEW e, Contains(q, e)
  PROVE  /\ Without(q, e) \in Seq(S)
         /\ \A x : Contains(q, x) /\ x # e => Contains(Without(q, e), x)
<1> DEFINE k == IndexOf(q, e)
           a == SubSeq(q, 1, k - 1)
           b == SubSeq(q, k + 1, Len(q))
<1>1. k \in 1 .. Len(q) /\ q[k] = e /\ Len(q) \in Nat
  BY IndexOfIs
<1> HIDE DEF k
<1>2. /\ a \in Seq(S) /\ Len(a) = k - 1 /\ \A i \in 1 .. k - 1 : a[i] = q[i]
      /\ b \in Seq(S) /\ Len(b) = Len(q) - k /\ \A i \in 1 .. Len(q) - k : b[i] = q[i + k]
  BY <1>1
<1> HIDE DEF a, b
<1>3. /\ a \o b \in Seq(S) /\ Len(a \o b) = Len(q) - 1
      /\ \A i \in 1 .. k - 1 : (a \o b)[i] = q[i]
      /\ \A i \in 1 .. Len(q) - k : (a \o b)[k - 1 + i] = q[i + k]
  <2>1. /\ a \o b \in Seq(S) /\ Len(a \o b) = Len(a) + Len(b)
        /\ \A i \in 1 .. Len(a) : (a \o b)[i] = a[i]
        /\ \A i \in 1 .. Len(b) : (a \o b)[Len(a) + i] = b[i]
    <3>1. a \in Seq(S) /\ b \in Seq(S)
      BY <1>2
    <3> QED
      BY <3>1, ConcatIs
  <2> QED
    BY <1>1, <1>2, <2>1
<1>4. Without(q, e) = a \o b
  BY DEF Without, RemoveAt, a, b, k
<1>5. ASSUME NEW x, Contains(q, x), x # e PROVE Contains(Without(q, e), x)
  <2>1. PICK i \in 1 .. Len(q) : q[i] = x
    BY <1>5 DEF Contains
  <2>2. CASE i < k
    <3>1. i \in 1 .. k - 1 /\ i \in 1 .. Len(q) - 1
      BY <1>1, <2>1, <2>2
    <3>2. i \in 1 .. Len(a \o b) /\ (a \o b)[i] = x
      BY <1>3, <2>1, <3>1
    <3> QED
      BY <1>4, <3>2 DEF Contains
  <2>3. CASE i > k
    <3>1. /\ i - k \in 1 .. Len(q) - k /\ k - 1 + (i - k) = i - 1 /\ (i - k) + k = i
          /\ i - 1 \in 1 .. Len(q) - 1
      BY <1>1, <2>1, <2>3
    <3>2. (a \o b)[k - 1 + (i - k)] = q[(i - k) + k]
      BY <1>3, <3>1
    <3>3. i - 1 \in 1 .. Len(a \o b) /\ (a \o b)[i - 1] = x
      BY <1>3, <2>1, <3>1, <3>2
    <3> QED
      BY <1>4, <3>3 DEF Contains
  <2> QED
    BY <1>1, <1>5, <2>1, <2>2, <2>3
<1> QED
  BY <1>3, <1>4, <1>5

(* The neighbour of a closed element is in what is left, if anything is.    *)
LEMMA NeighbourIs ==
  ASSUME NEW S, NEW q \in Seq(S), NEW r \in Seq(S), NEW e
  PROVE  /\ r = <<>> => Neighbour(q, r, e) = NoTab
         /\ r # <<>> => Neighbour(q, r, e) \in S /\ Contains(r, Neighbour(q, r, e))
<1> DEFINE i == IndexOf(q, e) - 1
           j == IF i < Len(r) THEN i ELSE Len(r)
           m == IF j < 1 THEN 1 ELSE j
<1>1. IndexOf(q, e) \in 0 .. Len(q) /\ Len(q) \in Nat /\ Len(r) \in Nat
  BY IndexOfIs
<1>2. ASSUME r # <<>> PROVE m \in 1 .. Len(r)
  <2>1. Len(r) \in Nat \ {0} /\ i \in Int
    BY <1>1, <1>2
  <2> HIDE DEF i
  <2> QED
    BY <2>1
<1>3. ASSUME r # <<>> PROVE Neighbour(q, r, e) = r[m]
  BY <1>3 DEF Neighbour
<1> HIDE DEF m
<1>4. ASSUME r # <<>> PROVE Neighbour(q, r, e) \in S /\ Contains(r, Neighbour(q, r, e))
  BY <1>2, <1>3, <1>4 DEF Contains
<1> QED
  BY <1>4 DEF Neighbour

(* The tab that is shown when a list changes is in the list.                *)
LEMMA TabAfterCloseIs ==
  ASSUME NEW S, NEW q \in Seq(S), NEW r \in Seq(S), NEW e
  PROVE  /\ Contains(r, e) => TabAfterClose(q, r, e) = e
         /\ r # <<>> => TabAfterClose(q, r, e) \in S /\ Contains(r, TabAfterClose(q, r, e))
         /\ r = <<>> => TabAfterClose(q, r, e) = NoTab
<1>1. Contains(r, e) => e \in S
  BY DEF Contains
<1>2. r = <<>> => ~Contains(r, e)
  BY DEF Contains
<1> QED
  BY <1>1, <1>2, NeighbourIs DEF TabAfterClose

(* What is in a list is of its type, and in every longer list.              *)
LEMMA ContainsIs ==
  ASSUME NEW S, NEW q \in Seq(S), NEW e, Contains(q, e)
  PROVE  e \in S /\ q # <<>> /\ \A x \in S : Contains(Append(q, x), e)
<1>1. PICK i \in 1 .. Len(q) : q[i] = e
  BY DEF Contains
<1>2. ASSUME NEW x \in S PROVE Contains(Append(q, x), e)
  <2>1. Len(Append(q, x)) = Len(q) + 1 /\ Append(q, x)[i] = q[i] /\ Len(q) \in Nat
    BY <1>1
  <2> QED
    BY <1>1, <2>1 DEF Contains
<1> QED
  BY <1>1, <1>2

(* The steps of the queue differ.                                           *)
LEMMA StepsAre ==
  /\ {Idle, Looping, Calling, Loading} \subseteq Steps
  /\ \A r \in TabIds \cup {Null, Failed} : Reply(r) \in Steps
  /\ Idle # Looping /\ Idle # Calling /\ Idle # Loading
  /\ Looping # Calling /\ Looping # Loading /\ Calling # Loading
  /\ \A p \in {Idle, Looping, Calling, Loading} : p.at # "reply"
  /\ \A r : Reply(r).at = "reply" /\ Reply(r).result = r /\ Reply(r) \notin {Idle, Looping, Calling, Loading}
  /\ \A p \in Steps : p.at = "reply" => p.result \in TabIds \cup {Null, Failed} /\ p \notin {Idle, Looping, Calling, Loading}
  /\ \A p \in Steps : p.at # "idle" <=> p # Idle
<1>1. /\ Idle.at = "idle" /\ Looping.at = "loop" /\ Calling.at = "call" /\ Loading.at = "load"
      /\ \A r : Reply(r).at = "reply" /\ Reply(r).result = r
  BY DEF Idle, Looping, Calling, Loading, Reply
<1> QED
  BY <1>1 DEF Steps

-----------------------------------------------------------------------------
(* What reaches the queue                                                   *)

(* The length of a list of at most two.                                     *)
LEMMA AtMostTwo ==
  ASSUME NEW S, NEW q \in Seq(S), Len(q) <= 2
  PROVE  /\ Len(q) \in 0 .. 2 /\ (q = <<>> <=> Len(q) = 0)
         /\ q # <<>> => Head(q) = q[1] /\ Len(q) \in 1 .. 2
<1>1. Len(q) \in Nat /\ (q = <<>> <=> Len(q) = 0) /\ (q # <<>> => Head(q) = q[1])
  OBVIOUS
<1>2. \A n \in Nat : n <= 2 => n \in 0 .. 2 /\ (n # 0 => n \in 1 .. 2)
  OBVIOUS
<1> QED
  BY <1>1, <1>2

(* An action that waits becomes the last, and the first one stays.          *)
LEMMA QueueIs ==
  ASSUME WindowTypes, NEW e \in Entries, QueueAction(e)
  PROVE  /\ queue' \in Seq(Entries) /\ Len(queue') \in 1 .. 2 /\ queue' # <<>>
         /\ queue'[Len(queue')] = e /\ Head(queue') = queue'[1]
         /\ proc' = IF queue = <<>> THEN Looping ELSE proc
         /\ queue = <<>> => proc = Idle /\ queue' = <<e>> /\ Len(queue') = 1
         /\ queue # <<>> => queue'[1] = queue[1] /\ Head(queue) = queue[1] /\ Len(queue') = 2
         /\ \A i \in 1 .. Len(queue') : queue'[i] = e \/ (i = 1 /\ queue # <<>> /\ queue'[i] = queue[i])
         /\ crossed' = (crossed \/ Crosses(e))
<1>1. /\ queue \in Seq(Entries) /\ Len(queue) \in 0 .. 2 /\ (proc # Idle => queue # <<>>)
      /\ queue = <<>> <=> Len(queue) = 0
      /\ queue # <<>> => Head(queue) = queue[1]
  <2>1. queue \in Seq(Entries) /\ Len(queue) <= 2 /\ (proc # Idle => queue # <<>>)
    BY DEF WindowTypes
  <2> QED
    BY <2>1, AtMostTwo
<1>2. ASSUME queue' \in Seq(Entries), Len(queue') = 2 PROVE queue' # <<>> /\ Head(queue') = queue'[1]
  <2>1. Len(queue') <= 2 /\ Len(queue') # 0
    BY <1>2
  <2> QED
    BY <1>2, <2>1, AtMostTwo
<1>3. CASE Len(queue) = 2
  <2>1. queue' = [queue EXCEPT ![2] = e] /\ proc' = proc /\ crossed' = (crossed \/ Crosses(e))
    BY <1>3 DEF QueueAction
  <2>2. queue # <<>>
    BY <1>1, <1>3
  <2>3. queue' \in Seq(Entries) /\ Len(queue') = 2 /\ queue'[2] = e /\ queue'[1] = queue[1]
    <3>1. queue \in Seq(Entries) /\ 2 \in 1 .. Len(queue) /\ 1 \in 1 .. Len(queue)
      BY <1>1, <1>3
    <3>2. /\ [queue EXCEPT ![2] = e] \in Seq(Entries)
          /\ Len([queue EXCEPT ![2] = e]) = Len(queue)
          /\ \A j \in 1 .. Len(queue) : [queue EXCEPT ![2] = e][j] = IF j = 2 THEN e ELSE queue[j]
      BY <3>1, ExceptSeq
    <3> QED
      BY <1>3, <2>1, <3>1, <3>2
  <2>4. \A i \in 1 .. 2 : i = 1 \/ i = 2
    OBVIOUS
  <2>5. queue' # <<>> /\ Head(queue') = queue'[1] /\ Len(queue') \in 1 .. 2 /\ Head(queue) = queue[1]
    BY <1>1, <1>2, <2>2, <2>3
  <2>6. \A i \in 1 .. Len(queue') : queue'[i] = e \/ (i = 1 /\ queue # <<>> /\ queue'[i] = queue[i])
    BY <2>2, <2>3, <2>4
  <2> QED
    BY <2>1, <2>2, <2>3, <2>5, <2>6
<1>4. CASE Len(queue) # 2
  <2>1. queue' = Append(queue, e) /\ proc' = (IF queue = <<>> THEN Looping ELSE proc) /\ crossed' = (crossed \/ Crosses(e))
    BY <1>1, <1>4 DEF QueueAction
  <2>2. CASE queue = <<>>
    <3>1. queue' = <<e>> /\ proc = Idle
      BY <1>1, <2>1, <2>2
    <3>2. Len(<<e>>) = 1 /\ <<e>> # <<>> /\ Head(<<e>>) = e /\ <<e>>[1] = e /\ <<e>> \in Seq(Entries)
      OBVIOUS
    <3> QED
      BY <2>1, <2>2, <3>1, <3>2
  <2>3. CASE queue # <<>>
    <3>1. Len(queue) = 1
      BY <1>1, <1>4, <2>3
    <3>2. /\ queue' \in Seq(Entries) /\ Len(queue') = 2 /\ queue'[2] = e /\ queue'[1] = queue[1]
      <4>1. queue \in Seq(Entries)
        BY <1>1
      <4>2. /\ Append(queue, e) \in Seq(Entries) /\ Len(Append(queue, e)) = Len(queue) + 1
            /\ \A i \in 1 .. Len(queue) : Append(queue, e)[i] = queue[i]
            /\ Append(queue, e)[Len(queue) + 1] = e
        BY <4>1, AppendIs
      <4> QED
        BY <2>1, <3>1, <4>2
    <3>3. \A i \in 1 .. 2 : i = 1 \/ i = 2
      OBVIOUS
    <3> QED
      BY <1>1, <1>2, <2>1, <2>3, <3>2, <3>3
  <2> QED
    BY <2>2, <2>3
<1> QED
  BY <1>3, <1>4

(* What crosses nothing comes when all is told, after clicks only if it is  *)
(* one.                                                                     *)
LEMMA CrossesNot ==
  ASSUME WindowTypes, NEW e, ~Crosses(e)
  PROVE  /\ echoes = <<>> /\ updates = <<>>
         /\ queue = <<>> \/ (/\ e.op = "switchtab" /\ e.own
                             /\ \A i \in 1 .. Len(queue) : queue[i].op = "switchtab" /\ queue[i].own)
<1>1. \A i \in 1 .. Len(queue) : queue[i] \in ToSet(queue)
  BY DEF ToSet, WindowTypes
<1> QED
  BY <1>1 DEF Crosses

(* The queue takes an action of the user: a click on a tab that is shown at *)
(* once, or anything else.                                                  *)
LEMMA QueuedKeeps ==
  ASSUME WindowAssumption, WindowInv, gone = 0, NEW e \in Entries, QueueAction(e),
         UNCHANGED <<tabs, active, home, usedTabs, strayed, workspaceId, activeTabId, savedTabId,
                     known, echoes, updates, exits>>,
         shownTabId # NoTab \/ asking # NoWs,
         IF e.op = "switchtab"
           THEN Click(e) /\ shownTabId # NoTab /\ Contains(known, e.tab) /\ shownTabId' = e.tab
           ELSE shownTabId' = shownTabId
  PROVE  /\ MainInv'
         /\ home' # NoWs /\ ~strayed' => ShownInv'
         /\ home' # NoWs /\ ~crossed' => UncrossedInv'
<1>0. /\ WindowTypes /\ MainInv
      /\ home # NoWs /\ ~strayed => ShownInv
      /\ home # NoWs /\ ~crossed => UncrossedInv
  BY DEF WindowInv
<1>1. /\ queue' \in Seq(Entries) /\ Len(queue') \in 1 .. 2 /\ queue' # <<>>
      /\ queue'[Len(queue')] = e /\ Head(queue') = queue'[1]
      /\ proc' = IF queue = <<>> THEN Looping ELSE proc
      /\ queue = <<>> => proc = Idle /\ queue' = <<e>> /\ Len(queue') = 1
      /\ queue # <<>> => queue'[1] = queue[1] /\ Head(queue) = queue[1] /\ Len(queue') = 2
      /\ \A i \in 1 .. Len(queue') : queue'[i] = e \/ (i = 1 /\ queue # <<>> /\ queue'[i] = queue[i])
      /\ crossed' = (crossed \/ Crosses(e))
  BY <1>0, QueueIs
<1>2. known \in Seq(Tabs) /\ queue \in Seq(Entries) /\ (e.op = "switchtab" => e.tab \in Tabs /\ e.tab # NoTab)
  BY <1>0, ContainsIs DEF WindowTypes, WindowAssumption
<1>3. ~Opens
  BY DEF Opens
<1>4. ~Opens'
  <2>1. SUFFICES ASSUME queue' = <<[op |-> "switchtab", tab |-> active[Home], set |-> FALSE, own |-> FALSE]>>
                 PROVE  FALSE
    BY DEF Opens
  <2>2. e = [op |-> "switchtab", tab |-> active[Home], set |-> FALSE, own |-> FALSE]
    BY <1>1, <2>1
  <2> QED
    BY <2>2 DEF Click
<1>5. /\ (proc' = Loading) = (proc = Loading) /\ Succeeds' = Succeeds /\ Replied' = Replied
      /\ Replied => queue # <<>> /\ proc' = proc /\ Head(queue') = Head(queue)
  BY <1>1, StepsAre DEF Succeeds, Replied
<1>6. MainInv'
  <2>1. exits' = <<>> /\ (savedTabId' = NoTab) = (Opens' \/ proc' = Loading)
    BY <1>0, <1>3, <1>4, <1>5 DEF MainInv
  <2>2. (savedTabId' = NoTab => shownTabId' = NoTab /\ echoes' = <<>>) /\ (Succeeds' => proc'.result # NoTab)
    BY <1>0, <1>1, <1>5, <1>3 DEF MainInv, Opens, Succeeds
  <2>3. ASSUME NEW i \in 1 .. Len(queue'), queue'[i].op = "switchtab"
        PROVE  (Click(queue'[i]) /\ queue'[i].tab \in Tabs) \/ (i = 1 /\ (Opens' \/ proc' = Loading))
    <3>1. CASE queue'[i] = e
      BY <1>2, <2>3, <3>1
    <3>2. CASE i = 1 /\ queue # <<>> /\ queue'[i] = queue[i]
      <4>1. 1 \in 1 .. Len(queue)
        BY <1>2, <3>2
      <4> QED
        BY <1>0, <1>3, <1>5, <2>3, <3>2, <4>1 DEF MainInv
    <3> QED
      BY <1>1, <3>1, <3>2
  <2>4. ASSUME home' # NoWs PROVE \A w \in Workspaces : active'[w] \in Tabs
    BY <1>0, <2>4 DEF MainInv
  <2>5. ASSUME home' # NoWs PROVE IF Succeeds' THEN Answered' ELSE Agreed'
    <3>1. IF Succeeds THEN Answered ELSE Agreed
      BY <1>0, <1>3, <2>5 DEF MainInv
    <3> QED
      BY <1>5, <3>1 DEF Succeeds, Answered, Agreed
  <2>6. ASSUME home' # NoWs, Replied', proc'.result = Null PROVE Head(queue').op = "switchworkspace"
    BY <1>0, <1>5, <2>6 DEF MainInv
  <2> QED
    BY <2>1, <2>2, <2>3, <2>4, <2>5, <2>6 DEF MainInv, Click
<1>7. ASSUME home' # NoWs, ~strayed' PROVE ShownInv'
  <2>0. ShownInv
    BY <1>0, <1>7
  <2>1. WillTell' = WillTell /\ (NewestList(tabs[home])' <=> NewestList(tabs[home]))
    BY <1>5 DEF WillTell, Succeeds, NewestList
  <2>2. ASSUME shownTabId' # NoTab
        PROVE  /\ NewestList(tabs[home])'
               /\ \/ WillTell'
                  \/ /\ echoes' # <<>> => Contains(tabs'[home'], echoes'[Len(echoes')])
                     /\ echoes' = <<>> /\ updates' = <<>> => Contains(tabs'[home'], shownTabId')
    <3>1. shownTabId # NoTab
      BY <1>2, <2>2
    <3>2. updates = <<>> /\ shownTabId' # shownTabId => Contains(tabs[home], shownTabId')
      BY <1>2, <2>0, <3>1 DEF ShownInv, NewestList
    <3> QED
      BY <2>0, <2>1, <3>1, <3>2 DEF ShownInv
  <2>3. shownTabId' = NoTab => savedTabId' = NoTab /\ echoes' = <<>>
    BY <1>2, <2>0 DEF ShownInv
  <2>4. /\ \A w \in Workspaces : Contains(tabs'[w], active'[w])
        /\ \A i \in 1 .. Len(echoes') : echoes'[i] # NoTab
        /\ \A i \in 1 .. Len(updates') : updates'[i] # <<>>
    BY <2>0 DEF ShownInv
  <2> QED
    BY <2>2, <2>3, <2>4 DEF ShownInv
<1>8. ASSUME home' # NoWs, ~crossed' PROVE UncrossedInv'
  <2>0. UncrossedInv /\ ShownInv /\ ~Crosses(e)
    BY <1>0, <1>1, <1>8 DEF UncrossedInv
  <2>1. /\ echoes = <<>> /\ updates = <<>>
        /\ queue = <<>> \/ (/\ e.op = "switchtab" /\ e.own
                            /\ \A i \in 1 .. Len(queue) : queue[i].op = "switchtab" /\ queue[i].own)
    BY <1>0, <2>0, CrossesNot
  <2>2. ~strayed' /\ proc' # Idle
    BY <1>0, <1>1, <2>0, StepsAre DEF UncrossedInv, WindowTypes
  <2>3. e.op = "switchtab" => shownTabId # NoTab /\ Contains(tabs[home], e.tab) /\ AllClicks' /\ proc' # Loading
    <3>1. e.op = "switchtab" => shownTabId # NoTab /\ known = tabs[home] /\ proc' # Loading
      BY <1>0, <1>5, <2>0, <2>1 DEF ShownInv, NewestList, MainInv
    <3>2. ASSUME e.op = "switchtab", NEW i \in 1 .. Len(queue') PROVE Click(queue'[i])
      <4>1. CASE queue'[i] = e
        BY <3>2, <4>1
      <4>2. CASE i = 1 /\ queue # <<>> /\ queue'[i] = queue[i]
        <5>1. 1 \in 1 .. Len(queue)
          BY <1>2, <4>2
        <5> QED
          BY <1>0, <1>3, <1>5, <2>1, <3>1, <3>2, <4>2, <5>1 DEF MainInv
      <4> QED
        BY <1>1, <4>1, <4>2
    <3> QED
      BY <3>1, <3>2 DEF AllClicks, Click
  <2>4. Len(queue') = 1 \/ (AllClicks' /\ proc' # Loading)
    BY <1>1, <2>1, <2>3
  <2>5. ASSUME NEW i \in 1 .. Len(queue'), queue'[i].op = "switchtab" PROVE Contains(tabs[home], queue'[i].tab)
    <3>1. CASE queue'[i] = e
      BY <2>3, <2>5, <3>1
    <3>2. CASE i = 1 /\ queue # <<>> /\ queue'[i] = queue[i]
      <4>1. 1 \in 1 .. Len(queue)
        BY <1>2, <3>2
      <4> QED
        BY <2>0, <2>5, <3>2, <4>1 DEF UncrossedInv
    <3> QED
      BY <1>1, <3>1, <3>2
  <2>6. ASSUME shownTabId' # NoTab PROVE Agrees'
    <3>1. CASE e.op = "switchtab"
      BY <1>1, <2>1, <2>3, <3>1 DEF Agrees
    <3>2. CASE e.op # "switchtab"
      <4>1. queue = <<>> /\ shownTabId' = shownTabId /\ queue'[1] = e /\ 1 \in 1 .. Len(queue')
        BY <1>1, <2>1, <3>2
      <4>2. ~AllClicks'
        BY <3>2, <4>1 DEF AllClicks, Click
      <4>3. shownTabId = activeTabId
        BY <2>0, <2>1, <2>6, <4>1 DEF UncrossedInv, Agrees
      <4> QED
        BY <1>1, <2>1, <4>1, <4>2, <4>3 DEF Agrees
    <3> QED
      BY <3>1, <3>2
  <2>7. \A i \in 1 .. Len(updates') : updates'[i] = tabs'[home']
    BY <2>1
  <2> QED
    BY <2>2, <2>4, <2>5, <2>6, <2>7 DEF UncrossedInv
<1> QED
  BY <1>6, <1>7, <1>8

(* What the queue holds is of its type.                                     *)
LEMMA QueuedTypes ==
  ASSUME WindowTypes, NEW e \in Entries, QueueAction(e),
         UNCHANGED <<backend, windowIds, known, echoes, updates, fails, gone>>,
         shownTabId' \in TabIds, asking' \in Workspaces \cup {NoWs}, ops' \in Nat,
         exits' \in Seq([ws : Workspaces, tab : TabIds])
  PROVE  WindowTypes'
<1>1. /\ queue' \in Seq(Entries) /\ Len(queue') \in 1 .. 2 /\ queue' # <<>>
      /\ proc' = (IF queue = <<>> THEN Looping ELSE proc) /\ crossed' \in BOOLEAN
  <2>1. (crossed \/ Crosses(e)) \in BOOLEAN
    BY DEF WindowTypes
  <2> QED
    BY <2>1, QueueIs
<1>2. proc' \in Steps
  BY <1>1, StepsAre DEF WindowTypes
<1>3. Len(queue') <= 2
  <2>1. \A n \in 1 .. 2 : n <= 2
    OBVIOUS
  <2> QED
    BY <1>1, <2>1
<1> QED
  BY <1>1, <1>2, <1>3 DEF WindowTypes, backend, windowIds

(* A tab of the window is clicked.                                          *)
LEMMA SetActiveTabKeeps ==
  ASSUME WindowAssumption, WindowInv, NEW t \in Tabs, SetActiveTab(t)
  PROVE  WindowInv'
<1> DEFINE e == [op |-> "switchtab", tab |-> t, set |-> TRUE, own |-> TRUE]
<1>1. e \in Entries /\ e.op = "switchtab" /\ e.tab = t /\ Click(e)
  BY DEF Entries, Click
<1>2. /\ QueueAction(e) /\ ops \in Nat /\ ops' = ops + 1
      /\ shownTabId # NoTab /\ Contains(known, t) /\ shownTabId' = t
      /\ UNCHANGED <<backend, windowIds, asking, known, wires, fails, gone>>
  BY DEF SetActiveTab, UserOp, WindowInv, WindowTypes
<1>3. WindowTypes'
  <2>1. /\ shownTabId' \in TabIds /\ asking' \in Workspaces \cup {NoWs} /\ ops' \in Nat
        /\ exits' \in Seq([ws : Workspaces, tab : TabIds]) /\ WindowTypes
        /\ UNCHANGED <<backend, windowIds, known, echoes, updates, fails, gone>>
    BY <1>2 DEF WindowInv, WindowTypes, TabIds, wires
  <2> QED
    BY <1>1, <1>2, <2>1, QueuedTypes
<1>4. ASSUME gone' = 0
      PROVE  /\ MainInv'
             /\ home' # NoWs /\ ~strayed' => ShownInv'
             /\ home' # NoWs /\ ~crossed' => UncrossedInv'
  <2>1. /\ gone = 0
        /\ UNCHANGED <<tabs, active, home, usedTabs, strayed, workspaceId, activeTabId, savedTabId,
                       known, echoes, updates, exits>>
    BY <1>2, <1>4 DEF backend, windowIds, wires
  <2> HIDE DEF e
  <2> QED
    BY <1>1, <1>2, <2>1, QueuedKeeps
<1> QED
  BY <1>3, <1>4 DEF WindowInv

(* A tab is created or closed.                                              *)
LEMMA QueueOtherKeeps ==
  ASSUME WindowAssumption, WindowInv, NEW e \in Entries, e.op # "switchtab", UserOp, QueueAction(e),
         UNCHANGED <<backend, windowIds, asking, renderer, wires, fails, gone>>
  PROVE  WindowInv'
<1>1. WindowTypes'
  <2>1. /\ shownTabId' \in TabIds /\ asking' \in Workspaces \cup {NoWs} /\ ops' \in Nat
        /\ exits' \in Seq([ws : Workspaces, tab : TabIds]) /\ WindowTypes
        /\ UNCHANGED <<backend, windowIds, known, echoes, updates, fails, gone>>
    BY DEF WindowInv, WindowTypes, UserOp, wires, renderer
  <2> QED
    BY <2>1, QueuedTypes
<1>2. ASSUME gone' = 0
      PROVE  /\ MainInv'
             /\ home' # NoWs /\ ~strayed' => ShownInv'
             /\ home' # NoWs /\ ~crossed' => UncrossedInv'
  <2>1. /\ gone = 0 /\ shownTabId # NoTab /\ shownTabId' = shownTabId
        /\ UNCHANGED <<tabs, active, home, usedTabs, strayed, workspaceId, activeTabId, savedTabId,
                       known, echoes, updates, exits>>
    BY <1>2 DEF UserOp, backend, windowIds, wires, renderer
  <2> QED
    BY <2>1, QueuedKeeps
<1> QED
  BY <1>1, <1>2 DEF WindowInv

(* A tab to create is queued.                                               *)
LEMMA QueueCreateTabKeeps == ASSUME WindowAssumption, WindowInv, QueueCreateTab PROVE WindowInv'
<1> DEFINE e == [op |-> "createtab"]
<1>1. e \in Entries /\ e.op # "switchtab"
  BY DEF Entries
<1>2. /\ UserOp /\ QueueAction(e)
      /\ UNCHANGED <<backend, windowIds, asking, renderer, wires, fails, gone>>
  BY DEF QueueCreateTab
<1> HIDE DEF e
<1> QED
  BY <1>1, <1>2, QueueOtherKeeps

(* A tab to close is queued.                                                *)
LEMMA QueueCloseTabKeeps ==
  ASSUME WindowAssumption, WindowInv, NEW t \in Tabs, QueueCloseTab(t)
  PROVE  WindowInv'
<1> DEFINE e == [op |-> "closetab", tab |-> t]
<1>1. e \in Entries /\ e.op # "switchtab"
  BY DEF Entries
<1>2. /\ UserOp /\ QueueAction(e)
      /\ UNCHANGED <<backend, windowIds, asking, renderer, wires, fails, gone>>
  BY DEF QueueCloseTab
<1> HIDE DEF e
<1> QED
  BY <1>1, <1>2, QueueOtherKeeps

(* The workspace to switch to is owned by nobody else.                      *)
LEMMA OwnerKnownKeeps == ASSUME WindowAssumption, WindowInv, OwnerKnown PROVE WindowInv'
<1> DEFINE e == [op |-> "switchworkspace", ws |-> asking]
<1>1. e \in Entries /\ e.op # "switchtab"
  BY DEF Entries, OwnerKnown, WindowInv, WindowTypes
<1>2. /\ QueueAction(e) /\ asking # NoWs /\ asking' = NoWs
      /\ UNCHANGED <<backend, windowIds, renderer, wires, ops, fails, gone>>
  BY DEF OwnerKnown
<1> HIDE DEF e
<1>3. WindowTypes'
  <2>1. /\ shownTabId' \in TabIds /\ asking' \in Workspaces \cup {NoWs} /\ ops' \in Nat
        /\ exits' \in Seq([ws : Workspaces, tab : TabIds]) /\ WindowTypes
        /\ UNCHANGED <<backend, windowIds, known, echoes, updates, fails, gone>>
    BY <1>2 DEF WindowInv, WindowTypes, wires, renderer
  <2> QED
    BY <1>1, <1>2, <2>1, QueuedTypes
<1>4. ASSUME gone' = 0
      PROVE  /\ MainInv'
             /\ home' # NoWs /\ ~strayed' => ShownInv'
             /\ home' # NoWs /\ ~crossed' => UncrossedInv'
  <2>1. /\ gone = 0 /\ shownTabId' = shownTabId
        /\ UNCHANGED <<tabs, active, home, usedTabs, strayed, workspaceId, activeTabId, savedTabId,
                       known, echoes, updates, exits>>
    BY <1>2, <1>4 DEF backend, windowIds, wires, renderer
  <2> QED
    BY <1>1, <1>2, <2>1, QueuedKeeps
<1> QED
  BY <1>3, <1>4 DEF WindowInv

(* The owner of a workspace is asked for, which changes nothing yet.        *)
LEMMA SwitchWorkspaceKeeps ==
  ASSUME WindowAssumption, WindowInv, NEW w \in Workspaces, SwitchWorkspace(w)
  PROVE  WindowInv'
<1>1. /\ asking' = w /\ ops \in Nat /\ ops' = ops + 1 /\ shownTabId # NoTab
      /\ UNCHANGED <<tabs, active, home, usedTabs, strayed, workspaceId, activeTabId, savedTabId, queue, proc,
                     shownTabId, known, echoes, updates, exits, fails, gone, crossed>>
  BY DEF SwitchWorkspace, UserOp, WindowInv, WindowTypes, backend, windowIds, renderer, wires
<1>2. WindowTypes'
  <2>1. WindowTypes /\ ops' \in Nat
    BY <1>1 DEF WindowInv
  <2> QED
    BY <1>1, <2>1 DEF WindowTypes
<1>3. ~Opens /\ ~Opens'
  BY <1>1 DEF Opens
<1>4. Succeeds' = Succeeds /\ Replied' = Replied /\ Answered' = Answered /\ Agreed' = Agreed
  BY <1>1 DEF Succeeds, Replied, Answered, Agreed
<1>5. MainInv => MainInv'
  BY <1>1, <1>3, <1>4 DEF MainInv, Click
<1>6. ShownInv => ShownInv'
  BY <1>1, <1>4 DEF ShownInv, NewestList, WillTell
<1>7. UncrossedInv => UncrossedInv'
  BY <1>1, <1>4 DEF UncrossedInv, Agrees, AllClicks, Click
<1> QED
  BY <1>1, <1>2, <1>5, <1>6, <1>7 DEF WindowInv

(* A tab closed by itself.                                                  *)
LEMMA ActiveTabUpdateKeeps == ASSUME WindowAssumption, WindowInv, ActiveTabUpdate PROVE WindowInv'
<1> DEFINE e == [op |-> "switchtab", tab |-> Head(exits).tab, set |-> FALSE, own |-> FALSE]
<1>0. WindowTypes
  BY DEF WindowInv
<1>1. /\ exits # <<>> /\ exits' = Tail(exits)
      /\ IF Head(exits).ws = workspaceId THEN QueueAction(e) ELSE UNCHANGED <<queue, proc, crossed>>
      /\ UNCHANGED <<backend, windowIds, asking, renderer, echoes, updates, ops, fails, gone>>
  BY DEF ActiveTabUpdate
<1>2. exits' \in Seq([ws : Workspaces, tab : TabIds]) /\ Head(exits) \in [ws : Workspaces, tab : TabIds]
  <2>1. exits \in Seq([ws : Workspaces, tab : TabIds])
    BY <1>0 DEF WindowTypes
  <2> QED
    BY <1>1, <2>1, TailIs
<1>3. e \in Entries
  BY <1>2 DEF Entries, TabIds
<1> HIDE DEF e
<1>4. WindowTypes'
  <2>1. /\ shownTabId' \in TabIds /\ asking' \in Workspaces \cup {NoWs} /\ ops' \in Nat
        /\ UNCHANGED <<backend, windowIds, known, echoes, updates, fails, gone>>
    BY <1>0, <1>1 DEF WindowTypes, renderer
  <2>2. CASE QueueAction(e)
    BY <1>0, <1>2, <1>3, <2>1, <2>2, QueuedTypes
  <2>3. CASE UNCHANGED <<queue, proc, crossed>>
    BY <1>0, <1>1, <1>2, <2>1, <2>3 DEF WindowTypes, backend, windowIds, renderer
  <2> QED
    BY <1>1, <2>2, <2>3
<1>5. gone' # 0
  BY <1>1 DEF WindowInv, MainInv
<1> QED
  BY <1>4, <1>5 DEF WindowInv

-----------------------------------------------------------------------------
(* The rounds of the queue                                                  *)

(* The action in process leaves the queue, and the one that waits follows.  *)
LEMMA TailOfQueueIs ==
  ASSUME WindowTypes, queue # <<>>, queue' = Tail(queue)
  PROVE  /\ queue \in Seq(Entries) /\ Head(queue) = queue[1] /\ queue[1] \in Entries
         /\ Len(queue) = 1 \/ Len(queue) = 2
         /\ queue' \in Seq(Entries) /\ Len(queue') <= 2
         /\ Len(queue) = 1 => queue' = <<>> /\ Len(queue') = 0
         /\ Len(queue) = 2 => queue' # <<>> /\ Len(queue') = 1 /\ queue'[1] = queue[2]
         /\ \A i \in 1 .. Len(queue') : i = 1 /\ 2 \in 1 .. Len(queue) /\ queue'[i] = queue[2]
<1>1. queue \in Seq(Entries) /\ Len(queue) <= 2
  BY DEF WindowTypes
<1>2. Len(queue) \in 1 .. 2 /\ Head(queue) = queue[1]
  BY <1>1, AtMostTwo
<1>3. /\ Tail(queue) \in Seq(Entries) /\ Len(Tail(queue)) = Len(queue) - 1
      /\ \A i \in 1 .. Len(queue) - 1 : Tail(queue)[i] = queue[i + 1]
      /\ queue[1] \in Entries
  BY <1>1, TailIs
<1>4. ASSUME Len(queue) = 1 PROVE queue' = <<>> /\ Len(queue') = 0
  <2>1. Len(queue') = 0 /\ queue' \in Seq(Entries)
    BY <1>3, <1>4
  <2>2. \A q \in Seq(Entries) : Len(q) = 0 => q = <<>>
    OBVIOUS
  <2> QED
    BY <2>1, <2>2
<1>5. ASSUME Len(queue) = 2 PROVE queue' # <<>> /\ Len(queue') = 1 /\ queue'[1] = queue[2]
  <2>1. 1 \in 1 .. Len(queue) - 1 /\ Len(queue) - 1 = 1 /\ 1 + 1 = 2
    BY <1>5
  <2>2. Len(queue') = 1 /\ queue' \in Seq(Entries) /\ queue'[1] = queue[2]
    BY <1>3, <2>1
  <2>3. Len(queue') <= 2 /\ Len(queue') # 0
    BY <2>2
  <2> QED
    BY <2>2, <2>3, AtMostTwo
<1>6. Len(queue) = 1 \/ Len(queue) = 2
  BY <1>2
<1>7. ASSUME NEW i \in 1 .. Len(queue') PROVE i = 1 /\ 2 \in 1 .. Len(queue) /\ queue'[i] = queue[2]
  <2>1. (\A n \in 1 .. 1 : n = 1) /\ (\A n : n \notin 1 .. 0) /\ 2 \in 1 .. 2
    OBVIOUS
  <2>2. Len(queue') = 1 /\ Len(queue) = 2 /\ queue'[1] = queue[2]
    BY <1>4, <1>5, <1>6, <2>1
  <2> QED
    BY <2>1, <2>2
<1>8. Len(queue') <= 2
  <2>1. 0 <= 2 /\ 1 <= 2
    OBVIOUS
  <2> QED
    BY <1>4, <1>5, <1>6, <2>1
<1> QED
  BY <1>1, <1>2, <1>3, <1>4, <1>5, <1>6, <1>7, <1>8

(* A round that ends.                                                       *)
LEMMA ShiftIs ==
  ASSUME WindowTypes, queue # <<>>, Shift
  PROVE  /\ Len(queue) = 1 => proc' = Idle
         /\ Len(queue) = 2 => proc' = Looping
         /\ proc' \in {Idle, Looping} /\ proc' \in Steps /\ ~Replied' /\ ~Succeeds' /\ proc' # Loading
         /\ proc' # Idle => queue' # <<>>
<1>1. queue' = Tail(queue) /\ proc' = IF Len(queue) = 1 THEN Idle ELSE Looping
  BY DEF Shift
<1>2. (Len(queue) = 1 \/ Len(queue) = 2) /\ (Len(queue) = 2 => queue' # <<>>)
  BY <1>1, TailOfQueueIs
<1>3. proc' \in {Idle, Looping}
  BY <1>1
<1>4. proc' \in Steps /\ ~Replied' /\ ~Succeeds' /\ proc' # Loading
  BY <1>3, StepsAre DEF Replied, Succeeds
<1>5. (Len(queue) = 1 => proc' = Idle) /\ (Len(queue) = 2 => proc' = Looping)
  BY <1>1
<1> QED
  BY <1>2, <1>3, <1>4, <1>5

(* What is in process and what waits, when it is not the opening.           *)
LEMMA QueueHolds ==
  ASSUME WindowTypes, MainInv, queue # <<>>, ~Opens, proc # Loading
  PROVE  \A i \in 1 .. Len(queue) : queue[i].op = "switchtab" => Click(queue[i]) /\ queue[i].tab \in Tabs
BY DEF MainInv

(* The backend is asked.                                                    *)
LEMMA AskKeeps ==
  ASSUME WindowAssumption, WindowInv, proc = Looping, NeedsBackend(Head(queue)), proc' = Calling,
         UNCHANGED <<backend, windowIds, queue, asking, renderer, wires, bounds>>
  PROVE  WindowInv'
<1>1. /\ WindowTypes /\ queue # <<>> /\ proc' \in Steps
      /\ UNCHANGED <<tabs, active, home, usedTabs, strayed, workspaceId, activeTabId, savedTabId, queue, asking,
                     shownTabId, known, echoes, updates, exits, ops, fails, gone, crossed>>
  BY StepsAre DEF WindowInv, WindowTypes, backend, windowIds, renderer, wires, bounds
<1>2. /\ ~Replied /\ ~Replied' /\ ~Succeeds /\ ~Succeeds' /\ ~WillTell /\ ~WillTell'
      /\ proc # Loading /\ proc' # Loading /\ proc' # Idle /\ proc # Idle
  BY StepsAre DEF Replied, Succeeds, WillTell
<1>3. ~Opens /\ ~Opens'
  <2>1. ~Opens'
    BY StepsAre DEF Opens
  <2>2. ASSUME queue = <<[op |-> "switchtab", tab |-> active[Home], set |-> FALSE, own |-> FALSE]>> PROVE FALSE
    <3>1. Head(queue).op = "switchtab" /\ Head(queue).set = FALSE
      BY <2>2
    <3> QED
      BY <3>1 DEF NeedsBackend
  <2> QED
    BY <2>1, <2>2 DEF Opens
<1>4. WindowTypes'
  BY <1>1 DEF WindowTypes
<1>5. Agreed' = Agreed
  BY <1>1 DEF Agreed
<1>6. MainInv => MainInv'
  BY <1>1, <1>2, <1>3, <1>5 DEF MainInv, Click
<1>7. ShownInv => ShownInv'
  BY <1>1, <1>2 DEF ShownInv, NewestList
<1>8. UncrossedInv => UncrossedInv'
  BY <1>1, <1>2 DEF UncrossedInv, Agrees, AllClicks, Click
<1> QED
  BY <1>1, <1>4, <1>6, <1>7, <1>8 DEF WindowInv

(* The tab is the window's already: the round ends.                         *)
LEMMA SkipKeeps ==
  ASSUME WindowAssumption, WindowInv, proc = Looping, Head(queue).op = "switchtab",
         activeTabId = Head(queue).tab, Shift,
         UNCHANGED <<backend, windowIds, asking, renderer, wires, bounds>>
  PROVE  WindowInv'
<1>1. /\ WindowTypes /\ queue # <<>>
      /\ UNCHANGED <<tabs, active, home, usedTabs, strayed, workspaceId, activeTabId, savedTabId, asking,
                     shownTabId, known, echoes, updates, exits, ops, fails, gone, crossed>>
  BY StepsAre DEF WindowInv, WindowTypes, backend, windowIds, renderer, wires, bounds
<1>2. /\ Head(queue) = queue[1] /\ (Len(queue) = 1 \/ Len(queue) = 2)
      /\ queue' \in Seq(Entries) /\ Len(queue') <= 2
      /\ Len(queue) = 1 => queue' = <<>> /\ Len(queue') = 0
      /\ Len(queue) = 2 => queue' # <<>> /\ Len(queue') = 1 /\ queue'[1] = queue[2]
      /\ \A i \in 1 .. Len(queue') : i = 1 /\ 2 \in 1 .. Len(queue) /\ queue'[i] = queue[2]
  BY <1>1, TailOfQueueIs DEF Shift
<1>3. /\ Len(queue) = 1 => proc' = Idle
      /\ Len(queue) = 2 => proc' = Looping
      /\ proc' \in Steps /\ ~Replied' /\ ~Succeeds' /\ proc' # Loading
      /\ proc' # Idle => queue' # <<>>
  BY <1>1, ShiftIs
<1>4. ~Replied /\ ~Succeeds /\ proc # Loading /\ ~WillTell /\ ~WillTell'
  BY <1>3, StepsAre DEF Replied, Succeeds, WillTell
<1>5. WindowTypes'
  BY <1>1, <1>2, <1>3 DEF WindowTypes
<1>6. ASSUME gone = 0 PROVE MainInv /\ ~Opens /\ ~Opens'
  <2>1. MainInv
    BY <1>6 DEF WindowInv
  <2>2. ~Opens
    <3>1. SUFFICES ASSUME Opens PROVE FALSE
      OBVIOUS
    <3>2. activeTabId = NoTab /\ Head(queue).tab = active[Home] /\ home # NoWs /\ Home \in Workspaces
      BY <3>1 DEF Opens, WindowAssumption
    <3> QED
      BY <2>1, <3>2 DEF MainInv, WindowAssumption
  <2>3. savedTabId # NoTab
    BY <1>4, <2>1, <2>2 DEF MainInv
  <2> QED
    BY <1>1, <2>1, <2>2, <2>3 DEF Opens
<1>7. ASSUME gone = 0
      PROVE  \A i \in 1 .. Len(queue) : queue[i].op = "switchtab" => Click(queue[i]) /\ queue[i].tab \in Tabs
  BY <1>1, <1>4, <1>6, <1>7, QueueHolds
<1>8. ASSUME gone = 0 PROVE MainInv'
  <2>1. \A i \in 1 .. Len(queue') : queue'[i].op = "switchtab" => Click(queue'[i]) /\ queue'[i].tab \in Tabs
    BY <1>2, <1>7, <1>8
  <2>2. Agreed' = Agreed
    BY <1>1 DEF Agreed
  <2> QED
    BY <1>1, <1>3, <1>4, <1>6, <1>8, <2>1, <2>2 DEF MainInv, Click
<1>9. ShownInv => ShownInv'
  BY <1>1, <1>4 DEF ShownInv, NewestList
<1>10. ASSUME gone = 0, UncrossedInv PROVE UncrossedInv'
  <2>1. 1 \in 1 .. Len(queue) /\ (Len(queue) = 2 => AllClicks)
    BY <1>2, <1>10 DEF UncrossedInv
  <2>2. /\ \A i \in 1 .. Len(queue') : queue'[i].op = "switchtab" => Contains(tabs[home], queue'[i].tab)
        /\ Len(queue') = 1 \/ \A i \in 1 .. Len(queue') : Click(queue'[i])
        /\ ~strayed
    BY <1>2, <1>10 DEF UncrossedInv
  <2>3. ASSUME shownTabId # NoTab PROVE Agrees'
    <3>1. Agrees /\ echoes = <<>>
      BY <1>1, <1>10, <2>3 DEF UncrossedInv, Agrees
    <3>2. CASE Len(queue) = 1
      <4>1. AllClicks
        BY <1>2, <1>7, <1>10, <3>2 DEF AllClicks
      <4>2. shownTabId = activeTabId
        BY <1>1, <1>2, <3>1, <3>2, <4>1 DEF Agrees
      <4> QED
        BY <1>1, <1>2, <3>1, <3>2, <4>2 DEF Agrees
    <3>3. CASE Len(queue) = 2
      <4>1. shownTabId = queue[2].tab /\ AllClicks
        BY <1>1, <2>1, <3>1, <3>3 DEF Agrees
      <4>2. AllClicks'
        BY <1>2, <4>1 DEF AllClicks, Click
      <4> QED
        BY <1>1, <1>2, <3>1, <3>3, <4>1, <4>2 DEF Agrees
    <3> QED
      BY <1>2, <3>2, <3>3
  <2>4. proc' = Idle => queue' = <<>>
    BY <1>2, <1>3, StepsAre
  <2>5. Len(queue') = 1 \/ (AllClicks' /\ proc' # Loading)
    BY <1>3, <2>2 DEF AllClicks, Click
  <2> QED
    BY <1>1, <1>10, <2>2, <2>3, <2>4, <2>5 DEF UncrossedInv
<1> QED
  BY <1>1, <1>5, <1>8, <1>9, <1>10 DEF WindowInv

(* The view of a tab is told to show it, or is loaded first.                *)
LEMMA ActivateTypes ==
  ASSUME WindowTypes, queue # <<>>, NEW t \in TabIds, NEW own, Activate(t, own),
         UNCHANGED <<backend, workspaceId, asking, renderer, updates, exits, bounds>>
  PROVE  WindowTypes'
<1>1. /\ activeTabId' = t
      /\ UNCHANGED <<tabs, active, home, usedTabs, strayed, workspaceId, asking,
                     shownTabId, known, updates, exits, ops, fails, gone, crossed>>
  BY DEF Activate, backend, renderer, bounds
<1>2. CASE savedTabId = NoTab
  <2>1. proc' = Loading /\ UNCHANGED <<queue, savedTabId, echoes>> /\ proc' \in Steps
    BY <1>2, StepsAre DEF Activate
  <2> QED
    BY <1>1, <1>2, <2>1 DEF WindowTypes
<1>3. CASE savedTabId # NoTab
  <2>1. savedTabId' = t /\ echoes' = (IF own THEN echoes ELSE Append(echoes, t)) /\ Shift
    BY <1>3 DEF Activate
  <2>2. queue' \in Seq(Entries) /\ Len(queue') <= 2 /\ proc' \in Steps /\ (proc' # Idle => queue' # <<>>)
    BY <2>1, TailOfQueueIs, ShiftIs DEF Shift
  <2>3. echoes' \in Seq(TabIds)
    BY <2>1, AppendIs DEF WindowTypes
  <2> QED
    BY <1>1, <2>1, <2>2, <2>3 DEF WindowTypes
<1> QED
  BY <1>2, <1>3

(* The first tab of the window is loaded.                                   *)
LEMMA OpeningKeeps ==
  ASSUME WindowAssumption, WindowInv, proc = Looping, Head(queue).op = "switchtab", ~Head(queue).set,
         Activate(Head(queue).tab, Head(queue).own),
         UNCHANGED <<backend, workspaceId, asking, renderer, updates, exits, bounds>>
  PROVE  WindowInv'
<1>1. /\ WindowTypes /\ queue # <<>> /\ queue[1] \in Entries /\ Head(queue) = queue[1] /\ 1 \in 1 .. Len(queue)
      /\ UNCHANGED <<tabs, active, home, usedTabs, strayed, workspaceId, asking,
                     shownTabId, known, updates, exits, ops, fails, gone, crossed>>
  <2>1. WindowTypes /\ queue # <<>> /\ queue \in Seq(Entries)
    BY StepsAre DEF WindowInv, WindowTypes
  <2> QED
    BY <2>1, TailIs DEF backend, renderer, bounds
<1>2. WindowTypes'
  <2>1. Head(queue).tab \in TabIds
    <3>1. \A x \in Entries : x.op = "switchtab" => x.tab \in TabIds
      BY DEF Entries, TabIds
    <3> QED
      BY <1>1, <3>1
  <2> QED
    BY <1>1, <2>1, ActivateTypes
<1>3. ASSUME gone = 0
      PROVE  /\ MainInv /\ Opens /\ Len(queue) = 1 /\ activeTabId' = active[Home] /\ proc' = Loading
             /\ UNCHANGED <<queue, savedTabId, echoes>>
             /\ home = Home /\ workspaceId = Home /\ Home \in Workspaces /\ home # NoWs
  <2>1. MainInv
    BY <1>3 DEF WindowInv
  <2>2. Opens
    BY <1>1, <2>1, StepsAre DEF MainInv, Click
  <2>3. /\ savedTabId = NoTab /\ home = Home /\ workspaceId = Home /\ Head(queue).tab = active[Home]
        /\ Len(queue) = 1
    BY <2>2 DEF Opens
  <2>4. activeTabId' = active[Home] /\ proc' = Loading /\ UNCHANGED <<queue, savedTabId, echoes>>
    BY <2>3 DEF Activate
  <2> QED
    BY <2>1, <2>2, <2>3, <2>4 DEF WindowAssumption
<1>4. ~Succeeds' /\ ~Replied' /\ proc' = Loading => ~WillTell'
  BY DEF WillTell
<1>5. ASSUME gone = 0 PROVE ~Succeeds' /\ ~Replied' /\ ~WillTell' /\ proc' # Idle
  BY <1>3, <1>5, StepsAre DEF Succeeds, Replied, WillTell
<1>6. ASSUME gone = 0 PROVE MainInv'
  <2>1. /\ exits' = <<>> /\ savedTabId' = NoTab /\ shownTabId' = NoTab /\ echoes' = <<>> /\ proc' = Loading
        /\ ~Succeeds' /\ ~Replied'
    BY <1>1, <1>3, <1>5, <1>6 DEF MainInv, Opens
  <2>2. \A i \in 1 .. Len(queue') : i = 1
    <3>1. \A i \in 1 .. 1 : i = 1
      OBVIOUS
    <3> QED
      BY <1>3, <1>6, <3>1
  <2>3. Agreed'
    BY <1>1, <1>3, <1>6 DEF Agreed
  <2>4. \A w \in Workspaces : active'[w] \in Tabs
    BY <1>1, <1>3, <1>6 DEF MainInv
  <2> QED
    BY <2>1, <2>2, <2>3, <2>4 DEF MainInv
<1>7. ASSUME gone = 0, ShownInv PROVE ShownInv'
  <2>1. savedTabId' = NoTab /\ shownTabId' = NoTab /\ echoes' = <<>> /\ updates' = <<>>
    BY <1>1, <1>3, <1>7 DEF Opens
  <2> QED
    BY <1>1, <1>7, <2>1 DEF ShownInv
<1>8. ASSUME gone = 0, UncrossedInv PROVE UncrossedInv'
  <2>1. savedTabId' = NoTab /\ shownTabId' = NoTab /\ Len(queue') = 1 /\ queue' = queue /\ proc' # Idle
    BY <1>1, <1>3, <1>5, <1>8 DEF Opens
  <2> QED
    BY <1>1, <1>8, <2>1 DEF UncrossedInv
<1> QED
  BY <1>1, <1>2, <1>6, <1>7, <1>8 DEF WindowInv

(* A round calls the backend, has nothing to do, or activates its tab.      *)
LEMMA BeginRoundKeeps == ASSUME WindowAssumption, WindowInv, BeginRound PROVE WindowInv'
<1> DEFINE e == Head(queue)
<1>1. proc = Looping /\ UNCHANGED <<backend, workspaceId, asking, renderer, updates, exits, bounds>>
  BY DEF BeginRound
<1>2. e \in Entries
  <2>1. queue # <<>> /\ queue \in Seq(Entries)
    BY <1>1, StepsAre DEF WindowInv, WindowTypes
  <2> QED
    BY <2>1, TailIs
<1>3. CASE NeedsBackend(e)
  <2>1. /\ proc' = Calling
        /\ UNCHANGED <<backend, windowIds, queue, asking, renderer, wires, bounds>>
    BY <1>3 DEF BeginRound, windowIds, wires
  <2> QED
    BY <1>1, <1>3, <2>1, AskKeeps
<1>4. CASE ~NeedsBackend(e) /\ activeTabId = e.tab
  <2>1. /\ Shift /\ e.op = "switchtab"
        /\ UNCHANGED <<backend, windowIds, asking, renderer, wires, bounds>>
    BY <1>4 DEF BeginRound, NeedsBackend, windowIds, wires
  <2> QED
    BY <1>1, <1>4, <2>1, SkipKeeps
<1>5. CASE ~NeedsBackend(e) /\ activeTabId # e.tab
  <2>1. Activate(e.tab, e.own) /\ e.op = "switchtab" /\ ~e.set
    <3>1. Activate(e.tab, e.own)
      BY <1>5 DEF BeginRound
    <3>2. e.op = "switchtab" /\ ~(e.set /\ activeTabId # e.tab)
      BY <1>5 DEF NeedsBackend
    <3> QED
      BY <1>5, <3>1, <3>2
  <2> QED
    BY <1>1, <2>1, OpeningKeeps
<1> QED
  BY <1>3, <1>4, <1>5

(* A call that ends, the opening is over and the tab of the window known.   *)
LEMMA ReplyIs ==
  ASSUME WindowAssumption, WindowInv, Replied
  PROVE  /\ WindowTypes /\ queue # <<>> /\ queue[1] \in Entries /\ Head(queue) = queue[1] /\ 1 \in 1 .. Len(queue)
         /\ proc \notin {Idle, Looping, Calling, Loading} /\ ~Opens
         /\ proc.result \in TabIds \cup {Null, Failed}
         /\ gone = 0 => /\ MainInv /\ savedTabId # NoTab
                        /\ \A i \in 1 .. Len(queue) : queue[i].op = "switchtab" =>
                             Click(queue[i]) /\ queue[i].tab \in Tabs
<1>1. WindowTypes /\ proc \in Steps
  BY DEF WindowInv, WindowTypes
<1>2. proc \notin {Idle, Looping, Calling, Loading} /\ proc.result \in TabIds \cup {Null, Failed}
  BY <1>1, StepsAre DEF Replied
<1>3. queue # <<>> /\ queue \in Seq(Entries) /\ ~Opens
  BY <1>1, <1>2 DEF WindowTypes, Opens
<1>4. queue[1] \in Entries /\ Head(queue) = queue[1] /\ 1 \in 1 .. Len(queue)
  BY <1>3, TailIs
<1>5. ASSUME gone = 0
      PROVE  /\ MainInv /\ savedTabId # NoTab
             /\ \A i \in 1 .. Len(queue) : queue[i].op = "switchtab" => Click(queue[i]) /\ queue[i].tab \in Tabs
  <2>1. MainInv
    BY <1>5 DEF WindowInv
  <2>2. savedTabId # NoTab
    BY <1>2, <1>3, <2>1 DEF MainInv
  <2> QED
    BY <1>1, <1>2, <1>3, <2>1, <2>2, QueueHolds
<1> QED
  BY <1>1, <1>2, <1>3, <1>4, <1>5

(* A call that failed changed nothing; the renderer is told where it is.    *)
LEMMA EndFailedKeeps ==
  ASSUME WindowAssumption, WindowInv, Replied, proc.result = Failed, Recover, Shift,
         UNCHANGED <<windowIds, renderer, backend, asking, updates, exits, bounds>>
  PROVE  WindowInv'
<1>1. /\ WindowTypes /\ queue # <<>> /\ queue[1] \in Entries /\ Head(queue) = queue[1] /\ 1 \in 1 .. Len(queue)
      /\ proc \notin {Idle, Looping, Calling, Loading} /\ ~Opens
      /\ gone = 0 => /\ MainInv /\ savedTabId # NoTab
                     /\ \A i \in 1 .. Len(queue) : queue[i].op = "switchtab" =>
                          Click(queue[i]) /\ queue[i].tab \in Tabs
  BY ReplyIs
<1>2. /\ UNCHANGED <<tabs, active, home, usedTabs, strayed, workspaceId, activeTabId, savedTabId, asking,
                     shownTabId, known, updates, exits, ops, fails, gone, crossed>>
      /\ echoes' = IF Len(queue) = 1 /\ savedTabId # NoTab THEN Append(echoes, savedTabId) ELSE echoes
  BY DEF Recover, windowIds, backend, renderer, bounds
<1>3. /\ Len(queue) = 1 \/ Len(queue) = 2
      /\ queue' \in Seq(Entries) /\ Len(queue') <= 2
      /\ Len(queue) = 1 => queue' = <<>> /\ Len(queue') = 0
      /\ Len(queue) = 2 => queue' # <<>> /\ Len(queue') = 1 /\ queue'[1] = queue[2]
      /\ \A i \in 1 .. Len(queue') : i = 1 /\ 2 \in 1 .. Len(queue) /\ queue'[i] = queue[2]
  BY <1>1, TailOfQueueIs DEF Shift
<1>4. /\ Len(queue) = 1 => proc' = Idle
      /\ Len(queue) = 2 => proc' = Looping
      /\ proc' \in Steps /\ ~Replied' /\ ~Succeeds' /\ proc' # Loading
      /\ proc' # Idle => queue' # <<>>
  BY <1>1, ShiftIs
<1>5. ~Succeeds /\ ~WillTell /\ ~WillTell'
  BY <1>4 DEF Succeeds, WillTell
<1>6. echoes \in Seq(TabIds) /\ savedTabId \in TabIds /\ activeTabId \in TabIds /\ savedTabId \in {NoTab, activeTabId}
  BY <1>1 DEF WindowTypes, TabIds
<1>7. WindowTypes'
  <2>1. echoes' \in Seq(TabIds)
    BY <1>2, <1>6, AppendIs
  <2> QED
    BY <1>1, <1>2, <1>3, <1>4, <2>1 DEF WindowTypes
<1>8. ASSUME gone = 0 PROVE MainInv'
  <2>1. \A i \in 1 .. Len(queue') : queue'[i].op = "switchtab" => Click(queue'[i]) /\ queue'[i].tab \in Tabs
    BY <1>1, <1>3, <1>8
  <2>2. Agreed' = Agreed
    BY <1>2 DEF Agreed
  <2>3. ~Opens' /\ savedTabId' # NoTab
    BY <1>1, <1>2, <1>8 DEF Opens
  <2> QED
    BY <1>1, <1>2, <1>4, <1>5, <1>8, <2>1, <2>2, <2>3 DEF MainInv, Click
<1>9. ASSUME gone = 0, home # NoWs, ShownInv PROVE ShownInv'
  <2>1. shownTabId # NoTab /\ savedTabId = activeTabId /\ activeTabId = active[home] /\ home \in Workspaces
    BY <1>1, <1>5, <1>6, <1>9 DEF MainInv, Agreed, ShownInv, WindowTypes
  <2>2. /\ NewestList(tabs[home])
        /\ echoes # <<>> => Contains(tabs[home], echoes[Len(echoes)])
        /\ echoes = <<>> /\ updates = <<>> => Contains(tabs[home], shownTabId)
        /\ Contains(tabs[home], savedTabId)
        /\ \A i \in 1 .. Len(echoes) : echoes[i] # NoTab
    BY <1>5, <1>9, <2>1 DEF ShownInv
  <2>3. CASE echoes' = echoes
    BY <1>2, <1>5, <1>9, <2>1, <2>2, <2>3 DEF ShownInv, NewestList
  <2>4. CASE echoes' = Append(echoes, savedTabId)
    <3>1. /\ Len(echoes') = Len(echoes) + 1 /\ echoes'[Len(echoes) + 1] = savedTabId
          /\ \A i \in 1 .. Len(echoes) : echoes'[i] = echoes[i]
          /\ \A i \in 1 .. Len(echoes) + 1 : i \in 1 .. Len(echoes) \/ i = Len(echoes) + 1
      BY <1>6, <2>4, AppendIs
    <3>2. \A i \in 1 .. Len(echoes') : echoes'[i] # NoTab
      BY <1>1, <1>9, <2>2, <3>1
    <3>3. echoes' # <<>> /\ Contains(tabs'[home'], echoes'[Len(echoes')])
      BY <1>2, <1>6, <2>2, <2>4, <3>1
    <3> QED
      BY <1>2, <1>5, <1>9, <2>1, <2>2, <3>2, <3>3 DEF ShownInv, NewestList
  <2> QED
    BY <1>2, <2>3, <2>4
<1>10. ASSUME gone = 0, home # NoWs, ShownInv, UncrossedInv PROVE UncrossedInv'
  <2>1. /\ shownTabId # NoTab /\ savedTabId = activeTabId /\ Agrees /\ echoes = <<>>
        /\ Len(queue) = 2 => AllClicks
    <3>1. shownTabId # NoTab /\ savedTabId = activeTabId
      BY <1>1, <1>6, <1>10 DEF ShownInv
    <3>2. Agrees /\ (Len(queue) = 2 => AllClicks)
      BY <1>10, <3>1 DEF UncrossedInv
    <3> QED
      BY <1>1, <3>1, <3>2 DEF Agrees
  <2>2. CASE Len(queue) = 1
    <3>1. echoes' = <<activeTabId>> /\ queue' = <<>> /\ proc' = Idle /\ AllClicks' /\ activeTabId' = activeTabId
      <4>1. echoes' = Append(<<>>, activeTabId)
        BY <1>1, <1>2, <1>10, <2>1, <2>2
      <4>2. AllClicks'
        BY <1>3, <2>2 DEF AllClicks
      <4>3. Append(<<>>, activeTabId) = <<activeTabId>>
        OBVIOUS
      <4> QED
        BY <1>2, <1>3, <1>4, <2>2, <4>1, <4>2, <4>3
    <3>2. \A i \in 1 .. Len(queue') : queue'[i].op = "switchtab" => Contains(tabs'[home'], queue'[i].tab)
      BY <1>2, <1>3, <1>10 DEF UncrossedInv
    <3> QED
      BY <1>2, <1>4, <1>10, <3>1, <3>2 DEF UncrossedInv, Agrees
  <2>3. CASE Len(queue) = 2
    <3>1. /\ echoes' = <<>> /\ queue' # <<>> /\ Len(queue') = 1 /\ queue'[1] = queue[2] /\ AllClicks
          /\ shownTabId = queue[2].tab
      BY <1>1, <1>2, <1>3, <2>1, <2>3 DEF Agrees
    <3>2. AllClicks'
      BY <1>3, <3>1 DEF AllClicks, Click
    <3>3. \A i \in 1 .. Len(queue') : queue'[i].op = "switchtab" => Contains(tabs'[home'], queue'[i].tab)
      BY <1>2, <1>3, <1>10 DEF UncrossedInv
    <3>4. proc' # Idle
      BY <1>4, <2>3, StepsAre
    <3> QED
      BY <1>2, <1>4, <1>10, <3>1, <3>2, <3>3, <3>4 DEF UncrossedInv, Agrees
  <2> QED
    BY <1>3, <2>2, <2>3
<1>11. home' = home /\ gone' = gone /\ strayed' = strayed /\ crossed' = crossed
  BY <1>2
<1>12. gone = 0 /\ home # NoWs /\ ~crossed => ~strayed
  BY DEF WindowInv, UncrossedInv
<1> QED
  BY <1>7, <1>8, <1>9, <1>10, <1>11, <1>12 DEF WindowInv

(* Another window was focused, or the window closes: the round ends.        *)
LEMMA EndNullKeeps ==
  ASSUME WindowAssumption, WindowInv, Replied, proc.result = Null, Return,
         UNCHANGED <<windowIds, renderer, echoes, backend, asking, updates, exits, bounds>>
  PROVE  WindowInv'
<1>1. /\ WindowTypes /\ queue # <<>> /\ queue[1] \in Entries /\ Head(queue) = queue[1] /\ 1 \in 1 .. Len(queue)
      /\ proc \notin {Idle, Looping, Calling, Loading} /\ ~Opens
      /\ gone = 0 => /\ MainInv /\ savedTabId # NoTab
                     /\ \A i \in 1 .. Len(queue) : queue[i].op = "switchtab" =>
                          Click(queue[i]) /\ queue[i].tab \in Tabs
  BY ReplyIs
<1>2. UNCHANGED <<tabs, active, home, usedTabs, strayed, workspaceId, activeTabId, savedTabId, asking,
                  shownTabId, known, echoes, updates, exits, ops, fails, gone, crossed>>
  BY DEF windowIds, backend, renderer, bounds
<1>3. /\ Len(queue) = 1 \/ Len(queue) = 2
      /\ queue' \in Seq(Entries) /\ Len(queue') <= 2
      /\ Len(queue) = 1 => queue' = <<>> /\ Len(queue') = 0
      /\ \A i \in 1 .. Len(queue') : i = 1 /\ 2 \in 1 .. Len(queue) /\ queue'[i] = queue[2]
  BY <1>1, TailOfQueueIs DEF Return
<1>4. proc' = Idle /\ proc' \in Steps /\ ~Replied' /\ ~Succeeds' /\ proc' # Loading
  BY StepsAre DEF Return, Replied, Succeeds
<1>5. ~Succeeds /\ ~WillTell /\ ~WillTell'
  BY <1>4 DEF Succeeds, WillTell
<1>6. WindowTypes'
  BY <1>1, <1>2, <1>3, <1>4 DEF WindowTypes
<1>7. ASSUME gone = 0 PROVE MainInv'
  <2>1. \A i \in 1 .. Len(queue') : queue'[i].op = "switchtab" => Click(queue'[i]) /\ queue'[i].tab \in Tabs
    BY <1>1, <1>3, <1>7
  <2>2. Agreed' = Agreed
    BY <1>2 DEF Agreed
  <2>3. ~Opens' /\ savedTabId' # NoTab
    BY <1>1, <1>2, <1>7 DEF Opens
  <2> QED
    BY <1>1, <1>2, <1>4, <1>5, <1>7, <2>1, <2>2, <2>3 DEF MainInv, Click
<1>8. ShownInv => ShownInv'
  BY <1>2, <1>5 DEF ShownInv, NewestList
<1>9. ASSUME gone = 0, home # NoWs, UncrossedInv PROVE UncrossedInv'
  <2>1. ~AllClicks
    <3>1. queue[1].op = "switchworkspace"
      BY <1>1, <1>9 DEF MainInv
    <3> QED
      BY <1>1, <3>1 DEF AllClicks, Click
  <2>2. Len(queue) = 1 /\ queue' = <<>> /\ Len(queue') = 0
    BY <1>3, <1>9, <2>1 DEF UncrossedInv
  <2>3. shownTabId # NoTab => echoes = <<>> /\ shownTabId = activeTabId
    BY <1>1, <1>5, <1>9, <2>1 DEF UncrossedInv, Agrees
  <2>4. \A i \in 1 .. Len(queue') : FALSE
    BY <2>2
  <2>5. shownTabId' # NoTab => Agrees'
    BY <1>2, <2>2, <2>3 DEF Agrees
  <2> QED
    BY <1>2, <1>4, <1>9, <2>2, <2>4, <2>5 DEF UncrossedInv, AllClicks
<1> QED
  BY <1>2, <1>6, <1>7, <1>8, <1>9 DEF WindowInv

(* The window shows another workspace, its views are gone, and the one of   *)
(* the active tab is loaded.                                                *)
LEMMA EndSwitchedKeeps ==
  ASSUME WindowAssumption, WindowInv, Replied, proc.result \notin {Failed, Null},
         Head(queue).op = "switchworkspace",
         workspaceId' = Head(queue).ws, activeTabId' = proc.result, savedTabId' = NoTab,
         shownTabId' = NoTab, known' = <<>>, echoes' = <<>>, proc' = Loading,
         UNCHANGED <<queue, backend, asking, updates, exits, bounds>>
  PROVE  WindowInv'
<1>1. /\ WindowTypes /\ queue # <<>> /\ queue[1] \in Entries /\ Head(queue) = queue[1] /\ 1 \in 1 .. Len(queue)
      /\ proc.result \in TabIds \cup {Null, Failed}
      /\ gone = 0 => /\ MainInv
                     /\ \A i \in 1 .. Len(queue) : queue[i].op = "switchtab" =>
                          Click(queue[i]) /\ queue[i].tab \in Tabs
  BY ReplyIs
<1>2. UNCHANGED <<tabs, active, home, usedTabs, strayed, queue, asking, updates, exits, ops, fails, gone, crossed>>
  BY DEF backend, bounds
<1>3. Succeeds /\ ~Succeeds' /\ ~Replied' /\ proc' \in Steps /\ proc' # Idle
  BY StepsAre DEF Succeeds, Replied
<1>4. WindowTypes'
  <2>1. workspaceId' \in Workspaces
    BY <1>1 DEF Entries
  <2>2. activeTabId' \in TabIds /\ NoTab \in TabIds /\ <<>> \in Seq(Tabs) /\ <<>> \in Seq(TabIds)
    BY <1>1 DEF TabIds
  <2> QED
    BY <1>1, <1>2, <1>3, <2>1, <2>2 DEF WindowTypes
<1>5. ASSUME gone = 0 PROVE MainInv'
  <2>1. home' # NoWs => Agreed'
    BY <1>1, <1>2, <1>3, <1>5 DEF MainInv, Agreed, Answered, Opens
  <2> QED
    BY <1>1, <1>2, <1>3, <1>5, <2>1 DEF MainInv, Click
<1>6. ShownInv => ShownInv'
  BY <1>2 DEF ShownInv
<1>7. ASSUME UncrossedInv PROVE UncrossedInv'
  <2>1. ~AllClicks
    BY <1>1 DEF AllClicks, Click
  <2> QED
    BY <1>2, <1>3, <1>7, <2>1 DEF UncrossedInv
<1> QED
  BY <1>2, <1>4, <1>5, <1>6, <1>7 DEF WindowInv

(* The window shows the tab that the backend made the active one.           *)
LEMMA EndActivatedKeeps ==
  ASSUME WindowAssumption, WindowInv, Replied, proc.result \notin {Failed, Null},
         Head(queue).op # "switchworkspace",
         NEW own, own = (Head(queue).op = "switchtab" /\ Head(queue).own),
         Activate(proc.result, own),
         UNCHANGED <<backend, workspaceId, asking, renderer, updates, exits, bounds>>
  PROVE  WindowInv'
<1>1. /\ WindowTypes /\ queue # <<>> /\ queue[1] \in Entries /\ Head(queue) = queue[1] /\ 1 \in 1 .. Len(queue)
      /\ proc \notin {Idle, Looping, Calling, Loading} /\ ~Opens
      /\ proc.result \in TabIds \cup {Null, Failed}
      /\ gone = 0 => /\ MainInv /\ savedTabId # NoTab
                     /\ \A i \in 1 .. Len(queue) : queue[i].op = "switchtab" =>
                          Click(queue[i]) /\ queue[i].tab \in Tabs
  BY ReplyIs
<1>2. UNCHANGED <<tabs, active, home, usedTabs, strayed, workspaceId, asking,
                  shownTabId, known, updates, exits, ops, fails, gone, crossed>>
  BY DEF backend, renderer, bounds
<1>3. Succeeds
  BY DEF Succeeds
<1>4. WindowTypes'
  BY <1>1, ActivateTypes
<1>5. ASSUME gone = 0
      PROVE  /\ activeTabId' = proc.result /\ savedTabId' = proc.result /\ Shift
             /\ echoes' = IF own THEN echoes ELSE Append(echoes, proc.result)
             /\ proc.result # NoTab /\ proc.result \in TabIds
             /\ home # NoWs => workspaceId = home /\ active[home] = proc.result
             /\ home # NoWs /\ queue[1].op = "switchtab" => queue[1].tab = proc.result
  <2>1. /\ activeTabId' = proc.result /\ savedTabId' = proc.result /\ Shift
        /\ echoes' = IF own THEN echoes ELSE Append(echoes, proc.result)
    BY <1>1, <1>5 DEF Activate
  <2>2. home # NoWs => Answered
    BY <1>1, <1>3, <1>5 DEF MainInv
  <2>3. proc.result # NoTab /\ proc.result \in TabIds
    BY <1>1, <1>3, <1>5 DEF MainInv
  <2> QED
    BY <1>1, <2>1, <2>2, <2>3 DEF Answered
<1>6. ASSUME gone = 0
      PROVE  /\ Len(queue) = 1 \/ Len(queue) = 2
             /\ Len(queue) = 1 => queue' = <<>> /\ Len(queue') = 0 /\ proc' = Idle
             /\ Len(queue) = 2 => queue' # <<>> /\ Len(queue') = 1 /\ queue'[1] = queue[2] /\ proc' = Looping
             /\ \A i \in 1 .. Len(queue') : i = 1 /\ 2 \in 1 .. Len(queue) /\ queue'[i] = queue[2]
             /\ ~Replied' /\ ~Succeeds' /\ ~WillTell' /\ proc' # Loading
  BY <1>1, <1>5, <1>6, TailOfQueueIs, ShiftIs DEF Shift, WillTell
<1>7. ASSUME gone = 0 PROVE MainInv'
  <2>1. \A i \in 1 .. Len(queue') : queue'[i].op = "switchtab" => Click(queue'[i]) /\ queue'[i].tab \in Tabs
    BY <1>1, <1>6, <1>7
  <2>2. home' # NoWs => Agreed'
    BY <1>2, <1>5, <1>7 DEF Agreed
  <2>3. ~Opens' /\ savedTabId' # NoTab
    BY <1>5, <1>7 DEF Opens
  <2> QED
    BY <1>1, <1>2, <1>6, <1>7, <2>1, <2>2, <2>3 DEF MainInv, Click
<1>8. ASSUME gone = 0, home # NoWs, ShownInv PROVE ShownInv'
  <2>1. /\ shownTabId # NoTab /\ home \in Workspaces /\ Contains(tabs[home], proc.result)
        /\ echoes \in Seq(TabIds) /\ \A i \in 1 .. Len(echoes) : echoes[i] # NoTab
        /\ NewestList(tabs[home])
    BY <1>1, <1>5, <1>8 DEF ShownInv, WindowTypes
  <2>2. CASE own
    <3>1. echoes' = echoes /\ ~WillTell
      BY <1>5, <1>8, <2>2 DEF WillTell
    <3> QED
      BY <1>2, <1>6, <1>8, <2>1, <3>1 DEF ShownInv, NewestList
  <2>3. CASE ~own
    <3>1. echoes' = Append(echoes, proc.result) /\ proc.result \in TabIds /\ proc.result # NoTab
      BY <1>5, <1>8, <2>3
    <3>2. /\ Len(echoes') = Len(echoes) + 1 /\ echoes'[Len(echoes) + 1] = proc.result
          /\ \A i \in 1 .. Len(echoes) : echoes'[i] = echoes[i]
          /\ \A i \in 1 .. Len(echoes) + 1 : i \in 1 .. Len(echoes) \/ i = Len(echoes) + 1
      BY <2>1, <3>1, AppendIs
    <3>3. \A i \in 1 .. Len(echoes') : echoes'[i] # NoTab
      BY <2>1, <3>1, <3>2
    <3>4. echoes' # <<>> /\ Contains(tabs'[home'], echoes'[Len(echoes')])
      BY <1>2, <2>1, <3>1, <3>2
    <3> QED
      BY <1>2, <1>8, <2>1, <3>3, <3>4 DEF ShownInv, NewestList
  <2> QED
    BY <2>2, <2>3
<1>9. ASSUME gone = 0, home # NoWs, ShownInv, UncrossedInv PROVE UncrossedInv'
  <2>1. /\ shownTabId # NoTab /\ Agrees /\ echoes = <<>> /\ (Len(queue) = 2 => AllClicks)
        /\ IF AllClicks THEN shownTabId = queue[Len(queue)].tab ELSE Len(queue) = 1
    <3>1. shownTabId # NoTab
      BY <1>1, <1>9 DEF ShownInv
    <3>2. Agrees /\ (Len(queue) = 1 \/ AllClicks)
      BY <1>9, <3>1 DEF UncrossedInv
    <3>3. echoes = <<>> /\ (AllClicks => shownTabId = queue[Len(queue)].tab)
      BY <1>1, <3>2 DEF Agrees
    <3>4. Len(queue) = 2 => AllClicks
      BY <3>2
    <3> QED
      BY <3>1, <3>2, <3>3, <3>4
  <2>2. CASE Len(queue) = 2
    <3>1. own /\ AllClicks /\ echoes' = echoes
      BY <1>1, <1>5, <1>9, <2>1, <2>2 DEF AllClicks, Click
    <3>2. /\ echoes' = <<>> /\ queue' # <<>> /\ Len(queue') = 1 /\ queue'[1] = queue[2]
          /\ shownTabId = queue[2].tab /\ proc' # Idle
      BY <1>6, <1>9, <2>1, <2>2, <3>1, StepsAre
    <3>3. AllClicks'
      BY <1>6, <1>9, <3>1 DEF AllClicks, Click
    <3>4. \A i \in 1 .. Len(queue') : queue'[i].op = "switchtab" => Contains(tabs'[home'], queue'[i].tab)
      BY <1>2, <1>6, <1>9 DEF UncrossedInv
    <3> QED
      BY <1>2, <1>9, <3>2, <3>3, <3>4 DEF UncrossedInv, Agrees
  <2>3. CASE Len(queue) = 1
    <3>1. queue' = <<>> /\ Len(queue') = 0 /\ proc' = Idle /\ proc' # Loading /\ activeTabId' = proc.result
      BY <1>5, <1>6, <1>9, <2>3
    <3>2. \A i \in 1 .. Len(queue') : FALSE
      BY <3>1
    <3>3. Agrees'
      <4>1. CASE AllClicks
        <5>1. own /\ shownTabId = queue[1].tab /\ queue[1].op = "switchtab"
          BY <1>1, <2>1, <2>3, <4>1 DEF AllClicks, Click
        <5>2. echoes' = <<>> /\ shownTabId = proc.result
          BY <1>5, <1>9, <2>1, <5>1
        <5> QED
          BY <1>2, <3>1, <5>2 DEF Agrees
      <4>2. CASE ~AllClicks
        <5>1. ~Click(queue[1])
          <6>1. \A i \in 1 .. 1 : i = 1
            OBVIOUS
          <6> QED
            BY <2>3, <4>2, <6>1 DEF AllClicks
        <5>2. ~own
          BY <1>1, <1>9, <5>1
        <5>3. echoes' = Append(<<>>, proc.result) /\ Append(<<>>, proc.result) = <<proc.result>>
          BY <1>5, <1>9, <2>1, <5>2
        <5> QED
          BY <3>1, <5>3 DEF Agrees
      <4> QED
        BY <4>1, <4>2
    <3> QED
      BY <1>2, <1>9, <3>1, <3>2, <3>3 DEF UncrossedInv, AllClicks
  <2> QED
    BY <1>6, <1>9, <2>2, <2>3
<1>10. home' = home /\ gone' = gone /\ strayed' = strayed /\ crossed' = crossed
  BY <1>2
<1>11. gone = 0 /\ home # NoWs /\ ~crossed => ~strayed
  BY DEF WindowInv, UncrossedInv
<1> QED
  BY <1>4, <1>7, <1>8, <1>9, <1>10, <1>11 DEF WindowInv

(* A round goes on with what was answered.                                  *)
LEMMA EndCallKeeps == ASSUME WindowAssumption, WindowInv, Replied, EndCall(Head(queue)) PROVE WindowInv'
<1> DEFINE e == Head(queue)
<1>1. UNCHANGED <<backend, asking, updates, exits, bounds>> /\ Null # Failed
  BY DEF EndCall, Null, Failed
<1>2. CASE proc.result = Failed
  <2>1. Recover /\ Shift /\ UNCHANGED <<windowIds, renderer>>
    BY <1>1, <1>2 DEF EndCall
  <2> QED
    BY <1>1, <1>2, <2>1, EndFailedKeeps
<1>3. CASE proc.result = Null
  <2>1. Return /\ UNCHANGED <<windowIds, renderer, echoes>>
    BY <1>1, <1>3 DEF EndCall
  <2> QED
    BY <1>1, <1>3, <2>1, EndNullKeeps
<1>4. CASE proc.result \notin {Failed, Null} /\ e.op = "switchworkspace"
  <2>1. /\ workspaceId' = e.ws /\ activeTabId' = proc.result /\ savedTabId' = NoTab
        /\ shownTabId' = NoTab /\ known' = <<>> /\ echoes' = <<>>
        /\ proc' = Loading /\ UNCHANGED queue
    BY <1>4 DEF EndCall
  <2> QED
    BY <1>1, <1>4, <2>1, EndSwitchedKeeps
<1>5. CASE proc.result \notin {Failed, Null} /\ e.op # "switchworkspace"
  <2>1. Activate(proc.result, e.op = "switchtab" /\ e.own) /\ UNCHANGED <<workspaceId, renderer>>
    BY <1>5 DEF EndCall
  <2> QED
    BY <1>1, <1>5, <2>1, EndActivatedKeeps
<1> QED
  BY <1>2, <1>3, <1>4, <1>5

(* Lists of tabs that exist are lists of tabs.                              *)
LEMMA TabsAre ==
  ASSUME WindowTypes
  PROVE  \A w \in Workspaces : tabs[w] \in Seq(usedTabs) /\ tabs[w] \in Seq(Tabs)
<1>1. ASSUME NEW w \in Workspaces PROVE tabs[w] \in Seq(usedTabs) /\ tabs[w] \in Seq(Tabs)
  <2>1. tabs[w] \in Seq(usedTabs) /\ usedTabs \subseteq Tabs
    BY DEF WindowTypes
  <2> QED
    BY <2>1, SeqMonotonic
<1> QED
  BY <1>1

(* The view is loaded, and its renderer shows its tab.                      *)
LEMMA LoadViewKeeps == ASSUME WindowAssumption, WindowInv, LoadView PROVE WindowInv'
<1> DEFINE s == TabAfterClose(tabs[home], tabs[home], activeTabId)
<1>1. /\ proc = Loading /\ home # NoWs /\ savedTabId' = activeTabId /\ known' = tabs[home] /\ shownTabId' = s
      /\ echoes' = <<>> /\ updates' = <<>> /\ Shift
      /\ UNCHANGED <<tabs, active, home, usedTabs, strayed, workspaceId, activeTabId, asking, exits, ops, fails, gone, crossed>>
  BY DEF LoadView, backend, bounds
<1>2. /\ WindowTypes /\ queue # <<>> /\ ~Opens /\ home \in Workspaces /\ ~Succeeds /\ NoTab \notin Tabs
      /\ activeTabId \in TabIds
  <2>1. WindowTypes /\ ~Succeeds
    BY <1>1, StepsAre DEF WindowInv, Succeeds, Replied
  <2>2. queue # <<>> /\ ~Opens /\ home \in Workspaces /\ activeTabId \in TabIds
    BY <1>1, <2>1, StepsAre DEF WindowTypes, Opens
  <2> QED
    BY <2>1, <2>2 DEF WindowAssumption
<1>3. /\ Len(queue) = 1 \/ Len(queue) = 2
      /\ queue' \in Seq(Entries) /\ Len(queue') <= 2
      /\ Len(queue) = 1 => queue' = <<>> /\ Len(queue') = 0
      /\ \A i \in 1 .. Len(queue') : i = 1 /\ 2 \in 1 .. Len(queue) /\ queue'[i] = queue[2]
  BY <1>1, <1>2, TailOfQueueIs DEF Shift
<1>4. /\ Len(queue) = 1 => proc' = Idle
      /\ proc' \in Steps /\ ~Replied' /\ ~Succeeds' /\ proc' # Loading
      /\ proc' # Idle => queue' # <<>>
  BY <1>1, <1>2, ShiftIs
<1>5. tabs[home] \in Seq(Tabs)
  BY <1>2, TabsAre
<1>6. s \in TabIds
  BY <1>5, TabAfterCloseIs DEF TabIds
<1> HIDE DEF s
<1>7. WindowTypes'
  <2>1. <<>> \in Seq(TabIds) /\ <<>> \in Seq(Seq(Tabs))
    OBVIOUS
  <2> QED
    BY <1>1, <1>2, <1>3, <1>4, <1>5, <1>6, <2>1 DEF WindowTypes
<1>8. ASSUME gone = 0
      PROVE  MainInv /\ workspaceId = home /\ activeTabId = active[home] /\ activeTabId \in Tabs /\ activeTabId # NoTab
  <2>1. MainInv
    BY <1>8 DEF WindowInv
  <2>2. Agreed /\ active[home] \in Tabs
    BY <1>1, <1>2, <2>1 DEF MainInv
  <2> QED
    BY <1>2, <2>1, <2>2 DEF Agreed
<1>9. ASSUME gone = 0 PROVE MainInv'
  <2>1. \A i \in 1 .. Len(queue') : queue'[i].op = "switchtab" => Click(queue'[i]) /\ queue'[i].tab \in Tabs
    <3>1. 2 # 1
      OBVIOUS
    <3> QED
      BY <1>2, <1>3, <1>8, <1>9, <3>1 DEF MainInv
  <2>2. home' # NoWs => Agreed'
    BY <1>1, <1>8, <1>9 DEF Agreed
  <2>3. ~Opens' /\ savedTabId' # NoTab
    BY <1>1, <1>8, <1>9 DEF Opens
  <2> QED
    BY <1>1, <1>4, <1>8, <1>9, <2>1, <2>2, <2>3 DEF MainInv, Click
<1>10. ASSUME gone = 0, ShownInv PROVE ShownInv' /\ s = activeTabId
  <2>1. Contains(tabs[home], activeTabId)
    BY <1>2, <1>8, <1>10 DEF ShownInv
  <2>2. s = activeTabId
    BY <1>5, <2>1, TabAfterCloseIs DEF s
  <2>3. (\A i \in 1 .. Len(echoes') : FALSE) /\ (\A i \in 1 .. Len(updates') : FALSE)
    BY <1>1
  <2> QED
    BY <1>1, <1>8, <1>10, <2>1, <2>2, <2>3 DEF ShownInv, NewestList
<1>11. ASSUME gone = 0, ShownInv, UncrossedInv PROVE UncrossedInv'
  <2>1. Len(queue) = 1 /\ ~strayed
    BY <1>1, <1>11 DEF UncrossedInv
  <2>2. queue' = <<>> /\ proc' = Idle /\ Len(queue') = 0
    BY <1>3, <1>4, <2>1
  <2>3. (\A i \in 1 .. Len(queue') : FALSE) /\ (\A i \in 1 .. Len(updates') : FALSE)
    BY <1>1, <2>2
  <2>4. Agrees'
    BY <1>1, <1>10, <1>11, <2>2 DEF Agrees
  <2> QED
    BY <1>1, <1>4, <2>1, <2>2, <2>3, <2>4 DEF UncrossedInv, AllClicks
<1>12. gone = 0 /\ ~crossed => ~strayed
  BY <1>1 DEF WindowInv, UncrossedInv
<1> QED
  BY <1>1, <1>7, <1>9, <1>10, <1>11, <1>12 DEF WindowInv

-----------------------------------------------------------------------------
(* The service calls                                                        *)

(* What is known when a call is served.                                     *)
LEMMA CallingIs ==
  ASSUME WindowAssumption, WindowInv, proc = Calling
  PROVE  /\ WindowTypes /\ queue # <<>> /\ queue[1] \in Entries /\ Head(queue) = queue[1] /\ 1 \in 1 .. Len(queue)
         /\ Len(queue) = 1 \/ Len(queue) = 2
         /\ ~Opens /\ ~Succeeds /\ ~Replied /\ ~WillTell /\ NoTab \notin Tabs
         /\ home # NoWs => home \in Workspaces
         /\ gone = 0 => /\ MainInv /\ savedTabId # NoTab /\ (home # NoWs => Agreed)
                        /\ \A i \in 1 .. Len(queue) : queue[i].op = "switchtab" =>
                             Click(queue[i]) /\ queue[i].tab \in Tabs
         /\ gone = 0 /\ ShownInv => shownTabId # NoTab
<1>1. WindowTypes /\ proc \in Steps
  BY DEF WindowInv, WindowTypes
<1>2. ~Opens /\ ~Succeeds /\ ~Replied /\ ~WillTell /\ proc # Loading /\ queue # <<>>
  BY <1>1, StepsAre DEF WindowTypes, Opens, Succeeds, Replied, WillTell
<1>3. queue \in Seq(Entries) /\ Len(queue) <= 2
  BY <1>1 DEF WindowTypes
<1>4. /\ queue[1] \in Entries /\ Head(queue) = queue[1] /\ 1 \in 1 .. Len(queue)
      /\ Len(queue) = 1 \/ Len(queue) = 2
  <2>1. Len(queue) \in 1 .. 2
    BY <1>2, <1>3, AtMostTwo
  <2>2. \A n \in 1 .. 2 : n = 1 \/ n = 2
    OBVIOUS
  <2> QED
    BY <1>2, <1>3, <2>1, <2>2, TailIs
<1>5. ASSUME gone = 0
      PROVE  /\ MainInv /\ savedTabId # NoTab /\ (home # NoWs => Agreed)
             /\ \A i \in 1 .. Len(queue) : queue[i].op = "switchtab" => Click(queue[i]) /\ queue[i].tab \in Tabs
             /\ ShownInv => shownTabId # NoTab
  <2>1. MainInv
    BY <1>5 DEF WindowInv
  <2>2. savedTabId # NoTab /\ (home # NoWs => Agreed)
    BY <1>2, <2>1 DEF MainInv
  <2> QED
    BY <1>1, <1>2, <2>1, <2>2, QueueHolds DEF ShownInv
<1>6. home # NoWs => home \in Workspaces
  BY <1>1 DEF WindowTypes
<1> QED
  BY <1>1, <1>2, <1>4, <1>5, <1>6 DEF WindowAssumption

(* The answer to a call.                                                    *)
LEMMA AnswerIs ==
  ASSUME WindowAssumption, NEW r \in TabIds \cup {Null, Failed}, proc' = Reply(r)
  PROVE  /\ proc' \in Steps /\ proc' \notin {Idle, Looping, Calling, Loading} /\ proc'.result = r
         /\ Replied' /\ (Succeeds' <=> r \notin {Null, Failed}) /\ ~Opens'
         /\ r \in Tabs => Succeeds' /\ r # NoTab
         /\ Null # Failed
<1>1. /\ proc' \in Steps /\ proc' \notin {Idle, Looping, Calling, Loading} /\ proc'.at = "reply" /\ proc'.result = r
  BY StepsAre
<1>2. r \in Tabs => r \notin {Null, Failed} /\ r # NoTab
  BY DEF WindowAssumption
<1>3. Null # Failed
  BY DEF Null, Failed
<1> QED
  BY <1>1, <1>2, <1>3 DEF Replied, Succeeds, Opens

(* The list of a workspace is sent to the renderer.                         *)
LEMMA ToldIs ==
  ASSUME WindowTypes, NEW list \in Seq(Tabs), updates' = Append(updates, list)
  PROVE  /\ updates' \in Seq(Seq(Tabs)) /\ updates' # <<>> /\ updates'[Len(updates')] = list
         /\ \A i \in 1 .. Len(updates') : updates'[i] = list \/ (i \in 1 .. Len(updates) /\ updates'[i] = updates[i])
<1>1. updates \in Seq(Seq(Tabs))
  BY DEF WindowTypes
<1>2. /\ updates' \in Seq(Seq(Tabs)) /\ Len(updates') = Len(updates) + 1 /\ Len(updates) \in Nat
      /\ \A i \in 1 .. Len(updates) : updates'[i] = updates[i]
      /\ updates'[Len(updates) + 1] = list
      /\ \A i \in 1 .. Len(updates) + 1 : i \in 1 .. Len(updates) \/ i = Len(updates) + 1
  BY <1>1, AppendIs
<1>3. updates' # <<>>
  BY <1>1
<1> QED
  BY <1>2, <1>3

(* A call that is refused or comes to nothing changes nothing.              *)
LEMMA RefusedKeeps ==
  ASSUME WindowAssumption, WindowInv, proc = Calling, NEW r \in {Null, Failed}, proc' = Reply(r),
         r = Null => Head(queue).op = "switchworkspace",
         UNCHANGED <<backend, windowIds, queue, asking, renderer, wires, ops, gone, crossed>>, fails' \in Nat
  PROVE  WindowInv'
<1>1. /\ WindowTypes /\ queue # <<>> /\ ~Opens /\ ~Succeeds /\ ~Replied /\ ~WillTell
      /\ gone = 0 => /\ MainInv /\ savedTabId # NoTab /\ (home # NoWs => Agreed)
                     /\ \A i \in 1 .. Len(queue) : queue[i].op = "switchtab" =>
                          Click(queue[i]) /\ queue[i].tab \in Tabs
  BY CallingIs
<1>2. /\ proc' \in Steps /\ proc' \notin {Idle, Looping, Calling, Loading} /\ proc'.result = r
      /\ ~Succeeds' /\ ~Opens' /\ ~WillTell' /\ (r = Null \/ r = Failed)
  BY AnswerIs DEF WillTell
<1>3. UNCHANGED <<tabs, active, home, usedTabs, strayed, workspaceId, activeTabId, savedTabId, queue, asking,
                  shownTabId, known, echoes, updates, exits, ops, gone, crossed>>
  BY DEF backend, windowIds, renderer, wires
<1>4. WindowTypes'
  BY <1>1, <1>2, <1>3 DEF WindowTypes
<1>5. ASSUME gone = 0 PROVE MainInv'
  <2>1. Agreed' = Agreed
    BY <1>3 DEF Agreed
  <2> QED
    BY <1>1, <1>2, <1>3, <1>5, <2>1 DEF MainInv, Click
<1>6. ShownInv => ShownInv'
  BY <1>1, <1>2, <1>3 DEF ShownInv, NewestList
<1>7. UncrossedInv => UncrossedInv'
  BY <1>1, <1>2, <1>3 DEF UncrossedInv, Agrees, AllClicks, Click
<1> QED
  BY <1>3, <1>4, <1>5, <1>6, <1>7 DEF WindowInv

(* A call that fails changes nothing but the answer.                        *)
LEMMA CallFailsKeeps == ASSUME WindowAssumption, WindowInv, CallFails PROVE WindowInv'
<1>1. /\ proc = Calling /\ proc' = Reply(Failed) /\ fails' = fails + 1 /\ Null # Failed
      /\ UNCHANGED <<backend, windowIds, queue, asking, renderer, wires, ops, gone, crossed>>
  BY DEF CallFails, Null, Failed
<1>2. fails' \in Nat
  BY <1>1 DEF WindowInv, WindowTypes
<1> QED
  BY <1>1, <1>2, RefusedKeeps

(* A new tab, the active one.                                               *)
LEMMA ServeCreateKeeps ==
  ASSUME WindowAssumption, WindowInv, proc = Calling, home # NoWs, Head(queue).op = "createtab", ServeCreate,
         UNCHANGED <<windowIds, queue, asking, renderer, echoes, exits, bounds>>
  PROVE  WindowInv'
<1>1. PICK t \in Tabs \ usedTabs :
        /\ tabs' = [tabs EXCEPT ![workspaceId] = Append(@, t)]
        /\ active' = [active EXCEPT ![workspaceId] = t]
        /\ usedTabs' = usedTabs \cup {t}
        /\ proc' = Reply(t)
        /\ PublishTabs(workspaceId, Append(tabs[workspaceId], t))
  BY DEF ServeCreate
<1> DEFINE new == Append(tabs[workspaceId], t)
<1>2. UNCHANGED <<home, strayed, workspaceId, activeTabId, savedTabId, queue, asking, shownTabId, known, echoes,
                  exits, ops, fails, gone, crossed>>
  BY DEF ServeCreate, windowIds, renderer, bounds
<1>3. /\ WindowTypes /\ queue # <<>> /\ queue[1] \in Entries /\ Head(queue) = queue[1] /\ 1 \in 1 .. Len(queue)
      /\ ~Opens /\ ~Succeeds /\ ~Replied /\ ~WillTell /\ NoTab \notin Tabs /\ home \in Workspaces
      /\ gone = 0 => /\ MainInv /\ savedTabId # NoTab /\ Agreed
                     /\ \A i \in 1 .. Len(queue) : queue[i].op = "switchtab" =>
                          Click(queue[i]) /\ queue[i].tab \in Tabs
      /\ gone = 0 /\ ShownInv => shownTabId # NoTab
  BY CallingIs
<1>4. /\ proc' \in Steps /\ proc' \notin {Idle, Looping, Calling, Loading} /\ proc'.result = t
      /\ Succeeds' /\ Replied' /\ ~Opens' /\ t # NoTab /\ t \notin {Null, Failed}
  BY <1>1, AnswerIs DEF TabIds
<1>5. /\ workspaceId \in Workspaces /\ tabs \in [Workspaces -> Seq(usedTabs)] /\ active \in [Workspaces -> TabIds]
      /\ tabs[workspaceId] \in Seq(usedTabs) /\ usedTabs' \subseteq Tabs
  BY <1>1, <1>3 DEF WindowTypes
<1>6. /\ new \in Seq(usedTabs') /\ new \in Seq(Tabs) /\ new # <<>>
      /\ Contains(new, t) /\ \A x : Contains(tabs[workspaceId], x) => Contains(new, x)
  <2>1. tabs[workspaceId] \in Seq(usedTabs') /\ t \in usedTabs'
    BY <1>1, <1>5, SeqMonotonic
  <2>2. new \in Seq(usedTabs') /\ Contains(new, t)
    <3>1. /\ new \in Seq(usedTabs') /\ Len(new) = Len(tabs[workspaceId]) + 1
          /\ new[Len(tabs[workspaceId]) + 1] = t
          /\ Len(tabs[workspaceId]) + 1 \in 1 .. Len(tabs[workspaceId]) + 1
      BY <2>1, AppendIs
    <3> QED
      BY <3>1 DEF Contains
  <2>3. new \in Seq(Tabs)
    BY <1>5, <2>2, SeqMonotonic
  <2>4. new # <<>>
    BY <2>2, ContainsIs
  <2>5. ASSUME NEW x, Contains(tabs[workspaceId], x) PROVE Contains(new, x)
    BY <2>1, <2>5, ContainsIs
  <2> QED
    BY <2>2, <2>3, <2>4, <2>5
<1> HIDE DEF new
<1>7. /\ \A w \in Workspaces : tabs'[w] = IF w = workspaceId THEN new ELSE tabs[w]
      /\ \A w \in Workspaces : active'[w] = IF w = workspaceId THEN t ELSE active[w]
      /\ tabs' \in [Workspaces -> Seq(usedTabs')] /\ active' \in [Workspaces -> TabIds]
  <2>1. tabs' = [tabs EXCEPT ![workspaceId] = new] /\ active' = [active EXCEPT ![workspaceId] = t]
    BY <1>1 DEF new
  <2>2. \A w \in Workspaces : tabs[w] \in Seq(usedTabs')
    BY <1>1, <1>5, SeqMonotonic
  <2>3. t \in TabIds
    BY <1>1 DEF TabIds
  <2> QED
    BY <1>5, <1>6, <2>1, <2>2, <2>3
<1>8. updates' \in Seq(Seq(Tabs))
  <2>1. updates' = updates \/ updates' = Append(updates, new)
    BY <1>1 DEF PublishTabs, new
  <2> QED
    BY <1>3, <1>6, <2>1, ToldIs DEF WindowTypes
<1>9. WindowTypes'
  BY <1>2, <1>3, <1>4, <1>5, <1>7, <1>8 DEF WindowTypes
<1>10. ASSUME gone = 0 PROVE MainInv'
  <2>1. \A w \in Workspaces : active'[w] \in Tabs
    BY <1>1, <1>3, <1>7, <1>10 DEF MainInv
  <2>2. Answered'
    BY <1>2, <1>3, <1>4, <1>5, <1>7, <1>10 DEF Answered, Agreed
  <2> QED
    BY <1>2, <1>3, <1>4, <1>10, <2>1, <2>2 DEF MainInv, Click
<1>11. ASSUME gone = 0, ShownInv
       PROVE  /\ updates' = Append(updates, new) /\ updates' # <<>> /\ updates'[Len(updates')] = new
              /\ \A i \in 1 .. Len(updates') : updates'[i] = new \/ (i \in 1 .. Len(updates) /\ updates'[i] = updates[i])
              /\ tabs'[home] = new /\ workspaceId = home
  <2>1. updates' = Append(updates, new) /\ workspaceId = home
    BY <1>1, <1>3, <1>11 DEF PublishTabs, Agreed, new
  <2> QED
    BY <1>3, <1>6, <1>7, <2>1, ToldIs
<1>12. ASSUME gone = 0, ShownInv PROVE ShownInv'
  <2>1. \A w \in Workspaces : Contains(tabs'[w], active'[w])
    BY <1>6, <1>7, <1>12 DEF ShownInv
  <2>2. NewestList(tabs[home])'
    BY <1>2, <1>11, <1>12 DEF NewestList
  <2>3. echoes' # <<>> => Contains(tabs'[home'], echoes'[Len(echoes')])
    BY <1>2, <1>3, <1>6, <1>11, <1>12 DEF ShownInv
  <2>4. \A i \in 1 .. Len(updates') : updates'[i] # <<>>
    BY <1>6, <1>11, <1>12 DEF ShownInv
  <2> QED
    BY <1>2, <1>3, <1>11, <1>12, <2>1, <2>2, <2>3, <2>4 DEF ShownInv
<1>13. ASSUME gone = 0, ShownInv, UncrossedInv PROVE UncrossedInv'
  <2>1. ~AllClicks
    BY <1>3 DEF AllClicks, Click
  <2>2. Len(queue) = 1 /\ echoes = <<>> /\ updates = <<>> /\ ~strayed
    BY <1>3, <1>13, <2>1 DEF UncrossedInv, Agrees
  <2>3. \A i \in 1 .. Len(queue) : i = 1 /\ queue[i].op # "switchtab"
    <3>1. \A i \in 1 .. 1 : i = 1
      OBVIOUS
    <3> QED
      BY <1>3, <2>2, <3>1
  <2>4. \A i \in 1 .. Len(updates') : updates'[i] = tabs'[home']
    <3>1. \A i \in 1 .. Len(updates) : FALSE
      BY <2>2
    <3> QED
      BY <1>2, <1>11, <1>13, <3>1
  <2>5. Agrees'
    BY <1>2, <1>3, <1>4, <2>1, <2>2 DEF Agrees, AllClicks, Click
  <2> QED
    BY <1>2, <1>4, <2>2, <2>3, <2>4, <2>5 DEF UncrossedInv
<1>14. gone = 0 /\ ~crossed => ~strayed
  BY DEF WindowInv, UncrossedInv
<1> QED
  BY <1>2, <1>9, <1>10, <1>12, <1>13, <1>14 DEF WindowInv

(* The clicked tab becomes the active one.                                  *)
LEMMA ServeSetActiveKeeps ==
  ASSUME WindowAssumption, WindowInv, proc = Calling, home # NoWs, Head(queue).op = "switchtab",
         ServeSetActive(Head(queue).tab),
         UNCHANGED <<windowIds, queue, asking, renderer, echoes, exits, bounds>>
  PROVE  WindowInv'
<1> DEFINE t == Head(queue).tab
<1>1. UNCHANGED <<tabs, home, usedTabs, workspaceId, activeTabId, savedTabId, queue, asking, shownTabId, known,
                  echoes, exits, ops, fails, gone, crossed>>
  BY DEF ServeSetActive, windowIds, renderer, bounds
<1>2. /\ WindowTypes /\ queue # <<>> /\ queue[1] \in Entries /\ Head(queue) = queue[1] /\ 1 \in 1 .. Len(queue)
      /\ Len(queue) = 1 \/ Len(queue) = 2
      /\ ~Opens /\ ~Succeeds /\ ~Replied /\ ~WillTell /\ NoTab \notin Tabs /\ home \in Workspaces
      /\ gone = 0 => /\ MainInv /\ savedTabId # NoTab /\ Agreed
                     /\ \A i \in 1 .. Len(queue) : queue[i].op = "switchtab" =>
                          Click(queue[i]) /\ queue[i].tab \in Tabs
      /\ gone = 0 /\ ShownInv => shownTabId # NoTab
  BY CallingIs
<1>3. t \in TabIds /\ workspaceId \in Workspaces /\ active \in [Workspaces -> TabIds] /\ t = queue[1].tab
  <2>1. \A x \in Entries : x.op = "switchtab" => x.tab \in TabIds
    BY DEF Entries, TabIds
  <2> QED
    BY <1>2, <2>1 DEF WindowTypes
<1> HIDE DEF t
<1>4. CASE ~\E w \in Workspaces : Contains(tabs[w], t)
  <2>1. proc' = Reply(Failed) /\ UNCHANGED <<active, updates, strayed>>
    BY <1>4 DEF ServeSetActive, t
  <2>2. fails' \in Nat /\ Null # Failed
    BY <1>1, <1>2 DEF WindowTypes, Null, Failed
  <2> QED
    BY <1>1, <2>1, <2>2, RefusedKeeps DEF backend, windowIds, renderer, wires
<1>5. CASE \E w \in Workspaces : Contains(tabs[w], t)
  <2>1. /\ active' = [active EXCEPT ![workspaceId] = t]
        /\ PublishTabs(workspaceId, tabs[workspaceId])
        /\ proc' = Reply(t)
        /\ strayed' = (strayed \/ ~Contains(tabs[workspaceId], t))
    BY <1>5 DEF ServeSetActive, t
  <2>2. t \in Tabs
    <3>1. PICK w \in Workspaces : Contains(tabs[w], t)
      BY <1>5
    <3> QED
      BY <1>2, <3>1, TabsAre, ContainsIs
  <2>3. /\ proc' \in Steps /\ proc' \notin {Idle, Looping, Calling, Loading} /\ proc'.result = t
        /\ Succeeds' /\ Replied' /\ ~Opens' /\ t # NoTab /\ t \notin {Null, Failed}
    BY <1>3, <2>1, <2>2, AnswerIs
  <2>4. /\ \A w \in Workspaces : active'[w] = IF w = workspaceId THEN t ELSE active[w]
        /\ active' \in [Workspaces -> TabIds]
    BY <1>3, <2>1
  <2>5. tabs[workspaceId] \in Seq(Tabs)
    BY <1>2, <1>3, TabsAre
  <2>6. updates' \in Seq(Seq(Tabs))
    <3>1. updates' = updates \/ updates' = Append(updates, tabs[workspaceId])
      BY <2>1 DEF PublishTabs
    <3> QED
      BY <1>2, <2>5, <3>1, ToldIs DEF WindowTypes
  <2>7. WindowTypes'
    <3>1. strayed' \in BOOLEAN
      BY <2>1
    <3> QED
      BY <1>1, <1>2, <1>3, <2>3, <2>4, <2>6, <3>1 DEF WindowTypes
  <2>8. ASSUME gone = 0 PROVE MainInv'
    <3>1. \A w \in Workspaces : active'[w] \in Tabs
      BY <1>1, <1>2, <2>2, <2>4, <2>8 DEF MainInv
    <3>2. Answered'
      BY <1>1, <1>2, <1>3, <2>3, <2>4, <2>8 DEF Answered, Agreed
    <3> QED
      BY <1>1, <1>2, <2>3, <2>8, <3>1, <3>2 DEF MainInv, Click
  <2>9. ~WillTell'
    BY <1>1 DEF WillTell
  <2>10. ASSUME gone = 0, ShownInv
         PROVE  /\ updates' # <<>> /\ updates'[Len(updates')] = tabs[home]
                /\ \A i \in 1 .. Len(updates') :
                     updates'[i] = tabs[home] \/ (i \in 1 .. Len(updates) /\ updates'[i] = updates[i])
                /\ workspaceId = home /\ tabs[home] # <<>>
    <3>1. updates' = Append(updates, tabs[home]) /\ workspaceId = home
      BY <1>2, <2>1, <2>10 DEF PublishTabs, Agreed
    <3>2. tabs[home] # <<>>
      BY <1>2, <2>5, <2>10, <3>1, ContainsIs DEF ShownInv
    <3> QED
      BY <1>2, <2>5, <3>1, <3>2, ToldIs
  <2>11. ASSUME gone = 0, ShownInv, Contains(tabs[workspaceId], t) PROVE ShownInv'
    <3>1. \A w \in Workspaces : Contains(tabs'[w], active'[w])
      BY <1>1, <2>4, <2>11 DEF ShownInv
    <3>2. NewestList(tabs[home])'
      BY <1>1, <2>10, <2>11 DEF NewestList
    <3>3. echoes' # <<>> => Contains(tabs'[home'], echoes'[Len(echoes')])
      BY <1>1, <1>2, <2>11 DEF ShownInv
    <3>4. \A i \in 1 .. Len(updates') : updates'[i] # <<>>
      BY <2>10, <2>11 DEF ShownInv
    <3> QED
      BY <1>1, <1>2, <2>10, <2>11, <3>1, <3>2, <3>3, <3>4 DEF ShownInv
  <2>12. ASSUME gone = 0, ShownInv, UncrossedInv PROVE UncrossedInv'
    <3>1. Contains(tabs[workspaceId], t) /\ ~strayed /\ ~strayed'
      BY <1>2, <1>3, <2>1, <2>10, <2>12 DEF UncrossedInv
    <3>2. AllClicks /\ AllClicks'
      <4>1. AllClicks
        <5>1. \A i \in 1 .. 1 : i = 1
          OBVIOUS
        <5> QED
          BY <1>2, <2>12, <5>1 DEF UncrossedInv, AllClicks
      <4> QED
        BY <1>1, <4>1 DEF AllClicks, Click
    <3>3. echoes = <<>> /\ shownTabId = queue[Len(queue)].tab
      BY <1>2, <2>12, <3>2 DEF UncrossedInv, Agrees
    <3>4. \A i \in 1 .. Len(updates') : updates'[i] = tabs'[home']
      BY <1>1, <1>2, <2>10, <2>12 DEF UncrossedInv
    <3>5. \A i \in 1 .. Len(queue') : queue'[i].op = "switchtab" => Contains(tabs'[home'], queue'[i].tab)
      BY <1>1, <2>12 DEF UncrossedInv
    <3>6. Len(queue') = 1 \/ (AllClicks' /\ proc' # Loading)
      BY <2>3, <3>2
    <3>7. Agrees'
      BY <1>1, <1>2, <3>2, <3>3 DEF Agrees
    <3> QED
      BY <1>1, <2>3, <3>1, <3>4, <3>5, <3>6, <3>7 DEF UncrossedInv
  <2>13. ~strayed' => ~strayed /\ Contains(tabs[workspaceId], t)
    BY <2>1
  <2>14. gone = 0 /\ home # NoWs /\ ~crossed => ~strayed
    BY DEF WindowInv, UncrossedInv
  <2> QED
    BY <1>1, <2>7, <2>8, <2>11, <2>12, <2>13, <2>14 DEF WindowInv
<1> QED
  BY <1>4, <1>5

(* The tab that takes the place of a closed one is in what is left.         *)
LEMMA ActiveAfterIs ==
  ASSUME WindowTypes, NEW w \in Workspaces, NEW t, Contains(tabs[w], t)
  PROVE  /\ Without(tabs[w], t) \in Seq(usedTabs) /\ Without(tabs[w], t) \in Seq(Tabs)
         /\ ActiveAfter(w, t) \in TabIds
         /\ Contains(tabs[w], active[w]) /\ ActiveAfter(w, t) # NoTab =>
              Contains(Without(tabs[w], t), ActiveAfter(w, t)) /\ Without(tabs[w], t) # <<>>
<1> DEFINE q == tabs[w]
           r == Without(q, t)
           a == ActiveAfter(w, t)
<1>1. q \in Seq(usedTabs) /\ usedTabs \subseteq Tabs /\ active[w] \in TabIds
  BY DEF WindowTypes
<1>2. a = IF active[w] # t THEN active[w] ELSE Neighbour(q, r, t)
  BY DEF ActiveAfter
<1>3. Contains(q, t)
  OBVIOUS
<1> HIDE DEF q, a
<1>4. r \in Seq(usedTabs) /\ \A x : Contains(q, x) /\ x # t => Contains(r, x)
  BY <1>1, <1>3, WithoutIs
<1>5. r \in Seq(Tabs)
  BY <1>1, <1>4, SeqMonotonic
<1> HIDE DEF r
<1>6. /\ r = <<>> => Neighbour(q, r, t) = NoTab
      /\ r # <<>> => Neighbour(q, r, t) \in usedTabs /\ Contains(r, Neighbour(q, r, t))
  BY <1>1, <1>4, NeighbourIs
<1>7. a \in TabIds
  BY <1>1, <1>2, <1>6 DEF TabIds
<1>8. ASSUME Contains(q, active[w]), a # NoTab PROVE Contains(r, a) /\ r # <<>>
  <2>1. Contains(r, a)
    BY <1>2, <1>4, <1>6, <1>8
  <2> QED
    BY <1>4, <2>1, ContainsIs
<1> QED
  BY <1>4, <1>5, <1>7, <1>8 DEF q, r, a

(* What a deleted tab leaves is of its type.                                *)
LEMMA DeleteTabIs ==
  ASSUME WindowTypes, NEW w \in Workspaces, NEW t, Contains(tabs[w], t), DeleteTab(w, t), usedTabs' = usedTabs
  PROVE  /\ \A v \in Workspaces : tabs'[v] = IF v = w THEN Without(tabs[w], t) ELSE tabs[v]
         /\ \A v \in Workspaces : active'[v] = IF v = w THEN ActiveAfter(w, t) ELSE active[v]
         /\ tabs' \in [Workspaces -> Seq(usedTabs')] /\ active' \in [Workspaces -> TabIds]
         /\ home' = IF ActiveAfter(w, t) = NoTab /\ w = home THEN NoWs ELSE home
         /\ updates' \in Seq(Seq(Tabs))
         /\ PublishTabs(w, Without(tabs[w], t))
<1> DEFINE r == Without(tabs[w], t)
           a == ActiveAfter(w, t)
<1>1. /\ tabs' = [tabs EXCEPT ![w] = r] /\ active' = [active EXCEPT ![w] = a]
      /\ home' = IF a = NoTab /\ w = home THEN NoWs ELSE home
      /\ PublishTabs(w, r)
  BY DEF DeleteTab
<1>2. r \in Seq(usedTabs) /\ r \in Seq(Tabs) /\ a \in TabIds
  BY ActiveAfterIs
<1> HIDE DEF r, a
<1>3. tabs \in [Workspaces -> Seq(usedTabs)] /\ active \in [Workspaces -> TabIds]
  BY DEF WindowTypes
<1>4. /\ \A v \in Workspaces : tabs'[v] = IF v = w THEN r ELSE tabs[v]
      /\ \A v \in Workspaces : active'[v] = IF v = w THEN a ELSE active[v]
      /\ tabs' \in [Workspaces -> Seq(usedTabs)] /\ active' \in [Workspaces -> TabIds]
  BY <1>1, <1>2, <1>3
<1>5. updates' \in Seq(Seq(Tabs))
  <2>1. updates' = updates \/ updates' = Append(updates, r)
    BY <1>1 DEF PublishTabs
  <2> QED
    BY <1>2, <2>1, ToldIs DEF WindowTypes
<1> QED
  BY <1>1, <1>4, <1>5 DEF r, a

(* A tab of the window is closed, and with the last one the window.         *)
LEMMA ServeCloseKeeps ==
  ASSUME WindowAssumption, WindowInv, proc = Calling, home # NoWs, Head(queue).op = "closetab",
         ServeClose(Head(queue).tab),
         UNCHANGED <<windowIds, queue, asking, renderer, echoes, exits, bounds>>
  PROVE  WindowInv'
<1> DEFINE t == Head(queue).tab
           a == ActiveAfter(workspaceId, t)
           r == Without(tabs[workspaceId], t)
<1>1. UNCHANGED <<usedTabs, strayed, workspaceId, activeTabId, savedTabId, queue, asking, shownTabId, known,
                  echoes, exits, ops, fails, gone, crossed>>
  BY DEF ServeClose, windowIds, renderer, bounds
<1>2. /\ WindowTypes /\ queue # <<>> /\ Head(queue) = queue[1] /\ 1 \in 1 .. Len(queue)
      /\ ~Opens /\ ~Succeeds /\ ~Replied /\ ~WillTell /\ NoTab \notin Tabs /\ home \in Workspaces
      /\ gone = 0 => /\ MainInv /\ savedTabId # NoTab /\ Agreed
                     /\ \A i \in 1 .. Len(queue) : queue[i].op = "switchtab" =>
                          Click(queue[i]) /\ queue[i].tab \in Tabs
      /\ gone = 0 /\ ShownInv => shownTabId # NoTab
  BY CallingIs
<1>3. workspaceId \in Workspaces /\ tabs[workspaceId] \in Seq(Tabs)
  BY <1>2, TabsAre DEF WindowTypes
<1>4. CASE ~Contains(tabs[workspaceId], t)
  <2>1. proc' = Reply(Failed) /\ UNCHANGED <<tabs, active, home, updates>>
    BY <1>4 DEF ServeClose
  <2>2. fails' \in Nat /\ Null # Failed
    BY <1>1, <1>2 DEF WindowTypes, Null, Failed
  <2> QED
    BY <1>1, <2>1, <2>2, RefusedKeeps DEF backend, windowIds, renderer, wires
<1>5. CASE Contains(tabs[workspaceId], t)
  <2>1. /\ DeleteTab(workspaceId, t)
        /\ proc' = Reply(IF active'[workspaceId] = NoTab THEN Null ELSE active'[workspaceId])
    BY <1>5 DEF ServeClose
  <2>2. /\ \A v \in Workspaces : tabs'[v] = IF v = workspaceId THEN r ELSE tabs[v]
        /\ \A v \in Workspaces : active'[v] = IF v = workspaceId THEN a ELSE active[v]
        /\ tabs' \in [Workspaces -> Seq(usedTabs')] /\ active' \in [Workspaces -> TabIds]
        /\ home' = IF a = NoTab /\ workspaceId = home THEN NoWs ELSE home
        /\ updates' \in Seq(Seq(Tabs))
        /\ PublishTabs(workspaceId, r)
    BY <1>1, <1>2, <1>3, <1>5, <2>1, DeleteTabIs
  <2>3. /\ r \in Seq(Tabs) /\ a \in TabIds
        /\ Contains(tabs[workspaceId], active[workspaceId]) /\ a # NoTab => Contains(r, a) /\ r # <<>>
    BY <1>2, <1>3, <1>5, ActiveAfterIs
  <2> HIDE DEF r, a
  <2>4. /\ proc' = Reply(IF a = NoTab THEN Null ELSE a)
        /\ (IF a = NoTab THEN Null ELSE a) \in TabIds \cup {Null, Failed}
    BY <1>3, <2>1, <2>2, <2>3
  <2>5. /\ proc' \in Steps /\ proc' \notin {Idle, Looping, Calling, Loading}
        /\ proc'.result = IF a = NoTab THEN Null ELSE a
        /\ Replied' /\ ~Opens' /\ (Succeeds' <=> a # NoTab)
    <3>1. /\ proc' \in Steps /\ proc' \notin {Idle, Looping, Calling, Loading}
          /\ proc'.result = IF a = NoTab THEN Null ELSE a
          /\ Replied' /\ ~Opens' /\ (Succeeds' <=> (IF a = NoTab THEN Null ELSE a) \notin {Null, Failed})
      BY <2>4, AnswerIs
    <3>2. a # NoTab => a \notin {Null, Failed}
      BY <2>3 DEF TabIds, WindowAssumption
    <3> QED
      BY <3>1, <3>2
  <2>6. WindowTypes'
    <3>1. home' \in Workspaces \cup {NoWs} /\ usedTabs' \subseteq Tabs
      BY <1>1, <1>2, <2>2 DEF WindowTypes
    <3> QED
      BY <1>1, <1>2, <2>2, <2>5, <3>1 DEF WindowTypes
  <2>7. ASSUME gone = 0, home' # NoWs PROVE home' = home /\ workspaceId = home /\ a # NoTab /\ a \in Tabs
    BY <1>2, <2>2, <2>3, <2>7 DEF Agreed, TabIds
  <2>8. ASSUME gone = 0 PROVE MainInv'
    <3>1. ASSUME home' # NoWs PROVE (\A w \in Workspaces : active'[w] \in Tabs) /\ Answered' /\ proc'.result # Null
      <4>1. \A w \in Workspaces : active'[w] \in Tabs
        BY <1>2, <2>2, <2>7, <2>8, <3>1 DEF MainInv
      <4>2. Answered'
        BY <1>1, <1>2, <1>3, <2>2, <2>5, <2>7, <2>8, <3>1 DEF Answered
      <4>3. proc'.result # Null
        BY <2>5, <2>7, <2>8, <3>1 DEF WindowAssumption
      <4> QED
        BY <4>1, <4>2, <4>3
    <3>2. Succeeds' => proc'.result # NoTab
      BY <2>5
    <3>3. home' # NoWs => Succeeds'
      BY <2>5, <2>7, <2>8
    <3> QED
      BY <1>1, <1>2, <2>5, <2>8, <3>1, <3>2, <3>3 DEF MainInv, Click
  <2>9. ASSUME gone = 0, ShownInv, home' # NoWs
        PROVE  /\ updates' # <<>> /\ updates'[Len(updates')] = r
               /\ \A i \in 1 .. Len(updates') : updates'[i] = r \/ (i \in 1 .. Len(updates) /\ updates'[i] = updates[i])
               /\ tabs'[home] = r /\ r # <<>> /\ Contains(r, a)
    <3>1. updates' = Append(updates, r)
      BY <1>2, <2>2, <2>7, <2>9 DEF PublishTabs
    <3>2. r # <<>> /\ Contains(r, a) /\ tabs'[home] = r
      BY <1>3, <2>2, <2>3, <2>7, <2>9 DEF ShownInv
    <3> QED
      BY <1>2, <2>3, <3>1, <3>2, ToldIs
  <2>10. ASSUME gone = 0, ShownInv, home' # NoWs PROVE ShownInv'
    <3>1. \A w \in Workspaces : Contains(tabs'[w], active'[w])
      BY <2>2, <2>9, <2>10 DEF ShownInv
    <3>2. NewestList(tabs[home])' /\ WillTell'
      <4>1. WillTell'
        BY <1>1, <2>5, <2>7, <2>10 DEF WillTell
      <4> QED
        BY <1>1, <2>7, <2>9, <2>10, <4>1 DEF NewestList
    <3>3. \A i \in 1 .. Len(updates') : updates'[i] # <<>>
      BY <2>9, <2>10 DEF ShownInv
    <3> QED
      BY <1>1, <1>2, <2>10, <3>1, <3>2, <3>3 DEF ShownInv
  <2>11. ASSUME gone = 0, ShownInv, UncrossedInv, home' # NoWs PROVE UncrossedInv'
    <3>1. ~AllClicks
      BY <1>2 DEF AllClicks, Click
    <3>2. Len(queue) = 1 /\ echoes = <<>> /\ updates = <<>> /\ ~strayed
      BY <1>2, <2>11, <3>1 DEF UncrossedInv, Agrees
    <3>3. \A i \in 1 .. Len(queue) : i = 1 /\ queue[i].op # "switchtab"
      <4>1. \A i \in 1 .. 1 : i = 1
        OBVIOUS
      <4> QED
        BY <1>2, <3>2, <4>1
    <3>4. \A i \in 1 .. Len(updates') : updates'[i] = tabs'[home']
      <4>1. \A i \in 1 .. Len(updates) : FALSE
        BY <3>2
      <4> QED
        BY <2>7, <2>9, <2>11, <4>1
    <3>5. Agrees'
      BY <1>1, <1>2, <2>5, <2>7, <2>11, <3>1, <3>2 DEF Agrees, AllClicks, Click
    <3> QED
      BY <1>1, <2>5, <3>2, <3>3, <3>4, <3>5 DEF UncrossedInv
  <2>12. gone = 0 /\ ~crossed => ~strayed
    BY DEF WindowInv, UncrossedInv
  <2> QED
    BY <1>1, <2>6, <2>8, <2>10, <2>11, <2>12 DEF WindowInv
<1> QED
  BY <1>4, <1>5

(* The window is given another workspace, or another window is focused.     *)
LEMMA ServeWorkspaceKeeps ==
  ASSUME WindowAssumption, WindowInv, proc = Calling, home # NoWs, Head(queue).op = "switchworkspace",
         ServeWorkspace(Head(queue).ws),
         UNCHANGED <<windowIds, queue, asking, renderer, echoes, exits, bounds>>
  PROVE  WindowInv'
<1> DEFINE w == Head(queue).ws
<1>1. UNCHANGED <<tabs, active, usedTabs, strayed, workspaceId, activeTabId, savedTabId, queue, asking, shownTabId,
                  known, echoes, exits, ops, fails, gone, crossed>>
  BY DEF ServeWorkspace, windowIds, renderer, bounds
<1>2. /\ WindowTypes /\ queue # <<>> /\ queue[1] \in Entries /\ Head(queue) = queue[1] /\ 1 \in 1 .. Len(queue)
      /\ ~Opens /\ ~Succeeds /\ ~Replied /\ ~WillTell /\ NoTab \notin Tabs /\ home \in Workspaces
      /\ gone = 0 => /\ MainInv /\ savedTabId # NoTab /\ Agreed
                     /\ \A i \in 1 .. Len(queue) : queue[i].op = "switchtab" =>
                          Click(queue[i]) /\ queue[i].tab \in Tabs
      /\ gone = 0 /\ ShownInv => shownTabId # NoTab
  BY CallingIs
<1>3. w \in Workspaces /\ w # NoWs
  <2>1. \A x \in Entries : x.op = "switchworkspace" => x.ws \in Workspaces
    BY DEF Entries
  <2> QED
    BY <1>2, <2>1 DEF WindowAssumption
<1>4. tabs[w] \in Seq(Tabs) /\ active[w] \in TabIds
  BY <1>2, <1>3, TabsAre DEF WindowTypes
<1>5. CASE w = home \/ w \in Elsewhere
  <2>1. proc' = Reply(Null) /\ UNCHANGED <<home, updates>>
    BY <1>5 DEF ServeWorkspace
  <2>2. fails' \in Nat
    BY <1>1, <1>2 DEF WindowTypes
  <2> QED
    BY <1>1, <2>1, <2>2, RefusedKeeps DEF backend, windowIds, renderer, wires
<1>6. CASE ~(w = home \/ w \in Elsewhere)
  <2>1. /\ home' = w /\ proc' = Reply(active[w])
        /\ updates' = IF shownTabId # NoTab THEN Append(updates, tabs[w]) ELSE updates
    BY <1>6 DEF ServeWorkspace
  <2> HIDE DEF w
  <2>2. /\ proc' \in Steps /\ proc' \notin {Idle, Looping, Calling, Loading} /\ proc'.result = active[w]
        /\ Replied' /\ ~Opens' /\ (active[w] \in Tabs => Succeeds' /\ active[w] # NoTab)
    BY <1>4, <2>1, AnswerIs
  <2>3. WindowTypes'
    <3>1. updates' \in Seq(Seq(Tabs))
      BY <1>2, <1>4, <2>1, ToldIs DEF WindowTypes
    <3> QED
      BY <1>1, <1>2, <1>3, <2>1, <2>2, <3>1 DEF WindowTypes
  <2>4. ASSUME gone = 0 PROVE active[w] \in Tabs /\ Succeeds' /\ active[w] # NoTab /\ WillTell'
    <3>1. active[w] \in Tabs
      BY <1>2, <1>3, <2>4 DEF MainInv
    <3> QED
      BY <1>1, <2>2, <3>1 DEF WillTell
  <2>5. ASSUME gone = 0 PROVE MainInv'
    <3>1. Answered'
      BY <1>1, <1>2, <2>1, <2>2 DEF Answered, w
    <3>2. \A v \in Workspaces : active'[v] \in Tabs
      BY <1>1, <1>2, <2>5 DEF MainInv
    <3> QED
      BY <1>1, <1>2, <2>2, <2>4, <2>5, <3>1, <3>2 DEF MainInv, Click
  <2>6. ASSUME gone = 0, ShownInv
        PROVE  /\ updates' # <<>> /\ updates'[Len(updates')] = tabs[w] /\ tabs[w] # <<>>
               /\ \A i \in 1 .. Len(updates') : updates'[i] = tabs[w] \/ (i \in 1 .. Len(updates) /\ updates'[i] = updates[i])
    <3>1. updates' = Append(updates, tabs[w])
      BY <1>2, <2>1, <2>6
    <3>2. tabs[w] # <<>>
      BY <1>3, <1>4, <2>6, ContainsIs DEF ShownInv
    <3> QED
      BY <1>2, <1>4, <3>1, <3>2, ToldIs
  <2>7. ASSUME gone = 0, ShownInv PROVE ShownInv'
    <3>1. NewestList(tabs[home])'
      BY <1>1, <2>1, <2>6, <2>7 DEF NewestList
    <3>2. \A i \in 1 .. Len(updates') : updates'[i] # <<>>
      BY <2>6, <2>7 DEF ShownInv
    <3> QED
      BY <1>1, <1>2, <2>4, <2>7, <3>1, <3>2 DEF ShownInv
  <2>8. ASSUME gone = 0, ShownInv, UncrossedInv PROVE UncrossedInv'
    <3>1. ~AllClicks
      BY <1>2 DEF AllClicks, Click
    <3>2. Len(queue) = 1 /\ echoes = <<>> /\ updates = <<>> /\ ~strayed
      BY <1>2, <2>8, <3>1 DEF UncrossedInv, Agrees
    <3>3. \A i \in 1 .. Len(queue) : i = 1 /\ queue[i].op # "switchtab"
      <4>1. \A i \in 1 .. 1 : i = 1
        OBVIOUS
      <4> QED
        BY <1>2, <3>2, <4>1
    <3>4. \A i \in 1 .. Len(updates') : updates'[i] = tabs'[home']
      <4>1. \A i \in 1 .. Len(updates) : FALSE
        BY <3>2
      <4> QED
        BY <1>1, <2>1, <2>6, <2>8, <4>1
    <3>5. Agrees'
      BY <1>1, <1>2, <2>4, <2>8, <3>1, <3>2 DEF Agrees, AllClicks, Click
    <3> QED
      BY <1>1, <2>2, <3>2, <3>3, <3>4, <3>5 DEF UncrossedInv
  <2>9. gone = 0 /\ ~crossed => ~strayed
    BY DEF WindowInv, UncrossedInv
  <2> QED
    BY <1>1, <2>3, <2>5, <2>7, <2>8, <2>9 DEF WindowInv
<1> QED
  BY <1>5, <1>6

(* The backend serves a call.                                               *)
LEMMA ServeCallKeeps == ASSUME WindowAssumption, WindowInv, ServeCall PROVE WindowInv'
<1> DEFINE e == Head(queue)
<1>1. /\ proc = Calling /\ home # NoWs
      /\ UNCHANGED <<windowIds, queue, asking, renderer, echoes, exits, bounds>>
      /\ \/ e.op = "createtab"       /\ ServeCreate
         \/ e.op = "switchtab"       /\ ServeSetActive(e.tab)
         \/ e.op = "closetab"        /\ ServeClose(e.tab)
         \/ e.op = "switchworkspace" /\ ServeWorkspace(e.ws)
  BY DEF ServeCall
<1>2. CASE e.op = "createtab" /\ ServeCreate
  BY <1>1, <1>2, ServeCreateKeeps
<1>3. CASE e.op = "switchtab" /\ ServeSetActive(e.tab)
  BY <1>1, <1>3, ServeSetActiveKeeps
<1>4. CASE e.op = "closetab" /\ ServeClose(e.tab)
  BY <1>1, <1>4, ServeCloseKeeps
<1>5. CASE e.op = "switchworkspace" /\ ServeWorkspace(e.ws)
  BY <1>1, <1>5, ServeWorkspaceKeeps
<1> QED
  BY <1>1, <1>2, <1>3, <1>4, <1>5

(* A tab that closes by itself.                                             *)
LEMMA TabExitsKeeps ==
  ASSUME WindowAssumption, WindowInv, NEW w \in Workspaces, NEW t \in Tabs, TabExits(w, t)
  PROVE  WindowInv'
<1>1. /\ gone' = gone + 1 /\ Contains(tabs[w], t) /\ DeleteTab(w, t)
      /\ exits' = Append(exits, [ws |-> w, tab |-> active'[w]])
      /\ UNCHANGED <<usedTabs, strayed, workspaceId, activeTabId, savedTabId, queue, proc, asking,
                     shownTabId, known, echoes, ops, fails, crossed>>
  BY DEF TabExits, main, windowIds, renderer
<1>2. WindowTypes
  BY DEF WindowInv
<1>3. /\ tabs' \in [Workspaces -> Seq(usedTabs')] /\ active' \in [Workspaces -> TabIds]
      /\ home' = (IF ActiveAfter(w, t) = NoTab /\ w = home THEN NoWs ELSE home)
      /\ updates' \in Seq(Seq(Tabs))
  BY <1>1, <1>2, DeleteTabIs
<1>4. home' \in Workspaces \cup {NoWs} /\ gone' \in Nat /\ gone' # 0 /\ usedTabs' \subseteq Tabs
  <2>1. gone' \in Nat /\ gone' # 0
    BY <1>1, <1>2 DEF WindowTypes
  <2>2. home \in Workspaces \cup {NoWs} /\ usedTabs' \subseteq Tabs
    BY <1>1, <1>2 DEF WindowTypes
  <2> QED
    BY <1>3, <2>1, <2>2
<1>5. exits' \in Seq([ws : Workspaces, tab : TabIds])
  <2>1. exits \in Seq([ws : Workspaces, tab : TabIds]) /\ [ws |-> w, tab |-> active'[w]] \in [ws : Workspaces, tab : TabIds]
    BY <1>2, <1>3 DEF WindowTypes
  <2> QED
    BY <1>1, <2>1, AppendIs
<1>6. WindowTypes'
  BY <1>1, <1>2, <1>3, <1>4, <1>5 DEF WindowTypes
<1> QED
  BY <1>4, <1>6 DEF WindowInv
-----------------------------------------------------------------------------
(* The renderer                                                             *)

(* The renderer is told of a tab.                                           *)
LEMMA SwitchTabKeeps == ASSUME WindowAssumption, WindowInv, SwitchTab PROVE WindowInv'
<1>1. /\ echoes # <<>> /\ echoes' = Tail(echoes) /\ shownTabId' = Head(echoes)
      /\ UNCHANGED <<tabs, active, home, usedTabs, strayed, workspaceId, activeTabId, savedTabId, queue, proc, asking,
                     known, updates, exits, ops, fails, gone, crossed>>
  BY DEF SwitchTab, backend, main, windowIds, bounds
<1>2. WindowTypes /\ echoes \in Seq(TabIds)
  BY DEF WindowInv, WindowTypes
<1>3. /\ echoes' \in Seq(TabIds) /\ Len(echoes') = Len(echoes) - 1 /\ Len(echoes) \in Nat \ {0}
      /\ \A i \in 1 .. Len(echoes) - 1 : echoes'[i] = echoes[i + 1] /\ i + 1 \in 1 .. Len(echoes)
      /\ Head(echoes) = echoes[1] /\ echoes[1] \in TabIds /\ 1 \in 1 .. Len(echoes)
  BY <1>1, <1>2, TailIs
<1>4. /\ echoes' = <<>> => Len(echoes) = 1
      /\ echoes' # <<>> => Len(echoes') \in 1 .. Len(echoes') /\ echoes'[Len(echoes')] = echoes[Len(echoes)]
  <2>1. ASSUME echoes' = <<>> PROVE Len(echoes) = 1
    <3>1. Len(echoes') = 0
      BY <2>1
    <3> QED
      BY <1>3, <3>1
  <2>2. ASSUME echoes' # <<>> PROVE Len(echoes') \in 1 .. Len(echoes') /\ echoes'[Len(echoes')] = echoes[Len(echoes)]
    <3>1. Len(echoes') \in Nat \ {0}
      BY <1>3, <2>2, EmptySeq
    <3> QED
      BY <1>3, <3>1
  <2> QED
    BY <2>1, <2>2
<1>5. Succeeds' = Succeeds /\ Replied' = Replied /\ Answered' = Answered /\ Agreed' = Agreed /\ WillTell' = WillTell
  BY <1>1 DEF Succeeds, Replied, Answered, Agreed, WillTell
<1>6. WindowTypes'
  BY <1>1, <1>2, <1>3 DEF WindowTypes
<1>7. ASSUME gone = 0 PROVE MainInv'
  <2>1. MainInv
    BY <1>7 DEF WindowInv
  <2>2. savedTabId # NoTab /\ ~Opens /\ ~Opens'
    BY <1>1, <2>1 DEF MainInv, Opens
  <2> QED
    BY <1>1, <1>5, <2>1, <2>2 DEF MainInv, Click
<1>8. ASSUME gone = 0, ShownInv PROVE ShownInv' /\ shownTabId # NoTab
  <2>1. shownTabId # NoTab /\ shownTabId' # NoTab
    BY <1>1, <1>3, <1>8 DEF ShownInv
  <2>2. NewestList(tabs[home])'
    BY <1>1, <1>8, <2>1 DEF ShownInv, NewestList
  <2>3. \A i \in 1 .. Len(echoes') : echoes'[i] # NoTab
    BY <1>3, <1>8 DEF ShownInv
  <2>4. ASSUME ~WillTell
        PROVE  /\ echoes' # <<>> => Contains(tabs'[home'], echoes'[Len(echoes')])
               /\ echoes' = <<>> => Contains(tabs'[home'], shownTabId')
    <3>1. Contains(tabs[home], echoes[Len(echoes)])
      BY <1>1, <1>8, <2>1, <2>4 DEF ShownInv
    <3> QED
      BY <1>1, <1>3, <1>4, <3>1
  <2> QED
    BY <1>1, <1>5, <1>8, <2>1, <2>2, <2>3, <2>4 DEF ShownInv
<1>9. ASSUME gone = 0, ShownInv, UncrossedInv PROVE UncrossedInv'
  <2>1. queue = <<>> /\ echoes = <<activeTabId>>
    BY <1>1, <1>8, <1>9 DEF UncrossedInv, Agrees
  <2>2. shownTabId' = activeTabId /\ echoes' = <<>>
    BY <1>1, <2>1
  <2>3. Agrees'
    BY <1>1, <2>1, <2>2 DEF Agrees
  <2> QED
    BY <1>1, <1>8, <1>9, <2>3 DEF UncrossedInv, AllClicks, Click
<1>10. gone = 0 /\ home # NoWs /\ ~crossed => ~strayed
  BY DEF WindowInv, UncrossedInv
<1> QED
  BY <1>1, <1>6, <1>7, <1>8, <1>9, <1>10 DEF WindowInv

(* The renderer is told of the tabs of its workspace.                       *)
LEMMA SyncWorkspaceKeeps == ASSUME WindowAssumption, WindowInv, SyncWorkspace PROVE WindowInv'
<1> DEFINE l == Head(updates)
           s == TabAfterClose(known, l, shownTabId)
<1>1. /\ updates # <<>> /\ updates' = Tail(updates) /\ shownTabId # NoTab
      /\ known' = l /\ shownTabId' = s
      /\ UNCHANGED <<tabs, active, home, usedTabs, strayed, workspaceId, activeTabId, savedTabId, queue, proc, asking,
                     echoes, exits, ops, fails, gone, crossed>>
  BY DEF SyncWorkspace, backend, main, windowIds, bounds
<1>2. WindowTypes /\ updates \in Seq(Seq(Tabs)) /\ known \in Seq(Tabs) /\ NoTab \notin Tabs
  BY DEF WindowInv, WindowTypes, WindowAssumption
<1>3. /\ updates' \in Seq(Seq(Tabs)) /\ Len(updates') = Len(updates) - 1 /\ Len(updates) \in Nat \ {0}
      /\ \A i \in 1 .. Len(updates) - 1 : updates'[i] = updates[i + 1] /\ i + 1 \in 1 .. Len(updates)
      /\ l = updates[1] /\ l \in Seq(Tabs) /\ 1 \in 1 .. Len(updates)
  <2>1. /\ Tail(updates) \in Seq(Seq(Tabs)) /\ Len(Tail(updates)) = Len(updates) - 1 /\ Len(updates) \in Nat \ {0}
        /\ \A i \in 1 .. Len(updates) - 1 : Tail(updates)[i] = updates[i + 1] /\ i + 1 \in 1 .. Len(updates)
        /\ Head(updates) = updates[1] /\ updates[1] \in Seq(Tabs) /\ 1 \in 1 .. Len(updates)
    BY <1>1, <1>2, TailIs
  <2> QED
    BY <1>1, <2>1
<1> HIDE DEF l
<1>4. /\ Contains(l, shownTabId) => s = shownTabId
      /\ l # <<>> => s \in Tabs /\ Contains(l, s)
      /\ s \in TabIds
  BY <1>2, <1>3, TabAfterCloseIs DEF TabIds
<1> HIDE DEF s
<1>5. /\ updates' = <<>> => updates[Len(updates)] = l
      /\ updates' # <<>> => updates'[Len(updates')] = updates[Len(updates)]
  <2>1. ASSUME updates' = <<>> PROVE updates[Len(updates)] = l
    <3>1. Len(updates') = 0
      BY <2>1
    <3>2. Len(updates) = 1
      BY <1>3, <3>1
    <3> QED
      BY <1>3, <3>2
  <2>2. ASSUME updates' # <<>> PROVE updates'[Len(updates')] = updates[Len(updates)]
    <3>1. Len(updates') \in Nat \ {0}
      BY <1>3, <2>2, EmptySeq
    <3> QED
      BY <1>3, <3>1
  <2> QED
    BY <2>1, <2>2
<1>6. Succeeds' = Succeeds /\ Replied' = Replied /\ Answered' = Answered /\ Agreed' = Agreed /\ WillTell' = WillTell
  BY <1>1 DEF Succeeds, Replied, Answered, Agreed, WillTell
<1>7. WindowTypes'
  BY <1>1, <1>2, <1>3, <1>4 DEF WindowTypes
<1>8. ASSUME gone = 0 PROVE MainInv'
  <2>1. MainInv
    BY <1>8 DEF WindowInv
  <2>2. savedTabId # NoTab /\ ~Opens /\ ~Opens'
    BY <1>1, <2>1 DEF MainInv, Opens
  <2> QED
    BY <1>1, <1>6, <2>1, <2>2 DEF MainInv, Click
<1>9. ASSUME gone = 0, ShownInv PROVE ShownInv'
  <2>1. NewestList(tabs[home]) /\ updates[Len(updates)] = tabs[home]
    BY <1>1, <1>9 DEF ShownInv, NewestList
  <2>2. shownTabId' # NoTab /\ Contains(l, shownTabId')
    <3>1. l # <<>>
      BY <1>3, <1>9 DEF ShownInv
    <3> QED
      BY <1>1, <1>2, <1>4, <3>1
  <2>3. NewestList(tabs[home])'
    BY <1>1, <1>5, <2>1 DEF NewestList
  <2>4. \A i \in 1 .. Len(updates') : updates'[i] # <<>>
    BY <1>3, <1>9 DEF ShownInv
  <2>5. ASSUME ~WillTell
        PROVE  /\ echoes' # <<>> => Contains(tabs'[home'], echoes'[Len(echoes')])
               /\ updates' = <<>> => Contains(tabs'[home'], shownTabId')
    BY <1>1, <1>5, <1>9, <2>1, <2>2, <2>5 DEF ShownInv
  <2> QED
    BY <1>1, <1>6, <1>9, <2>2, <2>3, <2>4, <2>5 DEF ShownInv
<1>10. ASSUME gone = 0, home # NoWs, ShownInv, UncrossedInv PROVE UncrossedInv'
  <2>1. Agrees /\ l = tabs[home] /\ \A i \in 1 .. Len(updates') : updates'[i] = tabs[home]
    BY <1>1, <1>3, <1>10 DEF UncrossedInv
  <2>2. CASE queue = <<>>
    <3>1. Contains(tabs[home], activeTabId)
      <4>1. MainInv /\ ~Opens /\ ~Succeeds /\ home \in Workspaces
        BY <1>2, <1>10, <2>2, StepsAre DEF WindowInv, Opens, Succeeds, Replied, WindowTypes
      <4>2. Agreed
        BY <1>10, <4>1 DEF MainInv
      <4> QED
        BY <1>10, <4>1, <4>2 DEF Agreed, ShownInv
    <3>2. echoes = <<activeTabId>> \/ (echoes = <<>> /\ shownTabId' = activeTabId)
      BY <1>1, <1>4, <2>1, <2>2, <3>1 DEF Agrees
    <3>3. Agrees'
      BY <1>1, <2>2, <3>2 DEF Agrees
    <3> QED
      BY <1>1, <1>10, <2>1, <3>3 DEF UncrossedInv, AllClicks, Click
  <2>3. CASE queue # <<>>
    <3>1. echoes = <<>> /\ (AllClicks => shownTabId = queue[Len(queue)].tab) /\ (~AllClicks => Succeeds)
      BY <1>1, <2>1, <2>3 DEF Agrees
    <3>2. AllClicks => shownTabId' = shownTabId
      <4>1. SUFFICES ASSUME AllClicks PROVE Contains(tabs[home], shownTabId)
        BY <1>1, <1>4, <2>1
      <4>2. Len(queue) \in 1 .. Len(queue)
        <5>1. Len(queue) \in 1 .. 2 /\ queue \in Seq(Entries)
          BY <1>2, <2>3, AtMostTwo DEF WindowTypes
        <5>2. \A n \in 1 .. 2 : n \in 1 .. n
          OBVIOUS
        <5> QED
          BY <5>1, <5>2
      <4> QED
        BY <1>10, <3>1, <4>1, <4>2 DEF UncrossedInv, AllClicks, Click
    <3>3. Agrees'
      BY <1>1, <1>6, <2>3, <3>1, <3>2 DEF Agrees, AllClicks, Click
    <3> QED
      BY <1>1, <1>10, <2>1, <3>3 DEF UncrossedInv, AllClicks, Click
  <2> QED
    BY <2>2, <2>3
<1>11. gone = 0 /\ home # NoWs /\ ~crossed => ~strayed
  BY DEF WindowInv, UncrossedInv
<1> QED
  BY <1>1, <1>7, <1>8, <1>9, <1>10, <1>11 DEF WindowInv

(* The renderer starts again with the tab of the view.                      *)
LEMMA ReloadRendererKeeps == ASSUME WindowAssumption, WindowInv, ReloadRenderer PROVE WindowInv'
<1> DEFINE s == TabAfterClose(tabs[home], tabs[home], savedTabId)
<1>1. /\ shownTabId # NoTab /\ home # NoWs /\ savedTabId # NoTab /\ known' = tabs[home] /\ shownTabId' = s
      /\ echoes' = <<>> /\ updates' = <<>> /\ crossed' = (crossed \/ queue # <<>>)
      /\ UNCHANGED <<tabs, active, home, usedTabs, strayed, workspaceId, activeTabId, savedTabId, queue, proc, asking,
                     exits, ops, fails, gone>>
  BY DEF ReloadRenderer, backend, main, windowIds
<1>2. WindowTypes /\ home \in Workspaces /\ NoTab \notin Tabs /\ savedTabId = activeTabId
  BY <1>1 DEF WindowInv, WindowTypes, WindowAssumption
<1>3. tabs[home] \in Seq(Tabs)
  BY <1>2, TabsAre
<1>4. /\ Contains(tabs[home], savedTabId) => s = savedTabId
      /\ tabs[home] # <<>> => s \in Tabs /\ Contains(tabs[home], s)
      /\ s \in TabIds
  BY <1>3, TabAfterCloseIs DEF TabIds
<1> HIDE DEF s
<1>5. Succeeds' = Succeeds /\ Replied' = Replied /\ Answered' = Answered /\ Agreed' = Agreed
  BY <1>1 DEF Succeeds, Replied, Answered, Agreed
<1>6. WindowTypes'
  <2>1. <<>> \in Seq(TabIds) /\ <<>> \in Seq(Seq(Tabs)) /\ (crossed \/ queue # <<>>) \in BOOLEAN
    BY <1>2 DEF WindowTypes
  <2> QED
    BY <1>1, <1>2, <1>3, <1>4, <2>1 DEF WindowTypes
<1>7. ASSUME gone = 0 PROVE MainInv'
  <2>1. MainInv
    BY <1>7 DEF WindowInv
  <2>2. ~Opens /\ ~Opens'
    BY <1>1 DEF Opens
  <2> QED
    BY <1>1, <1>5, <2>1, <2>2 DEF MainInv, Click
<1>8. ASSUME gone = 0, ShownInv PROVE ShownInv'
  <2>1. tabs[home] # <<>>
    BY <1>2, <1>3, <1>8, ContainsIs DEF ShownInv
  <2>2. shownTabId' # NoTab /\ Contains(tabs[home], shownTabId')
    BY <1>1, <1>2, <1>4, <2>1
  <2>3. (\A i \in 1 .. Len(echoes') : FALSE) /\ (\A i \in 1 .. Len(updates') : FALSE)
    BY <1>1
  <2> QED
    BY <1>1, <1>8, <2>2, <2>3 DEF ShownInv, NewestList
<1>9. ASSUME gone = 0, ShownInv, UncrossedInv, queue = <<>> PROVE UncrossedInv'
  <2>1. Contains(tabs[home], activeTabId)
    <3>1. MainInv /\ ~Opens /\ ~Succeeds
      BY <1>2, <1>9, StepsAre DEF WindowInv, Opens, Succeeds, Replied, WindowTypes
    <3>2. Agreed
      BY <1>1, <3>1 DEF MainInv
    <3> QED
      BY <1>2, <1>9, <3>2 DEF Agreed, ShownInv
  <2>2. shownTabId' = activeTabId
    BY <1>1, <1>2, <1>4, <2>1
  <2>3. Agrees'
    BY <1>1, <1>9, <2>2 DEF Agrees
  <2>4. \A i \in 1 .. Len(updates') : FALSE
    BY <1>1
  <2> QED
    BY <1>1, <1>9, <2>3, <2>4 DEF UncrossedInv, AllClicks, Click
<1>10. gone = 0 /\ home # NoWs /\ ~crossed => ~strayed
  BY DEF WindowInv, UncrossedInv
<1> QED
  BY <1>1, <1>6, <1>7, <1>8, <1>9, <1>10 DEF WindowInv

-----------------------------------------------------------------------------
(* What holds in every state of the window                                  *)

(* The window opens on the active tab of its workspace.                     *)
LEMMA WindowBegins == ASSUME WindowAssumption, WindowInit PROVE WindowInv
<1>1. /\ Home \in Workspaces /\ NoTab \notin Tabs /\ NoWs \notin Workspaces
      /\ InitTabs \in [Workspaces -> Seq(Tabs)] /\ \A w \in Workspaces : InitTabs[w] # <<>>
  BY DEF WindowAssumption
<1>2. /\ tabs = InitTabs /\ active = [w \in Workspaces |-> Head(InitTabs[w])]
      /\ home = Home /\ workspaceId = Home
      /\ usedTabs = UNION {ToSet(InitTabs[w]) : w \in Workspaces}
      /\ activeTabId = NoTab /\ savedTabId = NoTab /\ asking = NoWs
      /\ queue = <<[op |-> "switchtab", tab |-> active[Home], set |-> FALSE, own |-> FALSE]>>
      /\ proc = Looping /\ shownTabId = NoTab /\ known = <<>>
      /\ echoes = <<>> /\ updates = <<>> /\ exits = <<>>
      /\ ops = 0 /\ fails = 0 /\ gone = 0 /\ crossed = FALSE /\ strayed = FALSE
  BY DEF WindowInit
<1>3. ASSUME NEW w \in Workspaces
      PROVE  /\ tabs[w] \in Seq(usedTabs) /\ active[w] \in Tabs /\ active[w] \in TabIds
             /\ Contains(tabs[w], active[w])
  <2>1. /\ InitTabs[w] \in Seq(Tabs) /\ InitTabs[w] # <<>> /\ active[w] = Head(InitTabs[w]) /\ tabs[w] = InitTabs[w]
    BY <1>1, <1>2
  <2>2. /\ Head(InitTabs[w]) = InitTabs[w][1] /\ InitTabs[w][1] \in Tabs /\ 1 \in 1 .. Len(InitTabs[w])
    BY <2>1, TailIs
  <2>3. InitTabs[w] \in Seq(usedTabs)
    <3>1. \A i \in 1 .. Len(InitTabs[w]) : InitTabs[w][i] \in usedTabs
      BY <1>2, <2>1 DEF ToSet
    <3>2. Len(InitTabs[w]) \in Nat /\ InitTabs[w] = [i \in 1 .. Len(InitTabs[w]) |-> InitTabs[w][i]]
      BY <2>1
    <3>3. \A n \in Nat : \A f : (\A i \in 1 .. n : f[i] \in usedTabs) => [i \in 1 .. n |-> f[i]] \in Seq(usedTabs)
      OBVIOUS
    <3> QED
      BY <3>1, <3>2, <3>3
  <2> QED
    BY <2>1, <2>2, <2>3 DEF Contains, TabIds
<1>4. usedTabs \subseteq Tabs
  <2>1. ASSUME NEW w \in Workspaces PROVE ToSet(InitTabs[w]) \subseteq Tabs
    <3>1. InitTabs[w] \in Seq(Tabs)
      BY <1>1
    <3> QED
      BY <3>1 DEF ToSet
  <2> QED
    BY <1>2, <2>1
<1>5. queue \in Seq(Entries) /\ Len(queue) = 1 /\ queue[1].tab = active[Home] /\ queue # <<>>
  <2>1. [op |-> "switchtab", tab |-> active[Home], set |-> FALSE, own |-> FALSE] \in Entries
    BY <1>1, <1>3 DEF Entries, TabIds
  <2>2. \A E : \A x \in E : <<x>> \in Seq(E) /\ Len(<<x>>) = 1 /\ <<x>>[1] = x /\ <<x>> # <<>>
    OBVIOUS
  <2> QED
    BY <1>2, <2>1, <2>2
<1>6. Opens
  BY <1>2 DEF Opens
<1>7. /\ ~Replied /\ ~Succeeds /\ proc \in Steps /\ proc # Idle /\ proc # Loading
  BY <1>2, StepsAre DEF Replied, Succeeds
<1>8. WindowTypes
  <2>1. NoTab \in TabIds /\ <<>> \in Seq(Tabs) /\ <<>> \in Seq(TabIds) /\ <<>> \in Seq(Seq(Tabs))
        /\ <<>> \in Seq([ws : Workspaces, tab : TabIds])
    BY DEF TabIds
  <2>2. tabs \in [Workspaces -> Seq(usedTabs)] /\ active \in [Workspaces -> TabIds]
    BY <1>1, <1>2, <1>3
  <2>3. 1 <= 2
    OBVIOUS
  <2> QED
    BY <1>1, <1>2, <1>4, <1>5, <1>7, <2>1, <2>2, <2>3 DEF WindowTypes
<1>9. \A i \in 1 .. Len(queue) : i = 1
  <2>1. \A i \in 1 .. 1 : i = 1
    OBVIOUS
  <2> QED
    BY <1>5, <2>1
<1>10. MainInv
  BY <1>2, <1>3, <1>6, <1>7, <1>9 DEF MainInv
<1>11. \A i \in 1 .. Len(<<>>) : FALSE
  OBVIOUS
<1>12. ShownInv
  BY <1>2, <1>3, <1>11 DEF ShownInv
<1>13. UncrossedInv
  BY <1>1, <1>2, <1>3, <1>5, <1>7, <1>9 DEF UncrossedInv
<1> QED
  BY <1>8, <1>10, <1>12, <1>13 DEF WindowInv

(* A step that leaves the window alone.                                     *)
LEMMA WindowRests == ASSUME WindowInv, UNCHANGED windowVars PROVE WindowInv'
<1>1. UNCHANGED <<tabs, active, home, usedTabs, strayed, workspaceId, activeTabId, savedTabId, queue, proc, asking,
                  shownTabId, known, echoes, updates, exits, ops, fails, gone, crossed>>
  BY DEF windowVars, backend, main, windowIds, renderer, wires, bounds
<1>2. /\ Opens' = Opens /\ Succeeds' = Succeeds /\ Replied' = Replied /\ Answered' = Answered /\ Agreed' = Agreed
      /\ WillTell' = WillTell
  BY <1>1 DEF Opens, Succeeds, Replied, Answered, Agreed, WillTell
<1>3. WindowTypes => WindowTypes'
  BY <1>1 DEF WindowTypes
<1>4. MainInv => MainInv'
  BY <1>1, <1>2 DEF MainInv, Click
<1>5. ShownInv => ShownInv'
  BY <1>1, <1>2 DEF ShownInv, NewestList
<1>6. UncrossedInv => UncrossedInv'
  BY <1>1, <1>2 DEF UncrossedInv, Agrees, AllClicks, Click
<1> QED
  BY <1>1, <1>3, <1>4, <1>5, <1>6 DEF WindowInv

(* Every step keeps the invariant.                                          *)
LEMMA WindowGoesOn == ASSUME WindowAssumption, WindowInv, WindowNext PROVE WindowInv'
<1>1. CASE \E t \in Tabs : SetActiveTab(t) \/ QueueCloseTab(t)
  BY <1>1, SetActiveTabKeeps, QueueCloseTabKeeps
<1>2. CASE QueueCreateTab
  BY <1>2, QueueCreateTabKeeps
<1>3. CASE \E w \in Workspaces : SwitchWorkspace(w)
  BY <1>3, SwitchWorkspaceKeeps
<1>4. CASE OwnerKnown
  BY <1>4, OwnerKnownKeeps
<1>5. CASE ActiveTabUpdate
  BY <1>5, ActiveTabUpdateKeeps
<1>6. CASE BeginRound
  BY <1>6, BeginRoundKeeps
<1>7. CASE proc.at = "reply" /\ EndCall(Head(queue))
  BY <1>7, EndCallKeeps DEF Replied
<1>8. CASE LoadView
  BY <1>8, LoadViewKeeps
<1>9. CASE ServeCall
  BY <1>9, ServeCallKeeps
<1>10. CASE CallFails
  BY <1>10, CallFailsKeeps
<1>11. CASE \E w \in Workspaces, t \in Tabs : TabExits(w, t)
  BY <1>11, TabExitsKeeps
<1>12. CASE SwitchTab
  BY <1>12, SwitchTabKeeps
<1>13. CASE SyncWorkspace
  BY <1>13, SyncWorkspaceKeeps
<1>14. CASE ReloadRenderer
  BY <1>14, ReloadRendererKeeps
<1> QED
  BY <1>1, <1>2, <1>3, <1>4, <1>5, <1>6, <1>7, <1>8, <1>9, <1>10, <1>11, <1>12, <1>13, <1>14
     DEF WindowNext

(* What the properties of the window say, as parts of the invariant.        *)
LEMMA WindowMeans ==
  ASSUME WindowAssumption, WindowInv
  PROVE  WindowTypeOK /\ MainFollowsBackend /\ ShownExists /\ ShownIsActive
<1>1. WindowTypes
  BY DEF WindowInv
<1>2. WindowTypeOK
  BY <1>1, StepsAre DEF WindowTypes, WindowTypeOK, TabIds
<1>3. ASSUME AtRest, gone = 0
      PROVE  /\ Agreed /\ savedTabId # NoTab /\ queue = <<>> /\ echoes = <<>> /\ updates = <<>> /\ home # NoWs
             /\ ~Succeeds
  <2>1. proc = Idle /\ queue = <<>> /\ echoes = <<>> /\ updates = <<>> /\ home # NoWs /\ MainInv
    BY <1>3 DEF AtRest, WindowInv
  <2>2. ~Opens /\ proc # Loading /\ ~Succeeds
    BY <2>1, StepsAre DEF Opens, Succeeds, Replied
  <2> QED
    BY <2>1, <2>2 DEF MainInv
<1>4. MainFollowsBackend
  BY <1>3 DEF MainFollowsBackend, Agreed
<1>5. ASSUME AtRest, gone = 0, ~strayed PROVE Contains(tabs[home], shownTabId) /\ shownTabId # NoTab
  <2>1. ShownInv
    BY <1>3, <1>5 DEF WindowInv
  <2> QED
    BY <1>3, <1>5, <2>1 DEF ShownInv, WillTell
<1>6. ShownExists
  BY <1>5 DEF ShownExists
<1>7. ASSUME AtRest, gone = 0, ~crossed PROVE shownTabId = activeTabId
  <2>1. UncrossedInv
    BY <1>3, <1>7 DEF WindowInv
  <2>2. shownTabId # NoTab
    BY <1>5, <1>7, <2>1 DEF UncrossedInv
  <2> QED
    BY <1>3, <1>7, <2>1, <2>2 DEF UncrossedInv, Agrees
<1>8. ShownIsActive
  BY <1>7 DEF ShownIsActive
<1> QED
  BY <1>2, <1>4, <1>6, <1>8

(* It holds in every state.                                                 *)
LEMMA WindowHolds == ASSUME WindowAssumption PROVE WindowSpec => []WindowInv
<1>1. WindowInit => WindowInv
  BY WindowBegins
<1>2. WindowInv /\ [WindowNext]_windowVars => WindowInv'
  BY WindowGoesOn, WindowRests
<1> QED
  BY <1>1, <1>2, PTL DEF WindowSpec

(* Every variable of the window keeps its type, and the queue never holds   *)
(* more than the action in process and one that waits.                      *)
THEOREM WindowTypeCorrect == ASSUME WindowAssumption PROVE WindowSpec => []WindowTypeOK
<1>1. WindowInv => WindowTypeOK
  BY WindowMeans
<1> QED
  BY <1>1, WindowHolds, PTL

(* When all is quiet the main process and the backend agree on the          *)
(* workspace and the active tab of the window, whatever was overwritten in  *)
(* the queue, failed or crossed what, unless a tab closed by itself.        *)
THEOREM WindowFollowsBackend == ASSUME WindowAssumption PROVE WindowSpec => []MainFollowsBackend
<1>1. WindowInv => MainFollowsBackend
  BY WindowMeans
<1> QED
  BY <1>1, WindowHolds, PTL

(* When all is quiet the renderer shows a tab that exists, unless one of    *)
(* another workspace was made the active one.                               *)
THEOREM WindowShowsTab == ASSUME WindowAssumption PROVE WindowSpec => []ShownExists
<1>1. WindowInv => ShownExists
  BY WindowMeans
<1> QED
  BY <1>1, WindowHolds, PTL

(* When all is quiet the renderer shows the active tab: a click that was    *)
(* refused or failed is taken back, unless another action crossed it.       *)
THEOREM WindowShowsActive == ASSUME WindowAssumption PROVE WindowSpec => []ShownIsActive
<1>1. WindowInv => ShownIsActive
  BY WindowMeans
<1> QED
  BY <1>1, WindowHolds, PTL


-----------------------------------------------------------------------------
(* The components side by side                                              *)

(* A behaviour of the application is one of each of its components: of the  *)
(* transfer queue,                                                          *)
LEMMA TransfersIsPart == AppSpec => Spec
<1>1. AppInit => Init
  BY DEF AppInit
<1>2. [AppNext]_appVars => [Next]_vars
  BY DEF AppNext, TransfersStep, TermStep, WindowStep, appVars
<1> QED
  BY <1>1, <1>2, PTL DEF AppSpec, Spec

(* of the terminal view,                                                    *)
LEMMA TermIsPart == AppSpec => TermSpec
<1>1. AppInit => TermInit
  BY DEF AppInit
<1>2. [AppNext]_appVars => [TermNext]_termVars
  BY DEF AppNext, TransfersStep, TermStep, WindowStep, appVars
<1> QED
  BY <1>1, <1>2, PTL DEF AppSpec, TermSpec

(* and of the action queue of the window.                                   *)
LEMMA WindowIsPart == AppSpec => WindowSpec
<1>1. AppInit => WindowInit
  BY DEF AppInit
<1>2. [AppNext]_appVars => [WindowNext]_windowVars
  BY DEF AppNext, TransfersStep, TermStep, WindowStep, appVars
<1> QED
  BY <1>1, <1>2, PTL DEF AppSpec, WindowSpec

(* Every variable of every component keeps its type, so no queue, batch or  *)
(* ticket outgrows its bound: the queue of the window never holds more than *)
(* the action in process and one that waits.                                *)
THEOREM ApplicationTypeCorrect ==
  ASSUME TransfersAssumption, TermSyncAssumption, WindowAssumption
  PROVE  AppSpec => []AppTypeOK
<1>1. AppSpec => []TypeOK
  BY TransfersIsPart, TransfersTypeCorrect, PTL
<1>2. AppSpec => []TermTypeOK
  BY TermIsPart, ViewTypeCorrect, PTL
<1>3. AppSpec => []WindowTypeOK
  BY WindowIsPart, WindowTypeCorrect, PTL
<1> QED
  BY <1>1, <1>2, <1>3, PTL DEF AppTypeOK

(* A settled terminal shows its file and a saved screen stands for it.      *)
THEOREM ApplicationShowsFile ==
  ASSUME TermSyncAssumption
  PROVE  AppSpec => []FileIsShown
<1>1. AppSpec => []ShownIsFile
  BY TermIsPart, ViewShowsFile, PTL
<1>2. AppSpec => []CacheIsFile
  BY TermIsPart, CacheStandsForFile, PTL
<1> QED
  BY <1>1, <1>2, PTL DEF FileIsShown

(* When all is quiet the renderer shows a tab that exists, and the window's *)
(* active one.                                                              *)
THEOREM ApplicationShowsTab ==
  ASSUME WindowAssumption
  PROVE  AppSpec => []TabIsShown
<1>1. AppSpec => []ShownExists
  BY WindowIsPart, WindowShowsTab, PTL
<1>2. AppSpec => []ShownIsActive
  BY WindowIsPart, WindowShowsActive, PTL
<1> QED
  BY <1>1, <1>2, PTL DEF TabIsShown
=============================================================================
