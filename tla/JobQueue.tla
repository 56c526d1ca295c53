------------------------------ MODULE JobQueue ------------------------------
(***************************************************************************)
(* The job queue of iotron/operations.py over the table jobs of            *)
(* iotron/storage.py.                                                      *)
(*                                                                         *)
(* submit_job stores a job's record and then, if IOTRON_WORKER_BACKEND is  *)
(* local, hands its function to a pool of threads in the same process;     *)
(* with sqlite or remote it waits in the table for an external worker that *)
(* claims it over HTTP, does the work and reports the outcome.  A table in *)
(* memory, _JOBS, keeps the futures of this process's jobs: get_job lays   *)
(* it over the durable record.  The memory and the pool are lost when the  *)
(* process stops; the table and the external workers are not.              *)
(*                                                                         *)
(* Every storage call is one transaction under storage._DB_LOCK, so it is  *)
(* one step; complete_job reads a record and writes it back in two.        *)
(***************************************************************************)
EXTENDS Naturals, FiniteSets, Sequences

CONSTANTS
  Job,          \* jobs the clients submit
  Worker,       \* external workers
  NoWorker,     \* claimed_by of a job nobody claimed
  Local,        \* claimed_by of a job on the pool, "local-executor"
  NoJob,        \* an idle worker
  PoolSize,     \* max_workers of the executor
  Backends,     \* values IOTRON_WORKER_BACKEND may have
  Verdicts,     \* what a job's function may do
  Losses,       \* may an HTTP answer to a worker be lost?
  Faults,       \* may SQLite raise OperationalError?
  MaxRestarts   \* bound: how often the process is restarted

ASSUME ConstantsAssumption ==
  /\ NoWorker \notin Worker /\ Local \notin Worker /\ NoWorker # Local
  /\ NoJob \notin Job
  /\ PoolSize \in Nat \ {0}
  /\ Backends \subseteq {"local", "sqlite", "remote", "other"}
  /\ Verdicts \subseteq {"ok", "raise", "raise_empty"}
  /\ Losses \in BOOLEAN /\ Faults \in BOOLEAN
  /\ MaxRestarts \in Nat

VARIABLES
  row,        \* table jobs
  stamp,      \* submitted_at of each job, as its place in time (0: not yet)
  env,        \* IOTRON_WORKER_BACKEND of the running process
  submit,     \* where submit_job is for each job
  future,     \* the future of each job in this process
  listed,     \* jobs with an entry in _JOBS
  pool,       \* the executor's queue of jobs not started
  exec,       \* where _execute_local_job is for each job
  copy,       \* the record a pool thread or a complete_job call has read
  worker,     \* what each external worker is doing
  restarts,   \* how often the process has been restarted
  runs,       \* history: how often each job's function was started
  verdict     \* history: what each job's function did last

vars == <<row, stamp, env, submit, future, listed, pool, exec, copy, worker,
          restarts, runs, verdict>>

-----------------------------------------------------------------------------
Status == {"queued", "running", "completed", "failed"}
Final == {"completed", "failed"}

(* The columns of a job's row that anything depends on. *)
Record == [status : Status, backend : {"local", "sqlite"},
           by : Worker \cup {NoWorker, Local}]
NoRow == [status |-> "none"]
Stored == {j \in Job : row[j] # NoRow}

BackendAsGiven(e) == e   \* mutant: remote jobs are stored as "remote"
BackendOf(e) == IF e \in {"sqlite", "remote"} THEN "sqlite" ELSE "local"

Free == [step |-> "idle", job |-> NoJob]

Running == {j \in Job : exec[j] # "none"}

Init ==
  /\ row = [j \in Job |-> NoRow]
  /\ stamp = [j \in Job |-> 0]
  /\ env \in Backends
  /\ submit = [j \in Job |-> "new"]
  /\ future = [j \in Job |-> "none"]
  /\ listed = {}
  /\ pool = <<>>
  /\ exec = [j \in Job |-> "none"]
  /\ copy = [j \in Job |-> NoRow]
  /\ worker = [w \in Worker |-> Free]
  /\ restarts = 0
  /\ runs = [j \in Job |-> 0]
  /\ verdict = [j \in Job |-> "none"]

-----------------------------------------------------------------------------
(* submit_job: read the clock... *)
Submit(j) ==
  /\ submit[j] = "new"
  /\ stamp' = [stamp EXCEPT ![j] = 1 + Cardinality({i \in Job : stamp[i] > 0})]
  /\ submit' = [submit EXCEPT ![j] = "save"]
  /\ UNCHANGED <<row, env, future, listed, pool, exec, copy, worker, restarts,
                 runs, verdict>>

(* ...store the record... *)
SaveNew(j) ==
  /\ submit[j] = "save"
  /\ row' = [row EXCEPT ![j] = [status |-> "queued", backend |-> BackendOf(env),
                                by |-> NoWorker]]
  /\ submit' = [submit EXCEPT ![j] = "enqueue"]
  /\ UNCHANGED <<stamp, env, future, listed, pool, exec, copy, worker, restarts,
                 runs, verdict>>

(* ...hand the function to the executor, for the local backend only...     *)
Enqueue(j) ==
  /\ submit[j] = "enqueue"
  /\ IF env = "local"
     THEN /\ future' = [future EXCEPT ![j] = "pending"]
          /\ pool' = Append(pool, j)
     ELSE UNCHANGED <<future, pool>>
  /\ submit' = [submit EXCEPT ![j] = "list"]
  /\ UNCHANGED <<row, stamp, env, listed, exec, copy, worker, restarts, runs,
                 verdict>>

(* ...and enter the job in _JOBS. *)
List(j) ==
  /\ submit[j] = "list"
  /\ listed' = listed \cup {j}
  /\ submit' = [submit EXCEPT ![j] = "ended"]
  /\ UNCHANGED <<row, stamp, env, future, pool, exec, copy, worker, restarts,
                 runs, verdict>>

-----------------------------------------------------------------------------
(* A thread of the pool takes the next job. *)
Start(j) ==
  /\ pool # <<>> /\ j = Head(pool)
  /\ Cardinality(Running) < PoolSize
  /\ pool' = Tail(pool)
  /\ future' = [future EXCEPT ![j] = "running"]
  /\ exec' = [exec EXCEPT ![j] = "read"]
  /\ UNCHANGED <<row, stamp, env, submit, listed, copy, worker, restarts, runs,
                 verdict>>

(* _execute_local_job and the complete_job at its end: read the record,    *)
(* store it as running, run the function, read the record again, store the *)
(* outcome.                                                                *)
ReadRecord(j) ==
  /\ exec[j] \in {"read", "reread"}
  /\ copy' = [copy EXCEPT ![j] = row[j]]
  /\ exec' = [exec EXCEPT ![j] = IF exec[j] = "read" THEN "mark" ELSE "record"]
  /\ UNCHANGED <<row, stamp, env, submit, future, listed, pool, worker, restarts,
                 runs, verdict>>

MarkRunning(j) ==
  /\ exec[j] = "mark"
  /\ row' = [row EXCEPT ![j] =
               IF copy[j] = NoRow THEN @
               ELSE [copy[j] EXCEPT !.status = "running", !.by = Local]]
  /\ exec' = [exec EXCEPT ![j] = "run"]
  /\ UNCHANGED <<stamp, env, submit, future, listed, pool, copy, worker, restarts,
                 runs, verdict>>

(* Mutant: the future is resolved before the outcome is stored. *)
RunFunctionResolves(j) ==
  /\ exec[j] = "run"
  /\ runs' = [runs EXCEPT ![j] = @ + 1]
  /\ \E v \in Verdicts :
       /\ verdict' = [verdict EXCEPT ![j] = v]
       /\ future' = [future EXCEPT ![j] = IF v = "ok" THEN "result" ELSE "exception"]
  /\ exec' = [exec EXCEPT ![j] = "reread"]
  /\ UNCHANGED <<row, stamp, env, submit, listed, pool, copy, worker, restarts>>

RunFunction(j) ==
  /\ exec[j] = "run"
  /\ runs' = [runs EXCEPT ![j] = @ + 1]
  /\ \E v \in Verdicts : verdict' = [verdict EXCEPT ![j] = v]
  /\ exec' = [exec EXCEPT ![j] = "reread"]
  /\ UNCHANGED <<row, stamp, env, submit, future, listed, pool, copy, worker,
                 restarts>>

(* complete_job: "failed" if the error text is not empty.  An exception    *)
(* without a message is reported with an empty text.                       *)
StatusMisspelt(v) == IF v = "raise" THEN "error" ELSE "completed"   \* mutant
StatusByResult(v) == "completed"   \* mutant: the error text is ignored
StatusOf(v) == IF v = "raise" THEN "failed" ELSE "completed"

(* The record goes back with the outcome.  There is no check that the job  *)
(* is still running or who claimed it.                                     *)
RecordOutcome(j) ==
  /\ exec[j] = "record"
  /\ row' = [row EXCEPT ![j] =
               IF copy[j] = NoRow THEN @
               ELSE [copy[j] EXCEPT !.status = StatusOf(verdict[j])]]
  /\ exec' = [exec EXCEPT ![j] = "finish"]
  /\ UNCHANGED <<stamp, env, submit, future, listed, pool, copy, worker, restarts,
                 runs, verdict>>

(* The executor resolves the future: with the result, or with the          *)
(* exception the function raised.                                          *)
Finish(j) ==
  /\ exec[j] = "finish"
  /\ future' = [future EXCEPT ![j] = IF verdict[j] = "ok" THEN "result" ELSE "exception"]
  /\ exec' = [exec EXCEPT ![j] = "none"]
  /\ copy' = [copy EXCEPT ![j] = NoRow]
  /\ UNCHANGED <<row, stamp, env, submit, listed, pool, worker, restarts, runs,
                 verdict>>

(* A storage call on the pool thread raises: nothing is stored and the     *)
(* exception ends up in the future.                                        *)
PoolFault(j) ==
  /\ Faults
  /\ exec[j] \in {"read", "mark", "reread", "record"}
  /\ future' = [future EXCEPT ![j] = "exception"]
  /\ exec' = [exec EXCEPT ![j] = "none"]
  /\ copy' = [copy EXCEPT ![j] = NoRow]
  /\ UNCHANGED <<row, stamp, env, submit, listed, pool, worker, restarts, runs,
                 verdict>>

-----------------------------------------------------------------------------
(* claim_next_job: the oldest queued job of backend sqlite. *)
(* Mutant: the status is not part of the query. *)
ClaimableAny == {j \in Stored : row[j].backend = "sqlite"}
Claimable == {j \in Stored : row[j].status = "queued" /\ row[j].backend = "sqlite"}

(* Mutant: claimed_by is not written. *)
ClaimUnnamed(w, j) ==
  /\ worker[w].step = "idle"
  /\ j \in Claimable
  /\ \A i \in Claimable : stamp[j] <= stamp[i]
  /\ row' = [row EXCEPT ![j].status = "running"]
  /\ worker' = [worker EXCEPT ![w] = [step |-> "claimed", job |-> j]]
  /\ UNCHANGED <<stamp, env, submit, future, listed, pool, exec, copy, restarts,
                 runs, verdict>>

(* Mutant: jobs are handed out from _JOBS. *)
ClaimListed(w, j) ==
  /\ worker[w].step = "idle"
  /\ j \in Claimable \cap listed
  /\ row' = [row EXCEPT ![j].status = "running", ![j].by = w]
  /\ worker' = [worker EXCEPT ![w] = [step |-> "claimed", job |-> j]]
  /\ UNCHANGED <<stamp, env, submit, future, listed, pool, exec, copy, restarts,
                 runs, verdict>>

(* POST /workers/claim: select and update in one transaction... *)
Claim(w, j) ==
  /\ worker[w].step = "idle"
  /\ j \in Claimable
  /\ \A i \in Claimable : stamp[j] <= stamp[i]
  /\ row' = [row EXCEPT ![j].status = "running", ![j].by = w]
  /\ worker' = [worker EXCEPT ![w] = [step |-> "claimed", job |-> j]]
  /\ UNCHANGED <<stamp, env, submit, future, listed, pool, exec, copy, restarts,
                 runs, verdict>>

(* ...then the record is read again for the answer, which reaches the      *)
(* worker, which does the work.                                            *)
Work(w) ==
  LET j == worker[w].job IN
  /\ worker[w].step = "claimed"
  /\ runs' = [runs EXCEPT ![j] = @ + 1]
  /\ \E v \in Verdicts : verdict' = [verdict EXCEPT ![j] = v]
  /\ worker' = [worker EXCEPT ![w].step = "report"]
  /\ UNCHANGED <<row, stamp, env, submit, future, listed, pool, exec, copy,
                 restarts>>

(* The answer to a claim is lost: the worker knows of no job. *)
LoseClaim(w) ==
  /\ Losses
  /\ worker[w].step = "claimed"
  /\ worker' = [worker EXCEPT ![w] = Free]
  /\ UNCHANGED <<row, stamp, env, submit, future, listed, pool, exec, copy,
                 restarts, runs, verdict>>

(* POST /jobs/{job_id}/complete: complete_job reads the record... *)
ReportRead(w) ==
  LET j == worker[w].job IN
  /\ worker[w].step = "report"
  /\ copy' = [copy EXCEPT ![j] = row[j]]
  /\ worker' = [worker EXCEPT ![w].step = "record"]
  /\ UNCHANGED <<row, stamp, env, submit, future, listed, pool, exec, restarts,
                 runs, verdict>>

(* ...and writes it back.  If the answer is lost the worker reports again. *)
ReportRecord(w) ==
  LET j == worker[w].job IN
  /\ worker[w].step = "record"
  /\ row' = [row EXCEPT ![j] = [copy[j] EXCEPT !.status = StatusOf(verdict[j])]]
  /\ copy' = [copy EXCEPT ![j] = NoRow]
  /\ \/ worker' = [worker EXCEPT ![w] = Free]
     \/ Losses /\ worker' = [worker EXCEPT ![w].step = "report"]
  /\ UNCHANGED <<stamp, env, submit, future, listed, pool, exec, restarts, runs,
                 verdict>>

-----------------------------------------------------------------------------
(* Mutant: a restart puts the jobs that were running back in the queue. *)
RestartRequeues ==
  /\ restarts < MaxRestarts
  /\ restarts' = restarts + 1
  /\ row' = [j \in Job |-> IF row[j] # NoRow /\ row[j].status = "running"
                           THEN [row[j] EXCEPT !.status = "queued"] ELSE row[j]]
  /\ exec' = [j \in Job |-> "none"]
  /\ pool' = <<>>
  /\ UNCHANGED <<stamp, env, submit, future, listed, copy, worker, runs, verdict>>

(* The process stops and is started again, perhaps with another backend:   *)
(* the executor, _JOBS and the requests in progress are gone.  A worker    *)
(* whose claim is not answered yet knows of no job; one whose report is    *)
(* not answered reports again.                                             *)
Restart ==
  /\ restarts < MaxRestarts
  /\ restarts' = restarts + 1
  /\ env' \in Backends
  /\ submit' = [j \in Job |-> IF submit[j] = "new" THEN "new" ELSE "ended"]
  /\ future' = [j \in Job |-> "none"]
  /\ listed' = {}
  /\ pool' = <<>>
  /\ exec' = [j \in Job |-> "none"]
  /\ copy' = [j \in Job |-> NoRow]
  /\ worker' = [w \in Worker |->
                  CASE worker[w].step = "claimed" -> Free
                    [] worker[w].step = "record"  -> [worker[w] EXCEPT !.step = "report"]
                    [] OTHER -> worker[w]]
  /\ UNCHANGED <<row, stamp, runs, verdict>>

ServerStep(j) ==
  \/ SaveNew(j) \/ Enqueue(j) \/ List(j) \/ Start(j) \/ ReadRecord(j)
  \/ MarkRunning(j) \/ RunFunction(j) \/ RecordOutcome(j) \/ Finish(j)

WorkerStep(w) ==
  \/ \E j \in Job : Claim(w, j)
  \/ Work(w) \/ ReportRead(w) \/ ReportRecord(w)

Next ==
  \/ \E j \in Job : Submit(j) \/ ServerStep(j) \/ PoolFault(j)
  \/ \E w \in Worker : WorkerStep(w) \/ LoseClaim(w)
  \/ Restart

Spec == Init /\ [][Next]_vars

(* The server's threads run, and the external workers keep asking for jobs *)
(* and reporting them.  The latter is an assumption about the environment. *)
FairSpec ==
  /\ Spec
  /\ \A j \in Job : WF_vars(ServerStep(j))
  /\ \A w \in Worker : WF_vars(WorkerStep(w))

-----------------------------------------------------------------------------
(* Every variable has its type. *)
TypeOK ==
  /\ row \in [Job -> Record \cup {NoRow}]
  /\ stamp \in [Job -> Nat]
  /\ env \in Backends
  /\ submit \in [Job -> {"new", "save", "enqueue", "list", "ended"}]
  /\ future \in [Job -> {"none", "pending", "running", "result", "exception"}]
  /\ listed \subseteq Job
  /\ pool \in Seq(Job)
  /\ exec \in [Job -> {"none", "read", "mark", "run", "reread", "record", "finish"}]
  /\ copy \in [Job -> Record \cup {NoRow}]
  /\ worker \in [Worker -> [step : {"idle", "claimed", "report", "record"},
                            job : Job \cup {NoJob}]]
  /\ restarts \in 0 .. MaxRestarts
  /\ runs \in [Job -> Nat]
  /\ verdict \in [Job -> Verdicts \cup {"none"}]

(* What get_job and list_jobs answer: the entry of _JOBS, with the state   *)
(* of its future if it has one, hides the durable record.                  *)
FutureStatusShort(f) == IF f \in {"none", "pending"} THEN "queued" ELSE "running"   \* mutant
FutureStatus(f) == CASE f = "running"   -> "running"
                     [] f = "result"    -> "completed"
                     [] f = "exception" -> "failed"
                     [] OTHER           -> "queued"
Reported(j) == IF j \in listed THEN FutureStatus(future[j]) ELSE row[j].status

(* A job's function is started at most once, by one thread or worker,      *)
(* whatever is lost or restarted.                                          *)
AtMostOnce == \A j \in Job : runs[j] <= 1

(* Whoever holds a job is the one its record names, and nobody else holds  *)
(* it: the worker that claimed it, or the local executor.                  *)
HolderIsRecorded ==
  \A j \in Stored :
    /\ \A w \in Worker : worker[w].job = j => row[j].by = w
    /\ exec[j] \in {"run", "reread", "record"} => row[j].by = Local
    /\ row[j].status = "queued" => row[j].by = NoWorker

(* A final status is what the job's function did. *)
OutcomeIsRecorded ==
  \A j \in Stored :
    row[j].status \in Final =>
      row[j].status = IF verdict[j] = "ok" THEN "completed" ELSE "failed"

Rank(s) == CASE s = "none" -> 0 [] s = "queued" -> 1 [] s = "running" -> 2 [] OTHER -> 3

(* A record only moves forward, from queued over running to a final status *)
(* that never changes again, also when reports are repeated, records are   *)
(* written back from earlier copies, or the process restarts.              *)
StatusForward ==
  [][\A j \in Job :
       /\ Rank(row[j].status) <= Rank(row'[j].status)
       /\ row[j].status \in Final => row'[j].status = row[j].status]_vars

(* A client that was told a job is completed can rely on it after a        *)
(* restart: the record already says the same.                              *)
ReportIsDurable ==
  \A j \in Stored : Reported(j) = "completed" => row[j].status = "completed"

(* Once the record of a job is final and nobody works on the job, get_job  *)
(* answers with it.                                                        *)
FinalIsReported ==
  \A j \in Stored :
    row[j].status \in Final /\ exec[j] = "none" => Reported(j) = row[j].status

(* This much holds: so it is for jobs of the local backend, before and     *)
(* after a restart.                                                        *)
LocalFinalIsReported ==
  \A j \in Stored :
    row[j].backend = "local" /\ row[j].status \in Final /\ exec[j] = "none"
      => Reported(j) = row[j].status

(* Every job that is submitted reaches a final status, unless the process  *)
(* is restarted: a job of the local backend is then lost.                  *)
FinishesUnlessRestarted ==
  \A j \in Job : submit[j] # "new" ~> row[j].status \in Final \/ restarts > 0

(* A job stored for external workers is claimed, also after a restart of   *)
(* the process.                                                            *)
QueuedIsClaimed ==
  \A j \in Job : j \in Claimable ~> row[j].status # "queued"
=============================================================================
