--------------------------- MODULE JobQueueProofs ---------------------------
(***************************************************************************)
(* What TLAPS proves about the job queue, for any number of jobs, workers, *)
(* pool threads and restarts.                                              *)
(*                                                                         *)
(* A job's record, its place in the queue and the runs of its function are *)
(* changed by the server's threads and by the workers without a lock that  *)
(* spans their steps.  The inductive invariant says how these fit together *)
(* at every step of a job: who can still write to its record, and what the *)
(* copies that will be written back contain.                               *)
(***************************************************************************)
EXTENDS JobQueue, FiniteSetTheorems, SequenceTheorems, TLAPS

(* What a worker may be doing. *)
Doing == [step : {"idle", "claimed", "report", "record"}, job : Job \cup {NoJob}]

Rec(status, backend, by) == [status |-> status, backend |-> backend, by |-> by]
New(backend) == Rec("queued", backend, NoWorker)
Is(j, backend) == row[j] # NoRow /\ row[j].backend = backend

(* A job that waits for a thread of the pool has not been started. *)
Waits(j) ==
  /\ exec[j] = "none" /\ submit[j] \in {"list", "ended"}
  /\ row[j] = New("local") /\ runs[j] = 0

PoolInv ==
  /\ \A k \in 1 .. Len(pool) : Waits(pool[k])
  /\ \A k, l \in 1 .. Len(pool) : pool[k] = pool[l] => k = l

(* Nothing happens to a job before its record is stored, and it is not     *)
(* handed to the pool unless its record says so.                           *)
SubmitInv(j) ==
  /\ submit[j] \in {"new", "save"} => row[j] = NoRow /\ j \notin listed
  /\ row[j] = NoRow => exec[j] = "none" /\ runs[j] = 0
  /\ submit[j] = "enqueue" => /\ Is(j, BackendOf(env))
                              /\ Is(j, "local") => row[j] = New("local")
                              /\ exec[j] = "none" /\ j \notin listed

(* The record at each step of a pool thread, and the copy it writes back. *)
ExecInv(j) ==
  /\ exec[j] # "none" => submit[j] \in {"list", "ended"}
  /\ exec[j] \in {"read", "mark"} => row[j] = New("local") /\ runs[j] = 0
  /\ exec[j] = "run" => row[j] = Rec("running", "local", Local) /\ runs[j] = 0
  /\ exec[j] \in {"reread", "record"} =>
       row[j] = Rec("running", "local", Local) /\ runs[j] = 1
  /\ exec[j] \in {"mark", "record"} => copy[j] = row[j]
  /\ exec[j] = "finish" => row[j].status \in Final /\ Is(j, "local")

(* Runs of the function, record and outcome agree. *)
RowInv(j) ==
  /\ runs[j] <= 1
  /\ runs[j] = 1 => verdict[j] \in Verdicts
  /\ row[j].status = "queued" => row[j].by = NoWorker /\ runs[j] = 0
  /\ row[j].status \in Final => runs[j] = 1 /\ row[j].status = StatusOf(verdict[j])
  /\ row[j] # NoRow /\ row[j].status # "queued" =>
       (row[j].by = Local <=> Is(j, "local"))
  /\ Is(j, "sqlite") => exec[j] = "none"

FutureOf(v) == IF v = "ok" THEN "result" ELSE "exception"

(* The future, if there is one, says what the record says. *)
FutureInv(j) ==
  /\ future[j] = "result" => row[j].status = "completed"
  /\ Is(j, "local") /\ row[j].status \in Final /\ exec[j] = "none" =>
       \/ future[j] = FutureOf(verdict[j])
       \/ j \notin listed /\ submit[j] = "ended"

JobInv(j) == SubmitInv(j) /\ ExecInv(j) /\ RowInv(j) /\ FutureInv(j)

(* A worker at work holds the job whose record names it, and the record it *)
(* writes back is the one that is stored.                                  *)
WorkerInv(w) ==
  LET j == worker[w].job IN
  /\ worker[w].step = "idle" <=> j = NoJob
  /\ j # NoJob => Is(j, "sqlite") /\ row[j].by = w
  /\ worker[w].step = "claimed" => row[j].status = "running" /\ runs[j] = 0
  /\ worker[w].step \in {"report", "record"} => row[j].status \in {"running"} \cup Final
                                                /\ runs[j] = 1
  /\ worker[w].step = "record" => copy[j] = row[j]

IInv ==
  /\ TypeOK
  /\ IsFiniteSet({j \in Job : stamp[j] > 0})
  /\ PoolInv
  /\ \A j \in Job : JobInv(j)
  /\ \A w \in Worker : WorkerInv(w)
-----------------------------------------------------------------------------
(* A step that leaves job i alone. *)
Same(i) ==
  /\ row'[i] = row[i] /\ submit'[i] = submit[i] /\ future'[i] = future[i]
  /\ exec'[i] = exec[i] /\ copy'[i] = copy[i] /\ runs'[i] = runs[i]
  /\ verdict'[i] = verdict[i] /\ (i \in listed' <=> i \in listed)

(* What is left alone keeps its invariant. *)
LEMMA JobFrame ==
  ASSUME NEW i \in Job, JobInv(i), Same(i), env' = env
  PROVE  JobInv(i)'
BY DEF JobInv, SubmitInv, ExecInv, RowInv, FutureInv, Same, Is

LEMMA WorkerFrame ==
  ASSUME NEW w \in Worker, WorkerInv(w), worker'[w] = worker[w],
         worker[w].job # NoJob => Same(worker[w].job)
  PROVE  WorkerInv(w)'
BY DEF WorkerInv, Same, Is

LEMMA WaitsFrame ==
  ASSUME NEW i \in Job, Waits(i), Same(i)
  PROVE  Waits(i)'
BY DEF Waits, Same

(* A step about one job, which no worker holds, keeps the invariant if it  *)
(* keeps what the invariant says of that job and of the queue.             *)
LEMMA OneJob ==
  ASSUME IInv, NEW j \in Job, TypeOK', JobInv(j)', PoolInv', UNCHANGED <<env, worker>>,
         \A i \in Job \ {j} : Same(i),
         \A w \in Worker : worker[w].job # j,
         IsFiniteSet({i \in Job : stamp[i] > 0})'
  PROVE  IInv'
<1>1. ASSUME NEW i \in Job PROVE JobInv(i)'
  <2>1. CASE i = j
    BY <2>1
  <2>2. CASE i # j
    BY <2>2, JobFrame DEF IInv
  <2>3. QED
    BY <2>1, <2>2
<1>2. ASSUME NEW w \in Worker PROVE WorkerInv(w)'
  <2>1. worker[w].job \in Job \cup {NoJob}
    BY DEF IInv, TypeOK
  <2>2. QED
    BY <2>1, WorkerFrame DEF IInv
<1>3. QED
  BY <1>1, <1>2 DEF IInv

(* A step that does not touch the queue keeps what is said of it, if the   *)
(* job it is about does not wait in it.                                    *)
LEMMA PoolFrame ==
  ASSUME IInv, NEW j \in Job, pool' = pool, \A i \in Job \ {j} : Same(i),
         ~Waits(j) \/ Waits(j)'
  PROVE  PoolInv'
<1>1. \A k \in 1 .. Len(pool) : pool[k] \in Job /\ Waits(pool[k])
  BY DEF IInv, TypeOK, PoolInv
<1>2. \A k \in 1 .. Len(pool) : Waits(pool[k])'
  BY <1>1, WaitsFrame
<1>3. QED
  BY <1>2 DEF IInv, PoolInv
-----------------------------------------------------------------------------
(* What a pool thread works on belongs to the local executor: no worker    *)
(* holds it, and it is not in the queue.                                   *)
LEMMA ExecOwns ==
  ASSUME ConstantsAssumption, IInv, NEW j \in Job, exec[j] # "none"
  PROVE  /\ Is(j, "local") /\ row[j] \in Record /\ submit[j] \in {"list", "ended"}
         /\ \A w \in Worker : worker[w].job # j
         /\ ~Waits(j)
<1>1. row[j] # NoRow /\ row[j] \in Record
  BY DEF IInv, TypeOK, JobInv, SubmitInv
<1>2. Is(j, "local") /\ submit[j] \in {"list", "ended"}
  BY <1>1 DEF IInv, JobInv, ExecInv, RowInv, Is, Record
<1>3. ASSUME NEW w \in Worker PROVE worker[w].job # j
  BY <1>2, ConstantsAssumption DEF IInv, WorkerInv, Is, ConstantsAssumption
<1>4. QED
  BY <1>1, <1>2, <1>3 DEF Waits

LEMMA ReadRecordPreserves ==
  ASSUME ConstantsAssumption, IInv, NEW j \in Job, ReadRecord(j)
  PROVE  IInv'
<1>1. TypeOK'
  BY DEF IInv, TypeOK, ReadRecord
<1>2. /\ exec[j] \in {"read", "reread"} /\ copy'[j] = row[j]
      /\ exec'[j] = IF exec[j] = "read" THEN "mark" ELSE "record"
      /\ UNCHANGED <<row, stamp, env, submit, future, listed, pool, worker, runs, verdict>>
  BY DEF IInv, TypeOK, ReadRecord
<1>3. \A i \in Job \ {j} : Same(i)
  BY DEF IInv, TypeOK, ReadRecord, Same
<1>4. JobInv(j)'
  BY <1>2 DEF IInv, JobInv, SubmitInv, ExecInv, RowInv, FutureInv, Is
<1>5. PoolInv'
  BY <1>2, <1>3, ExecOwns, PoolFrame
<1>6. QED
  BY <1>1, <1>2, <1>3, <1>4, <1>5, ExecOwns, OneJob DEF IInv

LEMMA MarkRunningPreserves ==
  ASSUME ConstantsAssumption, IInv, NEW j \in Job, MarkRunning(j)
  PROVE  IInv'
<1>1. /\ exec[j] = "mark" /\ exec' = [exec EXCEPT ![j] = "run"]
      /\ row[j] = New("local") /\ copy[j] = row[j] /\ row[j] # NoRow /\ row[j] \in Record
  BY ExecOwns DEF IInv, JobInv, SubmitInv, ExecInv, MarkRunning
<1>2. row' = [row EXCEPT ![j] = Rec("running", "local", Local)]
  <2>1. copy[j] = Rec("queued", "local", NoWorker) /\ copy[j] # NoRow
    BY <1>1 DEF New
  <2> DEFINE half == [copy[j] EXCEPT !.status = "running"]
             whole == [half EXCEPT !.by = Local]
  <2>2. half = Rec("running", "local", NoWorker)
    BY <2>1 DEF Rec
  <2>3. whole = Rec("running", "local", Local)
    <3> HIDE DEF half
    <3>1. QED
      BY <2>2 DEF Rec
  <2>4. row' = [row EXCEPT ![j] = whole]
    BY <2>1 DEF MarkRunning
  <2>5. QED
    <3> HIDE DEF whole
    <3>1. QED
      BY <2>3, <2>4
<1>3. UNCHANGED <<stamp, env, submit, future, listed, pool, copy, worker, restarts, runs,
                  verdict>>
  BY DEF MarkRunning
<1>4. row'[j] = Rec("running", "local", Local) /\ exec'[j] = "run"
  BY <1>1, <1>2 DEF IInv, TypeOK
<1>5. TypeOK'
  BY <1>1, <1>2, <1>3 DEF IInv, TypeOK, Rec, Record, Status
<1>6. \A i \in Job \ {j} : Same(i)
  BY <1>1, <1>2, <1>3 DEF IInv, TypeOK, Same
<1>7. JobInv(j)'
  BY <1>1, <1>3, <1>4 DEF IInv, JobInv, SubmitInv, ExecInv, RowInv, FutureInv, Is, Rec, New,
     NoRow, Final
<1>8. PoolInv'
  BY <1>1, <1>3, <1>6, ExecOwns, PoolFrame
<1>9. QED
  BY <1>1, <1>3, <1>5, <1>6, <1>7, <1>8, ExecOwns, OneJob DEF IInv

LEMMA RunFunctionPreserves ==
  ASSUME ConstantsAssumption, IInv, NEW j \in Job, RunFunction(j)
  PROVE  IInv'
<1>1. PICK v \in Verdicts : verdict' = [verdict EXCEPT ![j] = v]
  BY DEF RunFunction
<1>2. /\ exec[j] = "run" /\ runs[j] = 0 /\ row[j] = Rec("running", "local", Local)
      /\ exec' = [exec EXCEPT ![j] = "reread"] /\ runs' = [runs EXCEPT ![j] = 1]
      /\ UNCHANGED <<row, stamp, env, submit, future, listed, pool, copy, worker, restarts>>
  <2>1. exec[j] = "run" /\ runs[j] = 0 /\ row[j] = Rec("running", "local", Local)
    BY DEF IInv, JobInv, ExecInv, RunFunction
  <2>2. runs[j] + 1 = 1
    BY <2>1
  <2>3. QED
    BY <2>1, <2>2 DEF RunFunction
<1>3. TypeOK'
  BY <1>1, <1>2 DEF IInv, TypeOK
<1>4. exec'[j] = "reread" /\ runs'[j] = 1 /\ verdict'[j] = v
  BY <1>1, <1>2 DEF IInv, TypeOK
<1>5. \A i \in Job \ {j} : Same(i)
  BY <1>1, <1>2 DEF IInv, TypeOK, Same
<1>6. JobInv(j)'
  BY <1>2, <1>4 DEF IInv, JobInv, SubmitInv, ExecInv, RowInv, FutureInv, Is, Rec, Final
<1>7. PoolInv'
  BY <1>2, <1>5, ExecOwns, PoolFrame
<1>8. QED
  BY <1>2, <1>3, <1>5, <1>6, <1>7, ExecOwns, OneJob DEF IInv

LEMMA RecordOutcomePreserves ==
  ASSUME ConstantsAssumption, IInv, NEW j \in Job, RecordOutcome(j)
  PROVE  IInv'
<1> DEFINE s == StatusOf(verdict[j])
<1>1. /\ exec[j] = "record" /\ exec' = [exec EXCEPT ![j] = "finish"]
      /\ row[j] = Rec("running", "local", Local) /\ copy[j] = row[j] /\ row[j] # NoRow
      /\ runs[j] = 1
      /\ UNCHANGED <<stamp, env, submit, future, listed, pool, copy, worker, restarts, runs,
                     verdict>>
  BY ExecOwns DEF IInv, JobInv, SubmitInv, ExecInv, RecordOutcome, Is
<1>2. row' = [row EXCEPT ![j] = Rec(s, "local", Local)]
  <2> DEFINE back == [copy[j] EXCEPT !.status = s]
  <2>1. back = Rec(s, "local", Local)
    BY <1>1 DEF Rec
  <2>2. row' = [row EXCEPT ![j] = back]
    BY <1>1 DEF RecordOutcome
  <2>3. QED
    BY <2>1, <2>2
<1>3. row'[j] = Rec(s, "local", Local) /\ exec'[j] = "finish" /\ s \in Final
  BY <1>1, <1>2 DEF IInv, TypeOK, StatusOf, Final
<1>4. TypeOK'
  BY <1>1, <1>2, <1>3 DEF IInv, TypeOK, Rec, Record, Status, Final
<1>5. \A i \in Job \ {j} : Same(i)
  BY <1>1, <1>2 DEF IInv, TypeOK, Same
<1>6. JobInv(j)'
  <2>1. row'[j].status = s /\ row'[j].backend = "local" /\ row'[j].by = Local /\ row'[j] # NoRow
    BY <1>3 DEF Rec, NoRow, Final
  <2>2. future[j] = "result" => s = "completed"
    BY <1>1 DEF IInv, JobInv, FutureInv, Rec
  <2>3. QED
    BY <1>1, <1>3, <2>1, <2>2 DEF IInv, JobInv, SubmitInv, ExecInv, RowInv, FutureInv, Is, Final
<1>7. PoolInv'
  BY <1>1, <1>5, ExecOwns, PoolFrame
<1>8. QED
  BY <1>1, <1>4, <1>5, <1>6, <1>7, ExecOwns, OneJob DEF IInv

(* The future is resolved with what the function did: a result only if it  *)
(* returned, and then the record says completed.                           *)
LEMMA FinishPreserves ==
  ASSUME ConstantsAssumption, IInv, NEW j \in Job, Finish(j)
  PROVE  IInv'
<1>1. /\ exec[j] = "finish" /\ exec' = [exec EXCEPT ![j] = "none"]
      /\ future' = [future EXCEPT ![j] = FutureOf(verdict[j])]
      /\ copy' = [copy EXCEPT ![j] = NoRow]
      /\ UNCHANGED <<row, stamp, env, submit, listed, pool, worker, restarts, runs, verdict>>
  BY DEF Finish, FutureOf
<1>2. future'[j] = FutureOf(verdict[j]) /\ exec'[j] = "none"
  BY <1>1 DEF IInv, TypeOK
<1>3. TypeOK'
  BY <1>1 DEF IInv, TypeOK, FutureOf
<1>4. \A i \in Job \ {j} : Same(i)
  BY <1>1 DEF IInv, TypeOK, Same
<1>5. row[j].status = StatusOf(verdict[j]) /\ row[j].status \in Final /\ row[j] # NoRow
  BY <1>1 DEF IInv, JobInv, ExecInv, RowInv, Is
<1>6. JobInv(j)'
  BY <1>1, <1>2, <1>5 DEF IInv, JobInv, SubmitInv, ExecInv, RowInv, FutureInv, FutureOf,
     StatusOf, Is, Final
<1>7. ~Waits(j)
  BY <1>1 DEF Waits
<1>8. PoolInv'
  BY <1>1, <1>4, <1>7, PoolFrame
<1>9. QED
  BY <1>1, <1>3, <1>4, <1>6, <1>8, ExecOwns, OneJob DEF IInv

LEMMA PoolFaultPreserves ==
  ASSUME ConstantsAssumption, IInv, NEW j \in Job, PoolFault(j)
  PROVE  IInv'
<1>1. /\ exec[j] \in {"read", "mark", "reread", "record"}
      /\ exec' = [exec EXCEPT ![j] = "none"]
      /\ future' = [future EXCEPT ![j] = "exception"]
      /\ copy' = [copy EXCEPT ![j] = NoRow]
      /\ UNCHANGED <<row, stamp, env, submit, listed, pool, worker, restarts, runs, verdict>>
  BY DEF PoolFault
<1>2. future'[j] = "exception" /\ exec'[j] = "none"
  BY <1>1 DEF IInv, TypeOK
<1>3. TypeOK'
  BY <1>1 DEF IInv, TypeOK
<1>4. \A i \in Job \ {j} : Same(i)
  BY <1>1 DEF IInv, TypeOK, Same
<1>5. row[j].status \notin Final /\ submit[j] \in {"list", "ended"} /\ row[j] # NoRow
  BY <1>1, ExecOwns DEF IInv, JobInv, ExecInv, New, Rec, Final, Is
<1>6. JobInv(j)'
  BY <1>1, <1>2, <1>5 DEF IInv, JobInv, SubmitInv, ExecInv, RowInv, FutureInv, Is
<1>7. PoolInv'
  BY <1>1, <1>4, ExecOwns, PoolFrame
<1>8. QED
  BY <1>1, <1>3, <1>4, <1>6, <1>7, ExecOwns, OneJob DEF IInv

(* A thread takes a job that waits: it is fresh. *)
LEMMA StartPreserves ==
  ASSUME ConstantsAssumption, IInv, NEW j \in Job, Start(j)
  PROVE  IInv'
<1>1. /\ pool # <<>> /\ pool' = Tail(pool) /\ j = Head(pool)
      /\ exec' = [exec EXCEPT ![j] = "read"]
      /\ future' = [future EXCEPT ![j] = "running"]
      /\ UNCHANGED <<row, stamp, env, submit, listed, copy, worker, restarts, runs, verdict>>
  BY DEF Start
<1>2. /\ pool \in Seq(Job) /\ Len(pool) \in Nat \ {0} /\ pool[1] = j
      /\ pool' \in Seq(Job) /\ Len(pool') = Len(pool) - 1
      /\ \A k \in 1 .. Len(pool') : pool'[k] = pool[k + 1]
  BY <1>1, HeadTailProperties, EmptySeq DEF IInv, TypeOK
<1>3. Waits(j)
  BY <1>2 DEF IInv, PoolInv
<1>4. TypeOK'
  BY <1>1, <1>2 DEF IInv, TypeOK
<1>5. exec'[j] = "read" /\ future'[j] = "running"
  BY <1>1 DEF IInv, TypeOK
<1>6. \A i \in Job \ {j} : Same(i)
  BY <1>1 DEF IInv, TypeOK, Same
<1>7. row[j] = New("local") /\ runs[j] = 0 /\ submit[j] \in {"list", "ended"} /\ row[j] # NoRow
  BY <1>3 DEF Waits, New, Rec, NoRow
<1>8. JobInv(j)'
  BY <1>1, <1>5, <1>7 DEF IInv, JobInv, SubmitInv, ExecInv, RowInv, FutureInv, Is, New, Rec,
     Final
<1>9. \A w \in Worker : worker[w].job # j
  BY <1>7 DEF IInv, WorkerInv, Is, New, Rec, ConstantsAssumption
<1>10. PoolInv'
  <2>1. ASSUME NEW k \in 1 .. Len(pool')
        PROVE  k + 1 \in 1 .. Len(pool) /\ pool'[k] \in Job \ {j} /\ Waits(pool'[k])
    BY <1>2 DEF IInv, PoolInv
  <2>2. ASSUME NEW k \in 1 .. Len(pool') PROVE Waits(pool[k])'
    BY <2>1, <1>6 DEF Waits, Same
  <2>3. ASSUME NEW k \in 1 .. Len(pool'), NEW l \in 1 .. Len(pool'), pool'[k] = pool'[l]
        PROVE  k = l
    BY <2>1, <2>3, <1>2 DEF IInv, PoolInv
  <2>4. QED
    BY <2>2, <2>3 DEF PoolInv
<1>11. QED
  BY <1>1, <1>4, <1>6, <1>8, <1>9, <1>10, OneJob DEF IInv
-----------------------------------------------------------------------------
(* The steps of submit_job. *)
LEMMA SubmitPreserves ==
  ASSUME ConstantsAssumption, IInv, NEW j \in Job, Submit(j)
  PROVE  IInv'
<1> DEFINE Stamped == {i \in Job : stamp[i] > 0}
           n == 1 + Cardinality(Stamped)
<1>1. /\ submit[j] = "new" /\ submit' = [submit EXCEPT ![j] = "save"]
      /\ stamp' = [stamp EXCEPT ![j] = n]
      /\ UNCHANGED <<row, env, future, listed, pool, exec, copy, worker, restarts, runs,
                     verdict>>
  BY DEF Submit
<1>2. n \in Nat \ {0}
  BY FS_CardinalityType DEF IInv
<1>3. TypeOK'
  BY <1>1, <1>2 DEF IInv, TypeOK
<1>4. IsFiniteSet({i \in Job : stamp[i] > 0})'
  <2>1. stamp'[j] > 0 /\ \A i \in Job \ {j} : stamp'[i] = stamp[i]
    BY <1>1, <1>2 DEF IInv, TypeOK
  <2>2. {i \in Job : stamp[i] > 0}' = Stamped \cup {j}
    BY <2>1
  <2>3. IsFiniteSet(Stamped \cup {j})
    BY FS_AddElement DEF IInv
  <2>4. QED
    BY <2>2, <2>3
<1>5. \A i \in Job \ {j} : Same(i)
  BY <1>1 DEF IInv, TypeOK, Same
<1>6. row[j] = NoRow /\ submit'[j] = "save"
  BY <1>1 DEF IInv, TypeOK, JobInv, SubmitInv
<1>7. JobInv(j)'
  BY <1>1, <1>6 DEF IInv, JobInv, SubmitInv, ExecInv, RowInv, FutureInv, Is
<1>8. ~Waits(j)
  BY <1>6 DEF Waits, New, Rec, NoRow
<1>9. \A w \in Worker : worker[w].job # j
  BY <1>6 DEF IInv, WorkerInv, Is, ConstantsAssumption
<1>10. PoolInv'
  BY <1>1, <1>5, <1>8, PoolFrame
<1>11. QED
  BY <1>1, <1>3, <1>4, <1>5, <1>7, <1>9, <1>10, OneJob

LEMMA SaveNewPreserves ==
  ASSUME ConstantsAssumption, IInv, NEW j \in Job, SaveNew(j)
  PROVE  IInv'
<1>1. /\ submit[j] = "save" /\ submit' = [submit EXCEPT ![j] = "enqueue"]
      /\ row' = [row EXCEPT ![j] = New(BackendOf(env))]
      /\ UNCHANGED <<stamp, env, future, listed, pool, exec, copy, worker, restarts, runs,
                     verdict>>
  BY DEF SaveNew, New, Rec
<1>2. BackendOf(env) \in {"local", "sqlite"} /\ New(BackendOf(env)) \in Record
  BY DEF BackendOf, New, Rec, Record, Status
<1>3. TypeOK'
  BY <1>1, <1>2 DEF IInv, TypeOK
<1>4. \A i \in Job \ {j} : Same(i)
  BY <1>1 DEF IInv, TypeOK, Same
<1>5. row[j] = NoRow /\ exec[j] = "none" /\ runs[j] = 0 /\ submit'[j] = "enqueue"
      /\ row'[j] = New(BackendOf(env))
  BY <1>1 DEF IInv, TypeOK, JobInv, SubmitInv
<1>6. future[j] # "result"
  BY <1>5 DEF IInv, JobInv, FutureInv, NoRow
<1>7. JobInv(j)'
  BY <1>1, <1>2, <1>5, <1>6 DEF IInv, JobInv, SubmitInv, ExecInv, RowInv, FutureInv, Is, New,
     Rec, NoRow, Final
<1>8. ~Waits(j)
  BY <1>5 DEF Waits, New, Rec, NoRow
<1>9. \A w \in Worker : worker[w].job # j
  BY <1>5 DEF IInv, WorkerInv, Is, ConstantsAssumption
<1>10. PoolInv'
  BY <1>1, <1>4, <1>8, PoolFrame
<1>11. QED
  BY <1>1, <1>3, <1>4, <1>7, <1>9, <1>10, OneJob DEF IInv

LEMMA EnqueuePreserves ==
  ASSUME ConstantsAssumption, IInv, NEW j \in Job, Enqueue(j)
  PROVE  IInv'
<1>1. /\ submit[j] = "enqueue" /\ submit' = [submit EXCEPT ![j] = "list"]
      /\ UNCHANGED <<row, stamp, env, listed, exec, copy, worker, restarts, runs, verdict>>
  BY DEF Enqueue
<1>2. Is(j, BackendOf(env)) /\ exec[j] = "none" /\ j \notin listed /\ row[j] \in Record
  BY <1>1 DEF IInv, TypeOK, JobInv, SubmitInv, Is
<1>3. submit'[j] = "list"
  BY <1>1 DEF IInv, TypeOK
<1>4. ~Waits(j)
  BY <1>1 DEF Waits
<1>5. CASE env = "local"
  <2>1. future' = [future EXCEPT ![j] = "pending"] /\ pool' = Append(pool, j)
    BY <1>5 DEF Enqueue
  <2>2. row[j] = New("local") /\ runs[j] = 0
    <3>1. Is(j, "local")
      BY <1>2, <1>5 DEF BackendOf
    <3>2. row[j] = New("local")
      BY <1>1, <3>1 DEF IInv, JobInv, SubmitInv
    <3>3. QED
      BY <3>2 DEF IInv, JobInv, RowInv, New, Rec
  <2>3. /\ pool \in Seq(Job) /\ Len(pool) \in Nat
        /\ pool' \in Seq(Job) /\ Len(pool') = Len(pool) + 1 /\ pool'[Len(pool) + 1] = j
        /\ \A k \in 1 .. Len(pool) : pool'[k] = pool[k] /\ pool[k] \in Job
    BY <2>1, AppendProperties DEF IInv, TypeOK
  <2>4. TypeOK'
    BY <1>1, <2>1, <2>3 DEF IInv, TypeOK
  <2>5. future'[j] = "pending"
    BY <2>1 DEF IInv, TypeOK
  <2>6. \A i \in Job \ {j} : Same(i)
    BY <1>1, <2>1 DEF IInv, TypeOK, Same
  <2>7. JobInv(j)'
    BY <1>1, <1>2, <1>3, <2>2, <2>5 DEF IInv, JobInv, SubmitInv, ExecInv, RowInv, FutureInv,
       Is, New, Rec, Final
  <2>8. \A w \in Worker : worker[w].job # j
    BY <2>2 DEF IInv, WorkerInv, Is, New, Rec, ConstantsAssumption
  <2>9. PoolInv'
    <3>1. ASSUME NEW k \in 1 .. Len(pool)
          PROVE  pool'[k] \in Job \ {j} /\ Waits(pool[k])'
      <4>1. Waits(pool[k]) /\ pool[k] \in Job \ {j} /\ pool'[k] = pool[k]
        BY <1>4, <2>3 DEF IInv, PoolInv
      <4>2. QED
        BY <2>6, <4>1 DEF Waits, Same
    <3>2. Waits(j)'
      BY <1>1, <1>2, <1>3, <2>2 DEF Waits
    <3>3. \A k \in 1 .. Len(pool') : k \in 1 .. Len(pool) \/ k = Len(pool) + 1
      BY <2>3
    <3>4. ASSUME NEW k \in 1 .. Len(pool'), NEW l \in 1 .. Len(pool'), pool'[k] = pool'[l]
          PROVE  k = l
      BY <2>3, <3>1, <3>3, <3>4 DEF IInv, PoolInv
    <3>5. ASSUME NEW k \in 1 .. Len(pool') PROVE Waits(pool[k])'
      <4>1. CASE k \in 1 .. Len(pool)
        BY <3>1, <4>1
      <4>2. CASE k = Len(pool) + 1
        BY <2>3, <3>2, <4>2 DEF Waits
      <4>3. QED
        BY <3>3, <4>1, <4>2
    <3>6. QED
      BY <3>4, <3>5 DEF PoolInv
  <2>10. QED
    BY <1>1, <2>4, <2>6, <2>7, <2>8, <2>9, OneJob DEF IInv
<1>6. CASE env # "local"
  <2>1. UNCHANGED <<future, pool>>
    BY <1>6 DEF Enqueue
  <2>2. TypeOK'
    BY <1>1, <2>1 DEF IInv, TypeOK
  <2>3. \A i \in Job \ {j} : Same(i)
    BY <1>1, <2>1 DEF IInv, TypeOK, Same
  <2>4. Is(j, "local") => row[j].status = "queued"
    BY <1>1 DEF IInv, JobInv, SubmitInv, New, Rec
  <2>5. JobInv(j)'
    BY <1>1, <1>2, <1>3, <2>1, <2>4 DEF IInv, JobInv, SubmitInv, ExecInv, RowInv, FutureInv,
       Is, Final
  <2>6. PoolInv'
    BY <1>4, <2>1, <2>3, PoolFrame
  <2>7. ASSUME NEW i \in Job PROVE JobInv(i)'
    <3>1. CASE i = j
      BY <2>5, <3>1
    <3>2. CASE i # j
      BY <1>1, <2>3, <3>2, JobFrame DEF IInv
    <3>3. QED
      BY <3>1, <3>2
  <2>8. ASSUME NEW w \in Worker PROVE WorkerInv(w)'
    BY <1>1 DEF IInv, WorkerInv, Is
  <2>9. QED
    BY <1>1, <2>2, <2>5, <2>6, <2>7, <2>8 DEF IInv
<1>7. QED
  BY <1>5, <1>6

LEMMA ListPreserves ==
  ASSUME ConstantsAssumption, IInv, NEW j \in Job, List(j)
  PROVE  IInv'
<1>1. /\ submit[j] = "list" /\ submit' = [submit EXCEPT ![j] = "ended"]
      /\ listed' = listed \cup {j}
      /\ UNCHANGED <<row, stamp, env, future, pool, exec, copy, worker, restarts, runs,
                     verdict>>
  BY DEF List
<1>2. TypeOK'
  BY <1>1 DEF IInv, TypeOK
<1>3. \A i \in Job \ {j} : Same(i)
  BY <1>1 DEF IInv, TypeOK, Same
<1>4. submit'[j] = "ended"
  BY <1>1 DEF IInv, TypeOK
<1>5. JobInv(j)'
  BY <1>1, <1>4 DEF IInv, JobInv, SubmitInv, ExecInv, RowInv, FutureInv, Is
<1>6. Waits(j) => Waits(j)'
  BY <1>1, <1>4 DEF Waits
<1>7. PoolInv'
  BY <1>1, <1>3, <1>6, PoolFrame
<1>8. ASSUME NEW i \in Job PROVE JobInv(i)'
  <2>1. CASE i = j
    BY <1>5, <2>1
  <2>2. CASE i # j
    BY <1>1, <1>3, <2>2, JobFrame DEF IInv
  <2>3. QED
    BY <2>1, <2>2
<1>9. ASSUME NEW w \in Worker PROVE WorkerInv(w)'
  BY <1>1 DEF IInv, WorkerInv, Is
<1>10. QED
  BY <1>1, <1>2, <1>7, <1>8, <1>9 DEF IInv
-----------------------------------------------------------------------------
(* A step of worker w about job j, which no other worker holds and no      *)
(* thread of the pool runs.                                                *)
LEMMA OneWorker ==
  ASSUME IInv, NEW j \in Job, NEW w \in Worker, TypeOK', JobInv(j)', WorkerInv(w)',
         UNCHANGED <<env, stamp, pool>>, Is(j, "sqlite"),
         \A i \in Job \ {j} : Same(i),
         \A v \in Worker \ {w} : worker'[v] = worker[v] /\ worker[v].job # j
  PROVE  IInv'
<1>1. ASSUME NEW i \in Job PROVE JobInv(i)'
  <2>1. CASE i = j
    BY <2>1
  <2>2. CASE i # j
    BY <2>2, JobFrame DEF IInv
  <2>3. QED
    BY <2>1, <2>2
<1>2. ASSUME NEW v \in Worker PROVE WorkerInv(v)'
  <2>1. CASE v = w
    BY <2>1
  <2>2. CASE v # w
    <3>1. worker[v].job \in Job \cup {NoJob}
      BY DEF IInv, TypeOK
    <3>2. QED
      BY <2>2, <3>1, WorkerFrame DEF IInv
  <2>3. QED
    BY <2>1, <2>2
<1>3. ~Waits(j)
  BY DEF Waits, Is, New, Rec
<1>4. PoolInv'
  BY <1>3, PoolFrame
<1>5. QED
  BY <1>1, <1>2, <1>4 DEF IInv

(* A worker at work holds a job of its own, stored for backend sqlite. *)
LEMMA WorkerOwns ==
  ASSUME ConstantsAssumption, IInv, NEW w \in Worker, worker[w].step # "idle"
  PROVE  /\ worker[w].job \in Job /\ Is(worker[w].job, "sqlite")
         /\ row[worker[w].job] \in Record /\ row[worker[w].job].by = w
         /\ exec[worker[w].job] = "none"
         /\ submit[worker[w].job] \notin {"new", "save"}
         /\ \A v \in Worker \ {w} : worker[v].job # worker[w].job
<1> DEFINE j == worker[w].job
<1>1. j \in Job /\ Is(j, "sqlite") /\ row[j].by = w
  BY DEF IInv, TypeOK, WorkerInv
<1>2. row[j] \in Record /\ exec[j] = "none" /\ submit[j] \notin {"new", "save"}
  BY <1>1 DEF IInv, TypeOK, JobInv, RowInv, SubmitInv, Is
<1>3. ASSUME NEW v \in Worker \ {w} PROVE worker[v].job # j
  BY <1>1 DEF IInv, WorkerInv, ConstantsAssumption
<1>4. QED
  BY <1>1, <1>2, <1>3

LEMMA WorkerStepFacts ==
  ASSUME TypeOK, NEW w \in Worker, NEW step \in {"idle", "claimed", "report", "record"},
         worker' = [worker EXCEPT ![w].step = step]
  PROVE  /\ worker' \in [Worker -> Doing]
         /\ worker'[w].step = step /\ worker'[w].job = worker[w].job
         /\ \A v \in Worker \ {w} : worker'[v] = worker[v]
<1>1. worker[w] \in Doing
  BY DEF TypeOK, Doing
<1>2. worker'[w] = [worker[w] EXCEPT !.step = step]
  BY DEF TypeOK
<1>3. /\ worker'[w] \in Doing
      /\ worker'[w].step = step /\ worker'[w].job = worker[w].job
  BY <1>1, <1>2 DEF Doing
<1>4. QED
  BY <1>3 DEF TypeOK, Doing

(* Whoever claims a job is the first to hold it. *)
LEMMA ClaimPreserves ==
  ASSUME ConstantsAssumption, IInv, NEW w \in Worker, NEW j \in Job, Claim(w, j)
  PROVE  IInv'
<1>1. /\ worker[w].step = "idle" /\ row[j] # NoRow
      /\ row[j].status = "queued" /\ row[j].backend = "sqlite"
      /\ worker' = [worker EXCEPT ![w] = [step |-> "claimed", job |-> j]]
      /\ UNCHANGED <<stamp, env, submit, future, listed, pool, exec, copy, restarts, runs,
                     verdict>>
  BY DEF Claim, Claimable, Stored
<1>2. row[j] \in Record /\ row[j].by = NoWorker /\ runs[j] = 0 /\ Is(j, "sqlite")
  BY <1>1 DEF IInv, TypeOK, JobInv, RowInv, Is
<1>3. row' = [row EXCEPT ![j] = Rec("running", "sqlite", w)]
  <2> DEFINE half == [row EXCEPT ![j].status = "running"]
             whole == [half EXCEPT ![j].by = w]
  <2>1. row[j] = Rec("queued", "sqlite", NoWorker)
    BY <1>1, <1>2 DEF Record, Rec
  <2>2. half = [row EXCEPT ![j] = Rec("running", "sqlite", NoWorker)]
    <3>1. [row[j] EXCEPT !.status = "running"] = Rec("running", "sqlite", NoWorker)
      BY <2>1 DEF Rec
    <3>2. QED
      BY <3>1
  <2>3. row' = whole
    BY DEF Claim
  <2>4. whole = [half EXCEPT ![j] = Rec("running", "sqlite", w)]
    <3> HIDE DEF half
    <3>1. half[j] = Rec("running", "sqlite", NoWorker)
      BY <2>2 DEF IInv, TypeOK
    <3>2. [half[j] EXCEPT !.by = w] = Rec("running", "sqlite", w)
      BY <3>1 DEF Rec
    <3>3. QED
      BY <3>2
  <2>5. QED
    BY <2>2, <2>3, <2>4 DEF IInv, TypeOK
<1>4. row'[j] = Rec("running", "sqlite", w) /\ worker'[w] = [step |-> "claimed", job |-> j]
  BY <1>1, <1>3 DEF IInv, TypeOK
<1>5. TypeOK'
  BY <1>1, <1>3 DEF IInv, TypeOK, Rec, Record, Status
<1>6. \A i \in Job \ {j} : Same(i)
  BY <1>1, <1>3 DEF IInv, TypeOK, Same
<1>7. JobInv(j)'
  BY <1>1, <1>2, <1>4 DEF IInv, JobInv, SubmitInv, ExecInv, RowInv, FutureInv, Is, Rec, New,
     NoRow, Final, ConstantsAssumption
<1>8. WorkerInv(w)'
  BY <1>1, <1>2, <1>4 DEF WorkerInv, Is, Rec, NoRow, ConstantsAssumption
<1>9. ASSUME NEW v \in Worker \ {w} PROVE worker'[v] = worker[v] /\ worker[v].job # j
  BY <1>1, <1>2 DEF IInv, TypeOK, WorkerInv, ConstantsAssumption
<1>10. QED
  BY <1>1, <1>2, <1>5, <1>6, <1>7, <1>8, <1>9, OneWorker

LEMMA WorkPreserves ==
  ASSUME ConstantsAssumption, IInv, NEW w \in Worker, NEW j \in Job, worker[w].job = j,
         Work(w)
  PROVE  IInv'
<1>1. PICK v \in Verdicts : verdict' = [verdict EXCEPT ![j] = v]
  BY DEF Work
<1>2. /\ worker[w].step = "claimed" /\ worker' = [worker EXCEPT ![w].step = "report"]
      /\ runs' = [runs EXCEPT ![j] = runs[j] + 1]
      /\ UNCHANGED <<row, stamp, env, submit, future, listed, pool, exec, copy, restarts>>
  BY DEF Work
<1>3. j \in Job /\ row[j].status = "running" /\ runs[j] = 0 /\ runs[j] + 1 = 1
  BY <1>2, WorkerOwns DEF IInv, WorkerInv
<1>4. TypeOK'
  <2>1. runs' \in [Job -> Nat] /\ verdict' \in [Job -> Verdicts \cup {"none"}]
    BY <1>1, <1>2, <1>3 DEF IInv, TypeOK
  <2>2. QED
    BY <1>2, <2>1, WorkerStepFacts DEF IInv, TypeOK, Doing
<1>5. /\ runs'[j] = 1 /\ verdict'[j] = v /\ worker'[w].step = "report" /\ worker'[w].job = j
      /\ worker[w].step # "idle" /\ j # NoJob
  BY <1>1, <1>2, <1>3, WorkerStepFacts DEF IInv, TypeOK, ConstantsAssumption
<1>6. \A i \in Job \ {j} : Same(i)
  BY <1>1, <1>2 DEF IInv, TypeOK, Same
<1>7. JobInv(j)'
  BY <1>2, <1>3, <1>5, WorkerOwns DEF IInv, JobInv, SubmitInv, ExecInv, RowInv, FutureInv, Is,
     Final
<1>8. WorkerInv(w)'
  BY <1>2, <1>3, <1>5 DEF IInv, WorkerInv, Is
<1>9. \A u \in Worker \ {w} : worker'[u] = worker[u]
  BY <1>2 DEF IInv, TypeOK
<1>10. QED
  BY <1>2, <1>3, <1>4, <1>5, <1>6, <1>7, <1>8, <1>9, WorkerOwns, OneWorker

LEMMA LoseClaimPreserves ==
  ASSUME ConstantsAssumption, IInv, NEW w \in Worker, NEW j \in Job, worker[w].job = j,
         LoseClaim(w)
  PROVE  IInv'
<1>1. /\ worker[w].step = "claimed" /\ worker' = [worker EXCEPT ![w] = Free]
      /\ UNCHANGED <<row, stamp, env, submit, future, listed, pool, exec, copy, restarts, runs,
                     verdict>>
  BY DEF LoseClaim
<1>2. TypeOK'
  BY <1>1 DEF IInv, TypeOK, Free
<1>3. worker'[w] = Free /\ \A u \in Worker \ {w} : worker'[u] = worker[u]
  BY <1>1 DEF IInv, TypeOK
<1>4. \A i \in Job : Same(i)
  BY <1>1 DEF Same
<1>5. worker[w].step # "idle" /\ j \in Job
  BY <1>1, WorkerOwns
<1>6. JobInv(j)'
  BY <1>1, <1>4, <1>5, JobFrame DEF IInv
<1>7. WorkerInv(w)'
  BY <1>3 DEF WorkerInv, Free
<1>8. QED
  BY <1>1, <1>2, <1>3, <1>4, <1>5, <1>6, <1>7, WorkerOwns, OneWorker

LEMMA ReportReadPreserves ==
  ASSUME ConstantsAssumption, IInv, NEW w \in Worker, NEW j \in Job, worker[w].job = j,
         ReportRead(w)
  PROVE  IInv'
<1>1. /\ worker[w].step = "report" /\ worker' = [worker EXCEPT ![w].step = "record"]
      /\ copy' = [copy EXCEPT ![j] = row[j]]
      /\ UNCHANGED <<row, stamp, env, submit, future, listed, pool, exec, restarts, runs,
                     verdict>>
  BY DEF ReportRead
<1>2. j \in Job
  BY <1>1, WorkerOwns
<1>3. TypeOK'
  BY <1>1, <1>2, WorkerStepFacts DEF IInv, TypeOK, Doing
<1>4. /\ copy'[j] = row[j] /\ worker'[w].step = "record" /\ worker'[w].job = j
      /\ worker[w].step # "idle" /\ j # NoJob
  BY <1>1, <1>2 DEF IInv, TypeOK, ConstantsAssumption
<1>5. \A i \in Job \ {j} : Same(i)
  BY <1>1 DEF IInv, TypeOK, Same
<1>6. JobInv(j)'
  BY <1>1, <1>2, <1>4, WorkerOwns DEF IInv, JobInv, SubmitInv, ExecInv, RowInv, FutureInv, Is
<1>7. WorkerInv(w)'
  BY <1>1, <1>2, <1>4 DEF IInv, WorkerInv, Is
<1>8. \A u \in Worker \ {w} : worker'[u] = worker[u]
  BY <1>1 DEF IInv, TypeOK
<1>9. QED
  BY <1>1, <1>2, <1>3, <1>4, <1>5, <1>6, <1>7, <1>8, WorkerOwns, OneWorker

(* The copy that goes back is the record: nobody else writes to the job    *)
(* between the two steps of a report.                                      *)
LEMMA ReportRecordPreserves ==
  ASSUME ConstantsAssumption, IInv, NEW w \in Worker, NEW j \in Job, worker[w].job = j,
         ReportRecord(w)
  PROVE  IInv'
<1> DEFINE s == StatusOf(verdict[j])
<1>1. /\ worker[w].step = "record"
      /\ worker' = [worker EXCEPT ![w] = Free] \/ worker' = [worker EXCEPT ![w].step = "report"]
      /\ copy' = [copy EXCEPT ![j] = NoRow]
      /\ UNCHANGED <<stamp, env, submit, future, listed, pool, exec, restarts, runs, verdict>>
  BY DEF ReportRecord
<1>2. /\ j \in Job /\ Is(j, "sqlite") /\ row[j] \in Record /\ row[j].by = w /\ copy[j] = row[j]
      /\ runs[j] = 1 /\ exec[j] = "none" /\ submit[j] \notin {"new", "save"}
  BY <1>1, WorkerOwns DEF IInv, WorkerInv
<1>3. row' = [row EXCEPT ![j] = Rec(s, "sqlite", w)]
  <2> DEFINE back == [copy[j] EXCEPT !.status = s]
  <2>1. row[j] = Rec(row[j].status, "sqlite", w)
    BY <1>2 DEF Record, Rec, Is
  <2>2. back = Rec(s, "sqlite", w)
    BY <1>2, <2>1 DEF Rec
  <2>3. row' = [row EXCEPT ![j] = back]
    BY DEF ReportRecord
  <2>4. QED
    BY <2>2, <2>3
<1>4. s \in Final /\ (row[j].status \in Final => row[j].status = s)
  BY <1>2 DEF IInv, JobInv, RowInv, StatusOf, Final
<1>5. row'[j] = Rec(s, "sqlite", w) /\ copy'[j] = NoRow
  BY <1>2, <1>1, <1>3 DEF IInv, TypeOK
<1>6. /\ worker' \in [Worker -> Doing]
      /\ worker'[w] = Free \/ (worker'[w].step = "report" /\ worker'[w].job = j)
      /\ \A u \in Worker \ {w} : worker'[u] = worker[u]
      /\ worker[w].step # "idle" /\ j # NoJob
  <2>1. TypeOK /\ worker[w].step # "idle" /\ j # NoJob
    BY <1>1, <1>2 DEF IInv, ConstantsAssumption
  <2>2. CASE worker' = [worker EXCEPT ![w] = Free]
    BY <2>1, <2>2 DEF TypeOK, Free, Doing
  <2>3. CASE worker' = [worker EXCEPT ![w].step = "report"]
    BY <2>1, <2>3, WorkerStepFacts
  <2>4. QED
    BY <1>1, <2>2, <2>3
<1>7. TypeOK'
  BY <1>1, <1>2, <1>3, <1>4, <1>6 DEF IInv, TypeOK, Doing, Rec, Record, Status, Final
<1>8. \A i \in Job \ {j} : Same(i)
  BY <1>1, <1>3 DEF IInv, TypeOK, Same
<1>9. future[j] = "result" => s = "completed"
  BY <1>2, <1>4 DEF IInv, JobInv, FutureInv, Final
<1>10. JobInv(j)'
  BY <1>1, <1>2, <1>4, <1>5, <1>9 DEF IInv, JobInv, SubmitInv, ExecInv, RowInv, FutureInv, Is,
     Rec, NoRow, Final, ConstantsAssumption
<1>11. WorkerInv(w)'
  BY <1>1, <1>2, <1>4, <1>5, <1>6 DEF WorkerInv, Is, Free, Rec, NoRow, Final,
     ConstantsAssumption
<1>12. QED
  BY <1>1, <1>2, <1>6, <1>7, <1>8, <1>10, <1>11, WorkerOwns, OneWorker

(* What a worker knows after a restart. *)
After(x) == CASE x.step = "claimed" -> Free
              [] x.step = "record"  -> [x EXCEPT !.step = "report"]
              [] OTHER -> x

LEMMA AfterFacts ==
  ASSUME NEW x \in Doing
  PROVE  /\ After(x) \in Doing
         /\ \/ x.step = "claimed" /\ After(x) = Free
            \/ x.step = "record" /\ After(x).step = "report" /\ After(x).job = x.job
            \/ x.step \in {"idle", "report"} /\ After(x) = x
<1>1. CASE x.step = "claimed"
  BY <1>1 DEF After, Free, Doing
<1>2. CASE x.step = "record"
  <2>1. After(x) = [x EXCEPT !.step = "report"]
    BY <1>2 DEF After
  <2>2. QED
    BY <1>2, <2>1 DEF Doing
<1>3. CASE x.step \in {"idle", "report"}
  BY <1>3 DEF After
<1>4. QED
  BY <1>1, <1>2, <1>3 DEF Doing

(* A restart leaves the table and the workers, and nothing else that the   *)
(* invariant speaks of: no thread, no queue, no entry of _JOBS.            *)
LEMMA RestartPreserves ==
  ASSUME ConstantsAssumption, IInv, Restart
  PROVE  IInv'
<1>1. /\ env' \in Backends /\ restarts' = restarts + 1 /\ restarts < MaxRestarts
      /\ submit' = [j \in Job |-> IF submit[j] = "new" THEN "new" ELSE "ended"]
      /\ future' = [j \in Job |-> "none"] /\ listed' = {} /\ pool' = <<>>
      /\ exec' = [j \in Job |-> "none"] /\ copy' = [j \in Job |-> NoRow]
      /\ UNCHANGED <<row, stamp, runs, verdict>>
  BY DEF Restart
<1>2. worker \in [Worker -> Doing]
  BY DEF IInv, TypeOK, Doing
<1>3. worker' = [w \in Worker |-> After(worker[w])]
  BY DEF Restart, After
<1>4. worker' \in [Worker -> Doing]
  BY <1>2, <1>3, AfterFacts
<1>5. TypeOK'
  <2>1. restarts' \in 0 .. MaxRestarts
    BY <1>1 DEF IInv, TypeOK, ConstantsAssumption
  <2>2. pool' \in Seq(Job)
    BY <1>1
  <2>3. QED
    BY <1>1, <1>4, <2>1, <2>2 DEF IInv, TypeOK, Doing
<1>6. PoolInv'
  BY <1>1 DEF PoolInv
<1>7. ASSUME NEW j \in Job PROVE JobInv(j)'
  <2>1. /\ submit'[j] \in {"new", "ended"} /\ future'[j] = "none" /\ exec'[j] = "none"
        /\ row'[j] = row[j] /\ runs'[j] = runs[j] /\ verdict'[j] = verdict[j]
        /\ j \notin listed' /\ (submit'[j] = "new" => row[j] = NoRow)
    BY <1>1 DEF IInv, TypeOK, JobInv, SubmitInv
  <2>2. QED
    BY <2>1 DEF IInv, JobInv, SubmitInv, ExecInv, RowInv, FutureInv, Is, NoRow, Final
<1>8. ASSUME NEW w \in Worker PROVE WorkerInv(w)'
  <2>1. row' = row /\ runs' = runs /\ worker'[w] = After(worker[w]) /\ worker[w] \in Doing
    BY <1>1, <1>2, <1>3
  <2>2. \/ worker[w].step = "claimed" /\ worker'[w] = Free
        \/ worker[w].step = "record" /\ worker'[w].step = "report"
             /\ worker'[w].job = worker[w].job
        \/ worker[w].step \in {"idle", "report"} /\ worker'[w] = worker[w]
    BY <2>1, AfterFacts
  <2>3. QED
    BY <2>1, <2>2 DEF IInv, WorkerInv, Is, Free
<1>9. QED
  BY <1>1, <1>5, <1>6, <1>7, <1>8 DEF IInv
-----------------------------------------------------------------------------
LEMMA InitHolds == ConstantsAssumption /\ Init => IInv
<1> SUFFICES ASSUME ConstantsAssumption, Init PROVE IInv
  OBVIOUS
<1>1. TypeOK
  <2>1. pool \in Seq(Job)
    BY DEF Init
  <2>2. 0 \in 0 .. MaxRestarts
    BY DEF ConstantsAssumption
  <2>3. QED
    BY <2>1, <2>2 DEF Init, TypeOK, Free
<1>2. IsFiniteSet({j \in Job : stamp[j] > 0})
  <2>1. {j \in Job : stamp[j] > 0} = {}
    BY DEF Init
  <2>2. QED
    BY <2>1, FS_EmptySet
<1>3. PoolInv
  BY DEF Init, PoolInv
<1>4. ASSUME NEW j \in Job PROVE JobInv(j)
  BY DEF Init, JobInv, SubmitInv, ExecInv, RowInv, FutureInv, Is, NoRow, Final
<1>5. ASSUME NEW w \in Worker PROVE WorkerInv(w)
  BY DEF Init, WorkerInv, Free
<1>6. QED
  BY <1>1, <1>2, <1>3, <1>4, <1>5 DEF IInv

LEMMA NextHolds == ConstantsAssumption /\ IInv /\ [Next]_vars => IInv'
<1> SUFFICES ASSUME ConstantsAssumption, IInv, [Next]_vars PROVE IInv'
  OBVIOUS
<1>1. ASSUME NEW j \in Job, Submit(j) \/ ServerStep(j) \/ PoolFault(j)
      PROVE  IInv'
  BY <1>1, SubmitPreserves, SaveNewPreserves, EnqueuePreserves, ListPreserves, StartPreserves,
     ReadRecordPreserves, MarkRunningPreserves, RunFunctionPreserves, RecordOutcomePreserves,
     FinishPreserves, PoolFaultPreserves DEF ServerStep
<1>2. ASSUME NEW w \in Worker, WorkerStep(w) \/ LoseClaim(w)
      PROVE  IInv'
  <2>1. ASSUME NEW j \in Job, Claim(w, j) PROVE IInv'
    BY <2>1, ClaimPreserves
  <2>2. CASE Work(w) \/ LoseClaim(w) \/ ReportRead(w) \/ ReportRecord(w)
    <3>1. worker[w].job \in Job
      BY <2>2, WorkerOwns DEF Work, LoseClaim, ReportRead, ReportRecord
    <3>2. QED
      BY <2>2, <3>1, WorkPreserves, LoseClaimPreserves, ReportReadPreserves,
         ReportRecordPreserves
  <2>3. QED
    BY <1>2, <2>1, <2>2 DEF WorkerStep
<1>3. CASE UNCHANGED vars
  <2>1. \A j \in Job : JobInv(j)'
    BY <1>3 DEF vars, IInv, JobInv, SubmitInv, ExecInv, RowInv, FutureInv, Is
  <2>2. \A w \in Worker : WorkerInv(w)'
    BY <1>3 DEF vars, IInv, WorkerInv, Is
  <2>3. TypeOK' /\ PoolInv' /\ IsFiniteSet({j \in Job : stamp[j] > 0})'
    BY <1>3 DEF vars, IInv, TypeOK, PoolInv, Waits
  <2>4. QED
    BY <2>1, <2>2, <2>3 DEF IInv
<1>4. QED
  BY <1>1, <1>2, <1>3, RestartPreserves DEF Next

(* The steps of a job, of the threads and workers on it and of its record  *)
(* fit together as IInv says.                                              *)
THEOREM Invariant == Spec => []IInv
<1>1. Init => IInv
  BY ConstantsAssumption, InitHolds
<1>2. IInv /\ [Next]_vars => IInv'
  BY ConstantsAssumption, NextHolds
<1>3. QED
  BY <1>1, <1>2, PTL DEF Spec

(* The rows of table jobs, the queue and the threads' variables keep their *)
(* types.                                                                  *)
THEOREM TypeCorrect == Spec => []TypeOK
<1>1. IInv => TypeOK
  BY DEF IInv
<1>2. QED
  BY <1>1, Invariant, PTL

(* No job's function is started twice, by _execute_local_job or by workers *)
(* that claimed it, whatever is lost, restarted or raised.                 *)
THEOREM RunsOnce == Spec => []AtMostOnce
<1>1. IInv => AtMostOnce
  BY DEF IInv, JobInv, RowInv, AtMostOnce
<1>2. QED
  BY <1>1, Invariant, PTL

(* claimed_by names whoever holds a job, so no two hold the same.          *)
THEOREM HolderHolds == Spec => []HolderIsRecorded
<1>1. IInv => HolderIsRecorded
  <2> SUFFICES ASSUME IInv, NEW j \in Job, row[j] # NoRow
               PROVE  /\ \A w \in Worker : worker[w].job = j => row[j].by = w
                      /\ exec[j] \in {"run", "reread", "record"} => row[j].by = Local
                      /\ row[j].status = "queued" => row[j].by = NoWorker
    BY DEF HolderIsRecorded, Stored
  <2>1. \A w \in Worker : worker[w].job = j => row[j].by = w
    BY ConstantsAssumption DEF IInv, WorkerInv, ConstantsAssumption
  <2>2. exec[j] \in {"run", "reread", "record"} => row[j].by = Local
    BY DEF IInv, JobInv, ExecInv, Rec
  <2>3. row[j].status = "queued" => row[j].by = NoWorker
    BY DEF IInv, JobInv, RowInv
  <2>4. QED
    BY <2>1, <2>2, <2>3
<1>2. QED
  BY <1>1, Invariant, PTL

(* What complete_job leaves in a record is what the job's function did, if *)
(* no exception has an empty text: complete_job takes that for success.    *)
THEOREM OutcomeHolds ==
  ASSUME "raise_empty" \notin Verdicts
  PROVE  Spec => []OutcomeIsRecorded
<1>1. IInv => OutcomeIsRecorded
  BY ConstantsAssumption
  DEF IInv, JobInv, RowInv, OutcomeIsRecorded, Stored, StatusOf, Final, ConstantsAssumption
<1>2. QED
  BY <1>1, Invariant, PTL

(* get_job says completed only of a job whose record says so too.          *)
THEOREM ReportHolds == Spec => []ReportIsDurable
<1>1. IInv => ReportIsDurable
  <2> SUFFICES ASSUME IInv, NEW j \in Job, row[j] # NoRow, Reported(j) = "completed"
               PROVE  row[j].status = "completed"
    BY DEF ReportIsDurable, Stored
  <2>1. CASE j \in listed
    <3>1. future[j] = "result"
      BY <2>1 DEF Reported, FutureStatus
    <3>2. QED
      BY <3>1 DEF IInv, JobInv, FutureInv
  <2>2. CASE j \notin listed
    BY <2>2 DEF Reported
  <2>3. QED
    BY <2>1, <2>2
<1>2. QED
  BY <1>1, Invariant, PTL

(* For a job of the local backend whose record is final, and which no      *)
(* thread runs any more, get_job says what the record says: the future is  *)
(* gone or agrees, again if no exception has an empty text.                *)
THEOREM LocalReportHolds ==
  ASSUME "raise_empty" \notin Verdicts
  PROVE  Spec => []LocalFinalIsReported
<1>1. IInv => LocalFinalIsReported
  <2> SUFFICES ASSUME IInv, NEW j \in Job, row[j] # NoRow, row[j].backend = "local",
                      row[j].status \in Final, exec[j] = "none"
               PROVE  Reported(j) = row[j].status
    BY DEF LocalFinalIsReported, Stored
  <2>1. /\ row[j].status = StatusOf(verdict[j])
        /\ verdict[j] \in Verdicts
        /\ future[j] = FutureOf(verdict[j]) \/ j \notin listed
    BY DEF IInv, JobInv, RowInv, FutureInv, Is
  <2>2. verdict[j] \in {"ok", "raise"}
    BY <2>1, ConstantsAssumption DEF ConstantsAssumption
  <2>3. QED
    BY <2>1, <2>2 DEF Reported, FutureStatus, FutureOf, StatusOf
<1>2. QED
  BY <1>1, Invariant, PTL
-----------------------------------------------------------------------------
(* The one step about a job that StatusForward allows. *)
Forward(j) ==
  /\ Rank(row[j].status) <= Rank(row'[j].status)
  /\ row[j].status \in Final => row'[j].status = row[j].status

(* A job whose row stays moves nowhere; otherwise the new status decides. *)
LEMMA ForwardFacts ==
  ASSUME NEW j \in Job, IInv,
         \/ row'[j] = row[j]
         \/ row[j].status \notin Final /\ row'[j].status \in Status
              /\ (row[j].status = "running" => row'[j].status # "queued")
         \/ row[j].status \in Final /\ row'[j].status = row[j].status
  PROVE  Forward(j)
<1>1. row[j].status \in Status \cup {"none"}
  BY DEF IInv, TypeOK, Record, NoRow
<1>2. \A s \in Status \cup {"none"} : Rank(s) \in 0 .. 3
  BY DEF Status, Rank
<1>3. CASE row'[j].status = row[j].status
  BY <1>1, <1>2, <1>3 DEF Forward
<1>4. CASE row[j].status \notin Final /\ row'[j].status \in Status
             /\ (row[j].status = "running" => row'[j].status # "queued")
  BY <1>1, <1>4 DEF Forward, Rank, Status, Final
<1>5. QED
  BY <1>3, <1>4

(* A record only moves forward, from queued over running to a final status *)
(* that never changes again: also when reports are repeated, records are   *)
(* written back from earlier copies, or the process restarts.              *)
THEOREM ForwardHolds == Spec => StatusForward
<1>1. ASSUME ConstantsAssumption, IInv, [Next]_vars
      PROVE  \A i \in Job : Forward(i)
  <2>1. ASSUME NEW j \in Job, SaveNew(j)
        PROVE  \A i \in Job : Forward(i)
    <3>1. row[j] = NoRow /\ row'[j].status = "queued" /\ \A i \in Job \ {j} : row'[i] = row[i]
      BY <1>1, <2>1 DEF SaveNew, IInv, TypeOK, JobInv, SubmitInv
    <3>2. QED
      BY <1>1, <3>1, ForwardFacts DEF NoRow, Status, Final
  <2>2. ASSUME NEW j \in Job, MarkRunning(j) \/ RecordOutcome(j)
        PROVE  \A i \in Job : Forward(i)
    <3>1. /\ row[j].status \in {"queued", "running"} /\ row[j] # NoRow /\ copy[j] = row[j]
          /\ copy[j] \in Record
      BY <1>1, <2>2, ExecOwns DEF MarkRunning, RecordOutcome, IInv, JobInv, ExecInv, New, Rec,
         Is
    <3>2. /\ row'[j].status \in {"running", "completed", "failed"}
          /\ \A i \in Job \ {j} : row'[i] = row[i]
      <4> DEFINE half == [copy[j] EXCEPT !.status = "running"]
                 whole == [half EXCEPT !.by = Local]
      <4>1. CASE MarkRunning(j)
        <5>1. half \in Record /\ half.status = "running"
          BY <3>1 DEF Record, Status
        <5>2. whole.status = "running"
          <6> HIDE DEF half
          <6>1. QED
            BY <5>1 DEF Record
        <5>3. row' = [row EXCEPT ![j] = whole]
          BY <3>1, <4>1 DEF MarkRunning
        <5>4. QED
          <6> HIDE DEF whole
          <6>1. QED
            BY <1>1, <5>2, <5>3 DEF IInv, TypeOK
      <4>2. CASE RecordOutcome(j)
        BY <1>1, <3>1, <4>2 DEF RecordOutcome, StatusOf, IInv, TypeOK, Record
      <4>3. QED
        BY <2>2, <4>1, <4>2
    <3>3. QED
      BY <1>1, <3>1, <3>2, ForwardFacts DEF Status, Final
  <2>3. ASSUME NEW w \in Worker, NEW j \in Job, Claim(w, j)
        PROVE  \A i \in Job : Forward(i)
    <3>1. row[j].status = "queued" /\ row[j] \in Record
      BY <1>1, <2>3 DEF Claim, Claimable, Stored, IInv, TypeOK
    <3>2. row'[j].status = "running" /\ \A i \in Job \ {j} : row'[i] = row[i]
      BY <1>1, <2>3, <3>1 DEF Claim, IInv, TypeOK, Record
    <3>3. QED
      BY <1>1, <3>1, <3>2, ForwardFacts DEF Status, Final
  <2>4. ASSUME NEW w \in Worker, ReportRecord(w)
        PROVE  \A i \in Job : Forward(i)
    <3>1. PICK j \in Job : /\ worker[w].job = j /\ copy[j] = row[j] /\ row[j] \in Record
                           /\ row[j].status \in {"running"} \cup Final
                           /\ row[j].status \in Final => row[j].status = StatusOf(verdict[j])
      BY <1>1, <2>4, WorkerOwns DEF ReportRecord, IInv, WorkerInv, JobInv, RowInv
    <3>2. row'[j].status = StatusOf(verdict[j]) /\ \A i \in Job \ {j} : row'[i] = row[i]
      BY <1>1, <2>4, <3>1 DEF ReportRecord, IInv, TypeOK, Record
    <3>3. QED
      BY <1>1, <3>1, <3>2, ForwardFacts DEF Status, Final, StatusOf
  <2>5. CASE UNCHANGED row
    BY <1>1, <2>5, ForwardFacts
  <2>6. QED
    BY <1>1, <2>1, <2>2, <2>3, <2>4, <2>5
    DEF Next, ServerStep, WorkerStep, vars, Submit, Enqueue, List, Start, ReadRecord,
        RunFunction, Finish, PoolFault, Work, ReportRead, LoseClaim, Restart
<1>2. IInv /\ [Next]_vars =>
        [\A j \in Job : /\ Rank(row[j].status) <= Rank(row'[j].status)
                        /\ row[j].status \in Final => row'[j].status = row[j].status]_vars
  BY <1>1, ConstantsAssumption DEF Forward
<1>3. QED
  BY <1>2, Invariant, PTL DEF Spec, StatusForward
=============================================================================
