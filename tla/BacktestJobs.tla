----------------------------- MODULE BacktestJobs -----------------------------
(***************************************************************************)
(* Backtests from the request to their end: the handler that stores the    *)
(* row and sends the task, the broker, and the Celery workers              *)
(* (api/v1/backtest.py, services/backtest_service.py,                      *)
(* tasks/trading_tasks.py, tasks/celery_app.py).                           *)
(*                                                                         *)
(* A message is acknowledged when its task has ended, however it ended; a  *)
(* worker process that dies hands it back.  A worker's session remembers   *)
(* the row as it first read it and writes the columns whose value it       *)
(* changed from that.                                                      *)
(***************************************************************************)
EXTENDS Integers, FiniteSets

CONSTANTS
  Jobs, Workers,
  MaxCopies    \* bound: messages of one backtest, the first one included

ASSUME CopiesAssumption == MaxCopies \in Nat \ {0}

VARIABLES
  row,         \* each backtest's row; "absent" before, "gone" after
  api,         \* its request: "idle", "committed", "sent", "done"
  queue,       \* messages waiting
  copies,      \* messages so far
  runs,        \* runs so far
  worker,      \* each worker: its job, where it is, what it read, its run's number
  cause,       \* history: what cut the work short
  overlapped   \* history: jobs two workers had at once

jobVars == <<row, api, queue, copies, runs, worker, cause, overlapped>>

Lifecycle == INSTANCE JobLifecycle WITH Jobs <- Jobs, row <- row

NoJob == [pc |-> "idle"]
Held == [pc : {"taken"}, job : Jobs]
Reading == [pc : {"read", "looking", "working"}, job : Jobs, run : Nat \ {0},
            status : Lifecycle!Statuses, error : BOOLEAN]

JobsTypeOK ==
  /\ row \in [Jobs -> Lifecycle!Row]
  /\ api \in [Jobs -> {"idle", "committed", "sent", "done"}]
  /\ queue \in [Jobs -> Nat] /\ copies \in [Jobs -> 0..MaxCopies]
  /\ runs \in [Jobs -> Nat]
  /\ worker \in [Workers -> {NoJob} \cup Held \cup Reading]
  /\ cause \in [Jobs -> SUBSET {"unsent", "lookup", "save", "timeout", "lost"}]
  /\ overlapped \subseteq Jobs

JobsInit ==
  /\ row = [j \in Jobs |-> [status |-> "absent", figures |-> 0, error |-> FALSE]]
  /\ api = [j \in Jobs |-> "idle"]
  /\ queue = [j \in Jobs |-> 0] /\ copies = [j \in Jobs |-> 0] /\ runs = [j \in Jobs |-> 0]
  /\ worker = [w \in Workers |-> NoJob]
  /\ cause = [j \in Jobs |-> {}] /\ overlapped = {}

----------------------------------------------------------------------------
(* The request. *)

\* create_backtest and the first commit.
Submit(j) ==
  /\ api[j] = "idle"
  /\ row' = [row EXCEPT ![j].status = "pending"]
  /\ api' = [api EXCEPT ![j] = "committed"]
  /\ UNCHANGED <<queue, copies, runs, worker, cause, overlapped>>

\* run_backtest_task.delay
Send(j) ==
  /\ api[j] = "committed"
  /\ queue' = [queue EXCEPT ![j] = @ + 1] /\ copies' = [copies EXCEPT ![j] = @ + 1]
  /\ api' = [api EXCEPT ![j] = "sent"]
  /\ UNCHANGED <<row, runs, worker, cause, overlapped>>

\* The broker cannot be reached and the user is told "celery-unavailable", or the process
\* ends: the row stays.
FailSend(j) ==
  /\ api[j] = "committed"
  /\ api' = [api EXCEPT ![j] = "done"]
  /\ cause' = [cause EXCEPT ![j] = @ \cup {"unsent"}]
  /\ UNCHANGED <<row, queue, copies, runs, worker, overlapped>>

\* The commit of the task's id, or its failure, which is told as "celery-unavailable" too.
EndSubmit(j) ==
  /\ api[j] = "sent"
  /\ api' = [api EXCEPT ![j] = "done"]
  /\ UNCHANGED <<row, queue, copies, runs, worker, cause, overlapped>>

\* The strategy is deleted, and its backtests with it (ON DELETE CASCADE).
DeleteStrategyOf(j) ==
  /\ row[j].status \notin {"absent", "gone"}
  /\ row' = [row EXCEPT ![j] = [status |-> "gone", figures |-> 0, error |-> FALSE]]
  /\ UNCHANGED <<api, queue, copies, runs, worker, cause, overlapped>>

----------------------------------------------------------------------------
(* The task. *)

Busy(w) == worker[w].pc # "idle"
With(j) == {w \in Workers : Busy(w) /\ worker[w].job = j}

\* A worker takes a message, which the broker keeps until it is acknowledged.
Take(w, j) ==
  /\ ~Busy(w) /\ queue[j] > 0
  /\ queue' = [queue EXCEPT ![j] = @ - 1]
  /\ worker' = [worker EXCEPT ![w] = [pc |-> "taken", job |-> j]]
  /\ overlapped' = IF With(j) # {} THEN overlapped \cup {j} ELSE overlapped
  /\ UNCHANGED <<row, api, copies, runs, cause>>

\* The row is read; a backtest that is not there ends the task.
ReadRow(w) ==
  /\ worker[w].pc = "taken"
  /\ LET j == worker[w].job
     IN IF row[j].status = "gone"
        THEN worker' = [worker EXCEPT ![w] = NoJob] /\ UNCHANGED runs
        ELSE /\ runs' = [runs EXCEPT ![j] = @ + 1]
             /\ worker' = [worker EXCEPT ![w] = [pc |-> "read", job |-> j, run |-> runs'[j],
                                                 status |-> row[j].status,
                                                 error |-> row[j].error]]
  /\ UNCHANGED <<row, api, queue, copies, cause, overlapped>>

\* status = "running", which is a write only if another status was read.  A row that has
\* gone ends the task, here or at the lookup of its strategy.
MarkRunning(w) ==
  /\ worker[w].pc = "read"
  /\ LET j == worker[w].job
     IN IF row[j].status = "gone"
        THEN worker' = [worker EXCEPT ![w] = NoJob] /\ UNCHANGED row
        ELSE /\ row' = IF worker[w].status = "running" THEN row
                       ELSE [row EXCEPT ![j].status = "running"]
             /\ worker' = [worker EXCEPT ![w].pc = "looking"]
  /\ UNCHANGED <<api, queue, copies, runs, cause, overlapped>>

\* The strategy and the account are found, and the candles are asked for.
LookUp(w) ==
  /\ worker[w].pc = "looking"
  /\ worker' = [worker EXCEPT ![w].pc = "working"]
  /\ UNCHANGED <<row, api, queue, copies, runs, cause, overlapped>>

\* Mutant: a message is written when there is one, and never taken back.
MessageStays(old, read, status, e) ==
  IF status = "failed" THEN e \/ (read /\ e = old.error) ELSE e = old.error

\* Whether there may be a message e in the row after an update: a column is written if its
\* value differs from the one read, so no message is written over none, nor one over its like.
Message(old, read, status, e) ==
  IF status = "failed" THEN e \/ (read /\ e = old.error)
  ELSE e = (~read /\ old.error)

\* Mutant: the figures are written whatever the status.
Overwritten(old, read, status, run) ==
  {[status |-> status, figures |-> IF status = "completed" THEN run ELSE 0, error |-> e] :
     e \in {f \in BOOLEAN : Message(old, read, status, f)}}

\* update_result: what it may leave in the row.
Updated(old, read, status, run) ==
  {[status |-> status, figures |-> IF status = "completed" THEN run ELSE old.figures,
    error |-> e] : e \in {f \in BOOLEAN : Message(old, read, status, f)}}

\* The run completes, or it fails - there is no account, the exchange or the engine raises -
\* and says so; the row must still be there.
EndRun(w, status) ==
  LET j == worker[w].job
  IN /\ worker[w].pc \in (IF status = "completed" THEN {"working"} ELSE {"looking", "working"})
     /\ row[j].status # "gone"
     /\ \E new \in Updated(row[j], worker[w].error, status, worker[w].run) :
          row' = [row EXCEPT ![j] = new]
     /\ worker' = [worker EXCEPT ![w] = NoJob]
     /\ UNCHANGED <<api, queue, copies, runs, cause, overlapped>>

\* An exception nothing turns into a status: the database fails, the user has two active
\* accounts or a key that does not decrypt; or the result cannot be saved, and then neither
\* can the failure, in a session that wants a rollback; or the row is gone.
Raise(w) ==
  /\ worker[w].pc \in {"taken", "read", "looking", "working"}
  /\ worker' = [worker EXCEPT ![w] = NoJob]
  /\ cause' = [cause EXCEPT ![worker[w].job] =
                 @ \cup {IF worker[w].pc = "working" THEN "save" ELSE "lookup"}]
  /\ UNCHANGED <<row, api, queue, copies, runs, overlapped>>

----------------------------------------------------------------------------
(* The broker and its workers. *)

\* The hard limit of an hour: the process is killed and the message acknowledged.
TimeLimit(w) ==
  /\ Busy(w)
  /\ worker' = [worker EXCEPT ![w] = NoJob]
  /\ cause' = [cause EXCEPT ![worker[w].job] = @ \cup {"timeout"}]
  /\ UNCHANGED <<row, api, queue, copies, runs, overlapped>>

\* Mutant: the message was acknowledged when it was taken.
AckedEarly(j) == UNCHANGED <<queue, copies>>

\* A message comes back to the queue.
Redelivered(j) ==
  /\ queue' = [queue EXCEPT ![j] = @ + 1]
  /\ copies' = [copies EXCEPT ![j] = @ + 1]

\* The worker process dies: acks_late and reject_on_worker_lost.
LoseWorker(w) ==
  /\ Busy(w) /\ copies[worker[w].job] < MaxCopies
  /\ worker' = [worker EXCEPT ![w] = NoJob]
  /\ Redelivered(worker[w].job)
  /\ UNCHANGED <<row, api, runs, cause, overlapped>>

\* A message not acknowledged within the broker's visibility timeout is delivered again.
DeliverAgain(w) ==
  /\ Busy(w) /\ copies[worker[w].job] < MaxCopies
  /\ Redelivered(worker[w].job)
  /\ UNCHANGED <<row, api, runs, worker, cause, overlapped>>

\* The broker loses what it has not delivered.
LoseQueue(j) ==
  /\ queue[j] > 0
  /\ queue' = [queue EXCEPT ![j] = 0]
  /\ cause' = [cause EXCEPT ![j] = @ \cup {"lost"}]
  /\ UNCHANGED <<row, api, copies, runs, worker, overlapped>>

JobStep(j) ==
  Submit(j) \/ Send(j) \/ FailSend(j) \/ EndSubmit(j) \/ DeleteStrategyOf(j) \/ LoseQueue(j)

WorkerStep(w) ==
  \/ \E j \in Jobs : Take(w, j)
  \/ ReadRow(w) \/ MarkRunning(w) \/ LookUp(w) \/ Raise(w)
  \/ \E status \in {"completed", "failed"} : EndRun(w, status)
  \/ TimeLimit(w) \/ LoseWorker(w) \/ DeliverAgain(w)

JobsNext == (\E j \in Jobs : JobStep(j)) \/ (\E w \in Workers : WorkerStep(w))
JobsSpec == JobsInit /\ [][JobsNext]_jobVars

----------------------------------------------------------------------------
(* The death of workers alone, however often, leaves no backtest behind as pending or
   running: one that nobody will work on again was never sent, an exception escaped, the
   hour was over or the broker lost it (celery_app.py:25-26, trading_tasks.py:165-288,
   backtest.py:27-40). *)
StuckHasCause ==
  \A j \in Jobs :
    /\ row[j].status \in {"pending", "running"} /\ api[j] # "committed"
    /\ queue[j] = 0 /\ With(j) = {}
    => cause[j] # {}

(* Where one worker at a time had a backtest, however often it was redelivered, a completed
   row has figures and no message of an error, and a failed one a message; its figures, if
   any, are those of an earlier run, for a run that fails after another has completed
   changes the status and leaves the figures (trading_tasks.py:165-288,
   backtest_service.py:85-118). *)
OutcomeIsWhole ==
  \A j \in Jobs \ overlapped :
    /\ row[j].status = "completed" => row[j].figures # 0 /\ ~row[j].error
    /\ row[j].status = "failed" => row[j].error /\ row[j].figures < runs[j]

(* The workers, the broker and the request together keep the row to the life the API shows
   its users: pending once, running before it is final, figures only from a run that
   completed (backtest.py:27-40, trading_tasks.py:185-288). *)
JobsRefine == Lifecycle!LifeSpec
=============================================================================
