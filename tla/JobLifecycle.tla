----------------------------- MODULE JobLifecycle -----------------------------
(***************************************************************************)
(* What a user of the backtest API may rely on when reading the row of a   *)
(* backtest (models/backtest_result.py, services/backtest_service.py): its *)
(* status, the figures of the last run that completed and whether a        *)
(* message of an error is in it.  Which process writes it is left open.    *)
(***************************************************************************)
EXTENDS Integers

CONSTANT Jobs

VARIABLE row

Statuses == {"absent", "pending", "running", "completed", "failed", "gone"}
Row == [status : Statuses, figures : Nat, error : BOOLEAN]

LifeInit == row = [j \in Jobs |-> [status |-> "absent", figures |-> 0, error |-> FALSE]]

Submitted(j) ==
  /\ row[j].status = "absent"
  /\ row' = [row EXCEPT ![j].status = "pending"]

\* A run begins, the first one or one more; nothing else of the row changes.
Started(j) ==
  /\ row[j].status \notin {"absent", "gone"}
  /\ row' = [row EXCEPT ![j].status = "running"]

\* A run ends, and one had begun: only then the row is said to be final.  New figures come
\* only with "completed", and an older message stays beside them only if it was there.
Ended(j, status) ==
  /\ row[j].status \in {"running", "completed", "failed"}
  /\ row' = [row EXCEPT ![j] = row'[j]]
  /\ row'[j].status = status
  /\ IF status = "completed"
     THEN row'[j].figures # 0 /\ (row'[j].error => row[j].error)
     ELSE row'[j].figures = row[j].figures

\* The strategy is deleted, and with it its backtests.
Deleted(j) ==
  /\ row[j].status # "absent"
  /\ row' = [row EXCEPT ![j] = [status |-> "gone", figures |-> 0, error |-> FALSE]]

LifeNext ==
  \E j \in Jobs :
    \/ Submitted(j) \/ Started(j) \/ Deleted(j)
    \/ \E status \in {"completed", "failed"} : Ended(j, status)

LifeSpec == LifeInit /\ [][LifeNext]_row
=============================================================================
