----------------------------- MODULE Evaluation -----------------------------
(***************************************************************************)
(* The evaluation an administrator starts from the dashboard               *)
(* (EvaluationDashboardService.run, evaluation/history.py and              *)
(* benchmark/history.py), and the comparison of the recorded runs.         *)
(*                                                                         *)
(* An attempt is saved as running, the documents are read one by one, and  *)
(* a report is saved for a complete reading before the attempt is settled. *)
(* The two tables are written one after the other, either write can fail,  *)
(* and the process can restart; the lock is in its memory.                 *)
(***************************************************************************)
EXTENDS Integers, FiniteSets, Sequences, FiniteSetsExt, SequencesExt

CONSTANTS Thread, NoThread,
          Documents,    \* how many of the dataset a run reads
          MaxAttempts, MaxFaults

VARIABLES
  lock,      \* NoThread, or the thread that took the run lock
  run,       \* per thread: the run it is in
  attempts,  \* the saved attempts, by number
  history,   \* the saved reports
  faults     \* how many writes failed and how often the process restarted

vars == <<lock, run, attempts, history, faults>>

\* read, of the parser's and the extractor's failures, and calls made for each.
Outcome == {"read", "not parsed", "no text", "not extracted"}
Calls(outcome) == IF outcome = "not parsed" THEN 1 ELSE 2

NoRun == [at |-> "idle", attempt |-> 0, seen |-> << >>, report |-> 0]
Running == [status |-> "running", processed |-> 0, calls |-> 0, report |-> 0]

Processed(seen) == Cardinality({i \in DOMAIN seen : seen[i] = "read"})
CallsMade(seen) == FoldLeft(+, 0, [i \in DOMAIN seen |-> Calls(seen[i])])

Init ==
  /\ lock = NoThread /\ run = [t \in Thread |-> NoRun]
  /\ attempts = << >> /\ history = << >> /\ faults = 0

\* The lock is taken without waiting; a second run is refused.
BeginRun(t) ==
  /\ run[t].at = "idle" /\ lock = NoThread /\ Len(attempts) < MaxAttempts
  /\ lock' = t
  /\ run' = [run EXCEPT ![t].at = "starting"]
  /\ UNCHANGED <<attempts, history, faults>>

StartAttempt(t) ==
  /\ run[t].at = "starting"
  /\ attempts' = Append(attempts, Running)
  /\ run' = [run EXCEPT ![t].at = "reading", ![t].attempt = Len(attempts) + 1]
  /\ UNCHANGED <<lock, history, faults>>

\* The dataset is loaded and the attempt first saved after the lock was taken and
\* before the block that gives it back.
FailToStart(t) ==
  /\ run[t].at = "starting" /\ faults < MaxFaults
  /\ run' = [run EXCEPT ![t] = NoRun]
  /\ faults' = faults + 1
  /\ UNCHANGED <<lock, attempts, history>>

ReadDocument(t, outcome) ==
  /\ run[t].at = "reading" /\ Len(run[t].seen) < Documents
  /\ run' = [run EXCEPT ![t].seen = Append(@, outcome)]
  /\ UNCHANGED <<lock, attempts, history, faults>>

\* A provider raises what is no ProviderError: the calls made for the document are
\* not counted.
ReadingBreaks(t) ==
  /\ run[t].at = "reading" /\ Len(run[t].seen) < Documents
  /\ run' = [run EXCEPT ![t].at = "failing"]
  /\ UNCHANGED <<lock, attempts, history, faults>>

Complete(seen) == Processed(seen) = Documents

FindIncomplete(t) ==
  /\ run[t].at = "reading" /\ Len(run[t].seen) = Documents /\ ~Complete(run[t].seen)
  /\ run' = [run EXCEPT ![t].at = "incomplete"]
  /\ UNCHANGED <<lock, attempts, history, faults>>

SaveReport(t) ==
  /\ run[t].at = "reading" /\ Len(run[t].seen) = Documents /\ Complete(run[t].seen)
  /\ history' = Append(history, [attempt |-> run[t].attempt, processed |-> Processed(run[t].seen)])
  /\ run' = [run EXCEPT ![t].at = "reported", ![t].report = Len(history) + 1]
  /\ UNCHANGED <<lock, attempts, faults>>

Settle(t, status, report) ==
  /\ attempts' = [attempts EXCEPT ![run[t].attempt] =
                    [status |-> status, processed |-> Processed(run[t].seen),
                     calls |-> CallsMade(run[t].seen), report |-> report]]
  /\ run' = [run EXCEPT ![t] = NoRun]
  /\ lock' = NoThread
  /\ UNCHANGED <<history, faults>>

Succeed(t) == run[t].at = "reported" /\ Settle(t, "succeeded", run[t].report)
Fail(t)    == run[t].at \in {"incomplete", "failing"} /\ Settle(t, "failed", 0)

\* A write fails.  That of a report or of a result is answered by a try to save the
\* attempt as failed; when that fails too, the attempt stays running.
WriteFails(t) ==
  /\ faults < MaxFaults
  /\ \/ /\ \/ run[t].at = "reading" /\ Len(run[t].seen) = Documents /\ Complete(run[t].seen)
           \/ run[t].at \in {"reported", "incomplete"}
        /\ run' = [run EXCEPT ![t].at = "failing"]
        /\ UNCHANGED lock
     \/ /\ run[t].at = "failing"
        /\ run' = [run EXCEPT ![t] = NoRun]
        /\ lock' = NoThread
  /\ faults' = faults + 1
  /\ UNCHANGED <<attempts, history>>

Restart ==
  /\ faults < MaxFaults
  /\ lock' = NoThread /\ run' = [t \in Thread |-> NoRun]
  /\ faults' = faults + 1
  /\ UNCHANGED <<attempts, history>>

Next ==
  \/ \E t \in Thread :
       \/ BeginRun(t) \/ StartAttempt(t) \/ FailToStart(t)
       \/ \E outcome \in Outcome : ReadDocument(t, outcome)
       \/ ReadingBreaks(t) \/ FindIncomplete(t)
       \/ SaveReport(t) \/ Succeed(t) \/ Fail(t) \/ WriteFails(t)
  \/ Restart

Spec == Init /\ [][Next]_vars

----------------------------------------------------------------------------
Active   == {t \in Thread : run[t].at # "idle"}
Stranded == {a \in DOMAIN attempts : /\ attempts[a].status = "running"
                                     /\ \A t \in Active : run[t].attempt # a}
Unclaimed == {r \in DOMAIN history : /\ attempts[history[r].attempt].status # "succeeded"
                                     /\ \A t \in Active : run[t].attempt # history[r].attempt}

\* The attempts tell what happened: one that succeeded names the report of its own
\* complete reading and all the calls made for it, no report is of a partial
\* reading, no attempt has two. One run is active at a time, and it takes a failed
\* write or a restart to strand an attempt as running, to keep the lock without a
\* run, or to leave a report whose attempt did not succeed, one each at most. About
\* EvaluationDashboardService.run.
AttemptsTellWhatHappened ==
  /\ \A a \in DOMAIN attempts :
       attempts[a].status = "succeeded" =>
         /\ attempts[a].report \in DOMAIN history
         /\ history[attempts[a].report].attempt = a
         /\ attempts[a].calls = 2 * Documents
  /\ \A r \in DOMAIN history : history[r].processed = Documents
  /\ \A r, q \in DOMAIN history : history[r].attempt = history[q].attempt => r = q
  /\ Cardinality(Active) <= 1 /\ \A t \in Active : lock = t
  /\ Cardinality(Stranded) + (IF lock # NoThread /\ Active = {} THEN 1 ELSE 0) <= faults
  /\ Cardinality(Unclaimed) <= faults
=============================================================================
