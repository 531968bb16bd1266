-------------------------- MODULE EvaluationProofs --------------------------
(***************************************************************************)
(* Proofs about evaluations: that their attempts and reports tell what     *)
(* happened, for any threads, documents and faults; and that the report of *)
(* an evaluation, its calls and the comparisons of its page add up, for    *)
(* every sequence of documents and of reports.  Then they are carried over *)
(* to the instance that TLC checks.                                        *)
(***************************************************************************)
EXTENDS PagesProofs

-----------------------------------------------------------------------------
(* Evaluation runs.                                                          *)

\* Where a run is, and what the tables hold.
Steps == {"idle", "starting", "reading", "incomplete", "reported", "failing"}
Position == [at : Steps, attempt : Nat, seen : Seq(Evaluations!Outcome), report : Nat]
Attempts == [status : {"running", "succeeded", "failed"}, processed : Nat, calls : Nat, report : Nat]
Histories == [attempt : Nat, processed : Nat]

\* Types; only the holder of the lock is in a run; before a run reads, it is fresh.
RunsInv ==
  /\ lock \in Thread \union {NoThread}
  /\ ongoing \in [Thread -> Position]
  /\ attempts \in Seq(Attempts)
  /\ history \in Seq(Histories)
  /\ faults \in Nat
  /\ \A t \in Thread : ongoing[t].at # "idle" => lock = t
  /\ \A t \in Thread : ongoing[t].at \in {"idle", "starting"} => ongoing[t] = [Evaluations!NoRun EXCEPT !.at = ongoing[t].at]
  /\ \A t \in Thread : Len(ongoing[t].seen) <= Documents

\* A run that reads has its attempt on record.
HeldInv ==
  \A t \in Thread : ongoing[t].at \notin {"idle", "starting"} =>
    /\ ongoing[t].attempt \in DOMAIN attempts
    /\ attempts[ongoing[t].attempt].status = "running"

\* Reports are of complete readings, one of an attempt, and a run knows its own.
ReportsInv ==
  /\ \A r \in DOMAIN history : history[r].attempt \in DOMAIN attempts /\ history[r].processed = Documents
  /\ \A r, q \in DOMAIN history : history[r].attempt = history[q].attempt => r = q
  /\ \A t \in Thread : ongoing[t].at \in {"reading", "incomplete"} =>
       \A r \in DOMAIN history : history[r].attempt # ongoing[t].attempt
  /\ \A t \in Thread : ongoing[t].at = "reported" =>
       /\ ongoing[t].report \in DOMAIN history
       /\ history[ongoing[t].report].attempt = ongoing[t].attempt
       /\ Len(ongoing[t].seen) = Documents /\ Evaluations!Complete(ongoing[t].seen)
  /\ \A a \in DOMAIN attempts : attempts[a].status = "succeeded" =>
       /\ attempts[a].report \in DOMAIN history
       /\ history[attempts[a].report].attempt = a
       /\ attempts[a].calls = 2 * Documents

\* Whether the lock is kept without a run.
Stuck == IF lock # NoThread /\ Evaluations!Active = {} THEN 1 ELSE 0

\* Reports that their attempt does not name and no run is about to name.
Lost ==
  {r \in DOMAIN history :
     /\ attempts[history[r].attempt].status # "succeeded"
     /\ \A t \in Thread : ongoing[t].at = "reported" => ongoing[t].attempt # history[r].attempt}

\* It took a fault to strand an attempt, to keep the lock, or to lose a report.
FaultsInv ==
  /\ Cardinality(Evaluations!Stranded) + Stuck <= faults
  /\ Cardinality(Lost) <= faults

\* The inductive invariant.
EvaluationInv == RunsInv /\ HeldInv /\ ReportsInv /\ FaultsInv

\* A subset has no more members,
LEMMA NoMore ==
  ASSUME NEW S, IsFiniteSet(S), NEW T \in SUBSET S
  PROVE  Cardinality(T) \in Nat /\ Cardinality(S) \in Nat /\ Cardinality(T) <= Cardinality(S)
BY FS_Subset, FS_CardinalityType

\* and at most one more with one more to take them from.
LEMMA OneMore ==
  ASSUME NEW S, IsFiniteSet(S), NEW x, NEW T \in SUBSET (S \union {x})
  PROVE  Cardinality(T) \in Nat /\ Cardinality(S) \in Nat /\ Cardinality(T) <= Cardinality(S) + 1
<1>1. IsFiniteSet(S \union {x}) /\ Cardinality(S \union {x}) <= Cardinality(S) + 1
  <2>1. Cardinality(S) \in Nat
    BY FS_CardinalityType
  <2>2. QED
    BY <2>1, FS_AddElement
<1>2. Cardinality(S) \in Nat /\ Cardinality(T) \in Nat /\ Cardinality(S \union {x}) \in Nat
      /\ Cardinality(T) <= Cardinality(S \union {x})
  BY <1>1, FS_Subset, FS_CardinalityType
<1>3. QED
  BY <1>1, <1>2

\* The tables are sequences of their rows.
LEMMA Tables ==
  ASSUME RunsInv
  PROVE  /\ Len(attempts) \in Nat /\ DOMAIN attempts = 1..Len(attempts)
         /\ Len(history) \in Nat /\ DOMAIN history = 1..Len(history)
         /\ \A a \in DOMAIN attempts : attempts[a] \in Attempts
         /\ \A r \in DOMAIN history : history[r] \in Histories
BY LenProperties, ElementOfSeq DEF RunsInv

\* So what is counted is finite,
LEMMA FiniteTables ==
  ASSUME RunsInv
  PROVE  IsFiniteSet(Evaluations!Stranded) /\ IsFiniteSet(Lost)
<1>1. IsFiniteSet(DOMAIN attempts) /\ IsFiniteSet(DOMAIN history)
  BY Tables, FS_Interval
<1>2. Evaluations!Stranded \subseteq DOMAIN attempts /\ Lost \subseteq DOMAIN history
  BY DEF Evaluations!Stranded, Lost
<1>3. QED
  BY <1>1, <1>2, FS_Subset

\* and has a count.
LEMMA Counted ==
  ASSUME RunsInv
  PROVE  /\ Cardinality(Evaluations!Stranded) \in Nat /\ Cardinality(Lost) \in Nat
         /\ Stuck \in {0, 1} /\ faults \in Nat
BY FiniteTables, FS_CardinalityType DEF Stuck, RunsInv

\* The lock admits one run.
LEMMA OthersIdle ==
  ASSUME RunsInv, NEW t \in Thread, ongoing[t].at # "idle"
  PROVE  /\ lock = t /\ lock # NoThread
         /\ \A u \in Thread : u # t => ongoing[u].at = "idle"
BY EvaluationAssumption DEF RunsInv

\* A step within a run, that leaves the tables and the lock alone.
LEMMA WithinRun ==
  ASSUME EvaluationInv, NEW t \in Thread, NEW p \in Position,
         ongoing' = [ongoing EXCEPT ![t] = p], UNCHANGED <<lock, attempts, history>>,
         ongoing[t].at \in {"reading", "incomplete", "reported"},
         p.at \in {"reading", "incomplete", "failing"},
         ongoing[t].at # "reading" => p.at = "failing",
         p.attempt = ongoing[t].attempt, Len(p.seen) <= Documents,
         \/ faults' = faults /\ ongoing[t].at # "reported"
         \/ faults' = faults + 1
  PROVE  EvaluationInv'
<1> USE DEF EvaluationInv
<1>0. /\ ongoing[t].at # "idle" /\ t # NoThread /\ lock = t
      /\ \A u \in Thread : u # t => ongoing[u].at = "idle"
  BY OthersIdle
<1>1. ongoing'[t] = p /\ \A u \in Thread : u # t => ongoing'[u] = ongoing[u]
  BY DEF RunsInv
<1>2. RunsInv'
  BY <1>0, <1>1 DEF RunsInv
<1>3. HeldInv'
  BY <1>0, <1>1 DEF HeldInv
<1>4. ReportsInv'
  BY <1>0, <1>1 DEF ReportsInv
<1>5. FaultsInv'
  <2>1. Evaluations!Active = {t} /\ Evaluations!Active' = {t}
    BY <1>0, <1>1 DEF Evaluations!Active
  <2>2. Evaluations!Stranded' = Evaluations!Stranded /\ Stuck' = Stuck
    BY <1>1, <2>1 DEF Evaluations!Stranded, Stuck
  <2>3. CASE ongoing[t].at = "reported"
    <3>1. \A r \in DOMAIN history : history[r].attempt = ongoing[t].attempt => r = ongoing[t].report
      BY <2>3 DEF ReportsInv
    <3>2. Lost' \subseteq Lost \union {ongoing[t].report}
      BY <1>0, <1>1, <3>1 DEF Lost
    <3>3. Cardinality(Lost') <= Cardinality(Lost) + 1 /\ Cardinality(Lost') \in Nat /\ Cardinality(Lost) \in Nat
      BY <3>2, OneMore, FiniteTables
    <3>4. QED
      BY <2>2, <2>3, <3>3, Counted DEF FaultsInv
  <2>4. CASE ongoing[t].at # "reported"
    <3>1. Lost' = Lost
      BY <1>1, <2>4 DEF Lost
    <3>2. QED
      BY <2>2, <3>1, Counted DEF FaultsInv
  <2>5. QED
    BY <2>3, <2>4
<1>6. QED
  BY <1>2, <1>3, <1>4, <1>5

\* What a run starts from.
LEMMA FreshRun ==
  /\ Evaluations!NoRun \in Position
  /\ \A at \in Steps : /\ [Evaluations!NoRun EXCEPT !.at = at] \in Position
                       /\ [Evaluations!NoRun EXCEPT !.at = at].at = at
                       /\ [Evaluations!NoRun EXCEPT !.at = at].attempt = 0
                       /\ [Evaluations!NoRun EXCEPT !.at = at].seen = << >>
  /\ Evaluations!NoRun.at = "idle" /\ Evaluations!NoRun.attempt = 0 /\ Evaluations!NoRun.seen = << >>
  /\ Evaluations!NoRun = [Evaluations!NoRun EXCEPT !.at = "idle"]
<1>1. << >> \in Seq(Evaluations!Outcome)
  OBVIOUS
<1>2. ASSUME NEW at \in Steps
      PROVE  [Evaluations!NoRun EXCEPT !.at = at] = [at |-> at, attempt |-> 0, seen |-> << >>, report |-> 0]
  BY DEF Evaluations!NoRun
<1>3. ASSUME NEW at \in Steps
      PROVE  [at |-> at, attempt |-> 0, seen |-> << >>, report |-> 0] \in Position
  BY <1>1 DEF Position
<1>4. "idle" \in Steps
  BY DEF Steps
<1>5. QED
  BY <1>2, <1>3, <1>4 DEF Evaluations!NoRun

\* A run ends: its attempt is settled or, after a fault, left running.
LEMMA EndRun ==
  ASSUME EvaluationInv, NEW t \in Thread, NEW a, a = ongoing[t].attempt,
         ongoing[t].at \in {"reported", "incomplete", "failing"},
         ongoing' = [ongoing EXCEPT ![t] = Evaluations!NoRun], lock' = NoThread, UNCHANGED history,
         \/ /\ ongoing[t].at = "failing" /\ attempts' = attempts /\ faults' = faults + 1
         \/ /\ faults' = faults
            /\ \E r \in Attempts :
                 /\ attempts' = [attempts EXCEPT ![a] = r]
                 /\ r.status # "running"
                 /\ (r.status = "succeeded") <=> (ongoing[t].at = "reported")
                 /\ r.status = "succeeded" => r.report = ongoing[t].report /\ r.calls = 2 * Documents
  PROVE  EvaluationInv'
<1> USE DEF EvaluationInv
<1>0. /\ ongoing[t].at # "idle" /\ t # NoThread /\ lock = t
      /\ \A u \in Thread : u # t => ongoing[u].at = "idle"
      /\ a \in DOMAIN attempts /\ attempts[a].status = "running"
  BY OthersIdle DEF HeldInv
<1>1. \A u \in Thread : ongoing'[u].at = "idle" /\ ongoing'[u] = IF u = t THEN Evaluations!NoRun ELSE ongoing[u]
  BY <1>0, FreshRun DEF RunsInv
<1>2. /\ attempts' \in Seq(Attempts) /\ DOMAIN attempts' = DOMAIN attempts
      /\ \A b \in DOMAIN attempts : b # a => attempts'[b] = attempts[b]
      /\ \/ ongoing[t].at = "failing" /\ attempts' = attempts /\ faults' = faults + 1
         \/ /\ faults' = faults
            /\ attempts'[a].status # "running"
            /\ (attempts'[a].status = "succeeded") <=> (ongoing[t].at = "reported")
            /\ attempts'[a].status = "succeeded" =>
                 attempts'[a].report = ongoing[t].report /\ attempts'[a].calls = 2 * Documents
  <2>1. CASE attempts' = attempts /\ faults' = faults + 1
    BY <2>1 DEF RunsInv
  <2>2. ASSUME NEW r \in Attempts, attempts' = [attempts EXCEPT ![a] = r]
        PROVE  /\ attempts' \in Seq(Attempts) /\ DOMAIN attempts' = DOMAIN attempts
               /\ attempts'[a] = r
               /\ \A b \in DOMAIN attempts : b # a => attempts'[b] = attempts[b]
    BY <1>0, <2>2, Tables, ExceptSeq DEF RunsInv
  <2>3. QED
    BY <2>1, <2>2
<1>3. RunsInv'
  <2>1. ongoing' \in [Thread -> Position]
    BY FreshRun DEF RunsInv
  <2>2. Len(<< >>) <= Documents
    BY EvaluationAssumption
  <2>3. \A u \in Thread : ongoing'[u].at \in {"idle", "starting"} =>
           ongoing'[u] = [Evaluations!NoRun EXCEPT !.at = ongoing'[u].at]
    BY <1>0, <1>1, FreshRun DEF RunsInv
  <2>4. \A u \in Thread : Len(ongoing'[u].seen) <= Documents
    BY <1>1, <2>2, FreshRun DEF RunsInv
  <2>5. QED
    BY <1>1, <1>2, <2>1, <2>3, <2>4 DEF RunsInv
<1>4. HeldInv'
  BY <1>1 DEF HeldInv
<1>5. ReportsInv'
  <2>1. ASSUME NEW b \in DOMAIN attempts', attempts'[b].status = "succeeded"
        PROVE  /\ attempts'[b].report \in DOMAIN history
               /\ history[attempts'[b].report].attempt = b
               /\ attempts'[b].calls = 2 * Documents
    <3>1. CASE b = a
      BY <1>0, <1>2, <2>1, <3>1 DEF ReportsInv
    <3>2. CASE b # a
      BY <1>2, <2>1, <3>2 DEF ReportsInv
    <3>3. QED
      BY <3>1, <3>2
  <2>2. QED
    BY <1>1, <1>2, <2>1 DEF ReportsInv
<1>6. FaultsInv'
  <2>1. Evaluations!Active = {t} /\ Evaluations!Active' = {}
    BY <1>0, <1>1 DEF Evaluations!Active
  <2>2. Stuck = 0 /\ Stuck' = 0
    BY <2>1 DEF Stuck
  <2>3. CASE attempts' = attempts /\ faults' = faults + 1 /\ ongoing[t].at = "failing"
    <3>1. Evaluations!Stranded' \subseteq Evaluations!Stranded \union {a}
      BY <2>1, <2>3 DEF Evaluations!Stranded
    <3>2. Lost' \subseteq Lost
      BY <1>0, <1>1, <2>3 DEF Lost
    <3>3. Cardinality(Evaluations!Stranded') <= Cardinality(Evaluations!Stranded) + 1
          /\ Cardinality(Evaluations!Stranded') \in Nat
      BY <3>1, OneMore, FiniteTables
    <3>4. Cardinality(Lost') <= Cardinality(Lost) /\ Cardinality(Lost') \in Nat
      BY <3>2, NoMore, FiniteTables
    <3>5. QED
      BY <2>2, <2>3, <3>3, <3>4, Counted DEF FaultsInv
  <2>4. CASE faults' = faults /\ attempts'[a].status # "running"
             /\ ((attempts'[a].status = "succeeded") <=> (ongoing[t].at = "reported"))
    <3>1. Evaluations!Stranded' \subseteq Evaluations!Stranded
      BY <1>2, <2>1, <2>4 DEF Evaluations!Stranded
    <3>2. Lost' \subseteq Lost
      <4> SUFFICES ASSUME NEW r \in Lost' PROVE r \in Lost
        OBVIOUS
      <4>1. /\ r \in DOMAIN history /\ history[r].attempt \in DOMAIN attempts
            /\ attempts'[history[r].attempt].status # "succeeded"
        BY DEF Lost, ReportsInv
      <4>2. CASE history[r].attempt = a
        BY <1>0, <2>4, <4>1, <4>2 DEF Lost
      <4>3. CASE history[r].attempt # a
        BY <1>0, <1>2, <4>1, <4>3 DEF Lost
      <4>4. QED
        BY <4>2, <4>3
    <3>3. Cardinality(Evaluations!Stranded') <= Cardinality(Evaluations!Stranded)
          /\ Cardinality(Evaluations!Stranded') \in Nat
      BY <3>1, NoMore, FiniteTables
    <3>4. Cardinality(Lost') <= Cardinality(Lost) /\ Cardinality(Lost') \in Nat
      BY <3>2, NoMore, FiniteTables
    <3>5. QED
      BY <2>2, <2>4, <3>3, <3>4, Counted DEF FaultsInv
  <2>5. QED
    BY <1>2, <2>3, <2>4
<1>7. QED
  BY <1>3, <1>4, <1>5, <1>6

\* The lock is taken.
LEMMA TakeLock ==
  ASSUME EvaluationInv, NEW t \in Thread, Evaluations!BeginRun(t)
  PROVE  EvaluationInv'
<1> USE DEF EvaluationInv
<1> DEFINE p == [Evaluations!NoRun EXCEPT !.at = "starting"]
<1>1. /\ ongoing[t].at = "idle" /\ lock = NoThread /\ lock' = t /\ t # NoThread
      /\ attempts' = attempts /\ history' = history /\ faults' = faults
      /\ ongoing' = [ongoing EXCEPT ![t] = p]
  BY EvaluationAssumption DEF Evaluations!BeginRun, RunsInv
<1>2. p \in Position /\ p.at = "starting" /\ p.attempt = 0 /\ p.seen = << >>
  BY FreshRun DEF Steps
<1>3. \A u \in Thread : ongoing[u].at = "idle" /\ ongoing'[u] = IF u = t THEN p ELSE ongoing[u]
  BY <1>1, EvaluationAssumption DEF RunsInv
<1> HIDE DEF p
<1>4. RunsInv'
  <2>1. ongoing' \in [Thread -> Position]
    BY <1>1, <1>2 DEF RunsInv
  <2>2. Len(<< >>) <= Documents
    BY EvaluationAssumption
  <2>3. \A u \in Thread : ongoing'[u].at \in {"idle", "starting"} =>
           ongoing'[u] = [Evaluations!NoRun EXCEPT !.at = ongoing'[u].at]
    BY <1>2, <1>3, FreshRun DEF RunsInv, p
  <2>4. \A u \in Thread : Len(ongoing'[u].seen) <= Documents
    BY <1>2, <1>3, <2>2 DEF RunsInv
  <2>5. QED
    BY <1>1, <1>3, <2>1, <2>3, <2>4 DEF RunsInv
<1>5. HeldInv'
  BY <1>2, <1>3 DEF HeldInv
<1>6. ReportsInv'
  BY <1>1, <1>2, <1>3 DEF ReportsInv
<1>7. FaultsInv'
  <2>1. Evaluations!Active = {} /\ Evaluations!Active' = {t}
    BY <1>2, <1>3 DEF Evaluations!Active
  <2>2. Stuck' = 0
    BY <2>1 DEF Stuck
  <2>3. Evaluations!Stranded' \subseteq Evaluations!Stranded
    BY <1>1, <2>1 DEF Evaluations!Stranded
  <2>4. Lost' \subseteq Lost
    BY <1>1, <1>3 DEF Lost
  <2>5. /\ Cardinality(Evaluations!Stranded') <= Cardinality(Evaluations!Stranded)
        /\ Cardinality(Evaluations!Stranded') \in Nat
        /\ Cardinality(Lost') <= Cardinality(Lost) /\ Cardinality(Lost') \in Nat
    BY <2>3, <2>4, NoMore, FiniteTables
  <2>6. QED
    BY <1>1, <2>2, <2>5, Counted DEF FaultsInv
<1>8. QED
  BY <1>4, <1>5, <1>6, <1>7

\* A run that has not read yet.
LEMMA Starting ==
  ASSUME RunsInv, NEW t \in Thread, ongoing[t].at = "starting"
  PROVE  ongoing[t].attempt = 0 /\ ongoing[t].seen = << >> /\ ongoing[t] \in Position
<1>1. ongoing[t] = [Evaluations!NoRun EXCEPT !.at = "starting"]
  BY DEF RunsInv
<1>2. QED
  BY <1>1, FreshRun DEF Steps

\* The attempt is saved.
LEMMA SaveAttempt ==
  ASSUME EvaluationInv, NEW t \in Thread, Evaluations!StartAttempt(t)
  PROVE  EvaluationInv'
<1> USE DEF EvaluationInv
<1> DEFINE a == Len(attempts) + 1
           p == [ongoing[t] EXCEPT !.at = "reading", !.attempt = a]
<1>0. /\ ongoing[t].at = "starting" /\ t # NoThread /\ lock = t
      /\ \A u \in Thread : u # t => ongoing[u].at = "idle"
      /\ attempts' = Append(attempts, Evaluations!Running)
      /\ ongoing' = [ongoing EXCEPT ![t] = p]
      /\ lock' = lock /\ history' = history /\ faults' = faults
  BY OthersIdle DEF Evaluations!StartAttempt, RunsInv
<1>1. a \in Nat /\ a \notin DOMAIN attempts
  BY Tables
<1>2. p \in Position /\ p.at = "reading" /\ p.attempt = a /\ p.seen = << >>
  BY <1>0, <1>1, Starting DEF Position, Steps
<1>3. \A u \in Thread : ongoing'[u] = IF u = t THEN p ELSE ongoing[u]
  BY <1>0 DEF RunsInv
<1>4. /\ attempts' \in Seq(Attempts) /\ DOMAIN attempts' = DOMAIN attempts \union {a}
      /\ \A b \in DOMAIN attempts : attempts'[b] = attempts[b]
      /\ attempts'[a].status = "running"
  <2>1. Evaluations!Running \in Attempts /\ Evaluations!Running.status = "running"
    BY DEF Evaluations!Running, Attempts
  <2>2. attempts \in Seq(Attempts)
    BY DEF RunsInv
  <2>3. /\ attempts' \in Seq(Attempts) /\ Len(attempts') = a
        /\ \A i \in 1..Len(attempts) : attempts'[i] = attempts[i]
        /\ attempts'[a] = Evaluations!Running
    BY <1>0, <2>1, <2>2, AppendProperties
  <2>4. DOMAIN attempts' = 1..a
    BY <2>3, LenProperties
  <2>5. QED
    BY <2>1, <2>3, <2>4, Tables
<1> HIDE DEF p, a
<1>5. RunsInv'
  <2>1. ongoing' \in [Thread -> Position]
    BY <1>0, <1>2 DEF RunsInv
  <2>2. Len(<< >>) <= Documents
    BY EvaluationAssumption
  <2>3. QED
    BY <1>0, <1>2, <1>3, <1>4, <2>1, <2>2 DEF RunsInv
<1>6. HeldInv'
  BY <1>0, <1>2, <1>3, <1>4 DEF HeldInv
<1>7. ReportsInv'
  <2>1. \A r \in DOMAIN history : history[r].attempt # a
    BY <1>1 DEF ReportsInv
  <2>2. \A b \in DOMAIN attempts' : attempts'[b].status = "succeeded" =>
          b \in DOMAIN attempts /\ attempts'[b] = attempts[b]
    BY <1>4
  <2>3. \A u \in Thread : ongoing'[u].at = "reported" => ongoing'[u] = ongoing[u]
    BY <1>2, <1>3
  <2>4. \A u \in Thread : ongoing'[u].at \in {"reading", "incomplete"} => u = t
    BY <1>0, <1>3
  <2>5. QED
    BY <1>0, <1>2, <1>3, <1>4, <2>1, <2>2, <2>3, <2>4 DEF ReportsInv
<1>8. FaultsInv'
  <2>1. Evaluations!Active = {t} /\ Evaluations!Active' = {t}
    BY <1>0, <1>2, <1>3 DEF Evaluations!Active
  <2>2. Stuck' = 0
    BY <2>1 DEF Stuck
  <2>3. Evaluations!Stranded' \subseteq Evaluations!Stranded
    <3>1. ongoing[t].attempt \notin DOMAIN attempts
      BY <1>0, Starting, Tables
    <3>2. QED
      BY <1>2, <1>3, <1>4, <2>1, <3>1 DEF Evaluations!Stranded
  <2>4. Lost' \subseteq Lost
    BY <1>0, <1>2, <1>3, <1>4 DEF Lost, ReportsInv
  <2>5. /\ Cardinality(Evaluations!Stranded') <= Cardinality(Evaluations!Stranded)
        /\ Cardinality(Evaluations!Stranded') \in Nat
        /\ Cardinality(Lost') <= Cardinality(Lost) /\ Cardinality(Lost') \in Nat
    BY <2>3, <2>4, NoMore, FiniteTables
  <2>6. QED
    BY <1>0, <2>2, <2>5, Counted DEF FaultsInv
<1>9. QED
  BY <1>5, <1>6, <1>7, <1>8

\* Runs are forgotten before they read, or all of them at a restart: the lock may
\* stay taken, or an attempt running and a report without its success.
LEMMA ForgetRuns ==
  ASSUME EvaluationInv, UNCHANGED <<attempts, history>>, faults' = faults + 1,
         ongoing' \in [Thread -> Position],
         \A u \in Thread : ongoing'[u] = Evaluations!NoRun,
         \/ lock' = NoThread
         \/ lock' = lock /\ \E t \in Thread : ongoing[t].at = "starting"
  PROVE  EvaluationInv'
<1> USE DEF EvaluationInv
<1>1. \A u \in Thread : /\ ongoing'[u].at = "idle" /\ ongoing'[u].seen = << >>
                        /\ ongoing'[u] = [Evaluations!NoRun EXCEPT !.at = ongoing'[u].at]
  BY FreshRun
<1>2. RunsInv'
  <2>1. Len(<< >>) <= Documents
    BY EvaluationAssumption
  <2>2. \A u \in Thread : Len(ongoing'[u].seen) <= Documents
    BY <1>1, <2>1
  <2>3. QED
    BY <1>1, <2>2 DEF RunsInv
<1>3. HeldInv'
  BY <1>1 DEF HeldInv
<1>4. ReportsInv'
  BY <1>1 DEF ReportsInv
<1>5. FaultsInv'
  <2>1. Evaluations!Active' = {}
    BY <1>1 DEF Evaluations!Active
  <2>2. Evaluations!Stranded' \subseteq Evaluations!Stranded \union {ongoing[lock].attempt}
    BY <1>1, <2>1 DEF Evaluations!Stranded, Evaluations!Active, RunsInv
  <2>3. Lost' \subseteq Lost \union {ongoing[lock].report}
    <3> SUFFICES ASSUME NEW r \in Lost', r \notin Lost PROVE r = ongoing[lock].report
      OBVIOUS
    <3>1. PICK t \in Thread : ongoing[t].at = "reported" /\ ongoing[t].attempt = history[r].attempt
      BY DEF Lost
    <3>2. lock = t
      BY <3>1 DEF RunsInv
    <3>3. QED
      BY <3>1, <3>2 DEF ReportsInv, Lost
  <2>4. /\ Cardinality(Evaluations!Stranded') <= Cardinality(Evaluations!Stranded) + 1
        /\ Cardinality(Evaluations!Stranded') \in Nat
        /\ Cardinality(Lost') <= Cardinality(Lost) + 1 /\ Cardinality(Lost') \in Nat
    BY <2>2, <2>3, OneMore, FiniteTables
  <2>5. CASE lock' = NoThread
    <3>1. Stuck' = 0
      BY <2>5 DEF Stuck
    <3>2. QED
      BY <2>4, <3>1, Counted DEF FaultsInv
  <2>6. ASSUME lock' = lock, NEW t \in Thread, ongoing[t].at = "starting" PROVE FaultsInv'
    <3>1. lock = t /\ lock # NoThread /\ Evaluations!Active = {t}
      BY <2>6, OthersIdle DEF Evaluations!Active
    <3>2. Stuck = 0 /\ Stuck' = 1
      BY <2>1, <2>6, <3>1 DEF Stuck
    <3>3. Evaluations!Stranded' \subseteq Evaluations!Stranded
      <4>1. ongoing[t].attempt \notin DOMAIN attempts
        BY <2>6, Starting, Tables
      <4>2. QED
        BY <3>1, <4>1 DEF Evaluations!Stranded
    <3>4. Cardinality(Evaluations!Stranded') <= Cardinality(Evaluations!Stranded)
      BY <3>3, NoMore, FiniteTables
    <3>5. QED
      BY <2>4, <3>2, <3>4, Counted DEF FaultsInv
  <2>7. QED
    BY <2>5, <2>6
<1>6. QED
  BY <1>2, <1>3, <1>4, <1>5

\* A report of a complete reading is saved.
LEMMA RecordReading ==
  ASSUME EvaluationInv, NEW t \in Thread, Evaluations!SaveReport(t)
  PROVE  EvaluationInv'
<1> USE DEF EvaluationInv
<1> DEFINE n == Len(history) + 1
           p == [ongoing[t] EXCEPT !.at = "reported", !.report = n]
           h == [attempt |-> ongoing[t].attempt, processed |-> Documents]
<1>0. /\ ongoing[t].at = "reading" /\ t # NoThread /\ lock = t
      /\ \A u \in Thread : u # t => ongoing[u].at = "idle"
      /\ Len(ongoing[t].seen) = Documents /\ Evaluations!Complete(ongoing[t].seen)
      /\ history' = Append(history, h)
      /\ ongoing' = [ongoing EXCEPT ![t] = p]
      /\ lock' = lock /\ attempts' = attempts /\ faults' = faults
  BY OthersIdle DEF Evaluations!SaveReport, Evaluations!Complete, RunsInv
<1>1. n \in Nat /\ n \notin DOMAIN history
  BY Tables
<1>2. ongoing[t] \in Position
  BY DEF RunsInv
<1>3. p \in Position /\ p.at = "reported" /\ p.report = n
      /\ p.attempt = ongoing[t].attempt /\ p.seen = ongoing[t].seen
  BY <1>1, <1>2 DEF Position, Steps
<1>4. \A u \in Thread : ongoing'[u] = IF u = t THEN p ELSE ongoing[u]
  BY <1>0 DEF RunsInv
<1>5. /\ history' \in Seq(Histories) /\ DOMAIN history' = DOMAIN history \union {n}
      /\ \A r \in DOMAIN history : history'[r] = history[r]
      /\ history'[n].attempt = ongoing[t].attempt /\ history'[n].processed = Documents
  <2>1. h \in Histories
    BY <1>2, EvaluationAssumption DEF Histories, Position
  <2>2. history \in Seq(Histories)
    BY DEF RunsInv
  <2>3. /\ history' \in Seq(Histories) /\ Len(history') = n
        /\ \A i \in 1..Len(history) : history'[i] = history[i]
        /\ history'[n] = h
    BY <1>0, <2>1, <2>2, AppendProperties
  <2>4. DOMAIN history' = 1..n
    BY <2>3, LenProperties
  <2>5. QED
    BY <2>3, <2>4, Tables
<1>6. /\ ongoing[t].attempt \in DOMAIN attempts /\ attempts[ongoing[t].attempt].status = "running"
      /\ \A r \in DOMAIN history : history[r].attempt # ongoing[t].attempt
  BY <1>0 DEF HeldInv, ReportsInv
<1> HIDE DEF p, n, h
<1>7. RunsInv'
  <2>1. ongoing' \in [Thread -> Position]
    BY <1>0, <1>3 DEF RunsInv
  <2>2. QED
    BY <1>0, <1>3, <1>4, <1>5, <2>1 DEF RunsInv
<1>8. HeldInv'
  BY <1>0, <1>3, <1>4, <1>6 DEF HeldInv
<1>9. ReportsInv'
  <2>1. \A r \in DOMAIN history' : history'[r].attempt \in DOMAIN attempts' /\ history'[r].processed = Documents
    BY <1>0, <1>5, <1>6 DEF ReportsInv
  <2>2. \A r, q \in DOMAIN history' : history'[r].attempt = history'[q].attempt => r = q
    BY <1>5, <1>6 DEF ReportsInv
  <2>3. \A u \in Thread : ongoing'[u].at \notin {"reading", "incomplete"}
    BY <1>0, <1>3, <1>4
  <2>4. \A u \in Thread : ongoing'[u].at = "reported" =>
          /\ ongoing'[u].report \in DOMAIN history'
          /\ history'[ongoing'[u].report].attempt = ongoing'[u].attempt
          /\ Len(ongoing'[u].seen) = Documents /\ Evaluations!Complete(ongoing'[u].seen)
    BY <1>0, <1>3, <1>4, <1>5
  <2>5. \A b \in DOMAIN attempts' : attempts'[b].status = "succeeded" =>
          /\ attempts'[b].report \in DOMAIN history'
          /\ history'[attempts'[b].report].attempt = b
          /\ attempts'[b].calls = 2 * Documents
    BY <1>0, <1>5 DEF ReportsInv
  <2>6. QED
    BY <2>1, <2>2, <2>3, <2>4, <2>5 DEF ReportsInv
<1>10. FaultsInv'
  <2>1. Evaluations!Active = {t} /\ Evaluations!Active' = {t}
    BY <1>0, <1>3, <1>4 DEF Evaluations!Active
  <2>2. Evaluations!Stranded' = Evaluations!Stranded /\ Stuck' = Stuck
    BY <1>0, <1>3, <1>4, <2>1 DEF Evaluations!Stranded, Stuck
  <2>3. Lost' \subseteq Lost
    BY <1>0, <1>3, <1>4, <1>5, <1>6 DEF Lost
  <2>4. Cardinality(Lost') <= Cardinality(Lost) /\ Cardinality(Lost') \in Nat
    BY <2>3, NoMore, FiniteTables
  <2>5. QED
    BY <1>0, <2>2, <2>4, Counted DEF FaultsInv
<1>11. QED
  BY <1>7, <1>8, <1>9, <1>10

\* The instance of Evaluation counts as every module does.
LEMMA CountsAlike == \A S : Evaluations!Cardinality(S) = Cardinality(S)
BY DEF Evaluations!Cardinality, Cardinality, Evaluations!ExistsBijection, ExistsBijection,
       Evaluations!Bijection, Bijection, Evaluations!Injection, Injection, Evaluations!Surjection, Surjection

\* The same of sums.
LEMMA AddsAlike == \A amounts : Evaluations!FoldLeft(+, 0, amounts) = FoldLeft(+, 0, amounts)
BY DEF Evaluations!FoldLeft, FoldLeft, Evaluations!MapThenFoldSet, MapThenFoldSet, Evaluations!Max, Max

\* The calls that are counted for a reading: two for each document when all were read.
LEMMA CallsOfReading ==
  ASSUME NEW seen \in Seq(Evaluations!Outcome)
  PROVE  /\ Evaluations!CallsMade(seen) \in Nat /\ Evaluations!Processed(seen) \in Nat
         /\ Evaluations!Complete(seen) /\ Len(seen) = Documents => Evaluations!CallsMade(seen) = 2 * Documents
<1> DEFINE calls == [i \in DOMAIN seen |-> Evaluations!Calls(seen[i])]
           done == {i \in DOMAIN seen : seen[i] = "read"}
           n == Len(seen)
<1>1. n \in Nat /\ DOMAIN seen = 1..n
  BY LenProperties
<1>2. Evaluations!CallsMade(seen) = SumOf(calls)
  BY AddsAlike, Zenon DEF Evaluations!CallsMade, SumOf
<1>3. DOMAIN calls = 1..n /\ \A k \in 1..n : calls[k] \in {1, 2} /\ (k \in done => calls[k] = 2)
  BY <1>1, Zenon DEF Evaluations!Calls
<1>4. IsFiniteSet(1..n) /\ Cardinality(1..n) = n /\ done \in SUBSET (1..n)
  BY <1>1, FS_Interval
<1> HIDE DEF calls, done, n
<1>5. SumOf(calls) \in Nat
  <2>1. Nat \in SUBSET Int /\ 0 \in Nat /\ (\A x, y \in Nat : x + y \in Nat) /\ \A k \in 1..n : calls[k] \in Nat
    BY <1>3
  <2>2. QED
    BY <1>1, <1>3, <2>1, SumStays
<1>6. Cardinality(done) \in Nat /\ Evaluations!Processed(seen) = Cardinality(done)
  BY <1>4, FS_Subset, FS_CardinalityType, CountsAlike DEF Evaluations!Processed, done
<1>7. ASSUME Cardinality(done) = n PROVE SumOf(calls) = 2 * n
  <2>1. done = 1..n
    BY <1>4, <1>7, FS_Subset
  <2>2. PICK f : Folds(f, n, calls) /\ SumOf(calls) = f[1..n]
    BY <1>1, <1>3, SumIsFold
  <2>3. QED
    BY <1>1, <1>3, <2>1, <2>2, FoldCounts
<1>8. QED
  BY <1>2, <1>5, <1>6, <1>7 DEF Evaluations!Complete, n

\* Every step of an evaluation keeps the invariant.
LEMMA EvaluationStep ==
  EvaluationInv /\ [Evaluations!Next]_evaluation => EvaluationInv'
<1> SUFFICES ASSUME EvaluationInv, [Evaluations!Next]_evaluation PROVE EvaluationInv'
  OBVIOUS
<1>0. RunsInv
  BY DEF EvaluationInv
<1>1. ASSUME NEW t \in Thread, NEW outcome \in Evaluations!Outcome, Evaluations!ReadDocument(t, outcome)
      PROVE  EvaluationInv'
  <2> DEFINE p == [ongoing[t] EXCEPT !.seen = Append(@, outcome)]
  <2>1. ongoing' = [ongoing EXCEPT ![t] = p] /\ UNCHANGED <<lock, attempts, history, faults>>
        /\ ongoing[t].at = "reading" /\ Len(ongoing[t].seen) < Documents
    BY <1>1 DEF Evaluations!ReadDocument
  <2>2. ongoing[t] \in Position
    BY <1>0 DEF RunsInv
  <2>3. /\ p \in Position /\ p.at = ongoing[t].at /\ p.attempt = ongoing[t].attempt
        /\ Len(p.seen) = Len(ongoing[t].seen) + 1
    <3> DEFINE before == ongoing[t].seen
               after == Append(before, outcome)
    <3>1. before \in Seq(Evaluations!Outcome)
      BY <2>2 DEF Position
    <3>2. after \in Seq(Evaluations!Outcome) /\ Len(after) = Len(before) + 1
      <4> HIDE DEF before
      <4> QED
        BY <3>1, AppendProperties
    <3>3. p = [ongoing[t] EXCEPT !.seen = after]
      OBVIOUS
    <3> HIDE DEF before, after, p
    <3>4. p.seen = after /\ p \in Position /\ p.at = ongoing[t].at /\ p.attempt = ongoing[t].attempt
      BY <2>2, <3>2, <3>3 DEF Position
    <3>5. QED
      BY <3>2, <3>4 DEF before
  <2>4. Len(p.seen) <= Documents
    BY <2>1, <2>2, <2>3, LenProperties, EvaluationAssumption DEF Position
  <2>5. QED
    BY <2>1, <2>3, <2>4, WithinRun
<1>2. ASSUME NEW t \in Thread, NEW at \in {"incomplete", "failing"},
             ongoing' = [ongoing EXCEPT ![t].at = at], UNCHANGED <<lock, attempts, history>>,
             ongoing[t].at \in {"reading", "incomplete", "reported"},
             ongoing[t].at # "reading" => at = "failing",
             \/ faults' = faults /\ ongoing[t].at # "reported"
             \/ faults' = faults + 1
      PROVE  EvaluationInv'
  <2> DEFINE p == [ongoing[t] EXCEPT !.at = at]
  <2>1. ongoing[t] \in Position /\ Len(ongoing[t].seen) <= Documents
    BY <1>0 DEF RunsInv
  <2>2. p \in Position /\ p.at = at /\ p.attempt = ongoing[t].attempt /\ p.seen = ongoing[t].seen
    BY <2>1 DEF Position, Steps
  <2>3. ongoing' = [ongoing EXCEPT ![t] = p]
    BY <1>0, <1>2 DEF RunsInv
  <2>4. QED
    BY <1>2, <2>1, <2>2, <2>3, WithinRun
<1>3. ASSUME NEW t \in Thread, NEW status \in {"succeeded", "failed"}, NEW report \in Nat,
             Evaluations!Settle(t, status, report),
             ongoing[t].at \in {"reported", "incomplete", "failing"},
             (status = "succeeded") <=> (ongoing[t].at = "reported"),
             status = "succeeded" => report = ongoing[t].report
      PROVE  EvaluationInv'
  <2> DEFINE r == [status |-> status, processed |-> Evaluations!Processed(ongoing[t].seen),
                   calls |-> Evaluations!CallsMade(ongoing[t].seen), report |-> report]
  <2>1. ongoing[t].seen \in Seq(Evaluations!Outcome)
    BY <1>0 DEF RunsInv, Position
  <2>2. r \in Attempts
    BY <2>1, CallsOfReading DEF Attempts
  <2>3. r.status = status /\ r.report = report /\ (status = "succeeded" => r.calls = 2 * Documents)
    BY <1>3, <2>1, CallsOfReading DEF EvaluationInv, ReportsInv
  <2>4. /\ attempts' = [attempts EXCEPT ![ongoing[t].attempt] = r]
        /\ ongoing' = [ongoing EXCEPT ![t] = Evaluations!NoRun] /\ lock' = NoThread
        /\ UNCHANGED history /\ faults' = faults
    BY <1>3 DEF Evaluations!Settle
  <2> HIDE DEF r
  <2>5. QED
    BY <1>3, <2>2, <2>3, <2>4, EndRun
<1>4. ASSUME NEW t \in Thread, Evaluations!BeginRun(t) PROVE EvaluationInv'
  BY <1>4, TakeLock
<1>5. ASSUME NEW t \in Thread, Evaluations!StartAttempt(t) PROVE EvaluationInv'
  BY <1>5, SaveAttempt
<1>6. ASSUME NEW t \in Thread, Evaluations!FailToStart(t) PROVE EvaluationInv'
  <2>1. /\ ongoing[t].at = "starting" /\ ongoing' = [ongoing EXCEPT ![t] = Evaluations!NoRun]
        /\ faults' = faults + 1 /\ UNCHANGED <<lock, attempts, history>>
    BY <1>6 DEF Evaluations!FailToStart
  <2>2. \A u \in Thread : u # t => ongoing[u] = Evaluations!NoRun
    BY <1>0, <2>1, OthersIdle, FreshRun DEF RunsInv
  <2>3. ongoing' \in [Thread -> Position] /\ \A u \in Thread : ongoing'[u] = Evaluations!NoRun
    BY <1>0, <2>1, <2>2, FreshRun DEF RunsInv
  <2>4. QED
    BY <2>1, <2>3, ForgetRuns
<1>7. ASSUME NEW t \in Thread, Evaluations!ReadingBreaks(t) \/ Evaluations!FindIncomplete(t) PROVE EvaluationInv'
  BY <1>2, <1>7 DEF Evaluations!ReadingBreaks, Evaluations!FindIncomplete
<1>8. ASSUME NEW t \in Thread, Evaluations!SaveReport(t) PROVE EvaluationInv'
  BY <1>8, RecordReading
<1>9. ASSUME NEW t \in Thread, Evaluations!Succeed(t) PROVE EvaluationInv'
  <2>1. ongoing[t].report \in Nat
    BY <1>0 DEF RunsInv, Position
  <2>2. QED
    BY <1>3, <1>9, <2>1 DEF Evaluations!Succeed
<1>10. ASSUME NEW t \in Thread, Evaluations!Fail(t) PROVE EvaluationInv'
  BY <1>3, <1>10 DEF Evaluations!Fail
<1>11. ASSUME NEW t \in Thread, Evaluations!WriteFails(t) PROVE EvaluationInv'
  <2>1. CASE ongoing[t].at \in {"reading", "reported", "incomplete"}
    BY <1>2, <1>11, <2>1 DEF Evaluations!WriteFails
  <2>2. CASE ongoing[t].at \notin {"reading", "reported", "incomplete"}
    <3>1. /\ ongoing[t].at = "failing" /\ ongoing' = [ongoing EXCEPT ![t] = Evaluations!NoRun]
          /\ lock' = NoThread /\ faults' = faults + 1 /\ attempts' = attempts /\ UNCHANGED history
      BY <1>11, <2>2 DEF Evaluations!WriteFails
    <3>2. QED
      BY <3>1, EndRun
  <2>3. QED
    BY <2>1, <2>2
<1>12. CASE Evaluations!Restart
  <2>1. /\ lock' = NoThread /\ ongoing' = [t \in Thread |-> Evaluations!NoRun]
        /\ faults' = faults + 1 /\ UNCHANGED <<attempts, history>>
    BY <1>12 DEF Evaluations!Restart
  <2>2. ongoing' \in [Thread -> Position] /\ \A u \in Thread : ongoing'[u] = Evaluations!NoRun
    BY <2>1, FreshRun
  <2>3. QED
    BY <2>1, <2>2, ForgetRuns
<1>13. CASE UNCHANGED evaluation
  BY <1>13 DEF evaluation, EvaluationInv, RunsInv, HeldInv, ReportsInv, FaultsInv, Stuck, Lost,
     Evaluations!Active, Evaluations!Stranded
<1>14. QED
  BY <1>1, <1>4, <1>5, <1>6, <1>7, <1>8, <1>9, <1>10, <1>11, <1>12, <1>13 DEF Evaluations!Next

\* Nothing was evaluated yet.
LEMMA EvaluationStart == Evaluations!Init => EvaluationInv
<1> SUFFICES ASSUME Evaluations!Init PROVE EvaluationInv
  OBVIOUS
<1>1. /\ lock = NoThread /\ ongoing = [t \in Thread |-> Evaluations!NoRun]
      /\ attempts = << >> /\ history = << >> /\ faults = 0
  BY DEF Evaluations!Init
<1>2. \A t \in Thread : /\ ongoing[t].at = "idle" /\ ongoing[t].seen = << >>
                        /\ ongoing[t] = [Evaluations!NoRun EXCEPT !.at = ongoing[t].at]
  BY <1>1, FreshRun
<1>3. RunsInv
  <2>1. ongoing \in [Thread -> Position]
    BY <1>1, FreshRun
  <2>2. Len(<< >>) <= Documents
    BY EvaluationAssumption
  <2>3. attempts \in Seq(Attempts) /\ history \in Seq(Histories)
    BY <1>1
  <2>4. QED
    BY <1>1, <1>2, <2>1, <2>2, <2>3 DEF RunsInv
<1>4. DOMAIN attempts = {} /\ DOMAIN history = {}
  BY <1>1
<1>5. HeldInv /\ ReportsInv
  BY <1>2, <1>4 DEF HeldInv, ReportsInv
<1>6. Evaluations!Stranded = {} /\ Lost = {} /\ Stuck = 0
  BY <1>1, <1>4 DEF Evaluations!Stranded, Lost, Stuck
<1>7. FaultsInv
  BY <1>1, <1>6, FS_EmptySet DEF FaultsInv
<1>8. QED
  BY <1>3, <1>5, <1>7 DEF EvaluationInv

\* The invariant says what the attempts tell.
LEMMA EvaluationTells == EvaluationInv => Evaluations!AttemptsTellWhatHappened
<1> SUFFICES ASSUME EvaluationInv PROVE Evaluations!AttemptsTellWhatHappened
  OBVIOUS
<1> USE DEF EvaluationInv
<1>1. Evaluations!Active \subseteq {lock}
  BY DEF Evaluations!Active, RunsInv
<1>2. Cardinality(Evaluations!Active) <= 1
  <2>1. IsFiniteSet({lock}) /\ Cardinality({lock}) = 1
    BY FS_Singleton
  <2>2. QED
    BY <1>1, <2>1, FS_Subset
<1>3. Cardinality(Evaluations!Unclaimed) <= faults
  <2>1. Evaluations!Unclaimed \subseteq Lost
    BY DEF Evaluations!Unclaimed, Evaluations!Active, Lost
  <2>2. QED
    BY <2>1, NoMore, FiniteTables, Counted DEF FaultsInv
<1>4. Cardinality(Evaluations!Stranded) + (IF lock # NoThread /\ Evaluations!Active = {} THEN 1 ELSE 0) <= faults
  BY DEF FaultsInv, Stuck
<1>5. QED
  BY <1>1, <1>2, <1>3, <1>4, CountsAlike DEF Evaluations!AttemptsTellWhatHappened, ReportsInv

\* For any threads, number of documents, attempts and faults, whatever fails and
\* whenever the process restarts: an attempt that succeeded names the report of its
\* own complete reading and counts two calls for each document, no report is of a
\* partial reading, one run is active at a time, and stranded attempts, a stuck lock
\* and unclaimed reports are no more than the faults.
THEOREM AttemptsTell == Spec => []Evaluations!AttemptsTellWhatHappened
<1>1. Init => EvaluationInv
  BY EvaluationStart DEF Init
<1>2. EvaluationInv /\ [Next]_<<about, input, evaluation, gates>> => EvaluationInv'
  <2>1. [Next]_<<about, input, evaluation, gates>> => [Evaluations!Next]_evaluation
    BY DEF Next, Look, Evaluate, Enter
  <2>2. QED
    BY <2>1, EvaluationStep
<1>3. QED
  BY <1>1, <1>2, EvaluationTells, PTL DEF Spec

-----------------------------------------------------------------------------
(* Rounded scores.                                                          *)

\* Division with a remainder.
LEMMA DivMod ==
  ASSUME NEW x \in Nat, NEW w \in Nat \ {0}
  PROVE  /\ x \div w \in Nat /\ x % w \in Nat /\ x % w < w
         /\ x = w * (x \div w) + (x % w)
OBVIOUS

\* a of w is q ten-thousandths and m of a w-th of one, and is rounded half to even.
Rounded(a, w, q, m) ==
  /\ a * 10000 = w * q + m /\ m < w
  /\ Rate(a, w) = IF 2 * m > w \/ (2 * m = w /\ q % 2 = 1) THEN q + 1 ELSE q

\* A rate is the share in ten-thousandths, rounded half to even.
LEMMA RateRounds ==
  ASSUME NEW a \in Nat, NEW w \in Nat \ {0}
  PROVE  \E q \in Nat, m \in Nat : Rounded(a, w, q, m)
<1>1. PICK x : x = a * 10000
  OBVIOUS
<1>2. x \in Nat
  BY <1>1
<1>3. PICK q, m : q = x \div w /\ m = x % w
  OBVIOUS
<1>4. /\ q \in Nat /\ m \in Nat /\ m < w /\ x = w * q + m
  BY <1>2, <1>3, DivMod
<1>5. Rate(a, w) = IF 2 * m > w \/ (2 * m = w /\ q % 2 = 1) THEN q + 1 ELSE q
  BY <1>1, <1>3 DEF Rate
<1>6. Rounded(a, w, q, m)
  BY <1>1, <1>4, <1>5 DEF Rounded
<1>7. QED
  BY <1>4, <1>6

\* It misses the share by half a ten-thousandth at most.
LEMMA RateNear ==
  ASSUME NEW a \in Nat, NEW w \in Nat \ {0}
  PROVE  /\ Rate(a, w) \in Nat
         /\ 2 * (w * Rate(a, w)) <= 20000 * a + w
         /\ 20000 * a <= 2 * (w * Rate(a, w)) + w
<1>1. PICK q \in Nat, m \in Nat : Rounded(a, w, q, m)
  BY RateRounds
<1>2. PICK p, r : p = w * q /\ r = Rate(a, w)
  OBVIOUS
<1>3. /\ p \in Nat /\ w * (q + 1) = p + w
      /\ a * 10000 = p + m /\ m < w
      /\ r = IF 2 * m > w \/ (2 * m = w /\ q % 2 = 1) THEN q + 1 ELSE q
  BY <1>1, <1>2 DEF Rounded
<1>4. CASE r = q + 1
  <2>1. 2 * m >= w
    BY <1>3, <1>4
  <2>2. w * r = p + w /\ r \in Nat
    BY <1>3, <1>4
  <2>3. QED
    BY <1>2, <1>3, <2>1, <2>2
<1>5. CASE r = q
  <2>1. 2 * m <= w
    BY <1>3, <1>5
  <2>2. w * r = p /\ r \in Nat
    BY <1>2, <1>5
  <2>3. QED
    BY <1>2, <1>3, <2>1, <2>2
<1>6. QED
  BY <1>3, <1>4, <1>5

\* It grows with the share: with a larger part, and with a smaller whole.
LEMMA RateGrows ==
  ASSUME NEW a \in Nat, NEW b \in Nat, a <= b, NEW w \in Nat \ {0}, NEW v \in Nat \ {0}, w <= v
  PROVE  Rate(a, v) <= Rate(b, w)
<1>1. PICK q \in Nat, m \in Nat : Rounded(a, v, q, m)
  BY RateRounds
<1>2. PICK r \in Nat, n \in Nat : Rounded(b, w, r, n)
  BY RateRounds
<1>3. /\ a * 10000 = v * q + m /\ m < v
      /\ Rate(a, v) = IF 2 * m > v \/ (2 * m = v /\ q % 2 = 1) THEN q + 1 ELSE q
  BY <1>1 DEF Rounded
<1>4. /\ b * 10000 = w * r + n /\ n < w
      /\ Rate(b, w) = IF 2 * n > w \/ (2 * n = w /\ r % 2 = 1) THEN r + 1 ELSE r
  BY <1>2 DEF Rounded
<1>5. a * 10000 <= b * 10000
  OBVIOUS
<1>6. PICK x, y, z : x = w * r /\ y = w * q /\ z = v * q
  OBVIOUS
<1>7. /\ x \in Nat /\ y \in Nat /\ z \in Nat
      /\ b * 10000 = x + n /\ a * 10000 = z + m
  BY <1>3, <1>4, <1>6
<1>8. y <= z
  BY <1>6
<1>9. q <= r
  <2>1. SUFFICES ASSUME r + 1 <= q PROVE FALSE
    OBVIOUS
  <2>2. w * (r + 1) <= w * q /\ w * (r + 1) = w * r + w
    BY <2>1
  <2>3. x + w <= y
    BY <1>6, <2>2
  <2>4. QED
    BY <1>4, <1>5, <1>7, <1>8, <2>3
<1>10. CASE q < r
  BY <1>3, <1>4, <1>10
<1>11. CASE q = r
  <2>1. x = y
    BY <1>6, <1>11
  <2>2. m <= n
    BY <1>5, <1>7, <1>8, <2>1
  <2>3. CASE 2 * m > v \/ (2 * m = v /\ q % 2 = 1)
    <3>1. 2 * n > w \/ (2 * n = w /\ r % 2 = 1)
      BY <1>11, <2>2, <2>3
    <3>2. QED
      BY <1>3, <1>4, <1>11, <2>3, <3>1
  <2>4. CASE ~(2 * m > v \/ (2 * m = v /\ q % 2 = 1))
    BY <1>3, <1>4, <1>11, <2>4
  <2>5. QED
    BY <2>3, <2>4
<1>12. QED
  BY <1>9, <1>10, <1>11

\* Nothing of them is a rate of none.
LEMMA RateOfNone ==
  ASSUME NEW w \in Nat \ {0}
  PROVE  Rate(0, w) = 0
<1>1. 0 * 10000 = 0 /\ 0 \div w = 0 /\ 0 % w = 0
  OBVIOUS
<1>2. QED
  BY <1>1 DEF Rate

\* All of them are a whole.
LEMMA RateOfWhole ==
  ASSUME NEW w \in Nat \ {0}
  PROVE  Rate(w, w) = 10000
<1>1. PICK q \in Nat, m \in Nat : Rounded(w, w, q, m)
  BY RateRounds
<1>2. /\ w * 10000 = w * q + m /\ m < w
      /\ Rate(w, w) = IF 2 * m > w \/ (2 * m = w /\ q % 2 = 1) THEN q + 1 ELSE q
  BY <1>1 DEF Rounded
<1>3. q = 10000
  <2>1. CASE q >= 10001
    <3>1. w * q >= w * 10001
      BY <2>1
    <3>2. w * 10001 = w * 10000 + w
      OBVIOUS
    <3>3. QED
      BY <1>2, <3>1, <3>2
  <2>2. CASE q <= 9999
    <3>1. w * q <= w * 9999
      BY <2>2
    <3>2. w * 9999 + w = w * 10000
      OBVIOUS
    <3>3. QED
      BY <1>2, <3>1, <3>2
  <2>3. QED
    BY <2>1, <2>2
<1>4. m = 0
  BY <1>2, <1>3
<1>5. QED
  BY <1>2, <1>3, <1>4

\* Of fewer than twenty thousand, only all are all.
LEMMA RateOfAll ==
  ASSUME NEW w \in Nat \ {0}, w < 20000, NEW a \in Nat, a <= w
  PROVE  Rate(a, w) = 10000 <=> a = w
<1>1. ASSUME Rate(a, w) = 10000 PROVE a = w
  <2>1. PICK r : r = Rate(a, w)
    OBVIOUS
  <2>2. 20000 * a <= 2 * (w * r) + w /\ 2 * (w * r) <= 20000 * a + w
    BY <2>1, RateNear
  <2>3. w * r = w * 10000
    BY <1>1, <2>1
  <2>4. QED
    BY <2>2, <2>3
<1>2. QED
  BY <1>1, RateOfWhole

\* Of fewer than ten thousand documents, the page tells how many match from the
\* rounded score, and a group's coverage is full exactly when no case remains
\* (evaluation/dashboard.py).
THEOREM EveryScoreTellsItsCount ==
  ASSUME NEW documents \in Nat \ {0}, documents < 10000
  PROVE  ScoresTellCounts(documents)
<1>1. ASSUME NEW n \in 0..documents PROVE MatchesShown(Rate(n, documents), documents) = n
  <2>1. PICK y, r : y = documents * r /\ r = Rate(n, documents)
    OBVIOUS
  <2>2. n \in Nat
    OBVIOUS
  <2>3. /\ r \in Nat /\ 2 * y <= 20000 * n + documents
        /\ 20000 * n <= 2 * y + documents
    BY <2>1, <2>2, RateNear
  <2>4. y \in Nat /\ 2 * r * documents = 2 * y
    BY <2>1, <2>3
  <2>5. (2 * y + 10000) \div 20000 = n
    BY <2>2, <2>3, <2>4
  <2>6. QED
    BY <2>1, <2>4, <2>5 DEF MatchesShown
<1>2. ASSUME NEW n \in 0..documents
      PROVE (ScenarioCoverage(n, documents).coverage = 10000) <=> (ScenarioCoverage(n, documents).remaining = 0)
  <2>1. n \in Nat /\ documents \in Nat /\ documents < 20000 /\ n <= documents
    OBVIOUS
  <2>2. Rate(n, documents) = 10000 <=> n = documents
    BY <2>1, RateOfAll
  <2>3. CASE n = documents
    BY <2>3 DEF ScenarioCoverage
  <2>4. CASE n < documents
    BY <2>2, <2>4 DEF ScenarioCoverage
  <2>5. QED
    BY <2>1, <2>3, <2>4
<1>3. QED
  BY <1>1, <1>2 DEF ScoresTellCounts

-----------------------------------------------------------------------------
(* Places in order.                                                         *)

\* before puts any two different places in an order, and none before itself.
Orders(before, places) ==
  /\ \A i \in places : <<i, i>> \notin before
  /\ \A i, j \in places : i # j => <<i, j>> \in before \/ <<j, i>> \in before
  /\ \A i, j, k \in places : <<i, j>> \in before /\ <<j, k>> \in before => <<i, k>> \in before

\* order lists each place once, each before those it is before.
Lists(order, places, before) ==
  /\ order \in [1..Cardinality(places) -> places]
  /\ \A i \in places : \E k \in 1..Cardinality(places) : order[k] = i
  /\ \A k, l \in 1..Cardinality(places) : k < l => <<order[k], order[l]>> \in before
  /\ \A k, l \in 1..Cardinality(places) : order[k] = order[l] => k = l

\* The places of a finite set are listed in their order.
LEMMA InOrderLists ==
  ASSUME NEW places, IsFiniteSet(places), NEW before, Orders(before, places)
  PROVE  Lists(InOrder(places, before), places, before)
<1> DEFINE earlier(i) == {j \in places : <<j, i>> \in before}
           n == Cardinality(places)
           rank == [i \in places |-> Cardinality(earlier(i)) + 1]
           order == InOrder(places, before)
<1>1. n \in Nat
  BY FS_CardinalityType
<1>2. \A i \in places : IsFiniteSet(earlier(i)) /\ Cardinality(earlier(i)) \in Nat
  <2> TAKE i \in places
  <2> DEFINE those == earlier(i)
  <2>1. those \in SUBSET places
    OBVIOUS
  <2> HIDE DEF those
  <2>2. IsFiniteSet(those) /\ Cardinality(those) \in Nat
    BY <2>1, FS_Subset, FS_CardinalityType
  <2>3. QED
    BY <2>2 DEF those
<1>3. ASSUME NEW i \in places, NEW j \in places, <<i, j>> \in before
      PROVE rank[i] < rank[j]
  <2> DEFINE a == earlier(i)
             b == earlier(j)
  <2>1. a \in SUBSET b /\ i \in b /\ i \notin a
    BY <1>3 DEF Orders
  <2>2. IsFiniteSet(b) /\ Cardinality(a) \in Nat /\ Cardinality(b) \in Nat
    BY <1>2
  <2>3. rank[i] = Cardinality(a) + 1 /\ rank[j] = Cardinality(b) + 1
    OBVIOUS
  <2> HIDE DEF a, b, rank
  <2>4. Cardinality(a) <= Cardinality(b) /\ Cardinality(a) # Cardinality(b)
    BY <2>1, <2>2, FS_Subset
  <2>5. QED
    BY <2>2, <2>3, <2>4
<1>4. \A i \in places : rank[i] \in 1..n
  <2> TAKE i \in places
  <2> DEFINE a == earlier(i)
  <2>1. a \in SUBSET places /\ i \notin a
    BY DEF Orders
  <2>2. Cardinality(a) \in Nat /\ rank[i] = Cardinality(a) + 1
    BY <1>2
  <2> HIDE DEF a, rank, n
  <2>3. Cardinality(a) <= n /\ Cardinality(a) # n
    BY <2>1, FS_Subset DEF n
  <2>4. QED
    BY <1>1, <2>2, <2>3
<1>5. rank \in [places -> 1..n]
  BY <1>4
<1>6. \A i \in places : \A k : rank[i] = k => k \in Nat /\ Cardinality(earlier(i)) = k - 1
  BY <1>2
<1>7. \A i \in places, k \in Int : Cardinality(earlier(i)) = k - 1 => rank[i] = k
  BY <1>2
<1>8. order = [k \in 1..n |-> CHOOSE i \in places : Cardinality(earlier(i)) = k - 1]
  BY DEF InOrder
<1>9. \A i, j \in places : rank[i] = rank[j] => i = j
  <2> SUFFICES ASSUME NEW i \in places, NEW j \in places, rank[i] = rank[j], i # j
               PROVE  FALSE
    OBVIOUS
  <2>1. rank[i] \in Nat /\ rank[j] \in Nat
    BY <1>4
  <2>2. <<i, j>> \in before \/ <<j, i>> \in before
    BY DEF Orders
  <2> HIDE DEF rank
  <2>3. rank[i] < rank[j] \/ rank[j] < rank[i]
    BY <1>3, <2>2
  <2>4. QED
    BY <2>1, <2>3
<1>10. ASSUME NEW k \in 1..n PROVE \E i \in places : rank[i] = k
  <2>1. rank \in Injection(places, 1..n)
    <3> HIDE DEF rank, n
    <3> QED
      BY <1>5, <1>9 DEF Injection, IsInjective
  <2>2. IsFiniteSet(1..n) /\ Cardinality(1..n) = Cardinality(places)
    <3> HIDE DEF n
    <3>1. IsFiniteSet(1..n) /\ Cardinality(1..n) = n
      BY <1>1, FS_Interval
    <3>2. QED
      BY <3>1 DEF n
  <2> HIDE DEF rank, n
  <2>3. rank \in Surjection(places, 1..n)
    BY <2>1, <2>2, FS_Injection
  <2>4. QED
    BY <2>3 DEF Surjection
<1>11. ASSUME NEW k \in 1..n PROVE order[k] \in places /\ rank[order[k]] = k
  <2>1. \E i \in places : Cardinality(earlier(i)) = k - 1
    BY <1>6, <1>10
  <2>2. order[k] \in places /\ Cardinality(earlier(order[k])) = k - 1
    <3> HIDE DEF earlier, n, order
    <3> QED
      BY <1>8, <2>1
  <2>3. k \in Int
    BY <1>1
  <2> HIDE DEF order, rank, earlier
  <2>4. QED
    BY <1>7, <2>2, <2>3
<1>12. order \in [1..n -> places]
  <2> HIDE DEF n, rank
  <2> QED
    BY <1>8, <1>11
<1>13. ASSUME NEW i \in places PROVE \E k \in 1..n : order[k] = i
  <2> HIDE DEF n, order, rank
  <2>1. rank[i] \in 1..n
    BY <1>5
  <2>2. order[rank[i]] \in places /\ rank[order[rank[i]]] = rank[i]
    BY <1>11, <2>1
  <2>3. order[rank[i]] = i
    BY <1>9, <2>2
  <2>4. QED
    BY <2>1, <2>3
<1>14. ASSUME NEW k \in 1..n, NEW l \in 1..n, k < l PROVE <<order[k], order[l]>> \in before
  <2> HIDE DEF order, rank
  <2>1. order[k] \in places /\ order[l] \in places /\ rank[order[k]] = k /\ rank[order[l]] = l
    BY <1>11
  <2>2. PICK i \in places, j \in places : i = order[k] /\ j = order[l]
    BY <2>1
  <2>3. i # j /\ ~(rank[j] < rank[i])
    BY <1>1, <1>14, <2>1, <2>2
  <2>4. <<i, j>> \in before
    BY <1>3, <2>3 DEF Orders
  <2>5. QED
    BY <2>2, <2>4
<1>15. ASSUME NEW k \in 1..n, NEW l \in 1..n, order[k] = order[l] PROVE k = l
  <2> HIDE DEF order, rank
  <2> QED
    BY <1>11, <1>15
<1> HIDE DEF order
<1>16. QED
  BY <1>12, <1>13, <1>14, <1>15 DEF Lists, order

\* Upwards lists natural numbers by size.
LEMMA UpwardsLists ==
  ASSUME NEW places \in SUBSET Nat, IsFiniteSet(places)
  PROVE  /\ Upwards(places) \in [1..Cardinality(places) -> places]
         /\ \A i \in places : \E k \in 1..Cardinality(places) : Upwards(places)[k] = i
         /\ \A k, l \in 1..Cardinality(places) : k < l => Upwards(places)[k] < Upwards(places)[l]
         /\ \A k, l \in 1..Cardinality(places) : Upwards(places)[k] = Upwards(places)[l] => k = l
<1> DEFINE before == {p \in places \X places : p[1] < p[2]}
           order == Upwards(places)
           n == Cardinality(places)
<1>1. \A i, j \in places : <<i, j>> \in before <=> i < j
  OBVIOUS
<1>2. Orders(before, places)
  <2> HIDE DEF before
  <2> QED
    BY <1>1 DEF Orders
<1>3. order = InOrder(places, before)
  BY DEF Upwards
<1> HIDE DEF before, order
<1>4. Lists(order, places, before)
  BY <1>2, <1>3, InOrderLists
<1>5. \A k, l \in 1..n : k < l => order[k] < order[l]
  BY <1>1, <1>4 DEF Lists
<1>6. QED
  BY <1>4, <1>5 DEF Lists, order

-----------------------------------------------------------------------------
(* What the report of an evaluation counts.                                 *)

\* The numbers up to n.
LEMMA UpTo ==
  ASSUME NEW n \in Nat
  PROVE  IsFiniteSet(1..n) /\ Cardinality(1..n) = n
BY FS_Interval

\* There are eight evaluated fields.
LEMMA EightFields == IsFiniteSet(EvaluatedFields) /\ Cardinality(EvaluatedFields) = 8
<1> DEFINE name == <<"vendor_name", "invoice_number", "invoice_date", "due_date",
                     "subtotal", "tax", "total", "currency">>
           f == [k \in 1..8 |-> name[k]]
<1>1. f \in [1..8 -> EvaluatedFields]
  <2> SUFFICES ASSUME NEW k \in 1..8 PROVE name[k] \in EvaluatedFields
    OBVIOUS
  <2>1. k \in {1, 2, 3, 4, 5, 6, 7, 8}
    OBVIOUS
  <2>2. QED
    BY <2>1 DEF EvaluatedFields
<1>2. \A y \in EvaluatedFields : \E k \in 1..8 : f[k] = y
  <2>1. /\ f[1] = "vendor_name" /\ f[2] = "invoice_number" /\ f[3] = "invoice_date" /\ f[4] = "due_date"
        /\ f[5] = "subtotal" /\ f[6] = "tax" /\ f[7] = "total" /\ f[8] = "currency"
    OBVIOUS
  <2> HIDE DEF f
  <2>2. QED
    BY <2>1 DEF EvaluatedFields
<1>3. \A j, k \in 1..8 : f[j] = f[k] => j = k
  <2> SUFFICES ASSUME NEW j \in 1..8, NEW k \in 1..8, f[j] = f[k] PROVE j = k
    OBVIOUS
  <2>1. j \in {1, 2, 3, 4, 5, 6, 7, 8} /\ k \in {1, 2, 3, 4, 5, 6, 7, 8}
    OBVIOUS
  <2>2. QED
    BY <2>1
<1>4. IsFiniteSet(1..8) /\ Cardinality(1..8) = 8
  BY UpTo
<1> HIDE DEF f
<1>5. QED
  BY <1>1, <1>2, <1>3, <1>4, SameSize

\* Each expected record has one observation.
Observed(cases, seen) ==
  /\ cases \in Seq({cases[i] : i \in DOMAIN cases})
  /\ seen \in Seq({seen[i] : i \in DOMAIN seen})
  /\ Len(seen) = Len(cases)

\* What is scored is finite, eight fields of each document.
LEMMA ScoredIs ==
  ASSUME NEW cases, NEW seen, Observed(cases, seen)
  PROVE  /\ Len(cases) \in Nat /\ DOMAIN cases = 1..Len(cases) /\ DOMAIN seen = DOMAIN cases
         /\ IsFiniteSet(DOMAIN cases) /\ Cardinality(DOMAIN cases) = Len(cases)
         /\ IsFiniteSet(Scored(cases)) /\ Cardinality(Scored(cases)) = 8 * Len(cases)
         /\ Matched(cases, seen) \in SUBSET Scored(cases)
<1>1. /\ Len(cases) \in Nat /\ DOMAIN cases = 1..Len(cases) /\ DOMAIN seen = DOMAIN cases
  <2>1. Len(cases) \in Nat /\ DOMAIN cases = 1..Len(cases)
    BY LenProperties DEF Observed
  <2>2. DOMAIN seen = 1..Len(seen)
    BY LenProperties DEF Observed
  <2>3. QED
    BY <2>1, <2>2 DEF Observed
<1>2. IsFiniteSet(1..Len(cases)) /\ Cardinality(1..Len(cases)) = Len(cases)
  BY <1>1, UpTo
<1>3. IsFiniteSet(DOMAIN cases) /\ Cardinality(DOMAIN cases) = Len(cases)
  BY <1>1, <1>2
<1>4. /\ IsFiniteSet((DOMAIN cases) \X EvaluatedFields)
      /\ Cardinality((DOMAIN cases) \X EvaluatedFields) = Len(cases) * 8
  <2>1. PICK A, B : A = DOMAIN cases /\ B = EvaluatedFields
    OBVIOUS
  <2>2. /\ IsFiniteSet(A) /\ IsFiniteSet(B) /\ Cardinality(A) = Len(cases) /\ Cardinality(B) = 8
        /\ Len(cases) \in Nat /\ 8 \in Nat
    BY <1>1, <1>3, EightFields, <2>1
  <2>3. IsFiniteSet(A \X B) /\ Cardinality(A \X B) = Len(cases) * 8
    BY <2>2, ProductSize, Zenon
  <2>4. QED
    BY <2>1, <2>3
<1>5. QED
  BY <1>1, <1>3, <1>4 DEF Scored, Matched

\* What was missed, in the ways it can be.
Missed(cases, seen) == Scored(cases) \ Matched(cases, seen)
Kinds == {"unscored", "hallucinated", "missing", "incorrect"}

\* Every missed field failed in one way.
LEMMA MissedOnce ==
  ASSUME NEW cases, NEW seen
  PROVE  /\ UNION {Taxonomy(cases, seen)[kind] : kind \in Kinds} = Missed(cases, seen)
         /\ \A a, b \in Kinds : a # b => Taxonomy(cases, seen)[a] \intersect Taxonomy(cases, seen)[b] = {}
<1> DEFINE failed == Taxonomy(cases, seen)
           missed == Missed(cases, seen)
           read == {p \in missed : ~seen[p[1]].error}
           wanted(p) == Normalized(p[2], cases[p[1]].invoice[p[2]])
           given(p) == Normalized(p[2], Value(seen[p[1]], p[2]))
<1>1. /\ failed["unscored"] = missed \ read
      /\ failed["hallucinated"] = {p \in read : wanted(p) = None /\ given(p) # None}
      /\ failed["missing"] = {p \in read : wanted(p) # None /\ given(p) = None}
      /\ failed["incorrect"] = {p \in read : wanted(p) # None /\ given(p) # None}
  BY Zenon DEF Taxonomy, Missed
<1>2. ASSUME NEW p \in read PROVE ~(wanted(p) = None /\ given(p) = None)
  <2>1. ~seen[p[1]].error /\ p \notin Matched(cases, seen) /\ p \in Scored(cases)
    BY DEF Missed
  <2>2. ~Matches(cases[p[1]], seen[p[1]], p[2])
    BY <2>1 DEF Matched
  <2>3. wanted(p) # given(p)
    BY <2>1, <2>2 DEF Matches, Value
  <2>4. QED
    BY <2>3
<1> HIDE DEF failed, missed
<1>3. ASSUME NEW p \in missed
      PROVE \/ p \in failed["unscored"] \/ p \in failed["hallucinated"]
            \/ p \in failed["missing"] \/ p \in failed["incorrect"]
  BY <1>1, <1>2, Zenon
<1>4. \A kind \in Kinds : failed[kind] \subseteq missed
  BY <1>1 DEF Kinds
<1>5. UNION {failed[kind] : kind \in Kinds} = missed
  BY <1>3, <1>4 DEF Kinds
<1>6. \A a, b \in Kinds : a # b => failed[a] \intersect failed[b] = {}
  BY <1>1 DEF Kinds
<1>7. QED
  BY <1>5, <1>6 DEF failed, missed

\* The misses add up, and an unread document misses all its fields.
LEMMA MissedAddUp ==
  ASSUME NEW cases, NEW seen, Observed(cases, seen)
  PROVE  /\ SumFunction([kind \in Kinds |-> Cardinality(Taxonomy(cases, seen)[kind])]) = Cardinality(Missed(cases, seen))
         /\ Cardinality(Taxonomy(cases, seen).unscored) = 8 * Cardinality(Taxonomy(cases, seen).provider_error)
<1> DEFINE failed == Taxonomy(cases, seen)
           missed == Missed(cases, seen)
           g == [kind \in Kinds |-> Cardinality(failed[kind])]
           part == [kind \in Kinds |-> failed[kind]]
           unread == {i \in DOMAIN cases : seen[i].error}
<1>1. IsFiniteSet(missed)
  <2>1. missed \in SUBSET Scored(cases)
    BY DEF Missed
  <2> HIDE DEF missed
  <2>2. QED
    BY <2>1, ScoredIs, FS_Subset
<1>2. /\ UNION {failed[kind] : kind \in Kinds} = missed
      /\ \A a, b \in Kinds : a # b => failed[a] \intersect failed[b] = {}
  BY MissedOnce
<1>3. IsFiniteSet(Kinds)
  <2>1. IsFiniteSet({"unscored"}) /\ IsFiniteSet({"unscored"} \union {"hallucinated"})
    BY FS_Singleton, FS_AddElement
  <2>2. IsFiniteSet(({"unscored"} \union {"hallucinated"}) \union {"missing"})
    BY <2>1, FS_AddElement
  <2>3. IsFiniteSet((({"unscored"} \union {"hallucinated"}) \union {"missing"}) \union {"incorrect"})
    BY <2>2, FS_AddElement
  <2>4. Kinds = (({"unscored"} \union {"hallucinated"}) \union {"missing"}) \union {"incorrect"}
    BY DEF Kinds
  <2>5. QED
    BY <2>3, <2>4
<1>4. Apart(part, Kinds)
  <2>1. ASSUME NEW kind \in Kinds PROVE IsFiniteSet(part[kind])
    <3>1. part[kind] \in SUBSET missed
      BY <1>2
    <3> HIDE DEF part, missed
    <3>2. QED
      BY <1>1, <3>1, FS_Subset
  <2>2. \A a, b \in Kinds : a # b => part[a] \intersect part[b] = {}
    BY <1>2
  <2> HIDE DEF part
  <2>3. QED
    BY <2>1, <2>2 DEF Apart
<1>5. DOMAIN g = Kinds /\ \A kind \in Kinds : g[kind] = Cardinality(part[kind])
  OBVIOUS
<1>6. Union(part, Kinds) = missed
  <2>1. Union(part, Kinds) = UNION {failed[kind] : kind \in Kinds}
    BY DEF Union
  <2>2. QED
    BY <1>2, <2>1
<1>7. SumFunction(g) = Cardinality(missed)
  <2> HIDE DEF g, part, missed
  <2> QED
    BY <1>3, <1>4, <1>5, <1>6, SumOfParts
<1>8. failed.unscored = {p \in missed : seen[p[1]].error} /\ failed.provider_error = unread
  BY DEF Taxonomy, Missed
<1>9. failed.unscored = unread \X EvaluatedFields
  <2>1. \A p \in Matched(cases, seen) : ~seen[p[1]].error
    BY DEF Matched, Matches
  <2>2. \A p \in Scored(cases) : p \in missed \/ p \in Matched(cases, seen)
    BY DEF Missed
  <2>3. \A p \in missed : p \in Scored(cases) /\ p \notin Matched(cases, seen)
    BY DEF Missed
  <2> HIDE DEF missed
  <2>4. failed.unscored = {p \in Scored(cases) : seen[p[1]].error}
    BY <1>8, <2>1, <2>2, <2>3
  <2>5. {p \in Scored(cases) : seen[p[1]].error} = unread \X EvaluatedFields
    BY DEF Scored
  <2>6. QED
    BY <2>4, <2>5
<1>10. IsFiniteSet(unread)
  BY ScoredIs, FS_Subset
<1>11. Cardinality(unread \X EvaluatedFields) = Cardinality(unread) * 8 /\ Cardinality(unread) \in Nat
  <2> HIDE DEF unread
  <2> QED
    BY <1>10, EightFields, FS_Product, FS_CardinalityType
<1>12. SumFunction([kind \in Kinds |-> Cardinality(Taxonomy(cases, seen)[kind])]) = Cardinality(Missed(cases, seen))
  BY <1>7
<1>13. Cardinality(failed.unscored) = 8 * Cardinality(failed.provider_error)
  <2>1. Cardinality(failed.unscored) = Cardinality(unread \X EvaluatedFields)
    BY <1>9
  <2>2. Cardinality(failed.provider_error) = Cardinality(unread)
    BY <1>8
  <2> HIDE DEF failed, unread
  <2>3. QED
    BY <1>11, <2>1, <2>2
<1>14. QED
  BY <1>12, <1>13

\* A documented field is exact for all documents just when each document is, and a
\* document with the expected codes blocks as expected.
LEMMA WholeScores ==
  ASSUME NEW cases, NEW seen, Observed(cases, seen), NEW n \in Nat \ {0}, n < 2500, Len(cases) = n
  PROVE  /\ Scores(cases, seen).validation <= Scores(cases, seen).blocker
         /\ Scores(cases, seen).field_accuracy = 10000 <=> ExactDocuments(cases, seen) = DOMAIN cases
<1> DEFINE codes == ExactCodes(cases, seen)
           blockers == ExactBlocker(cases, seen)
           matched == Matched(cases, seen)
<1>1. /\ n \in Nat \ {0} /\ n < 2500
      /\ IsFiniteSet(DOMAIN cases) /\ Cardinality(DOMAIN cases) = n
      /\ IsFiniteSet(Scored(cases)) /\ Cardinality(Scored(cases)) = 8 * n
      /\ matched \in SUBSET Scored(cases)
  BY ScoredIs
<1>2. Cardinality(codes) \in Nat /\ Cardinality(blockers) \in Nat /\ Cardinality(codes) <= Cardinality(blockers)
  <2>1. codes \in SUBSET blockers /\ blockers \in SUBSET DOMAIN cases
    <3>1. ASSUME NEW i \in DOMAIN cases, cases[i].codes = seen[i].codes
          PROVE  (cases[i].codes = {}) = (seen[i].codes = {})
      BY <3>1
    <3>2. \A i : i \in codes <=> i \in DOMAIN cases /\ cases[i].codes = seen[i].codes
      BY Zenon DEF ExactCodes
    <3>3. \A i : i \in blockers <=> i \in DOMAIN cases /\ ((cases[i].codes = {}) = (seen[i].codes = {}))
      BY Zenon DEF ExactBlocker
    <3> HIDE DEF codes, blockers
    <3>4. QED
      BY <3>1, <3>2, <3>3
  <2> HIDE DEF codes, blockers
  <2>2. IsFiniteSet(blockers) /\ IsFiniteSet(codes)
    BY <1>1, <2>1, FS_Subset
  <2>3. QED
    BY <2>1, <2>2, FS_Subset, FS_CardinalityType
<1>3. Rate(Cardinality(codes), n) <= Rate(Cardinality(blockers), n)
  <2> HIDE DEF codes, blockers
  <2> QED
    BY <1>1, <1>2, RateGrows
<1>4. /\ IsFiniteSet(matched) /\ Cardinality(matched) \in Nat /\ Cardinality(matched) <= 8 * n
      /\ Cardinality(matched) = 8 * n => matched = Scored(cases)
  <2> HIDE DEF matched
  <2> QED
    BY <1>1, FS_Subset, FS_CardinalityType
<1>5. Rate(Cardinality(matched), 8 * n) = 10000 <=> Cardinality(matched) = 8 * n
  <2> DEFINE w == 8 * n
  <2>1. w \in Nat \ {0} /\ w < 20000
    BY <1>1
  <2> HIDE DEF matched, w
  <2>2. Cardinality(matched) <= w
    BY <1>4 DEF w
  <2>3. Rate(Cardinality(matched), w) = 10000 <=> Cardinality(matched) = w
    BY <1>4, <2>1, <2>2, RateOfAll
  <2>4. QED
    BY <2>3 DEF w
<1>6. matched = Scored(cases) <=> ExactDocuments(cases, seen) = DOMAIN cases
  <2>1. matched = Scored(cases) => \A i \in DOMAIN cases : \A f \in EvaluatedFields : <<i, f>> \in matched
    BY DEF Scored
  <2>2. (\A i \in DOMAIN cases : \A f \in EvaluatedFields : <<i, f>> \in matched) => matched = Scored(cases)
    BY <1>1 DEF Scored
  <2> HIDE DEF matched
  <2>3. QED
    BY <2>1, <2>2 DEF ExactDocuments, matched
<1>7. /\ Scores(cases, seen).validation = Rate(Cardinality(codes), n)
      /\ Scores(cases, seen).blocker = Rate(Cardinality(blockers), n)
      /\ Scores(cases, seen).field_accuracy = Rate(Cardinality(matched), 8 * n)
  BY <1>1 DEF Scores
<1> HIDE DEF codes, blockers, matched
<1>8. QED
  BY <1>1, <1>3, <1>4, <1>5, <1>6, <1>7

\* A function on the numbers up to n is a sequence of length n.
LEMMA UpToIsSeq ==
  ASSUME NEW n \in Nat, NEW s, s = [k \in 1..n |-> s[k]]
  PROVE  /\ s \in Seq({s[k] : k \in DOMAIN s}) /\ Len(s) = n /\ DOMAIN s = 1..n
<1> DEFINE R == {s[k] : k \in DOMAIN s}
<1>1. DOMAIN s = 1..n
  OBVIOUS
<1>2. s \in [1..n -> R]
  BY <1>1
<1> HIDE DEF R
<1>3. s \in Seq(R)
  BY <1>2
<1>4. Len(s) = n
  BY <1>1, <1>3
<1>5. QED
  BY <1>1, <1>3, <1>4 DEF R

\* What a sequence has at some places, in order.
LEMMA ThoseAre ==
  ASSUME NEW s, NEW places \in SUBSET Nat, IsFiniteSet(places)
  PROVE  /\ OfThose(s, places) \in Seq({OfThose(s, places)[k] : k \in DOMAIN OfThose(s, places)})
         /\ Len(OfThose(s, places)) = Cardinality(places)
         /\ DOMAIN OfThose(s, places) = 1..Cardinality(places)
         /\ \A k \in 1..Cardinality(places) : OfThose(s, places)[k] = s[Upwards(places)[k]]
<1> DEFINE order == Upwards(places)
           m == Cardinality(places)
           those == OfThose(s, places)
<1>1. m \in Nat
  BY FS_CardinalityType
<1>2. DOMAIN order = 1..m
  BY UpwardsLists
<1>3. those = [k \in DOMAIN order |-> s[order[k]]]
  BY DEF OfThose
<1> HIDE DEF order, m, those
<1>4. those = [k \in 1..m |-> s[order[k]]]
  BY <1>2, <1>3
<1>5. those = [k \in 1..m |-> those[k]] /\ \A k \in 1..m : those[k] = s[order[k]]
  BY <1>4
<1>6. those \in Seq({those[k] : k \in DOMAIN those}) /\ Len(those) = m /\ DOMAIN those = 1..m
  BY <1>1, <1>5, UpToIsSeq
<1>7. QED
  BY <1>5, <1>6 DEF order, m, those

\* The documents that were read, and their fields.
LEMMA ReadIs ==
  ASSUME NEW cases, NEW seen, Observed(cases, seen)
  PROVE  /\ ReadOnes(seen) \in SUBSET Nat /\ IsFiniteSet(ReadOnes(seen)) /\ ReadOnes(seen) \in SUBSET DOMAIN cases
         /\ Cardinality(ReadOnes(seen)) \in Nat /\ Cardinality(ReadOnes(seen)) <= Len(cases)
         /\ Observed(OfThose(cases, ReadOnes(seen)), OfThose(seen, ReadOnes(seen)))
<1> DEFINE P == ReadOnes(seen)
<1>1. P \in SUBSET DOMAIN cases
  BY ScoredIs DEF ReadOnes
<1>2. P \in SUBSET Nat
  BY <1>1, ScoredIs
<1> HIDE DEF P
<1>3. IsFiniteSet(P) /\ Cardinality(P) \in Nat /\ Cardinality(P) <= Len(cases)
  BY <1>1, ScoredIs, FS_Subset, FS_CardinalityType
<1>4. Observed(OfThose(cases, P), OfThose(seen, P))
  BY <1>2, <1>3, ThoseAre DEF Observed
<1>5. QED
  BY <1>1, <1>2, <1>3, <1>4 DEF P

\* Only a document that was read has matching fields.
LEMMA MatchedIsRead ==
  ASSUME NEW cases, NEW seen, Observed(cases, seen)
  PROVE  /\ \A p \in Matched(cases, seen) : p[1] \in ReadOnes(seen)
         /\ ExactDocuments(cases, seen) \in SUBSET ReadOnes(seen)
<1>1. \A p \in Matched(cases, seen) : p[1] \in ReadOnes(seen)
  BY ScoredIs DEF Matched, Scored, Matches, ReadOnes
<1>2. "total" \in EvaluatedFields
  BY DEF EvaluatedFields
<1>3. ASSUME NEW i \in ExactDocuments(cases, seen) PROVE i \in ReadOnes(seen)
  <2>1. <<i, "total">> \in Matched(cases, seen)
    BY <1>2 DEF ExactDocuments
  <2>2. QED
    BY <1>1, <2>1
<1>4. QED
  BY <1>1, <1>3

\* Among the read documents as many fields match, and as many are exact.
LEMMA ReadMatchAlike ==
  ASSUME NEW cases, NEW seen, Observed(cases, seen), NEW P, P = ReadOnes(seen)
  PROVE  /\ Cardinality(Matched(OfThose(cases, P), OfThose(seen, P))) = Cardinality(Matched(cases, seen))
         /\ Cardinality(ExactDocuments(OfThose(cases, P), OfThose(seen, P))) = Cardinality(ExactDocuments(cases, seen))
<1> DEFINE c == OfThose(cases, P)
           s == OfThose(seen, P)
           order == Upwards(P)
           m == Cardinality(P)
<1>1. /\ P \in SUBSET Nat /\ IsFiniteSet(P) /\ P \in SUBSET DOMAIN cases
      /\ m \in Nat /\ Observed(c, s)
  BY ReadIs
<1>2. /\ order \in [1..m -> P]
      /\ \A i \in P : \E k \in 1..m : order[k] = i
      /\ \A k, l \in 1..m : order[k] = order[l] => k = l
  BY <1>1, UpwardsLists
<1>3. DOMAIN c = 1..m /\ \A k \in 1..m : c[k] = cases[order[k]] /\ s[k] = seen[order[k]]
  BY <1>1, ThoseAre
<1> HIDE DEF c, s, order, m
<1> DEFINE here == Matched(c, s)
           there == Matched(cases, seen)
<1>4. /\ here = {p \in (1..m) \X EvaluatedFields : Matches(c[p[1]], s[p[1]], p[2])}
      /\ there = {p \in (DOMAIN cases) \X EvaluatedFields : Matches(cases[p[1]], seen[p[1]], p[2])}
  BY <1>3 DEF Matched, Scored
<1>5. \A k \in 1..m, f \in EvaluatedFields : <<k, f>> \in here <=> <<order[k], f>> \in there
  <2> SUFFICES ASSUME NEW k \in 1..m, NEW f \in EvaluatedFields
               PROVE  <<k, f>> \in here <=> <<order[k], f>> \in there
    BY Zenon
  <2>1. order[k] \in DOMAIN cases /\ c[k] = cases[order[k]] /\ s[k] = seen[order[k]]
    BY <1>1, <1>2, <1>3
  <2>2. <<k, f>> \in here <=> Matches(c[k], s[k], f)
    BY <1>4
  <2>3. <<order[k], f>> \in there <=> Matches(cases[order[k]], seen[order[k]], f)
    BY <1>4, <2>1
  <2> HIDE DEF here, there
  <2>4. QED
    BY <2>1, <2>2, <2>3
<1>6. IsFiniteSet(here)
  BY <1>1, ScoredIs, FS_Subset
<1>7. /\ \A p \in here : p \in (1..m) \X EvaluatedFields
      /\ \A p \in there : p \in P \X EvaluatedFields
  BY <1>4, MatchedIsRead
<1> HIDE DEF here, there
<1>8. Cardinality(here) = Cardinality(there)
  <2> DEFINE g == [p \in here |-> <<order[p[1]], p[2]>>]
  <2>1. g \in [here -> there]
    BY <1>5, <1>7
  <2>2. \A q \in there : \E p \in here : g[p] = q
    <3> TAKE q \in there
    <3>1. PICK i \in P, f \in EvaluatedFields : q = <<i, f>>
      BY <1>7
    <3>2. PICK k \in 1..m : order[k] = i
      BY <1>2
    <3>3. <<k, f>> \in here /\ g[<<k, f>>] = q
      BY <1>5, <3>1, <3>2
    <3>4. QED
      BY <3>3
  <2>3. \A p, q \in here : g[p] = g[q] => p = q
    BY <1>2, <1>7
  <2> HIDE DEF g
  <2>4. QED
    BY <1>6, <2>1, <2>2, <2>3, SameSize
<1> DEFINE few == ExactDocuments(c, s)
           all == ExactDocuments(cases, seen)
<1>9. /\ few = {k \in 1..m : \A f \in EvaluatedFields : <<k, f>> \in here}
      /\ all = {i \in DOMAIN cases : \A f \in EvaluatedFields : <<i, f>> \in there}
      /\ all \in SUBSET P
  BY <1>3, MatchedIsRead DEF ExactDocuments, here, there
<1>10. \A k \in 1..m : k \in few <=> order[k] \in all
  BY <1>1, <1>2, <1>5, <1>9
<1>11. IsFiniteSet(few)
  <2>1. few \in SUBSET (1..m) /\ IsFiniteSet(1..m)
    BY <1>1, <1>9, UpTo
  <2> HIDE DEF few
  <2>2. QED
    BY <2>1, FS_Subset
<1>12. Cardinality(few) = Cardinality(all)
  <2> DEFINE g == [k \in few |-> order[k]]
  <2>0. few \in SUBSET (1..m)
    BY <1>9
  <2> HIDE DEF few, all
  <2>1. g \in [few -> all]
    BY <1>10, <2>0
  <2>2. \A i \in all : \E k \in few : g[k] = i
    BY <1>2, <1>9, <1>10, <2>0
  <2>3. \A k, l \in few : g[k] = g[l] => k = l
    BY <1>2, <2>0
  <2> HIDE DEF g
  <2>4. QED
    BY <1>11, <2>1, <2>2, <2>3, SameSize
<1>13. QED
  BY <1>8, <1>12 DEF here, there, c, s

\* Of fewer, as many are no smaller a share.
LEMMA FewerNoWorse ==
  ASSUME NEW a \in Nat, NEW m \in Nat, NEW n \in Nat, m <= n, m = 0 => a = 0
  PROVE  Rate(a, n) <= Rate(a, m)
<1>1. Rate(a, 0) = 0
  BY DEF Rate
<1>2. CASE m = 0
  <2>1. Rate(a, m) = 0 /\ a = 0
    BY <1>1, <1>2
  <2>2. Rate(a, n) = 0
    <3>1. CASE n = 0
      BY <1>1, <3>1
    <3>2. CASE n # 0
      BY <2>1, <3>2, RateOfNone
    <3>3. QED
      BY <3>1, <3>2
  <2>3. QED
    BY <2>1, <2>2
<1>3. CASE m # 0
  BY <1>3, RateGrows
<1>4. QED
  BY <1>2, <1>3

\* Reading only some of the documents is no worse on those.
LEMMA ReadScores ==
  ASSUME NEW cases, NEW seen, Observed(cases, seen)
  PROVE  LET conditional == Scores(OfThose(cases, ReadOnes(seen)), OfThose(seen, ReadOnes(seen)))
         IN /\ Scores(cases, seen).field_accuracy <= conditional.field_accuracy
            /\ Scores(cases, seen).document_exact <= conditional.document_exact
<1> DEFINE P == ReadOnes(seen)
           c == OfThose(cases, P)
           s == OfThose(seen, P)
           m == Cardinality(P)
           n == Len(cases)
           a == Cardinality(Matched(cases, seen))
           e == Cardinality(ExactDocuments(cases, seen))
<1>1. m \in Nat /\ m <= n /\ Observed(c, s) /\ IsFiniteSet(P) /\ P \in SUBSET Nat
  BY ReadIs
<1>2. n \in Nat /\ Cardinality(Scored(cases)) = 8 * n
  BY ScoredIs
<1>3. Len(c) = m /\ Cardinality(Scored(c)) = 8 * m
  <2>1. Len(c) = m
    BY <1>1, ThoseAre
  <2> HIDE DEF c, s, m, P
  <2>2. Cardinality(Scored(c)) = 8 * Len(c)
    BY <1>1, ScoredIs
  <2>3. QED
    BY <2>1, <2>2
<1>4. Cardinality(Matched(c, s)) = a /\ Cardinality(ExactDocuments(c, s)) = e
  BY ReadMatchAlike
<1>5. a \in Nat /\ (m = 0 => a = 0)
  <2> DEFINE M == Matched(cases, seen)
  <2>1. IsFiniteSet(M)
    <3>1. M \in SUBSET Scored(cases) /\ IsFiniteSet(Scored(cases))
      BY ScoredIs
    <3> HIDE DEF M
    <3>2. QED
      BY <3>1, FS_Subset
  <2>2. P = {} => M = {}
    BY MatchedIsRead
  <2> HIDE DEF M, P
  <2>3. Cardinality(M) \in Nat /\ (m = 0 => Cardinality(M) = 0)
    BY <1>1, <2>1, <2>2, FS_CardinalityType, FS_EmptySet
  <2>4. QED
    BY <2>3 DEF M
<1>6. e \in Nat /\ (m = 0 => e = 0)
  <2> DEFINE E == ExactDocuments(cases, seen)
  <2>1. E \in SUBSET P
    BY MatchedIsRead
  <2> HIDE DEF E, P
  <2>2. IsFiniteSet(E) /\ Cardinality(E) <= m /\ Cardinality(E) \in Nat
    BY <1>1, <2>1, FS_Subset, FS_CardinalityType
  <2>3. QED
    BY <1>1, <2>2 DEF E
<1>7. /\ Scores(cases, seen).field_accuracy = Rate(a, 8 * n)
      /\ Scores(cases, seen).document_exact = Rate(e, n)
  BY <1>2 DEF Scores
<1>8. /\ Scores(c, s).field_accuracy = Rate(a, 8 * m)
      /\ Scores(c, s).document_exact = Rate(e, m)
  <2> HIDE DEF c, s, a, e, m
  <2> QED
    BY <1>3, <1>4 DEF Scores
<1> HIDE DEF c, s, a, e, m, n, P
<1>9. Rate(e, n) <= Rate(e, m)
  BY <1>1, <1>2, <1>6, FewerNoWorse
<1>10. Rate(a, 8 * n) <= Rate(a, 8 * m)
  <2> DEFINE v == 8 * n
             w == 8 * m
  <2>1. v \in Nat /\ w \in Nat /\ w <= v /\ (w = 0 => a = 0)
    BY <1>1, <1>2, <1>5
  <2> HIDE DEF v, w
  <2>2. Rate(a, v) <= Rate(a, w)
    BY <1>5, <2>1, FewerNoWorse
  <2>3. QED
    BY <2>2 DEF v, w
<1>11. QED
  BY <1>7, <1>8, <1>9, <1>10 DEF c, s, P

\* The names written in texts, and the values of an invoice whose amounts are whole
\* cents, or whose total alone is known more closely.
Names(Texts) == {None} \union [text : Texts, form : Form]

ValuesOf(invoice, Texts) ==
  /\ invoice["vendor_name"] \in Names(Texts) /\ invoice["invoice_number"] \in Names(Texts)
  /\ \A f \in MoneyFields : invoice[f] \in Int \union {None}
  /\ invoice.line_items = << >>

InCents(invoice) == \A f \in MoneyFields : invoice[f] # None => invoice[f] % Cent = 0

TotalTells(invoice) ==
  \/ InCents(invoice)
  \/ /\ invoice["subtotal"] = None \/ invoice["tax"] = None
     /\ invoice["total"] # None => invoice["total"] >= Cent

\* Whole cents are not rounded, and a cent or more is not rounded away.
LEMMA CentsStay ==
  ASSUME NEW x \in Int
  PROVE  /\ QuantizedHalfEven(x) \in Int
         /\ x % Cent = 0 => QuantizedHalfEven(x) = x
         /\ x >= Cent => QuantizedHalfEven(x) > 0
<1> DEFINE q == x \div 10
<1>1. q \in Int /\ q * 10 <= x /\ x < q * 10 + 10 /\ (x % 10 = 0 => x = q * 10) /\ (x >= 10 => q >= 1)
  OBVIOUS
<1> HIDE DEF q
<1>2. /\ QuantizedHalfEven(x) = CASE x - q * 10 < 5 -> q * 10
                                  [] x - q * 10 > 5 -> q * 10 + 10
                                  [] OTHER -> IF ((q * 10) \div 10) % 2 = 0 THEN q * 10 ELSE q * 10 + 10
  BY DEF QuantizedHalfEven, Cent, q
<1>3. QuantizedHalfEven(x) \in {q * 10, q * 10 + 10} /\ (x - q * 10 < 5 => QuantizedHalfEven(x) = q * 10)
  BY <1>1, <1>2
<1>4. QED
  BY <1>1, <1>3 DEF Cent

\* What a value is in the form it is compared in.
LEMMA NormalizedIs ==
  ASSUME NEW Texts, None \notin [text : Texts, form : Form], NEW field, NEW value
  PROVE  /\ value = None => Normalized(field, value) = None
         /\ field \in MoneyFields /\ value \in Int => Normalized(field, value) = QuantizedHalfEven(value)
         /\ field \in {"vendor_name", "invoice_number"} /\ value \in [text : Texts, form : Form] =>
              Normalized(field, value) \in [text : Texts, form : Form] /\ Normalized(field, value).text = value.text
         /\ field \in {"invoice_date", "due_date", "currency"} => Normalized(field, value) = value
<1>1. value = None => Normalized(field, value) = None
  BY DEF Normalized
<1>2. ASSUME field \in MoneyFields, value \in Int PROVE Normalized(field, value) = QuantizedHalfEven(value)
  <2>1. value # None /\ field # "vendor_name" /\ field # "invoice_number"
    BY <1>2, NullAssumption DEF MoneyFields
  <2>2. QED
    BY <1>2, <2>1, Zenon DEF Normalized
<1>3. field \in {"invoice_date", "due_date", "currency"} => Normalized(field, value) = value
  BY DEF Normalized, MoneyFields
<1>4. ASSUME field \in {"vendor_name", "invoice_number"}, value \in [text : Texts, form : Form]
      PROVE  /\ Normalized(field, value) \in [text : Texts, form : Form]
             /\ Normalized(field, value).text = value.text
  <2>1. value # None /\ field \notin MoneyFields
    BY <1>4 DEF MoneyFields
  <2>2. [value EXCEPT !.form = "plain"] \in [text : Texts, form : Form] /\ [value EXCEPT !.form = "plain"].text = value.text
    BY <1>4 DEF Form
  <2>3. Normalized(field, value) \in {value, [value EXCEPT !.form = "plain"]}
    BY <2>1 DEF Normalized
  <2>4. QED
    BY <1>4, <2>2, <2>3
<1>5. QED
  BY <1>1, <1>2, <1>3, <1>4

\* Two invoices that match in every field.
Alike(e, o) == \A f \in EvaluatedFields : Normalized(f, e[f]) = Normalized(f, o[f])

\* They have the same fields missing, the same dates and the same currency; their
\* names have the same text, and their amounts the same cents.
LEMMA AlikeIs ==
  ASSUME NEW Texts, None \notin [text : Texts, form : Form],
         NEW e, NEW o, ValuesOf(e, Texts), ValuesOf(o, Texts), Alike(e, o)
  PROVE  /\ \A f \in EvaluatedFields : e[f] = None <=> o[f] = None
         /\ \A f \in {"invoice_date", "due_date", "currency"} : e[f] = o[f]
         /\ \A f \in MoneyFields : e[f] # None =>
              /\ e[f] \in Int /\ o[f] \in Int
              /\ QuantizedHalfEven(e[f]) = QuantizedHalfEven(o[f])
<1>1. \A f \in EvaluatedFields :
        f \in MoneyFields \union {"vendor_name", "invoice_number"} \union {"invoice_date", "due_date", "currency"}
  BY DEF EvaluatedFields, MoneyFields
<1>2. \A f \in MoneyFields \union {"vendor_name", "invoice_number"} \union {"invoice_date", "due_date", "currency"} :
        f \in EvaluatedFields
  BY DEF EvaluatedFields, MoneyFields
<1>3. ASSUME NEW f \in {"invoice_date", "due_date", "currency"} PROVE e[f] = o[f]
  <2>1. Normalized(f, e[f]) = Normalized(f, o[f])
    BY <1>2 DEF Alike
  <2>2. QED
    BY <2>1, NormalizedIs
<1>4. ASSUME NEW f \in MoneyFields
      PROVE  /\ e[f] = None <=> o[f] = None
             /\ e[f] # None => /\ e[f] \in Int /\ o[f] \in Int
                               /\ QuantizedHalfEven(e[f]) = QuantizedHalfEven(o[f])
  <2>1. Normalized(f, e[f]) = Normalized(f, o[f]) /\ e[f] \in Int \union {None} /\ o[f] \in Int \union {None}
    BY <1>2 DEF Alike, ValuesOf
  <2>2. \A x \in Int : Normalized(f, x) = QuantizedHalfEven(x) /\ Normalized(f, x) # None
    <3> TAKE x \in Int
    <3>1. Normalized(f, x) = QuantizedHalfEven(x)
      BY NormalizedIs
    <3>2. QuantizedHalfEven(x) \in Int
      BY CentsStay
    <3>3. QED
      BY <3>1, <3>2, NullAssumption
  <2>3. Normalized(f, None) = None
    BY NormalizedIs
  <2>4. QED
    BY <2>1, <2>2, <2>3
<1>5. ASSUME NEW f \in {"vendor_name", "invoice_number"} PROVE e[f] = None <=> o[f] = None
  <2>1. Normalized(f, e[f]) = Normalized(f, o[f]) /\ e[f] \in Names(Texts) /\ o[f] \in Names(Texts)
    BY <1>2 DEF Alike, ValuesOf
  <2>2. \A x \in [text : Texts, form : Form] : Normalized(f, x) # None
    <3> TAKE x \in [text : Texts, form : Form]
    <3>1. Normalized(f, x) \in [text : Texts, form : Form]
      BY NormalizedIs
    <3>2. QED
      BY <3>1
  <2>3. Normalized(f, None) = None
    BY NormalizedIs
  <2>4. QED
    BY <2>1, <2>2, <2>3 DEF Names
<1>6. QED
  BY <1>1, <1>3, <1>4, <1>5

\* They get the same codes when the amounts are whole cents, or only a total is known
\* more closely.
LEMMA AlikeCodes ==
  ASSUME NEW Texts, None \notin [text : Texts, form : Form],
         NEW e, NEW o, ValuesOf(e, Texts), ValuesOf(o, Texts), Alike(e, o),
         InCents(e), TotalTells(o)
  PROVE  {issue.code : issue \in ValidateInvoice(e)} = {issue.code : issue \in ValidateInvoice(o)}
<1>1. /\ \A f \in EvaluatedFields : e[f] = None <=> o[f] = None
      /\ \A f \in {"invoice_date", "due_date", "currency"} : e[f] = o[f]
      /\ \A f \in MoneyFields : e[f] # None =>
           /\ e[f] \in Int /\ o[f] \in Int
           /\ QuantizedHalfEven(e[f]) = QuantizedHalfEven(o[f])
  BY AlikeIs
<1>2. MissingFields(e) = MissingFields(o)
  <2>1. \A f \in CriticalFields : e[f] = None <=> o[f] = None
    BY <1>1 DEF CriticalFields, EvaluatedFields
  <2>2. {c \in CriticalFields : e[c] = None} = {c \in CriticalFields : o[c] = None}
    BY <2>1
  <2>3. QED
    BY <2>2 DEF MissingFields
<1>3. DateIssues(e) = DateIssues(o)
  <2>1. e["invoice_date"] = o["invoice_date"] /\ e["due_date"] = o["due_date"]
    BY <1>1
  <2>2. QED
    BY <2>1 DEF DateIssues
<1>4. CurrencyIssues(e) = CurrencyIssues(o)
  <2>1. e["currency"] = o["currency"]
    BY <1>1
  <2>2. QED
    BY <2>1 DEF CurrencyIssues
<1>5. ItemIssues(e) = ItemIssues(o)
  <2>1. e.line_items = o.line_items
    BY DEF ValuesOf
  <2>2. QED
    BY <2>1 DEF ItemIssues
<1>6. TotalIssues(e) = TotalIssues(o)
  <2>1. ASSUME NEW f \in MoneyFields, e[f] # None
        PROVE  /\ e[f] \in Int /\ o[f] \in Int /\ o[f] # None
               /\ QuantizedHalfEven(e[f]) = QuantizedHalfEven(o[f]) /\ QuantizedHalfEven(e[f]) = e[f]
    <3>1. e[f] \in Int /\ o[f] \in Int /\ QuantizedHalfEven(e[f]) = QuantizedHalfEven(o[f])
      BY <1>1, <2>1
    <3>2. e[f] % Cent = 0
      BY <2>1 DEF InCents
    <3>3. QED
      BY <3>1, <3>2, CentsStay, NullAssumption
  <2>2. \A f \in MoneyFields : e[f] = None <=> o[f] = None
    BY <1>1 DEF EvaluatedFields, MoneyFields
  <2>3. CASE InCents(o)
    <3>1. \A f \in MoneyFields : e[f] = o[f]
      <4> TAKE f \in MoneyFields
      <4>1. CASE e[f] = None
        BY <2>2, <4>1
      <4>2. CASE e[f] # None
        <5>1. o[f] % Cent = 0
          BY <2>1, <2>3, <4>2 DEF InCents
        <5>2. QED
          BY <2>1, <4>2, <5>1, CentsStay
      <4>3. QED
        BY <4>1, <4>2
    <3>2. e["subtotal"] = o["subtotal"] /\ e["tax"] = o["tax"] /\ e["total"] = o["total"]
      BY <3>1 DEF MoneyFields
    <3>3. QED
      BY <3>2 DEF TotalIssues
  <2>4. CASE ~InCents(o)
    <3>1. /\ o["subtotal"] = None \/ o["tax"] = None
          /\ o["total"] # None => o["total"] >= Cent
      BY <2>4 DEF TotalTells
    <3>2. e["subtotal"] = None \/ e["tax"] = None
      BY <2>2, <3>1 DEF MoneyFields
    <3>3. e["total"] = None <=> o["total"] = None
      BY <2>2 DEF MoneyFields
    <3>4. ASSUME e["total"] # None PROVE e["total"] > 0 /\ o["total"] > 0 /\ e["total"] \in Int /\ o["total"] \in Int
      <4>1. "total" \in MoneyFields
        BY DEF MoneyFields
      <4>2. /\ e["total"] \in Int /\ o["total"] \in Int
            /\ QuantizedHalfEven(e["total"]) = QuantizedHalfEven(o["total"]) /\ QuantizedHalfEven(e["total"]) = e["total"]
        BY <2>1, <3>4, <4>1
      <4>3. o["total"] >= Cent /\ QuantizedHalfEven(o["total"]) > 0
        BY <3>1, <3>3, <3>4, <4>2, CentsStay
      <4>4. QED
        BY <4>2, <4>3 DEF Cent
    <3>5. TotalIssues(e) = {} /\ TotalIssues(o) = {}
      BY <3>1, <3>2, <3>3, <3>4 DEF TotalIssues
    <3>6. QED
      BY <3>5
  <2>5. QED
    BY <2>3, <2>4
<1>7. ValidateInvoice(e) = ValidateInvoice(o)
  BY <1>2, <1>3, <1>4, <1>5, <1>6 DEF ValidateInvoice
<1>8. QED
  BY <1>7

\* The codes validation gives an invoice.
CodesAreOf(codes, invoice) == codes = {issue.code : issue \in ValidateInvoice(invoice)}

\* No text and no name written in a text is none.
Nameable(Texts) == None \notin Texts /\ None \notin [text : Texts, form : Form]

\* Documents of one duplicate group have one identity, the expected amounts are whole
\* cents, and what was read of a document are the values of an invoice, validated.
Evaluable(cases, seen, Texts) ==
  /\ Observed(cases, seen)
  /\ \A i \in DOMAIN cases : ValuesOf(cases[i].invoice, Texts) /\ InCents(cases[i].invoice)
  /\ \A i, j \in DOMAIN cases : cases[i].group # None /\ cases[i].group = cases[j].group =>
       \A f \in {"vendor_name", "invoice_number"} :
         AlnumText(cases[i].invoice[f]) = AlnumText(cases[j].invoice[f])
  /\ \A i \in DOMAIN cases : ~seen[i].error =>
       /\ ValuesOf(seen[i].invoice, Texts) /\ TotalTells(seen[i].invoice)
       /\ CodesAreOf(seen[i].codes, seen[i].invoice)

\* A name that was read as expected has the expected text.
LEMMA NamesRead ==
  ASSUME NEW Texts, None \notin Texts, None \notin [text : Texts, form : Form],
         NEW f \in {"vendor_name", "invoice_number"}, NEW x \in Names(Texts), NEW y \in Names(Texts),
         x # None, Normalized(f, x) = Normalized(f, y)
  PROVE  AlnumText(y) = AlnumText(x) /\ AlnumText(y) # None
<1>1. x \in [text : Texts, form : Form]
  BY DEF Names
<1>2. Normalized(f, x) \in [text : Texts, form : Form] /\ Normalized(f, x).text = x.text
  BY <1>1, NormalizedIs
<1>3. y # None
  <2>1. Normalized(f, None) = None
    BY NormalizedIs
  <2>2. QED
    BY <1>2, <2>1
<1>4. y \in [text : Texts, form : Form]
  BY <1>3 DEF Names
<1>5. Normalized(f, y).text = y.text
  BY <1>4, NormalizedIs
<1>6. x.text = y.text /\ x.text \in Texts
  BY <1>1, <1>2, <1>5
<1>7. QED
  BY <1>3, <1>6 DEF AlnumText

\* A pair of one group is lost only where a document or one of its names was.
LEMMA LostPairs ==
  ASSUME NEW Texts, Nameable(Texts),
         NEW cases, NEW seen, Evaluable(cases, seen, Texts),
         NEW p \in ExpectedPairs(cases) \ PredictedPairs(cases, seen)
  PROVE  \/ seen[p[1]].error \/ seen[p[2]].error
         \/ \E i \in {p[1], p[2]}, f \in {"vendor_name", "invoice_number"} :
              <<i, f>> \notin Matched(cases, seen) \/ cases[i].invoice[f] = None
<1> SUFFICES ASSUME ~seen[p[1]].error, ~seen[p[2]].error,
                    \A i \in {p[1], p[2]}, f \in {"vendor_name", "invoice_number"} :
                      <<i, f>> \in Matched(cases, seen) /\ cases[i].invoice[f] # None
             PROVE  FALSE
  OBVIOUS
<1>1. /\ p \in (1..Len(cases)) \X (1..Len(cases)) /\ p[1] < p[2]
      /\ cases[p[1]].group # None /\ cases[p[1]].group = cases[p[2]].group
  BY DEF ExpectedPairs, PairsOf
<1>2. p[1] \in DOMAIN cases /\ p[2] \in DOMAIN cases
  BY <1>1, ScoredIs DEF Evaluable
<1>3. ASSUME NEW i \in {p[1], p[2]}, NEW f \in {"vendor_name", "invoice_number"}
      PROVE  /\ AlnumText(Value(seen[i], f)) = AlnumText(cases[i].invoice[f])
             /\ AlnumText(Value(seen[i], f)) # None
  <2>1. i \in DOMAIN cases /\ ~seen[i].error
    BY <1>2
  <2>2. cases[i].invoice[f] \in Names(Texts) /\ seen[i].invoice[f] \in Names(Texts)
    BY <2>1 DEF Evaluable, ValuesOf
  <2>3. Matches(cases[i], seen[i], f)
    BY DEF Matched
  <2>4. Normalized(f, cases[i].invoice[f]) = Normalized(f, seen[i].invoice[f])
    BY <2>3 DEF Matches
  <2>5. cases[i].invoice[f] # None
    OBVIOUS
  <2>6. AlnumText(seen[i].invoice[f]) = AlnumText(cases[i].invoice[f]) /\ AlnumText(seen[i].invoice[f]) # None
    BY <2>2, <2>4, <2>5, NamesRead DEF Nameable
  <2>7. QED
    BY <2>1, <2>6 DEF Value
<1>4. ASSUME NEW f \in {"vendor_name", "invoice_number"}
      PROVE  /\ AlnumText(Value(seen[p[1]], f)) = AlnumText(Value(seen[p[2]], f))
             /\ AlnumText(Value(seen[p[1]], f)) # None
  <2>1. AlnumText(cases[p[1]].invoice[f]) = AlnumText(cases[p[2]].invoice[f])
    BY <1>1, <1>2 DEF Evaluable
  <2>2. QED
    BY <1>3, <2>1
<1>5. PICK v, n : v = AlnumText(Value(seen[p[1]], "vendor_name")) /\ n = AlnumText(Value(seen[p[1]], "invoice_number"))
  OBVIOUS
<1>6. /\ v # None /\ n # None
      /\ v = AlnumText(Value(seen[p[2]], "vendor_name")) /\ n = AlnumText(Value(seen[p[2]], "invoice_number"))
  BY <1>4, <1>5
<1>7. p \in PredictedPairs(cases, seen)
  BY <1>1, <1>5, <1>6 DEF PredictedPairs, PairsOf
<1>8. QED
  BY <1>7

\* An exact document with the expected codes is graded so.
LEMMA ExactIsGraded ==
  ASSUME NEW Texts, Nameable(Texts),
         NEW cases, NEW seen, Evaluable(cases, seen, Texts),
         NEW i \in ExactDocuments(cases, seen),
         CodesAreOf(cases[i].codes, cases[i].invoice)
  PROVE  i \in ExactCodes(cases, seen)
<1>1. i \in DOMAIN cases /\ \A f \in EvaluatedFields : Matches(cases[i], seen[i], f)
  BY DEF ExactDocuments, Matched
<1>2. ~seen[i].error
  BY <1>1 DEF EvaluatedFields, Matches
<1>3. Alike(cases[i].invoice, seen[i].invoice)
  BY <1>1 DEF Alike, Matches
<1>4. /\ ValuesOf(cases[i].invoice, Texts) /\ InCents(cases[i].invoice)
      /\ ValuesOf(seen[i].invoice, Texts) /\ TotalTells(seen[i].invoice)
      /\ CodesAreOf(seen[i].codes, seen[i].invoice)
  BY <1>1, <1>2 DEF Evaluable
<1>5. {issue.code : issue \in ValidateInvoice(cases[i].invoice)} = {issue.code : issue \in ValidateInvoice(seen[i].invoice)}
  BY <1>3, <1>4, AlikeCodes DEF Nameable
<1>6. cases[i].codes = seen[i].codes
  BY <1>4, <1>5, Zenon DEF CodesAreOf
<1>7. QED
  BY <1>1, <1>6 DEF ExactCodes

\* The report of any run of one document or more accounts for every field once, and
\* its scores, codes and pairs are what ReportsAddUp says of them.  For fewer than
\* 2500 documents, beyond which a rounded score may be full though a field is not,
\* and for amounts that rounding to cents does not change what the rules say of
\* (evaluation/external_holdout.py).
THEOREM EveryReportAddsUp ==
  ASSUME NEW Texts, Nameable(Texts),
         NEW cases, NEW seen, Evaluable(cases, seen, Texts),
         NEW n \in Nat \ {0}, n < 2500, Len(cases) = n
  PROVE  ReportsAddUp(cases, seen)
<1> DEFINE report == Summary(cases, seen)
<1>1. Observed(cases, seen)
  BY DEF Evaluable
<1>2. /\ report.scores = Scores(cases, seen)
      /\ report.conditional = Scores(OfThose(cases, ReadOnes(seen)), OfThose(seen, ReadOnes(seen)))
      /\ report.taxonomy = Taxonomy(cases, seen)
      /\ report.pairs.lost = ExpectedPairs(cases) \ PredictedPairs(cases, seen)
  BY DEF Summary
<1> HIDE DEF report
<1>3. /\ UNION {report.taxonomy[kind] : kind \in Kinds} = Missed(cases, seen)
      /\ SumFunction([kind \in Kinds |-> Cardinality(report.taxonomy[kind])]) = Cardinality(Missed(cases, seen))
      /\ Cardinality(report.taxonomy.unscored) = 8 * Cardinality(report.taxonomy.provider_error)
  BY <1>1, <1>2, MissedOnce, MissedAddUp
<1>4. /\ report.scores.field_accuracy <= report.conditional.field_accuracy
      /\ report.scores.document_exact <= report.conditional.document_exact
  BY <1>1, <1>2, ReadScores
<1>5. /\ report.scores.validation <= report.scores.blocker
      /\ report.scores.field_accuracy = 10000 <=> ExactDocuments(cases, seen) = DOMAIN cases
  BY <1>1, <1>2, WholeScores
<1>6. ASSUME NEW i \in ExactDocuments(cases, seen),
             cases[i].codes = {issue.code : issue \in ValidateInvoice(cases[i].invoice)}
      PROVE  i \in ExactCodes(cases, seen)
  <2>1. CodesAreOf(cases[i].codes, cases[i].invoice)
    BY <1>6, Zenon DEF CodesAreOf
  <2>2. QED
    BY <2>1, ExactIsGraded
<1>7. ASSUME NEW p \in report.pairs.lost
      PROVE
        \/ seen[p[1]].error \/ seen[p[2]].error
        \/ \E i \in {p[1], p[2]}, f \in {"vendor_name", "invoice_number"} :
             <<i, f>> \notin Matched(cases, seen) \/ cases[i].invoice[f] = None
  <2>1. p \in ExpectedPairs(cases) \ PredictedPairs(cases, seen)
    BY <1>2
  <2>2. QED
    BY <2>1, LostPairs
<1>8. QED
  BY <1>3, <1>4, <1>5, <1>6, <1>7 DEF ReportsAddUp, Kinds, Missed, report

-----------------------------------------------------------------------------
(* The calls of an evaluation.                                              *)

\* A document that was read was parsed and extracted; of the calls for another only
\* the last failed.  A call that succeeded counts what it used.
Called(o) ==
  /\ DOMAIN o.attempts \in {1..1, 1..2}
  /\ ~o.error => DOMAIN o.attempts = 1..2 /\ \A k \in DOMAIN o.attempts : o.attempts[k].status = "succeeded"
  /\ o.error => \E last \in DOMAIN o.attempts : \A k \in DOMAIN o.attempts :
                  o.attempts[k].status = "succeeded" <=> k # last
  /\ \A k \in DOMAIN o.attempts :
       o.attempts[k].status = "succeeded" /\ o.attempts[k].stage = "extractor" =>
         \A kind \in {"input", "cached"} : o.attempts[k].usage[kind] \in Nat

\* Of each document one or two calls are counted, both when none failed.
LEMMA CallsCount ==
  ASSUME NEW seen, NEW n \in Nat, DOMAIN seen = 1..n, \A i \in 1..n : Called(seen[i])
  PROVE  /\ IsFiniteSet(Events(seen)) /\ Succeeded(seen) \in SUBSET Events(seen)
         /\ n <= Cardinality(Events(seen)) /\ Cardinality(Events(seen)) <= 2 * n
         /\ (\A i \in 1..n : ~seen[i].error) => Cardinality(Events(seen)) = 2 * n
<1> DEFINE two == (1..n) \X (1..2)
           one == (1..n) \X (1..1)
           E == Events(seen)
<1>1. IsFiniteSet(1..n) /\ Cardinality(1..n) = n
  BY UpTo
<1>2. IsFiniteSet(1..2) /\ Cardinality(1..2) = 2 /\ IsFiniteSet(1..1) /\ Cardinality(1..1) = 1
  BY UpTo
<1>3. IsFiniteSet(two) /\ Cardinality(two) = n * 2 /\ IsFiniteSet(one) /\ Cardinality(one) = n * 1
  <2>1. ASSUME NEW A, NEW B, IsFiniteSet(A), IsFiniteSet(B)
        PROVE  IsFiniteSet(A \X B) /\ Cardinality(A \X B) = Cardinality(A) * Cardinality(B)
    BY <2>1, FS_Product
  <2>2. IsFiniteSet(two) /\ Cardinality(two) = Cardinality(1..n) * Cardinality(1..2)
    BY <1>1, <1>2, <2>1, Zenon
  <2>3. IsFiniteSet(one) /\ Cardinality(one) = Cardinality(1..n) * Cardinality(1..1)
    BY <1>1, <1>2, <2>1, Zenon
  <2> HIDE DEF one, two
  <2>4. QED
    BY <1>1, <1>2, <2>2, <2>3
<1>4. \A i, k : <<i, k>> \in E <=> i \in 1..n /\ k \in DOMAIN seen[i].attempts
  BY DEF Events
<1>5. \A p \in E : \E i \in 1..n : \E k \in DOMAIN seen[i].attempts : p = <<i, k>>
  BY DEF Events
<1>6. \A i \in 1..n : DOMAIN seen[i].attempts = 1..1 \/ DOMAIN seen[i].attempts = 1..2
  BY DEF Called
<1> HIDE DEF E
<1>7. E \in SUBSET two
  BY <1>5, <1>6
<1>8. one \in SUBSET E
  BY <1>4, <1>6
<1>9. (\A i \in 1..n : ~seen[i].error) => E = two
  <2> SUFFICES ASSUME \A i \in 1..n : ~seen[i].error PROVE two \in SUBSET E
    BY <1>7
  <2>1. \A i \in 1..n : DOMAIN seen[i].attempts = 1..2
    BY DEF Called
  <2>2. QED
    BY <1>4, <2>1
<1> HIDE DEF one, two
<1>10. IsFiniteSet(E) /\ Cardinality(E) <= Cardinality(two) /\ Cardinality(one) <= Cardinality(E)
  BY <1>3, <1>7, <1>8, FS_Subset
<1>11. Cardinality(E) \in Nat
  BY <1>10, FS_CardinalityType
<1>12. Succeeded(seen) \in SUBSET E
  BY DEF Succeeded, E
<1>13. QED
  BY <1>3, <1>9, <1>10, <1>11, <1>12 DEF E

\* As many calls failed as documents were not read.
LEMMA FailedCalls ==
  ASSUME NEW seen, NEW n \in Nat, DOMAIN seen = 1..n, \A i \in 1..n : Called(seen[i])
  PROVE  LET unread == DOMAIN seen \ ReadOnes(seen)
         IN Cardinality(Events(seen)) - Cardinality(Succeeded(seen)) = Cardinality(unread)
            /\ Cardinality(Succeeded(seen)) \in Nat /\ Cardinality(Events(seen)) \in Nat
<1> DEFINE unread == DOMAIN seen \ ReadOnes(seen)
           E == Events(seen)
           S == Succeeded(seen)
           F == E \ S
<1>1. IsFiniteSet(E) /\ S \in SUBSET E
  BY CallsCount
<1>2. \A i : i \in unread <=> i \in 1..n /\ seen[i].error
  BY DEF ReadOnes
<1>3. \A i \in 1..n : \A k \in DOMAIN seen[i].attempts :
        <<i, k>> \in F <=> seen[i].attempts[k].status # "succeeded"
  BY DEF Succeeded, Events, Event
<1>4. \A p \in F : \E i \in 1..n : \E k \in DOMAIN seen[i].attempts : p = <<i, k>>
  BY DEF Events
<1> HIDE DEF unread, F
<1> DEFINE g == [p \in F |-> p[1]]
<1>5. g \in [F -> unread]
  <2> SUFFICES ASSUME NEW p \in F PROVE p[1] \in unread
    OBVIOUS
  <2>1. PICK i \in 1..n : \E k \in DOMAIN seen[i].attempts : p = <<i, k>>
    BY <1>4
  <2>2. PICK k \in DOMAIN seen[i].attempts : p = <<i, k>>
    BY <2>1
  <2>3. seen[i].attempts[k].status # "succeeded"
    BY <1>3, <2>2
  <2>4. seen[i].error
    BY <2>3 DEF Called
  <2>5. QED
    BY <1>2, <2>2, <2>4
<1>6. \A i \in unread : \E p \in F : g[p] = i
  <2> TAKE i \in unread
  <2>1. i \in 1..n /\ seen[i].error
    BY <1>2
  <2>2. PICK k \in DOMAIN seen[i].attempts : seen[i].attempts[k].status # "succeeded"
    BY <2>1 DEF Called
  <2>3. <<i, k>> \in F
    BY <1>3, <2>1, <2>2
  <2>4. g[<<i, k>>] = i
    BY <2>3
  <2>5. QED
    BY <2>3, <2>4
<1>7. \A p, q \in F : g[p] = g[q] => p = q
  <2> SUFFICES ASSUME NEW p \in F, NEW q \in F, g[p] = g[q] PROVE p = q
    OBVIOUS
  <2>1. PICK i \in 1..n : \E k \in DOMAIN seen[i].attempts : p = <<i, k>>
    BY <1>4
  <2>2. PICK j \in 1..n : \E l \in DOMAIN seen[j].attempts : q = <<j, l>>
    BY <1>4
  <2>3. PICK k \in DOMAIN seen[i].attempts : p = <<i, k>>
    BY <2>1
  <2>4. PICK l \in DOMAIN seen[j].attempts : q = <<j, l>>
    BY <2>2
  <2>5. i = j
    BY <2>3, <2>4
  <2>6. seen[i].attempts[k].status # "succeeded" /\ seen[i].attempts[l].status # "succeeded" /\ l \in DOMAIN seen[i].attempts
    BY <1>3, <2>3, <2>4, <2>5
  <2>7. seen[i].error
    BY <2>6 DEF Called
  <2>8. k = l
    BY <2>6, <2>7 DEF Called
  <2>9. QED
    BY <2>3, <2>4, <2>5, <2>8
<1>8. IsFiniteSet(F)
  BY <1>1, FS_Subset DEF F
<1> HIDE DEF g
<1>9. Cardinality(unread) = Cardinality(F)
  BY <1>5, <1>6, <1>7, <1>8, SameSize
<1> HIDE DEF E, S
<1>10. Cardinality(E) = Cardinality(S) + Cardinality(F)
  <2>1. E = S \union F /\ S \intersect F = {} /\ F \in SUBSET E
    BY <1>1 DEF F
  <2>2. QED
    BY <1>1, <2>1, BothKinds
<1>11. Cardinality(E) \in Nat /\ Cardinality(S) \in Nat /\ Cardinality(F) \in Nat
  BY <1>1, <1>8, FS_Subset, FS_CardinalityType
<1>12. QED
  BY <1>9, <1>10, <1>11 DEF unread, E, S

\* What the extractor used adds up to a number.
LEMMA TokensAdd ==
  ASSUME NEW seen, NEW n \in Nat, DOMAIN seen = 1..n, \A i \in 1..n : Called(seen[i])
  PROVE  Usage(seen).input \in Nat /\ Usage(seen).cached \in Nat
<1> DEFINE X == SucceededIn(seen, "extractor")
<1>1. IsFiniteSet(X)
  <2>1. X \in SUBSET Events(seen)
    BY DEF SucceededIn, Succeeded
  <2> HIDE DEF X
  <2>2. QED
    BY <2>1, CallsCount, FS_Subset
<1>2. \A p \in X, kind \in {"input", "cached"} : Event(seen, p).usage[kind] \in Nat
  <2> TAKE p \in X, kind \in {"input", "cached"}
  <2>1. /\ p \in Events(seen) /\ Event(seen, p).status = "succeeded"
        /\ Event(seen, p).stage = "extractor"
    BY DEF SucceededIn, Succeeded
  <2>2. p[1] \in 1..n /\ p[2] \in DOMAIN seen[p[1]].attempts
    BY <2>1 DEF Events
  <2>3. QED
    BY <2>1, <2>2 DEF Called, Event
<1> HIDE DEF X
<1>3. ASSUME NEW kind \in {"input", "cached"} PROVE SumFunction([p \in X |-> Event(seen, p).usage[kind]]) \in Nat
  <2> DEFINE g == [p \in X |-> Event(seen, p).usage[kind]]
  <2>1. g \in [X -> Nat]
    BY <1>2
  <2> HIDE DEF g
  <2>2. SumFunction(g) \in Nat
    BY <1>1, <2>1, SumIsCount
  <2>3. QED
    BY <2>2 DEF g
<1>4. /\ Usage(seen).input = SumFunction([p \in X |-> Event(seen, p).usage["input"]])
      /\ Usage(seen).cached = SumFunction([p \in X |-> Event(seen, p).usage["cached"]])
  BY Zenon DEF Usage, X
<1>5. QED
  BY <1>3, <1>4

\* The calls of any run are those of its documents, and its tokens are charged once
\* (evaluation/provider_costs.py).
THEOREM EveryCallAddsUp ==
  ASSUME NEW seen, NEW n \in Nat, seen \in Seq({seen[i] : i \in DOMAIN seen}), Len(seen) = n,
         \A i \in 1..n : Called(seen[i])
  PROVE  CallsAddUp(seen)
<1> DEFINE economics == Economics(seen, TRUE)
           total == Cardinality(Events(seen))
           succeeded == Cardinality(Succeeded(seen))
           unread == DOMAIN seen \ ReadOnes(seen)
           given == Usage(seen).input
           cached == Usage(seen).cached
           tokens == TokenCost(Usage(seen))
<1>1. DOMAIN seen = 1..n
  BY LenProperties
<1>2. /\ n <= total /\ total <= 2 * n
      /\ (\A i \in 1..n : ~seen[i].error) => total = 2 * n
  BY <1>1, CallsCount
<1>3. total - succeeded = Cardinality(unread) /\ succeeded \in Nat /\ total \in Nat
  BY <1>1, FailedCalls
<1>4. Cardinality(unread) = 0 => \A i \in 1..n : ~seen[i].error
  <2>1. IsFiniteSet(unread)
    <3>1. IsFiniteSet(DOMAIN seen)
      BY <1>1, UpTo
    <3>2. QED
      BY <3>1, FS_Subset
  <2>2. Cardinality(unread) = 0 => unread = {}
    BY <2>1, FS_EmptySet
  <2>3. QED
    BY <1>1, <2>2 DEF ReadOnes
<1>5. tokens.input + 10 * tokens.cached = 750 * given
  <2>1. given \in Nat /\ cached \in Nat
    BY <1>1, TokensAdd
  <2>2. PICK c \in Nat : tokens.input = (given - c) * 750 /\ tokens.cached = c * 75
    <3>1. /\ tokens.input = (given - (IF cached <= given THEN cached ELSE given)) * 750
          /\ tokens.cached = (IF cached <= given THEN cached ELSE given) * 75
      BY DEF TokenCost
    <3> HIDE DEF tokens, given, cached
    <3>2. QED
      BY <2>1, <3>1
  <2> HIDE DEF tokens, given, cached
  <2>3. QED
    BY <2>1, <2>2
<1>6. /\ economics.total = total /\ economics.succeeded = succeeded /\ economics.failed = total - succeeded
      /\ economics.usage = Usage(seen) /\ economics.cost.tokens = tokens
  BY DEF Economics
<1> HIDE DEF economics, total, succeeded, unread, tokens
<1>7. /\ economics.total = economics.succeeded + economics.failed
      /\ economics.failed = Cardinality(unread)
      /\ n <= economics.total /\ economics.total <= 2 * n
      /\ economics.failed = 0 => economics.total = 2 * n
  BY <1>2, <1>3, <1>4, <1>6
<1>8. economics.cost.tokens.input + 10 * economics.cost.tokens.cached = 750 * economics.usage.input
  BY <1>5, <1>6
<1>9. QED
  BY <1>7, <1>8 DEF CallsAddUp, economics, unread

-----------------------------------------------------------------------------
(* The evaluation page: its runs, the one shown and what it is compared with.*)

\* Min is in a set of natural numbers and bounds it.
LEMMA LeastIs ==
  ASSUME NEW S \in SUBSET Nat, S # {}
  PROVE  Min(S) \in S /\ \A m \in S : Min(S) <= m
<1>1. PICK k \in S : \A m \in S : k <= m
  BY Smallest
<1>2. QED
  BY <1>1 DEF Min

\* The place of a run, if there is one.
LEMMA PlaceIs ==
  ASSUME NEW S \in SUBSET (Nat \ {0})
  PROVE  /\ S = {} => PlaceOf(S) = 0
         /\ S # {} => PlaceOf(S) \in S /\ PlaceOf(S) # 0 /\ \A m \in S : PlaceOf(S) <= m
<1>1. S \in SUBSET Nat
  OBVIOUS
<1>2. S # {} => Min(S) \in S /\ \A m \in S : Min(S) <= m
  BY <1>1, LeastIs
<1>3. QED
  BY <1>2 DEF PlaceOf

\* after lists the places of seq, each once, by what was observed at them.
Arranged(seq, n, order, sorted) ==
  /\ order \in [1..n -> 1..n]
  /\ \A i \in 1..n : \E k \in 1..n : order[k] = i
  /\ \A k, l \in 1..n : order[k] = order[l] => k = l
  /\ sorted = [k \in 1..n |-> seq[order[k]]]

\* The newest-first order is a rearrangement by what was observed.
LEMMA NewestFirstIs ==
  ASSUME NEW seq, NEW n \in Nat, DOMAIN seq = 1..n, \A i \in 1..n : seq[i].observed \in Int
  PROVE  \E order : /\ Arranged(seq, n, order, NewestFirst(seq))
                    /\ \A k, l \in 1..n : k < l => seq[order[l]].observed <= seq[order[k]].observed
<1> DEFINE before == Newer(seq)
           order == InOrder(1..n, before)
<1>1. \A i, j \in 1..n : <<i, j>> \in before <=> \/ seq[i].observed > seq[j].observed
                                                \/ (seq[i].observed = seq[j].observed /\ i < j)
  BY DEF Newer, PlacePairs
<1> HIDE DEF before
<1>2. Orders(before, 1..n)
  <2>1. \A i \in 1..n : <<i, i>> \notin before
    BY <1>1
  <2>2. \A i, j \in 1..n : i # j => <<i, j>> \in before \/ <<j, i>> \in before
    BY <1>1
  <2>3. \A i, j, k \in 1..n : <<i, j>> \in before /\ <<j, k>> \in before => <<i, k>> \in before
    <3> TAKE i, j, k \in 1..n
    <3>1. PICK a, b, c \in Int : a = seq[i].observed /\ b = seq[j].observed /\ c = seq[k].observed
      OBVIOUS
    <3>2. i \in Int /\ j \in Int /\ k \in Int
      OBVIOUS
    <3>3. QED
      BY <1>1, <3>1, <3>2
  <2>4. QED
    BY <2>1, <2>2, <2>3 DEF Orders
<1>3. IsFiniteSet(1..n) /\ Cardinality(1..n) = n
  BY UpTo
<1>4. Lists(order, 1..n, before)
  BY <1>2, <1>3, InOrderLists
<1>5. NewestFirst(seq) = [k \in 1..n |-> seq[order[k]]]
  BY DEF NewestFirst, Sorted, before
<1> HIDE DEF order
<1>6. Arranged(seq, n, order, NewestFirst(seq))
  BY <1>3, <1>4, <1>5 DEF Lists, Arranged
<1>7. ASSUME NEW k \in 1..n, NEW l \in 1..n, k < l PROVE seq[order[l]].observed <= seq[order[k]].observed
  <2>1. order[k] \in 1..n /\ order[l] \in 1..n /\ <<order[k], order[l]>> \in before
    BY <1>3, <1>4, <1>7 DEF Lists
  <2>2. PICK i \in 1..n, j \in 1..n : i = order[k] /\ j = order[l]
    BY <2>1
  <2>3. seq[i].observed > seq[j].observed \/ seq[i].observed = seq[j].observed
    BY <1>1, <2>1, <2>2
  <2>4. QED
    BY <2>2, <2>3
<1>8. QED
  BY <1>6, <1>7

\* And the oldest-first order, the other way round.
LEMMA OldestFirstIs ==
  ASSUME NEW seq, NEW n \in Nat, DOMAIN seq = 1..n, \A i \in 1..n : seq[i].observed \in Int
  PROVE  \E order : /\ Arranged(seq, n, order, OldestFirst(seq))
                    /\ \A k, l \in 1..n : k < l => seq[order[k]].observed <= seq[order[l]].observed
<1> DEFINE before == Older(seq)
           order == InOrder(1..n, before)
<1>1. \A i, j \in 1..n : <<i, j>> \in before <=> \/ seq[i].observed < seq[j].observed
                                                \/ (seq[i].observed = seq[j].observed /\ i < j)
  BY DEF Older, PlacePairs
<1> HIDE DEF before
<1>2. Orders(before, 1..n)
  <2>1. \A i \in 1..n : <<i, i>> \notin before
    BY <1>1
  <2>2. \A i, j \in 1..n : i # j => <<i, j>> \in before \/ <<j, i>> \in before
    BY <1>1
  <2>3. \A i, j, k \in 1..n : <<i, j>> \in before /\ <<j, k>> \in before => <<i, k>> \in before
    <3> TAKE i, j, k \in 1..n
    <3>1. PICK a, b, c \in Int : a = seq[i].observed /\ b = seq[j].observed /\ c = seq[k].observed
      OBVIOUS
    <3>2. i \in Int /\ j \in Int /\ k \in Int
      OBVIOUS
    <3>3. QED
      BY <1>1, <3>1, <3>2
  <2>4. QED
    BY <2>1, <2>2, <2>3 DEF Orders
<1>3. IsFiniteSet(1..n) /\ Cardinality(1..n) = n
  BY UpTo
<1>4. Lists(order, 1..n, before)
  BY <1>2, <1>3, InOrderLists
<1>5. OldestFirst(seq) = [k \in 1..n |-> seq[order[k]]]
  BY DEF OldestFirst, Sorted, before
<1> HIDE DEF order
<1>6. Arranged(seq, n, order, OldestFirst(seq))
  BY <1>3, <1>4, <1>5 DEF Lists, Arranged
<1>7. ASSUME NEW k \in 1..n, NEW l \in 1..n, k < l PROVE seq[order[k]].observed <= seq[order[l]].observed
  <2>1. order[k] \in 1..n /\ order[l] \in 1..n /\ <<order[k], order[l]>> \in before
    BY <1>3, <1>4, <1>7 DEF Lists
  <2>2. PICK i \in 1..n, j \in 1..n : i = order[k] /\ j = order[l]
    BY <2>1
  <2>3. seq[i].observed < seq[j].observed \/ seq[i].observed = seq[j].observed
    BY <1>1, <2>1, <2>2
  <2>4. QED
    BY <2>2, <2>3
<1>8. QED
  BY <1>6, <1>7

\* A report counts in whole numbers.
WellReported(report) ==
  /\ report.observed \in Int /\ report.failures \in Int
  /\ \A f \in DOMAIN report.by_field : report.by_field[f] \in Int

\* A fingerprint is of one version of one split.
Fingerprinted(R) ==
  \A a, b \in R : a.fingerprint = b.fingerprint /\ a.fingerprint # None =>
    a.dataset = b.dataset /\ a.version = b.version /\ a.split = b.split

\* The runs of a page: of this workspace or of none, each once, the newest first, and
\* comparable only if of one version of one split.
GoodRuns(runs, n, workspace) ==
  /\ runs = [k \in 1..n |-> runs[k]]
  /\ \A k \in 1..n : WellReported(runs[k]) /\ runs[k].workspace \in {None, workspace}
  /\ \A k, l \in 1..n : runs[k].id = runs[l].id => k = l
  /\ \A k, l \in 1..n : k < l => runs[l].observed <= runs[k].observed
  /\ \A k, l \in 1..n : runs[k].compare = runs[l].compare =>
       /\ runs[k].dataset = runs[l].dataset /\ runs[k].version = runs[l].version
       /\ runs[k].split = runs[l].split

\* What a normalized report says.
LEMMA NormalIs ==
  ASSUME NEW R, Fingerprinted(R), NEW a \in R
  PROVE  /\ WellReported(a) => WellReported(NormalizeReport(a))
         /\ NormalizeReport(a).id = a.id /\ NormalizeReport(a).workspace = a.workspace
         /\ \A b \in R : NormalizeReport(a).compare = NormalizeReport(b).compare =>
              /\ NormalizeReport(a).dataset = NormalizeReport(b).dataset
              /\ NormalizeReport(a).version = NormalizeReport(b).version
              /\ NormalizeReport(a).split = NormalizeReport(b).split
<1>1. \A r : /\ NormalizeReport(r).id = r.id /\ NormalizeReport(r).workspace = r.workspace
             /\ NormalizeReport(r).observed = r.observed /\ NormalizeReport(r).failures = r.failures
             /\ NormalizeReport(r).by_field = r.by_field /\ NormalizeReport(r).dataset = r.dataset
             /\ NormalizeReport(r).version = r.version /\ NormalizeReport(r).split = r.split
  BY DEF NormalizeReport
<1>2. \A r : NormalizeReport(r).compare = IF r.fingerprint # None THEN <<r.fingerprint>>
                                          ELSE <<r.dataset, r.version, r.split>>
  BY DEF NormalizeReport
<1>3. WellReported(a) => WellReported(NormalizeReport(a))
  BY <1>1 DEF WellReported
<1>4. ASSUME NEW b \in R, NormalizeReport(a).compare = NormalizeReport(b).compare
      PROVE  a.dataset = b.dataset /\ a.version = b.version /\ a.split = b.split
  <2>1. (IF a.fingerprint # None THEN <<a.fingerprint>> ELSE <<a.dataset, a.version, a.split>>)
          = (IF b.fingerprint # None THEN <<b.fingerprint>> ELSE <<b.dataset, b.version, b.split>>)
    BY <1>2, <1>4
  <2>2. \A x, y, z, w : <<x>> # <<y, z, w>>
    <3> TAKE x, y, z, w
    <3>1. 3 \in DOMAIN <<y, z, w>> /\ 3 \notin DOMAIN <<x>>
      OBVIOUS
    <3>2. QED
      BY <3>1
  <2>3. CASE a.fingerprint # None
    <3>1. b.fingerprint # None
      BY <2>1, <2>2, <2>3
    <3>2. <<a.fingerprint>> = <<b.fingerprint>>
      BY <2>1, <2>3, <3>1
    <3>3. a.fingerprint = b.fingerprint
      BY <3>2
    <3>4. QED
      BY <2>3, <3>3 DEF Fingerprinted
  <2>4. CASE a.fingerprint = None
    <3>1. b.fingerprint = None
      BY <2>1, <2>2, <2>4
    <3>2. <<a.dataset, a.version, a.split>> = <<b.dataset, b.version, b.split>>
      BY <2>1, <2>4, <3>1
    <3>3. QED
      BY <3>2
  <2>5. QED
    BY <2>3, <2>4
<1>5. QED
  BY <1>1, <1>3, <1>4

\* Rearranging the normalized reports, no two of which have one id, gives the runs.
LEMMA RunsOfUnique ==
  ASSUME NEW R, Fingerprinted(R), \A r \in R : WellReported(r), NEW workspace,
         NEW n \in Nat, NEW unique, NEW report \in [1..n -> R],
         unique = [k \in 1..n |-> NormalizeReport(report[k])],
         \A k \in 1..n : report[k].workspace \in {None, workspace},
         \A k, l \in 1..n : report[k].id = report[l].id => k = l
  PROVE  GoodRuns(NewestFirst(unique), n, workspace)
<1> DEFINE runs == NewestFirst(unique)
<1>1. DOMAIN unique = 1..n /\ \A i \in 1..n : unique[i] = NormalizeReport(report[i]) /\ report[i] \in R
  OBVIOUS
<1>2. \A i \in 1..n : /\ WellReported(unique[i]) /\ unique[i].workspace \in {None, workspace}
                      /\ unique[i].id = report[i].id
  BY <1>1, NormalIs
<1>3. \A i, j \in 1..n : unique[i].compare = unique[j].compare =>
        /\ unique[i].dataset = unique[j].dataset /\ unique[i].version = unique[j].version
        /\ unique[i].split = unique[j].split
  BY <1>1, NormalIs
<1>4. \A i \in 1..n : unique[i].observed \in Int
  BY <1>2 DEF WellReported
<1>5. PICK order : /\ Arranged(unique, n, order, NewestFirst(unique))
                   /\ \A k, l \in 1..n : k < l => unique[order[l]].observed <= unique[order[k]].observed
  BY <1>1, <1>4, NewestFirstIs
<1>6. /\ runs = [k \in 1..n |-> unique[order[k]]]
      /\ \A k, l \in 1..n : order[k] = order[l] => k = l
      /\ \A k \in 1..n : order[k] \in 1..n
  BY <1>5 DEF Arranged
<1> HIDE DEF runs
<1>7. runs = [k \in 1..n |-> runs[k]] /\ \A k \in 1..n : runs[k] = unique[order[k]] /\ order[k] \in 1..n
  BY <1>6
<1>8. \A k \in 1..n : WellReported(runs[k]) /\ runs[k].workspace \in {None, workspace}
  BY <1>2, <1>7
<1>9. \A k, l \in 1..n : runs[k].id = runs[l].id => k = l
  <2> TAKE k, l \in 1..n
  <2> HAVE runs[k].id = runs[l].id
  <2>1. report[order[k]].id = report[order[l]].id
    BY <1>2, <1>7
  <2>2. order[k] = order[l]
    BY <1>7, <2>1
  <2>3. QED
    BY <1>6, <2>2
<1>10. \A k, l \in 1..n : k < l => runs[l].observed <= runs[k].observed
  BY <1>5, <1>7
<1>11. \A k, l \in 1..n : runs[k].compare = runs[l].compare =>
         /\ runs[k].dataset = runs[l].dataset /\ runs[k].version = runs[l].version
         /\ runs[k].split = runs[l].split
  <2> TAKE k, l \in 1..n
  <2> HAVE runs[k].compare = runs[l].compare
  <2>1. PICK i \in 1..n, j \in 1..n : i = order[k] /\ j = order[l]
    BY <1>7
  <2>2. runs[k] = unique[i] /\ runs[l] = unique[j]
    BY <1>7, <2>1
  <2>3. QED
    BY <1>3, <2>2
<1>12. QED
  BY <1>7, <1>8, <1>9, <1>10, <1>11 DEF GoodRuns, runs

\* The first of a history, up to a number, are of that history.
LEMMA FirstAre ==
  ASSUME NEW R, NEW s \in Seq(R), NEW limit \in Nat
  PROVE  SubSeq(s, 1, Min({Len(s), limit})) \in Seq(R)
<1> DEFINE n == Len(s)
           m == Min({n, limit})
<1>1. n \in Nat
  BY LenProperties
<1> HIDE DEF n
<1>2. m \in Nat /\ m <= n
  <2>1. n <= limit => Min({n, limit}) = n
    BY <1>1, SmallerOfTwo
  <2>2. limit <= n => Min({n, limit}) = limit
    BY <1>1, SmallerOfTwo
  <2>3. n <= limit \/ limit <= n
    BY <1>1
  <2>4. QED
    BY <1>1, <2>1, <2>2, <2>3
<1> HIDE DEF m
<1>3. SubSeq(s, 1, m) \in Seq(R)
  BY <1>2, Stretch DEF n
<1>4. QED
  BY <1>3 DEF n, m

\* What a sequence has at some of its places is of the same kind.
LEMMA ThoseOf ==
  ASSUME NEW R, NEW s \in Seq(R), NEW places \in SUBSET DOMAIN s
  PROVE  OfThose(s, places) \in Seq({r \in R : \E i \in places : s[i] = r})
<1>1. Len(s) \in Nat /\ DOMAIN s = 1..Len(s) /\ \A i \in DOMAIN s : s[i] \in R
  BY LenProperties
<1>2. IsFiniteSet(places) /\ places \in SUBSET Nat
  <2>1. IsFiniteSet(DOMAIN s)
    BY <1>1, UpTo
  <2>2. QED
    BY <1>1, <2>1, FS_Subset
<1> DEFINE those == OfThose(s, places)
           m == Cardinality(places)
           Q == {r \in R : \E i \in places : s[i] = r}
<1>3. m \in Nat
  BY <1>2, FS_CardinalityType
<1>4. DOMAIN those = 1..m /\ those \in Seq({those[k] : k \in DOMAIN those}) /\ Len(those) = m
      /\ \A k \in 1..m : those[k] = s[Upwards(places)[k]]
  BY <1>2, ThoseAre
<1>5. \A k \in 1..m : Upwards(places)[k] \in places
  BY <1>2, UpwardsLists
<1> HIDE DEF those, m
<1>6. \A k \in 1..m : those[k] \in Q
  BY <1>1, <1>4, <1>5
<1> HIDE DEF Q
<1>7. those \in [1..m -> Q]
  <2>1. those = [k \in 1..m |-> those[k]]
    BY <1>4, LenProperties
  <2>2. QED
    BY <1>6, <2>1
<1>8. those \in Seq(Q)
  BY <1>3, <1>7
<1>9. QED
  BY <1>8 DEF those, Q

\* The runs of a page are good, whatever the reports and the history.
LEMMA AllRunsAreGood ==
  ASSUME NEW R, Fingerprinted(R), \A r \in R : WellReported(r), NEW workspace,
         NEW public \in Seq(R), NEW past \in Seq(R),
         \A i \in DOMAIN public : public[i].workspace \in {None, workspace}
  PROVE  \E n \in Nat : GoodRuns(AllRuns(public, past, workspace), n, workspace)
<1> DEFINE recent == SubSeq(past, 1, Min({Len(past), HistoryLimit}))
           mine == {i \in DOMAIN recent : recent[i].workspace \in {None, workspace}}
           all == public \o OfThose(recent, mine)
           firsts == {i \in DOMAIN all : \A j \in 1..(i - 1) : all[j].id # all[i].id}
           last(i) == Max({j \in DOMAIN all : all[j].id = all[i].id})
           order == Upwards(firsts)
           unique == [k \in DOMAIN order |-> NormalizeReport(all[last(order[k])])]
           Q == {r \in R : r.workspace \in {None, workspace}}
<1>1. AllRuns(public, past, workspace) = NewestFirst(unique)
  BY DEF AllRuns
<1>2. recent \in Seq(R)
  BY FirstAre DEF HistoryLimit
<1>3. all \in Seq(Q)
  <2>1. public \in Seq(Q)
    <3>1. Len(public) \in Nat /\ DOMAIN public = 1..Len(public) /\ \A i \in DOMAIN public : public[i] \in R
      BY LenProperties
    <3>2. public \in [1..Len(public) -> Q]
      BY <3>1, LenProperties
    <3>3. QED
      BY <3>1, <3>2
  <2>2. OfThose(recent, mine) \in Seq({r \in R : \E i \in mine : recent[i] = r})
    <3> DEFINE places == mine
    <3>1. places \in SUBSET DOMAIN recent
      OBVIOUS
    <3> HIDE DEF places, recent
    <3>2. QED
      BY <1>2, <3>1, ThoseOf DEF places
  <2>3. {r \in R : \E i \in mine : recent[i] = r} \in SUBSET Q
    OBVIOUS
  <2> DEFINE those == OfThose(recent, mine)
             P == {r \in R : \E i \in mine : recent[i] = r}
  <2> HIDE DEF those, P, Q
  <2>4. those \in Seq(Q)
    <3>1. those \in Seq(P) /\ P \in SUBSET Q
      BY <2>2, <2>3 DEF those, P
    <3>2. QED
      BY <3>1
  <2>5. public \o those \in Seq(Q)
    BY <2>1, <2>4
  <2>6. QED
    BY <2>5 DEF those
<1> HIDE DEF recent, mine, all
<1>4. PICK m \in Nat : m = Len(all) /\ DOMAIN all = 1..m /\ \A i \in 1..m : all[i] \in Q
  BY <1>3, LenProperties
<1>5. \A i \in 1..m : last(i) \in 1..m /\ all[last(i)].id = all[i].id
  <2> TAKE i \in 1..m
  <2> DEFINE S == {j \in DOMAIN all : all[j].id = all[i].id}
  <2>1. S \in SUBSET (1..m) /\ i \in S /\ \A j \in S : all[j].id = all[i].id
    BY <1>4
  <2> HIDE DEF S
  <2>2. Max(S) \in S
    BY <2>1, Largest
  <2>3. QED
    BY <2>1, <2>2 DEF S
<1>6. IsFiniteSet(firsts) /\ firsts \in SUBSET Nat /\ firsts \in SUBSET (1..m)
  <2>1. firsts \in SUBSET (1..m)
    BY <1>4
  <2> HIDE DEF firsts
  <2>2. IsFiniteSet(firsts)
    BY <2>1, UpTo, FS_Subset
  <2>3. QED
    BY <2>1, <2>2
<1>7. \A i, j \in firsts : all[i].id = all[j].id => i = j
  <2> SUFFICES ASSUME NEW i \in firsts, NEW j \in firsts, all[i].id = all[j].id, i < j PROVE FALSE
    BY <1>6
  <2>1. i \in 1..(j - 1)
    BY <1>6
  <2>2. QED
    BY <2>1
<1> DEFINE n == Cardinality(firsts)
           report == [k \in 1..n |-> all[last(order[k])]]
<1> HIDE DEF firsts, last
<1>8. n \in Nat /\ order \in [1..n -> firsts] /\ \A k, l \in 1..n : order[k] = order[l] => k = l
  BY <1>6, UpwardsLists, FS_CardinalityType
<1> HIDE DEF n, order, Q
<1>9. \A k \in 1..n : order[k] \in 1..m /\ order[k] \in firsts
  BY <1>6, <1>8
<1>10. \A k \in 1..n : report[k] \in Q /\ report[k].id = all[order[k]].id
  BY <1>4, <1>5, <1>9
<1>11. report \in [1..n -> R] /\ \A k \in 1..n : report[k].workspace \in {None, workspace}
  BY <1>10 DEF Q
<1>12. \A k, l \in 1..n : report[k].id = report[l].id => k = l
  BY <1>7, <1>8, <1>9, <1>10
<1>13. unique = [k \in 1..n |-> NormalizeReport(report[k])]
  BY <1>8
<1> HIDE DEF unique, report
<1>14. GoodRuns(NewestFirst(unique), n, workspace)
  BY <1>8, <1>11, <1>12, <1>13, RunsOfUnique
<1>15. QED
  BY <1>1, <1>8, <1>14

\* The fields in one state.
InState(before, now, s) == {f \in EvaluatedFields : FieldStatus(now, before, f) = s}

\* Whole numbers by field, of the fields that have one.
ByFields(shares) == \A f \in DOMAIN shares : shares[f] \in Int

\* Each field is in one state, and turned round the improved ones are the regressed.
LEMMA StatesOfFields ==
  ASSUME NEW now, NEW before, ByFields(now), ByFields(before)
  PROVE  /\ \A f \in EvaluatedFields : FieldStatus(now, before, f) \in FieldState
         /\ \A f \in EvaluatedFields : FieldStatus(before, now, f) = "improved" <=> FieldStatus(now, before, f) = "regressed"
         /\ \A f \in EvaluatedFields : f \notin DOMAIN before => FieldStatus(now, before, f) \in {"new", "excluded"}
<1>1. \A f : FieldStatus(now, before, f) \in FieldState
  BY DEF FieldStatus, FieldState
<1>2. \A f : f \notin DOMAIN before => FieldStatus(now, before, f) \in {"new", "excluded"}
  BY DEF FieldStatus
<1>3. ASSUME NEW f
      PROVE FieldStatus(before, now, f) = "improved" <=> FieldStatus(now, before, f) = "regressed"
  <2>1. CASE f \in DOMAIN now /\ f \in DOMAIN before
    <3>1. PICK a \in Int, b \in Int : a = now[f] /\ b = before[f]
      BY <2>1 DEF ByFields
    <3>2. FieldStatus(before, now, f) = "improved" <=> b > a + 50
      BY <2>1, <3>1 DEF FieldStatus, RegressionTolerance
    <3>3. FieldStatus(now, before, f) = "regressed" <=> (a < b - 50 /\ ~(a > b + 50))
      BY <2>1, <3>1 DEF FieldStatus, RegressionTolerance
    <3>4. b > a + 50 <=> (a < b - 50 /\ ~(a > b + 50))
      OBVIOUS
    <3>5. QED
      BY <3>2, <3>3, <3>4
  <2>2. CASE ~(f \in DOMAIN now /\ f \in DOMAIN before)
    <3>1. FieldStatus(before, now, f) \in {"new", "excluded"}
      BY <2>2 DEF FieldStatus
    <3>2. FieldStatus(now, before, f) \in {"new", "excluded"}
      BY <2>2 DEF FieldStatus
    <3>3. QED
      BY <3>1, <3>2
  <2>3. QED
    BY <2>1, <2>2
<1>4. QED
  BY <1>1, <1>2, <1>3

\* There are five states.
LEMMA FiveStates == IsFiniteSet(FieldState)
<1>1. IsFiniteSet({"improved"}) /\ IsFiniteSet({"improved"} \union {"stable"})
  BY FS_Singleton, FS_AddElement
<1>2. IsFiniteSet(({"improved"} \union {"stable"}) \union {"regressed"})
  BY <1>1, FS_AddElement
<1>3. IsFiniteSet((({"improved"} \union {"stable"}) \union {"regressed"}) \union {"new"})
  BY <1>2, FS_AddElement
<1>4. IsFiniteSet(((({"improved"} \union {"stable"}) \union {"regressed"}) \union {"new"}) \union {"excluded"})
  BY <1>3, FS_AddElement
<1>5. FieldState = ((({"improved"} \union {"stable"}) \union {"regressed"}) \union {"new"}) \union {"excluded"}
  BY DEF FieldState
<1>6. QED
  BY <1>4, <1>5

\* The fields of the states are the eight fields, each once.
LEMMA StatesAddUp ==
  ASSUME NEW now, NEW before, ByFields(now), ByFields(before),
         NEW fields, fields = [s \in FieldState |-> InState(before, now, s)]
  PROVE  /\ UNION {fields[s] : s \in FieldState} = EvaluatedFields
         /\ SumFunction([s \in FieldState |-> Cardinality(fields[s])]) = 8
<1> DEFINE g == [s \in FieldState |-> Cardinality(fields[s])]
<1>1. \A s \in FieldState : fields[s] = InState(before, now, s)
  OBVIOUS
<1>2. UNION {fields[s] : s \in FieldState} = EvaluatedFields
  <2>1. \A s \in FieldState : fields[s] \in SUBSET EvaluatedFields
    BY <1>1 DEF InState
  <2>2. \A f \in EvaluatedFields : \E s \in FieldState : f \in fields[s]
    BY <1>1, StatesOfFields DEF InState
  <2>3. QED
    BY <2>1, <2>2
<1>3. Apart(fields, FieldState)
  <2>1. \A s \in FieldState : IsFiniteSet(fields[s])
    <3> TAKE s \in FieldState
    <3>1. fields[s] \in SUBSET EvaluatedFields
      BY <1>1 DEF InState
    <3>2. QED
      BY <3>1, EightFields, FS_Subset
  <2>2. \A a, b \in FieldState : a # b => fields[a] \intersect fields[b] = {}
    BY <1>1 DEF InState
  <2>3. QED
    BY <2>1, <2>2 DEF Apart
<1>4. DOMAIN g = FieldState /\ \A s \in FieldState : g[s] = Cardinality(fields[s])
  OBVIOUS
<1>5. Union(fields, FieldState) = EvaluatedFields
  BY <1>2 DEF Union
<1>6. SumFunction(g) = Cardinality(EvaluatedFields)
  <2> HIDE DEF g
  <2> QED
    BY <1>3, <1>4, <1>5, FiveStates, SumOfParts
<1>7. QED
  BY <1>2, <1>6, EightFields

\* The run shown is compared with the newest earlier comparable one, if there is one.
LEMMA PreviousIs ==
  ASSUME NEW runs, NEW n \in Nat, NEW workspace, GoodRuns(runs, n, workspace), NEW selected \in 1..n,
         NEW previous, previous = PreviousComparable(runs, selected)
  PROVE  /\ previous = 0 \/ previous \in 1..n
         /\ \A i \in DOMAIN runs :
              (runs[i].compare = runs[selected].compare /\ runs[i].observed < runs[selected].observed)
                => previous # 0 /\ runs[i].observed <= runs[previous].observed
         /\ previous # 0 =>
              /\ runs[previous].observed < runs[selected].observed
              /\ runs[previous].compare = runs[selected].compare
<1> DEFINE S == {i \in DOMAIN runs : /\ runs[i].compare = runs[selected].compare
                                     /\ runs[i].observed < runs[selected].observed}
<1>1. DOMAIN runs = 1..n /\ \A k, l \in 1..n : k < l => runs[l].observed <= runs[k].observed
  BY DEF GoodRuns
<1>2. \A k \in 1..n : runs[k].observed \in Int
  BY DEF GoodRuns, WellReported
<1>3. previous = PlaceOf(S)
  BY DEF PreviousComparable
<1>4. S \in SUBSET (1..n)
  BY <1>1
<1>5. \A i \in S : runs[i].compare = runs[selected].compare /\ runs[i].observed < runs[selected].observed
  OBVIOUS
<1>6. \A i \in DOMAIN runs :
        (runs[i].compare = runs[selected].compare /\ runs[i].observed < runs[selected].observed) => i \in S
  OBVIOUS
<1> HIDE DEF S
<1>7. /\ S = {} => previous = 0
      /\ S # {} => previous \in S /\ previous # 0 /\ \A m \in S : previous <= m
  <2>1. S \in SUBSET (Nat \ {0})
    BY <1>4
  <2>2. QED
    BY <1>3, <2>1, PlaceIs
<1>8. \A i \in S : previous # 0 /\ runs[i].observed <= runs[previous].observed
  <2> TAKE i \in S
  <2>1. previous \in S /\ previous # 0 /\ previous <= i /\ i \in 1..n /\ previous \in 1..n
    BY <1>4, <1>7
  <2>2. CASE previous = i
    BY <1>2, <2>1, <2>2
  <2>3. CASE previous < i
    BY <1>1, <2>1, <2>3
  <2>4. QED
    BY <2>1, <2>2, <2>3
<1>9. previous # 0 => previous \in S
  BY <1>7
<1>10. QED
  BY <1>4, <1>5, <1>6, <1>7, <1>8, <1>9

\* The comparison tells what it should, of any runs.
LEMMA PreviousTells ==
  ASSUME NEW runs, NEW n \in Nat, NEW workspace, GoodRuns(runs, n, workspace), NEW selected \in 1..n,
         NEW previous, previous = PreviousComparable(runs, selected)
  PROVE  ComparisonTells(runs, selected, previous)
<1> DEFINE none == << >>
           before == IF previous = 0 THEN none ELSE runs[previous].by_field
           now == runs[selected].by_field
           comparison == FieldComparison(runs, selected, previous)
<1>1. /\ previous = 0 \/ previous \in 1..n
      /\ \A i \in DOMAIN runs :
           (runs[i].compare = runs[selected].compare /\ runs[i].observed < runs[selected].observed)
             => previous # 0 /\ runs[i].observed <= runs[previous].observed
      /\ previous # 0 =>
           /\ runs[previous].observed < runs[selected].observed
           /\ runs[previous].compare = runs[selected].compare
  BY PreviousIs
<1>2. \A k \in 1..n : ByFields(runs[k].by_field) /\ runs[k].failures \in Int
  BY DEF GoodRuns, WellReported, ByFields
<1>3. DOMAIN none = {}
  OBVIOUS
<1>4. ByFields(now) /\ ByFields(before)
  BY <1>1, <1>2, <1>3 DEF ByFields
<1>5. comparison = [fields |-> [s \in FieldState |-> InState(before, now, s)],
                    new_failures |-> IF previous = 0 THEN None ELSE runs[selected].failures - runs[previous].failures]
  BY Zenon DEF FieldComparison, InState
<1> DEFINE fields == comparison.fields
<1>6. fields = [s \in FieldState |-> InState(before, now, s)]
  BY <1>5
<1>7. previous # 0 => comparison.new_failures = runs[selected].failures - runs[previous].failures
  BY <1>5
<1>8. previous = 0 => \A s \in {"improved", "stable", "regressed"} : fields[s] = {}
  <2> SUFFICES ASSUME previous = 0, NEW s \in {"improved", "stable", "regressed"} PROVE fields[s] = {}
    OBVIOUS
  <2>1. DOMAIN before = {} /\ s \in FieldState
    BY <1>3 DEF FieldState
  <2> HIDE DEF before, now, fields
  <2>2. fields[s] = InState(before, now, s)
    BY <1>6, <2>1
  <2>3. \A f \in EvaluatedFields : FieldStatus(now, before, f) # s
    BY <1>4, <2>1, StatesOfFields
  <2>4. QED
    BY <2>2, <2>3 DEF InState
<1>9. /\ UNION {fields[s] : s \in FieldState} = EvaluatedFields
      /\ SumFunction([s \in FieldState |-> Cardinality(fields[s])]) = 8
  <2> HIDE DEF fields, before, now
  <2> QED
    BY <1>4, <1>6, StatesAddUp
<1>10. ASSUME previous # 0
       PROVE  /\ <<runs[previous].dataset, runs[previous].version, runs[previous].split>>
                   = <<runs[selected].dataset, runs[selected].version, runs[selected].split>>
              /\ \A reverse \in {FieldComparison(runs, previous, selected)} :
                   /\ reverse.fields["improved"] = fields["regressed"]
                   /\ reverse.new_failures = 0 - comparison.new_failures
  <2>1. previous \in 1..n
    BY <1>1, <1>10
  <2>2. <<runs[previous].dataset, runs[previous].version, runs[previous].split>>
          = <<runs[selected].dataset, runs[selected].version, runs[selected].split>>
    BY <1>1, <1>10, <2>1 DEF GoodRuns
  <2>3. before = runs[previous].by_field
    BY <1>10
  <2> DEFINE reverse == FieldComparison(runs, previous, selected)
  <2>4. selected # 0
    OBVIOUS
  <2>5. reverse = [fields |-> [s \in FieldState |-> InState(now, before, s)],
                   new_failures |-> runs[previous].failures - runs[selected].failures]
    <3>1. reverse = [fields |-> [s \in FieldState |-> InState(IF selected = 0 THEN << >> ELSE runs[selected].by_field,
                                                              runs[previous].by_field, s)],
                     new_failures |-> IF selected = 0 THEN None ELSE runs[previous].failures - runs[selected].failures]
      BY Zenon DEF FieldComparison, InState
    <3>2. (IF selected = 0 THEN << >> ELSE runs[selected].by_field) = now
          /\ (IF selected = 0 THEN None ELSE runs[previous].failures - runs[selected].failures)
               = runs[previous].failures - runs[selected].failures
      BY <2>4
    <3> HIDE DEF reverse, now, before
    <3>3. QED
      BY <3>1, <3>2, <2>3
  <2>6. reverse.fields["improved"] = InState(now, before, "improved")
        /\ reverse.new_failures = runs[previous].failures - runs[selected].failures
    BY <2>5 DEF FieldState
  <2>7. fields["regressed"] = InState(before, now, "regressed")
    BY <1>6 DEF FieldState
  <2>8. InState(now, before, "improved") = InState(before, now, "regressed")
    <3> HIDE DEF now, before
    <3> QED
      BY <1>4, StatesOfFields DEF InState
  <2>9. reverse.new_failures = 0 - comparison.new_failures
    <3>1. PICK a \in Int, b \in Int : a = runs[previous].failures /\ b = runs[selected].failures
      BY <1>2, <2>1
    <3>2. reverse.new_failures = a - b /\ comparison.new_failures = b - a
      BY <1>7, <1>10, <2>6, <3>1
    <3> HIDE DEF reverse, comparison
    <3>3. QED
      BY <3>2
  <2> HIDE DEF reverse, fields
  <2>10. QED
    BY <2>2, <2>6, <2>7, <2>8, <2>9 DEF reverse
<1> HIDE DEF comparison
<1>11. QED
  BY <1>1, <1>8, <1>9, <1>10 DEF ComparisonTells, comparison

\* Max is the larger of two numbers.
LEMMA LargerOfTwo ==
  ASSUME NEW a \in Int, NEW b \in Int
  PROVE  Max({a, b}) \in {a, b} /\ Max({a, b}) >= a /\ Max({a, b}) >= b
<1> DEFINE S == {a, b}
<1>1. S \in SUBSET Int /\ IsFiniteSet(S) /\ S # {}
  <2>1. IsFiniteSet({a} \union {b}) /\ S = {a} \union {b}
    BY FS_Singleton, FS_AddElement
  <2>2. QED
    BY <2>1
<1>2. a \in S /\ b \in S
  OBVIOUS
<1> HIDE DEF S
<1>3. \E k \in S : \A m \in S : m <= k
  BY <1>1, FiniteLargest
<1>4. Max(S) \in S /\ \A m \in S : m <= Max(S)
  BY <1>1, <1>3 DEF Max
<1>5. Max(S) \in Int
  BY <1>1, <1>4
<1>6. Max(S) >= a /\ Max(S) >= b
  BY <1>2, <1>4, <1>5
<1>7. QED
  BY <1>4, <1>6 DEF S

\* And Min the smaller.
LEMMA LesserOfTwo ==
  ASSUME NEW a \in Int, NEW b \in Int
  PROVE  Min({a, b}) \in {a, b}
<1>1. \A m \in {a, b} : Min({a, b}) <= m /\ Min({a, b}) \in {a, b}
  <2>1. CASE a <= b
    <3>1. a \in {a, b} /\ \A m \in {a, b} : a <= m
      BY <2>1
    <3>2. QED
      BY <3>1 DEF Min
  <2>2. CASE b <= a
    <3>1. b \in {a, b} /\ \A m \in {a, b} : b <= m
      BY <2>2
    <3>2. QED
      BY <3>1 DEF Min
  <2>3. QED
    BY <2>1, <2>2
<1>2. QED
  BY <1>1

\* A trend shows some runs.
LEMMA MostIs == ASSUME NEW limit \in Int PROVE MostShown(limit) \in Nat \ {0}
<1>1. PICK few : few = Min({limit, SelectorLimit})
  OBVIOUS
<1>2. few \in Int
  BY <1>1, LesserOfTwo DEF SelectorLimit
<1>3. Max({1, few}) \in {1, few} /\ Max({1, few}) >= 1
  BY <1>2, LargerOfTwo
<1>4. QED
  BY <1>1, <1>2, <1>3 DEF MostShown

\* place lists the places of a series, each once, the oldest first.
Aged(runs, series, m, place) ==
  /\ place \in [1..m -> series]
  /\ \A i \in series : \E k \in 1..m : place[k] = i
  /\ \A k, l \in 1..m : place[k] = place[l] => k = l
  /\ \A k, l \in 1..m : k < l => runs[place[k]].observed <= runs[place[l]].observed

\* The sorted series is the runs of the series, the oldest first.
LEMMA SeriesSorted ==
  ASSUME NEW runs, NEW n \in Nat, NEW workspace, GoodRuns(runs, n, workspace), NEW series \in SUBSET (1..n),
         NEW m, m = Cardinality(series)
  PROVE  /\ m \in Nat
         /\ \E place : /\ Aged(runs, series, m, place)
                       /\ OldestFirst(OfThose(runs, series)) = [k \in 1..m |-> runs[place[k]]]
<1> DEFINE those == OfThose(runs, series)
           up == Upwards(series)
<1>1. IsFiniteSet(series) /\ series \in SUBSET Nat
  <2>1. IsFiniteSet(1..n)
    BY UpTo
  <2>2. IsFiniteSet(series)
    BY <2>1, FS_Subset
  <2>3. series \in SUBSET Nat
    OBVIOUS
  <2>4. QED
    BY <2>2, <2>3
<1>2. m \in Nat
  BY <1>1, FS_CardinalityType
<1>3. DOMAIN those = 1..m /\ \A k \in 1..m : those[k] = runs[up[k]]
  BY <1>1, ThoseAre
<1>4. /\ up \in [1..m -> series] /\ \A k, l \in 1..m : up[k] = up[l] => k = l
      /\ \A i \in series : \E k \in 1..m : up[k] = i
  BY <1>1, UpwardsLists
<1>5. \A k \in 1..n : runs[k].observed \in Int
  BY DEF GoodRuns, WellReported
<1> HIDE DEF those, up
<1>6. \A k \in 1..m : those[k].observed \in Int
  <2> TAKE k \in 1..m
  <2>1. up[k] \in 1..n
    BY <1>4
  <2>2. QED
    BY <1>3, <1>5, <2>1
<1>7. PICK order : /\ Arranged(those, m, order, OldestFirst(those))
                   /\ \A k, l \in 1..m : k < l => those[order[k]].observed <= those[order[l]].observed
  BY <1>2, <1>3, <1>6, OldestFirstIs
<1>8. /\ order \in [1..m -> 1..m]
      /\ \A i \in 1..m : \E k \in 1..m : order[k] = i
      /\ \A k, l \in 1..m : order[k] = order[l] => k = l
      /\ OldestFirst(those) = [k \in 1..m |-> those[order[k]]]
  BY <1>7 DEF Arranged
<1> DEFINE place == [k \in 1..m |-> up[order[k]]]
<1>9. \A k \in 1..m : order[k] \in 1..m /\ place[k] = up[order[k]] /\ place[k] \in series
  BY <1>4, <1>8
<1>10. place \in [1..m -> series]
  BY <1>9
<1>11. DOMAIN place = 1..m
  OBVIOUS
<1> HIDE DEF place
<1>12. \A i \in series : \E k \in 1..m : place[k] = i
  <2> TAKE i \in series
  <2>1. PICK j \in 1..m : up[j] = i
    BY <1>4
  <2>2. PICK k \in 1..m : order[k] = j
    BY <1>8
  <2>3. QED
    BY <1>9, <2>1, <2>2
<1>13. \A k, l \in 1..m : place[k] = place[l] => k = l
  BY <1>4, <1>8, <1>9
<1>14. \A k \in 1..m : those[order[k]] = runs[place[k]]
  BY <1>3, <1>9
<1>15. \A k, l \in 1..m : k < l => runs[place[k]].observed <= runs[place[l]].observed
  BY <1>7, <1>14
<1>16. OldestFirst(those) = [k \in 1..m |-> runs[place[k]]]
  BY <1>8, <1>14, ZenonT(60)
<1>17. Aged(runs, series, m, place)
  BY <1>10, <1>12, <1>13, <1>15 DEF Aged
<1>18. QED
  BY <1>2, <1>16, <1>17 DEF those

\* Of others, those as new as a run, and those newer.
AsNew(runs, others, selected) == {i \in others : runs[i].observed >= runs[selected].observed}
NewerOnes(runs, others, selected) == {i \in others : runs[i].observed > runs[selected].observed}

\* How many of the series are as new as a place, or newer, and where it stands.
LEMMA AfterPlace ==
  ASSUME NEW runs, NEW n \in Nat, NEW workspace, GoodRuns(runs, n, workspace), NEW series \in SUBSET (1..n),
         NEW m \in Nat, NEW place, Aged(runs, series, m, place), NEW b \in 1..m, NEW selected, selected = place[b],
         NEW others, others = series \ {selected}
  PROVE  /\ m - b <= Cardinality(AsNew(runs, others, selected))
         /\ Cardinality(NewerOnes(runs, others, selected)) <= m - b
         /\ Cardinality(AsNew(runs, others, selected)) \in Nat
         /\ Cardinality(NewerOnes(runs, others, selected)) \in Nat
<1> DEFINE equals == {i \in others : runs[i].observed >= runs[selected].observed}
           newer == {i \in others : runs[i].observed > runs[selected].observed}
           after == (b + 1)..m
           images == {place[k] : k \in after}
<1>1. /\ place \in [1..m -> series]
      /\ \A i \in series : \E k \in 1..m : place[k] = i
      /\ \A k, l \in 1..m : place[k] = place[l] => k = l
      /\ \A k, l \in 1..m : k < l => runs[place[k]].observed <= runs[place[l]].observed
  BY DEF Aged
<1>2. \A i \in series : i \in 1..n /\ runs[i].observed \in Int
  BY DEF GoodRuns, WellReported
<1>3. IsFiniteSet(after) /\ Cardinality(after) = m - b
  <2>1. b + 1 \in Int /\ m \in Int
    OBVIOUS
  <2>2. IsFiniteSet(after) /\ Cardinality(after) = IF b + 1 > m THEN 0 ELSE m - (b + 1) + 1
    BY <2>1, FS_Interval
  <2>3. QED
    BY <2>2
<1>4. \A k \in after : k \in 1..m /\ b < k
  OBVIOUS
<1>5. \A k \in after : place[k] \in series /\ place[k] # selected
  BY <1>1, <1>4
<1>6. \A k \in after : place[k] \in equals
  BY <1>1, <1>2, <1>4, <1>5
<1>7. IsFiniteSet(equals) /\ IsFiniteSet(newer)
  <2>1. equals \in SUBSET (1..n) /\ newer \in SUBSET (1..n)
    OBVIOUS
  <2> HIDE DEF equals, newer
  <2>2. QED
    BY <2>1, UpTo, FS_Subset
<1>8. \A i \in newer : i \in images
  <2> TAKE i \in newer
  <2>1. i \in series /\ runs[i].observed > runs[selected].observed /\ selected \in series
    BY <1>1
  <2>2. PICK k \in 1..m : place[k] = i
    BY <1>1, <2>1
  <2>3. ~ (k <= b)
    <3> SUFFICES ASSUME k <= b PROVE FALSE
      OBVIOUS
    <3>1. runs[i].observed \in Int /\ runs[selected].observed \in Int
      BY <1>2, <2>1
    <3>2. CASE k = b
      BY <2>1, <2>2, <3>1, <3>2
    <3>3. CASE k < b
      <4>1. runs[i].observed <= runs[selected].observed
        BY <1>1, <2>2, <3>3
      <4>2. QED
        BY <2>1, <3>1, <4>1
    <3>4. QED
      BY <3>2, <3>3
  <2>4. k \in after
    BY <2>3
  <2>5. QED
    BY <2>2, <2>4
<1>9. IsFiniteSet(images) /\ Cardinality(images) <= m - b /\ Cardinality(images) \in Nat
  <2> HIDE DEF after
  <2>1. IsFiniteSet(images) /\ Cardinality(images) <= Cardinality(after)
    BY <1>3, FiniteImage
  <2> HIDE DEF images
  <2>2. QED
    BY <1>3, <2>1, FS_CardinalityType
<1>10. Cardinality(newer) <= m - b /\ Cardinality(newer) \in Nat
  <2> HIDE DEF newer, images
  <2>1. newer \in SUBSET images
    BY <1>8
  <2>2. Cardinality(newer) <= Cardinality(images) /\ Cardinality(newer) \in Nat
    BY <1>7, <1>9, <2>1, FS_Subset, FS_CardinalityType
  <2>3. QED
    BY <1>9, <2>2
<1>11. m - b <= Cardinality(equals) /\ Cardinality(equals) \in Nat
  <2> DEFINE f == [k \in after |-> place[k]]
  <2> HIDE DEF after, equals
  <2>1. f \in [after -> equals] /\ \A k, l \in after : f[k] = f[l] => k = l
    BY <1>1, <1>4, <1>6
  <2>2. f \in Injection(after, equals)
    BY <2>1 DEF Injection, IsInjective
  <2> HIDE DEF f
  <2>3. Cardinality(after) <= Cardinality(equals)
    BY <1>7, <2>2, FS_Injection
  <2>4. QED
    BY <1>3, <1>7, <2>3, FS_CardinalityType
<1>12. QED
  BY <1>10, <1>11 DEF AsNew, NewerOnes

\* The trend shows the run unless enough others of its series push it out.
LEMMA TrendIs ==
  ASSUME NEW runs, NEW n \in Nat, NEW workspace, GoodRuns(runs, n, workspace), NEW selected \in 1..n,
         NEW limit \in Int
  PROVE  TrendTells(runs, selected, limit)
<1> DEFINE run == runs[selected]
           series == Series(runs, selected)
           others == series \ {selected}
           equals == AsNew(runs, others, selected)
           newer == NewerOnes(runs, others, selected)
           trend == Trend(runs, selected, limit)
           shown == \E k \in DOMAIN trend : trend[k] = run
           m == Cardinality(series)
           most == MostShown(limit)
<1>1. most \in Nat \ {0}
  BY MostIs
<1>2. series \in SUBSET (1..n) /\ selected \in series
  BY DEF GoodRuns, Series
<1>3. PICK sorted : sorted = OldestFirst(OfThose(runs, series))
  OBVIOUS
<1>4. trend = SubSeq(sorted, Max({1, Len(sorted) - most + 1}), Len(sorted))
  BY <1>3 DEF Trend
<1>5. \A i, j \in 1..n : runs[i] = runs[j] => i = j
  BY DEF GoodRuns
<1> HIDE DEF series, most
<1>6. /\ m \in Nat
      /\ \E place : /\ Aged(runs, series, m, place)
                    /\ sorted = [k \in 1..m |-> runs[place[k]]]
  BY <1>2, <1>3, SeriesSorted
<1> HIDE DEF m, trend
<1>7. PICK place : Aged(runs, series, m, place) /\ sorted = [k \in 1..m |-> runs[place[k]]]
  BY <1>6
<1>8. /\ place \in [1..m -> series]
      /\ \A i \in series : \E k \in 1..m : place[k] = i
      /\ \A k, l \in 1..m : place[k] = place[l] => k = l
  BY <1>7 DEF Aged
<1>9. PICK b \in 1..m : place[b] = selected
  BY <1>2, <1>8
<1>10. /\ m - b <= Cardinality(equals) /\ Cardinality(newer) <= m - b
       /\ Cardinality(equals) \in Nat /\ Cardinality(newer) \in Nat
  <2> HIDE DEF others
  <2>1. others = series \ {selected} /\ selected = place[b]
    BY <1>9 DEF others
  <2>2. m \in Nat /\ Aged(runs, series, m, place) /\ series \in SUBSET (1..n)
    BY <1>2, <1>6, <1>7
  <2> HIDE DEF series
  <2>3. QED
    BY <2>1, <2>2, AfterPlace
<1>11. sorted \in Seq({sorted[k] : k \in DOMAIN sorted}) /\ Len(sorted) = m
  <2>1. sorted = [k \in 1..m |-> sorted[k]]
    BY <1>7
  <2>2. QED
    BY <1>6, <2>1, UpToIsSeq
<1>12. PICK from \in Nat : /\ from = Max({1, m - most + 1}) /\ from >= 1 /\ from >= m - most + 1
                           /\ from \in {1, m - most + 1}
  <2>1. PICK c \in Int : c = m - most + 1
    BY <1>1, <1>6
  <2>2. PICK one \in Int : one = 1
    OBVIOUS
  <2>3. Max({one, c}) \in {one, c} /\ Max({one, c}) >= one /\ Max({one, c}) >= c
    BY LargerOfTwo
  <2>4. QED
    BY <2>1, <2>2, <2>3
<1>13. from <= m
  <2>1. m - most + 1 <= m /\ 1 <= m
    BY <1>1, <1>6
  <2>2. QED
    BY <1>12, <2>1
<1>14. /\ Len(trend) = m - from + 1 /\ DOMAIN trend = 1..(m - from + 1)
       /\ \A k \in 1..(m - from + 1) : trend[k] = sorted[from + k - 1]
  <2>1. trend = SubSeq(sorted, from, m)
    BY <1>4, <1>11, <1>12
  <2> DEFINE R == {sorted[k] : k \in DOMAIN sorted}
  <2> HIDE DEF R
  <2>2. sorted \in Seq(R)
    BY <1>11 DEF R
  <2>3. PICK to \in Nat : to = m /\ to <= Len(sorted) /\ from >= 1
    BY <1>6, <1>11, <1>12
  <2>5. /\ SubSeq(sorted, from, to) \in Seq(R)
        /\ Len(SubSeq(sorted, from, to)) = IF from <= to THEN to - from + 1 ELSE 0
        /\ \A i \in 1..(to - from + 1) : SubSeq(sorted, from, to)[i] = sorted[from + i - 1]
    BY <2>2, <2>3, Stretch
  <2>6. QED
    BY <1>13, <2>1, <2>3, <2>5, LenProperties
<1>15. \A k \in 1..(m - from + 1) : from + k - 1 \in 1..m /\ trend[k] = runs[place[from + k - 1]]
  <2> TAKE k \in 1..(m - from + 1)
  <2>1. from + k - 1 \in 1..m
    BY <1>6, <1>12, <1>13
  <2>2. QED
    BY <1>7, <1>14, <2>1
<1>16. shown <=> b >= from
  <2>1. ASSUME b >= from PROVE shown
    <3>1. b - from + 1 \in 1..(m - from + 1) /\ from + (b - from + 1) - 1 = b
      BY <1>6, <1>9, <1>12, <1>13, <2>1
    <3>2. trend[b - from + 1] = runs[place[from + (b - from + 1) - 1]]
      BY <1>15, <3>1
    <3>3. trend[b - from + 1] = run
      BY <1>9, <3>1, <3>2
    <3>4. QED
      BY <1>14, <3>1, <3>3
  <2>2. ASSUME shown PROVE b >= from
    <3>1. PICK k \in 1..(m - from + 1) : trend[k] = run
      BY <1>14, <2>2
    <3>2. PICK l \in 1..m : l = from + k - 1
      BY <1>15
    <3>3. trend[k] = runs[place[l]] /\ place[l] \in 1..n
      BY <1>2, <1>8, <1>15, <3>2
    <3>4. place[l] = selected
      BY <1>5, <3>1, <3>3
    <3>5. l = b
      BY <1>8, <1>9, <3>4
    <3>6. QED
      BY <1>12, <3>2, <3>5
  <2>3. QED
    BY <2>1, <2>2
<1> HIDE DEF shown, equals, newer
<1>17. Cardinality(equals) < most => shown
  BY <1>1, <1>6, <1>9, <1>10, <1>12, <1>16
<1>18. shown => Cardinality(newer) < most
  BY <1>1, <1>6, <1>9, <1>10, <1>12, <1>16
<1>19. QED
  BY <1>17, <1>18 DEF TrendTells, AsNew, NewerOnes, trend, shown, equals, newer, series, most

\* The run asked for is shown, or else the newest that was judged.
LEMMA ChoiceIs ==
  ASSUME NEW runs, NEW n \in Nat, NEW workspace, GoodRuns(runs, n, workspace), NEW asked,
         NEW selected, selected = SelectRun(runs, asked), selected # 0
  PROVE  selected \in 1..n /\ ChoiceTells(runs, selected, asked, workspace)
<1> DEFINE wanted == {i \in DOMAIN runs : runs[i].id = asked}
           judged == {i \in DOMAIN runs : runs[i].verdict}
<1>1. DOMAIN runs = 1..n
  BY DEF GoodRuns
<1>2. wanted \in SUBSET (Nat \ {0}) /\ judged \in SUBSET (Nat \ {0}) /\ DOMAIN runs \in SUBSET (Nat \ {0})
      /\ wanted \in SUBSET (1..n) /\ judged \in SUBSET (1..n)
  BY <1>1
<1>3. selected = IF PlaceOf(wanted) # 0 THEN PlaceOf(wanted)
                 ELSE IF PlaceOf(judged) # 0 THEN PlaceOf(judged) ELSE PlaceOf(DOMAIN runs)
  BY DEF SelectRun
<1>4. /\ \A i \in wanted : runs[i].id = asked
      /\ \A i \in 1..n : runs[i].id = asked => i \in wanted
      /\ \A i \in judged : runs[i].verdict
      /\ \A i \in 1..n : runs[i].verdict => i \in judged
  BY <1>1
<1> HIDE DEF wanted, judged
<1>5. /\ wanted = {} => PlaceOf(wanted) = 0
      /\ wanted # {} => PlaceOf(wanted) \in wanted /\ PlaceOf(wanted) # 0
  BY <1>2, PlaceIs
<1>6. /\ judged = {} => PlaceOf(judged) = 0
      /\ judged # {} => PlaceOf(judged) \in judged /\ PlaceOf(judged) # 0 /\ \A i \in judged : PlaceOf(judged) <= i
  BY <1>2, PlaceIs
<1>7. /\ DOMAIN runs = {} => PlaceOf(DOMAIN runs) = 0
      /\ DOMAIN runs # {} => PlaceOf(DOMAIN runs) \in DOMAIN runs
  BY <1>2, PlaceIs
<1>8. selected \in 1..n
  BY <1>1, <1>2, <1>3, <1>5, <1>6, <1>7
<1>9. ASSUME runs[selected].id # asked, NEW i \in DOMAIN runs
      PROVE  /\ runs[i].id # asked
             /\ runs[i].verdict => runs[selected].verdict /\ runs[i].observed <= runs[selected].observed
  <2>1. wanted = {}
    BY <1>3, <1>4, <1>5, <1>9
  <2>2. runs[i].id # asked
    BY <1>1, <1>4, <2>1
  <2>3. ASSUME runs[i].verdict PROVE runs[selected].verdict /\ runs[i].observed <= runs[selected].observed
    <3>1. i \in judged
      BY <1>1, <1>4, <2>3
    <3>2. selected = PlaceOf(judged) /\ selected \in judged /\ selected <= i
      BY <1>3, <1>5, <1>6, <2>1, <3>1
    <3>3. runs[selected].observed \in Int /\ runs[i].observed \in Int
      BY <1>1, <1>8 DEF GoodRuns, WellReported
    <3>4. CASE selected = i
      BY <1>4, <3>2, <3>3, <3>4
    <3>5. CASE selected < i
      <4>1. runs[i].observed <= runs[selected].observed
        BY <1>1, <1>8, <3>5 DEF GoodRuns
      <4>2. QED
        BY <1>4, <3>2, <4>1
    <3>6. QED
      BY <1>1, <1>8, <3>2, <3>4, <3>5
  <2>4. QED
    BY <2>2, <2>3
<1>10. \A i, j \in DOMAIN runs : /\ runs[i].workspace \in {None, workspace}
                                /\ runs[i].id = runs[j].id => i = j
  BY <1>1 DEF GoodRuns
<1>11. QED
  BY <1>8, <1>9, <1>10 DEF ChoiceTells

\* Of any public reports and any history, whole numbers in them and a fingerprint naming
\* one version of one split, the evaluation page compares what can be compared
\* (evaluation/dashboard.py).
THEOREM EveryComparisonAddsUp ==
  ASSUME NEW R, Fingerprinted(R), \A r \in R : WellReported(r), NEW workspace,
         NEW public \in Seq(R), NEW past \in Seq(R),
         \A i \in DOMAIN public : public[i].workspace \in {None, workspace},
         NEW asked, NEW limit \in Int
  PROVE  ComparisonsAddUp(public, past, workspace, asked, limit)
<1>1. PICK runs : runs = AllRuns(public, past, workspace)
  OBVIOUS
<1>2. PICK n \in Nat : GoodRuns(runs, n, workspace)
  BY <1>1, AllRunsAreGood
<1>3. ASSUME NEW selected \in {SelectRun(runs, asked)} \ {0}
      PROVE  /\ ChoiceTells(runs, selected, asked, workspace)
             /\ TrendTells(runs, selected, limit)
             /\ ComparisonTells(runs, selected, PreviousComparable(runs, selected))
  <2>1. selected = SelectRun(runs, asked) /\ selected # 0
    BY <1>3
  <2>2. selected \in 1..n /\ ChoiceTells(runs, selected, asked, workspace)
    BY <1>2, <2>1, ChoiceIs
  <2>3. TrendTells(runs, selected, limit)
    BY <1>2, <2>2, TrendIs
  <2>4. ComparisonTells(runs, selected, PreviousComparable(runs, selected))
    BY <1>2, <2>2, PreviousTells
  <2>5. QED
    BY <2>2, <2>3, <2>4
<1>4. QED
  BY <1>1, <1>3 DEF ComparisonsAddUp

-----------------------------------------------------------------------------
(* The evaluations and reports of the instance.                             *)

\* What the extractor answers in the instance: some reading of an invoice.
ReadingOf(v, t, d, f) == [Named(v, "INV-1", t, d) EXCEPT !.invoice_number.form = f]
Vendors == {None, Acme, [Acme EXCEPT !.form = "upper"], [Acme EXCEPT !.form = "dashed"], Written(street, "plain")}
SomeAnswer(a) ==
  /\ a.failed \in BOOLEAN /\ a.usage["input"] \in Nat /\ a.usage["cached"] \in Nat
  /\ \E v \in Vendors, f \in Form, t \in {None, 1000, 1005}, d \in {None, 2} : a.invoice = ReadingOf(v, t, d, f)

\* Every answer of the instance is one.
LEMMA AnswersAre == \A a \in Answered1 \union Answered2 : SomeAnswer(a)
<1>1. ASSUME NEW a \in Answered1 PROVE SomeAnswer(a)
  <2> DEFINE vendors == {None, Acme, [Acme EXCEPT !.form = "upper"], [Acme EXCEPT !.form = "dashed"]}
             forms == {"plain", "padded", "dashed"}
             totals == {None, 1000, 1005}
             dues == {None, 2}
  <2>1. vendors \in SUBSET Vendors /\ forms \in SUBSET Form /\ totals \in SUBSET {None, 1000, 1005} /\ dues \in SUBSET {None, 2}
    BY DEF Vendors, Form
  <2>2. a \in Reads(vendors, forms, totals, dues)
    BY DEF Answered1
  <2> HIDE DEF vendors, forms, totals, dues
  <2>3. PICK v \in vendors, f \in forms, t \in totals, d \in dues, p \in {1, 2}, k \in {0, 2} :
          a = [failed |-> FALSE, confidence |-> Confidence(p), usage |-> [input |-> 3, cached |-> k, output |-> 1],
               invoice |-> ReadingOf(v, t, d, f)]
    BY <2>2 DEF Reads, ReadingOf
  <2>4. a.failed = FALSE /\ a.usage.input = 3 /\ a.usage.cached = k /\ a.invoice = ReadingOf(v, t, d, f)
    BY <2>3
  <2>5. v \in Vendors /\ f \in Form /\ t \in {None, 1000, 1005} /\ d \in {None, 2}
    BY <2>1
  <2>6. a.failed \in BOOLEAN
    <3>1. a.failed = FALSE
      BY <2>4
    <3>2. QED
      BY <3>1, Zenon
  <2>7. a.usage["input"] \in Nat /\ a.usage["cached"] \in Nat
    BY <2>4
  <2>8. QED
    BY <2>4, <2>5, <2>6, <2>7 DEF SomeAnswer
<1>2. ASSUME NEW a \in Answered2 PROVE SomeAnswer(a)
  <2> DEFINE vendors == {Acme, Written(street, "plain")}
             forms == {"plain"}
             totals == {1000}
             dues == {2}
  <2>1. vendors \in SUBSET Vendors /\ forms \in SUBSET Form /\ totals \in SUBSET {None, 1000, 1005} /\ dues \in SUBSET {None, 2}
    BY DEF Vendors, Form
  <2>2. PICK fails \in BOOLEAN, b \in Reads(vendors, forms, totals, dues) : a = [b EXCEPT !.failed = fails]
    BY DEF Answered2
  <2>3. PICK v \in vendors, f \in forms, t \in totals, d \in dues, p \in {1, 2}, k \in {0, 2} :
          b = [failed |-> FALSE, confidence |-> Confidence(p), usage |-> [input |-> 3, cached |-> k, output |-> 1],
               invoice |-> ReadingOf(v, t, d, f)]
    BY DEF Reads, ReadingOf
  <2>4. a.failed = fails /\ a.usage.input = 3 /\ a.usage.cached = k /\ a.invoice = ReadingOf(v, t, d, f)
    BY <2>2, <2>3
  <2>5. v \in Vendors /\ f \in Form /\ t \in {None, 1000, 1005} /\ d \in {None, 2}
    BY <2>1
  <2>6. QED
    BY <2>4, <2>5 DEF SomeAnswer
<1>3. QED
  BY <1>1, <1>2

\* The reports of the instance are of one dataset and split, and a fingerprint of one version.
LEMMA SomeReportsAre ==
  \A r \in SomeReports : /\ WellReported(r) /\ r.dataset = "invoices" /\ r.split = "diagnostic"
                         /\ r.fingerprint \in {None, "f"} /\ (r.fingerprint # None => r.version = "1")
<1>1. ASSUME NEW id, NEW workspace, NEW version, NEW fingerprint, NEW observed \in Nat, NEW scores, NEW shares,
             ByFields(shares), fingerprint \in {None, "f"}, fingerprint # None => version = "1",
             NEW r, r = Report(id, workspace, version, fingerprint, observed, scores, shares)
      PROVE  /\ WellReported(r) /\ r.dataset = "invoices" /\ r.split = "diagnostic"
             /\ r.fingerprint \in {None, "f"} /\ (r.fingerprint # None => r.version = "1")
  <2>1. /\ r.observed = observed /\ r.failures = observed /\ r.by_field = shares /\ r.dataset = "invoices"
        /\ r.split = "diagnostic" /\ r.fingerprint = fingerprint /\ r.version = version
    BY <1>1 DEF Report
  <2>2. QED
    BY <1>1, <2>1 DEF WellReported, ByFields
<1>2. \A n \in Nat : ByFields(Fields(9500, n * 500 + 8500)) /\ ByFields(Fields(9500, 9000))
  BY DEF ByFields, Fields
<1>3. ByFields(<< >>) /\ ByFields([vendor_name |-> 10000])
  BY DEF ByFields
<1> TAKE r \in SomeReports
<1>4. \/ \E n \in {1, 2, 3}, v \in {"1", "2"}, o \in {1, 2} :
            r = Report(n, None, v, None, o, Judged(9600), Fields(9500, n * 500 + 8500))
      \/ \E n \in {1, 2}, o \in {1, 2} : r = Report(n, "here", "1", None, o, Judged(9600), Fields(9500, n * 500 + 8500))
      \/ r = Report(1, "elsewhere", "1", None, 2, Judged(9600), Fields(9500, 9000))
      \/ \E n \in {1, 2} : r = Report(n, "here", "1", "f", n, [field |-> 9400], << >>)
      \/ \E o \in {1, 3} : r = Report(3, None, "1", "f", o, Judged(9400), [vendor_name |-> 10000])
  BY DEF SomeReports
<1>5. CASE \E n \in {1, 2, 3}, v \in {"1", "2"}, o \in {1, 2} :
             r = Report(n, None, v, None, o, Judged(9600), Fields(9500, n * 500 + 8500))
  BY <1>1, <1>2, <1>5
<1>6. CASE \E n \in {1, 2}, o \in {1, 2} :
             r = Report(n, "here", "1", None, o, Judged(9600), Fields(9500, n * 500 + 8500))
  BY <1>1, <1>2, <1>6
<1>7. CASE r = Report(1, "elsewhere", "1", None, 2, Judged(9600), Fields(9500, 9000))
  BY <1>1, <1>2, <1>7
<1>8. CASE \E n \in {1, 2} : r = Report(n, "here", "1", "f", n, [field |-> 9400], << >>)
  BY <1>1, <1>3, <1>8
<1>9. CASE \E o \in {1, 3} : r = Report(3, None, "1", "f", o, Judged(9400), [vendor_name |-> 10000])
  BY <1>1, <1>3, <1>9
<1>10. QED
  BY <1>4, <1>5, <1>6, <1>7, <1>8, <1>9

\* What an observation of the instance is.
SomeSeen == UNION {{RunDocument(parsed, answer) : answer \in Answered1 \union Answered2} : parsed \in Parsed}

\* A parser fails or not.
LEMMA ParsedAre == \A parsed \in Parsed : parsed.failed \in BOOLEAN
<1>1. DOMAIN Page = {"failed", "text", "pages", "usage"} /\ Page.failed = FALSE
  BY DEF Page
<1>2. /\ \A x : [Page EXCEPT !.pages = x].failed = FALSE /\ [Page EXCEPT !.text = x].failed = FALSE
      /\ [Page EXCEPT !.failed = TRUE].failed = TRUE
  BY <1>1
<1>3. QED
  BY <1>1, <1>2, Zenon DEF Parsed

\* Its calls are those of a document, and its invoice the one answered, validated.
LEMMA RunDocumentIs ==
  ASSUME NEW parsed, parsed.failed \in BOOLEAN, NEW answer, SomeAnswer(answer), NEW o, o = RunDocument(parsed, answer)
  PROVE  /\ Called(o)
         /\ ~o.error => o.invoice = answer.invoice /\ CodesAreOf(o.codes, answer.invoice)
<1> DEFINE parser == Attempt("parser", "succeeded", parsed.usage)
           failed(stage) == Attempt(stage, "failed", 0)
           codes == {issue.code : issue \in ValidateInvoice(answer.invoice)}
           confident == {c.field : c \in answer.confidence}
           evident == {c.field : c \in {e \in answer.confidence :
                              /\ None \notin {e.page, e.excerpt}
                              /\ EvidenceExists(parsed, e.page, e.excerpt)}}
           extractor == Attempt("extractor", "succeeded", answer.usage)
<1>1. /\ \A stage : failed(stage).status = "failed"
      /\ parser.status = "succeeded" /\ parser.stage = "parser"
      /\ extractor.status = "succeeded" /\ extractor.stage = "extractor" /\ extractor.usage = answer.usage
  BY DEF Attempt
<1>2. answer.failed \in BOOLEAN /\ \A kind \in {"input", "cached"} : answer.usage[kind] \in Nat
  BY DEF SomeAnswer
<1>3. \A calls : NotRead(calls).error = TRUE /\ NotRead(calls).attempts = calls
  BY DEF NotRead
<1>4. \A x : DOMAIN <<x>> = 1..1 /\ <<x>>[1] = x
  OBVIOUS
<1>5. \A x, y : DOMAIN <<x, y>> = 1..2 /\ <<x, y>>[1] = x /\ <<x, y>>[2] = y
  OBVIOUS
<1> DEFINE read == [invoice |-> answer.invoice, codes |-> codes, confident |-> confident, evident |-> evident,
                    error |-> FALSE, attempts |-> <<parser, extractor>>]
<1>6. RunDocument(parsed, answer) =
        CASE parsed.failed -> NotRead(<<failed("parser")>>)
          [] ~parsed.failed /\ parsed.text = {} -> NotRead(<<parser, failed("parser")>>)
          [] ~parsed.failed /\ parsed.text # {} /\ answer.failed -> NotRead(<<parser, failed("extractor")>>)
          [] OTHER -> read
  BY Zenon DEF RunDocument
<1>7. read.error = FALSE /\ read.invoice = answer.invoice /\ read.codes = codes /\ read.attempts = <<parser, extractor>>
  OBVIOUS
<1> HIDE DEF parser, failed, extractor, codes, read
<1>8. CASE parsed.failed
  <2>1. o = NotRead(<<failed("parser")>>)
    BY <1>6, <1>8, Zenon
  <2>2. o.error = TRUE /\ o.attempts = <<failed("parser")>>
    BY <1>3, <2>1
  <2>3. Called(o)
    <3>1. DOMAIN o.attempts = 1..1 /\ o.attempts[1].status = "failed" /\ 1 \in 1..1 /\ \A k \in 1..1 : k = 1
      BY <1>1, <1>4, <2>2
    <3>2. QED
      BY <2>2, <3>1 DEF Called
  <2>4. QED
    BY <2>2, <2>3
<1>9. ASSUME ~parsed.failed, \E stage : o = NotRead(<<parser, failed(stage)>>) PROVE Called(o) /\ o.error = TRUE
  <2>1. PICK stage : o = NotRead(<<parser, failed(stage)>>)
    BY <1>9
  <2>2. o.error = TRUE /\ o.attempts = <<parser, failed(stage)>>
    BY <1>3, <2>1
  <2>3. /\ DOMAIN o.attempts = 1..2 /\ o.attempts[1] = parser /\ o.attempts[2].status = "failed"
        /\ 2 \in 1..2 /\ \A k \in 1..2 : k = 1 \/ k = 2
    BY <1>1, <1>5, <2>2
  <2>4. QED
    BY <1>1, <2>2, <2>3 DEF Called
<1>10. CASE ~parsed.failed /\ (parsed.text = {} \/ answer.failed)
  <2>1. o = NotRead(<<parser, failed("parser")>>) \/ o = NotRead(<<parser, failed("extractor")>>)
    <3>1. CASE parsed.text = {}
      BY <1>6, <1>10, <3>1, Zenon
    <3>2. CASE parsed.text # {}
      BY <1>6, <1>10, <3>2, Zenon
    <3>3. QED
      BY <3>1, <3>2
  <2>2. Called(o) /\ o.error = TRUE
    BY <1>9, <1>10, <2>1
  <2>3. QED
    BY <2>2
<1>11. CASE ~parsed.failed /\ ~(parsed.text = {} \/ answer.failed)
  <2>1. o = read
    BY <1>6, <1>11, Zenon
  <2>2. o.error = FALSE /\ o.invoice = answer.invoice /\ o.codes = codes /\ o.attempts = <<parser, extractor>>
    BY <1>7, <2>1
  <2>3. /\ DOMAIN o.attempts = 1..2 /\ o.attempts[1] = parser /\ o.attempts[2] = extractor
        /\ \A k \in 1..2 : k = 1 \/ k = 2
    BY <1>5, <2>2
  <2>4. Called(o)
    <3>1. \A k \in DOMAIN o.attempts : o.attempts[k].status = "succeeded"
      BY <1>1, <2>3
    <3>2. \A k \in DOMAIN o.attempts : o.attempts[k].stage = "extractor" => k = 2
      BY <1>1, <2>3
    <3>3. \A kind \in {"input", "cached"} : o.attempts[2].usage[kind] \in Nat
      BY <1>1, <1>2, <2>3
    <3>4. QED
      BY <2>2, <2>3, <3>1, <3>2, <3>3 DEF Called
  <2>5. CodesAreOf(o.codes, answer.invoice)
    BY <2>2 DEF CodesAreOf, codes
  <2>6. QED
    BY <2>2, <2>4, <2>5
<1>12. QED
  BY <1>2, <1>8, <1>10, <1>11

\* The values of an invoice of the instance.
LEMMA NamedIs ==
  ASSUME NEW v, NEW number, NEW t, NEW d
  PROVE  /\ Named(v, number, t, d)["vendor_name"] = v
         /\ Named(v, number, t, d)["invoice_number"] = Written(number, "plain")
         /\ Named(v, number, t, d)["subtotal"] = None /\ Named(v, number, t, d)["tax"] = None
         /\ Named(v, number, t, d)["total"] = t /\ Named(v, number, t, d).line_items = << >>
         /\ DOMAIN Named(v, number, t, d) = DOMAIN NoInvoice
<1>1. /\ DOMAIN NoInvoice = {"vendor_name", "invoice_number", "invoice_date", "due_date", "subtotal", "tax", "total",
                             "currency", "line_items"}
      /\ NoInvoice["subtotal"] = None /\ NoInvoice["tax"] = None /\ NoInvoice["line_items"] = << >>
  BY DEF NoInvoice
<1>2. /\ DOMAIN Clean = DOMAIN NoInvoice
      /\ Clean["subtotal"] = None /\ Clean["tax"] = None /\ Clean["line_items"] = << >>
  BY <1>1 DEF Clean
<1>3. QED
  BY <1>1, <1>2 DEF Named

\* A text in a form.
LEMMA WrittenIs ==
  ASSUME NEW text \in SomeTexts, NEW form \in Form
  PROVE  Written(text, form) \in [text : SomeTexts, form : Form] /\ Written(text, form).text = text
BY DEF Written

\* The names of the instance are names.
LEMMA VendorsAre == Vendors \in SUBSET Names(SomeTexts) /\ Acme \in Names(SomeTexts) /\ AlnumText(Acme) = acme
<1>1. acme \in SomeTexts /\ street \in SomeTexts /\ "plain" \in Form /\ "upper" \in Form /\ "dashed" \in Form
  BY DEF SomeTexts, Form
<1>2. Acme \in [text : SomeTexts, form : Form] /\ Written(street, "plain") \in [text : SomeTexts, form : Form] /\ Acme.text = acme
  BY <1>1, WrittenIs DEF Acme
<1>3. \A form \in Form : [Acme EXCEPT !.form = form] \in [text : SomeTexts, form : Form]
  BY <1>2
<1>4. Acme # None
  BY <1>2, TextAssumption
<1>5. AlnumText(Acme) = acme
  BY <1>2, <1>4 DEF AlnumText
<1> HIDE DEF Acme
<1>6. QED
  BY <1>1, <1>2, <1>3, <1>5 DEF Vendors, Names

\* What is answered are the values of an invoice whose total tells.
LEMMA AnsweredIs ==
  ASSUME NEW answer, SomeAnswer(answer)
  PROVE  ValuesOf(answer.invoice, SomeTexts) /\ TotalTells(answer.invoice)
<1>1. PICK v \in Vendors, f \in Form, t \in {None, 1000, 1005}, d \in {None, 2} : answer.invoice = ReadingOf(v, t, d, f)
  BY DEF SomeAnswer
<1>2. PICK named : named = Named(v, "INV-1", t, d)
  OBVIOUS
<1>3. /\ named["vendor_name"] = v /\ named["invoice_number"] = Written("INV-1", "plain")
      /\ named["subtotal"] = None /\ named["tax"] = None /\ named["total"] = t /\ named.line_items = << >>
      /\ DOMAIN named = DOMAIN NoInvoice
  BY <1>2, NamedIs
<1>4. DOMAIN NoInvoice = {"vendor_name", "invoice_number", "invoice_date", "due_date", "subtotal", "tax", "total",
                          "currency", "line_items"}
  BY DEF NoInvoice
<1> DEFINE invoice == [named EXCEPT !["invoice_number"] = [named["invoice_number"] EXCEPT !["form"] = f]]
<1>6. answer.invoice = invoice
  BY <1>1, <1>2 DEF ReadingOf
<1>7. /\ invoice["vendor_name"] = v /\ invoice["invoice_number"] = [named["invoice_number"] EXCEPT !["form"] = f]
      /\ invoice["subtotal"] = None /\ invoice["tax"] = None /\ invoice["total"] = t /\ invoice.line_items = << >>
  BY <1>3, <1>4
<1> HIDE DEF invoice
<1>8. "INV-1" \in SomeTexts /\ "plain" \in Form
  BY DEF SomeTexts, Form
<1>9. named["invoice_number"] \in [text : SomeTexts, form : Form]
  BY <1>3, <1>8, WrittenIs
<1>10. invoice["invoice_number"] \in [text : SomeTexts, form : Form]
  BY <1>7, <1>9
<1>11. v \in Names(SomeTexts)
  BY VendorsAre
<1>12. ValuesOf(invoice, SomeTexts)
  <2>1. \A f2 \in MoneyFields : invoice[f2] \in Int \union {None}
    BY <1>7 DEF MoneyFields
  <2>2. QED
    BY <1>7, <1>10, <1>11, <2>1 DEF ValuesOf, Names
<1>13. TotalTells(invoice)
  <2>1. invoice["total"] # None => invoice["total"] >= 10
    BY <1>7
  <2>2. QED
    BY <1>7, <2>1 DEF TotalTells, Cent
<1>14. QED
  BY <1>6, <1>12, <1>13

\* The expected records of the instance.
CasesAre(cases) ==
  /\ cases \in Seq({cases[i] : i \in DOMAIN cases}) /\ Len(cases) = 2
  /\ \A i \in 1..2 : ValuesOf(cases[i].invoice, SomeTexts) /\ InCents(cases[i].invoice)
  /\ cases[1].group # None /\ cases[1].group = cases[2].group =>
       \A f \in {"vendor_name", "invoice_number"} :
         AlnumText(cases[1].invoice[f]) = AlnumText(cases[2].invoice[f])

\* A named invoice in whole cents.
LEMMA NamedValues ==
  ASSUME NEW v \in Names(SomeTexts), NEW number \in SomeTexts, NEW t \in Int, t % 10 = 0, NEW d,
         NEW x, x = Named(v, number, t, d)
  PROVE  ValuesOf(x, SomeTexts) /\ InCents(x)
<1>1. /\ x["vendor_name"] = v /\ x["invoice_number"] = Written(number, "plain")
      /\ x["subtotal"] = None /\ x["tax"] = None /\ x["total"] = t /\ x.line_items = << >>
  BY NamedIs
<1>2. x["invoice_number"] \in [text : SomeTexts, form : Form]
  <2>1. "plain" \in Form
    BY DEF Form
  <2>2. QED
    BY <1>1, <2>1, WrittenIs
<1>3. \A f \in MoneyFields : x[f] \in Int \union {None} /\ (x[f] # None => x[f] % 10 = 0)
  BY <1>1 DEF MoneyFields
<1>4. QED
  BY <1>1, <1>2, <1>3 DEF ValuesOf, Names, InCents, Cent

\* Two expected records are a dataset if each is one of it.
LEMMA TwoCases ==
  ASSUME NEW a, NEW b, NEW cases, cases = <<a, b>>,
         ValuesOf(a.invoice, SomeTexts), InCents(a.invoice), ValuesOf(b.invoice, SomeTexts), InCents(b.invoice),
         a.group # None /\ a.group = b.group =>
           \A f \in {"vendor_name", "invoice_number"} : AlnumText(a.invoice[f]) = AlnumText(b.invoice[f])
  PROVE  CasesAre(cases)
<1>1. cases[1] = a /\ cases[2] = b /\ DOMAIN cases = 1..2
  OBVIOUS
<1>2. cases = [k \in 1..2 |-> cases[k]]
  <2>1. cases \in Seq({a, b}) /\ Len(cases) = 2
    OBVIOUS
  <2>2. QED
    BY <2>1, LenProperties
<1>3. cases \in Seq({cases[i] : i \in DOMAIN cases}) /\ Len(cases) = 2
  BY <1>2, UpToIsSeq
<1>4. \A i \in 1..2 : i = 1 \/ i = 2
  OBVIOUS
<1>5. \A i \in 1..2 : ValuesOf(cases[i].invoice, SomeTexts) /\ InCents(cases[i].invoice)
  BY <1>1, <1>4
<1>6. QED
  BY <1>1, <1>3, <1>5 DEF CasesAre

\* The expected records of the instance are documents of an evaluation.
LEMMA SomeCasesAre == \A cases \in SomeCases : CasesAre(cases)
<1> DEFINE pair(due) == Case(Named(Acme, "INV-1", 1000, due), "pair")
           alone(vendor) == Case(Named(vendor, "INV-1", 1000, None), None)
           full == [Named(Acme, "INV-1", 1000, 2) EXCEPT !.subtotal = 1000, !.tax = 100]
           refund == Named(Acme, "INV-2", 0 - 10, None)
<1>1. \A invoice, group : Case(invoice, group).invoice = invoice /\ Case(invoice, group).group = group
  BY DEF Case
<1>2. "INV-1" \in SomeTexts /\ "INV-2" \in SomeTexts /\ Acme \in Names(SomeTexts) /\ None \in Names(SomeTexts)
  BY VendorsAre DEF SomeTexts, Names
<1>3. \A d : \A v \in Names(SomeTexts) : ValuesOf(Named(v, "INV-1", 1000, d), SomeTexts) /\ InCents(Named(v, "INV-1", 1000, d))
  <2>1. 1000 \in Int /\ 1000 % 10 = 0
    OBVIOUS
  <2>2. QED
    BY <1>2, <2>1, NamedValues
<1>4. ValuesOf(refund, SomeTexts) /\ InCents(refund)
  <2>1. 0 - 10 \in Int /\ (0 - 10) % 10 = 0
    OBVIOUS
  <2>2. QED
    BY <1>2, <2>1, NamedValues
<1>5. ValuesOf(full, SomeTexts) /\ InCents(full)
  <2>1. PICK named : named = Named(Acme, "INV-1", 1000, 2)
    OBVIOUS
  <2>2. ValuesOf(named, SomeTexts) /\ named["total"] = 1000
        /\ DOMAIN named = {"vendor_name", "invoice_number", "invoice_date", "due_date", "subtotal", "tax", "total",
                           "currency", "line_items"}
    BY <1>2, <1>3, <2>1, NamedIs DEF NoInvoice
  <2>4. /\ full["vendor_name"] = named["vendor_name"] /\ full["invoice_number"] = named["invoice_number"]
        /\ full["subtotal"] = 1000 /\ full["tax"] = 100 /\ full["total"] = 1000 /\ full.line_items = named.line_items
    BY <2>1, <2>2
  <2> HIDE DEF full
  <2>5. \A f \in MoneyFields : full[f] \in Int /\ full[f] % 10 = 0
    BY <2>4 DEF MoneyFields
  <2>6. QED
    BY <2>2, <2>4, <2>5 DEF ValuesOf, InCents, Cent
<1>6. \A d, e : CasesAre(<<pair(d), pair(e)>>)
  <2> TAKE d, e
  <2>1. \A f \in {"vendor_name", "invoice_number"} :
          Named(Acme, "INV-1", 1000, d)[f] = Named(Acme, "INV-1", 1000, e)[f]
    BY NamedIs
  <2>2. PICK a, b : a = pair(d) /\ b = pair(e)
    OBVIOUS
  <2>3. a.invoice = Named(Acme, "INV-1", 1000, d) /\ b.invoice = Named(Acme, "INV-1", 1000, e)
    BY <1>1, <2>2
  <2>4. CasesAre(<<a, b>>)
    BY <1>2, <1>3, <2>1, <2>3, TwoCases
  <2>5. QED
    BY <2>2, <2>4
<1>7. CasesAre(<<alone(Acme), alone(None)>>)
  <2>1. PICK a, b : a = alone(Acme) /\ b = alone(None)
    OBVIOUS
  <2>2. /\ a.invoice = Named(Acme, "INV-1", 1000, None) /\ b.invoice = Named(None, "INV-1", 1000, None)
        /\ a.group = None
    BY <1>1, <2>1
  <2>3. CasesAre(<<a, b>>)
    BY <1>2, <1>3, <2>2, TwoCases
  <2>4. QED
    BY <2>1, <2>3
<1>8. CasesAre(<<Case(full, None), Case(refund, "pair")>>)
  <2>1. PICK a, b : a = Case(full, None) /\ b = Case(refund, "pair")
    OBVIOUS
  <2>2. a.invoice = full /\ b.invoice = refund /\ a.group = None
    BY <1>1, <2>1
  <2> HIDE DEF full, refund
  <2>3. CasesAre(<<a, b>>)
    BY <1>4, <1>5, <2>2, TwoCases
  <2>4. QED
    BY <2>1, <2>3
<1>9. SomeCases = {<<pair(None), pair(2)>>, <<alone(Acme), alone(None)>>, <<Case(full, None), Case(refund, "pair")>>}
  BY DEF SomeCases
<1> HIDE DEF pair, alone, full, refund
<1>10. QED
  BY <1>6, <1>7, <1>8, <1>9

\* An evaluation of the instance, part by part.
ScoresInv ==
  about = "scores" => \/ input = << >>
                      \/ (/\ DOMAIN input = {"cases", "seen"} /\ input.cases \in SomeCases
                          /\ input.seen \in Seq(SomeSeen))

\* The recorded evaluation runs of the instance.
PublicReports == {r \in SomeReports : r.workspace = None}
EvidenceInv ==
  about = "evidence" => /\ DOMAIN input = {"public", "history"}
                        /\ input.public \in Seq(PublicReports) /\ input.history \in Seq(SomeReports)
                        /\ Len(input.public) + Len(input.history) <= 3

\* What was seen of a document of the instance.
LEMMA SomeSeenAre ==
  \A o \in SomeSeen : /\ Called(o)
                      /\ ~o.error => /\ ValuesOf(o.invoice, SomeTexts) /\ TotalTells(o.invoice)
                                     /\ CodesAreOf(o.codes, o.invoice)
<1> TAKE o \in SomeSeen
<1>1. PICK parsed \in Parsed : o \in {RunDocument(parsed, answer) : answer \in Answered1 \union Answered2}
  BY DEF SomeSeen
<1>2. PICK answer \in Answered1 \union Answered2 : o = RunDocument(parsed, answer)
  BY <1>1
<1>3. parsed.failed \in BOOLEAN /\ SomeAnswer(answer)
  BY ParsedAre, AnswersAre
<1>4. Called(o) /\ (~o.error => o.invoice = answer.invoice /\ CodesAreOf(o.codes, answer.invoice))
  BY <1>2, <1>3, RunDocumentIs
<1>5. QED
  BY <1>3, <1>4, AnsweredIs

\* An evaluation of the instance has what every report and every call is about.
LEMMA ScoresOfInstance ==
  ASSUME NEW cases \in SomeCases, NEW seen \in Seq(SomeSeen), Len(seen) = Len(cases)
  PROVE  ReportsAddUp(cases, seen) /\ CallsAddUp(seen)
<1>1. CasesAre(cases)
  BY SomeCasesAre
<1>2. /\ cases \in Seq({cases[i] : i \in DOMAIN cases}) /\ Len(cases) = 2 /\ Len(seen) = 2
      /\ DOMAIN cases = 1..2
  <2>1. cases \in Seq({cases[i] : i \in DOMAIN cases}) /\ Len(cases) = 2
    BY <1>1 DEF CasesAre
  <2>2. QED
    BY <2>1, LenProperties
<1>3. DOMAIN seen = 1..2 /\ \A i \in 1..2 : seen[i] \in SomeSeen
  BY <1>2, LenProperties
<1>4. seen \in Seq({seen[i] : i \in DOMAIN seen})
  <2>1. seen = [k \in 1..2 |-> seen[k]]
    BY <1>2, LenProperties
  <2>2. QED
    BY <2>1, UpToIsSeq
<1>5. \A i \in 1..2 : /\ Called(seen[i])
                      /\ ~seen[i].error => /\ ValuesOf(seen[i].invoice, SomeTexts) /\ TotalTells(seen[i].invoice)
                                           /\ CodesAreOf(seen[i].codes, seen[i].invoice)
  BY <1>3, SomeSeenAre
<1>6. Observed(cases, seen)
  BY <1>2, <1>4 DEF Observed
<1>7. \A i, j \in 1..2 : cases[i].group # None /\ cases[i].group = cases[j].group =>
        \A f \in {"vendor_name", "invoice_number"} : AlnumText(cases[i].invoice[f]) = AlnumText(cases[j].invoice[f])
  <2> TAKE i, j \in 1..2
  <2>1. (i = 1 \/ i = 2) /\ (j = 1 \/ j = 2)
    OBVIOUS
  <2>2. cases[1].group # None /\ cases[1].group = cases[2].group =>
          \A f \in {"vendor_name", "invoice_number"} : AlnumText(cases[1].invoice[f]) = AlnumText(cases[2].invoice[f])
    BY <1>1 DEF CasesAre
  <2>3. QED
    BY <2>1, <2>2
<1>8. \A i \in 1..2 : ValuesOf(cases[i].invoice, SomeTexts) /\ InCents(cases[i].invoice)
  BY <1>1 DEF CasesAre
<1>9. Evaluable(cases, seen, SomeTexts)
  BY <1>2, <1>5, <1>6, <1>7, <1>8 DEF Evaluable
<1>10. Nameable(SomeTexts)
  BY TextAssumption DEF Nameable
<1>11. PICK n \in Nat \ {0} : n = 2 /\ n < 2500
  OBVIOUS
<1>12. ReportsAddUp(cases, seen)
  <2>1. PICK Texts : Texts = SomeTexts
    OBVIOUS
  <2>2. Nameable(Texts) /\ Evaluable(cases, seen, Texts) /\ Len(cases) = n /\ n < 2500
    BY <1>2, <1>9, <1>10, <1>11, <2>1
  <2>3. QED
    BY <2>2, EveryReportAddsUp
<1>13. CallsAddUp(seen)
  BY <1>2, <1>4, <1>5, <1>11, EveryCallAddsUp
<1>14. QED
  BY <1>12, <1>13

\* The reports of the instance are comparable as their fingerprints say.
LEMMA ReportsOfInstance ==
  ASSUME NEW public \in Seq(PublicReports), NEW past \in Seq(SomeReports), NEW asked, NEW limit \in Int
  PROVE  ComparisonsAddUp(public, past, "here", asked, limit)
<1>1. Fingerprinted(SomeReports) /\ \A r \in SomeReports : WellReported(r)
  <2>1. \A r \in SomeReports : r.dataset = "invoices" /\ r.split = "diagnostic" /\ WellReported(r)
                                /\ (r.fingerprint # None => r.version = "1")
    BY SomeReportsAre
  <2> HIDE DEF SomeReports
  <2>2. Fingerprinted(SomeReports)
    BY <2>1 DEF Fingerprinted
  <2>3. QED
    BY <2>1, <2>2
<1>2. public \in Seq(SomeReports) /\ \A i \in DOMAIN public : public[i].workspace \in {None, "here"}
  <2>1. DOMAIN public = 1..Len(public) /\ \A i \in 1..Len(public) : public[i] \in PublicReports
    BY LenProperties
  <2>2. PublicReports \in SUBSET SomeReports /\ \A r \in PublicReports : r.workspace = None
    BY DEF PublicReports
  <2> HIDE DEF PublicReports, SomeReports
  <2>3. public \in Seq(SomeReports)
    BY <2>2
  <2>4. QED
    BY <2>1, <2>2, <2>3
<1>3. QED
  BY <1>1, <1>2, EveryComparisonAddsUp

\* A behaviour about evaluations completes them part by part.
LEMMA ReadKeeps ==
  ASSUME ScoresInv, about = "scores", ReadCase PROVE input'.cases = input.cases
    /\ DOMAIN input' = {"cases", "seen"} /\ input'.cases \in SomeCases /\ input'.seen \in Seq(SomeSeen)
<1>1. DOMAIN input = {"cases", "seen"} /\ input.cases \in SomeCases /\ input.seen \in Seq(SomeSeen)
  BY DEF ScoresInv, ReadCase
<1>2. PICK parsed \in Parsed, answer \in Answered1 \union Answered2 :
        input' = [input EXCEPT !.seen = Append(@, RunDocument(parsed, answer))]
  BY Zenon DEF ReadCase
<1>3. PICK o : o = RunDocument(parsed, answer)
  OBVIOUS
<1>4. o \in SomeSeen
  <2>1. o \in {RunDocument(parsed, a) : a \in Answered1 \union Answered2}
    BY <1>3
  <2>2. QED
    BY <2>1 DEF SomeSeen
<1> HIDE DEF SomeSeen
<1>5. Append(input.seen, o) \in Seq(SomeSeen)
  BY <1>1, <1>4, AppendProperties
<1>6. input' = [input EXCEPT !["seen"] = Append(input.seen, o)]
  BY <1>2, <1>3
<1>7. DOMAIN input' = {"cases", "seen"} /\ input'.cases = input.cases /\ input'.seen = Append(input.seen, o)
  BY <1>1, <1>6
<1>8. QED
  BY <1>1, <1>5, <1>7

\* And those about recorded runs record one more.
LEMMA ReportKeeps == EvidenceInv /\ about = "evidence" /\ RecordReport /\ UNCHANGED about => EvidenceInv'
<1> SUFFICES ASSUME EvidenceInv, about = "evidence", RecordReport, UNCHANGED about PROVE EvidenceInv'
  OBVIOUS
<1>1. /\ DOMAIN input = {"public", "history"} /\ input.public \in Seq(PublicReports) /\ input.history \in Seq(SomeReports)
      /\ Len(input.public) + Len(input.history) < 3
  BY DEF EvidenceInv, RecordReport
<1>2. PICK report \in SomeReports, place \in {"public", "history"} :
        /\ place = "public" => report.workspace = None
        /\ input' = [input EXCEPT ![place] = Append(@, report)]
  BY DEF RecordReport
<1> HIDE DEF PublicReports, SomeReports
<1>3. CASE place = "public"
  <2>1. report \in PublicReports
    BY <1>2, <1>3 DEF PublicReports
  <2>2. input'.public = Append(input.public, report) /\ input'.history = input.history /\ DOMAIN input' = {"public", "history"}
    BY <1>1, <1>2, <1>3
  <2>3. Append(input.public, report) \in Seq(PublicReports) /\ Len(Append(input.public, report)) = Len(input.public) + 1
    BY <1>1, <2>1, AppendProperties
  <2>4. Len(input.public) \in Nat /\ Len(input.history) \in Nat
    BY <1>1, LenProperties
  <2>5. QED
    BY <1>1, <2>2, <2>3, <2>4 DEF EvidenceInv
<1>4. CASE place = "history"
  <2>1. input'.history = Append(input.history, report) /\ input'.public = input.public /\ DOMAIN input' = {"public", "history"}
    BY <1>1, <1>2, <1>4
  <2>2. Append(input.history, report) \in Seq(SomeReports) /\ Len(Append(input.history, report)) = Len(input.history) + 1
    BY <1>1, <1>2, AppendProperties
  <2>3. Len(input.public) \in Nat /\ Len(input.history) \in Nat
    BY <1>1, LenProperties
  <2>4. QED
    BY <1>1, <2>1, <2>2, <2>3 DEF EvidenceInv
<1>5. QED
  BY <1>2, <1>3, <1>4

\* A behaviour about evaluations or recorded runs starts with none.
LEMMA InitEvaluations == Init => ScoresInv /\ EvidenceInv
<1> SUFFICES ASSUME Init PROVE ScoresInv /\ EvidenceInv
  OBVIOUS
<1>1. about = "scores" => input = << >>
  BY DEF Init, About
<1>2. about = "evidence" => input = [public |-> << >>, history |-> << >>]
  BY DEF Init, About
<1>3. EvidenceInv
  <2> SUFFICES ASSUME about = "evidence" PROVE EvidenceInv
    BY DEF EvidenceInv
  <2>1. DOMAIN input = {"public", "history"} /\ input.public = << >> /\ input.history = << >>
    BY <1>2
  <2>2. \A R : << >> \in Seq(R) /\ Len(<< >>) = 0
    OBVIOUS
  <2> HIDE DEF PublicReports, SomeReports
  <2>3. QED
    BY <2>1, <2>2 DEF EvidenceInv
<1>4. QED
  BY <1>1, <1>3 DEF ScoresInv

\* And goes on as it started.
LEMMA NextEvaluations ==
  ScoresInv /\ EvidenceInv /\ [Next]_<<about, input, evaluation, gates>> => (ScoresInv /\ EvidenceInv)'
<1> SUFFICES ASSUME ScoresInv, EvidenceInv, [Next]_<<about, input, evaluation, gates>>
             PROVE  (ScoresInv /\ EvidenceInv)'
  OBVIOUS
<1> HIDE DEF SomeReports, PublicReports, SomeSeen, SomeCases
<1>1. UNCHANGED about
  BY DEF Next, Look, Evaluate, Enter
<1>2. CASE UNCHANGED input
  BY <1>1, <1>2 DEF ScoresInv, EvidenceInv
<1>3. CASE about = "scores" /\ ChooseCases
  <2>1. PICK cases \in SomeCases : input' = [cases |-> cases, seen |-> << >>]
    BY <1>3 DEF ChooseCases
  <2>2. DOMAIN input' = {"cases", "seen"} /\ input'.cases \in SomeCases /\ input'.seen = << >>
    BY <2>1
  <2>3. << >> \in Seq(SomeSeen)
    OBVIOUS
  <2>4. QED
    BY <1>1, <1>3, <2>2, <2>3 DEF ScoresInv, EvidenceInv
<1>4. CASE about = "scores" /\ ReadCase
  <2>1. /\ DOMAIN input' = {"cases", "seen"} /\ input'.cases \in SomeCases /\ input'.seen \in Seq(SomeSeen)
    BY <1>4, ReadKeeps
  <2>2. QED
    BY <1>1, <1>4, <2>1 DEF ScoresInv, EvidenceInv
<1>5. CASE about = "evidence" /\ RecordReport
  <2>1. EvidenceInv'
    BY <1>1, <1>5, ReportKeeps
  <2>2. QED
    BY <1>1, <1>5, <2>1 DEF ScoresInv
<1>6. about \notin {"scores", "evidence"} => (ScoresInv /\ EvidenceInv)'
  BY <1>1 DEF ScoresInv, EvidenceInv
<1>7. QED
  BY <1>2, <1>3, <1>4, <1>5, <1>6, Zenon DEF Next, Look, Evaluate, Enter, WriteFirst, WriteOther, WriteItems,
     WriteBatches, EnterAmounts, EnterDetails, PrintPages, Answer, RecordRuns, RecordJob, StoreFiles, SignIn,
     RecordAgentRun, ChooseCases, ReadCase, RecordReport, NameCredentials, ChooseBackends

\* The attempts, reports and comparisons of the evaluations tell what happened: those
\* of every evaluation, of every document read and every run recorded in the instance.
THEOREM EvaluationsHold == Spec => []EvaluationsAddUp
<1> DEFINE Inv == ScoresInv /\ EvidenceInv
           Others == /\ ((about = "scores" /\ input # << >> /\ Len(input.seen) = Len(input.cases)) =>
                           ReportsAddUp(input.cases, input.seen) /\ CallsAddUp(input.seen))
                     /\ (about = "evidence" =>
                           /\ \A asked \in {0, 1}, limit \in {1, 20} :
                                ComparisonsAddUp(input.public, input.history, "here", asked, limit)
                           /\ input.public = << >> => ScoresTellCounts(Len(input.history) + 18))
<1>1. Init => Inv
  BY InitEvaluations
<1>2. Inv /\ [Next]_<<about, input, evaluation, gates>> => Inv'
  BY NextEvaluations
<1>3. Inv => Others
  <2> SUFFICES ASSUME ScoresInv, EvidenceInv PROVE Others
    OBVIOUS
  <2>1. (about = "scores" /\ input # << >> /\ Len(input.seen) = Len(input.cases)) =>
          ReportsAddUp(input.cases, input.seen) /\ CallsAddUp(input.seen)
    BY ScoresOfInstance DEF ScoresInv
  <2>2. ASSUME about = "evidence" PROVE
          /\ \A asked \in {0, 1}, limit \in {1, 20} : ComparisonsAddUp(input.public, input.history, "here", asked, limit)
          /\ input.public = << >> => ScoresTellCounts(Len(input.history) + 18)
    <3>1. /\ input.public \in Seq(PublicReports) /\ input.history \in Seq(SomeReports)
          /\ Len(input.public) + Len(input.history) <= 3
      BY <2>2 DEF EvidenceInv
    <3> HIDE DEF PublicReports, SomeReports
    <3>2. \A asked, limit \in Int : ComparisonsAddUp(input.public, input.history, "here", asked, limit)
      BY <3>1, ReportsOfInstance
    <3>3. PICK documents \in Nat \ {0} : documents = Len(input.history) + 18 /\ documents < 10000
      <4>1. Len(input.history) \in Nat /\ Len(input.public) \in Nat
        BY <3>1, LenProperties
      <4>2. PICK h \in Nat, p \in Nat : h = Len(input.history) /\ p = Len(input.public)
        BY <4>1
      <4>3. p + h <= 3
        BY <3>1, <4>2
      <4>4. h + 18 \in Nat /\ h + 18 # 0 /\ h + 18 < 10000
        BY <4>3
      <4>5. QED
        BY <4>2, <4>4
    <3>4. ScoresTellCounts(Len(input.history) + 18)
      BY <3>3, EveryScoreTellsItsCount
    <3>5. QED
      BY <3>2, <3>4
  <2>3. QED
    BY <2>1, <2>2
<1>4. Others /\ (about = "evaluation" => Evaluations!AttemptsTellWhatHappened) => EvaluationsAddUp
  BY Zenon DEF EvaluationsAddUp
<1> HIDE DEF Inv, Others
<1>5. Spec => []Others
  BY <1>1, <1>2, <1>3, PTL DEF Spec
<1>6. Spec => []Evaluations!AttemptsTellWhatHappened
  BY AttemptsTell
<1>7. QED
  BY <1>4, <1>5, <1>6, PTL
=============================================================================
