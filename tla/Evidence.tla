------------------------------ MODULE Evidence ------------------------------
(***************************************************************************)
(* The evaluation page (dashboard and its helpers in                       *)
(* evaluation/dashboard.py): the recorded runs of a workspace, which of    *)
(* them is shown, against which earlier one, and what changed per field.   *)
(*                                                                         *)
(* A report is [id, workspace, dataset, version, split, fingerprint,       *)
(* observed, scores, by_field, documents, failures]; scores and by_field   *)
(* are in ten-thousandths and may be missing.                              *)
(***************************************************************************)
EXTENDS Scoring

FieldGate == 9500
ValidationGate == 9500
RegressionTolerance == 50
HistoryLimit == 100
SelectorLimit == 20

VerdictAvailable(report) == {"field", "validation"} \subseteq DOMAIN report.scores

NormalizeReport(report) ==
  [id |-> report.id, workspace |-> report.workspace, dataset |-> report.dataset, version |-> report.version,
   split |-> report.split, observed |-> report.observed, by_field |-> report.by_field,
   documents |-> report.documents, failures |-> report.failures,
   passed  |-> /\ VerdictAvailable(report)
               /\ report.scores.field >= FieldGate /\ report.scores.validation >= ValidationGate,
   verdict |-> VerdictAvailable(report),
   series  |-> <<report.dataset, report.split>>,
   compare |-> IF report.fingerprint # None THEN <<report.fingerprint>>
               ELSE <<report.dataset, report.version, report.split>>]

\* The sorts are stable: what was observed at one moment keeps its order.
PlacePairs(seq) == (DOMAIN seq) \X (DOMAIN seq)
Newer(seq) == {p \in PlacePairs(seq) : \/ seq[p[1]].observed > seq[p[2]].observed
                                  \/ (seq[p[1]].observed = seq[p[2]].observed /\ p[1] < p[2])}
Older(seq) == {p \in PlacePairs(seq) : \/ seq[p[1]].observed < seq[p[2]].observed
                                  \/ (seq[p[1]].observed = seq[p[2]].observed /\ p[1] < p[2])}
Sorted(seq, before) == LET order == InOrder(DOMAIN seq, before) IN [k \in DOMAIN seq |-> seq[order[k]]]
NewestFirst(seq) == Sorted(seq, Newer(seq))
OldestFirst(seq) == Sorted(seq, Older(seq))

\* What public evidence and, of the last recorded of the history, this workspace has. A
\* history lists the last record first, whenever its run was observed. Of two reports
\* with one id the later in the list is kept in the place of the earlier. Newest first.
AllRuns(public, history, workspace) ==
  LET recent == SubSeq(history, 1, Min({Len(history), HistoryLimit}))
      all    == public \o OfThose(recent, {i \in DOMAIN recent : recent[i].workspace \in {None, workspace}})
      firsts == {i \in DOMAIN all : \A j \in 1..(i - 1) : all[j].id # all[i].id}
      last(i) == Max({j \in DOMAIN all : all[j].id = all[i].id})
      order  == Upwards(firsts)
      unique == [k \in DOMAIN order |-> NormalizeReport(all[last(order[k])])]
  IN NewestFirst(unique)

\* A run is its place in the list, and 0 stands for none.
PlaceOf(places) == IF places = {} THEN 0 ELSE Min(places)

SelectRun(runs, id) ==
  LET asked == PlaceOf({i \in DOMAIN runs : runs[i].id = id})
      judged == PlaceOf({i \in DOMAIN runs : runs[i].verdict})
  IN IF asked # 0 THEN asked ELSE IF judged # 0 THEN judged ELSE PlaceOf(DOMAIN runs)

\* Mutant: any earlier run of the series will do, of whatever version.
PreviousInSeries(runs, selected) ==
  PlaceOf({i \in DOMAIN runs : /\ runs[i].series = runs[selected].series
                               /\ runs[i].observed < runs[selected].observed})

\* runs are newest first, so the first of them is the newest.
PreviousComparable(runs, selected) ==
  PlaceOf({i \in DOMAIN runs : /\ runs[i].compare = runs[selected].compare
                               /\ runs[i].observed < runs[selected].observed})

\* The last of the series, sorted again: of runs observed at one moment the one listed
\* last is shown last, and is the last to be cut.
MostShown(limit) == Max({1, Min({limit, SelectorLimit})})
Series(runs, selected) == {i \in DOMAIN runs : runs[i].series = runs[selected].series}
Trend(runs, selected, limit) ==
  LET series == OldestFirst(OfThose(runs, Series(runs, selected)))
  IN SubSeq(series, Max({1, Len(series) - MostShown(limit) + 1}), Len(series))

\* A score is a share of at most a few dozen documents, so no two differ by exactly
\* the tolerance.
FieldStatus(current, previous, field) ==
  IF field \notin DOMAIN current THEN "excluded"
  ELSE IF field \notin DOMAIN previous THEN "new"
  ELSE IF current[field] > previous[field] + RegressionTolerance THEN "improved"
  ELSE IF current[field] < previous[field] - RegressionTolerance THEN "regressed"
  ELSE "stable"

\* round(score * documents).
MatchesShown(score, documents) == (2 * score * documents + 10000) \div 20000

FieldState == {"improved", "stable", "regressed", "new", "excluded"}

FieldComparison(runs, current, previous) ==
  LET before == IF previous = 0 THEN << >> ELSE runs[previous].by_field
  IN [fields       |-> [s \in FieldState |->
                          {f \in EvaluatedFields : FieldStatus(runs[current].by_field, before, f) = s}],
      new_failures |-> IF previous = 0 THEN None ELSE runs[current].failures - runs[previous].failures]

\* A group of scenarios: how many cases it has, against its target.
ScenarioCoverage(current, target) ==
  [coverage  |-> IF target = 0 THEN None ELSE IF current >= target THEN 10000 ELSE Rate(current, target),
   remaining |-> IF current >= target THEN 0 ELSE target - current]

----------------------------------------------------------------------------
\* Without a choice the newest judged run is shown, and no run is listed twice or from
\* elsewhere.
ChoiceTells(runs, selected, asked, workspace) ==
  /\ runs[selected].id # asked =>
       \A i \in DOMAIN runs :
         /\ runs[i].id # asked
         /\ runs[i].verdict => runs[selected].verdict /\ runs[i].observed <= runs[selected].observed
  /\ \A i, j \in DOMAIN runs : /\ runs[i].workspace \in {None, workspace}
                              /\ runs[i].id = runs[j].id => i = j

\* The trend shows the selected run unless as many others of its series, none of them
\* older, as it may show push it out, and not when as many are newer.
TrendTells(runs, selected, limit) ==
  LET run == runs[selected]
      others == Series(runs, selected) \ {selected}
      shown == \E k \in DOMAIN Trend(runs, selected, limit) : Trend(runs, selected, limit)[k] = run
  IN /\ Cardinality({i \in others : runs[i].observed >= run.observed}) < MostShown(limit) => shown
     /\ shown => Cardinality({i \in others : runs[i].observed > run.observed}) < MostShown(limit)

\* A run is compared with the newest earlier one of its own dataset, version and
\* split; its fields are each in one state; and turned round, the comparison says the
\* reverse. A fingerprint names one version of one split.
ComparisonTells(runs, selected, previous) ==
  \A comparison \in {FieldComparison(runs, selected, previous)} :
    /\ UNION {comparison.fields[s] : s \in FieldState} = EvaluatedFields
    /\ SumFunction([s \in FieldState |-> Cardinality(comparison.fields[s])]) = 8
    /\ previous = 0 => \A s \in {"improved", "stable", "regressed"} : comparison.fields[s] = {}
    /\ \A i \in DOMAIN runs :
         (runs[i].compare = runs[selected].compare /\ runs[i].observed < runs[selected].observed)
           => previous # 0 /\ runs[i].observed <= runs[previous].observed
    /\ previous # 0 =>
         /\ runs[previous].observed < runs[selected].observed
         /\ <<runs[previous].dataset, runs[previous].version, runs[previous].split>>
              = <<runs[selected].dataset, runs[selected].version, runs[selected].split>>
         /\ \A reverse \in {FieldComparison(runs, previous, selected)} :
              /\ reverse.fields["improved"] = comparison.fields["regressed"]
              /\ reverse.new_failures = 0 - comparison.new_failures

\* Of the runs of this workspace and the public ones, the right one is shown, in its
\* trend, and compared with what it can be compared with. About
\* evaluation/dashboard.py, dashboard.
ComparisonsAddUp(public, history, workspace, asked, limit) ==
  \A runs \in {AllRuns(public, history, workspace)} :
    \A selected \in {SelectRun(runs, asked)} \ {0} :
      /\ ChoiceTells(runs, selected, asked, workspace)
      /\ TrendTells(runs, selected, limit)
      /\ ComparisonTells(runs, selected, PreviousComparable(runs, selected))

\* The page tells a field's matches from its rounded score, and a group's coverage is
\* full exactly when no case remains. About _field_comparison and _scenario_coverage.
ScoresTellCounts(documents) ==
  \A n \in 0..documents :
    /\ MatchesShown(Rate(n, documents), documents) = n
    /\ (ScenarioCoverage(n, documents).coverage = 10000) <=> (ScenarioCoverage(n, documents).remaining = 0)
=============================================================================
