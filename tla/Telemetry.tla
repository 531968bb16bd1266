----------------------------- MODULE Telemetry -----------------------------
(***************************************************************************)
(* The numbers the administrator's pages show of the processing jobs: the  *)
(* metrics, the job health, the provider health and the system dashboard.  *)
(* All are functions of a snapshot sys of one workspace: the rows of its   *)
(* job ledger (sys.jobs), with the provider a success names and the        *)
(* provider an error message names, and its export runs (sys.runs).        *)
(* Each number has an SQL reading and one for the in-memory store; the SQL *)
(* of SQLite and of PostgreSQL groups alike.  Times are whole minutes.     *)
(***************************************************************************)
EXTENDS Integers, FiniteSets, FiniteSetsExt, Functions

CONSTANT Unset      \* a column that is NULL

\* No time is NULL.
ASSUME UnsetAssumption == Unset \notin Int

QueueStates   == {"queued", "running", "retrying", "failed", "dead_letter", "succeeded"}
WaitingStates == {"queued", "retrying"}
FailedStates  == {"failed", "dead_letter"}

StalledAfter == 5   \* minutes

----------------------------------------------------------------------------
(* The metrics.                                                             *)

\* The rows of GROUP BY status, provider_name.
JobGroups(sys) == {<<j.status, j.provider>> : j \in sys.jobs}
InGroup(sys, g) == {j \in sys.jobs : <<j.status, j.provider>> = g}

Timed(jobs) ==
  {j \in jobs : /\ j.status = "succeeded" /\ Unset \notin {j.started, j.finished}
                /\ j.finished >= j.started}
Durations(jobs) == SumFunction([j \in Timed(jobs) |-> j.finished - j.started])

\* The rows of the groups are added up.
SqlJobMetrics(sys) ==
  LET records(groups) == SumFunction([g \in groups |-> Cardinality(InGroup(sys, g))])
      some(P(_)) == records({g \in JobGroups(sys) : P(g)})
  IN [total     |-> records(JobGroups(sys)),
      queue     |-> [s \in QueueStates |-> some(LAMBDA g : g[1] = s)],
      failures  |-> some(LAMBDA g : g[1] \in FailedStates),
      runs      |-> [p \in {g[2] : g \in JobGroups(sys)} \ {Unset} |-> some(LAMBDA g : g[2] = p)],
      succeeded |-> some(LAMBDA g : g[1] = "succeeded"),
      duration  |-> SumFunction([g \in JobGroups(sys) |-> Durations(InGroup(sys, g))]),
      timed     |-> SumFunction([g \in JobGroups(sys) |-> Cardinality(Timed(InGroup(sys, g)))])]

\* The jobs are counted one by one.
MemoryJobMetrics(sys) ==
  LET count(P(_)) == Cardinality({j \in sys.jobs : P(j)})
  IN [total     |-> Cardinality(sys.jobs),
      queue     |-> [s \in QueueStates |-> count(LAMBDA j : j.status = s)],
      failures  |-> count(LAMBDA j : j.status \in FailedStates),
      runs      |-> [p \in {j.provider : j \in sys.jobs} \ {Unset} |-> count(LAMBDA j : j.provider = p)],
      succeeded |-> count(LAMBDA j : j.status = "succeeded"),
      duration  |-> Durations(sys.jobs),
      timed     |-> Cardinality(Timed(sys.jobs))]

----------------------------------------------------------------------------
(* Job health and provider health.                                          *)

Health(sys, now) ==
  [queued  |-> Cardinality({j \in sys.jobs : j.status \in WaitingStates}),
   failed  |-> Cardinality({j \in sys.jobs : j.status \in FailedStates}),
   stalled |-> Cardinality({j \in sys.jobs : j.status = "running" /\ j.updated < now - StalledAfter})]

WorkerStatus(sys, now) == IF Health(sys, now).stalled > 0 THEN "degraded" ELSE "healthy"

\* The failed jobs, the last updated first and by id, a page at a time.
FailedBefore(a, b) == a.updated > b.updated \/ (a.updated = b.updated /\ a.id > b.id)

FailurePage(sys, page, size) ==
  LET failed == {j \in sys.jobs : j.status \in FailedStates}
      rank(j) == Cardinality({i \in failed : FailedBefore(i, j)})
  IN {j \in failed : rank(j) \div size = page - 1}

\* max(1, ceil(failed / size)).
FailurePages(sys, size) ==
  LET pages == (Cardinality({j \in sys.jobs : j.status \in FailedStates}) + size - 1) \div size
  IN IF pages < 1 THEN 1 ELSE pages

Activity(sys, name) ==
  [runs     |-> Cardinality({j \in sys.jobs : j.provider = name}),
   failures |-> Cardinality({j \in sys.jobs : j.provider = name /\ j.status \in FailedStates})]

ProviderStatus(sys, provider) ==
  IF Activity(sys, provider.runtime).failures > 0 THEN "degraded"
  ELSE IF provider.configured = "mock" THEN "healthy" ELSE "ready_unverified"

ProvidersOverall(sys, providers) ==
  LET statuses == {ProviderStatus(sys, p) : p \in providers}
  IN IF "degraded" \in statuses THEN "degraded"
     ELSE IF "ready_unverified" \in statuses THEN "ready_unverified" ELSE "healthy"

----------------------------------------------------------------------------
(* The system dashboard.                                                    *)

Latest(times) == IF times = {} THEN Unset ELSE Max(times)

\* A provider is judged by the last failure that names it and the last success
\* of any job.
ProviderService(sys, provider) ==
  LET failure == Latest({j.updated : j \in {i \in sys.jobs :
                   i.status \in FailedStates /\ i.error \in {provider.runtime, provider.configured}}})
      success == Latest({j.updated : j \in {i \in sys.jobs : i.status = "succeeded"}})
  IN IF provider.configured = "mock" THEN "operational"
     ELSE IF failure # Unset /\ (success = Unset \/ failure > success) THEN "degraded"
     ELSE IF success # Unset THEN "operational" ELSE "unknown"

ExportService(sys, accounting) ==
  LET latest == CHOOSE r \in sys.runs : \A o \in sys.runs : o.updated <= r.updated
  IN IF accounting \notin {"csv_download", "mock", "erpnext"} THEN "unavailable"
     ELSE IF accounting # "erpnext" /\ sys.runs # {} /\ latest.status = "failed" THEN "degraded"
     ELSE "operational"

Services(sys, ready, providers, accounting) ==
  [uploads   |-> IF {"storage", "database"} \subseteq ready THEN "operational" ELSE "unavailable",
   storage   |-> IF "storage" \in ready THEN "operational" ELSE "unavailable",
   queue     |-> IF "queue" \in ready THEN "operational" ELSE "degraded",
   reader    |-> ProviderService(sys, providers.reader),
   extractor |-> ProviderService(sys, providers.extractor),
   accounting_export |-> ExportService(sys, accounting)]

Overall(services) ==
  LET states == {services[s] : s \in DOMAIN services}
  IN IF "unavailable" \in states THEN "unavailable"
     ELSE IF "degraded" \in states THEN "degraded"
     ELSE IF "unknown" \in states THEN "unknown" ELSE "operational"

\* At most five failed jobs raise an alert each.
NeedsAttention(sys, services) ==
  Cardinality({s \in DOMAIN services : services[s] \in {"degraded", "unavailable"}})
  + Min({5, Cardinality({j \in sys.jobs : j.status \in FailedStates})})

Kpis(sys) ==
  [processing_now |-> Cardinality({j \in sys.jobs : j.status = "running"}),
   waiting        |-> Cardinality({j \in sys.jobs : j.status \in WaitingStates})]

----------------------------------------------------------------------------
\* The pages of the administrator count the same jobs: the grouped SQL counts
\* what a count of the jobs does, the metrics, the job health and the dashboard
\* call the same jobs waiting and failed, and every failed job is on exactly
\* one page of the failures, with none past the last page.  About
\* metrics/queries.py, metrics/services.py, operations/queries.py,
\* api/operations.py, providers/queries.py and system/dashboard.py.
DashboardsAgree(sys, now) ==
  LET sql == SqlJobMetrics(sys)
      health == Health(sys, now)
      failed == {j \in sys.jobs : j.status \in FailedStates}
      cancelled == {j \in sys.jobs : j.status = "cancelled"}
  IN /\ sql = MemoryJobMetrics(sys)
     /\ sql.total = Cardinality(cancelled) + SumFunction(sql.queue)
     /\ sql.queue["queued"] + sql.queue["retrying"] = health.queued
     /\ health.queued = Kpis(sys).waiting
     /\ sql.failures = health.failed
     /\ health.stalled <= Kpis(sys).processing_now
     /\ WorkerStatus(sys, now) = "degraded" => sql.queue["running"] > 0
     /\ \A p \in DOMAIN sql.runs : Activity(sys, p).runs = sql.runs[p]
     /\ \A size \in 1..2 :
          /\ \A j \in failed : Cardinality({p \in 1..FailurePages(sys, size) : j \in FailurePage(sys, p, size)}) = 1
          /\ FailurePage(sys, FailurePages(sys, size) + 1, size) = {}

\* The system is only called operational if no service needs attention and
\* every failure that names a real provider was followed by a success, and
\* providers the health page calls healthy are operational on the dashboard.
\* About system/dashboard.py and api/providers.py.
OperationalIsEarned(sys, ready, providers, accounting) ==
  LET services == Services(sys, ready, providers, accounting)
      failed == {j \in sys.jobs : j.status \in FailedStates}
  IN /\ Overall(services) = "operational" =>
          /\ NeedsAttention(sys, services) = Min({5, Cardinality(failed)})
          /\ \A p \in {providers.reader, providers.extractor}, j \in failed :
               (p.configured # "mock" /\ j.error = p.runtime) =>
                 \E k \in sys.jobs : k.status = "succeeded" /\ k.updated >= j.updated
     /\ ProvidersOverall(sys, {providers.reader, providers.extractor}) = "healthy" =>
          \A s \in {"reader", "extractor"} : services[s] = "operational"
=============================================================================
