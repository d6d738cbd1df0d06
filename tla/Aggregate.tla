----------------------------- MODULE Aggregate -----------------------------
(***************************************************************************)
(* From single mismatches to the run's report: the workers record errors   *)
(* in their own reports while a pass runs, main merges these in the order  *)
(* of the workers when they have ended, and goes on to another pass only   *)
(* if nothing was found (source/core/report.c, main.c:348-362, 1153-1167). *)
(* The history variables log and total_log hold all that was recorded, in  *)
(* order; the properties say that the reports are faithful digests of them.*)
(***************************************************************************)
EXTENDS Report, Sequences, FiniteSets

CONSTANTS
  WorkerCount,
  Found,        \* the errors a worker may find
  MaxErrors,    \* bound: errors of one worker in one pass
  MaxPasses     \* bound: passes

ASSUME AggregateAssumption ==
  /\ WorkerCount \in Nat \ {0} /\ MaxErrors \in Nat /\ MaxPasses \in Nat \ {0}
  /\ \A e \in Found : e.offset \in Nat

Workers == 0 .. (WorkerCount - 1)

VARIABLES
  mode,               \* "test": the workers run; "merge": main merges; "done"
  passes,             \* passes begun
  reports, log,       \* each worker's report, and what it has recorded
  next,               \* the worker to be merged next
  report, total_log   \* main's report, and what has been merged into it

vars == <<mode, passes, reports, log, next, report, total_log>>

Init ==
  /\ mode = "test" /\ passes = 1 /\ next = 0
  /\ reports = [w \in Workers |-> report_init] /\ log = [w \in Workers |-> <<>>]
  /\ report = report_init /\ total_log = <<>>

RecordError(w, e) ==
  /\ mode = "test" /\ Len(log[w]) < MaxErrors
  /\ reports' = [reports EXCEPT ![w] = report_record_error(@, e)]
  /\ log' = [log EXCEPT ![w] = Append(@, e)]
  /\ UNCHANGED <<mode, passes, next, report, total_log>>

\* Every worker has ended.
JoinWorkers ==
  /\ mode = "test"
  /\ mode' = "merge" /\ next' = 0
  /\ UNCHANGED <<passes, reports, log, report, total_log>>

MergeNext ==
  /\ mode = "merge" /\ next < WorkerCount
  /\ report' = report_merge(report, reports[next])
  /\ total_log' = total_log \o log[next]
  /\ next' = next + 1
  /\ UNCHANGED <<mode, passes, reports, log>>

\* worker_entry initialises the reports of the next pass.
NextPass ==
  /\ mode = "merge" /\ next = WorkerCount
  /\ report.error_count = 0 /\ passes < MaxPasses
  /\ mode' = "test" /\ passes' = passes + 1 /\ next' = 0
  /\ reports' = [w \in Workers |-> report_init] /\ log' = [w \in Workers |-> <<>>]
  /\ UNCHANGED <<report, total_log>>

Finish ==
  /\ mode = "merge" /\ next = WorkerCount
  /\ mode' = "done"
  /\ UNCHANGED <<passes, reports, log, next, report, total_log>>

Terminated == mode = "done" /\ UNCHANGED vars

Next ==
  \/ \E w \in Workers, e \in Found : RecordError(w, e)
  \/ JoinWorkers \/ MergeNext \/ NextPass \/ Finish
  \/ Terminated

Spec == Init /\ [][Next]_vars

-----------------------------------------------------------------------------
\* Report r is a digest of the errors of sequence s.
Digests(r, s) ==
  /\ r.error_count = Len(s)
  /\ r.has_first_error <=> s # <<>>
  /\ s # <<>> =>
       /\ r.first = s[1]
       /\ \A i \in 1 .. Len(s) : r.min_error_offset <= s[i].offset
       /\ \A i \in 1 .. Len(s) : s[i].offset <= r.max_error_offset
       /\ \E i \in 1 .. Len(s) : r.min_error_offset = s[i].offset
       /\ \E i \in 1 .. Len(s) : r.max_error_offset = s[i].offset
  /\ r.bit_diff_or = UNION {s[i].xor_diff : i \in 1 .. Len(s)}

\* Each worker's report is a digest of the errors it has recorded: nothing that
\* nxmt_report_record_error is told is lost, the first error stays the first, the
\* range and the OR of the bits are exact.
RecordsDigested == \A w \in Workers : Digests(reports[w], log[w])

\* The run's report is a digest of all the errors of all the workers, in the order
\* of the workers: a worker without errors does not disturb the range, and merging
\* loses no worker's errors (report.c:49-70).
MergedReportExact == Digests(report, total_log)
=============================================================================
