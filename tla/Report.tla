------------------------------- MODULE Report -------------------------------
(***************************************************************************)
(* NxmtReport (source/core/report.c): what is kept of the mismatches that  *)
(* were found.  A word is a set of bits, as in module Patterns, so the OR  *)
(* of the differing bits is a union.  An error keeps the fields of         *)
(* NxmtError that vary within a run.                                       *)
(***************************************************************************)
EXTENDS Integers

\* `first` before any error: the code leaves it uninitialised and reads it
\* only under has_first_error.
ZeroError == [phase |-> "FIXED_A", pass |-> 0, worker_id |-> 0, offset |-> 0,
              expected |-> {}, actual |-> {}, xor_diff |-> {}]

report_init == [has_first_error |-> FALSE, first |-> ZeroError, error_count |-> 0,
                min_error_offset |-> 0, max_error_offset |-> 0, bit_diff_or |-> {}]

MkError(phase, pass, worker_id, offset, expected, actual) ==
  [phase |-> phase, pass |-> pass, worker_id |-> worker_id, offset |-> offset,
   expected |-> expected, actual |-> actual,
   xor_diff |-> (expected \ actual) \cup (actual \ expected)]

report_record_error(report, e) ==
  [has_first_error  |-> TRUE,
   first            |-> IF report.has_first_error THEN report.first ELSE e,
   error_count      |-> report.error_count + 1,
   min_error_offset |-> IF ~report.has_first_error \/ e.offset < report.min_error_offset
                        THEN e.offset ELSE report.min_error_offset,
   max_error_offset |-> IF ~report.has_first_error \/ e.offset > report.max_error_offset
                        THEN e.offset ELSE report.max_error_offset,
   bit_diff_or      |-> report.bit_diff_or \cup e.xor_diff]

\* Mutant: the early return on an empty source is missing, so its zero
\* offsets take part in the minimum.
report_merge_no_early_return(dst, src) ==
  LET takes == ~dst.has_first_error /\ src.has_first_error
  IN [has_first_error  |-> dst.has_first_error \/ takes,
      first            |-> IF takes THEN src.first ELSE dst.first,
      error_count      |-> dst.error_count + src.error_count,
      min_error_offset |-> IF takes \/ src.min_error_offset < dst.min_error_offset
                           THEN src.min_error_offset ELSE dst.min_error_offset,
      max_error_offset |-> IF takes \/ src.max_error_offset > dst.max_error_offset
                           THEN src.max_error_offset ELSE dst.max_error_offset,
      bit_diff_or      |-> dst.bit_diff_or \cup src.bit_diff_or]

report_merge(dst, src) ==
  IF src.error_count = 0
  THEN dst
  ELSE LET takes == ~dst.has_first_error /\ src.has_first_error
       IN [has_first_error  |-> dst.has_first_error \/ takes,
           first            |-> IF takes THEN src.first ELSE dst.first,
           error_count      |-> dst.error_count + src.error_count,
           min_error_offset |-> IF takes \/ src.min_error_offset < dst.min_error_offset
                                THEN src.min_error_offset ELSE dst.min_error_offset,
           max_error_offset |-> IF takes \/ src.max_error_offset > dst.max_error_offset
                                THEN src.max_error_offset ELSE dst.max_error_offset,
           bit_diff_or      |-> dst.bit_diff_or \cup src.bit_diff_or]
=============================================================================
