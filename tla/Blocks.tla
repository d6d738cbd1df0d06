------------------------------- MODULE Blocks -------------------------------
(***************************************************************************)
(* The partition of an arena of total_words words among worker_count       *)
(* workers (source/core/arena.c).  Worker i owns the contiguous slice      *)
(* [split_block_start(i), split_block_start(i) + split_block_size(i)).     *)
(***************************************************************************)
EXTENDS Integers

\* Mutant: every worker gets total/count words and the remainder is dropped.
split_block_size_no_remainder(total_words, worker_count, worker_index) ==
  IF worker_count = 0 \/ worker_index >= worker_count
  THEN 0
  ELSE total_words \div worker_count

\* Mutant: the slice starts as if no earlier worker had an extra word.
split_block_start_no_extra(total_words, worker_count, worker_index) ==
  IF worker_count = 0 \/ worker_index > worker_count
  THEN 0
  ELSE (total_words \div worker_count) * worker_index

split_block_start(total_words, worker_count, worker_index) ==
  IF worker_count = 0 \/ worker_index > worker_count
  THEN 0
  ELSE LET base      == total_words \div worker_count
           remainder == total_words % worker_count
           extra     == IF worker_index < remainder THEN worker_index ELSE remainder
       IN  base * worker_index + extra

split_block_size(total_words, worker_count, worker_index) ==
  IF worker_count = 0 \/ worker_index >= worker_count
  THEN 0
  ELSE LET base      == total_words \div worker_count
           remainder == total_words % worker_count
       IN  base + (IF worker_index < remainder THEN 1 ELSE 0)
=============================================================================
