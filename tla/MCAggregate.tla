---------------------------- MODULE MCAggregate ----------------------------
(* Instances of Aggregate for TLC. *)
EXTENDS Aggregate

\* Three offsets, the first word's among them, with one or two differing bits.
MCFound == {MkError("ADDRESS", 0, 0, 0, {}, {1}),
            MkError("ADDRESS", 0, 0, 8, {0}, {1}),
            MkError("RANDOM", 0, 0, 16, {2}, {})}
=============================================================================
