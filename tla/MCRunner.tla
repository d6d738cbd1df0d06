------------------------------ MODULE MCRunner ------------------------------
(* Instances of Runner for TLC: words of 8 bits in bytes of 4 bits, a stamp *)
(* of 4 words, an arena of a few words.                                     *)
EXTENDS Runner

NoFault == [kind |-> "none", word |-> 0, bit |-> 0, one |-> FALSE, to |-> 0]
Stuck(a, b, v) == [NoFault EXCEPT !.kind = "stuck", !.word = a, !.bit = b, !.one = v]
Alias(a, c) == [NoFault EXCEPT !.kind = "alias", !.word = a, !.to = c]

\* A healthy memory.
MCHealthy == {NoFault}
\* A low and a high bit, stuck at either value, of every word.
MCStuck == {Stuck(a, b, v) : a \in Cells, b \in {0, WordBits - 1}, v \in BOOLEAN}
\* Two words of one slice that share a cell.
MCAlias == {Alias(f[1], f[2]) : f \in
              UNION {{<<a, c>> \in Slice(w) \X Slice(w) : a # c} : w \in Workers}}
MCAnyMemory == MCHealthy \cup MCStuck \cup MCAlias

MCSeed == {0, 2, 3, 7}
MCZeroFill == {{}}
\* An arena that still holds the pattern of a phase, or its complement.
MCStaleFill == {kFixedA, kFixed5}
=============================================================================
