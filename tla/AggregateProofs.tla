-------------------------- MODULE AggregateProofs --------------------------
(***************************************************************************)
(* The reports of module Aggregate are digests, for every number of        *)
(* workers, errors and passes.  The digest of a sequence is preserved by   *)
(* appending to it (record) and by concatenation (merge); the invariant is *)
(* inductive once the types are known.                                     *)
(***************************************************************************)
EXTENDS Aggregate, TLAPS

\* The records of a report, as far as the proofs need to know them.
AnyReport(r) ==
  /\ r = [has_first_error |-> r.has_first_error, first |-> r.first,
          error_count |-> r.error_count, min_error_offset |-> r.min_error_offset,
          max_error_offset |-> r.max_error_offset, bit_diff_or |-> r.bit_diff_or]
  /\ r.has_first_error \in BOOLEAN /\ r.error_count \in Nat
  /\ r.min_error_offset \in Nat /\ r.max_error_offset \in Nat

AnyError(e) == e.offset \in Nat

\* An empty report is a digest of no errors.
LEMMA InitDigests == Digests(report_init, <<>>) /\ AnyReport(report_init)
  BY DEF Digests, report_init, AnyReport

\* u begins with m elements of s and goes on with n elements of t.
Parts(u, s, t, m, n) ==
  /\ m \in Nat /\ n \in Nat
  /\ \A i \in 1 .. m : u[i] = s[i]
  /\ \A i \in 1 .. n : u[m + i] = t[i]

\* The differing bits of the first n errors of s.
BitsOf(s, n) == UNION {s[i].xor_diff : i \in 1 .. n}

\* The bits of a concatenation are the bits of its parts.
LEMMA UnionOfParts ==
  ASSUME NEW u, NEW s, NEW t, NEW m, NEW n, Parts(u, s, t, m, n)
  PROVE  BitsOf(u, m + n) = BitsOf(s, m) \cup BitsOf(t, n)
  <1> USE DEF Parts, BitsOf
  <1>1. ASSUME NEW i \in 1 .. (m + n), NEW x \in u[i].xor_diff
        PROVE  \/ \E a \in 1 .. m : x \in s[a].xor_diff
               \/ \E a \in 1 .. n : x \in t[a].xor_diff
    <2>1. CASE i <= m
      <3>1. i \in 1 .. m BY <2>1
      <3> QED BY <3>1, <1>1
    <2>2. CASE i > m
      <3>1. i - m \in 1 .. n /\ m + (i - m) = i BY <2>2
      <3>2. u[i] = t[i - m] BY <3>1
      <3> QED BY <3>1, <3>2, <1>1
    <2> QED BY <2>1, <2>2
  <1>2. ASSUME NEW a \in 1 .. m, NEW x \in s[a].xor_diff
        PROVE  \E i \in 1 .. (m + n) : x \in u[i].xor_diff
    <2>1. a \in 1 .. (m + n) /\ u[a] = s[a] OBVIOUS
    <2> QED BY <2>1, <1>2
  <1>3. ASSUME NEW a \in 1 .. n, NEW x \in t[a].xor_diff
        PROVE  \E i \in 1 .. (m + n) : x \in u[i].xor_diff
    <2>1. m + a \in 1 .. (m + n) /\ u[m + a] = t[a] OBVIOUS
    <2> QED BY <2>1, <1>3
  <1>4. ASSUME NEW x
        PROVE  x \in UNION {u[i].xor_diff : i \in 1 .. (m + n)} <=>
                 \/ x \in UNION {s[i].xor_diff : i \in 1 .. m}
                 \/ x \in UNION {t[i].xor_diff : i \in 1 .. n}
    BY <1>1, <1>2, <1>3
  <1> QED BY <1>4

\* Recording one more error keeps the digest (nxmt_report_record_error).
LEMMA RecordDigests ==
  ASSUME NEW E, NEW r, NEW s \in Seq(E), NEW e \in E,
         \A x \in E : AnyError(x), AnyReport(r), Digests(r, s)
  PROVE  AnyReport(report_record_error(r, e)) /\ Digests(report_record_error(r, e), Append(s, e))
  <1> DEFINE q == report_record_error(r, e)
             t == Append(s, e)
             n == Len(s)
  <1>1. n \in Nat /\ Len(t) = n + 1 /\ t[n + 1] = e /\ \A i \in 1 .. n : t[i] = s[i]
    OBVIOUS
  <1>2. t # <<>> /\ (s = <<>> <=> n = 0)
    OBVIOUS
  <1>3. e.offset \in Nat /\ \A i \in 1 .. n : s[i].offset \in Nat
    BY DEF AnyError
  <1>4. AnyReport(q)
    BY DEF AnyReport, AnyError, report_record_error
  <1>5. q.error_count = Len(t) /\ q.has_first_error
    BY <1>1, <1>2 DEF Digests, report_record_error
  <1>6. q.first = t[1]
    BY <1>1, <1>2 DEF Digests, report_record_error
  <1>7. /\ q.min_error_offset = (IF n = 0 \/ e.offset < r.min_error_offset
                                 THEN e.offset ELSE r.min_error_offset)
        /\ q.max_error_offset = (IF n = 0 \/ e.offset > r.max_error_offset
                                 THEN e.offset ELSE r.max_error_offset)
    BY <1>2 DEF Digests, report_record_error
  <1>8. n # 0 =>
          /\ \A i \in 1 .. n : r.min_error_offset <= s[i].offset
          /\ \A i \in 1 .. n : s[i].offset <= r.max_error_offset
          /\ \E i \in 1 .. n : r.min_error_offset = s[i].offset
          /\ \E i \in 1 .. n : r.max_error_offset = s[i].offset
    BY <1>2 DEF Digests
  <1>9. r.min_error_offset \in Nat /\ r.max_error_offset \in Nat
    BY DEF AnyReport
  <1>10. q.bit_diff_or = BitsOf(t, Len(t))
    <2>1. BitsOf(t, n + 1) = BitsOf(s, n) \cup BitsOf(<<e>>, 1)
      <3>1. Parts(t, s, <<e>>, n, 1)
        BY <1>1 DEF Parts
      <3> HIDE DEF t, n
      <3> QED BY <3>1, UnionOfParts
    <2>2. BitsOf(<<e>>, 1) = e.xor_diff
      <3>1. 1 .. 1 = {1} /\ <<e>>[1] = e OBVIOUS
      <3> QED BY <3>1 DEF BitsOf
    <2>3. q.bit_diff_or = r.bit_diff_or \cup e.xor_diff
      BY DEF report_record_error
    <2>4. r.bit_diff_or = BitsOf(s, n)
      BY DEF Digests, BitsOf
    <2> HIDE DEF q, t, n
    <2> QED BY <1>1, <2>1, <2>2, <2>3, <2>4
  <1> HIDE DEF q, t, n
  <1>11. \A i \in 1 .. (n + 1) : i \in 1 .. n \/ i = n + 1
    BY <1>1
  <1>12. \A i \in 1 .. Len(t) : q.min_error_offset <= t[i].offset
    BY <1>1, <1>3, <1>7, <1>8, <1>9, <1>11
  <1>13. \A i \in 1 .. Len(t) : t[i].offset <= q.max_error_offset
    BY <1>1, <1>3, <1>7, <1>8, <1>9, <1>11
  <1>14. (n + 1) \in 1 .. Len(t) /\ \A i \in 1 .. n : i \in 1 .. Len(t)
    BY <1>1
  <1>15. \E i \in 1 .. Len(t) : q.min_error_offset = t[i].offset
    BY <1>1, <1>7, <1>8, <1>14
  <1>16. \E i \in 1 .. Len(t) : q.max_error_offset = t[i].offset
    BY <1>1, <1>7, <1>8, <1>14
  <1>17. Digests(q, t)
    BY <1>2, <1>5, <1>6, <1>10, <1>12, <1>13, <1>15, <1>16, Zenon DEF Digests, BitsOf
  <1> QED BY <1>4, <1>17 DEF q, t

\* Merging a report keeps the digest of all (nxmt_report_merge).
LEMMA MergeDigests ==
  ASSUME NEW E, NEW d, NEW s \in Seq(E), NEW r, NEW t \in Seq(E),
         \A x \in E : AnyError(x), AnyReport(d), Digests(d, s), AnyReport(r), Digests(r, t)
  PROVE  AnyReport(report_merge(d, r)) /\ Digests(report_merge(d, r), s \o t)
  <1> DEFINE q == report_merge(d, r)
             u == s \o t
             m == Len(s)
             n == Len(t)
  <1>1. /\ m \in Nat /\ n \in Nat /\ Len(u) = m + n
        /\ \A i \in 1 .. m : u[i] = s[i]
        /\ \A i \in 1 .. n : u[m + i] = t[i]
    OBVIOUS
  <1>2. (s = <<>> <=> m = 0) /\ (t = <<>> <=> n = 0) /\ (u = <<>> <=> Len(u) = 0)
    OBVIOUS
  <1>3. /\ \A i \in 1 .. m : s[i].offset \in Nat
        /\ \A i \in 1 .. n : t[i].offset \in Nat
    BY DEF AnyError
  <1>a. CASE t = <<>>
    <2>1. q = d
      BY <1>a, <1>2 DEF report_merge, Digests
    <2>2. u = s
      BY <1>a
    <2> QED BY <2>1, <2>2
  <1>b. CASE t # <<>>
    <2>1. n # 0 /\ r.error_count # 0 /\ r.has_first_error /\ u # <<>>
      BY <1>b, <1>1, <1>2 DEF Digests
    <2>2. d.has_first_error <=> m # 0
      BY <1>2 DEF Digests
    <2>3. AnyReport(q)
      BY <2>1 DEF AnyReport, report_merge
    <2>4. q.error_count = Len(u) /\ q.has_first_error
      BY <2>1, <1>1 DEF Digests, AnyReport, report_merge
    <2>5. q.first = u[1]
      BY <2>1, <1>1, <1>2, <1>b DEF Digests, AnyReport, report_merge
    <2>6. /\ q.min_error_offset = (IF m = 0 \/ r.min_error_offset < d.min_error_offset
                                   THEN r.min_error_offset ELSE d.min_error_offset)
          /\ q.max_error_offset = (IF m = 0 \/ r.max_error_offset > d.max_error_offset
                                   THEN r.max_error_offset ELSE d.max_error_offset)
      BY <2>1, <2>2 DEF report_merge
    <2>7. m # 0 =>
            /\ \A i \in 1 .. m : d.min_error_offset <= s[i].offset
            /\ \A i \in 1 .. m : s[i].offset <= d.max_error_offset
            /\ \E i \in 1 .. m : d.min_error_offset = s[i].offset
            /\ \E i \in 1 .. m : d.max_error_offset = s[i].offset
      BY <1>2 DEF Digests
    <2>8. /\ \A i \in 1 .. n : r.min_error_offset <= t[i].offset
          /\ \A i \in 1 .. n : t[i].offset <= r.max_error_offset
          /\ \E i \in 1 .. n : r.min_error_offset = t[i].offset
          /\ \E i \in 1 .. n : r.max_error_offset = t[i].offset
      BY <1>b DEF Digests
    <2>9. /\ d.min_error_offset \in Nat /\ d.max_error_offset \in Nat
          /\ r.min_error_offset \in Nat /\ r.max_error_offset \in Nat
      BY DEF AnyReport
    <2>10. /\ q.bit_diff_or = d.bit_diff_or \cup r.bit_diff_or
           /\ d.bit_diff_or = BitsOf(s, m)
           /\ r.bit_diff_or = BitsOf(t, n)
      BY <2>1 DEF report_merge, Digests, BitsOf
    <2> HIDE DEF q, u, m, n
    <2>11. q.bit_diff_or = BitsOf(u, Len(u))
      <3>1. Parts(u, s, t, m, n)
        BY <1>1 DEF Parts
      <3> QED BY <1>1, <2>10, <3>1, UnionOfParts
    <2>12. \A i \in 1 .. Len(u) : \/ i \in 1 .. m /\ u[i] = s[i]
                                  \/ i - m \in 1 .. n /\ u[i] = t[i - m]
      <3> SUFFICES ASSUME NEW i \in 1 .. Len(u), i \notin 1 .. m
                   PROVE  i - m \in 1 .. n /\ u[i] = t[i - m]
        BY <1>1
      <3>1. i - m \in 1 .. n /\ m + (i - m) = i
        BY <1>1
      <3> QED BY <3>1, <1>1
    <2>13. /\ \A i \in 1 .. m : i \in 1 .. Len(u)
           /\ \A i \in 1 .. n : m + i \in 1 .. Len(u)
      BY <1>1
    <2>14. \A i \in 1 .. Len(u) : q.min_error_offset <= u[i].offset
      <3> SUFFICES ASSUME NEW i \in 1 .. Len(u) PROVE q.min_error_offset <= u[i].offset
        OBVIOUS
      <3>1. CASE i \in 1 .. m /\ u[i] = s[i]
        <4>1. m # 0 BY <1>1, <3>1
        <4> QED BY <4>1, <3>1, <1>3, <2>6, <2>7, <2>9, SMTT(30)
      <3>2. CASE i - m \in 1 .. n /\ u[i] = t[i - m]
        <4>1. r.min_error_offset <= u[i].offset /\ u[i].offset \in Nat
          BY <3>2, <2>8, <1>3
        <4> QED BY <4>1, <2>6, <2>9
      <3> QED BY <3>1, <3>2, <2>12
    <2>15. \A i \in 1 .. Len(u) : u[i].offset <= q.max_error_offset
      <3> SUFFICES ASSUME NEW i \in 1 .. Len(u) PROVE u[i].offset <= q.max_error_offset
        OBVIOUS
      <3>1. CASE i \in 1 .. m /\ u[i] = s[i]
        <4>1. m # 0 BY <1>1, <3>1
        <4> QED BY <4>1, <3>1, <1>3, <2>6, <2>7, <2>9, SMTT(30)
      <3>2. CASE i - m \in 1 .. n /\ u[i] = t[i - m]
        <4>1. u[i].offset <= r.max_error_offset /\ u[i].offset \in Nat
          BY <3>2, <2>8, <1>3
        <4> QED BY <4>1, <2>6, <2>9
      <3> QED BY <3>1, <3>2, <2>12
    <2>16. /\ \E i \in 1 .. Len(u) : r.min_error_offset = u[i].offset
           /\ \E i \in 1 .. Len(u) : r.max_error_offset = u[i].offset
      BY <1>1, <2>8, <2>13
    <2>17. m # 0 => /\ \E i \in 1 .. Len(u) : d.min_error_offset = u[i].offset
                    /\ \E i \in 1 .. Len(u) : d.max_error_offset = u[i].offset
      BY <1>1, <2>7, <2>13
    <2>18. /\ \E i \in 1 .. Len(u) : q.min_error_offset = u[i].offset
           /\ \E i \in 1 .. Len(u) : q.max_error_offset = u[i].offset
      BY <2>6, <2>16, <2>17
    <2>19. Digests(q, u)
      BY <2>1, <2>4, <2>5, <2>11, <2>14, <2>15, <2>18, Zenon DEF Digests, BitsOf
    <2> QED BY <2>3, <2>19 DEF q, u
  <1> QED BY <1>a, <1>b

-----------------------------------------------------------------------------
\* The digests, with the types they need.
Digested ==
  /\ log \in [Workers -> Seq(Found)] /\ total_log \in Seq(Found)
  /\ next \in Nat
  /\ DOMAIN reports = Workers /\ reports = [w \in Workers |-> reports[w]]
  /\ \A w \in Workers : AnyReport(reports[w])
  /\ AnyReport(report)
  /\ RecordsDigested
  /\ MergedReportExact

\* The reports are digests of everything that was recorded and merged, in every
\* reachable state: no error of any worker is lost between the runner's walk and
\* the run's report (report.c:11-70).
THEOREM ReportsExact == Spec => [](RecordsDigested /\ MergedReportExact)
  <1> USE AggregateAssumption
  <1>0. \A x \in Found : AnyError(x)
    BY DEF AnyError
  <1>1. Init => Digested
    BY InitDigests DEF Init, Digested, RecordsDigested, MergedReportExact
  <1>2. Digested /\ [Next]_vars => Digested'
    <2> SUFFICES ASSUME Digested, [Next]_vars PROVE Digested'
      OBVIOUS
    <2>1. ASSUME NEW w \in Workers, NEW e \in Found, RecordError(w, e) PROVE Digested'
      <3> USE <2>1 DEF RecordError
      <3>1. log' \in [Workers -> Seq(Found)]
        BY DEF Digested
      <3>2. /\ AnyReport(report_record_error(reports[w], e))
            /\ Digests(report_record_error(reports[w], e), Append(log[w], e))
        BY <1>0, RecordDigests DEF Digested, RecordsDigested
      <3>3. /\ reports'[w] = report_record_error(reports[w], e)
            /\ \A v \in Workers \ {w} : reports'[v] = reports[v]
            /\ DOMAIN reports' = Workers /\ reports' = [v \in Workers |-> reports'[v]]
        BY DEF Digested
      <3>4. /\ log'[w] = Append(log[w], e)
            /\ \A v \in Workers \ {w} : log'[v] = log[v]
        BY DEF Digested
      <3>5. \A v \in Workers : AnyReport(reports'[v]) /\ Digests(reports'[v], log'[v])
        BY <3>2, <3>3, <3>4 DEF Digested, RecordsDigested
      <3> QED BY <3>1, <3>3, <3>5 DEF Digested, RecordsDigested, MergedReportExact
    <2>2. CASE MergeNext
      <3> USE <2>2 DEF MergeNext
      <3>1. next \in Workers
        BY DEF Digested, Workers
      <3>2. /\ AnyReport(report_merge(report, reports[next]))
            /\ Digests(report_merge(report, reports[next]), total_log \o log[next])
        BY <1>0, <3>1, MergeDigests DEF Digested, RecordsDigested, MergedReportExact
      <3>3. total_log' \in Seq(Found)
        BY <3>1 DEF Digested
      <3> QED BY <3>2, <3>3 DEF Digested, RecordsDigested, MergedReportExact
    <2>3. CASE NextPass
      BY <2>3, InitDigests DEF NextPass, Digested, RecordsDigested, MergedReportExact
    <2>4. CASE JoinWorkers \/ Finish \/ Terminated \/ UNCHANGED vars
      BY <2>4 DEF JoinWorkers, Finish, Terminated, vars, Digested, RecordsDigested,
                  MergedReportExact
    <2> QED BY <2>1, <2>2, <2>3, <2>4 DEF Next
  <1>3. Digested => RecordsDigested /\ MergedReportExact
    BY DEF Digested
  <1> QED BY <1>1, <1>2, <1>3, PTL DEF Spec
=============================================================================
