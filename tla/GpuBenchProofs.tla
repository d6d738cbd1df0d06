--------------------------- MODULE GpuBenchProofs ---------------------------
(***************************************************************************)
(* The GPU probe keeps its promises for every sweep, buffer size, number   *)
(* of copies and storage, wherever deko3d fails and whatever the CPU's     *)
(* cache does meanwhile.                                                   *)
(*                                                                         *)
(* The inductive invariant says what exists of deko3d's objects at each    *)
(* place of the run (LiveInv), what the two buffers hold in memory and in  *)
(* the cache (CacheInv), and what the history of the run says about its    *)
(* verdict (VerdictInv).                                                   *)
(***************************************************************************)
EXTENDS GpuBench, TLAPS

Elements(s) == {s[i] : i \in 1 .. Len(s)}

TypeInv ==
  /\ at \in {"menu", "step", "device", "objects", "fill", "flush_both", "queue", "submit",
             "flush_dst", "compare", "destroy", "returned", "shown"}
  /\ step \in 1 .. Len(Steps) /\ storage_size \in StorageSizes
  /\ live \subseteq Objects /\ todo \in Seq(Objects)
  /\ submitted \in Nat /\ queued \in Nat /\ queued <= submitted
  /\ memory \in [Buffers -> Values]
  /\ line \in [Buffers -> [state : {"none", "clean", "dirty"}, value : Values]]
  /\ copied \in {"none", "good", "wrong"}

BoolInv == error_seen \in BOOLEAN /\ verify_ok \in BOOLEAN /\ healthy \in BOOLEAN

\* The queue may be left over from a run that failed, nothing else is; the GPU has work
\* only while main submits it or waits for it.
LiveInv ==
  /\ at \in {"menu", "step", "device", "returned", "shown"} => live \subseteq {"queue"}
  /\ at \in {"objects", "fill", "flush_both", "queue"} => "device" \in live
  /\ at \in {"fill", "flush_both", "queue"} =>
       {"cmd_mem", "cmdbuf", "src", "dst"} \subseteq live
  /\ at \in {"submit", "flush_dst", "compare"} => live = Objects
  /\ at = "destroy" => live \subseteq Elements(todo) \cup {"queue"}
  /\ at # "submit" => queued = 0
  /\ at \in {"device", "objects", "fill", "flush_both", "queue"} =>
       submitted = 0 /\ copied = "none"
  /\ at \in {"device", "objects", "fill", "flush_both", "queue", "submit"} =>
       Steps[step].iters > 0
  /\ at = "submit" => submitted <= Steps[step].iters

\* What the GPU leaves in the destination.
Left == IF copied = "good" THEN "pattern" ELSE IF copied = "wrong" THEN "wrong" ELSE "zero"

\* From the flush on no line is dirty, and the source's is never stale; the destination's
\* may be, until it is flushed again.
CacheInv ==
  /\ at = "flush_both" => WrittenBack("src") = "pattern" /\ WrittenBack("dst") = "zero"
  /\ at \in {"queue", "submit", "flush_dst", "compare"} =>
       /\ memory["src"] = "pattern" /\ memory["dst"] = Left
       /\ line["src"].state # "dirty" /\ line["dst"].state # "dirty"
       /\ line["src"].state # "none" => line["src"].value = "pattern"
  /\ at = "compare" => (line["dst"].state # "none" => line["dst"].value = memory["dst"])

\* What has gone wrong is known, and a copy that was submitted and has run is a good one
\* if nothing has.
VerdictInv ==
  /\ at \in {"device", "objects", "fill", "flush_both", "queue", "submit", "flush_dst",
             "compare"} => ~verify_ok /\ (healthy => ~error_seen)
  /\ at = "objects" => (healthy => {"cmd_mem", "cmdbuf", "src", "dst"}
                                     \subseteq live \cup Elements(todo))
  /\ at = "submit" => (healthy /\ queued < submitted => copied = "good")
  /\ at \in {"flush_dst", "compare"} => (healthy => copied = "good")
  /\ at \in {"destroy", "returned"} =>
       (verify_ok => copied = "good") /\ (healthy => verify_ok)

IInv == TypeInv /\ BoolInv /\ LiveInv /\ CacheInv /\ VerdictInv

-----------------------------------------------------------------------------
(* The orders in which objects are made and destroyed.                     *)

\* What is left of a list when its head has been taken.
LEMMA ElementsTail ==
  ASSUME NEW s \in Seq(Objects), s # <<>>
  PROVE  /\ Head(s) \in Objects /\ Tail(s) \in Seq(Objects)
         /\ Elements(s) = {Head(s)} \cup Elements(Tail(s))
<1>1. /\ Head(s) \in Objects /\ Tail(s) \in Seq(Objects) /\ Len(s) \in Nat \ {0}
      /\ Len(Tail(s)) = Len(s) - 1 /\ Head(s) = s[1]
      /\ \A i \in 1 .. Len(Tail(s)) : Tail(s)[i] = s[i + 1]
  OBVIOUS
<1>2. ASSUME NEW x \in Elements(s) PROVE x \in {Head(s)} \cup Elements(Tail(s))
  <2>1. PICK i \in 1 .. Len(s) : x = s[i]
    BY <1>2 DEF Elements
  <2>2. CASE i = 1
    BY <1>1, <2>1, <2>2
  <2>3. CASE i # 1
    <3>1. i - 1 \in 1 .. Len(Tail(s)) /\ Tail(s)[i - 1] = s[(i - 1) + 1] /\ (i - 1) + 1 = i
      BY <1>1, <2>3
    <3> QED
      BY <2>1, <3>1 DEF Elements
  <2> QED
    BY <2>2, <2>3
<1>3. ASSUME NEW x \in Elements(Tail(s)) PROVE x \in Elements(s)
  <2>1. PICK i \in 1 .. Len(Tail(s)) : x = Tail(s)[i]
    BY <1>3 DEF Elements
  <2>2. i + 1 \in 1 .. Len(s) /\ x = s[i + 1]
    BY <1>1, <2>1
  <2> QED
    BY <2>2 DEF Elements
<1>4. Head(s) \in Elements(s)
  BY <1>1 DEF Elements
<1> QED
  BY <1>1, <1>2, <1>3, <1>4

\* The three lists.
LEMMA Orders ==
  /\ ObjectOrder \in Seq(Objects) /\ FailOrder \in Seq(Objects) /\ DoneOrder \in Seq(Objects)
  /\ <<>> \in Seq(Objects) /\ Elements(<<>>) = {}
  /\ Elements(ObjectOrder) = {"cmd_mem", "cmdbuf", "src", "dst"}
  /\ {ObjectOrder[i] : i \in DOMAIN ObjectOrder} = {"cmd_mem", "cmdbuf", "src", "dst"}
  /\ Elements(FailOrder) = Objects \ {"queue"}
  /\ Elements(DoneOrder) = Objects
<1>1. /\ Len(ObjectOrder) = 4 /\ Len(FailOrder) = 5 /\ Len(DoneOrder) = 6
      /\ DOMAIN ObjectOrder = 1 .. 4
  BY DEF ObjectOrder, FailOrder, DoneOrder
<1>2. /\ ObjectOrder \in Seq(Objects) /\ FailOrder \in Seq(Objects)
      /\ DoneOrder \in Seq(Objects) /\ <<>> \in Seq(Objects)
  BY DEF ObjectOrder, FailOrder, DoneOrder, Objects
<1>3. 1 .. 4 = {1, 2, 3, 4} /\ 1 .. 5 = {1, 2, 3, 4, 5} /\ 1 .. 6 = {1, 2, 3, 4, 5, 6}
  OBVIOUS
<1>4. Elements(<<>>) = {}
  BY DEF Elements
<1>5. {ObjectOrder[i] : i \in 1 .. 4} = {"cmd_mem", "cmdbuf", "src", "dst"}
  BY <1>3 DEF ObjectOrder
<1>6. Elements(FailOrder) = Objects \ {"queue"}
  BY <1>1, <1>3 DEF Elements, FailOrder, Objects
<1>7. Elements(DoneOrder) = Objects
  BY <1>1, <1>3 DEF Elements, DoneOrder, Objects
<1> QED
  BY <1>1, <1>2, <1>4, <1>5, <1>6, <1>7 DEF Elements

\* A step of the sweep is a size and a number of copies.
LEMMA StepTyped ==
  ASSUME step \in 1 .. Len(Steps)
  PROVE  Steps[step].size \in Nat /\ Steps[step].iters \in Nat
<1>1. ASSUME NEW S, NEW s \in Seq(S), NEW n \in 1 .. Len(s) PROVE s[n] \in S
  OBVIOUS
<1>2. Steps \in Seq([size : Nat, iters : Nat])
  BY GpuBenchAssumption
<1>3. Steps[step] \in [size : Nat, iters : Nat]
  BY <1>1, <1>2, Zenon
<1> QED
  BY <1>3

\* Every object of ObjectOrder exists, or the joint check sees that one does not.
LEMMA AllMade ==
  (\E i \in DOMAIN ObjectOrder : ObjectOrder[i] \notin live)
    <=> ~({"cmd_mem", "cmdbuf", "src", "dst"} \subseteq live)
<1>1. {"cmd_mem", "cmdbuf", "src", "dst"} = {ObjectOrder[i] : i \in DOMAIN ObjectOrder}
  BY Orders
<1> QED
  BY <1>1

-----------------------------------------------------------------------------
(* The invariant is inductive.                                             *)

\* The program starts in it.
LEMMA InitIInv == Init => IInv
<1> SUFFICES ASSUME Init PROVE IInv
  OBVIOUS
<1>1. TypeInv
  BY GpuBenchAssumption, Orders DEF Init, TypeInv, Values, NoLine
<1>2. BoolInv
  BY Zenon DEF Init, BoolInv
<1>3. LiveInv /\ CacheInv /\ VerdictInv
  BY DEF Init, LiveInv, CacheInv, VerdictInv
<1> QED
  BY <1>1, <1>2, <1>3 DEF IInv

\* The types are kept.
LEMMA TypeKeeps == IInv /\ [Next]_vars => TypeInv'
<1> SUFFICES ASSUME IInv, [Next]_vars PROVE TypeInv'
  OBVIOUS
<1> USE DEF IInv, TypeInv, runVars, bufferVars
<1>1. CASE UNCHANGED vars
  BY <1>1 DEF vars
<1>2. CASE BeginSweep \/ LeaveScreen
  BY <1>2, GpuBenchAssumption DEF BeginSweep, LeaveScreen
<1>3. CASE BeginRun
  BY <1>3, Orders DEF BeginRun, LiveInv
<1>4. ASSUME NEW made \in BOOLEAN, NEW fired \in BOOLEAN,
             CreateDevice(made, fired)
      PROVE  TypeInv'
  BY <1>4, Orders DEF CreateDevice, Made, Fail, Objects
<1>5. ASSUME NEW made \in BOOLEAN, NEW fired \in BOOLEAN,
             CreateObject(made, fired)
      PROVE  TypeInv'
  BY <1>5, ElementsTail DEF CreateObject, Made
<1>6. CASE CheckObjects
  BY <1>6, Orders DEF CheckObjects, Fail
<1>7. CASE FillBuffers
  BY <1>7 DEF
     FillBuffers, Line, Sentinel, Buffers, Values
<1>8. CASE FlushBoth
  BY <1>8 DEF
     FlushBoth, WrittenBack, NoLine, Values, Buffers
<1>9. ASSUME NEW made \in BOOLEAN, NEW fired \in BOOLEAN,
             CreateQueue(made, fired)
      PROVE  TypeInv'
  BY <1>9, Orders DEF CreateQueue, Made, Fail, Objects
<1>10. CASE Submit \/ WaitIdle
  BY <1>10 DEF Submit, WaitIdle
<1>11. CASE FlushDst
  BY <1>11 DEF
     FlushDst, FlushedDst, NoLine, WrittenBack, Values, Buffers
<1>12. CASE Compare
  BY <1>12, Orders DEF Compare
<1>13. CASE Destroy
  BY <1>13, ElementsTail DEF Destroy
<1>14. CASE EndRun
  BY <1>14, GpuBenchAssumption, SMTT(30) DEF EndRun, NextStep
<1>15. ASSUME NEW outcome \in {"good", "wrong", "lost"}, NEW fired \in BOOLEAN,
             GpuCopies(outcome, fired)
      PROVE  TypeInv'
  BY <1>15 DEF GpuCopies, Values, Buffers
<1>16. ASSUME NEW b \in Buffers, Prefetch(b) PROVE TypeInv'
  BY <1>16 DEF Prefetch, Line, Values
<1>17. ASSUME NEW b \in Buffers, Evict(b) PROVE TypeInv'
  BY <1>17 DEF Evict, WrittenBack, NoLine, Values
<1> QED
  BY <1>1, <1>2, <1>3, <1>4, <1>5, <1>6, <1>7, <1>8, <1>9, <1>10, <1>11, <1>12, <1>13,
     <1>14, <1>15, <1>16, <1>17
  DEF Next, MainStep, GpuStep

\* The flags keep their types.
LEMMA BoolKeeps == IInv /\ [Next]_vars => BoolInv'
<1> SUFFICES ASSUME BoolInv, [Next]_vars PROVE BoolInv'
  BY DEF IInv
<1> USE DEF BoolInv, runVars
<1>1. CASE UNCHANGED vars
  BY <1>1 DEF vars
<1>2. CASE BeginSweep \/ LeaveScreen \/ CheckObjects \/ FillBuffers \/ FlushBoth
  BY <1>2 DEF BeginSweep, LeaveScreen, CheckObjects, FillBuffers, FlushBoth
<1>3. CASE Submit \/ WaitIdle \/ FlushDst \/ Destroy \/ EndRun
  BY <1>3 DEF Submit, WaitIdle, FlushDst, Destroy, EndRun
<1>4. CASE BeginRun
  <2>1. healthy' \in BOOLEAN /\ error_seen' \in BOOLEAN
    BY <1>4, Zenon DEF BeginRun
  <2>2. verify_ok' \in BOOLEAN
    BY <1>4, Zenon DEF BeginRun
  <2> QED
    BY <2>1, <2>2
<1>5. CASE Compare
  <2>1. verify_ok' \in BOOLEAN
    BY <1>5, Zenon DEF Compare
  <2> QED
    BY <1>5, <2>1 DEF Compare
<1>6. ASSUME NEW made \in BOOLEAN, NEW fired \in BOOLEAN, CreateDevice(made, fired)
      PROVE  BoolInv'
  BY <1>6, Zenon DEF CreateDevice, Made
<1>7. ASSUME NEW made \in BOOLEAN, NEW fired \in BOOLEAN, CreateObject(made, fired)
      PROVE  BoolInv'
  BY <1>7, Zenon DEF CreateObject, Made
<1>8. ASSUME NEW made \in BOOLEAN, NEW fired \in BOOLEAN, CreateQueue(made, fired)
      PROVE  BoolInv'
  BY <1>8, Zenon DEF CreateQueue, Made
<1>9. ASSUME NEW outcome \in {"good", "wrong", "lost"}, NEW fired \in BOOLEAN,
             GpuCopies(outcome, fired)
      PROVE  BoolInv'
  BY <1>9, Zenon DEF GpuCopies
<1>10. ASSUME NEW b \in Buffers, Prefetch(b) \/ Evict(b) PROVE BoolInv'
  BY <1>10 DEF Prefetch, Evict
<1> QED
  BY <1>1, <1>2, <1>3, <1>4, <1>5, <1>6, <1>7, <1>8, <1>9, <1>10, Zenon
  DEF Next, MainStep, GpuStep

\* What exists fits the place of the run.
LEMMA LiveKeeps == IInv /\ [Next]_vars => LiveInv'
<1> SUFFICES ASSUME IInv, [Next]_vars PROVE LiveInv'
  OBVIOUS
<1> USE DEF IInv, TypeInv, LiveInv, runVars, bufferVars
<1>1. CASE UNCHANGED vars
  BY <1>1 DEF vars
<1>2. CASE BeginSweep \/ LeaveScreen
  BY <1>2 DEF BeginSweep, LeaveScreen
<1>3. CASE BeginRun
  BY <1>3, StepTyped DEF BeginRun
<1>4. ASSUME NEW made \in BOOLEAN, NEW fired \in BOOLEAN,
             CreateDevice(made, fired)
      PROVE  LiveInv'
  BY <1>4, Orders DEF CreateDevice, Made, Fail, Objects
<1>5. ASSUME NEW made \in BOOLEAN, NEW fired \in BOOLEAN,
             CreateObject(made, fired)
      PROVE  LiveInv'
  BY <1>5, ElementsTail DEF CreateObject, Made
<1>6. CASE CheckObjects
  <2>1. CASE error_seen \/ \E i \in DOMAIN ObjectOrder : ObjectOrder[i] \notin live
    <3>1. at' = "destroy" /\ todo' = FailOrder
      BY <1>6, <2>1 DEF CheckObjects, Fail
    <3> QED
      BY <1>6, <3>1, Orders DEF CheckObjects, Objects
  <2>2. CASE ~(error_seen \/ \E i \in DOMAIN ObjectOrder : ObjectOrder[i] \notin live)
    <3>1. at' = "fill" /\ {"cmd_mem", "cmdbuf", "src", "dst"} \subseteq live
      BY <1>6, <2>2, AllMade DEF CheckObjects
    <3> QED
      BY <1>6, <3>1 DEF CheckObjects
  <2> QED
    BY <2>1, <2>2
<1>7. CASE FillBuffers \/ FlushBoth
  BY <1>7 DEF FillBuffers, FlushBoth
<1>8. ASSUME NEW made \in BOOLEAN, NEW fired \in BOOLEAN,
             CreateQueue(made, fired)
      PROVE  LiveInv'
  <2>1. CASE at' = "destroy" /\ todo' = FailOrder
    BY <1>8, <2>1, Orders DEF CreateQueue, Made, Objects
  <2>2. CASE made /\ at' = "submit"
    <3>1. live' = Objects
      BY <1>8, <2>2 DEF CreateQueue, Made, Objects
    <3> QED
      BY <1>8, <2>2, <3>1, StepTyped DEF CreateQueue
  <2> QED
    BY <1>8, <2>1, <2>2 DEF CreateQueue, Fail
<1>9. CASE Submit
  BY <1>9, StepTyped DEF Submit, SubmitsOn
<1>10. CASE WaitIdle
  BY <1>10 DEF WaitIdle, Idle
<1>11. CASE FlushDst
  BY <1>11 DEF FlushDst
<1>12. CASE Compare
  BY <1>12, Orders DEF Compare
<1>13. CASE Destroy
  <2>1. CASE todo = <<>>
    BY <1>13, <2>1, Orders DEF Destroy
  <2>2. CASE todo # <<>>
    <3>1. Elements(todo) = {Head(todo)} \cup Elements(Tail(todo))
      BY <2>2, ElementsTail
    <3> QED
      BY <1>13, <2>2, <3>1 DEF Destroy
  <2> QED
    BY <2>1, <2>2
<1>14. CASE EndRun
  BY <1>14 DEF EndRun, NextStep
<1>15. ASSUME NEW outcome \in {"good", "wrong", "lost"}, NEW fired \in BOOLEAN,
             GpuCopies(outcome, fired)
      PROVE  LiveInv'
  BY <1>15 DEF GpuCopies
<1>16. ASSUME NEW b \in Buffers, Prefetch(b) PROVE LiveInv'
  BY <1>16 DEF Prefetch
<1>17. ASSUME NEW b \in Buffers, Evict(b) PROVE LiveInv'
  BY <1>17 DEF Evict
<1> QED
  BY <1>1, <1>2, <1>3, <1>4, <1>5, <1>6, <1>7, <1>8, <1>9, <1>10, <1>11, <1>12, <1>13,
     <1>14, <1>15, <1>16, <1>17
  DEF Next, MainStep, GpuStep

\* The buffers hold what the CPU and the GPU have written, in memory or in the cache.
LEMMA CacheKeeps == IInv /\ [Next]_vars => CacheInv'
<1> SUFFICES ASSUME IInv, [Next]_vars PROVE CacheInv'
  OBVIOUS
<1> USE DEF IInv, TypeInv, CacheInv, runVars, bufferVars
<1>1. CASE UNCHANGED vars
  BY <1>1 DEF vars, WrittenBack, Left
<1>2. CASE BeginSweep \/ LeaveScreen \/ BeginRun \/ CheckObjects
  BY <1>2 DEF
     BeginSweep, LeaveScreen, BeginRun, CheckObjects, Fail
<1>3. ASSUME NEW made \in BOOLEAN, NEW fired \in BOOLEAN,
             CreateDevice(made, fired)
      PROVE  CacheInv'
  BY <1>3 DEF CreateDevice, Made, Fail
<1>4. ASSUME NEW made \in BOOLEAN, NEW fired \in BOOLEAN,
             CreateObject(made, fired)
      PROVE  CacheInv'
  BY <1>4 DEF CreateObject, Made
<1>5. CASE FillBuffers
  BY <1>5 DEF
     FillBuffers, Line, Sentinel, Buffers, WrittenBack
<1>6. CASE FlushBoth
  BY <1>6 DEF
     FlushBoth, WrittenBack, NoLine, Buffers, Left, LiveInv
<1>7. ASSUME NEW made \in BOOLEAN, NEW fired \in BOOLEAN,
             CreateQueue(made, fired)
      PROVE  CacheInv'
  BY <1>7 DEF CreateQueue, Made, Fail, Left
<1>8. CASE Submit \/ WaitIdle
  BY <1>8 DEF Submit, WaitIdle, Left
<1>9. CASE FlushDst
  BY <1>9 DEF
     FlushDst, FlushedDst, NoLine, WrittenBack, Buffers, Left
<1>10. CASE Compare \/ Destroy \/ EndRun
  BY <1>10 DEF Compare, Destroy, EndRun, NextStep
<1>11. ASSUME NEW outcome \in {"good", "wrong", "lost"}, NEW fired \in BOOLEAN,
             GpuCopies(outcome, fired)
      PROVE  CacheInv'
  BY <1>11 DEF GpuCopies, Left, Buffers, LiveInv
<1>12. ASSUME NEW b \in Buffers, Prefetch(b) PROVE CacheInv'
  BY <1>12 DEF
     Prefetch, Line, Buffers, WrittenBack, Left
<1>13. ASSUME NEW b \in Buffers, Evict(b) PROVE CacheInv'
  BY <1>13 DEF
     Evict, WrittenBack, NoLine, Buffers, Left
<1> QED
  BY <1>1, <1>2, <1>3, <1>4, <1>5, <1>6, <1>7, <1>8, <1>9, <1>10, <1>11, <1>12, <1>13
  DEF Next, MainStep, GpuStep

\* The verdict follows what has happened.
LEMMA VerdictKeeps == IInv /\ [Next]_vars => VerdictInv'
<1> SUFFICES ASSUME IInv, [Next]_vars PROVE VerdictInv'
  OBVIOUS
<1> USE DEF IInv, TypeInv, BoolInv, VerdictInv, runVars, bufferVars
<1>1. CASE UNCHANGED vars
  BY <1>1 DEF vars
<1>2. CASE BeginSweep \/ LeaveScreen \/ BeginRun
  BY <1>2 DEF BeginSweep, LeaveScreen, BeginRun
<1>3. ASSUME NEW made \in BOOLEAN, NEW fired \in BOOLEAN,
             CreateDevice(made, fired)
      PROVE  VerdictInv'
  BY <1>3, Orders DEF CreateDevice, Made, Fail
<1>4. ASSUME NEW made \in BOOLEAN, NEW fired \in BOOLEAN,
             CreateObject(made, fired)
      PROVE  VerdictInv'
  BY <1>4, ElementsTail DEF CreateObject, Made
<1>5. CASE CheckObjects
  BY <1>5, Orders, AllMade DEF CheckObjects, Fail
<1>6. CASE FillBuffers \/ FlushBoth
  BY <1>6 DEF FillBuffers, FlushBoth
<1>7. ASSUME NEW made \in BOOLEAN, NEW fired \in BOOLEAN,
             CreateQueue(made, fired)
      PROVE  VerdictInv'
  BY <1>7 DEF CreateQueue, Made, Fail, LiveInv
<1>8. CASE Submit
  BY <1>8 DEF Submit
<1>9. CASE WaitIdle
  BY <1>9, GpuBenchAssumption DEF WaitIdle, Idle, SubmitsOn, LiveInv
<1>10. CASE FlushDst
  BY <1>10 DEF FlushDst
<1>11. CASE Compare
  BY <1>11 DEF Compare, CpuRead, CacheInv, Left
<1>12. CASE Destroy
  BY <1>12 DEF Destroy
<1>13. CASE EndRun
  BY <1>13 DEF EndRun, NextStep
<1>14. ASSUME NEW outcome \in {"good", "wrong", "lost"}, NEW fired \in BOOLEAN,
             GpuCopies(outcome, fired)
      PROVE  VerdictInv'
  BY <1>14 DEF GpuCopies, LiveInv
<1>15. ASSUME NEW b \in Buffers, Prefetch(b) PROVE VerdictInv'
  BY <1>15 DEF Prefetch
<1>16. ASSUME NEW b \in Buffers, Evict(b) PROVE VerdictInv'
  BY <1>16 DEF Evict
<1> QED
  BY <1>1, <1>2, <1>3, <1>4, <1>5, <1>6, <1>7, <1>8, <1>9, <1>10, <1>11, <1>12, <1>13,
     <1>14, <1>15, <1>16
  DEF Next, MainStep, GpuStep

\* Every step keeps the invariant.
LEMMA NextIInv == IInv /\ [Next]_vars => IInv'
  BY TypeKeeps, BoolKeeps, LiveKeeps, CacheKeeps, VerdictKeeps DEF IInv

\* The invariant holds in every state of the probe.
LEMMA Invariance == Spec => []IInv
<1> QED
  BY InitIInv, NextIInv, PTL DEF Spec

-----------------------------------------------------------------------------
(* What follows.                                                           *)

\* The state keeps its types, and no run submits its copy more often than it was asked to
\* (gpu_bench.c:143-148), for every sweep.
THEOREM TypeCorrect == Spec => []TypeOK
<1>1. IInv => TypeOK
  <2> SUFFICES ASSUME IInv PROVE TypeOK
    OBVIOUS
  <2>1. error_seen \in BOOLEAN /\ verify_ok \in BOOLEAN /\ healthy \in BOOLEAN
    BY DEF IInv, BoolInv
  <2> QED
    BY <2>1 DEF IInv, TypeInv, LiveInv, TypeOK
<1> QED
  BY <1>1, Invariance, PTL

\* The GPU has work only while every object of the run exists, and a run that has returned
\* holds nothing of the arena's tail: neither the next step nor the next memory test can
\* meet a copy that is still to come.
THEOREM TailFreed == Spec => []TailIsFree
<1>1. IInv => TailIsFree
  BY DEF IInv, TypeInv, LiveInv, TailIsFree
<1> QED
  BY <1>1, Invariance, PTL

\* A run that returns true had a copy that ran, and the last that did was right.
THEOREM TrueIsCopied == Spec => []TrueMeansCopied
<1>1. IInv => TrueMeansCopied
  BY DEF IInv, VerdictInv, TrueMeansCopied
<1> QED
  BY <1>1, Invariance, PTL

\* A run in which nothing went wrong returns true, whatever the cache fills and evicts.
THEOREM HealthyReturnsTrue == Spec => []HealthyIsTrue
<1>1. IInv => HealthyIsTrue
  BY DEF IInv, VerdictInv, HealthyIsTrue
<1> QED
  BY <1>1, Invariance, PTL
=============================================================================
