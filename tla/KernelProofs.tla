---------------------------- MODULE KernelProofs ----------------------------
(* What TestRunner, Graphics and Shell promise, and that it holds of the     *)
(* kernel that runs them: every step of it is one of theirs or leaves their  *)
(* state alone.                                                              *)
EXTENDS Kernel, FiniteSetTheorems, WellFoundedInduction, TLAPS

(* The counters of the unit tests, for any batches of any length.            *)
CountersOK ==
    /\ total \in Nat /\ skipped \in Nat /\ passed \in Nat
    /\ warned \in Nat /\ failed \in Nat
    /\ cancel_batch \in BOOLEAN /\ cancel_now \in BOOLEAN

(* While the loop runs it is within a batch that exists.                     *)
LoopOK ==
    /\ batch \in 0..Len(Batches) /\ i \in Nat /\ running \in BOOLEAN
    /\ running => batch >= 1 /\ i < Count

TestsTypeOK == CountersOK /\ LoopOK

(* cancel_now comes with a failure, which cancel_batch stands for: this makes*)
(* the verdict inductive.                                                    *)
Verdict == (cancel_now => cancel_batch) /\ (cancel_batch <=> failed > 0)

TestsIInv == TestsTypeOK /\ TestsAddUp /\ Verdict

(* The length of a batch is a number, and its tests have results.            *)
LEMMA CountIsNat ==
    ASSUME NEW b \in 1..Len(Batches)
    PROVE  /\ Batches[b] \in Seq(SUBSET TEST_RESULT) /\ Len(Batches[b]) \in Nat
           /\ \A k \in 1..Len(Batches[b]) : Batches[b][k] \subseteq TEST_RESULT
  <1>1. Batches \in Seq(Seq(SUBSET TEST_RESULT))
    BY BatchesAssumption
  <1>2. Batches[b] \in Seq(SUBSET TEST_RESULT)
    BY <1>1
  <1> QED
    BY <1>2

LEMMA TestsInitInv == TestsInit => TestsIInv
  <1> SUFFICES ASSUME TestsInit PROVE TestsIInv
    OBVIOUS
  <1>1. Len(Batches) \in Nat
    BY BatchesAssumption
  <1>2. ~running /\ ~cancel_batch /\ ~cancel_now
    BY Zenon DEF TestsInit
  <1>3. running \in BOOLEAN /\ cancel_batch \in BOOLEAN /\ cancel_now \in BOOLEAN
    BY Zenon DEF TestsInit
  <1>4. Left = 0
    BY <1>2, Zenon DEF Left
  <1>5. TestsTypeOK
    BY <1>1, <1>2, <1>3 DEF TestsInit, TestsTypeOK, CountersOK, LoopOK
  <1>6. TestsAddUp /\ Verdict
    BY <1>2, <1>4 DEF TestsInit, TestsAddUp, Verdict
  <1> QED
    BY <1>5, <1>6 DEF TestsIInv

(* A batch begins: the tests it adds to the total are all left to run.       *)
LEMMA BatchInv == TestsIInv /\ RunBatch => TestsIInv'
  <1> SUFFICES ASSUME TestsIInv, RunBatch PROVE TestsIInv'
    OBVIOUS
  <1> USE DEF TestsIInv, TestsTypeOK, CountersOK, LoopOK
  <1> DEFINE n == Len(Batches[batch + 1])
  <1>1. Len(Batches) \in Nat /\ batch + 1 \in 1..Len(Batches)
    BY BatchesAssumption DEF RunBatch
  <1>2. n \in Nat /\ Batches[batch + 1] \in Seq(SUBSET TEST_RESULT)
    BY <1>1, CountIsNat
  <1>3. Batches[batch + 1] # <<>> <=> n > 0
    BY <1>2
  <1>4. (running' <=> n > 0) /\ running' \in BOOLEAN
    BY <1>3, Zenon DEF RunBatch
  <1>5. Count' = n /\ i' = 0 /\ batch' = batch + 1
    BY DEF RunBatch, Count
  <1>6. Left' = n
    BY <1>2, <1>4, <1>5 DEF Left
  <1>7. Left = 0
    BY Zenon DEF RunBatch, Left
  <1>8. LoopOK'
    BY <1>1, <1>4, <1>5
  <1>9. UNCHANGED <<skipped, passed, warned, failed, cancel_batch, cancel_now>>
    BY DEF RunBatch
  <1>10. CountersOK' /\ total' = total + n
    BY <1>2, <1>9 DEF RunBatch
  <1>11. Verdict' /\ ((cancel_batch \/ cancel_now) <=> failed > 0)'
    BY <1>9 DEF Verdict, TestsAddUp
  <1>12. total' = passed' + failed' + skipped' + Left' /\ warned' <= passed'
    <2>1. total = passed + failed + skipped + 0 /\ warned <= passed
      BY <1>7 DEF TestsAddUp
    <2> QED
      BY <2>1, <1>2, <1>6, <1>9, <1>10
  <1> QED
    BY <1>8, <1>10, <1>11, <1>12 DEF TestsAddUp

(* A test moves from the ones left to those that passed or failed, and after *)
(* a fatal one the rest moves to those skipped.                              *)
LEMMA TestInv == TestsIInv /\ RunTest => TestsIInv'
  <1> SUFFICES ASSUME TestsIInv, RunTest PROVE TestsIInv'
    OBVIOUS
  <1> USE DEF TestsIInv, TestsTypeOK, CountersOK, LoopOK
  <1>1. batch \in 1..Len(Batches) /\ Len(Batches) \in Nat /\ running
    BY BatchesAssumption DEF RunTest
  <1>2. Count \in Nat /\ i + 1 \in 1..Count /\ Left = Count - i
    BY <1>1, CountIsNat DEF RunTest, Count, Left
  <1>3. PICK r \in TEST_RESULT : run_test(r)
    BY <1>1, <1>2, CountIsNat DEF RunTest, Count
  <1>4. cancel_now' \in BOOLEAN /\ cancel_batch' \in BOOLEAN
    BY <1>3, Zenon DEF run_test
  <1>4a. skipped' \in Nat
    <2>1. skipped' = skipped \/ skipped' = skipped + (Count - i - 1)
      BY Zenon DEF RunTest, SkipCount
    <2> QED
      BY <2>1, <1>2
  <1>4b. passed' \in Nat /\ warned' \in Nat /\ failed' \in Nat
    BY <1>3 DEF run_test
  <1>5. CountersOK'
    BY <1>4, <1>4a, <1>4b DEF RunTest
  <1>6. Count' = Count /\ i' = i + 1 /\ total' = total /\ batch' = batch
    BY DEF RunTest, Count
  <1>7. running' \in BOOLEAN /\ (running' <=> ~cancel_now' /\ i + 1 < Count)
    BY Zenon DEF RunTest
  <1>8. LoopOK'
    BY <1>1, <1>2, <1>6, <1>7
  <1>9. skipped' + Left' = skipped + Left - 1
    <2>1. CASE cancel_now'
      BY <2>1, <1>2, <1>7 DEF RunTest, Left, SkipCount
    <2>2. CASE ~cancel_now' /\ i + 1 < Count
      BY <2>2, <1>2, <1>6, <1>7 DEF RunTest, Left
    <2>3. CASE ~cancel_now' /\ ~(i + 1 < Count)
      BY <2>3, <1>2, <1>7 DEF RunTest, Left
    <2> QED
      BY <2>1, <2>2, <2>3
  <1>10. Left \in Nat /\ Left' \in Nat
    BY <1>2, <1>6, <1>7 DEF Left
  <1>11. passed' + failed' = passed + failed + 1 /\ warned' <= passed'
    BY <1>3 DEF run_test, TEST_RESULT, TestsAddUp
  <1>11a. total = passed + failed + skipped + Left
    BY DEF TestsAddUp
  <1>12. total' = passed' + failed' + skipped' + Left'
    <2>1. passed' \in Nat /\ failed' \in Nat /\ skipped' \in Nat
      BY <1>5
    <2>2. total = total' /\ total \in Nat
      BY <1>6
    <2>3. passed \in Nat /\ failed \in Nat /\ skipped \in Nat
      OBVIOUS
    <2>4. PICK p1 \in Nat, f1 \in Nat, s1 \in Nat, l \in Nat, l1 \in Nat :
              p1 = passed' /\ f1 = failed' /\ s1 = skipped' /\ l = Left /\ l1 = Left'
      BY <2>1, <1>10
    <2>5. p1 + f1 = passed + failed + 1 /\ s1 + l1 = skipped + l - 1
      BY <2>4, <1>9, <1>11
    <2>7. total = passed + failed + skipped + l
      BY <2>4, <1>11a
    <2> HIDE DEF TestsIInv, TestsTypeOK, CountersOK, LoopOK
    <2>6. total = p1 + f1 + s1 + l1
      BY <2>2, <2>3, <2>5, <2>7
    <2> QED
      BY <2>2, <2>4, <2>6
  <1>13. Verdict' /\ ((cancel_batch \/ cancel_now) <=> failed > 0)'
    <2>1. CASE r \in {"fail_continue", "fail_fatal"}
      <3>1. failed' > 0
        BY <2>1, <1>3 DEF run_test
      <3>2. cancel_batch'
        BY <2>1, <1>3, Zenon DEF run_test
      <3> QED
        BY <3>1, <3>2 DEF Verdict
    <2>2. CASE r \notin {"fail_continue", "fail_fatal"}
      <3>1. failed' = failed /\ r # "fail_fatal"
        BY <2>2, <1>3 DEF run_test
      <3>2. (cancel_batch' <=> cancel_batch) /\ (cancel_now' <=> cancel_now)
        BY <2>2, <3>1, <1>3, Zenon DEF run_test
      <3> QED
        BY <3>1, <3>2 DEF Verdict
    <2> QED
      BY <2>1, <2>2
  <1> QED
    BY <1>5, <1>8, <1>11, <1>12, <1>13 DEF TestsAddUp

LEMMA TestsStutterInv == TestsIInv /\ UNCHANGED testVars => TestsIInv'
  <1> SUFFICES ASSUME TestsIInv, UNCHANGED testVars PROVE TestsIInv'
    OBVIOUS
  <1>1. UNCHANGED <<total, skipped, passed, warned, failed, cancel_batch, cancel_now>>
    BY DEF testVars, status
  <1>2. UNCHANGED <<batch, i, running>>
    BY DEF testVars
  <1>3. Left' = Left /\ LoopOK'
    BY <1>2 DEF Left, Count, LoopOK, TestsIInv, TestsTypeOK
  <1> QED
    BY <1>1, <1>3 DEF TestsIInv, TestsTypeOK, CountersOK, Verdict, TestsAddUp

(* Whatever the batches and whatever the results of their tests, the counters*)
(* kernel_main prints add up and the verdict of test_all is right.           *)
THEOREM TestsCorrect == TestsSpec => []TestsAddUp
  <1>1. TestsIInv /\ [TestsNext]_testVars => TestsIInv'
    BY BatchInv, TestInv, TestsStutterInv DEF TestsNext
  <1>2. TestsIInv => TestsAddUp
    BY DEF TestsIInv
  <1> QED
    BY TestsInitInv, <1>1, <1>2, PTL DEF TestsSpec
-----------------------------------------------------------------------------
(* The box of the graphics demonstration, on a display of any size that the  *)
(* assumption of Graphics allows.                                            *)

(* The box leaves a column free at the right and a row at the bottom.        *)
BoxOK ==
    /\ box_x \in 0..(Width - box_w - 1) /\ box_y \in 0..(Height - box_h - 1)
    /\ box_v_x \in {-Step, 0, Step} /\ box_v_y \in {-Step, 0, Step}

(* The columns the background is painted over.                               *)
Cleared == (Shift..(Width - 2 + Shift)) \X (0..(Height - 1))
Here == Rectangle(box_x + Shift, box_y, box_w, box_h)

BoxIInv ==
    /\ BoxOK /\ ~wild
    /\ lit \subseteq Cleared
    /\ frame \in {"key", "draw"} => lit \subseteq Here
    /\ frame \in {"move", "wait"}
          => lit = Rectangle(drawn[1] + Shift, drawn[2], box_w, box_h)

LEMMA Sizes ==
    /\ Width \in Nat /\ Height \in Nat /\ box_w \in Nat /\ box_h \in Nat
    /\ Start \in Nat /\ Step \in Nat /\ (Shift = 0 \/ Shift = 1)
    /\ Start + box_w < Width /\ Start + box_h < Height
    /\ box_w + 2 * Step <= Width /\ box_h + 2 * Step <= Height
  BY GraphicsAssumption

(* A rectangle whose corner and far side are on the display is painted where *)
(* it is asked for, Shift to the right, and stays within the buffer.         *)
LEMMA RectangleFits ==
    ASSUME NEW x \in Nat, NEW y \in Nat, NEW w \in Nat, NEW h \in Nat,
           x + w < Width, y + h <= Height
    PROVE  /\ Painted(x, y, w, h) = Rectangle(x + Shift, y, w, h)
           /\ ~PastBuffer(x, y, w, h)
           /\ Rectangle(x + Shift, y, w, h) \subseteq Cleared
  <1>1. ~Refused(x, y)
    BY Sizes DEF Refused
  <1>2. Rectangle(x + Shift, y, w, h) \subseteq Cleared
    BY Sizes DEF Rectangle, Cleared
  <1>3. Cleared \subseteq Pixels
    BY Sizes DEF Cleared, Pixels
  <1>4. ~(w < 0 \/ h < 0)
    OBVIOUS
  <1> QED
    BY <1>1, <1>2, <1>3, <1>4 DEF Painted, PastBuffer

(* The same of the four rectangles around the box.                           *)
LEMMA AroundFits ==
    ASSUME BoxOK, NEW r \in Around
    PROVE  /\ Painted(r[1], r[2], r[3], r[4]) = Rectangle(r[1] + Shift, r[2], r[3], r[4])
           /\ ~PastBuffer(r[1], r[2], r[3], r[4])
  <1> USE Sizes DEF BoxOK
  <1>1. CASE r = LeftOfBox
    BY <1>1, RectangleFits DEF LeftOfBox
  <1>2. CASE r = AboveBox
    BY <1>2, RectangleFits DEF AboveBox
  <1>3. CASE r = BelowBox
    BY <1>3, RectangleFits DEF BelowBox
  <1>4. CASE r = RightOfBox
    BY <1>4, RectangleFits DEF RightOfBox
  <1> QED
    BY <1>1, <1>2, <1>3, <1>4 DEF Around

(* What is cleared and in none of the four is where the box is.              *)
LEMMA AroundCovers ==
    ASSUME BoxOK, NEW p \in Cleared,
           \A r \in Around : p \notin Rectangle(r[1] + Shift, r[2], r[3], r[4])
    PROVE  p \in Here
  <1> USE Sizes DEF BoxOK
  <1>1. PICK c \in Shift..(Width - 2 + Shift), q \in 0..(Height - 1) : p = <<c, q>>
    BY DEF Cleared
  <1>2. c >= box_x + Shift
    <2>1. p \notin Rectangle(0 + Shift, 0, box_x, Height)
      BY DEF Around, LeftOfBox
    <2> QED
      BY <2>1, <1>1 DEF Rectangle
  <1>3. q >= box_y
    <2>1. p \notin Rectangle(box_x + Shift, 0, Width - box_x - 1, box_y)
      BY DEF Around, AboveBox
    <2> QED
      BY <2>1, <1>1, <1>2 DEF Rectangle
  <1>4. q < box_y + box_h
    <2>1. p \notin Rectangle(box_x + Shift, box_y + box_h, Width - box_x - 1,
                              Height - (box_y + box_h))
      BY DEF Around, BelowBox
    <2> QED
      BY <2>1, <1>1, <1>2 DEF Rectangle
  <1>5. c < box_x + Shift + box_w
    <2>1. p \notin Rectangle(box_x + box_w + Shift, box_y, Width - (box_x + box_w) - 1, box_h)
      BY DEF Around, RightOfBox
    <2> QED
      BY <2>1, <1>1, <1>2, <1>3, <1>4 DEF Rectangle
  <1> QED
    BY <1>1, <1>2, <1>3, <1>4, <1>5 DEF Here, Rectangle

-----------------------------------------------------------------------------
LEMMA BoxInitInv == GraphicsInit => BoxIInv
  BY Sizes DEF GraphicsInit, BoxIInv, BoxOK

LEMMA OpenInv == BoxIInv /\ Open => BoxIInv'
  BY Sizes DEF BoxIInv, BoxOK, Open

LEMMA BlankInv == BoxIInv /\ Blank => BoxIInv'
  <1> SUFFICES ASSUME BoxIInv, Blank PROVE BoxIInv'
    OBVIOUS
  <1>1. BoxOK /\ lit \subseteq Cleared
    BY DEF BoxIInv
  <1>2. lit' \subseteq lit /\ UNCHANGED box /\ frame' = "key"
    BY DEF Blank
  <1>3. ~wild'
    BY <1>1, AroundFits, Zenon DEF Blank, BoxIInv
  <1>4. ASSUME NEW p \in lit' PROVE p \in Here
    <2>1. \A r \in Around : p \notin Painted(r[1], r[2], r[3], r[4])
      BY <1>4 DEF Blank
    <2>2. \A r \in Around : p \notin Rectangle(r[1] + Shift, r[2], r[3], r[4])
      BY <2>1, <1>1, AroundFits, Zenon
    <2> QED
      BY <2>2, <1>1, <1>2, AroundCovers
  <1>5. BoxOK' /\ Here' = Here
    BY <1>1, <1>2 DEF BoxOK, Here, box
  <1> QED
    BY <1>1, <1>2, <1>3, <1>4, <1>5 DEF BoxIInv

LEMMA KeyInv == BoxIInv /\ ReadKey => BoxIInv'
  <1> SUFFICES ASSUME BoxIInv, NEW vx \in {-Step, 0, Step}, NEW vy \in {-Step, 0, Step},
                      Key(vx, vy)
               PROVE  BoxIInv'
    BY DEF ReadKey, BoxIInv, BoxOK
  <1> QED
    BY DEF Key, BoxIInv, BoxOK, Here

LEMMA QuitInv == BoxIInv /\ Quit => BoxIInv'
  BY DEF Quit, BoxIInv, BoxOK, box

LEMMA DrawInv == BoxIInv /\ Draw => BoxIInv'
  <1> SUFFICES ASSUME BoxIInv, Draw PROVE BoxIInv'
    OBVIOUS
  <1>1. /\ Painted(box_x, box_y, box_w, box_h) = Here
        /\ ~PastBuffer(box_x, box_y, box_w, box_h)
        /\ Here \subseteq Cleared
    BY Sizes, RectangleFits DEF BoxIInv, BoxOK, Here
  <1>2. lit' = Here /\ ~wild' /\ frame' = "move"
    BY <1>1 DEF Draw, BoxIInv
  <1>3. Here = Rectangle(drawn'[1] + Shift, drawn'[2], box_w, box_h)
    BY DEF Draw, Here
  <1>4. BoxOK'
    BY DEF Draw, BoxIInv, BoxOK, box
  <1> QED
    BY <1>1, <1>2, <1>3, <1>4 DEF BoxIInv

(* At an edge the box turns, and there is room for a step the other way.     *)
LEMMA MoveInv == BoxIInv /\ Move => BoxIInv'
  <1> SUFFICES ASSUME BoxIInv, Move PROVE BoxIInv'
    OBVIOUS
  <1>1. box_v_x' \in {-Step, 0, Step} /\ box_x' \in 0..(Width - box_w - 1)
    <2>1. PICK v1 : v1 = IF Turns(box_x, box_v_x, box_w, Width) THEN -box_v_x ELSE box_v_x
      OBVIOUS
    <2>2. v1 \in {-Step, 0, Step} /\ box_x + v1 \in 0..(Width - box_w - 1)
      BY <2>1, Sizes DEF BoxIInv, BoxOK, Turns
    <2> QED
      BY <2>1, <2>2 DEF Move
  <1>2. box_v_y' \in {-Step, 0, Step} /\ box_y' \in 0..(Height - box_h - 1)
    <2>1. PICK v1 : v1 = IF Turns(box_y, box_v_y, box_h, Height) THEN -box_v_y ELSE box_v_y
      OBVIOUS
    <2>2. v1 \in {-Step, 0, Step} /\ box_y + v1 \in 0..(Height - box_h - 1)
      BY <2>1, Sizes DEF BoxIInv, BoxOK, Turns
    <2> QED
      BY <2>1, <2>2 DEF Move
  <1> QED
    BY <1>1, <1>2 DEF Move, BoxIInv, BoxOK

LEMMA EndInv == BoxIInv /\ EndFrame => BoxIInv'
  BY DEF EndFrame, BoxIInv, BoxOK, box

LEMMA BoxStutterInv == BoxIInv /\ UNCHANGED graphicsVars => BoxIInv'
  BY DEF BoxIInv, BoxOK, Here, graphicsVars, box

(* On any display the box leaves no trail, and nothing is written past the   *)
(* frame buffer, whatever keys are pressed.                                  *)
THEOREM BoxClean == GraphicsSpec => []NoTrail
  <1>1. BoxIInv /\ [GraphicsNext]_graphicsVars => BoxIInv'
    BY OpenInv, BlankInv, KeyInv, QuitInv, DrawInv, MoveInv, EndInv, BoxStutterInv
       DEF GraphicsNext
  <1>2. BoxIInv => NoTrail
    BY DEF BoxIInv, NoTrail
  <1> QED
    BY BoxInitInv, <1>1, <1>2, PTL DEF GraphicsSpec
-----------------------------------------------------------------------------
(* Numbers: least and greatest elements, and the rank of an element.         *)

Below == {x \in Nat \X Nat : x[1] < x[2]}

(* The order of the numbers is well-founded.                                 *)
LEMMA BelowWF == IsWellFoundedOn(Below, Nat)
  BY NatLessThanWellFounded DEF Below, OpToRel

(* A set of numbers has a least.                                             *)
LEMMA LeastNat ==
    ASSUME NEW S \in SUBSET Nat, S # {}
    PROVE  \E x \in S : \A y \in S : x <= y
<1>1. PICK x \in S : \A y \in S : ~(<<y, x>> \in Below)
  BY BelowWF, WFMin
<1>2. ASSUME NEW y \in S PROVE x <= y
  <2>1. <<y, x>> \notin Below
    BY <1>1
  <2>2. x \in Nat /\ y \in Nat
    OBVIOUS
  <2>3. <<y, x>> \in Nat \X Nat /\ <<y, x>>[1] = y /\ <<y, x>>[2] = x
    BY <2>2
  <2>4. ~ (y < x)
    BY <2>1, <2>3, Zenon DEF Below
  <2> QED BY <2>2, <2>4
<1> QED BY <1>2

(* FirstOf finds it.                                                         *)
LEMMA FirstIsLeast ==
    ASSUME NEW S \in SUBSET Nat, S # {}
    PROVE  FirstOf(S) \in S /\ \A k \in S : FirstOf(S) <= k
  BY LeastNat DEF FirstOf

(* An element that is not above any other is the one FirstOf finds.          *)
LEMMA FirstIs ==
    ASSUME NEW S \in SUBSET Nat, NEW x \in S, \A k \in S : x <= k
    PROVE  FirstOf(S) = x
<1>1. FirstOf(S) \in S /\ \A k \in S : FirstOf(S) <= k
  BY FirstIsLeast
<1>2. \A k \in S : k \in Nat
  OBVIOUS
<1>3. FirstOf(S) \in Nat /\ x \in Nat
  BY <1>1, <1>2
<1>4. FirstOf(S) <= x /\ x <= FirstOf(S)
  BY <1>1
<1> QED BY <1>3, <1>4

(* Ranks count from 1, in the order of the elements.                         *)
LEMMA RankFacts ==
    ASSUME NEW S, NEW n \in Nat, S \in SUBSET (1..n)
    PROVE  /\ IsFiniteSet(S) /\ Cardinality(S) \in Nat
           /\ \A k \in S : Rank(S, k) \in 1..Cardinality(S)
           /\ \A k, l \in S : k < l => Rank(S, k) < Rank(S, l)
<1>1. IsFiniteSet(1..n)
  BY FS_Interval
<1>2. \A T \in SUBSET (1..n) : IsFiniteSet(T) /\ Cardinality(T) \in Nat
  BY <1>1, FS_Subset, FS_CardinalityType
<1> DEFINE Upto(k) == {j \in S : j <= k}
<1>3. \A k : Upto(k) \in SUBSET (1..n) /\ Upto(k) \in SUBSET S
  OBVIOUS
<1>4. ASSUME NEW k \in S PROVE Rank(S, k) \in 1..Cardinality(S)
  <2>1. Cardinality(Upto(k)) \in Nat /\ Cardinality(Upto(k)) <= Cardinality(S)
    BY <1>2, <1>3, FS_Subset
  <2>2. Upto(k) # {}
    OBVIOUS
  <2>3. Cardinality(Upto(k)) # 0
    <3> HIDE DEF Upto
    <3> QED BY <1>2, <1>3, <2>2, FS_EmptySet
  <2>4. Cardinality(S) \in Nat
    BY <1>2
  <2> HIDE DEF Upto
  <2>5. Cardinality(Upto(k)) \in 1..Cardinality(S)
    BY <2>1, <2>3, <2>4
  <2> QED BY <2>5 DEF Rank, Upto
<1>5. ASSUME NEW k \in S, NEW l \in S, k < l PROVE Rank(S, k) < Rank(S, l)
  <2>0. \A j \in S : j \in Int
    OBVIOUS
  <2>1. Upto(k) \in SUBSET Upto(l)
    <3>1. \A j \in S : j <= k => j <= l
      BY <1>5, <2>0
    <3> QED BY <3>1, Zenon
  <2>2. l \in Upto(l) /\ l \notin Upto(k)
    BY <1>5
  <2>3. IsFiniteSet(Upto(l)) /\ Cardinality(Upto(l)) \in Nat /\ Cardinality(Upto(k)) \in Nat
    BY <1>2, <1>3
  <2> HIDE DEF Upto
  <2>4. /\ Cardinality(Upto(k)) <= Cardinality(Upto(l))
        /\ Cardinality(Upto(k)) # Cardinality(Upto(l))
    BY <2>1, <2>2, <2>3, FS_Subset
  <2>5. Cardinality(Upto(k)) < Cardinality(Upto(l))
    BY <2>3, <2>4
  <2> QED BY <2>5 DEF Rank, Upto
<1> QED BY <1>2, <1>4, <1>5

(* No two elements have the same rank.                                       *)
LEMMA RankUnique ==
    ASSUME NEW S, NEW n \in Nat, S \in SUBSET (1..n), NEW k \in S, NEW l \in S,
           Rank(S, k) = Rank(S, l)
    PROVE  k = l
<1>1. /\ \A j \in S : Rank(S, j) \in 1..Cardinality(S)
      /\ \A h, j \in S : h < j => Rank(S, h) < Rank(S, j)
      /\ \A j \in S : j \in Int
  <2>1. \A j \in S : j \in Int
    OBVIOUS
  <2> QED BY <2>1, RankFacts
<1>2. Rank(S, k) \in Int /\ k \in Int /\ l \in Int
  BY <1>1
<1>3. ~(k < l) /\ ~(l < k)
  BY <1>1, <1>2
<1> QED BY <1>2, <1>3

(* Every rank up to the number of elements is taken.                         *)
LEMMA RankTaken ==
    ASSUME NEW S, NEW n \in Nat, S \in SUBSET (1..n), NEW r \in 1..Cardinality(S)
    PROVE  \E k \in S : Rank(S, k) = r
<1>1. /\ IsFiniteSet(S) /\ Cardinality(S) \in Nat
      /\ \A k \in S : Rank(S, k) \in 1..Cardinality(S)
      /\ \A k, l \in S : k < l => Rank(S, k) < Rank(S, l)
  BY RankFacts
<1>0. \A j \in S : j \in 1..n /\ j \in Int
  OBVIOUS
<1> DEFINE High == {k \in 1..n : Cardinality({j \in S : j <= k}) >= r}
<1>2. n \in High
  <2>1. {j \in S : j <= n} = S
    <3>1. \A j \in S : j <= n
      BY <1>0
    <3> QED BY <3>1, Zenon
  <2>2. n # 0
    <3>1. n = 0 => S = {}
      OBVIOUS
    <3>2. S = {} => Cardinality(S) = 0
      BY FS_EmptySet
    <3>3. Cardinality(S) # 0
      BY <1>1
    <3> QED BY <3>1, <3>2, <3>3
  <2>3. Cardinality(S) >= r
    BY <1>1
  <2> QED BY <2>1, <2>2, <2>3
<1>3. PICK k \in High : \A l \in High : k <= l
  <2>1. High \in SUBSET Nat /\ High # {}
    <3>1. 1..n \subseteq Nat /\ High \subseteq 1..n
      OBVIOUS
    <3> HIDE DEF High
    <3> QED BY <1>2, <3>1
  <2> HIDE DEF High
  <2> QED BY <2>1, LeastNat
<1> DEFINE T == {j \in S : j <= k}
           U == {j \in S : j <= k - 1}
<1>4. k \in 1..n /\ Cardinality(T) >= r
  OBVIOUS
<1>5. T \in SUBSET (1..n) /\ U \in SUBSET (1..n) /\ U = T \ {k} /\ (k \in T <=> k \in S)
  <2>1. k \in Int
    BY <1>4
  <2>2. T \subseteq 1..n /\ U \subseteq 1..n
    BY <1>0
  <2>3. U = T \ {k}
    <3>1. \A j \in S : j <= k - 1 <=> j <= k /\ j # k
      BY <1>0, <2>1
    <3> QED BY <3>1, Zenon
  <2>4. k \in T <=> k \in S
    BY <2>1
  <2> QED BY <2>2, <2>3, <2>4
<1>6. IsFiniteSet(T) /\ Cardinality(T) \in Nat /\ IsFiniteSet(U) /\ Cardinality(U) \in Nat
  <2>1. IsFiniteSet(1..n)
    BY FS_Interval
  <2> HIDE DEF T, U
  <2> QED BY <1>5, <2>1, FS_Subset, FS_CardinalityType
<1>7. Cardinality(U) < r
  <2>1. CASE k - 1 \in 1..n
    <3>1. ~(Cardinality(U) >= r)
      <4> SUFFICES ASSUME Cardinality(U) >= r PROVE FALSE
        OBVIOUS
      <4>1. k - 1 \in High
        BY <2>1
      <4>2. k <= k - 1
        BY <1>3, <4>1
      <4> QED BY <1>4, <4>2
    <3> HIDE DEF U
    <3> QED BY <1>6, <3>1
  <2>2. CASE k - 1 \notin 1..n
    <3>1. k = 1
      BY <1>4, <2>2
    <3>2. U = {}
      <4>1. \A j \in S : ~(j <= k - 1)
        BY <1>0, <3>1
      <4> QED BY <4>1, Zenon
    <3>3. Cardinality(U) = 0
      BY <3>2, FS_EmptySet
    <3> HIDE DEF U
    <3> QED BY <3>3
  <2> QED BY <2>1, <2>2
<1> HIDE DEF High
<1>8. k \in S /\ Cardinality(T) = r
  <2> HIDE DEF T, U
  <2>1. Cardinality(U) = IF k \in T THEN Cardinality(T) - 1 ELSE Cardinality(T)
    BY <1>5, <1>6, FS_RemoveElement
  <2>2. k \in T
    BY <1>4, <1>6, <1>7, <2>1
  <2>3. Cardinality(T) = r
    BY <1>4, <1>6, <1>7, <2>1, <2>2
  <2> QED BY <1>5, <2>2, <2>3
<1> QED BY <1>8 DEF Rank

(* The element of a rank.                                                    *)
LEMMA NthIs ==
    ASSUME NEW S, NEW n \in Nat, S \in SUBSET (1..n)
    PROVE  /\ \A r \in 1..Cardinality(S) : Nth(S, r) \in S /\ Rank(S, Nth(S, r)) = r
           /\ \A k \in S : Nth(S, Rank(S, k)) = k
<1>1. ASSUME NEW r \in 1..Cardinality(S) PROVE Nth(S, r) \in S /\ Rank(S, Nth(S, r)) = r
  <2>1. \E k \in S : Rank(S, k) = r
    BY RankTaken
  <2> QED BY <2>1 DEF Nth
<1>2. ASSUME NEW k \in S PROVE Nth(S, Rank(S, k)) = k
  <2>1. Rank(S, k) \in 1..Cardinality(S)
    BY RankFacts
  <2>2. /\ Nth(S, Rank(S, k)) \in S
        /\ Rank(S, Nth(S, Rank(S, k))) = Rank(S, k)
    BY <1>1, <2>1
  <2> QED BY <2>2, RankUnique
<1> QED BY <1>1, <1>2
-----------------------------------------------------------------------------
(* Paths: the names of a path that ends in a slash and of what follows it are*)
(* the names of the two, and a slash at the end adds no name.                *)

Ends(path, k, x) ==
    /\ x \in k..Len(path)
    /\ x = Len(path) \/ path[x + 1] = SLASH
    /\ \A y \in k..Len(path) : y < x => path[y + 1] # SLASH

(* A name ends where Ends says, and nowhere else.                            *)
LEMMA EndOfIs ==
    ASSUME NEW path \in Seq(Nat), NEW k \in 1..Len(path)
    PROVE  /\ Ends(path, k, EndOf(path, k))
           /\ \A x : Ends(path, k, x) => EndOf(path, k) = x
<1> DEFINE S == {n \in k..Len(path) : n = Len(path) \/ path[n + 1] = SLASH}
<1>1. S \in SUBSET Nat /\ Len(path) \in S /\ Len(path) \in Nat
  OBVIOUS
<1>2. FirstOf(S) = EndOf(path, k)
  BY DEF EndOf
<1>3. FirstOf(S) \in S /\ \A n \in S : FirstOf(S) <= n
  <2> HIDE DEF S
  <2> QED BY <1>1, FirstIsLeast
<1>4. Ends(path, k, EndOf(path, k))
  <2> DEFINE e == EndOf(path, k)
  <2>1. e \in S /\ \A n \in S : e <= n
    BY <1>2, <1>3
  <2> HIDE DEF e
  <2>2. e \in k..Len(path) /\ (e = Len(path) \/ path[e + 1] = SLASH)
    BY <2>1
  <2>3. ASSUME NEW y \in k..Len(path), y < e PROVE path[y + 1] # SLASH
    <3>1. ~(e <= y)
      BY <2>2, <2>3
    <3>2. y \notin S
      BY <2>1, <3>1, Zenon
    <3> QED BY <3>2
  <2>4. Ends(path, k, e)
    BY <2>2, <2>3 DEF Ends
  <2> QED BY <2>4 DEF e
<1>5. ASSUME NEW x, Ends(path, k, x) PROVE EndOf(path, k) = x
  <2>1. x \in S
    BY <1>5 DEF Ends
  <2>2. \A n \in S : x <= n
    <3> SUFFICES ASSUME NEW n \in S PROVE x <= n
      OBVIOUS
    <3>1. n \in k..Len(path) /\ x \in k..Len(path)
      BY <1>5 DEF Ends
    <3>2. CASE n = Len(path)
      BY <3>1, <3>2
    <3>3. CASE path[n + 1] = SLASH
      <4>1. ~(n < x)
        BY <1>5, <3>1, <3>3 DEF Ends
      <4> QED BY <3>1, <4>1
    <3> QED BY <3>2, <3>3
  <2> HIDE DEF S
  <2>3. FirstOf(S) = x
    BY <1>1, <2>1, <2>2, FirstIs
  <2> QED BY <1>2, <2>3
<1> QED BY <1>4, <1>5

(* Names start within the path, at no slash, behind a slash or nothing.      *)
LEMMA StartsFacts ==
    ASSUME NEW path \in Seq(Nat)
    PROVE  /\ Starts(path) \in SUBSET (1..Len(path))
           /\ \A k \in Starts(path) : k \in 1..Len(path) /\ path[k] # SLASH
           /\ \A k \in 1..Len(path) :
                  k \in Starts(path) <=> path[k] # SLASH /\ (k = 1 \/ path[k - 1] = SLASH)
  BY DEF Starts

(* What Names is: as many words as there are starts, each from its start.    *)
WordAt(path, k) == SubSeq(path, k, EndOf(path, k))

LEMMA NamesFacts ==
    ASSUME NEW path \in Seq(Nat)
    PROVE  /\ Names(path) \in Seq(Seq(Nat))
           /\ Len(Names(path)) = Cardinality(Starts(path))
           /\ \A k \in Starts(path) :
                  /\ Rank(Starts(path), k) \in 1..Cardinality(Starts(path))
                  /\ Names(path)[Rank(Starts(path), k)] = WordAt(path, k)
<1> DEFINE S == Starts(path)
           c == Cardinality(S)
<1>1. S \in SUBSET (1..Len(path)) /\ Len(path) \in Nat
  BY StartsFacts
<1>2. c \in Nat /\ \A k \in S : Rank(S, k) \in 1..c
  BY <1>1, RankFacts
<1>3. \A r \in 1..c : Nth(S, r) \in S
  BY <1>1, NthIs
<1>4. \A k \in S : Nth(S, Rank(S, k)) = k
  BY <1>1, NthIs
<1>5. Names(path) = [n \in 1..c |-> WordAt(path, Nth(S, n))]
  BY DEF Names, WordAt
<1>6. \A k \in S : WordAt(path, k) \in Seq(Nat)
  <2> SUFFICES ASSUME NEW k \in S PROVE WordAt(path, k) \in Seq(Nat)
    OBVIOUS
  <2>1. k \in 1..Len(path)
    BY <1>1
  <2>2. EndOf(path, k) \in k..Len(path)
    BY <2>1, EndOfIs DEF Ends
  <2> QED BY <2>1, <2>2 DEF WordAt
<1> HIDE DEF S, c
<1>7. Names(path) \in [1..c -> Seq(Nat)]
  BY <1>3, <1>5, <1>6
<1>8. Names(path) \in Seq(Seq(Nat)) /\ Len(Names(path)) = c
  BY <1>2, <1>7
<1>9. \A k \in S : Rank(S, k) \in 1..c /\ Names(path)[Rank(S, k)] = WordAt(path, k)
  BY <1>2, <1>4, <1>5
<1> QED BY <1>8, <1>9 DEF S, c

(* Names are the same when the starts and the words are.                     *)
LEMMA NamesSame ==
    ASSUME NEW p \in Seq(Nat), NEW q \in Seq(Nat), Starts(p) = Starts(q),
           \A k \in Starts(p) : WordAt(p, k) = WordAt(q, k)
    PROVE  Names(p) = Names(q)
<1> DEFINE S == Starts(p)
           c == Cardinality(S)
<1>1. S \in SUBSET (1..Len(p)) /\ Len(p) \in Nat
  BY StartsFacts
<1>2. \A n \in 1..c : Nth(S, n) \in S
  BY <1>1, NthIs
<1>3. \A n \in 1..c : WordAt(p, Nth(S, n)) = WordAt(q, Nth(S, n))
  BY <1>2
<1>4. Names(p) = [n \in 1..c |-> WordAt(p, Nth(S, n))]
  BY DEF Names, WordAt
<1>5. Names(q) = [n \in 1..c |-> WordAt(q, Nth(S, n))]
  BY DEF Names, WordAt
<1> QED BY <1>3, <1>4, <1>5, Zenon

(* A part of a sequence that another one has, d places further.              *)
Holds(r, p, k, x, d) ==
    /\ p \in Seq(Nat) /\ r \in Seq(Nat) /\ k \in Nat \ {0} /\ x \in Nat /\ d \in Nat
    /\ x <= Len(p) /\ x + d <= Len(r) /\ \A j \in k..x : r[j + d] = p[j]

SamePart(r, p, k, x, d) == SubSeq(r, k + d, x + d) = SubSeq(p, k, x)

LEMMA SubSeqShift ==
    ASSUME NEW p, NEW r, NEW k, NEW x, NEW d, Holds(r, p, k, x, d)
    PROVE  SamePart(r, p, k, x, d)
<1> USE DEF Holds
<1> DEFINE a == SubSeq(r, k + d, x + d)
           b == SubSeq(p, k, x)
<1>1. a = [h \in 1..(IF k + d <= x + d THEN (x + d) - (k + d) + 1 ELSE 0) |-> r[(k + d) + h - 1]]
  OBVIOUS
<1>2. b = [h \in 1..(IF k <= x THEN x - k + 1 ELSE 0) |-> p[k + h - 1]]
  OBVIOUS
<1>3. (IF k + d <= x + d THEN (x + d) - (k + d) + 1 ELSE 0) = (IF k <= x THEN x - k + 1 ELSE 0)
  OBVIOUS
<1>4. \A h \in 1..(IF k <= x THEN x - k + 1 ELSE 0) : r[(k + d) + h - 1] = p[k + h - 1]
  <2> SUFFICES ASSUME NEW h \in 1..(IF k <= x THEN x - k + 1 ELSE 0)
               PROVE  r[(k + d) + h - 1] = p[k + h - 1]
    OBVIOUS
  <2>1. k + h - 1 \in k..x /\ (k + h - 1) + d = (k + d) + h - 1
    OBVIOUS
  <2> QED BY <2>1
<1> QED BY <1>1, <1>2, <1>3, <1>4 DEF SamePart

(* A slash more at the end of a path adds no name.                           *)
LEMMA NamesSlash ==
    ASSUME NEW p \in Seq(Nat)
    PROVE  Names(p \o <<SLASH>>) = Names(p)
<1> DEFINE r == p \o <<SLASH>>
           m == Len(p)
<1>1. /\ m \in Nat /\ r \in Seq(Nat) /\ Len(r) = m + 1 /\ r[m + 1] = SLASH
      /\ \A k \in 1..m : r[k] = p[k]
  BY DEF SLASH
<1> HIDE DEF r, m
<1>1a. \A k \in 1..m : k \in 1..(m + 1) /\ (k = 1 \/ k - 1 \in 1..m)
  BY <1>1
<1>2. Starts(r) = Starts(p)
  <2>1. \A k : k \in Starts(r) => k \in 1..m
    <3>1. \A k \in Starts(r) : k \in 1..(m + 1) /\ r[k] # SLASH
      BY <1>1, StartsFacts
    <3> QED BY <1>1, <3>1
  <2>2. \A k : k \in Starts(p) => k \in 1..m
    BY StartsFacts DEF m
  <2>3. \A k \in 1..m : k \in Starts(r) <=> k \in Starts(p)
    <3> SUFFICES ASSUME NEW k \in 1..m PROVE k \in Starts(r) <=> k \in Starts(p)
      OBVIOUS
    <3>1. k \in 1..Len(r) /\ r[k] = p[k] /\ (k = 1 \/ r[k - 1] = p[k - 1])
      BY <1>1, <1>1a, Zenon
    <3>2. k \in Starts(r) <=> r[k] # SLASH /\ (k = 1 \/ r[k - 1] = SLASH)
      BY <1>1, <3>1, StartsFacts
    <3>3. k \in Starts(p) <=> p[k] # SLASH /\ (k = 1 \/ p[k - 1] = SLASH)
      BY StartsFacts DEF m
    <3> QED BY <3>1, <3>2, <3>3
  <2> QED BY <2>1, <2>2, <2>3, Zenon
<1>3. ASSUME NEW k \in Starts(r) PROVE WordAt(r, k) = WordAt(p, k)
  <2>1. k \in 1..m
    BY <1>2, StartsFacts DEF m
  <2> DEFINE x == EndOf(p, k)
  <2>2. Ends(p, k, x)
    BY <2>1, EndOfIs DEF m
  <2> HIDE DEF x
  <2>3. Ends(r, k, x)
    <3>1. x \in k..m /\ (x = m \/ p[x + 1] = SLASH)
      BY <2>2 DEF Ends, m
    <3>2. x \in k..Len(r) /\ r[x + 1] = SLASH
      <4>0. m \in Nat /\ k \in 1..m /\ x \in k..m
        BY <1>1, <2>1, <3>1
      <4>1. x \in k..(m + 1) /\ (x = m \/ x + 1 \in 1..m)
        BY <4>0
      <4> QED BY <1>1, <3>1, <4>1
    <3>3. ASSUME NEW y \in k..Len(r), y < x PROVE r[y + 1] # SLASH
      <4>0. y \in k..(m + 1)
        BY <1>1
      <4>1. y \in k..m /\ y + 1 \in 1..m
        BY <1>1, <2>1, <3>1, <3>3, <4>0
      <4>2. p[y + 1] # SLASH
        BY <2>2, <3>3, <4>1 DEF Ends, m
      <4> QED BY <1>1, <4>1, <4>2
    <3> QED BY <3>2, <3>3 DEF Ends
  <2>4. EndOf(r, k) = x
    <3>1. k \in 1..Len(r)
      BY <1>1, <2>1
    <3> QED BY <1>1, <2>3, <3>1, EndOfIs
  <2>5. x \in 1..m
    BY <1>1, <2>1, <2>2 DEF Ends, m
  <2>6. \A j \in k..x : r[j + 0] = p[j]
    <3>1. \A j \in k..x : j \in 1..m /\ j + 0 = j
      BY <1>1, <2>1, <2>5
    <3> QED BY <1>1, <3>1
  <2>7. k \in Nat \ {0} /\ x \in Nat /\ x <= Len(p) /\ x + 0 <= Len(r) /\ k + 0 = k /\ x + 0 = x
    BY <1>1, <2>1, <2>5 DEF m
  <2>8. SubSeq(r, k + 0, x + 0) = SubSeq(p, k, x)
    <3>1. Holds(r, p, k, x, 0)
      BY <1>1, <2>6, <2>7 DEF Holds
    <3>2. SamePart(r, p, k, x, 0)
      BY <3>1, SubSeqShift
    <3> QED BY <3>2 DEF SamePart
  <2>9. SubSeq(r, k, x) = SubSeq(p, k, x)
    BY <2>7, <2>8
  <2> QED BY <2>4, <2>9 DEF WordAt, x
<1> QED BY <1>1, <1>2, <1>3, NamesSame DEF r

(* The size of a set and another one placed behind it.                       *)
Placed(m, B) == {m + j : j \in B}

Parts(m, l, A, B) ==
    m \in Nat /\ l \in Nat /\ A \in SUBSET (1..m) /\ B \in SUBSET (1..l)

LEMMA GlueCard ==
    ASSUME NEW m, NEW l, NEW A, NEW B, Parts(m, l, A, B)
    PROVE  Cardinality(A \cup Placed(m, B)) = Cardinality(A) + Cardinality(B)
<1> DEFINE C == {m + j : j \in B}
<1> USE DEF Parts
<1>0. \A j \in B : j \in 1..l
  OBVIOUS
<1>1. IsFiniteSet(1..m) /\ IsFiniteSet(1..l)
  BY FS_Interval
<1>2. IsFiniteSet(A) /\ IsFiniteSet(B) /\ Cardinality(A) \in Nat /\ Cardinality(B) \in Nat
  BY <1>1, FS_Subset, FS_CardinalityType
<1>3. IsFiniteSet(C) /\ Cardinality(C) = Cardinality(B)
  <2> DEFINE f == [j \in B |-> m + j]
  <2>1. \A h, j \in B : f[h] = f[j] => h = j
    <3>1. \A h, j \in B : m + h = m + j => h = j
      BY <1>0
    <3> QED BY <3>1
  <2>2. f \in [B -> C] /\ \A c \in C : \E j \in B : f[j] = c
    OBVIOUS
  <2>3. ExistsBijection(B, C)
    BY <2>1, <2>2 DEF ExistsBijection, Bijection, Injection, Surjection, IsInjective
  <2> HIDE DEF C
  <2> QED BY <1>2, <2>3, FS_Bijection
<1>4. A \cap C = {}
  <2>1. \A c \in C : c \notin 1..m
    BY <1>0
  <2> QED BY <2>1
<1>5. Cardinality(A \cap C) = 0
  BY <1>4, FS_EmptySet
<1> HIDE DEF C
<1>6. Cardinality(A \cup C) = Cardinality(A) + Cardinality(C) - Cardinality(A \cap C)
  BY <1>2, <1>3, FS_Union
<1>7. Cardinality(A \cup C) = Cardinality(A) + Cardinality(B)
  BY <1>2, <1>3, <1>5, <1>6
<1> QED BY <1>7 DEF C, Placed

(* r is p and then q, where p ends in a slash.                               *)
Glued(p, q, r) ==
    /\ p \in Seq(Nat) /\ q \in Seq(Nat) /\ r \in Seq(Nat)
    /\ Len(p) \in Nat \ {0} /\ Len(q) \in Nat /\ Len(r) = Len(p) + Len(q)
    /\ p[Len(p)] = SLASH
    /\ \A k \in 1..Len(p) : r[k] = p[k]
    /\ \A j \in 1..Len(q) : r[Len(p) + j] = q[j]

(* The names of a path in two parts start where those of the parts do.       *)
LEMMA GluedStarts ==
    ASSUME NEW p, NEW q, NEW r, Glued(p, q, r)
    PROVE  Starts(r) = Starts(p) \cup {Len(p) + j : j \in Starts(q)}
<1> DEFINE m == Len(p)
           l == Len(q)
<1>1. /\ p \in Seq(Nat) /\ q \in Seq(Nat) /\ r \in Seq(Nat)
      /\ m \in Nat \ {0} /\ l \in Nat /\ Len(r) = m + l
      /\ p[m] = SLASH
      /\ \A k \in 1..m : r[k] = p[k]
      /\ \A j \in 1..l : r[m + j] = q[j]
  BY DEF Glued
<1>2. Starts(p) \in SUBSET (1..m) /\ Starts(q) \in SUBSET (1..l) /\ Starts(r) \in SUBSET (1..(m + l))
  BY <1>1, StartsFacts
<1>3. ASSUME NEW k \in 1..m PROVE k \in Starts(r) <=> k \in Starts(p)
  <2>0. m \in Nat /\ l \in Nat /\ k \in 1..m
    BY <1>1
  <2>1. k \in 1..(m + l) /\ (k = 1 \/ k - 1 \in 1..m)
    BY <2>0
  <2>2. k \in Starts(r) <=> r[k] # SLASH /\ (k = 1 \/ r[k - 1] = SLASH)
    BY <1>1, <2>1, StartsFacts
  <2>3. k \in Starts(p) <=> p[k] # SLASH /\ (k = 1 \/ p[k - 1] = SLASH)
    BY <1>1, StartsFacts
  <2>4. r[k] = p[k] /\ (k = 1 \/ r[k - 1] = p[k - 1])
    BY <1>1, <2>1, Zenon
  <2> QED BY <2>2, <2>3, <2>4
<1>4. ASSUME NEW j \in 1..l PROVE m + j \in Starts(r) <=> j \in Starts(q)
  <2>0. m \in Nat \ {0} /\ l \in Nat /\ j \in 1..l
    BY <1>1
  <2>1. /\ m + j \in 1..(m + l) /\ m + j # 1
        /\ (j = 1 /\ (m + j) - 1 = m) \/ (j # 1 /\ j - 1 \in 1..l /\ (m + j) - 1 = m + (j - 1))
        /\ m \in 1..m
    BY <2>0
  <2>2. m + j \in Starts(r) <=> r[m + j] # SLASH /\ r[(m + j) - 1] = SLASH
    BY <1>1, <2>1, StartsFacts
  <2>3. j \in Starts(q) <=> q[j] # SLASH /\ (j = 1 \/ q[j - 1] = SLASH)
    BY <1>1, StartsFacts
  <2>4. r[m + j] = q[j]
    BY <1>1
  <2>5. CASE j = 1 /\ (m + j) - 1 = m
    <3>1. r[(m + j) - 1] = SLASH
      BY <1>1, <2>1, <2>5, Zenon
    <3> QED BY <2>2, <2>3, <2>4, <2>5, <3>1
  <2>6. CASE j # 1 /\ j - 1 \in 1..l /\ (m + j) - 1 = m + (j - 1)
    <3>1. r[(m + j) - 1] = q[j - 1]
      BY <1>1, <2>6, Zenon
    <3> QED BY <2>2, <2>3, <2>4, <2>6, <3>1
  <2> QED BY <2>1, <2>5, <2>6
<1>5. \A k \in 1..(m + l) : k \in 1..m \/ \E j \in 1..l : k = m + j
  <2> SUFFICES ASSUME NEW k \in 1..(m + l), k \notin 1..m PROVE \E j \in 1..l : k = m + j
    OBVIOUS
  <2>0. m \in Nat /\ l \in Nat
    BY <1>1
  <2>1. k - m \in 1..l /\ k = m + (k - m)
    BY <2>0
  <2> QED BY <2>1
<1> HIDE DEF m, l
<1>6. Starts(r) \subseteq Starts(p) \cup {m + j : j \in Starts(q)}
  BY <1>2, <1>3, <1>4, <1>5, Zenon
<1>7. \A k \in Starts(p) : k \in Starts(r)
  BY <1>2, <1>3, Zenon
<1>8. \A j \in Starts(q) : m + j \in Starts(r)
  BY <1>2, <1>4, Zenon
<1>9. Starts(r) = Starts(p) \cup {m + j : j \in Starts(q)}
  BY <1>6, <1>7, <1>8
<1> QED BY <1>9 DEF m

(* Those of the second part come behind those of the first.                  *)
LEMMA GluedRank ==
    ASSUME NEW p, NEW q, NEW r, Glued(p, q, r)
    PROVE  /\ Cardinality(Starts(r)) = Cardinality(Starts(p)) + Cardinality(Starts(q))
           /\ \A k \in Starts(p) : Rank(Starts(r), k) = Rank(Starts(p), k)
           /\ \A j \in Starts(q) :
                 Rank(Starts(r), Len(p) + j) = Cardinality(Starts(p)) + Rank(Starts(q), j)
<1> DEFINE m == Len(p)
           l == Len(q)
           A == Starts(p)
           B == Starts(q)
           R == Starts(r)
<1>1. m \in Nat /\ l \in Nat /\ p \in Seq(Nat) /\ q \in Seq(Nat)
  BY DEF Glued
<1>2. A \in SUBSET (1..m) /\ B \in SUBSET (1..l)
  BY <1>1, StartsFacts
<1>3. R = A \cup Placed(m, B)
  BY GluedStarts DEF Placed
<1> HIDE DEF m, l, A, B, R
<1>4. Cardinality(R) = Cardinality(A) + Cardinality(B)
  <2>1. Parts(m, l, A, B)
    BY <1>1, <1>2 DEF Parts
  <2>2. Cardinality(A \cup Placed(m, B)) = Cardinality(A) + Cardinality(B)
    BY <2>1, GlueCard
  <2> QED BY <1>3, <2>2
<1>5. (\A k \in A : k \in 1..m) /\ (\A j \in B : j \in 1..l)
  BY <1>2
<1>6. ASSUME NEW k \in A PROVE Rank(R, k) = Rank(A, k)
  <2>1. \A j \in B : ~(m + j <= k)
    BY <1>1, <1>5
  <2>2. {h \in R : h <= k} = {h \in A : h <= k}
    BY <1>3, <2>1 DEF Placed
  <2> QED BY <2>2 DEF Rank
<1>7. ASSUME NEW j \in B PROVE Rank(R, m + j) = Cardinality(A) + Rank(B, j)
  <2> DEFINE D == {h \in B : h <= j}
  <2>1. /\ \A k \in A : k <= m + j
        /\ \A h \in B : m + h <= m + j <=> h <= j
    BY <1>1, <1>5
  <2>2. {h \in R : h <= m + j} = A \cup Placed(m, D)
    BY <1>3, <2>1 DEF Placed
  <2>3. D \in SUBSET (1..l)
    BY <1>2
  <2> HIDE DEF D
  <2>4. Cardinality(A \cup Placed(m, D)) = Cardinality(A) + Cardinality(D)
    <3>1. Parts(m, l, A, D)
      BY <1>1, <1>2, <2>3 DEF Parts
    <3> QED BY <3>1, GlueCard
  <2>5. Rank(R, m + j) = Cardinality(A) + Cardinality(D)
    BY <2>2, <2>4 DEF Rank
  <2> QED BY <2>5 DEF Rank, D
<1> QED BY <1>4, <1>6, <1>7 DEF m, A, B, R

(* They are the same names.                                                  *)
LEMMA GluedWords ==
    ASSUME NEW p, NEW q, NEW r, Glued(p, q, r)
    PROVE  /\ \A k \in Starts(p) : WordAt(r, k) = WordAt(p, k)
           /\ \A j \in Starts(q) : WordAt(r, Len(p) + j) = WordAt(q, j)
<1> DEFINE m == Len(p)
           l == Len(q)
<1>1. /\ p \in Seq(Nat) /\ q \in Seq(Nat) /\ r \in Seq(Nat)
      /\ m \in Nat \ {0} /\ l \in Nat /\ Len(r) = m + l
      /\ p[m] = SLASH
      /\ \A k \in 1..m : r[k] = p[k]
      /\ \A j \in 1..l : r[m + j] = q[j]
  BY DEF Glued
<1>2. ASSUME NEW k \in Starts(p) PROVE WordAt(r, k) = WordAt(p, k)
  <2>0. m \in Nat \ {0} /\ l \in Nat /\ k \in 1..m /\ p[k] # SLASH
    BY <1>1, StartsFacts
  <2>1. k \in 1..(m - 1)
    <3>1. k # m
      BY <1>1, <2>0, Zenon
    <3> QED BY <2>0, <3>1
  <2> DEFINE x == EndOf(p, k)
  <2>2. /\ x \in k..m /\ (x = m \/ p[x + 1] = SLASH)
        /\ \A y \in k..m : y < x => p[y + 1] # SLASH
    <3>1. Ends(p, k, x)
      BY <1>1, <2>0, EndOfIs
    <3> QED BY <3>1 DEF Ends
  <2> HIDE DEF x, m, l
  <2>3. x \in k..(m - 1)
    <3>1. ~(m - 1 < x)
      <4>1. m - 1 \in k..m /\ (m - 1) + 1 = m
        BY <2>0, <2>1
      <4>2. m - 1 < x => p[(m - 1) + 1] # SLASH
        BY <2>2, <4>1
      <4> QED BY <1>1, <4>1, <4>2
    <3>2. x \in k..m
      BY <2>2
    <3> QED BY <2>0, <2>1, <3>1, <3>2
  <2>4. x + 1 \in 1..m /\ x # m /\ x \in k..(m + l) /\ k \in 1..(m + l)
    BY <2>0, <2>1, <2>3
  <2>5. r[x + 1] = SLASH
    BY <1>1, <2>2, <2>4, Zenon
  <2>6. ASSUME NEW y \in k..(m + l), y < x PROVE r[y + 1] # SLASH
    <3>1. y \in k..m /\ y + 1 \in 1..m
      BY <2>0, <2>3, <2>6
    <3>2. p[y + 1] # SLASH
      BY <2>2, <2>6, <3>1
    <3> QED BY <1>1, <3>1, <3>2, Zenon
  <2>7. EndOf(r, k) = x
    <3>1. Ends(r, k, x)
      BY <1>1, <2>4, <2>5, <2>6 DEF Ends
    <3> QED BY <1>1, <2>4, <3>1, EndOfIs
  <2>8. SubSeq(r, k + 0, x + 0) = SubSeq(p, k, x)
    <3>1. k \in Nat \ {0} /\ x \in Nat /\ x <= m /\ x + 0 <= m + l
      BY <2>0, <2>3
    <3>2. \A j \in k..x : j + 0 = j /\ j \in 1..m
      BY <2>0, <2>3
    <3>3. \A j \in k..x : r[j + 0] = p[j]
      BY <1>1, <3>2, Zenon
    <3>4. Holds(r, p, k, x, 0)
      BY <1>1, <3>1, <3>3 DEF Holds, m
    <3>5. SamePart(r, p, k, x, 0)
      BY <3>4, SubSeqShift
    <3> QED BY <3>5 DEF SamePart
  <2>9. SubSeq(r, k, x) = SubSeq(p, k, x)
    <3>1. k + 0 = k /\ x + 0 = x
      BY <2>0, <2>3
    <3> QED BY <2>8, <3>1
  <2> QED BY <2>7, <2>9 DEF WordAt, x
<1>3. ASSUME NEW j \in Starts(q) PROVE WordAt(r, m + j) = WordAt(q, j)
  <2>0. m \in Nat \ {0} /\ l \in Nat /\ j \in 1..l
    BY <1>1, StartsFacts
  <2> DEFINE x == EndOf(q, j)
  <2>2. /\ x \in j..l /\ (x = l \/ q[x + 1] = SLASH)
        /\ \A y \in j..l : y < x => q[y + 1] # SLASH
    <3>1. Ends(q, j, x)
      BY <1>1, <2>0, EndOfIs
    <3> QED BY <3>1 DEF Ends
  <2> HIDE DEF x, m, l
  <2>3. x \in j..l /\ x \in Nat
    BY <2>0, <2>2
  <2>4. /\ m + x \in (m + j)..(m + l) /\ m + j \in 1..(m + l)
        /\ (x = l /\ m + x = m + l) \/ (x # l /\ x + 1 \in 1..l /\ (m + x) + 1 = m + (x + 1))
    BY <2>0, <2>3
  <2>5. m + x = m + l \/ r[(m + x) + 1] = SLASH
    BY <1>1, <2>2, <2>4, Zenon
  <2>6. ASSUME NEW y \in (m + j)..(m + l), y < m + x PROVE r[y + 1] # SLASH
    <3>1. y - m \in j..l /\ y - m < x /\ (y - m) + 1 \in 1..l /\ y + 1 = m + ((y - m) + 1)
      BY <2>0, <2>3, <2>6
    <3>2. q[(y - m) + 1] # SLASH
      BY <2>2, <3>1
    <3>3. r[m + ((y - m) + 1)] = q[(y - m) + 1]
      BY <1>1, <3>1, Zenon
    <3> QED BY <3>1, <3>2, <3>3, Zenon
  <2>7. EndOf(r, m + j) = m + x
    <3>1. Ends(r, m + j, m + x)
      BY <1>1, <2>4, <2>5, <2>6 DEF Ends
    <3> QED BY <1>1, <2>4, <3>1, EndOfIs
  <2>8. SubSeq(r, j + m, x + m) = SubSeq(q, j, x)
    <3>1. j \in Nat \ {0} /\ x \in Nat /\ x <= l /\ x + m <= m + l
      BY <2>0, <2>3
    <3>2. \A h \in j..x : h + m = m + h /\ h \in 1..l
      BY <2>0, <2>3
    <3>3. \A h \in j..x : r[h + m] = q[h]
      BY <1>1, <3>2, Zenon
    <3>4. Holds(r, q, j, x, m)
      <4>1. q \in Seq(Nat) /\ r \in Seq(Nat) /\ j \in Nat \ {0} /\ x \in Nat /\ m \in Nat
        BY <1>1, <2>0, <3>1
      <4>2. x <= Len(q) /\ x + m <= Len(r)
        BY <1>1, <3>1 DEF l
      <4> QED BY <4>1, <4>2, <3>3 DEF Holds
    <3>5. SamePart(r, q, j, x, m)
      BY <3>4, SubSeqShift
    <3> QED BY <3>5 DEF SamePart
  <2>9. SubSeq(r, m + j, m + x) = SubSeq(q, j, x)
    <3>1. j + m = m + j /\ x + m = m + x
      BY <2>0, <2>3
    <3> QED BY <2>8, <3>1
  <2> QED BY <2>7, <2>9 DEF WordAt, x
<1> QED BY <1>2, <1>3

(* A sequence that has the elements of one and then those of another.        *)
Follows(T, s, t, u) ==
    /\ s \in Seq(T) /\ t \in Seq(T) /\ u \in Seq(T) /\ Len(u) = Len(s) + Len(t)
    /\ \A n \in 1..Len(s) : u[n] = s[n]
    /\ \A n \in 1..Len(t) : u[Len(s) + n] = t[n]

LEMMA Glue ==
    ASSUME NEW T, NEW s, NEW t, NEW u, Follows(T, s, t, u)
    PROVE  u = s \o t
<1> DEFINE a == Len(s)
           b == Len(t)
<1>0. /\ s \in Seq(T) /\ t \in Seq(T) /\ u \in Seq(T) /\ Len(u) = a + b
      /\ a \in Nat /\ b \in Nat /\ Len(s) = a /\ Len(t) = b
      /\ \A n \in 1..a : u[n] = s[n]
      /\ \A n \in 1..b : u[a + n] = t[n]
  BY DEF Follows
<1> HIDE DEF a, b
<1>1. s \o t \in Seq(T) /\ Len(s \o t) = a + b
  BY <1>0
<1>2. ASSUME NEW n \in 1..(a + b) PROVE u[n] = (s \o t)[n]
  <2>1. CASE n \in 1..a
    BY <1>0, <2>1
  <2>2. CASE n \notin 1..a
    <3>1. n - a \in 1..b /\ a + (n - a) = n
      BY <1>0, <2>2
    <3>2. u[n] = t[n - a]
      BY <1>0, <3>1
    <3>3. (s \o t)[n] = t[n - a]
      <4>1. n \in 1..(Len(s) + Len(t)) /\ ~(n <= Len(s)) /\ n - Len(s) = n - a
        BY <1>0, <2>2
      <4> QED BY <1>0, <4>1
    <3> QED BY <3>2, <3>3
  <2> QED BY <2>1, <2>2
<1> DEFINE v == s \o t
<1>3. v \in Seq(T) /\ Len(v) = Len(u) /\ \A n \in 1..Len(u) : u[n] = v[n]
  BY <1>0, <1>1, <1>2
<1> HIDE DEF v
<1>4. u = v
  BY <1>0, <1>3
<1> QED BY <1>4 DEF v

(* So the names are those of the first part and then those of the second.    *)
LEMMA NamesGlue ==
    ASSUME NEW p \in Seq(Nat), NEW q \in Seq(Nat), p # <<>>, Last(p) = SLASH
    PROVE  Names(p \o q) = Names(p) \o Names(q)
<1> DEFINE r == p \o q
           A == Starts(p)
           B == Starts(q)
           R == Starts(r)
           a == Cardinality(A)
           b == Cardinality(B)
<1>1. Glued(p, q, r)
  BY DEF Glued, Last
<1>2. r \in Seq(Nat)
  OBVIOUS
<1> HIDE DEF r
<1>3. /\ Cardinality(R) = a + b
      /\ \A k \in A : Rank(R, k) = Rank(A, k)
      /\ \A j \in B : Rank(R, Len(p) + j) = a + Rank(B, j)
  BY <1>1, GluedRank
<1>4. R = A \cup {Len(p) + j : j \in B}
  BY <1>1, GluedStarts
<1>5. /\ \A k \in A : WordAt(r, k) = WordAt(p, k)
      /\ \A j \in B : WordAt(r, Len(p) + j) = WordAt(q, j)
  BY <1>1, GluedWords
<1>6. /\ Names(p) \in Seq(Seq(Nat)) /\ Len(Names(p)) = a
      /\ \A k \in A : Names(p)[Rank(A, k)] = WordAt(p, k)
  BY NamesFacts
<1>7. /\ Names(q) \in Seq(Seq(Nat)) /\ Len(Names(q)) = b
      /\ \A j \in B : Names(q)[Rank(B, j)] = WordAt(q, j)
  BY NamesFacts
<1>8. /\ Names(r) \in Seq(Seq(Nat)) /\ Len(Names(r)) = a + b
      /\ \A k \in R : Names(r)[Rank(R, k)] = WordAt(r, k)
  BY <1>2, <1>3, NamesFacts
<1>9. A \in SUBSET (1..Len(p)) /\ B \in SUBSET (1..Len(q)) /\ Len(p) \in Nat /\ Len(q) \in Nat
  BY StartsFacts
<1>10. \A n \in 1..a : \E k \in A : Rank(A, k) = n
  BY <1>9, RankTaken
<1>11. \A n \in 1..b : \E j \in B : Rank(B, j) = n
  BY <1>9, RankTaken
<1>12. a \in Nat /\ b \in Nat
  BY <1>9, RankFacts
<1> HIDE DEF A, B, R, a, b
<1>13. ASSUME NEW n \in 1..a PROVE Names(r)[n] = Names(p)[n]
  <2>1. PICK k \in A : Rank(A, k) = n
    BY <1>10
  <2>2. k \in R
    BY <1>4
  <2>3. Names(r)[n] = WordAt(r, k)
    BY <1>3, <1>8, <2>1, <2>2, Zenon
  <2> QED BY <1>5, <1>6, <2>1, <2>3, Zenon
<1>14. ASSUME NEW n \in 1..b PROVE Names(r)[a + n] = Names(q)[n]
  <2>1. PICK j \in B : Rank(B, j) = n
    BY <1>11
  <2>2. Len(p) + j \in R
    BY <1>4
  <2>3. Names(r)[a + n] = WordAt(r, Len(p) + j)
    BY <1>3, <1>8, <2>1, <2>2, Zenon
  <2> QED BY <1>5, <1>7, <2>1, <2>3, Zenon
<1>15. Names(r) = Names(p) \o Names(q)
  <2>1. Follows(Seq(Nat), Names(p), Names(q), Names(r))
    BY <1>6, <1>7, <1>8, <1>13, <1>14 DEF Follows
  <2> QED BY <2>1, Glue
<1> QED BY <1>15 DEF r
-----------------------------------------------------------------------------
(* The line buffer: whatever it holds, the byte behind what may follow it is *)
(* a NUL, and every string in it ends.                                       *)

Cells == 0..(Cap + 1)
Mem == {mem \in [Cells -> Nat] : mem[Cap + 1] = 0}

(* The buffer has a cell, and a byte behind it and what may follow it.       *)
LEMMA CapIsNat == Cap \in Nat \ {0} /\ Cap + 1 \in Cells
  BY ShellAssumption DEF Cells

(* strlen finds the first NUL, which is within the memory.                   *)
LEMMA StrlenIs ==
    ASSUME NEW mem \in Mem, NEW a \in Cells
    PROVE  /\ strlen(mem, a) \in Nat /\ a + strlen(mem, a) \in Cells
           /\ mem[a + strlen(mem, a)] = 0
           /\ \A k \in a..(a + strlen(mem, a) - 1) : k \in Cells /\ mem[k] # 0
<1> DEFINE S == {n \in 0..(Cap + 1 - a) : mem[a + n] = 0}
<1>0. Cap \in Nat /\ a \in 0..(Cap + 1) /\ DOMAIN mem = 0..(Cap + 1) /\ mem[Cap + 1] = 0
  BY CapIsNat DEF Mem, Cells
<1>1. Cardinality(DOMAIN mem) = Cap + 2
  <2>1. Cardinality(0..(Cap + 1)) = Cap + 2
    <3>1. 0 \in Int /\ Cap + 1 \in Int /\ ~(0 > Cap + 1)
      BY <1>0
    <3>2. Cardinality(0..(Cap + 1)) = (Cap + 1) - 0 + 1
      BY <3>1, FS_Interval
    <3> QED BY <1>0, <3>2
  <2> QED BY <1>0, <2>1
<1>2. Cap + 1 - a \in S /\ S \in SUBSET Nat
  <2>1. Cap + 1 - a \in 0..(Cap + 1 - a) /\ a + (Cap + 1 - a) = Cap + 1
    BY <1>0
  <2>2. S \in SUBSET Nat
    BY <1>0
  <2> QED BY <1>0, <2>1, <2>2
<1>3. PICK n \in S : \A m \in S : n <= m
  <2> HIDE DEF S
  <2> QED BY <1>2, LeastNat
<1>4. n \in 0..(Cap + 2) /\ n \in 0..(Cap + 1 - a) /\ mem[a + n] = 0
  <2>1. n \in 0..(Cap + 1 - a) /\ mem[a + n] = 0
    OBVIOUS
  <2>2. n \in 0..(Cap + 2)
    BY <1>0, <2>1
  <2> QED BY <2>1, <2>2
<1>5. ASSUME NEW k \in a..(a + n - 1) PROVE mem[k] # 0
  <2>1. k - a \in 0..(Cap + 1 - a) /\ a + (k - a) = k /\ ~(n <= k - a)
    BY <1>0, <1>4
  <2>2. k - a \notin S
    BY <1>3, <2>1, Zenon
  <2> QED BY <2>1, <2>2
<1> DEFINE Len0(x) == mem[a + x] = 0 /\ \A k \in a..(a + x - 1) : mem[k] # 0
<1>6. Len0(n)
  BY <1>4, <1>5
<1> DEFINE z == strlen(mem, a)
<1>7. z \in 0..(Cap + 2) /\ Len0(z)
  <2>1. z = CHOOSE x \in 0..(Cap + 2) : Len0(x)
    BY <1>1 DEF strlen
  <2>2. \E x \in 0..(Cap + 2) : Len0(x)
    BY <1>4, <1>6
  <2> HIDE DEF Len0, z
  <2> QED BY <2>1, <2>2
<1>8. mem[a + z] = 0 /\ \A k \in a..(a + z - 1) : mem[k] # 0
  BY <1>7
<1> HIDE DEF z, Len0
<1>9. ~(Cap + 1 \in a..(a + z - 1))
  BY <1>0, <1>8, Zenon
<1>10. a + z \in Cells /\ z \in Nat /\ \A k \in a..(a + z - 1) : k \in Cells
  BY <1>0, <1>7, <1>9 DEF Cells
<1> QED BY <1>8, <1>10 DEF z

(* The string at a is the one whose length strlen finds.                     *)
LEMMA StringIs ==
    ASSUME NEW mem \in Mem, NEW a \in Cells
    PROVE  /\ StringAt(mem, a) \in Seq(Nat \ {0})
           /\ Len(StringAt(mem, a)) = strlen(mem, a)
           /\ \A h \in 1..strlen(mem, a) : StringAt(mem, a)[h] = mem[a + h - 1]
           /\ mem[a] # 0 => StringAt(mem, a) # <<>> /\ StringAt(mem, a)[1] = mem[a]
<1> DEFINE n == strlen(mem, a)
           s == StringAt(mem, a)
<1>1. /\ n \in Nat /\ mem[a + n] = 0 /\ a \in Nat
      /\ \A k \in a..(a + n - 1) : k \in Cells /\ mem[k] # 0
  BY StrlenIs DEF Cells
<1>2. s = [h \in 1..n |-> mem[a + h - 1]]
  BY DEF StringAt
<1> HIDE DEF n, s
<1>3. \A h \in 1..n : a + h - 1 \in a..(a + n - 1)
  BY <1>1
<1>4. \A k \in Cells : mem[k] \in Nat
  BY DEF Mem
<1>5. \A h \in 1..n : mem[a + h - 1] \in Nat \ {0}
  BY <1>1, <1>3, <1>4
<1>6. s \in Seq(Nat \ {0}) /\ Len(s) = n
  BY <1>1, <1>2, <1>5
<1>7. mem[a] # 0 => s # <<>> /\ s[1] = mem[a]
  <2> SUFFICES ASSUME mem[a] # 0 PROVE s # <<>> /\ s[1] = mem[a]
    OBVIOUS
  <2>1. n # 0
    <3>1. n = 0 => a + n = a
      BY <1>1
    <3> QED BY <1>1, <3>1
  <2>2. 1 \in 1..n /\ a + 1 - 1 = a
    BY <1>1, <2>1
  <2>3. s[1] = mem[a]
    BY <1>2, <2>2
  <2> QED BY <1>6, <2>1, <2>3
<1> QED BY <1>2, <1>6, <1>7 DEF n, s

(* A string is a text.                                                       *)
LEMMA StringNat ==
    ASSUME NEW mem \in Mem, NEW a \in Cells
    PROVE  StringAt(mem, a) \in Seq(Nat)
<1>1. StringAt(mem, a) \in Seq(Nat \ {0})
  BY StringIs
<1> QED BY <1>1

-----------------------------------------------------------------------------
(* The splitting of the buffer.                                              *)

TokenState == [words : Seq(Cells), mem : Mem, save : Cells]

(* Cutting a string at a delimiter leaves it in the buffer.                  *)
LEMMA CutIs ==
    ASSUME NEW mem \in Mem, NEW a \in Cells, NEW c \in Nat, NEW over \in BOOLEAN,
           NEW k \in Delimiters(mem, a, c, over)
    PROVE  /\ k \in Cells /\ k + 1 \in Cells /\ mem[k] = c /\ a <= k
           /\ [mem EXCEPT ![k] = 0] \in Mem
<1> DEFINE n == strlen(mem, a)
<1>1. k \in a..(a + n - 1) /\ mem[k] = c
  BY DEF Delimiters
<1>2. n \in Nat /\ a + n \in Cells /\ a \in Cells /\ Cap \in Nat
  BY StrlenIs, CapIsNat
<1> HIDE DEF n
<1>3. k \in Cells /\ k + 1 \in Cells /\ k # Cap + 1 /\ a <= k
  BY <1>1, <1>2 DEF Cells
<1>4. [mem EXCEPT ![k] = 0] \in [Cells -> Nat]
  BY DEF Mem
<1>5. [mem EXCEPT ![k] = 0][Cap + 1] = 0
  BY <1>3, CapIsNat DEF Mem
<1> QED BY <1>1, <1>3, <1>4, <1>5 DEF Mem

(* A step of strtok_r leaves addresses in the buffer, and the buffer one.    *)
LEMMA TokenType ==
    ASSUME NEW so \in TokenState, NEW over \in BOOLEAN
    PROVE  Token(so, over) \in TokenState
<1> DEFINE D == Delimiters(so.mem, so.save, SPACE, over)
           r == strtok_r(so.mem, so.save, SPACE, over)
<1>0. so.mem \in Mem /\ so.save \in Cells /\ so.words \in Seq(Cells)
  BY DEF TokenState
<1>1. so.save # NULL
  BY <1>0, CapIsNat DEF Cells, NULL
<1>2. CASE D = {}
  <2>1. r = [tok |-> NULL, mem |-> so.mem, save |-> so.save]
    BY <1>2 DEF strtok_r
  <2>2. Token(so, over) = [words |-> so.words, mem |-> so.mem, save |-> so.save]
    BY <2>1 DEF Token
  <2> QED BY <1>0, <2>2 DEF TokenState
<1>3. CASE D # {}
  <2> DEFINE k == FirstOf(D)
  <2>1. k \in D
    <3>1. D \in SUBSET Nat
      <4>0. SPACE \in Nat
        BY DEF SPACE
      <4>1. ASSUME NEW j \in D PROVE j \in Cells
        BY <1>0, <4>0, CutIs
      <4>2. Cells \subseteq Nat
        BY DEF Cells
      <4> QED BY <4>1, <4>2
    <3> HIDE DEF D
    <3> QED BY <1>3, <3>1, FirstIsLeast
  <2>2. k + 1 \in Cells /\ [so.mem EXCEPT ![k] = 0] \in Mem
    <3>1. SPACE \in Nat
      BY DEF SPACE
    <3> HIDE DEF k
    <3> QED BY <1>0, <2>1, <3>1, CutIs
  <2>3. r = [tok |-> so.save, mem |-> [so.mem EXCEPT ![k] = 0], save |-> k + 1]
    BY <1>1, <1>3 DEF strtok_r
  <2> HIDE DEF k, D
  <2>4. Token(so, over) =
            [words |-> Append(so.words, so.save), mem |-> [so.mem EXCEPT ![k] = 0], save |-> k + 1]
    BY <1>1, <2>3 DEF Token
  <2>5. Append(so.words, so.save) \in Seq(Cells)
    BY <1>0
  <2> QED BY <2>2, <2>4, <2>5 DEF TokenState
<1> QED BY <1>2, <1>3

(* What is so at first, and after each step if before it, is so up to N.     *)
LEMMA UpTo ==
    ASSUME NEW N \in Nat, NEW S, 0 \in S, \A n \in 0..N : n \in S /\ n # N => n + 1 \in S
    PROVE  \A n \in 0..N : n \in S
<1> DEFINE B == {n \in 0..N : n \notin S}
<1> SUFFICES ASSUME B # {} PROVE FALSE
  OBVIOUS
<1>1. B \in SUBSET Nat
  OBVIOUS
<1>2. PICK n \in B : \A m \in B : n <= m
  <2> HIDE DEF B
  <2> QED BY <1>1, LeastNat
<1>3. n \in 0..N /\ n \notin S /\ n # 0
  OBVIOUS
<1>4. n - 1 \in 0..N /\ (n - 1) + 1 = n /\ n - 1 # N /\ ~(n <= n - 1)
  BY <1>3
<1>5. n - 1 \in S
  <2>1. n - 1 \notin B
    BY <1>2, <1>4, Zenon
  <2> QED BY <1>4, <2>1
<1> QED BY <1>3, <1>4, <1>5

(* The states strtok_r goes through exist.                                   *)
TokenStep(mem, over, f, n) ==
    IF n = 0 THEN [words |-> <<>>, mem |-> mem, save |-> 0] ELSE Token(f[n - 1], over)
IsRun(mem, over, f, N) == f = [n \in 0..N |-> TokenStep(mem, over, f, n)]

LEMMA RunExists ==
    ASSUME NEW mem, NEW over, NEW N \in Nat
    PROVE  \E f : IsRun(mem, over, f, N)
<1> DEFINE S == {n \in Nat : \E f : IsRun(mem, over, f, n)}
<1>1. 0 \in S
  <2> DEFINE f == [n \in 0..0 |-> [words |-> <<>>, mem |-> mem, save |-> 0]]
  <2>1. \A n \in 0..0 : n = 0
    OBVIOUS
  <2>2. f = [n \in 0..0 |-> TokenStep(mem, over, f, n)]
    BY <2>1 DEF TokenStep
  <2> QED BY <2>2 DEF IsRun
<1>2. ASSUME NEW n \in 0..N, n \in S, n # N PROVE n + 1 \in S
  <2>1. PICK f : IsRun(mem, over, f, n)
    BY <1>2
  <2> DEFINE g == [h \in 0..(n + 1) |-> TokenStep(mem, over, f, h)]
  <2>2. ASSUME NEW h \in 0..(n + 1) PROVE TokenStep(mem, over, f, h) = TokenStep(mem, over, g, h)
    <3>1. CASE h = 0
      BY <3>1 DEF TokenStep
    <3>2. CASE h # 0
      <4>1. h - 1 \in 0..n /\ h - 1 \in 0..(n + 1)
        BY <3>2
      <4>2. f[h - 1] = TokenStep(mem, over, f, h - 1)
        BY <2>1, <4>1 DEF IsRun
      <4>3. g[h - 1] = TokenStep(mem, over, f, h - 1)
        BY <4>1
      <4> QED BY <3>2, <4>2, <4>3 DEF TokenStep
    <3> QED BY <3>1, <3>2
  <2>3. g = [h \in 0..(n + 1) |-> TokenStep(mem, over, g, h)]
    BY <2>2
  <2> HIDE DEF g
  <2> QED BY <2>3 DEF IsRun
<1> HIDE DEF S
<1>3. \A n \in 0..N : n \in S
  BY <1>1, <1>2, UpTo
<1>4. N \in S
  BY <1>3
<1> QED BY <1>4 DEF S

(* They are the steps Tokens goes through, each from the one before.         *)
LEMMA TokensRun ==
    ASSUME NEW over
    PROVE  \E f : /\ Tokens(over) = f[Cap]
                  /\ f[0] = [words |-> <<>>, mem |-> buf, save |-> 0]
                  /\ \A n \in 0..Cap : n # Cap => f[n + 1] = Token(f[n], over)
<1> DEFINE F == CHOOSE f : f = [n \in 0..Cap |->
                                  IF n = 0 THEN [words |-> <<>>, mem |-> buf, save |-> 0]
                                  ELSE Token(f[n - 1], over)]
           G == CHOOSE f : IsRun(buf, over, f, Cap)
<1>1. Tokens(over) = F[Cap]
  BY DEF Tokens
<1>2. F = G
  BY DEF IsRun, TokenStep
<1>3. IsRun(buf, over, G, Cap)
  BY CapIsNat, RunExists
<1> HIDE DEF F, G
<1>4. \A n \in 0..Cap : G[n] = TokenStep(buf, over, G, n)
  BY <1>3 DEF IsRun
<1>5. G[0] = [words |-> <<>>, mem |-> buf, save |-> 0]
  <2>1. 0 \in 0..Cap
    BY CapIsNat
  <2> QED BY <1>4, <2>1 DEF TokenStep
<1>6. ASSUME NEW n \in 0..Cap, n # Cap PROVE G[n + 1] = Token(G[n], over)
  <2>1. n + 1 \in 0..Cap /\ n + 1 # 0 /\ (n + 1) - 1 = n
    BY <1>6, CapIsNat
  <2>2. G[n + 1] = TokenStep(buf, over, G, n + 1)
    BY <1>4, <2>1
  <2> QED BY <2>1, <2>2 DEF TokenStep
<1> QED BY <1>1, <1>2, <1>5, <1>6

(* So the words are addresses in the buffer.                                 *)
LEMMA TokensType ==
    ASSUME NEW over \in BOOLEAN, buf \in Mem
    PROVE  Tokens(over) \in TokenState
<1>1. PICK f : /\ Tokens(over) = f[Cap]
               /\ f[0] = [words |-> <<>>, mem |-> buf, save |-> 0]
               /\ \A n \in 0..Cap : n # Cap => f[n + 1] = Token(f[n], over)
  BY TokensRun
<1> DEFINE S == {n \in Nat : f[n] \in TokenState}
<1>2. 0 \in S
  <2>1. 0 \in Cells /\ <<>> \in Seq(Cells)
    BY CapIsNat DEF Cells
  <2>2. [words |-> <<>>, mem |-> buf, save |-> 0] \in TokenState
    BY <2>1 DEF TokenState
  <2>3. f[0] \in TokenState
    BY <1>1, <2>2
  <2> QED BY <2>3
<1>3. ASSUME NEW n \in 0..Cap, n \in S, n # Cap PROVE n + 1 \in S
  <2>1. f[n + 1] = Token(f[n], over) /\ f[n] \in TokenState
    BY <1>1, <1>3
  <2>2. f[n + 1] \in TokenState
    BY <2>1, TokenType
  <2> QED BY <2>2
<1> HIDE DEF S
<1>4. \A n \in 0..Cap : n \in S
  BY <1>2, <1>3, CapIsNat, UpTo
<1>5. Cap \in S
  BY <1>4, CapIsNat
<1> QED BY <1>1, <1>5 DEF S
-----------------------------------------------------------------------------
(* cd with a relative path: the directory it makes has the names of the old  *)
(* one and then those of the path, however the slashes lie.                  *)

LEMMA NamesFront ==
    ASSUME NEW p \in Seq(Nat), p # <<>>, Last(p) = SLASH
    PROVE  Front(p) \in Seq(Nat) /\ Names(Front(p)) = Names(p)
<1> DEFINE f == Front(p)
<1>1. f \in Seq(Nat) /\ Len(f) = Len(p) - 1 /\ \A h \in 1..Len(f) : f[h] = p[h]
  <2> DEFINE n == Len(p) - 1
  <2>1. n \in Nat /\ Len(p) = n + 1
    OBVIOUS
  <2>2. \A h \in 1..n : h \in 1..Len(p)
    BY <2>1
  <2>3. f = SubSeq(p, 1, n)
    BY DEF Front
  <2> HIDE DEF n
  <2>4. SubSeq(p, 1, n) \in Seq(Nat) /\ Len(SubSeq(p, 1, n)) = n
    BY <2>1
  <2>5. \A h \in 1..n : SubSeq(p, 1, n)[h] = p[h]
    BY <2>1
  <2> QED BY <2>1, <2>3, <2>4, <2>5
<1>2. p = f \o <<SLASH>>
  <2>1. <<SLASH>> \in Seq(Nat) /\ Len(<<SLASH>>) = 1 /\ <<SLASH>>[1] = SLASH
    BY DEF SLASH
  <2>2. Len(p) \in Nat \ {0} /\ Len(p) = Len(f) + 1 /\ p[Len(f) + 1] = SLASH
    BY <1>1 DEF Last
  <2> HIDE DEF f
  <2>3. \A n \in 1..1 : p[Len(f) + n] = <<SLASH>>[n]
    BY <2>1, <2>2
  <2>4. Follows(Nat, f, <<SLASH>>, p)
    BY <1>1, <2>1, <2>2, <2>3 DEF Follows
  <2> QED BY <2>4, Glue
<1> HIDE DEF f
<1>3. Names(f \o <<SLASH>>) = Names(f)
  BY <1>1, NamesSlash
<1> QED BY <1>1, <1>2, <1>3 DEF f

(* The root has no names.                                                    *)
LEMMA NamesNone == Names(<<>>) = <<>> /\ Names(<<SLASH>>) = <<>>
<1>1. <<>> \in Seq(Nat) /\ <<>> \o <<SLASH>> = <<SLASH>>
  BY DEF SLASH
<1>2. Starts(<<>>) = {}
  BY DEF Starts
<1>3. Names(<<>>) \in Seq(Seq(Nat)) /\ Len(Names(<<>>)) = 0
  BY <1>1, <1>2, NamesFacts, FS_EmptySet
<1>4. Names(<<>>) = <<>>
  BY <1>3
<1>5. Names(<<>> \o <<SLASH>>) = Names(<<>>)
  BY <1>1, NamesSlash
<1> QED BY <1>1, <1>4, <1>5

Sep(p, last) == IF last = SLASH THEN <<>> ELSE <<SLASH>>

(* The old directory and the separator end in a slash and add no name.       *)
LEMMA WithSep ==
    ASSUME NEW p \in Seq(Nat), NEW last, p # <<>> => last = Last(p), p = <<>> => last # SLASH
    PROVE  /\ p \o Sep(p, last) \in Seq(Nat) /\ p \o Sep(p, last) # <<>>
           /\ Last(p \o Sep(p, last)) = SLASH
           /\ Names(p \o Sep(p, last)) = Names(p)
<1>1. CASE last = SLASH
  <2>1. p # <<>> /\ Sep(p, last) = <<>> /\ p \o <<>> = p
    BY <1>1 DEF Sep
  <2> QED BY <1>1, <2>1
<1>2. CASE last # SLASH
  <2> DEFINE r == p \o <<SLASH>>
  <2>1. Sep(p, last) = <<SLASH>> /\ SLASH \in Nat
    BY <1>2 DEF Sep, SLASH
  <2>2. r \in Seq(Nat) /\ r # <<>> /\ Len(r) = Len(p) + 1 /\ r[Len(p) + 1] = SLASH
    BY <2>1
  <2>3. Names(r) = Names(p)
    BY NamesSlash
  <2> HIDE DEF r
  <2>4. Last(r) = SLASH
    BY <2>2 DEF Last
  <2> QED BY <2>1, <2>2, <2>3, <2>4 DEF r
<1> QED BY <1>1, <1>2

(* The directory is a text of its own, or one that begins with a slash.      *)
WdirOK ==
    /\ wdir = [at |-> wdir.at, text |-> wdir.text]
    /\ wdir.at \in Cells \cup {NULL} /\ wdir.text \in Seq(Nat)
    /\ ~overwritten /\ wdir.at # NULL => buf[wdir.at] = SLASH

(* The directory is a text, and not an empty one while it is the one asked.  *)
LEMMA WDirIs ==
    ASSUME buf \in Mem, WdirOK
    PROVE  WDir \in Seq(Nat) /\ (~overwritten /\ wdir.at # NULL => WDir # <<>>)
<1>1. CASE wdir.at = NULL
  BY <1>1 DEF WDir, WdirOK
<1>2. CASE wdir.at # NULL
  <2>1. wdir.at \in Cells /\ WDir = StringAt(buf, wdir.at)
    BY <1>2 DEF WDir, WdirOK, Text
  <2>2. WDir \in Seq(Nat)
    BY <2>1, StringNat
  <2>3. ASSUME ~overwritten PROVE WDir # <<>>
    <3>1. buf[wdir.at] # 0
      BY <1>2, <2>3 DEF WdirOK, SLASH
    <3> QED BY <2>1, <3>1, StringIs
  <2> QED BY <2>2, <2>3
<1> QED BY <1>1, <1>2

(* What cd stores for a relative path.                                       *)
LEMMA RelativeNames ==
    ASSUME buf \in Mem, WdirOK, NEW tgt \in Cells
    PROVE  /\ newwdir(tgt) \in Seq(Nat)
           /\ ~overwritten => Names(newwdir(tgt)) = Names(WDir) \o Names(Text(tgt))
<1> DEFINE p == WDir
           t == Text(tgt)
           last == LastOf(WDir, wdir.at)
           full == (p \o Sep(p, last)) \o t
<1>1. p \in Seq(Nat) /\ t \in Seq(Nat)
  BY WDirIs, StringNat DEF Text
<1>2. Sep(p, last) \in Seq(Nat) /\ SLASH \in Nat
  BY DEF Sep, SLASH
<1>3. newwdir(tgt) = IF LastOf(t, tgt) # SLASH THEN full ELSE Front(full)
  BY DEF newwdir, Sep
<1>4. full \in Seq(Nat)
  BY <1>1, <1>2
<1>5. LastOf(t, tgt) = SLASH /\ t # <<>> => full # <<>> /\ Last(full) = SLASH
  <2> SUFFICES ASSUME LastOf(t, tgt) = SLASH, t # <<>> PROVE full # <<>> /\ Last(full) = SLASH
    OBVIOUS
  <2>1. Last(t) = SLASH
    BY DEF LastOf
  <2> DEFINE b == p \o Sep(p, last)
  <2>2. b \in Seq(Nat)
    BY <1>1, <1>2
  <2> HIDE DEF b, t
  <2>3. b \o t # <<>> /\ Last(b \o t) = Last(t)
    BY <1>1, <2>2 DEF Last
  <2> QED BY <2>1, <2>3 DEF b
<1>6. newwdir(tgt) \in Seq(Nat)
  <2>1. Front(full) \in Seq(Nat)
    <3> HIDE DEF full
    <3> QED BY <1>4 DEF Front
  <2> HIDE DEF full, t
  <2> QED BY <1>3, <1>4, <2>1
<1>7. ASSUME ~overwritten PROVE Names(newwdir(tgt)) = Names(p) \o Names(t)
  <2> DEFINE b == p \o Sep(p, last)
  <2>1. p # <<>> => last = Last(p)
    BY DEF LastOf
  <2>2. p = <<>> => last # SLASH
    BY <1>7, WDirIs DEF LastOf, SLASH
  <2> HIDE DEF p, last, t
  <2>3. b \in Seq(Nat) /\ b # <<>> /\ Last(b) = SLASH /\ Names(b) = Names(p)
    BY <1>1, <2>1, <2>2, WithSep
  <2> HIDE DEF b
  <2>4. Names(b \o t) = Names(p) \o Names(t)
    BY <1>1, <2>3, NamesGlue
  <2>5. full = b \o t
    BY DEF b
  <2>6. CASE LastOf(t, tgt) # SLASH
    BY <1>3, <2>4, <2>5, <2>6
  <2>7. CASE LastOf(t, tgt) = SLASH
    <3>1. full # <<>> /\ Last(full) = SLASH
      <4>1. CASE t # <<>>
        BY <1>5, <2>7, <4>1
      <4>2. CASE t = <<>>
        BY <2>3, <2>5, <4>2
      <4> QED BY <4>1, <4>2
    <3> HIDE DEF full
    <3>2. Names(Front(full)) = Names(full)
      BY <1>4, <3>1, NamesFront
    <3> QED BY <1>3, <2>4, <2>5, <2>7, <3>2
  <2> QED BY <2>6, <2>7
<1> QED BY <1>6, <1>7
-----------------------------------------------------------------------------
(* The shell's invariant.                                                    *)

BufferOK ==
    /\ buf \in Mem /\ argv \in Seq(Cells)
    /\ rest \in Seq(Seq(Nat \ {0})) /\ typed \in Seq(Nat \ {0})

(* A line that fits is what the buffer holds until it is split.              *)
Line(line) == (\A k \in 0..(Len(line) - 1) : buf[k] = line[k + 1]) /\ buf[Len(line)] = 0
LineOK == mode = "typed" /\ Fits(typed) => Line(typed)

(* A directory in the buffer is lost when a line is typed.                   *)
AskedOK ==
    /\ asked \in Seq(Seq(Nat)) /\ overwritten \in BOOLEAN
    /\ mode = "typed" /\ wdir.at # NULL => overwritten

ShellIInv == BufferOK /\ LineOK /\ WdirOK /\ AskedOK /\ WordsAreLine /\ DirectoryIsAsked

(* The shell starts in the root with an empty line.                          *)
LEMMA ShellInitInv == ShellInit => ShellIInv
<1> SUFFICES ASSUME ShellInit PROVE ShellIInv
  OBVIOUS
<1>1. PICK b \in Behind \cup {0} : buf = [k \in 0..(Cap + 1) |-> IF k = Cap THEN b ELSE 0]
  BY DEF ShellInit
<1>2. b \in Nat /\ Cap \in Nat /\ Cap + 1 # Cap
  BY ShellAssumption
<1>3. buf \in Mem
  <2>1. buf \in [Cells -> Nat]
    BY <1>1, <1>2 DEF Cells
  <2>2. buf[Cap + 1] = 0
    BY <1>1, <1>2
  <2> QED BY <2>1, <2>2 DEF Mem
<1>4. wdir = [at |-> NULL, text |-> <<SLASH>>] /\ wdir.at = NULL /\ wdir.text = <<SLASH>>
  BY DEF ShellInit, Named
<1>5. mode = "prompt" /\ asked = <<>> /\ overwritten = FALSE
      /\ rest = <<>> /\ argv = <<>> /\ typed = <<>>
  BY DEF ShellInit
<1>6. BufferOK
  BY <1>3, <1>5 DEF BufferOK
<1>7. WdirOK
  BY <1>4, <1>5 DEF WdirOK, SLASH
<1>8. LineOK /\ AskedOK /\ WordsAreLine
  <2>1. mode # "typed" /\ mode # "split"
    BY <1>5
  <2>2. asked \in Seq(Seq(Nat))
    BY <1>5
  <2>3. overwritten \in BOOLEAN
    BY <1>5, Zenon
  <2>4. AskedOK
    BY <2>1, <2>2, <2>3, Zenon DEF AskedOK
  <2> QED BY <2>1, <2>4 DEF LineOK, WordsAreLine
<1>9. DirectoryIsAsked
  BY <1>4, <1>5, NamesNone DEF DirectoryIsAsked, WDir
<1> QED BY <1>6, <1>7, <1>8, <1>9 DEF ShellIInv

(* A line is read into the buffer: at most Cap bytes of it, and a NUL if     *)
(* there is room.                                                            *)
LEMMA StoredIs ==
    ASSUME BufferOK, NEW line \in Seq(Nat \ {0})
    PROVE  Stored(line) \in Mem
<1>1. DOMAIN buf = Cells /\ buf[Cap + 1] = 0 /\ \A k \in Cells : buf[k] \in Nat
  BY DEF BufferOK, Mem
<1>2. Cap \in Nat /\ Len(line) \in Nat /\ \A h \in 1..Len(line) : line[h] \in Nat
  BY CapIsNat
<1>3. Stored(line) = [k \in Cells |-> IF k >= Cap \/ k > Len(line) THEN buf[k]
                                      ELSE IF k = Len(line) THEN 0 ELSE line[k + 1]]
  BY <1>1 DEF Stored
<1>4. ASSUME NEW k \in Cells
      PROVE  (IF k >= Cap \/ k > Len(line) THEN buf[k]
              ELSE IF k = Len(line) THEN 0 ELSE line[k + 1]) \in Nat
  <2>1. k \in Nat /\ Len(line) \in Nat
    BY <1>2 DEF Cells
  <2>2. CASE k < Len(line)
    <3>1. k + 1 \in 1..Len(line)
      BY <2>1, <2>2
    <3>2. line[k + 1] \in Nat
      BY <1>2, <3>1
    <3> QED BY <1>1, <3>2
  <2>3. CASE ~(k < Len(line))
    <3>1. k > Len(line) \/ k = Len(line)
      BY <2>1, <2>3
    <3> QED BY <1>1, <3>1
  <2> QED BY <2>2, <2>3
<1>5. Stored(line) \in [Cells -> Nat]
  BY <1>3, <1>4
<1>6. Stored(line)[Cap + 1] = 0
  BY <1>1, <1>2, <1>3, CapIsNat
<1> QED BY <1>5, <1>6 DEF Mem

(* Reading a line: a directory that is a piece of the buffer is lost.        *)
LEMMA GetlineInv == ShellIInv /\ shell_getline => ShellIInv'
<1> SUFFICES ASSUME ShellIInv, shell_getline PROVE ShellIInv'
  OBVIOUS
<1>0. BufferOK /\ WdirOK /\ AskedOK /\ DirectoryIsAsked
  BY DEF ShellIInv
<1>1. PICK line \in IF rest = <<>> THEN Lines ELSE ToSet(rest) :
          /\ buf' = Stored(line) /\ typed' = line
          /\ rest' = IF Fits(line) THEN <<>> ELSE <<SubSeq(line, Cap + 1, Len(line))>>
  BY DEF shell_getline
<1>2. /\ mode' = "typed" /\ overwritten' = (overwritten \/ wdir.at # NULL)
      /\ argv' = argv /\ wdir' = wdir /\ asked' = asked
  BY DEF shell_getline
<1>3. line \in Seq(Nat \ {0})
  <2>1. Lines \subseteq Seq(Nat \ {0})
    BY ShellAssumption
  <2>2. ToSet(rest) \subseteq Seq(Nat \ {0})
    BY <1>0 DEF BufferOK, ToSet
  <2> QED BY <2>1, <2>2
<1>4. buf' \in Mem
  BY <1>0, <1>1, <1>3, StoredIs
<1>5. rest' \in Seq(Seq(Nat \ {0}))
  <2>1. SubSeq(line, Cap + 1, Len(line)) \in Seq(Nat \ {0})
    BY <1>3, CapIsNat
  <2> DEFINE T == Seq(Nat \ {0})
             u == SubSeq(line, Cap + 1, Len(line))
  <2>2. rest' = <<>> \/ rest' = <<u>>
    BY <1>1
  <2>3. u \in T
    BY <2>1
  <2> HIDE DEF T, u
  <2>4. <<u>> \in Seq(T) /\ <<>> \in Seq(T)
    BY <2>3
  <2>4a. rest' \in Seq(T)
    BY <2>2, <2>4, Zenon
  <2> QED BY <2>4a DEF T
<1>6. BufferOK'
  BY <1>0, <1>1, <1>2, <1>3, <1>4, <1>5 DEF BufferOK
<1>7. LineOK'
  <2> SUFFICES ASSUME Fits(line) PROVE Line(line)'
    BY <1>1 DEF LineOK, Fits
  <2>1. Len(line) \in Nat /\ Len(line) < Cap /\ Cap \in Nat
    BY <1>3, CapIsNat DEF Fits
  <2>2. buf' = [k \in Cells |-> IF k >= Cap \/ k > Len(line) THEN buf[k]
                                ELSE IF k = Len(line) THEN 0 ELSE line[k + 1]]
    BY <1>0, <1>1 DEF Stored, BufferOK, Mem
  <2>3. ASSUME NEW k \in 0..(Len(line) - 1) PROVE buf'[k] = line[k + 1]
    <3>1. k \in Cells /\ ~(k >= Cap) /\ ~(k > Len(line)) /\ k # Len(line)
      BY <2>1 DEF Cells
    <3> QED BY <2>2, <3>1
  <2>4. buf'[Len(line)] = 0
    BY <2>1, <2>2 DEF Cells
  <2> QED BY <2>3, <2>4 DEF Line
<1>8. WdirOK'
  <2>1. ~(~overwritten' /\ wdir'.at # NULL)
    BY <1>2, Zenon
  <2> QED BY <1>0, <1>2, <2>1 DEF WdirOK
<1>9. AskedOK'
  <2>1. overwritten' \in BOOLEAN
    BY <1>2, Zenon
  <2>2. wdir'.at # NULL => overwritten'
    BY <1>2, Zenon
  <2> QED BY <1>0, <1>2, <2>1, <2>2 DEF AskedOK
<1>10. WordsAreLine'
  BY <1>2 DEF WordsAreLine
<1>11. DirectoryIsAsked'
  <2>1. CASE overwritten'
    BY <2>1 DEF DirectoryIsAsked
  <2>2. CASE ~overwritten'
    <3>1. ~overwritten /\ wdir.at = NULL
      BY <1>2, <2>2, Zenon
    <3>2. WDir' = WDir
      BY <1>2, <3>1 DEF WDir
    <3> QED BY <1>0, <1>2, <3>1, <3>2 DEF DirectoryIsAsked
  <2> QED BY <2>1, <2>2
<1> QED BY <1>6, <1>7, <1>8, <1>9, <1>10, <1>11 DEF ShellIInv

(* What leaves the directory, the buffer and the line alone, behind a split. *)
LEMMA StaysInv ==
    ASSUME ShellIInv, UNCHANGED <<buf, rest, typed, wdir, asked, overwritten>>,
           argv' \in Seq(Cells), mode' # "typed", mode' # "split"
    PROVE  ShellIInv'
<1>1. BufferOK'
  BY DEF ShellIInv, BufferOK
<1>2. LineOK' /\ WordsAreLine'
  BY DEF LineOK, WordsAreLine
<1>3. WdirOK' /\ AskedOK'
  BY DEF ShellIInv, WdirOK, AskedOK
<1>4. DirectoryIsAsked'
  BY DEF ShellIInv, DirectoryIsAsked, WDir, Text
<1> QED BY <1>1, <1>2, <1>3, <1>4 DEF ShellIInv

(* The commands that do not change the directory.                            *)
LEMMA CommandsInv ==
    ASSUME ShellIInv,
           \/ shell_cmd_pwd \/ shell_cmd_ls \/ shell_cmd_rev \/ shell_cmd_clock
           \/ shell_cmd_tree \/ shell_cmd_cat \/ shell_cmd_shutdown \/ shell_cmd_graphics
           \/ Unknown \/ Return
    PROVE  ShellIInv'
<1>1. UNCHANGED <<buf, rest, typed, wdir, asked, overwritten>>
  BY DEF shell_cmd_pwd, shell_cmd_ls, shell_cmd_rev, shell_cmd_clock, shell_cmd_tree,
         shell_cmd_cat, shell_cmd_shutdown, shell_cmd_graphics, Unknown, Return,
         Runs, Shows, Stays
<1>2. argv' \in Seq(Cells)
  <2>1. argv' = <<>> \/ argv' = argv
    BY DEF shell_cmd_pwd, shell_cmd_ls, shell_cmd_rev, shell_cmd_clock, shell_cmd_tree,
           shell_cmd_cat, shell_cmd_shutdown, shell_cmd_graphics, Unknown, Return, Runs
  <2>2. argv \in Seq(Cells) /\ <<>> \in Seq(Cells)
    BY DEF ShellIInv, BufferOK
  <2> QED BY <2>1, <2>2
<1>3. mode' \in {"prompt", "spinning", "off", "graphics"}
  <2>1. CASE shell_cmd_cat
    BY <2>1 DEF shell_cmd_cat
  <2>2. CASE ~shell_cmd_cat
    BY <2>2 DEF shell_cmd_pwd, shell_cmd_ls, shell_cmd_rev, shell_cmd_clock, shell_cmd_tree,
           shell_cmd_shutdown, shell_cmd_graphics, Unknown, Return, Shows
  <2> QED BY <2>1, <2>2
<1> QED BY <1>1, <1>2, <1>3, StaysInv

(* cd: home, to a path in the buffer, or to a text put together.             *)
LEMMA CdInv == ShellIInv /\ shell_cmd_cd => ShellIInv'
<1> SUFFICES ASSUME ShellIInv, shell_cmd_cd PROVE ShellIInv'
  OBVIOUS
<1>0. BufferOK /\ WdirOK /\ AskedOK /\ DirectoryIsAsked
  BY DEF ShellIInv
<1>1. /\ argv' = <<>> /\ mode' = "prompt"
      /\ buf' = buf /\ rest' = rest /\ typed' = typed
  BY DEF shell_cmd_cd, Runs
<1>2. BufferOK' /\ LineOK' /\ WordsAreLine'
  BY <1>0, <1>1 DEF BufferOK, LineOK, WordsAreLine
<1>3. CASE Home
  <2>1. wdir' = [at |-> NULL, text |-> <<SLASH>>] /\ asked' = <<>> /\ overwritten' = FALSE
    BY <1>3 DEF Home, Named
  <2>2. WdirOK'
    BY <2>1 DEF WdirOK, SLASH
  <2>2a. AskedOK'
    <3>1. overwritten' \in BOOLEAN /\ mode' # "typed"
      BY <1>1, <2>1, Zenon
    <3>2. asked' \in Seq(Seq(Nat))
      BY <2>1
    <3> QED BY <3>1, <3>2 DEF AskedOK
  <2>3. DirectoryIsAsked'
    BY <2>1, NamesNone DEF DirectoryIsAsked, WDir
  <2> QED BY <1>2, <2>2, <2>2a, <2>3 DEF ShellIInv
<1>4. CASE Stays
  BY <1>1, <1>4, StaysInv DEF Stays
<1>5. argc = 2 => argv[2] \in Cells
  <2>1. argv \in Seq(Cells)
    BY <1>0 DEF BufferOK
  <2>2. ASSUME Len(argv) = 2 PROVE argv[2] \in Cells
    <3> HIDE DEF Cells
    <3>1. 2 \in 1..Len(argv)
      BY <2>2
    <3> QED BY <2>1, <3>1
  <2> QED BY <2>2 DEF argc
<1>6. CASE argc = 2 /\ buf[argv[2]] = SLASH /\ Absolute(argv[2])
  <2> DEFINE tgt == argv[2]
  <2>0. tgt \in Cells /\ tgt # NULL
    BY <1>5, <1>6 DEF Cells, NULL
  <2>1. /\ wdir' = [at |-> tgt, text |-> <<>>]
        /\ asked' = Names(Text(tgt)) /\ overwritten' = FALSE
    BY <1>6 DEF Absolute
  <2>2. Text(tgt) \in Seq(Nat)
    BY <1>0, <2>0, StringNat DEF Text, BufferOK
  <2>3. asked' \in Seq(Seq(Nat))
    BY <2>1, <2>2, NamesFacts
  <2>4. buf[tgt] = SLASH
    BY <1>6
  <2> HIDE DEF tgt
  <2>5. WdirOK'
    BY <1>1, <2>0, <2>1, <2>4 DEF WdirOK
  <2>5a. AskedOK'
    <3>1. overwritten' \in BOOLEAN /\ mode' # "typed"
      BY <1>1, <2>1, Zenon
    <3> QED BY <2>3, <3>1 DEF AskedOK
  <2>6. WDir' = Text(tgt)
    BY <1>1, <2>0, <2>1 DEF WDir, Text
  <2>7. DirectoryIsAsked'
    BY <2>1, <2>6 DEF DirectoryIsAsked
  <2> QED BY <1>2, <2>5, <2>5a, <2>7 DEF ShellIInv
<1>7. CASE argc = 2 /\ buf[argv[2]] # SLASH /\ Relative(argv[2])
  <2> DEFINE tgt == argv[2]
             new == newwdir(tgt)
  <2>0. tgt \in Cells
    BY <1>5, <1>7
  <2>1. /\ wdir' = [at |-> NULL, text |-> new]
        /\ asked' = asked \o Names(Text(tgt)) /\ overwritten' = overwritten
    BY <1>7 DEF Relative, Named
  <2>2. /\ new \in Seq(Nat)
        /\ ~overwritten => Names(new) = Names(WDir) \o Names(Text(tgt))
    BY <1>0, <2>0, RelativeNames DEF BufferOK
  <2>3. Text(tgt) \in Seq(Nat)
    BY <1>0, <2>0, StringNat DEF Text, BufferOK
  <2>4. Names(Text(tgt)) \in Seq(Seq(Nat))
    BY <2>3, NamesFacts
  <2> HIDE DEF tgt, new
  <2>5. WdirOK'
    BY <2>1, <2>2 DEF WdirOK
  <2>5a. AskedOK'
    <3>1. overwritten' \in BOOLEAN /\ mode' # "typed" /\ asked \in Seq(Seq(Nat))
      BY <1>0, <1>1, <2>1, Zenon DEF AskedOK
    <3>2. asked' \in Seq(Seq(Nat))
      <4> DEFINE T == Seq(Nat)
                 u == Names(Text(tgt))
      <4>1. asked \in Seq(T) /\ u \in Seq(T) /\ asked' = asked \o u
        BY <2>1, <2>4, <3>1
      <4> HIDE DEF T, u
      <4>2. asked' \in Seq(T)
        BY <4>1
      <4> QED BY <4>2 DEF T
    <3> QED BY <3>1, <3>2 DEF AskedOK
  <2>6. WDir' = new
    BY <2>1 DEF WDir
  <2>7. DirectoryIsAsked'
    BY <1>0, <2>1, <2>2, <2>6 DEF DirectoryIsAsked
  <2> QED BY <1>2, <2>5, <2>5a, <2>7 DEF ShellIInv
<1> QED BY <1>3, <1>4, <1>6, <1>7 DEF shell_cmd_cd

(* What is not the shell's leaves it as it is.                               *)
LEMMA ShellStutterInv == ShellIInv /\ UNCHANGED shellVars => ShellIInv'
<1> SUFFICES ASSUME ShellIInv, UNCHANGED shellVars PROVE ShellIInv'
  OBVIOUS
<1>1. UNCHANGED <<buf, rest, argv, wdir, mode, typed, asked, overwritten>>
  BY DEF shellVars
<1>2. BufferOK' /\ WdirOK' /\ AskedOK'
  BY <1>1 DEF ShellIInv, BufferOK, WdirOK, AskedOK
<1>3. LineOK'
  BY <1>1 DEF ShellIInv, LineOK, Line, Fits
<1>4. WordsAreLine'
  BY <1>1 DEF ShellIInv, WordsAreLine, Text, Fits
<1>5. DirectoryIsAsked'
  BY <1>1 DEF ShellIInv, DirectoryIsAsked, WDir, Text
<1> QED BY <1>2, <1>3, <1>4, <1>5 DEF ShellIInv
-----------------------------------------------------------------------------
(* The pieces of a text put together again are the text.                     *)

(* A part from the start and the next one are a longer part.                 *)
LEMMA SubSeqJoin ==
    ASSUME NEW text \in Seq(Nat), NEW a \in Nat, NEW b \in Nat, a <= b, b <= Len(text)
    PROVE  SubSeq(text, 1, a) \o SubSeq(text, a + 1, b) = SubSeq(text, 1, b)
<1> DEFINE s == SubSeq(text, 1, a)
           t == SubSeq(text, a + 1, b)
           u == SubSeq(text, 1, b)
<1>0. Len(text) \in Nat /\ b \in 0..Len(text) /\ a \in 0..Len(text) /\ b - a \in Nat
  OBVIOUS
<1>1. s \in Seq(Nat) /\ t \in Seq(Nat) /\ u \in Seq(Nat)
  BY <1>0
<1>2. Len(s) = a /\ Len(t) = b - a /\ Len(u) = b
  BY <1>0
<1>3. \A n \in 1..a : s[n] = text[n] /\ u[n] = text[n]
  BY <1>0
<1>4. \A n \in 1..(b - a) : t[n] = text[(a + 1) + n - 1]
  BY <1>0
<1>5. \A n \in 1..(b - a) : u[a + n] = text[a + n] /\ (a + 1) + n - 1 = a + n
  BY <1>0
<1> HIDE DEF s, t, u
<1>6. Follows(Nat, s, t, u)
  <2>1. \A n \in 1..(b - a) : u[a + n] = t[n]
    BY <1>4, <1>5
  <2>2. b = a + (b - a)
    BY <1>0
  <2> QED BY <1>1, <1>2, <1>3, <2>1, <2>2 DEF Follows
<1>7. u = s \o t
  BY <1>6, Glue
<1> QED BY <1>7 DEF s, t, u

Slices(text, seqs, c) ==
    /\ text \in Seq(Nat) /\ seqs \in Seq(Seq(Nat)) /\ Len(seqs) \in Nat \ {0}
    /\ c \in [0..Len(seqs) -> 0..Len(text)] /\ c[0] = 0 /\ c[Len(seqs)] = Len(text)
    /\ \A h \in 1..Len(seqs) : c[h - 1] <= c[h] /\ seqs[h] = SubSeq(text, c[h - 1] + 1, c[h])

(* Slices that follow each other from end to end are the text.               *)
LEMMA FlattenSlices ==
    ASSUME NEW text, NEW seqs, NEW c, Slices(text, seqs, c)
    PROVE  FlattenSeq(seqs) = text
<1> DEFINE m == Len(seqs)
           Next1(f, h) == IF h = 1 THEN seqs[h] ELSE f[h - 1] \o seqs[h]
           F == CHOOSE f : f = [h \in 1..m |-> Next1(f, h)]
           Upto(h) == SubSeq(text, 1, c[h])
           g == [h \in 1..m |-> Upto(h)]
<1>0. /\ text \in Seq(Nat) /\ m \in Nat \ {0} /\ Len(text) \in Nat
      /\ c \in [0..m -> 0..Len(text)] /\ c[0] = 0 /\ c[m] = Len(text)
      /\ \A h \in 1..m : c[h - 1] <= c[h] /\ seqs[h] = SubSeq(text, c[h - 1] + 1, c[h])
  BY DEF Slices
<1>1. FlattenSeq(seqs) = F[m]
  BY <1>0 DEF FlattenSeq
<1> HIDE DEF m
<1>2. ASSUME NEW h \in 1..m, h # 1 PROVE Upto(h - 1) \o seqs[h] = Upto(h)
  <2>1. h - 1 \in 0..m /\ h \in 0..m
    BY <1>0
  <2>2. c[h - 1] \in Nat /\ c[h] \in Nat /\ c[h - 1] <= c[h] /\ c[h] <= Len(text)
    BY <1>0, <2>1
  <2>3. seqs[h] = SubSeq(text, c[h - 1] + 1, c[h])
    BY <1>0
  <2> QED BY <1>0, <2>2, <2>3, SubSeqJoin
<1>3. 1 \in 1..m /\ seqs[1] = Upto(1)
  <2>1. 1 \in 1..m /\ 1 - 1 = 0 /\ 0 + 1 = 1
    BY <1>0
  <2>2. seqs[1] = SubSeq(text, c[1 - 1] + 1, c[1])
    BY <1>0, <2>1
  <2> QED BY <1>0, <2>1, <2>2
<1>4. g = [h \in 1..m |-> Next1(g, h)]
  <2>1. ASSUME NEW h \in 1..m PROVE Upto(h) = Next1(g, h)
    <3>1. CASE h = 1
      BY <1>3, <3>1
    <3>2. CASE h # 1
      <4>1. h - 1 \in 1..m
        BY <1>0, <3>2
      <4>2. g[h - 1] = Upto(h - 1)
        BY <4>1
      <4> HIDE DEF g, Upto
      <4>3. g[h - 1] \o seqs[h] = Upto(h)
        BY <1>2, <3>2, <4>2
      <4> QED BY <3>2, <4>3
    <3> QED BY <3>1, <3>2
  <2> HIDE DEF Upto, Next1
  <2> QED BY <2>1
<1> HIDE DEF Upto, g
<1>5. F = [h \in 1..m |-> Next1(F, h)]
  BY <1>4
<1> HIDE DEF F
<1>6. \A h \in 1..m : F[h] = Next1(F, h)
  <2> HIDE DEF Next1
  <2> QED BY <1>5
<1> DEFINE S == {n \in Nat : F[n + 1] = Upto(n + 1)}
<1>7. 0 \in S
  <2>1. F[1] = seqs[1]
    BY <1>3, <1>6
  <2>2. 0 + 1 = 1
    OBVIOUS
  <2> QED BY <1>3, <2>1, <2>2
<1>8. ASSUME NEW n \in 0..(m - 1), n \in S, n # m - 1 PROVE n + 1 \in S
  <2> DEFINE j == n + 1
  <2>1. n \in Nat /\ j \in Nat /\ j + 1 \in 1..m /\ j + 1 # 1 /\ (j + 1) - 1 = j
    BY <1>0, <1>8
  <2>2. F[j] = Upto(j)
    BY <1>8
  <2> HIDE DEF j
  <2>3. F[j + 1] = F[j] \o seqs[j + 1]
    BY <1>6, <2>1
  <2>4. Upto(j) \o seqs[j + 1] = Upto(j + 1)
    BY <1>2, <2>1
  <2>5. F[j + 1] = Upto(j + 1)
    BY <2>2, <2>3, <2>4
  <2>6. j \in S
    BY <2>1, <2>5
  <2> QED BY <2>6 DEF j
<1> HIDE DEF S
<1>9. m - 1 \in S
  <2>1. m - 1 \in Nat
    BY <1>0
  <2>2. \A n \in 0..(m - 1) : n \in S
    BY <1>7, <1>8, <2>1, UpTo
  <2> QED BY <2>1, <2>2
<1>10. F[m] = Upto(m)
  <2>1. (m - 1) + 1 = m
    BY <1>0
  <2> QED BY <1>9, <2>1 DEF S
<1>11. Upto(m) = text
  <2>1. Upto(m) = SubSeq(text, 1, Len(text))
    BY <1>0 DEF Upto
  <2> QED BY <1>0, <2>1
<1> QED BY <1>1, <1>10, <1>11
-----------------------------------------------------------------------------
(* The words of a line that fits and does not end in a space.                *)

PlainLine ==
    /\ BufferOK /\ Line(typed) /\ Fits(typed) /\ typed # <<>> /\ Last(typed) # SPACE

(* Until it is split the buffer holds the line and a NUL.                    *)
LEMMA PlainIs ==
    ASSUME PlainLine
    PROVE  /\ buf \in Mem /\ typed \in Seq(Nat \ {0})
           /\ Len(typed) \in Nat \ {0} /\ Len(typed) < Cap /\ Cap \in Nat
           /\ \A k \in 0..(Len(typed) - 1) :
                  /\ k \in Cells /\ k + 1 \in 1..Len(typed)
                  /\ buf[k] = typed[k + 1] /\ buf[k] # 0 /\ buf[k] \in Nat
           /\ Len(typed) \in Cells /\ buf[Len(typed)] = 0 /\ buf[Len(typed) - 1] # SPACE
<1> DEFINE L == Len(typed)
<1>1. /\ buf \in Mem /\ typed \in Seq(Nat \ {0}) /\ L \in Nat \ {0} /\ L < Cap /\ Cap \in Nat
  BY CapIsNat DEF PlainLine, BufferOK, Fits
<1>2. /\ \A k \in 0..(L - 1) : buf[k] = typed[k + 1]
      /\ buf[L] = 0 /\ typed[L] # SPACE
  BY DEF PlainLine, Line, Last
<1>3. \A h \in 1..L : typed[h] \in Nat \ {0}
  BY <1>1
<1> HIDE DEF L
<1>4. \A k \in 0..(L - 1) : k \in Cells /\ k + 1 \in 1..L
  BY <1>1 DEF Cells
<1>5. \A k \in 0..(L - 1) : buf[k] # 0 /\ buf[k] \in Nat
  BY <1>2, <1>3, <1>4
<1>6. L \in Cells /\ L - 1 \in 0..(L - 1) /\ (L - 1) + 1 = L
  BY <1>1 DEF Cells
<1>7. buf[L - 1] # SPACE
  BY <1>2, <1>6
<1> QED BY <1>1, <1>2, <1>4, <1>5, <1>6, <1>7 DEF L

(* strlen is the distance to the first NUL.                                  *)
EndsAt(mem, a, e) ==
    mem \in Mem /\ a \in Cells /\ e \in Cells /\ a <= e /\ mem[e] = 0 /\ \A k \in a..(e - 1) : mem[k] # 0

LEMMA StrlenOf ==
    ASSUME NEW mem, NEW a, NEW e, EndsAt(mem, a, e)
    PROVE  strlen(mem, a) = e - a
<1> DEFINE z == strlen(mem, a)
<1>1. z \in Nat /\ mem[a + z] = 0 /\ \A k \in a..(a + z - 1) : mem[k] # 0
  BY StrlenIs DEF EndsAt
<1>2. a \in Nat /\ e \in Nat /\ a <= e /\ mem[e] = 0 /\ \A k \in a..(e - 1) : mem[k] # 0
  BY CapIsNat DEF EndsAt, Cells
<1> HIDE DEF z
<1>3. ~(a + z \in a..(e - 1)) /\ ~(e \in a..(a + z - 1))
  BY <1>1, <1>2, Zenon
<1>4. z = e - a
  BY <1>1, <1>2, <1>3
<1> QED BY <1>4 DEF z

(* Where the words start: behind each space, and nowhere else.               *)
WordStarts(ws) ==
    /\ ws \in Seq(Cells) /\ ws # <<>> /\ ws[1] = 0
    /\ \A h \in 1..(Len(ws) - 1) :
          /\ ws[h] < ws[h + 1] /\ buf[ws[h + 1] - 1] = SPACE
          /\ \A k \in ws[h]..(ws[h + 1] - 2) : buf[k] # SPACE

(* The buffer with the spaces before a place cut.                            *)
CutAt(save) == [k \in Cells |-> IF k < save /\ buf[k] = SPACE THEN 0 ELSE buf[k]]

Splitting(so, n) ==
    /\ so \in TokenState
    /\ so.save \in 0..(Len(typed) - 1) /\ so.mem = CutAt(so.save)
    /\ WordStarts(Append(so.words, so.save))
    /\ Len(so.words) <= so.save
    /\ Len(so.words) = n \/ \A k \in so.save..(Len(typed) - 1) : buf[k] # SPACE

(* At first nothing is cut and the first word starts with the buffer.        *)
LEMMA SplittingInit ==
    ASSUME PlainLine
    PROVE  Splitting([words |-> <<>>, mem |-> buf, save |-> 0], 0)
<1> DEFINE so == [words |-> <<>>, mem |-> buf, save |-> 0]
<1>1. buf \in Mem /\ Len(typed) \in Nat \ {0} /\ 0 \in Cells
  BY PlainIs, CapIsNat DEF Cells
<1>2. so \in TokenState
  BY <1>1 DEF TokenState
<1>3. buf = CutAt(0)
  <2>1. \A k \in Cells : ~(k < 0)
    BY DEF Cells
  <2>2. buf = [k \in Cells |-> buf[k]]
    BY <1>1 DEF Mem
  <2>3. CutAt(0) = [k \in Cells |-> buf[k]]
    BY <2>1 DEF CutAt
  <2> QED BY <2>2, <2>3
<1>4. WordStarts(Append(<<>>, 0))
  <2>1. Append(<<>>, 0) \in Seq(Cells) /\ Len(Append(<<>>, 0)) = 1 /\ Append(<<>>, 0)[1] = 0
    BY <1>1
  <2> DEFINE ws == Append(<<>>, 0)
  <2> HIDE DEF ws
  <2>2. ws \in Seq(Cells) /\ Len(ws) = 1 /\ ws[1] = 0
    BY <2>1 DEF ws
  <2>3. WordStarts(ws)
    BY <2>2 DEF WordStarts
  <2> QED BY <2>3 DEF ws
<1>5. 0 \in 0..(Len(typed) - 1)
  BY <1>1
<1> QED BY <1>2, <1>3, <1>4, <1>5 DEF Splitting

(* Delimiters finds every space ahead, whatever lies behind the string.      *)
LEMMA SpacesAhead ==
    ASSUME PlainLine, NEW so, NEW n, Splitting(so, n), NEW over \in BOOLEAN
    PROVE  Delimiters(so.mem, so.save, SPACE, over)
              = {k \in so.save..(Len(typed) - 1) : buf[k] = SPACE}
<1> DEFINE L == Len(typed)
           a == so.save
           mem == so.mem
<1>1. /\ buf \in Mem /\ L \in Nat \ {0} /\ L \in Cells /\ buf[L] = 0 /\ buf[L - 1] # SPACE
      /\ \A k \in 0..(L - 1) : k \in Cells /\ buf[k] # 0
  BY PlainIs
<1>2. mem \in Mem /\ a \in Cells /\ a \in 0..(L - 1) /\ mem = CutAt(a)
  BY DEF Splitting, TokenState
<1> HIDE DEF L, a, mem
<1>3. \A k \in Cells : a <= k => mem[k] = buf[k]
  <2>1. \A k \in Cells : a <= k => ~(k < a)
    BY <1>2 DEF Cells
  <2> QED BY <1>2, <2>1 DEF CutAt
<1>4. \A k \in a..(L - 1) : k \in 0..(L - 1) /\ k \in Cells /\ a <= k
  <2>1. \A k \in a..(L - 1) : k \in 0..(L - 1) /\ a <= k
    BY <1>1, <1>2
  <2> QED BY <1>1, <2>1
<1>5. strlen(mem, a) = L - a
  <2>1. a <= L /\ L \in Cells
    BY <1>1, <1>2
  <2>2. mem[L] = 0
    BY <1>1, <1>3, <2>1
  <2>3. \A k \in a..(L - 1) : mem[k] # 0
    BY <1>1, <1>3, <1>4
  <2>4. EndsAt(mem, a, L)
    BY <1>2, <2>1, <2>2, <2>3 DEF EndsAt
  <2> QED BY <2>4, StrlenOf
<1>6. a + strlen(mem, a) - 1 = L - 1
  BY <1>1, <1>2, <1>5
<1>7. ASSUME NEW k \in a..(L - 1)
      PROVE  mem[k] = SPACE /\ (mem[k + 1] # 0 \/ over) <=> buf[k] = SPACE
  <2>1. mem[k] = buf[k]
    BY <1>3, <1>4
  <2>2. ASSUME buf[k] = SPACE PROVE mem[k + 1] # 0
    <3>1. k # L - 1
      BY <1>1, <2>2
    <3>2. k + 1 \in a..(L - 1)
      BY <1>1, <1>2, <3>1
    <3>3. k + 1 \in 0..(L - 1) /\ k + 1 \in Cells /\ a <= k + 1
      BY <1>4, <3>2
    <3>4. mem[k + 1] = buf[k + 1] /\ buf[k + 1] # 0
      BY <1>1, <1>3, <3>3
    <3> QED BY <3>4
  <2> QED BY <2>1, <2>2
<1>8. Delimiters(mem, a, SPACE, over)
        = {k \in a..(L - 1) : mem[k] = SPACE /\ (mem[k + 1] # 0 \/ over)}
  BY <1>6 DEF Delimiters
<1> QED BY <1>7, <1>8 DEF L, a, mem

(* A step of strtok_r cuts at the next space, or finds no more.              *)
LEMMA SplittingStep ==
    ASSUME PlainLine, NEW so, NEW n \in Nat, Splitting(so, n), NEW over \in BOOLEAN
    PROVE  Splitting(Token(so, over), n + 1)
<1> DEFINE L == Len(typed)
           a == so.save
           D == Delimiters(so.mem, so.save, SPACE, over)
<1>1. D = {k \in a..(L - 1) : buf[k] = SPACE}
  BY SpacesAhead
<1>2. /\ L \in Nat \ {0} /\ L \in Cells /\ Cap \in Nat /\ L < Cap /\ buf[L - 1] # SPACE
      /\ \A k \in 0..(L - 1) : k \in Cells
  BY PlainIs
<1>3. /\ so \in TokenState /\ so.words \in Seq(Cells) /\ a \in Cells /\ so.mem \in Mem
      /\ a \in 0..(L - 1) /\ so.mem = CutAt(a)
      /\ WordStarts(Append(so.words, a)) /\ Len(so.words) <= a
      /\ (Len(so.words) = n \/ \A k \in a..(L - 1) : buf[k] # SPACE)
  BY DEF Splitting, TokenState
<1>4. a # NULL
  BY <1>3 DEF NULL
<1>5. CASE D = {}
  <2>1. strtok_r(so.mem, so.save, SPACE, over) = [tok |-> NULL, mem |-> so.mem, save |-> so.save]
    BY <1>5 DEF strtok_r
  <2>2. Token(so, over) = [words |-> so.words, mem |-> so.mem, save |-> so.save]
    BY <2>1 DEF Token
  <2>3. so = [words |-> so.words, mem |-> so.mem, save |-> so.save]
    BY <1>3 DEF TokenState
  <2>4. \A k \in a..(L - 1) : buf[k] # SPACE
    <3> HIDE DEF D, a, L
    <3> QED BY <1>1, <1>5
  <2>5. Splitting(so, n + 1)
    BY <1>3, <2>4 DEF Splitting
  <2> QED BY <2>2, <2>3, <2>5
<1>6. CASE D # {}
  <2> DEFINE k == FirstOf(D)
             ws == Append(so.words, a)
             r == Token(so, over)
  <2>1. k \in D /\ \A j \in D : k <= j
    <3> HIDE DEF D
    <3>1. D \in SUBSET Nat
      <4> HIDE DEF L, a
      <4>1. \A j \in a..(L - 1) : j \in Nat
        BY <1>2, <1>3
      <4> QED BY <1>1, <4>1
    <3> QED BY <1>6, <3>1, FirstIsLeast
  <2>2. strtok_r(so.mem, so.save, SPACE, over)
          = [tok |-> so.save, mem |-> [so.mem EXCEPT ![k] = 0], save |-> k + 1]
    BY <1>4, <1>6 DEF strtok_r
  <2> HIDE DEF D, k, L
  <2>3. r = [words |-> ws, mem |-> [so.mem EXCEPT ![k] = 0], save |-> k + 1]
    BY <1>4, <2>2 DEF Token
  <2>4. r \in TokenState
    BY <1>3, TokenType
  <2> HIDE DEF r, ws, a
  <2>5. r.words = ws /\ r.mem = [so.mem EXCEPT ![k] = 0] /\ r.save = k + 1
    BY <2>3
  <2>6. /\ k \in a..(L - 1) /\ buf[k] = SPACE
        /\ \A j \in a..(L - 1) : buf[j] = SPACE => k <= j
    BY <1>1, <2>1
  <2>7. k # L - 1
    BY <1>2, <2>6
  <2>8. k \in Nat /\ a <= k /\ k + 1 \in 0..(L - 1) /\ k \in 0..(L - 1) /\ a \in Nat
    BY <1>2, <1>3, <2>6, <2>7
  <2>9. \A j \in a..(k - 1) : buf[j] # SPACE
    <3>1. \A j \in a..(k - 1) : j \in a..(L - 1) /\ ~(k <= j)
      BY <1>2, <2>8
    <3> QED BY <2>6, <3>1
  <2>10. r.mem = CutAt(k + 1)
    <3>1. so.mem = [j \in Cells |-> IF j < a /\ buf[j] = SPACE THEN 0 ELSE buf[j]]
      BY <1>3 DEF CutAt
    <3>2. r.mem = [j \in Cells |-> IF j = k THEN 0 ELSE so.mem[j]]
      BY <2>5, <3>1
    <3>3. ASSUME NEW j \in Cells
          PROVE  (IF j = k THEN 0 ELSE so.mem[j])
                    = (IF j < k + 1 /\ buf[j] = SPACE THEN 0 ELSE buf[j])
      <4>0. j \in Nat /\ so.mem[j] = IF j < a /\ buf[j] = SPACE THEN 0 ELSE buf[j]
        BY <3>1 DEF Cells
      <4>1. CASE j = k
        <5>1. k < k + 1
          BY <2>8
        <5> QED BY <2>6, <4>1, <5>1
      <4>2. CASE j < a
        <5>1. j # k /\ j < k + 1
          BY <2>8, <4>0, <4>2
        <5> QED BY <4>0, <4>2, <5>1
      <4>3. CASE j \in a..(k - 1)
        <5>1. j # k /\ buf[j] # SPACE
          BY <2>8, <2>9, <4>3
        <5> QED BY <4>0, <5>1
      <4>4. CASE ~(j < k + 1)
        <5>1. j # k /\ ~(j < a)
          BY <2>8, <4>0, <4>4
        <5> QED BY <4>0, <4>4, <5>1
      <4>5. j = k \/ j < a \/ j \in a..(k - 1) \/ ~(j < k + 1)
        BY <2>8, <4>0
      <4> QED BY <4>1, <4>2, <4>3, <4>4, <4>5
    <3>4. r.mem = [j \in Cells |-> IF j < k + 1 /\ buf[j] = SPACE THEN 0 ELSE buf[j]]
      BY <3>2, <3>3
    <3> QED BY <3>4 DEF CutAt
  <2>11. WordStarts(Append(ws, k + 1)) /\ Len(ws) = Len(so.words) + 1
    <3> DEFINE m == Len(ws)
               vs == Append(ws, k + 1)
    <3>1. ws \in Seq(Cells) /\ m = Len(so.words) + 1 /\ ws[m] = a /\ m \in Nat \ {0}
      BY <1>3 DEF ws
    <3>2. k + 1 \in Cells
      BY <1>2, <2>8
    <3>3. /\ vs \in Seq(Cells) /\ Len(vs) = m + 1 /\ vs[m + 1] = k + 1
          /\ \A h \in 1..m : vs[h] = ws[h]
      BY <3>1, <3>2
    <3>4. /\ ws # <<>> /\ ws[1] = 0
          /\ \A h \in 1..(m - 1) :
                /\ ws[h] < ws[h + 1] /\ buf[ws[h + 1] - 1] = SPACE
                /\ \A j \in ws[h]..(ws[h + 1] - 2) : buf[j] # SPACE
      BY <1>3 DEF WordStarts, ws
    <3> HIDE DEF m, vs
    <3>5. vs # <<>> /\ vs[1] = 0
      <4>1. 1 \in 1..m
        BY <3>1
      <4> QED BY <3>1, <3>3, <3>4, <4>1
    <3>6. ASSUME NEW h \in 1..m
          PROVE  /\ vs[h] < vs[h + 1] /\ buf[vs[h + 1] - 1] = SPACE
                 /\ \A j \in vs[h]..(vs[h + 1] - 2) : buf[j] # SPACE
      <4>1. CASE h = m
        <5>1. vs[h] = a /\ vs[h + 1] = k + 1
          BY <3>1, <3>3, <4>1
        <5>2. a < k + 1 /\ (k + 1) - 1 = k /\ (k + 1) - 2 = k - 1
          BY <2>8
        <5> QED BY <2>6, <2>9, <5>1, <5>2
      <4>2. CASE h # m
        <5>1. h \in 1..(m - 1) /\ h + 1 \in 1..m
          BY <3>1, <4>2
        <5>2. vs[h] = ws[h] /\ vs[h + 1] = ws[h + 1]
          BY <3>3, <5>1
        <5> QED BY <3>4, <5>1, <5>2
      <4> QED BY <4>1, <4>2
    <3>7. Len(vs) - 1 = m
      BY <3>1, <3>3
    <3>8. WordStarts(vs)
      BY <3>3, <3>5, <3>6, <3>7 DEF WordStarts
    <3> QED BY <3>1, <3>8 DEF m, vs
  <2>12. Len(so.words) = n /\ Len(so.words) \in Nat
    <3>1. ~(\A j \in a..(L - 1) : buf[j] # SPACE)
      BY <2>6
    <3> QED BY <1>3, <3>1
  <2>13. Len(r.words) = n + 1 /\ Len(r.words) <= r.save
    BY <1>3, <2>5, <2>8, <2>11, <2>12
  <2>14. r.save \in 0..(L - 1) /\ r.mem = CutAt(r.save) /\ WordStarts(Append(r.words, r.save))
    BY <2>5, <2>8, <2>10, <2>11
  <2>15. Splitting(r, n + 1)
    BY <2>4, <2>13, <2>14 DEF Splitting, L
  <2> QED BY <2>15 DEF r
<1> QED BY <1>5, <1>6

(* After Cap steps no space is left: each found one took a cell of the line. *)
LEMMA TokensSplit ==
    ASSUME PlainLine, NEW over \in BOOLEAN
    PROVE  /\ Splitting(Tokens(over), Cap)
           /\ \A k \in Tokens(over).save..(Len(typed) - 1) : buf[k] # SPACE
<1>1. PICK f : /\ Tokens(over) = f[Cap]
               /\ f[0] = [words |-> <<>>, mem |-> buf, save |-> 0]
               /\ \A n \in 0..Cap : n # Cap => f[n + 1] = Token(f[n], over)
  BY TokensRun
<1> DEFINE S == {n \in Nat : Splitting(f[n], n)}
<1>2. 0 \in S
  BY <1>1, SplittingInit
<1>3. ASSUME NEW n \in 0..Cap, n \in S, n # Cap PROVE n + 1 \in S
  <2>1. f[n + 1] = Token(f[n], over) /\ Splitting(f[n], n) /\ n \in Nat
    BY <1>1, <1>3
  <2>2. Splitting(f[n + 1], n + 1)
    BY <2>1, SplittingStep
  <2> QED BY <2>1, <2>2
<1> HIDE DEF S
<1>4. \A n \in 0..Cap : n \in S
  BY <1>2, <1>3, CapIsNat, UpTo
<1>5. Splitting(f[Cap], Cap)
  <2>1. Cap \in 0..Cap
    BY CapIsNat
  <2>2. Cap \in S
    BY <1>4, <2>1
  <2> QED BY <2>2 DEF S
<1>6. Splitting(Tokens(over), Cap)
  BY <1>1, <1>5
<1> DEFINE so == Tokens(over)
<1>7. /\ so.save \in 0..(Len(typed) - 1) /\ Len(so.words) <= so.save
      /\ (Len(so.words) = Cap \/ \A k \in so.save..(Len(typed) - 1) : buf[k] # SPACE)
  BY <1>6 DEF Splitting
<1>8. Len(typed) \in Nat /\ Len(typed) < Cap /\ Cap \in Nat
  BY PlainIs
<1>9. ~(Len(so.words) = Cap)
  <2> HIDE DEF so
  <2> QED BY <1>7, <1>8
<1> QED BY <1>6, <1>7, <1>9
-----------------------------------------------------------------------------
(* Where a word ends.                                         *)
WordEnd(ws, h) == IF h = Len(ws) THEN Len(typed) ELSE ws[h + 1] - 1

(* The words of the buffer that is cut at every space, by their starts.      *)
AllCut(mem, ws) ==
    /\ mem \in Mem /\ WordStarts(ws)
    /\ ws[Len(ws)] \in 0..(Len(typed) - 1)
    /\ mem = CutAt(ws[Len(ws)])
    /\ \A k \in ws[Len(ws)]..(Len(typed) - 1) : buf[k] # SPACE

(* A word is the part of the line from its start to the next space.          *)
LEMMA WordIs ==
    ASSUME PlainLine, NEW mem, NEW ws, AllCut(mem, ws), NEW h \in 1..Len(ws)
    PROVE  /\ ws[h] \in Nat /\ WordEnd(ws, h) \in Nat
           /\ ws[h] <= WordEnd(ws, h) /\ WordEnd(ws, h) <= Len(typed)
           /\ \A k \in ws[h]..(WordEnd(ws, h) - 1) : buf[k] # SPACE
           /\ StringAt(mem, ws[h]) = SubSeq(typed, ws[h] + 1, WordEnd(ws, h))
<1> DEFINE L == Len(typed)
           m == Len(ws)
           a == ws[h]
           e == WordEnd(ws, h)
<1>1. /\ buf \in Mem /\ typed \in Seq(Nat \ {0}) /\ L \in Nat \ {0} /\ L \in Cells /\ buf[L] = 0
      /\ \A k \in 0..(L - 1) : k \in Cells /\ k + 1 \in 1..L /\ buf[k] = typed[k + 1] /\ buf[k] # 0
  BY PlainIs
<1>2. /\ mem \in Mem /\ ws \in Seq(Cells) /\ ws[1] = 0 /\ m \in Nat \ {0}
      /\ ws[m] \in 0..(L - 1) /\ mem = CutAt(ws[m])
      /\ \A k \in ws[m]..(L - 1) : buf[k] # SPACE
      /\ \A j \in 1..(m - 1) :
            /\ ws[j] < ws[j + 1] /\ buf[ws[j + 1] - 1] = SPACE
            /\ \A k \in ws[j]..(ws[j + 1] - 2) : buf[k] # SPACE
  BY DEF AllCut, WordStarts
<1>3. \A j \in 1..m : ws[j] \in Cells /\ ws[j] \in Nat
  <2>1. ws \in Seq(Cells)
    BY <1>2
  <2>2. \A j \in 1..m : ws[j] \in Cells
    BY <2>1
  <2>3. \A x \in Cells : x \in Nat
    BY DEF Cells
  <2> QED BY <2>2, <2>3
<1> HIDE DEF L, m
(* The starts are in order, so that none lies behind the last.               *)
<1>4. \A j \in 1..m : ws[j] <= ws[m]
  <2> DEFINE S == {d \in Nat : ws[m - d] <= ws[m]}
  <2>1. 0 \in S
    <3>1. m - 0 = m /\ m \in 1..m
      BY <1>2
    <3>2. ws[m] <= ws[m]
      BY <1>3, <3>1
    <3> QED BY <3>1, <3>2
  <2>2. ASSUME NEW d \in 0..(m - 1), d \in S, d # m - 1 PROVE d + 1 \in S
    <3> DEFINE j == m - (d + 1)
    <3>1. j \in 1..(m - 1) /\ j + 1 = m - d /\ j \in 1..m /\ j + 1 \in 1..m /\ m \in 1..m /\ d \in Nat
      BY <1>2, <2>2
    <3>2. ws[j + 1] <= ws[m]
      BY <2>2, <3>1
    <3> HIDE DEF j
    <3>3. ws[j] < ws[j + 1] /\ ws[j] \in Nat /\ ws[j + 1] \in Nat /\ ws[m] \in Nat
      BY <1>2, <1>3, <3>1
    <3>4. ws[j] <= ws[m]
      BY <3>2, <3>3
    <3> QED BY <3>1, <3>4 DEF j
  <2> HIDE DEF S
  <2>3. \A d \in 0..(m - 1) : d \in S
    <3>1. m - 1 \in Nat
      BY <1>2
    <3> QED BY <2>1, <2>2, <3>1, UpTo
  <2>4. ASSUME NEW j \in 1..m PROVE ws[j] <= ws[m]
    <3>1. m - j \in 0..(m - 1) /\ m - (m - j) = j
      BY <1>2
    <3>2. m - j \in S
      BY <2>3, <3>1
    <3> QED BY <3>1, <3>2 DEF S
  <2> QED BY <2>4
<1>5. h \in 1..m
  BY DEF m
<1>6. /\ e \in Nat /\ a \in Nat /\ a <= e /\ e <= L
      /\ \A k \in a..(e - 1) : buf[k] # SPACE
      /\ e = L \/ (e < ws[m] /\ buf[e] = SPACE)
  <2>1. CASE h = m
    <3>1. e = L
      BY <2>1 DEF WordEnd, m, L
    <3>2. a = ws[m]
      BY <2>1
    <3> HIDE DEF a, e
    <3> QED BY <1>1, <1>2, <3>1, <3>2
  <2>2. CASE h # m
    <3>1. e = ws[h + 1] - 1
      BY <2>2 DEF WordEnd, m
    <3>2. h \in 1..(m - 1) /\ h + 1 \in 1..m
      BY <1>2, <1>5, <2>2
    <3> DEFINE b == ws[h + 1]
    <3>3. a < b /\ buf[b - 1] = SPACE /\ \A k \in a..(b - 2) : buf[k] # SPACE
      BY <1>2, <3>2
    <3>4. a \in Nat /\ b \in Nat /\ b <= ws[m] /\ ws[m] \in 0..(L - 1)
      BY <1>2, <1>3, <1>4, <1>5, <3>2
    <3>5. e = b - 1
      BY <3>1
    <3> HIDE DEF a, b, e
    <3>6. e \in Nat /\ a <= e /\ e <= L /\ e < ws[m] /\ e - 1 = b - 2
      BY <1>1, <3>3, <3>4, <3>5
    <3> QED BY <3>3, <3>4, <3>5, <3>6
  <2> QED BY <2>1, <2>2
<1> HIDE DEF a, e
<1>7. \A k \in a..(e - 1) : k \in 0..(L - 1)
  BY <1>1, <1>6
<1>8. \A k \in a..(e - 1) : mem[k] = typed[k + 1] /\ mem[k] # 0
  <2> SUFFICES ASSUME NEW k \in a..(e - 1) PROVE mem[k] = typed[k + 1] /\ mem[k] # 0
    OBVIOUS
  <2>1. k \in Cells /\ buf[k] = typed[k + 1] /\ buf[k] # 0 /\ buf[k] # SPACE
    BY <1>1, <1>6, <1>7
  <2>2. mem[k] = buf[k]
    BY <1>2, <2>1 DEF CutAt
  <2> QED BY <2>1, <2>2
<1>9. e \in Cells /\ mem[e] = 0
  <2>1. CASE e = L
    <3>1. mem[L] = buf[L] \/ mem[L] = 0
      BY <1>1, <1>2 DEF CutAt
    <3> QED BY <1>1, <2>1, <3>1
  <2>2. CASE e < ws[m] /\ buf[e] = SPACE
    <3>1. e \in 0..(L - 1)
      BY <1>1, <1>2, <1>6, <2>2
    <3>2. e \in Cells
      BY <1>1, <3>1
    <3> QED BY <1>2, <2>2, <3>2 DEF CutAt
  <2> QED BY <1>6, <2>1, <2>2
<1>10. strlen(mem, a) = e - a
  <2>1. a \in Cells
    BY <1>3, <1>5 DEF a
  <2>2. EndsAt(mem, a, e)
    BY <1>2, <1>6, <1>8, <1>9, <2>1 DEF EndsAt
  <2> QED BY <2>2, StrlenOf
<1>11. StringAt(mem, a) = SubSeq(typed, a + 1, e)
  <2> DEFINE n == e - a
  <2>1. n \in Nat /\ n = (IF a + 1 <= e THEN e - (a + 1) + 1 ELSE 0)
    BY <1>6
  <2>2. StringAt(mem, a) = [j \in 1..n |-> mem[a + j - 1]]
    BY <1>10 DEF StringAt
  <2>3. SubSeq(typed, a + 1, e)
           = [j \in 1..(IF a + 1 <= e THEN e - (a + 1) + 1 ELSE 0) |-> typed[(a + 1) + j - 1]]
    BY <1>1, <1>6 DEF L
  <2> HIDE DEF n
  <2>4. ASSUME NEW j \in 1..n PROVE mem[a + j - 1] = typed[(a + 1) + j - 1]
    <3>1. a + j - 1 \in a..(e - 1) /\ (a + j - 1) + 1 = (a + 1) + j - 1
      BY <1>6 DEF n
    <3> QED BY <1>8, <3>1
  <2> QED BY <2>1, <2>2, <2>3, <2>4
<1> QED BY <1>6, <1>11 DEF a, e, L

(* A part of a text and the character before it.                             *)
LEMMA SubSeqHead ==
    ASSUME NEW text \in Seq(Nat), NEW p \in Nat, NEW q \in Nat, p + 1 <= q, q <= Len(text),
           NEW x, text[p + 1] = x
    PROVE  <<x>> \o SubSeq(text, (p + 1) + 1, q) = SubSeq(text, p + 1, q)
<1> DEFINE s == <<x>>
           t == SubSeq(text, (p + 1) + 1, q)
           u == SubSeq(text, p + 1, q)
<1>0. /\ Len(text) \in Nat /\ p + 1 \in 1..Len(text) /\ q \in 1..Len(text)
      /\ (p + 1) + 1 \in Nat \ {0} /\ q - p \in Nat /\ (q - p) - 1 \in Nat
  OBVIOUS
<1>1. s \in Seq(Nat) /\ Len(s) = 1 /\ s[1] = x
  BY <1>0
<1>2. t \in Seq(Nat) /\ Len(t) = (q - p) - 1 /\ \A n \in 1..((q - p) - 1) : t[n] = text[((p + 1) + 1) + n - 1]
  BY <1>0
<1>3. u \in Seq(Nat) /\ Len(u) = q - p /\ \A n \in 1..(q - p) : u[n] = text[(p + 1) + n - 1]
  BY <1>0
<1> HIDE DEF s, t, u
<1>4. u[1] = x
  <2>1. 1 \in 1..(q - p) /\ (p + 1) + 1 - 1 = p + 1
    BY <1>0
  <2> QED BY <1>3, <2>1
<1>5. ASSUME NEW n \in 1..((q - p) - 1) PROVE u[1 + n] = t[n]
  <2>1. 1 + n \in 1..(q - p) /\ (p + 1) + (1 + n) - 1 = ((p + 1) + 1) + n - 1
    BY <1>0
  <2>2. u[1 + n] = text[(p + 1) + (1 + n) - 1]
    BY <1>3, <2>1
  <2> QED BY <1>2, <2>1, <2>2
<1>6. Follows(Nat, s, t, u)
  <2>1. Len(u) = Len(s) + Len(t)
    BY <1>0, <1>1, <1>2, <1>3
  <2>2. \A n \in 1..Len(s) : u[n] = s[n]
    BY <1>1, <1>4
  <2>3. \A n \in 1..Len(t) : u[Len(s) + n] = t[n]
    BY <1>1, <1>2, <1>5
  <2> QED BY <1>1, <1>2, <1>3, <2>1, <2>2, <2>3 DEF Follows
<1>7. u = s \o t
  BY <1>6, Glue
<1> QED BY <1>7 DEF s, t, u

(* The words with single spaces between them.                                *)
Spaced(mem, ws) ==
    [n \in 1..Len(ws) |-> IF n = 1 THEN StringAt(mem, ws[n]) ELSE <<SPACE>> \o StringAt(mem, ws[n])]

(* No word has a space, and with one between each two they are the line.     *)
LEMMA WordsMakeLine ==
    ASSUME PlainLine, NEW mem, NEW ws, AllCut(mem, ws)
    PROVE  /\ \A n \in 1..Len(ws) : SPACE \notin Range(StringAt(mem, ws[n]))
           /\ FlattenSeq(Spaced(mem, ws)) = typed
<1> DEFINE L == Len(typed)
           m == Len(ws)
           e(h) == WordEnd(ws, h)
<1>1. /\ typed \in Seq(Nat) /\ L \in Nat \ {0}
      /\ \A k \in 0..(L - 1) : k + 1 \in 1..L /\ buf[k] = typed[k + 1]
  <2>1. typed \in Seq(Nat \ {0}) /\ L \in Nat \ {0}
    BY PlainIs
  <2>2. typed \in Seq(Nat)
    BY <2>1
  <2>3. \A k \in 0..(L - 1) : k + 1 \in 1..L /\ buf[k] = typed[k + 1]
    BY PlainIs
  <2> QED BY <2>1, <2>2, <2>3
<1>2. /\ ws \in Seq(Cells) /\ m \in Nat \ {0} /\ ws[1] = 0
      /\ \A j \in 1..(m - 1) : buf[ws[j + 1] - 1] = SPACE
  <2>1. ws \in Seq(Cells) /\ ws # <<>> /\ ws[1] = 0
    BY DEF AllCut, WordStarts
  <2>2. m \in Nat \ {0}
    BY <2>1
  <2>3. \A j \in 1..(m - 1) : buf[ws[j + 1] - 1] = SPACE
    BY DEF AllCut, WordStarts
  <2> QED BY <2>1, <2>2, <2>3
<1>3. \A h \in 1..m :
        /\ ws[h] \in Nat /\ e(h) \in Nat /\ ws[h] <= e(h) /\ e(h) <= L
        /\ \A k \in ws[h]..(e(h) - 1) : buf[k] # SPACE
        /\ StringAt(mem, ws[h]) = SubSeq(typed, ws[h] + 1, e(h))
  BY WordIs
<1>4. e(m) = L /\ \A h \in 1..m : h # 1 => ws[h] = e(h - 1) + 1 /\ buf[e(h - 1)] = SPACE
  <2>1. e(m) = L
    BY DEF WordEnd
  <2>2. ASSUME NEW h \in 1..m, h # 1 PROVE ws[h] = e(h - 1) + 1 /\ buf[e(h - 1)] = SPACE
    <3>1. h - 1 \in 1..(m - 1) /\ h - 1 # m /\ (h - 1) + 1 = h
      BY <1>2, <2>2
    <3>2. e(h - 1) = ws[h] - 1
      BY <3>1 DEF WordEnd
    <3>3. ws[h] \in Nat
      BY <1>3
    <3>4. buf[ws[h] - 1] = SPACE
      BY <1>2, <3>1
    <3> QED BY <3>2, <3>3, <3>4
  <2> QED BY <2>1, <2>2
<1> HIDE DEF L, m, e
<1>5. ASSUME NEW n \in 1..m PROVE SPACE \notin Range(StringAt(mem, ws[n]))
  <2> DEFINE a == ws[n]
             b == e(n)
             w == SubSeq(typed, a + 1, b)
  <2>1. /\ a \in Nat /\ b \in Nat /\ a <= b /\ b <= L
        /\ (\A k \in a..(b - 1) : buf[k] # SPACE) /\ StringAt(mem, ws[n]) = w
    BY <1>3
  <2>2. DOMAIN w = 1..(b - a) /\ \A j \in 1..(b - a) : w[j] = typed[a + j]
    <3> HIDE DEF a, b
    <3>1. a + 1 \in Nat /\ Len(typed) = L
      BY <2>1 DEF L
    <3>2. Len(w) = b - a /\ w \in Seq(Nat)
      BY <1>1, <2>1, <3>1
    <3>3. \A j \in 1..(b - a) : w[j] = typed[(a + 1) + j - 1]
      <4>1. typed \in Seq(Nat) /\ a + 1 \in Nat \ {0} /\ b \in Nat /\ b <= Len(typed)
        BY <1>1, <2>1, <3>1
      <4>2. Len(w) = b - a
        BY <3>2
      <4>3. \A j \in 1..Len(w) : w[j] = typed[(a + 1) + j - 1]
        BY <4>1
      <4> HIDE DEF w
      <4> QED BY <4>2, <4>3
    <3>4. \A j \in 1..(b - a) : (a + 1) + j - 1 = a + j
      BY <2>1
    <3> HIDE DEF w
    <3>5. DOMAIN w = 1..(b - a)
      BY <3>2
    <3> QED BY <3>3, <3>4, <3>5
  <2> HIDE DEF a, b, w
  <2>3. ASSUME NEW j \in 1..(b - a) PROVE w[j] # SPACE
    <3>1. (a + j) - 1 \in a..(b - 1) /\ (a + j) - 1 \in 0..(L - 1) /\ ((a + j) - 1) + 1 = a + j
      BY <1>1, <2>1
    <3>2. buf[(a + j) - 1] = typed[a + j]
      BY <1>1, <3>1
    <3> QED BY <2>1, <2>2, <3>1, <3>2
  <2> QED BY <2>1, <2>2, <2>3 DEF Range
<1> DEFINE seqs == Spaced(mem, ws)
           c == [h \in 0..m |-> IF h = 0 THEN 0 ELSE e(h)]
<1>6. ASSUME NEW h \in 1..m
      PROVE  c[h - 1] <= c[h] /\ seqs[h] = SubSeq(typed, c[h - 1] + 1, c[h])
  <2>1. c[h] = e(h) /\ c[h - 1] = (IF h = 1 THEN 0 ELSE e(h - 1)) /\ h - 1 \in 0..m
    BY <1>2
  <2>2. seqs[h] = IF h = 1 THEN StringAt(mem, ws[h]) ELSE <<SPACE>> \o StringAt(mem, ws[h])
    BY DEF Spaced, m
  <2>3. /\ ws[h] \in Nat /\ e(h) \in Nat /\ ws[h] <= e(h) /\ e(h) <= L
        /\ StringAt(mem, ws[h]) = SubSeq(typed, ws[h] + 1, e(h))
    BY <1>3
  <2> HIDE DEF seqs, c
  <2>4. CASE h = 1
    BY <1>2, <2>1, <2>2, <2>3, <2>4
  <2>5. CASE h # 1
    <3>0. h - 1 \in 1..m
      BY <1>2, <2>5
    <3> DEFINE p == e(h - 1)
               q == e(h)
    <3>1. /\ ws[h] = p + 1 /\ buf[p] = SPACE
          /\ c[h - 1] = p /\ c[h] = q /\ p \in Nat /\ q \in Nat
      BY <1>3, <1>4, <2>1, <2>5, <3>0
    <3>2. p + 1 <= q /\ q <= L
      BY <2>3, <3>1
    <3>3. seqs[h] = <<SPACE>> \o SubSeq(typed, (p + 1) + 1, q)
      BY <2>2, <2>3, <2>5, <3>1
    <3> HIDE DEF p, q
    <3>4. typed[p + 1] = SPACE
      <4>1. p \in 0..(L - 1)
        BY <1>1, <3>1, <3>2
      <4> QED BY <1>1, <3>1, <4>1
    <3>5. <<SPACE>> \o SubSeq(typed, (p + 1) + 1, q) = SubSeq(typed, p + 1, q)
      BY <1>1, <3>1, <3>2, <3>4, SubSeqHead DEF L
    <3> QED BY <3>1, <3>2, <3>3, <3>5
  <2> QED BY <2>4, <2>5
<1>7. c \in [0..m -> 0..L] /\ c[0] = 0 /\ c[m] = L
  <2>1. \A h \in 0..m : h # 0 => e(h) \in 0..L
    <3>1. \A h \in 0..m : h # 0 => h \in 1..m
      OBVIOUS
    <3>2. \A h \in 1..m : e(h) \in 0..L
      BY <1>1, <1>3
    <3> QED BY <3>1, <3>2
  <2>2. 0 \in 0..L /\ 0 \in 0..m /\ m \in 0..m /\ m # 0
    BY <1>1, <1>2
  <2> QED BY <1>4, <2>1, <2>2
<1>8. seqs \in Seq(Seq(Nat)) /\ Len(seqs) = m
  <2>1. seqs = [h \in 1..m |-> SubSeq(typed, c[h - 1] + 1, c[h])]
    <3>1. seqs = [h \in 1..m |-> seqs[h]]
      BY DEF Spaced, m
    <3> HIDE DEF seqs, c
    <3> QED BY <1>6, <3>1
  <2> DEFINE T == Seq(Nat)
  <2>2. \A h \in 1..m : SubSeq(typed, c[h - 1] + 1, c[h]) \in T
    <3> SUFFICES ASSUME NEW h \in 1..m PROVE SubSeq(typed, c[h - 1] + 1, c[h]) \in T
      OBVIOUS
    <3>1. h - 1 \in 0..m /\ h \in 0..m
      BY <1>2
    <3> HIDE DEF c
    <3>2. c[h - 1] \in 0..L /\ c[h] \in 0..L
      BY <1>7, <3>1
    <3>3. c[h - 1] + 1 \in Nat \ {0} /\ c[h] \in Nat /\ c[h] <= Len(typed)
      BY <1>1, <3>2 DEF L
    <3> QED BY <1>1, <3>3
  <2> HIDE DEF T, c, seqs
  <2>3. seqs \in [1..m -> T]
    BY <2>1, <2>2
  <2>4. seqs \in Seq(T) /\ Len(seqs) = m
    BY <1>2, <2>3
  <2> QED BY <2>4 DEF T
<1> HIDE DEF seqs, c
<1>9. Slices(typed, seqs, c)
  BY <1>1, <1>2, <1>6, <1>7, <1>8 DEF Slices, L
<1>10. FlattenSeq(seqs) = typed
  BY <1>9, FlattenSlices
<1> QED BY <1>5, <1>10 DEF m, seqs

(* So the words that Split leaves in the buffer are the line typed.          *)
LEMMA SplitWords ==
    ASSUME PlainLine, NEW over \in BOOLEAN,
           buf' = Tokens(over).mem, argv' = Append(Tokens(over).words, Tokens(over).save),
           typed' = typed
    PROVE  WordsAreLine'
<1> DEFINE so == Tokens(over)
           ws == Append(so.words, so.save)
<1>1. /\ so \in TokenState /\ so.words \in Seq(Cells) /\ so.save \in Cells /\ so.mem \in Mem
      /\ so.save \in 0..(Len(typed) - 1) /\ so.mem = CutAt(so.save) /\ WordStarts(ws)
      /\ \A k \in so.save..(Len(typed) - 1) : buf[k] # SPACE
  BY TokensSplit DEF Splitting, TokenState
<1> HIDE DEF so
<1>2. Len(ws) \in Nat /\ DOMAIN ws = 1..Len(ws) /\ ws[Len(ws)] = so.save
  BY <1>1
<1> HIDE DEF ws
<1>3. AllCut(so.mem, ws)
  BY <1>1, <1>2 DEF AllCut
<1>4. /\ \A n \in 1..Len(ws) : SPACE \notin Range(StringAt(so.mem, ws[n]))
      /\ FlattenSeq(Spaced(so.mem, ws)) = typed
  BY <1>3, WordsMakeLine
<1>5. buf' = so.mem /\ argv' = ws
  BY DEF so, ws
<1> DEFINE word == [n \in 1..Len(ws) |-> StringAt(so.mem, ws[n])]
           spaced == [n \in 1..Len(ws) |-> IF n = 1 THEN word[n] ELSE <<SPACE>> \o word[n]]
<1>6. \A n \in DOMAIN word : SPACE \notin Range(word[n])
  BY <1>4
<1>7. spaced = Spaced(so.mem, ws)
  BY DEF Spaced
<1>8. FlattenSeq(spaced) = typed
  BY <1>4, <1>7
<1>9. word = [n \in DOMAIN argv' |-> StringAt(buf', argv'[n])]
  BY <1>2, <1>5
<1>10. spaced = [n \in DOMAIN argv' |-> IF n = 1 THEN word[n] ELSE <<SPACE>> \o word[n]]
  BY <1>2, <1>5
<1> HIDE DEF word, spaced
<1> QED BY <1>6, <1>8, <1>9, <1>10 DEF WordsAreLine, Text

(* Splitting: the line is not empty, or nothing is done.                     *)
LEMMA SplitInv == ShellIInv /\ Split => ShellIInv'
<1> SUFFICES ASSUME ShellIInv, Split PROVE ShellIInv'
  OBVIOUS
<1>0. BufferOK /\ LineOK /\ WdirOK /\ AskedOK /\ DirectoryIsAsked /\ mode = "typed"
  BY DEF ShellIInv, Split
<1>1. UNCHANGED <<rest, wdir, typed, asked, overwritten>>
  BY DEF Split
<1>2. CASE strlen(buf, 0) = 0
  <2>1. mode' = "prompt" /\ buf' = buf /\ argv' = argv
    BY <1>2 DEF Split
  <2>2. argv' \in Seq(Cells)
    BY <1>0, <2>1 DEF BufferOK
  <2> QED BY <1>1, <2>1, <2>2, StaysInv
<1>3. CASE strlen(buf, 0) # 0
  <2>1. PICK over \in BOOLEAN :
            buf' = Tokens(over).mem /\ argv' = Append(Tokens(over).words, Tokens(over).save)
    BY <1>3 DEF Split
  <2>2. mode' = "split"
    BY <1>3 DEF Split
  <2>3. Tokens(over) \in TokenState
    BY <1>0, TokensType DEF BufferOK
  <2>4. buf' \in Mem /\ argv' \in Seq(Cells)
    <3> DEFINE so == Tokens(over)
    <3>1. so.mem \in Mem /\ so.words \in Seq(Cells) /\ so.save \in Cells
      BY <2>3 DEF TokenState
    <3> HIDE DEF so
    <3>2. Append(so.words, so.save) \in Seq(Cells)
      BY <3>1
    <3> QED BY <2>1, <3>1, <3>2 DEF so
  <2>5. BufferOK'
    BY <1>0, <1>1, <2>4 DEF BufferOK
  <2>6. LineOK'
    BY <2>2 DEF LineOK
  <2>7. WdirOK' /\ AskedOK'
    BY <1>0, <1>1, <2>2 DEF WdirOK, AskedOK
  <2>8. DirectoryIsAsked'
    <3>1. CASE overwritten
      BY <1>1, <3>1 DEF DirectoryIsAsked
    <3>2. CASE ~overwritten
      <4>1. wdir.at = NULL
        BY <1>0, <3>2 DEF AskedOK
      <4>2. WDir' = WDir
        BY <1>1, <4>1 DEF WDir
      <4> QED BY <1>0, <1>1, <3>2, <4>2 DEF DirectoryIsAsked
    <3> QED BY <3>1, <3>2
  <2>9. WordsAreLine'
    <3>1. CASE Fits(typed) /\ (typed = <<>> \/ Last(typed) # SPACE)
      <4>1. typed # <<>>
        <5> SUFFICES ASSUME typed = <<>> PROVE FALSE
          OBVIOUS
        <5>1. buf[0] = 0 /\ 0 \in Cells /\ buf \in Mem
          BY <1>0, <3>1, CapIsNat DEF LineOK, Line, BufferOK, Cells
        <5>2. EndsAt(buf, 0, 0)
          BY <5>1 DEF EndsAt
        <5>3. strlen(buf, 0) = 0 - 0
          BY <5>2, StrlenOf
        <5> QED BY <1>3, <5>3
      <4>2. PlainLine
        BY <1>0, <3>1, <4>1 DEF PlainLine, LineOK
      <4> QED BY <1>1, <2>1, <4>2, SplitWords
    <3>2. CASE ~(Fits(typed) /\ (typed = <<>> \/ Last(typed) # SPACE))
      BY <1>1, <3>2 DEF WordsAreLine, Fits
    <3> QED BY <3>1, <3>2
  <2> QED BY <2>5, <2>6, <2>7, <2>8, <2>9 DEF ShellIInv
<1> QED BY <1>2, <1>3

(* Whatever is typed, in however long a sequence of lines.                   *)
LEMMA ShellStep == ShellIInv /\ (ShellNext \/ shell_cmd_graphics \/ Return) => ShellIInv'
  BY GetlineInv, SplitInv, CommandsInv, CdInv DEF ShellNext
-----------------------------------------------------------------------------
(* Only test_all changes the counters.                                       *)
LEMMA StepsOfTests == [Next]_vars => [TestsNext]_testVars
  <1> SUFFICES ASSUME [Next]_vars PROVE [TestsNext]_testVars
    OBVIOUS
  <1>1. CASE Consoles \/ SetDisplay \/ AllocFrameBuffer \/ TestsEnd \/ syscall
             \/ sd_card_init \/ exfat_read_boot_block
    BY <1>1 DEF Consoles, SetDisplay, AllocFrameBuffer, TestsEnd, syscall,
                sd_card_init, exfat_read_boot_block, Booting
  <1>2. CASE test_all
    BY <1>2 DEF test_all
  <1>3. CASE Command \/ OpenGraphics \/ Frame \/ QuitGraphics
    BY <1>3 DEF Command, OpenGraphics, Frame, QuitGraphics, InShell
  <1>4. CASE UNCHANGED vars
    BY <1>4 DEF vars
  <1> QED
    BY <1>1, <1>2, <1>3, <1>4 DEF Next

(* Only the graphics command touches the box and the display.                *)
LEMMA StepsOfBox == [Next]_vars => [GraphicsNext]_graphicsVars
  <1> SUFFICES ASSUME [Next]_vars PROVE [GraphicsNext]_graphicsVars
    OBVIOUS
  <1>1. CASE Consoles \/ SetDisplay \/ AllocFrameBuffer \/ TestsEnd \/ syscall
             \/ sd_card_init \/ exfat_read_boot_block
    BY <1>1 DEF Consoles, SetDisplay, AllocFrameBuffer, TestsEnd, syscall,
                sd_card_init, exfat_read_boot_block, Booting
  <1>2. CASE test_all \/ Command
    BY <1>2 DEF test_all, Command
  <1>3. CASE OpenGraphics \/ Frame \/ QuitGraphics
    BY <1>3 DEF OpenGraphics, Frame, QuitGraphics, GraphicsNext
  <1>4. CASE UNCHANGED vars
    BY <1>4 DEF vars
  <1> QED
    BY <1>1, <1>2, <1>3, <1>4 DEF Next

(* The totals kernel_main prints add up: test_all as it is run at the boot.  *)
THEOREM TestsAddUpCorrect == Spec => []TestsAddUp
  <1>1. Init => TestsInit
    BY DEF Init
  <1>2. Spec => TestsSpec
    BY <1>1, StepsOfTests, PTL DEF Spec, TestsSpec
  <1> QED
    BY <1>2, TestsCorrect, PTL

(* The graphics command leaves no trail, however often the shell runs it and *)
(* whatever other commands run in between.                                   *)
THEOREM NoTrailCorrect == Spec => []NoTrail
  <1>1. Init => GraphicsInit
    BY DEF Init
  <1>2. Spec => GraphicsSpec
    BY <1>1, StepsOfBox, PTL DEF Spec, GraphicsSpec
  <1> QED
    BY <1>2, BoxClean, PTL

(* Only the shell's steps change the shell.                                  *)
LEMMA StepsOfShell ==
    [Next]_vars => ShellNext \/ shell_cmd_graphics \/ Return \/ UNCHANGED shellVars
  <1> SUFFICES ASSUME [Next]_vars
               PROVE  ShellNext \/ shell_cmd_graphics \/ Return \/ UNCHANGED shellVars
    OBVIOUS
  <1>1. CASE Consoles \/ SetDisplay \/ AllocFrameBuffer \/ TestsEnd \/ syscall
             \/ sd_card_init \/ exfat_read_boot_block
    BY <1>1 DEF Consoles, SetDisplay, AllocFrameBuffer, TestsEnd, syscall,
                sd_card_init, exfat_read_boot_block, Booting
  <1>2. CASE test_all \/ Frame
    BY <1>2 DEF test_all, Frame
  <1>3. CASE Command \/ OpenGraphics \/ QuitGraphics
    BY <1>3 DEF Command, OpenGraphics, QuitGraphics
  <1>4. CASE UNCHANGED vars
    BY <1>4 DEF vars
  <1> QED
    BY <1>1, <1>2, <1>3, <1>4 DEF Next

(* The shell's invariant holds of the kernel that runs it.                   *)
THEOREM ShellAlways == Spec => []ShellIInv
  <1>1. Init => ShellIInv
    BY ShellInitInv DEF Init
  <1>2. ShellIInv /\ [Next]_vars => ShellIInv'
    BY StepsOfShell, ShellStep, ShellStutterInv
  <1> QED
    BY <1>1, <1>2, PTL DEF Spec

(* The words a command gets are the line typed: for a buffer of any size, any*)
(* sequence of lines that fit, and whatever earlier lines and commands left  *)
(* in the buffer.                                                            *)
THEOREM WordsAreLineCorrect == Spec => []WordsAreLine
  <1>1. ShellIInv => WordsAreLine
    BY DEF ShellIInv
  <1> QED
    BY <1>1, ShellAlways, PTL

(* The working directory has the names that the cd commands since the last   *)
(* absolute one asked for, until a line is read over it.                     *)
THEOREM DirectoryIsAskedCorrect == Spec => []DirectoryIsAsked
  <1>1. ShellIInv => DirectoryIsAsked
    BY DEF ShellIInv
  <1> QED
    BY <1>1, ShellAlways, PTL
=============================================================================
