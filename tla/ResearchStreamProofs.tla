------------------------ MODULE ResearchStreamProofs ------------------------
(***************************************************************************)
(* Whatever the evaluation library is asked to do, in any order: no purged *)
(* fold leaks, walk-forward folds leak exactly past their embargo, no window *)
(* scores a bar its model was fitted on, no strategy looks ahead, all of them *)
(* are variations of one and stay within their caps, and the tests of a    *)
(* search are not moved by the size of a trial.                            *)
(***************************************************************************)
EXTENDS ResearchStream, BasicLemmas

-----------------------------------------------------------------------------
(* Cross-validation: purged folds never leak, and walk-forward folds leak  *)
(* exactly when labels reach further than the embargo.                     *)

\* A training row before a block that ends its label before the block, or that
\* comes after the block, does not leak into it.
LEMMA ClearOfTheBlock ==
    ASSUME NEW start \in Int, NEW end \in Int, NEW label_span \in Nat, NEW train \in SUBSET Int,
           \A j \in train : j < start - label_span \/ j >= end
    PROVE  ~Leaks(Split(train, Arange(start, end)), label_span)
<1>1. \A j \in train : \A k \in Arange(start, end) : j <= k => j + label_span < start
  BY DEF Arange
<1>2. \A k \in Arange(start, end) : start <= k /\ k \in Int
  BY DEF Arange
<1>3. ASSUME NEW j \in train, NEW hi \in Arange(start, end), NEW lo \in Arange(start, end),
             j <= hi, j + label_span >= lo
      PROVE  FALSE
  <2>1. j \in Int /\ j + label_span < start /\ start <= lo /\ lo \in Int
    BY <1>1, <1>2, <1>3
  <2> QED
    BY <1>3, <2>1
<1> QED
  BY <1>3 DEF Leaks, Split

\* Purging label_span rows before every block is enough: the check finds no leak
\* in what purged_kfold returns.
THEOREM PurgedFoldsDoNotLeak ==
    ASSUME NEW n_samples \in Int, NEW n_splits \in Int, NEW embargo \in Int, NEW label_span \in Int,
           PurgedAccepts(n_samples, n_splits, embargo, label_span)
    PROVE  assert_no_leakage(purged_kfold(n_samples, n_splits, embargo, label_span),
                             label_span, FALSE)
<1> DEFINE fold == n_samples \div n_splits
           test_end(i) == IF i = n_splits - 1 THEN n_samples ELSE (i + 1) * fold
           keep(i) == {j \in Arange(0, n_samples) :
                           /\ j < i * fold - label_span \/ j >= test_end(i) + embargo
                           /\ j < i * fold \/ j >= test_end(i)}
           split(i) == Split(keep(i), Arange(i * fold, test_end(i)))
<1>1. n_splits >= 2 /\ embargo \in Nat /\ label_span \in Nat
  BY DEF PurgedAccepts, Check
<1>2. fold \in Int
  BY <1>1
<1>3. ASSUME NEW i \in 0..(n_splits - 1)
      PROVE  ~Leaks(split(i), label_span)
  <2> HIDE DEF fold
  <2>1. i * fold \in Int /\ test_end(i) \in Int
    BY <1>2
  <2>2. keep(i) \in SUBSET Int
    BY DEF Arange
  <2>3. ASSUME NEW j \in keep(i)
        PROVE  j < i * fold - label_span \/ j >= test_end(i)
    <3> HIDE DEF test_end
    <3>1. j \in Int /\ (j < i * fold - label_span \/ j >= test_end(i) + embargo)
      BY DEF Arange
    <3> QED
      BY <1>1, <2>1, <3>1
  <2> HIDE DEF keep, test_end
  <2> QED
    BY <1>1, <2>1, <2>2, <2>3, ClearOfTheBlock
<1>4. purged_kfold(n_samples, n_splits, embargo, label_span)
          \subseteq {split(i) : i \in 0..(n_splits - 1)}
  BY DEF purged_kfold, Nonempty
<1> HIDE DEF split
<1> QED
  BY <1>3, <1>4 DEF assert_no_leakage

\* Whatever walk_forward returns trains on the past only, and it leaks exactly
\* when labels reach further than the embargo: the scheme is not told their span.
THEOREM WalkForwardLeaksPastEmbargo ==
    ASSUME NEW n_samples \in Int, NEW n_splits \in Int, NEW embargo \in Int, NEW label_span \in Nat,
           WalkForwardAccepts(n_samples, n_splits, embargo)
    PROVE  LET splits == walk_forward(n_samples, n_splits, embargo)
           IN  /\ \A s \in splits : Causal(s)
               /\ assert_no_leakage(splits, label_span, TRUE)
                      <=> (label_span <= embargo \/ splits = {})
<1> DEFINE fold == n_samples \div (n_splits + 1)
           test_end(i) == IF i = n_splits THEN n_samples ELSE (i + 1) * fold
           split(i) == Split(Arange(0, i * fold - embargo), Arange(i * fold, test_end(i)))
           splits == walk_forward(n_samples, n_splits, embargo)
<1>1. n_splits >= 2 /\ embargo \in Nat
  BY DEF WalkForwardAccepts, Check
<1>2. fold \in Int
  BY <1>1
<1>3. /\ splits \subseteq {split(i) : i \in 1..n_splits}
      /\ \A s \in splits : s.train # {} /\ s.test # {}
  BY DEF walk_forward, Nonempty
<1> HIDE DEF fold, splits
<1>4. ASSUME NEW s \in splits
      PROVE  /\ Causal(s)
             /\ label_span <= embargo => ~Leaks(s, label_span)
             /\ label_span > embargo => Leaks(s, label_span)
  <2>1. PICK i \in 1..n_splits : s = split(i)
    BY <1>3
  <2> DEFINE start == i * fold
             end == test_end(i)
             train == Arange(0, start - embargo)
             test == Arange(start, end)
  <2>2. start \in Int /\ end \in Int
    BY <1>2
  <2>3. s.train = train /\ s.test = test /\ s = Split(train, test)
    BY <2>1 DEF Split
  <2> HIDE DEF start, end
  <2>4. Causal(s)
    BY <1>1, <2>2, <2>3 DEF Causal, Arange
  <2>5. label_span <= embargo => ~Leaks(s, label_span)
    <3> SUFFICES ASSUME label_span <= embargo PROVE ~Leaks(s, label_span)
      OBVIOUS
    <3>1. train \in SUBSET Int /\ \A j \in train : j < start - label_span
      BY <1>1, <2>2 DEF Arange
    <3> HIDE DEF train
    <3> QED
      BY <2>2, <2>3, <3>1, ClearOfTheBlock
  <2>6. label_span > embargo => Leaks(s, label_span)
    <3> SUFFICES ASSUME label_span > embargo PROVE Leaks(s, label_span)
      OBVIOUS
    <3> DEFINE last == start - embargo - 1
    <3>1. last \in train /\ start \in test
      <4>1. train # {} /\ test # {}
        BY <1>3, <2>3
      <4>2. 0 <= start - embargo - 1 /\ start <= end - 1
        BY <1>1, <2>2, <4>1 DEF Arange
      <4>3. QED
        BY <1>1, <2>2, <4>2 DEF Arange
    <3>2. last <= start /\ last + label_span >= start
      BY <1>1, <2>2
    <3> QED
      BY <2>3, <3>1, <3>2 DEF Leaks
  <2> QED
    BY <2>4, <2>5, <2>6
<1>5. label_span <= embargo \/ label_span > embargo
  BY <1>1
<1>6. label_span > embargo => ~(label_span <= embargo)
  BY <1>1
<1>7. (\A s \in splits : ~Leaks(s, label_span) /\ Causal(s))
          <=> (label_span <= embargo \/ splits = {})
  BY <1>4, <1>5, <1>6
<1> QED
  BY <1>4, <1>7 DEF assert_no_leakage, splits
-----------------------------------------------------------------------------
(* The walk-forward evaluation scores only bars its model has not seen.    *)

Windows == [train_end_index : Nat, oos : SUBSET Int]
Scored(te) == te..(AtMost(te + plan.test_window, n) - 2)

\* What the loop has established: the arguments are accepted ones, train_end has
\* passed train_min, every window kept began at least a step before train_end
\* and scored its test bars, and windows begin at least a step apart.
WalkTypes ==
    /\ n \in Nat /\ plan \in Plans /\ Accepts(plan)
    /\ train_end \in Nat /\ plan.train_min <= train_end
    /\ windows \in Seq(Windows)
WalkProgress ==
    /\ \A i \in DOMAIN windows :
          /\ windows[i].train_end_index + plan.step <= train_end
          /\ windows[i].oos = Scored(windows[i].train_end_index)
    /\ \A i, j \in DOMAIN windows :
          i < j => windows[i].train_end_index + plan.step <= windows[j].train_end_index
WalkInv == WalkTypes /\ WalkProgress

\* The borrowed bars are exactly used up by the warm-up: the rows kept are the
\* test bars, except the last, whose return lies outside.
LEMMA OosRowsAreTheTestBars ==
    ASSUME WalkTypes
    PROVE  /\ OosRows = Scored(train_end)
           /\ OosRows \in SUBSET Int
<1> USE VolWindowAssumption, WalkAssumption
<1> DEFINE TestEnd == AtMost(train_end + plan.test_window, n)
<1>1. train_end - Warmup \in Nat
  BY DEF WalkTypes, Plans, Accepts, Warmup
<1>2. AtLeast(0, train_end - Warmup) = train_end - Warmup
  BY <1>1 DEF AtLeast
<1>3. TestEnd \in Nat
  BY DEF WalkTypes, Plans, AtMost
<1>4. DEFINE start == train_end - Warmup
             global == {start + r : r \in VolWindow..(TestEnd - start - 2)}
<1>5. OosRows = {g \in global : g >= train_end}
  BY <1>2 DEF OosRows, WindowRows, CandleIndex
<1>6. start \in Nat /\ start + VolWindow <= train_end
  BY <1>1 DEF Warmup, WalkTypes
<1> HIDE DEF start
<1>7. ASSUME NEW g \in global, g >= train_end
      PROVE  g \in train_end..(TestEnd - 2)
  BY <1>3, <1>6, <1>7 DEF WalkTypes
<1>8. ASSUME NEW g \in train_end..(TestEnd - 2)
      PROVE  g \in global
  <2>1. g - start \in VolWindow..(TestEnd - start - 2) /\ g = start + (g - start)
    BY <1>3, <1>6 DEF WalkTypes
  <2> QED
    BY <2>1
<1>9. OosRows = train_end..(TestEnd - 2)
  <2>1. \A g \in train_end..(TestEnd - 2) : g >= train_end
    BY <1>3 DEF WalkTypes
  <2> QED
    BY <1>5, <1>7, <1>8, <2>1
<1> QED
  BY <1>3, <1>9 DEF Scored, WalkTypes

\* A window kept is a window.
LEMMA WindowTypes ==
    ASSUME WalkTypes
    PROVE  /\ DOMAIN windows \subseteq Nat
           /\ \A i \in DOMAIN windows : windows[i].train_end_index \in Nat
<1>1. windows \in Seq(Windows)
  BY DEF WalkTypes
<1>2. DOMAIN windows = 1..Len(windows) /\ Len(windows) \in Nat
  BY <1>1, LenProperties
<1>3. \A i \in 1..Len(windows) : windows[i] \in Windows
  BY <1>1, ElementOfSeq
<1>4. \A i \in DOMAIN windows : windows[i].train_end_index \in Nat
  BY <1>2, <1>3 DEF Windows
<1> QED
  BY <1>2, <1>4

\* A walk starts with no window scored.
LEMMA WalkInitInv == WalkInit => WalkInv
BY DEF WalkInit, WalkStart, WalkInv, WalkTypes, WalkProgress, Plans, Accepts

\* The next window starts after every training row of its model.
LEMMA WalkStepInv == WalkInv /\ WalkWindow => WalkInv'
<1> SUFFICES ASSUME WalkInv, WalkWindow PROVE WalkInv'
  OBVIOUS
<1> USE VolWindowAssumption, WalkAssumption
<1> DEFINE w == [train_end_index |-> train_end, oos |-> OosRows]
<1>1. w.oos = Scored(train_end) /\ w \in Windows
  BY OosRowsAreTheTestBars DEF WalkInv, WalkTypes, Windows
<1>2. plan.step \in Nat /\ plan.step >= 1 /\ train_end \in Nat
  BY DEF WalkInv, WalkTypes, Plans, Accepts
<1>3. UNCHANGED <<n, plan>> /\ train_end' = train_end + plan.step
  BY DEF WalkWindow
<1>4. \A te : Scored(te)' = Scored(te)
  BY <1>3 DEF Scored
<1>5. CASE windows' = windows
  <2>1. WalkTypes'
    BY <1>2, <1>3, <1>5 DEF WalkInv, WalkTypes, Plans, Accepts
  <2>2. \A i \in DOMAIN windows : windows[i].train_end_index \in Nat
    BY WindowTypes DEF WalkInv
  <2>3. WalkProgress'
    BY <1>2, <1>3, <1>4, <1>5, <2>2 DEF WalkInv, WalkProgress
  <2> QED
    BY <2>1, <2>3 DEF WalkInv
<1>6. CASE windows' = Append(windows, w)
  <2> HIDE DEF w
  <2>0. windows \in Seq(Windows)
    BY DEF WalkInv, WalkTypes
  <2>1. WalkTypes'
    <3>1. windows' \in Seq(Windows)
      BY <1>1, <1>6, <2>0
    <3> QED
      BY <1>2, <1>3, <3>1 DEF WalkInv, WalkTypes, Plans, Accepts
  <2>2. /\ DOMAIN windows = 1..Len(windows) /\ Len(windows) \in Nat
        /\ DOMAIN windows' = 1..(Len(windows) + 1)
        /\ \A i \in DOMAIN windows : windows'[i] = windows[i]
        /\ windows'[Len(windows) + 1] = w
    BY <1>1, <1>6, <2>0
  <2>3. \A i \in DOMAIN windows : windows[i].train_end_index \in Nat
    BY WindowTypes DEF WalkInv
  <2>4. w.train_end_index = train_end
    BY DEF w
  <2>5. ASSUME NEW i \in DOMAIN windows'
        PROVE  /\ windows'[i].train_end_index + plan.step <= train_end'
               /\ windows'[i].oos = Scored(windows'[i].train_end_index)
    <3>1. CASE i \in DOMAIN windows
      <4>1. /\ windows[i].train_end_index + plan.step <= train_end
            /\ windows[i].oos = Scored(windows[i].train_end_index)
        BY <3>1 DEF WalkInv, WalkProgress
      <4> QED
        BY <1>2, <1>3, <2>2, <2>3, <3>1, <4>1
    <3>2. CASE i = Len(windows) + 1
      BY <1>1, <1>2, <1>3, <2>2, <2>4, <3>2
    <3> QED
      BY <2>2, <3>1, <3>2
  <2>6. ASSUME NEW i \in DOMAIN windows', NEW j \in DOMAIN windows', i < j
        PROVE  windows'[i].train_end_index + plan.step <= windows'[j].train_end_index
    <3>1. i \in DOMAIN windows
      BY <2>2, <2>6
    <3>2. CASE j \in DOMAIN windows
      BY <2>2, <2>6, <3>1, <3>2 DEF WalkInv, WalkProgress
    <3>3. CASE j = Len(windows) + 1
      BY <2>2, <2>4, <3>1, <3>3 DEF WalkInv, WalkProgress
    <3> QED
      BY <2>2, <3>2, <3>3
  <2>7. WalkProgress'
    BY <1>3, <1>4, <2>5, <2>6 DEF WalkProgress
  <2> QED
    BY <2>1, <2>7 DEF WalkInv
<1> QED
  BY <1>5, <1>6 DEF WalkWindow

\* What leaves the walk alone keeps it so.
LEMMA WalkStutterInv == WalkInv /\ UNCHANGED walkVars => WalkInv'
BY DEF WalkInv, WalkTypes, WalkProgress, Scored, walkVars

\* Windows so made score no bar their model was fitted on.
LEMMA WalkInvOutOfSample == WalkInv => WindowsOutOfSample
<1> SUFFICES ASSUME WalkInv PROVE WindowsOutOfSample
  OBVIOUS
<1> USE VolWindowAssumption, WalkAssumption
<1>1. /\ n \in Nat /\ plan.step \in Nat /\ plan.test_window \in Nat
      /\ DOMAIN windows \subseteq Nat
      /\ \A i \in DOMAIN windows : windows[i].train_end_index \in Nat
  BY WindowTypes DEF WalkInv, WalkTypes, Plans
<1>2. \A i \in DOMAIN windows : windows[i].oos = Scored(windows[i].train_end_index)
  BY DEF WalkInv, WalkProgress
<1>3. ASSUME NEW i \in DOMAIN windows, NEW j \in DOMAIN windows, i < j,
             plan.step >= plan.test_window - 1
      PROVE  windows[i].oos \cap windows[j].oos = {}
  <2>1. windows[i].train_end_index + plan.step <= windows[j].train_end_index
    BY <1>3 DEF WalkInv, WalkProgress
  <2>2. \A g \in windows[i].oos : g < windows[j].train_end_index
    <3> DEFINE a == windows[i].train_end_index
               b == windows[j].train_end_index
    <3>1. a \in Nat /\ b \in Nat /\ a + plan.step <= b /\ windows[i].oos = Scored(a)
      BY <1>1, <1>2, <2>1
    <3> HIDE DEF a, b
    <3>2. \A g \in Scored(a) : g < b
      <4>1. AtMost(a + plan.test_window, n) <= a + plan.test_window
        BY <1>1, <3>1 DEF AtMost
      <4> DEFINE last == AtMost(a + plan.test_window, n)
                 step == plan.step
                 test == plan.test_window
      <4>2. last \in Int /\ step \in Nat /\ test \in Nat /\ step >= test - 1
        BY <1>1, <1>3, <3>1 DEF AtMost
      <4>3. last <= a + test /\ a + step <= b /\ a \in Nat /\ b \in Nat
        BY <3>1, <4>1
      <4>4. \A g \in Scored(a) : g \in Int /\ g + 2 <= last
        BY <1>1, <3>1 DEF Scored, AtMost
      <4> HIDE DEF last, step, test
      <4>5. last <= b + 1
        BY <4>2, <4>3
      <4>6. QED
        BY <4>2, <4>3, <4>4, <4>5
    <3> QED
      BY <3>1, <3>2 DEF b
  <2>3. \A g \in windows[j].oos : g >= windows[j].train_end_index
    <3>1. windows[j].oos = Scored(windows[j].train_end_index) /\ windows[j].train_end_index \in Nat
      BY <1>1, <1>2
    <3>2. AtMost(windows[j].train_end_index + plan.test_window, n) \in Int
      BY <1>1, <3>1 DEF AtMost
    <3> DEFINE te == windows[j].train_end_index
    <3>3. \A hi \in Int : \A g \in te..hi : g >= te
      BY <3>1
    <3> HIDE DEF te
    <3>4. windows[j].oos = te..(AtMost(te + plan.test_window, n) - 2)
      BY <3>1 DEF te, Scored
    <3>5. AtMost(te + plan.test_window, n) - 2 \in Int
      BY <3>2 DEF te
    <3> QED
      BY <3>3, <3>4, <3>5 DEF te
  <2>4. \A g \in windows[i].oos : g \in Int
    BY <1>1, <1>2 DEF Scored, AtMost
  <2> QED
    BY <1>1, <2>2, <2>3, <2>4
<1>4. \A i, j \in DOMAIN windows : i # j => i < j \/ j < i
  BY <1>1
<1> QED
  BY <1>2, <1>3, <1>4 DEF WindowsOutOfSample, Scored

\* Every window of a walk-forward evaluation scores exactly its test bars, none
\* of them seen by the fit, and windows a step apart share none.
THEOREM WalkForwardOutOfSample == WalkSpec => []WindowsOutOfSample
<1>1. WalkInv /\ [WalkWindow]_walkVars => WalkInv'
  BY WalkStepInv, WalkStutterInv
<1> QED
  BY WalkInitInv, <1>1, WalkInvOutOfSample, PTL DEF WalkSpec
-----------------------------------------------------------------------------
(* The library, asked for either in any order.                             *)

\* The folds, when there are any, are what a configuration the library accepts
\* asks for.
FoldsBuilt ==
    \/ folds = Unbuilt
    \/ \E n_samples \in Int, cv \in CvSpecs, label_span \in Nat :
          /\ ConfigAccepts(n_samples, cv, label_span)
          /\ folds = [cv |-> cv, n_samples |-> n_samples, label_span |-> label_span,
                      splits |-> splits_from_config(n_samples, cv, label_span)]
OutOfSampleInv == WalkInv /\ FoldsBuilt

\* The library starts with no folds and an accepted plan.
LEMMA StreamInitInv == Init => OutOfSampleInv
<1> SUFFICES ASSUME Init PROVE OutOfSampleInv
  OBVIOUS
<1>1. ASSUME NEW length \in Nat, NEW p \in Plans, Accepts(p), WalkStart(length, p)
      PROVE  WalkInv
  <2>1. WalkInit
    BY <1>1 DEF WalkInit
  <2> QED
    BY <2>1, WalkInitInv
<1>2. CASE task = "walk"
  <2>1. PICK length \in 1..MaxLength, p \in WalkPlans : Accepts(p) /\ WalkStart(length, p)
    BY <1>2 DEF Init
  <2>2. length \in Nat /\ p \in Plans
    BY StreamAssumption
  <2>3. WalkInv
    BY <1>1, <2>1, <2>2
  <2> QED
    BY <2>3 DEF Init, OutOfSampleInv, FoldsBuilt
<1>3. CASE task # "walk"
  <2> DEFINE p == CHOOSE q \in WalkPlans : Accepts(q)
  <2>1. p \in Plans /\ Accepts(p)
    BY StreamAssumption
  <2>2. WalkStart(0, p)
    BY <1>3 DEF Init
  <2> HIDE DEF p
  <2>3. WalkInv
    BY <1>1, <2>1, <2>2
  <2> QED
    BY <2>3 DEF Init, OutOfSampleInv, FoldsBuilt
<1> QED
  BY <1>2, <1>3

\* A task disturbs neither the folds nor the windows of another.
LEMMA StreamStepInv == OutOfSampleInv /\ [Next]_vars => OutOfSampleInv'
<1> SUFFICES ASSUME OutOfSampleInv, [Next]_vars PROVE OutOfSampleInv'
  OBVIOUS
<1> USE DEF OutOfSampleInv
<1>1. UNCHANGED walkVars => WalkInv'
  BY WalkStutterInv
<1>2. UNCHANGED folds => FoldsBuilt'
  BY DEF FoldsBuilt, CvSpecs, Unbuilt
<1>3. CASE ArriveBar
  BY <1>1, <1>2, <1>3 DEF ArriveBar
<1>4. CASE BuildFolds
  <2>1. PICK n_samples \in 1..MaxLength, cv \in CvSpecs, label_span \in LabelSpans :
            /\ ConfigAccepts(n_samples, cv, label_span)
            /\ folds' = [cv |-> cv, n_samples |-> n_samples, label_span |-> label_span,
                         splits |-> splits_from_config(n_samples, cv, label_span)]
    BY <1>4 DEF BuildFolds
  <2>2. n_samples \in Int /\ label_span \in Nat
    BY StreamAssumption
  <2>3. FoldsBuilt'
    BY <2>1, <2>2 DEF FoldsBuilt
  <2> QED
    BY <1>1, <1>4, <2>3 DEF BuildFolds
<1>5. CASE task = "walk" /\ WalkWindow /\ UNCHANGED <<task, streamVars, folds, testVars>>
  BY <1>2, <1>5, WalkStepInv
<1>6. CASE task = "tests" /\ TestsNext /\ UNCHANGED <<task, streamVars, folds, walkVars>>
  BY <1>1, <1>2, <1>6
<1>7. CASE UNCHANGED vars
  BY <1>1, <1>2, <1>7 DEF vars
<1> QED
  BY <1>3, <1>4, <1>5, <1>6, <1>7 DEF Next

\* Folds of an accepted configuration leak only as their scheme does.
LEMMA FoldsAreOutOfSample == FoldsBuilt => FoldsOutOfSample
<1> SUFFICES ASSUME FoldsBuilt, folds # Unbuilt
             PROVE  LET walk == folds.cv.scheme = "walk_forward"
                    IN  assert_no_leakage(folds.splits, folds.label_span, walk)
                            <=> \/ ~walk
                                \/ folds.label_span <= folds.cv.embargo_bars
                                \/ folds.splits = {}
  BY DEF FoldsOutOfSample
<1>1. PICK n_samples \in Int, cv \in CvSpecs, label_span \in Nat :
          /\ ConfigAccepts(n_samples, cv, label_span)
          /\ folds = [cv |-> cv, n_samples |-> n_samples, label_span |-> label_span,
                      splits |-> splits_from_config(n_samples, cv, label_span)]
  BY DEF FoldsBuilt
<1>2. cv.n_splits \in Int /\ cv.embargo_bars \in Int /\ label_span \in Int
  BY DEF CvSpecs
<1>3. /\ folds.cv = cv /\ folds.label_span = label_span
      /\ folds.splits = splits_from_config(n_samples, cv, label_span)
  BY <1>1
<1>4. CASE cv.scheme = "walk_forward"
  <2> DEFINE splits == walk_forward(n_samples, cv.n_splits, cv.embargo_bars)
  <2>1. WalkForwardAccepts(n_samples, cv.n_splits, cv.embargo_bars) /\ folds.splits = splits
    BY <1>1, <1>3, <1>4 DEF ConfigAccepts, splits_from_config
  <2>2. assert_no_leakage(splits, label_span, TRUE)
            <=> (label_span <= cv.embargo_bars \/ splits = {})
    BY <1>2, <2>1, WalkForwardLeaksPastEmbargo
  <2> HIDE DEF splits
  <2> QED
    BY <1>3, <1>4, <2>1, <2>2
<1>5. CASE cv.scheme # "walk_forward"
  <2>1. /\ PurgedAccepts(n_samples, cv.n_splits, cv.embargo_bars, label_span)
        /\ folds.splits = purged_kfold(n_samples, cv.n_splits, cv.embargo_bars, label_span)
    BY <1>1, <1>3, <1>5 DEF ConfigAccepts, splits_from_config
  <2>2. assert_no_leakage(folds.splits, label_span, FALSE)
    BY <1>2, <2>1, PurgedFoldsDoNotLeak
  <2> QED
    BY <1>3, <1>5, <2>2
<1> QED
  BY <1>4, <1>5

\* Nothing the evaluation library is asked to do, in any order and on series of
\* any length, makes it score a model on what it was fitted on, except that
\* walk-forward folds leak when labels reach further than the embargo.
THEOREM EvaluationOutOfSample == Spec => []OutOfSample
<1>1. OutOfSampleInv => OutOfSample
  BY WalkInvOutOfSample, FoldsAreOutOfSample DEF OutOfSampleInv, OutOfSample
<1> QED
  BY StreamInitInv, StreamStepInv, <1>1, PTL DEF Spec

-----------------------------------------------------------------------------
(* No look-ahead: what is computed from the first m bars of a series is     *)
(* what the whole series gives for them.                                    *)

\* Two columns, the first computed from the bars before m only.
SameUpTo(short, long, m) ==
    /\ DOMAIN short = {t \in DOMAIN long : t < m}
    /\ \A t \in DOMAIN short : short[t] = long[t]

\* The first m bars of a series of len.
Begins(short, long, m, len) ==
    /\ m \in Nat /\ len \in Nat /\ m <= len
    /\ DOMAIN short = 0..(m - 1) /\ DOMAIN long = 0..(len - 1)
    /\ \A t \in 0..(m - 1) : short[t] = long[t]

\* The same for rows, which count from one.
RowsBegin(short, long, m, len) ==
    /\ m \in Nat /\ len \in Nat /\ m <= len
    /\ short = [t \in 1..m |-> short[t]] /\ long = [t \in 1..len |-> long[t]]
    /\ \A t \in 1..m : short[t] = long[t]

\* The length of a series.
LEMMA SeriesLength ==
    ASSUME NEW len \in Nat, NEW series, DOMAIN series = 0..(len - 1)
    PROVE  Length(series) = len
<1>1. IsFiniteSet(0..(len - 1)) /\ Cardinality(0..(len - 1)) = IF 0 > len - 1 THEN 0 ELSE (len - 1) - 0 + 1
  BY 0 \in Int, len - 1 \in Int, FS_Interval
<1> QED
  BY <1>1 DEF Length

\* A series and its start have their lengths.
LEMMA BeginsTypes ==
    ASSUME NEW short, NEW long, NEW m, NEW len, Begins(short, long, m, len)
    PROVE  Length(short) = m /\ Length(long) = len
<1>1. m \in Nat /\ DOMAIN short = 0..(m - 1)
  BY DEF Begins
<1>2. len \in Nat /\ DOMAIN long = 0..(len - 1)
  BY DEF Begins
<1> QED
  BY <1>1, <1>2, SeriesLength

\* A prefix is a start.
LEMMA PrefixBegins ==
    ASSUME NEW len \in Nat, NEW series, DOMAIN series = 0..(len - 1), NEW m \in 0..len
    PROVE  Begins(Prefix(series, m), series, m, len)
BY DEF Prefix, Begins

\* Log returns look back only.
LEMMA LogReturnCausal ==
    ASSUME NEW short, NEW long, NEW m, NEW len, Begins(short, long, m, len), NEW lag \in Nat \ {0}
    PROVE  /\ SameUpTo(log_return(short, lag), log_return(long, lag), m)
           /\ DOMAIN log_return(long, lag) = lag..(len - 1)
<1>1. Length(short) = m /\ Length(long) = len
  BY BeginsTypes
<1>2. /\ log_return(short, lag) = [t \in lag..(m - 1) |-> short[t] - short[t - lag]]
      /\ log_return(long, lag) = [t \in lag..(len - 1) |-> long[t] - long[t - lag]]
  BY <1>1 DEF log_return
<1>3. lag..(m - 1) = {t \in lag..(len - 1) : t < m}
  BY DEF Begins
<1>4. \A t \in lag..(m - 1) : t \in 0..(m - 1) /\ t - lag \in 0..(m - 1)
  BY DEF Begins
<1>5. \A t \in lag..(m - 1) : short[t] = long[t] /\ short[t - lag] = long[t - lag]
  BY <1>4 DEF Begins
<1>6. \A t \in lag..(m - 1) : t \in lag..(len - 1)
  BY <1>3
<1> QED
  BY <1>2, <1>3, <1>5, <1>6 DEF SameUpTo

\* A window looks back only.
LEMMA RollingCausal ==
    ASSUME NEW a, NEW b, NEW m \in Nat, SameUpTo(a, b, m), DOMAIN b \subseteq Int,
           NEW window \in Nat \ {0}
    PROVE  SameUpTo(_rolling(a, window), _rolling(b, window), m)
<1>1. DOMAIN _rolling(a, window) = {t \in DOMAIN a : (t - window + 1)..t \subseteq DOMAIN a}
  BY DEF _rolling
<1>2. DOMAIN _rolling(b, window) = {t \in DOMAIN b : (t - window + 1)..t \subseteq DOMAIN b}
  BY DEF _rolling
<1>3. DOMAIN a = {t \in DOMAIN b : t < m}
  BY DEF SameUpTo
<1>4. ASSUME NEW t \in DOMAIN b, t < m
      PROVE  (t - window + 1)..t \subseteq DOMAIN a <=> (t - window + 1)..t \subseteq DOMAIN b
  BY <1>3, <1>4
<1>5. DOMAIN _rolling(a, window) = {t \in DOMAIN _rolling(b, window) : t < m}
  BY <1>1, <1>2, <1>3, <1>4
<1>6. ASSUME NEW t \in DOMAIN _rolling(a, window)
      PROVE  _rolling(a, window)[t] = _rolling(b, window)[t]
  <2>1. t \in Int /\ t \in DOMAIN _rolling(b, window)
    BY <1>1, <1>3, <1>5, <1>6
  <2>2. \A offset \in 0..(window - 1) : t - window + 1 + offset \in (t - window + 1)..t
    BY <2>1
  <2>3. \A offset \in 0..(window - 1) : a[t - window + 1 + offset] = b[t - window + 1 + offset]
    BY <2>2, <1>1, <1>6 DEF SameUpTo
  <2>4. _rolling(a, window)[t] = [offset \in 0..(window - 1) |-> a[t - window + 1 + offset]]
    BY <1>1, <1>6 DEF _rolling
  <2>5. _rolling(b, window)[t] = [offset \in 0..(window - 1) |-> b[t - window + 1 + offset]]
    BY <1>2, <2>1 DEF _rolling
  <2> QED
    BY <2>3, <2>4, <2>5
<1> QED
  BY <1>5, <1>6 DEF SameUpTo

\* So does the volatility, which is warm from its window on.
LEMMA RealizedVolCausal ==
    ASSUME NEW short, NEW long, NEW m, NEW len, Begins(short, long, m, len), NEW window \in Nat \ {0}
    PROVE  /\ SameUpTo(realized_vol(short, window), realized_vol(long, window), m)
           /\ DOMAIN realized_vol(long, window) = window..(len - 1)
<1> DEFINE a == log_return(short, 1)
           b == log_return(long, 1)
           wa == _rolling(a, window)
           wb == _rolling(b, window)
<1>0. m \in Nat /\ len \in Nat
  BY DEF Begins
<1>1. SameUpTo(a, b, m) /\ DOMAIN b = 1..(len - 1)
  BY LogReturnCausal, 1 \in Nat \ {0}
<1>2. SameUpTo(wa, wb, m)
  <2> HIDE DEF a, b
  <2> QED
    BY <1>0, <1>1, RollingCausal
<1>3. /\ realized_vol(short, window) = [t \in DOMAIN wa |-> Spread(wa[t])]
      /\ realized_vol(long, window) = [t \in DOMAIN wb |-> Spread(wb[t])]
  BY DEF realized_vol
<1>4. DOMAIN wb = window..(len - 1)
  <2>1. DOMAIN wb = {t \in DOMAIN b : (t - window + 1)..t \subseteq DOMAIN b}
    BY DEF _rolling
  <2>2. ASSUME NEW t \in 1..(len - 1)
        PROVE  (t - window + 1)..t \subseteq 1..(len - 1) <=> t >= window
    <3>1. t - window + 1 \in (t - window + 1)..t
      BY <2>2
    <3>2. (t - window + 1)..t \subseteq 1..(len - 1) => t >= window
      BY <3>1, <1>0, <2>2
    <3>3. t >= window => (t - window + 1)..t \subseteq 1..(len - 1)
      BY <1>0, <2>2
    <3> QED
      BY <3>2, <3>3
  <2>3. DOMAIN wb = {t \in 1..(len - 1) : t >= window}
    <3> HIDE DEF b
    <3> QED
      BY <1>1, <2>1, <2>2
  <2> HIDE DEF wb
  <2> QED
    BY <2>3, <1>0
<1> HIDE DEF wa, wb
<1> QED
  BY <1>2, <1>3, <1>4 DEF SameUpTo

\* And the moving average and the z-score of prices.
LEMMA WindowSumsCausal ==
    ASSUME NEW short, NEW long, NEW m, NEW len, Begins(short, long, m, len),
           NEW window \in Nat \ {0}
    PROVE  /\ SameUpTo(sma(short, window), sma(long, window), m)
           /\ SameUpTo(zscore(short, window), zscore(long, window), m)
<1> DEFINE a == Prices(short)
           b == Prices(long)
           wa == _rolling(a, window)
           wb == _rolling(b, window)
           warmA == {t \in DOMAIN wa : Spread(wa[t]) > 0}
           warmB == {t \in DOMAIN wb : Spread(wb[t]) > 0}
           z(prices, win, t) == <<window * prices[t] - Total(win[t]), Spread(win[t])>>
<1>1. SameUpTo(a, b, m) /\ DOMAIN b \subseteq Int /\ m \in Nat
  BY DEF SameUpTo, Begins, Prices
<1>2. /\ sma(short, window) = [t \in DOMAIN wa |-> Total(wa[t])]
      /\ sma(long, window) = [t \in DOMAIN wb |-> Total(wb[t])]
  BY DEF sma
<1>3. /\ zscore(short, window) = [t \in warmA |-> z(a, wa, t)]
      /\ zscore(long, window) = [t \in warmB |-> z(b, wb, t)]
  BY DEF zscore
<1> HIDE DEF a, b
<1>4. SameUpTo(wa, wb, m)
  BY <1>1, RollingCausal
<1>5. \A t \in DOMAIN wa : t \in DOMAIN a
  BY DEF _rolling
<1>6. \A t \in DOMAIN wa : wa[t] = wb[t] /\ a[t] = b[t] /\ t \in DOMAIN wb /\ t < m
  BY <1>1, <1>4, <1>5 DEF SameUpTo
<1>7. warmA = {t \in warmB : t < m}
  BY <1>4, <1>6 DEF SameUpTo
<1>8. \A t \in warmA : z(a, wa, t) = z(b, wb, t)
  BY <1>6
<1> HIDE DEF wa, wb, z
<1>9. SameUpTo(sma(short, window), sma(long, window), m)
  BY <1>2, <1>4, <1>6 DEF SameUpTo
<1> HIDE DEF warmA, warmB
<1>10. SameUpTo(zscore(short, window), zscore(long, window), m)
  BY <1>3, <1>7, <1>8 DEF SameUpTo
<1> QED
  BY <1>9, <1>10

\* Every registered feature is causal.
LEMMA ComputeCausal ==
    ASSUME NEW short, NEW long, NEW m, NEW len, Begins(short, long, m, len),
           NEW spec \in [name : _REGISTRY, param : Nat \ {0}]
    PROVE  SameUpTo(Compute(spec, short), Compute(spec, long), m)
<1>1. spec.param \in Nat \ {0} /\ spec.name \in _REGISTRY
  OBVIOUS
<1>2. CASE spec.name = "log_return"
  BY <1>1, <1>2, LogReturnCausal DEF Compute
<1>3. CASE spec.name = "realized_vol"
  BY <1>1, <1>3, RealizedVolCausal DEF Compute
<1>4. CASE spec.name = "sma"
  BY <1>1, <1>4, WindowSumsCausal DEF Compute
<1>5. CASE spec.name = "momentum"
  BY <1>1, <1>5, LogReturnCausal DEF Compute, momentum
<1>6. CASE spec.name = "zscore"
  BY <1>1, <1>6, WindowSumsCausal DEF Compute
<1> QED
  BY <1>1, <1>2, <1>3, <1>4, <1>5, <1>6 DEF _REGISTRY

\* A feature has values on rows of the series only.
LEMMA ComputeRows ==
    ASSUME NEW len \in Nat, NEW series, DOMAIN series = 0..(len - 1),
           NEW spec \in [name : _REGISTRY, param : Nat \ {0}]
    PROVE  DOMAIN Compute(spec, series) \subseteq 0..(len - 1)
<1>1. spec.param \in Nat \ {0} /\ spec.name \in _REGISTRY
  OBVIOUS
<1>2. ASSUME NEW lag \in Nat \ {0}
      PROVE  DOMAIN log_return(series, lag) \subseteq 0..(len - 1)
  <2>1. DOMAIN log_return(series, lag) = lag..(len - 1)
    BY SeriesLength DEF log_return
  <2> QED
    BY <2>1
<1>3. \A s, w : DOMAIN _rolling(s, w) \subseteq DOMAIN s
  BY DEF _rolling
<1>4. DOMAIN realized_vol(series, spec.param) \subseteq 0..(len - 1)
  <2>1. DOMAIN realized_vol(series, spec.param) \subseteq DOMAIN log_return(series, 1)
    BY <1>3 DEF realized_vol
  <2> QED
    BY <2>1, <1>2, 1 \in Nat \ {0}
<1>5. DOMAIN sma(series, spec.param) \subseteq 0..(len - 1)
  <2>1. DOMAIN sma(series, spec.param) \subseteq DOMAIN Prices(series)
    BY <1>3 DEF sma
  <2> QED
    BY <2>1 DEF Prices
<1>6. DOMAIN zscore(series, spec.param) \subseteq 0..(len - 1)
  <2>1. DOMAIN zscore(series, spec.param) \subseteq DOMAIN Prices(series)
    BY <1>3 DEF zscore
  <2> QED
    BY <2>1 DEF Prices
<1>7. CASE spec.name = "log_return"
  BY <1>1, <1>2, <1>7 DEF Compute
<1>8. CASE spec.name = "realized_vol"
  BY <1>4, <1>8 DEF Compute
<1>9. CASE spec.name = "sma"
  BY <1>5, <1>9 DEF Compute
<1>10. CASE spec.name = "momentum"
  BY <1>1, <1>2, <1>10 DEF Compute, momentum
<1>11. CASE spec.name = "zscore"
  BY <1>6, <1>11 DEF Compute
<1> QED
  BY <1>1, <1>7, <1>8, <1>9, <1>10, <1>11 DEF _REGISTRY

\* So the canary passes, whichever bars it probes.
LEMMA CanaryPasses ==
    ASSUME NEW len \in Nat, NEW series, DOMAIN series = 0..(len - 1), NEW n_probe,
           NEW spec \in [name : _REGISTRY, param : Nat \ {0}]
    PROVE  is_causal(spec, series, n_probe)
<1> DEFINE full == Compute(spec, series)
           endpoint(t) == Compute(spec, Prefix(series, t + 1))
<1>1. DOMAIN full \subseteq 0..(len - 1)
  BY ComputeRows
<1>2. ASSUME NEW t \in DOMAIN full
      PROVE  t \in DOMAIN endpoint(t) /\ endpoint(t)[t] = full[t]
  <2>1. t \in 0..(len - 1) /\ t + 1 \in 0..len
    BY <1>1
  <2>2. Begins(Prefix(series, t + 1), series, t + 1, len)
    BY <2>1, PrefixBegins
  <2>3. SameUpTo(endpoint(t), full, t + 1)
    BY <2>2, ComputeCausal
  <2>4. t < t + 1
    BY <2>1
  <2> HIDE DEF full, endpoint
  <2> QED
    BY <2>3, <2>4 DEF SameUpTo
<1> QED
  BY <1>2 DEF is_causal

\* Rows 1..len of a column, as the code takes them.
LEMMA RowIs ==
    ASSUME NEW len \in Nat, NEW f, f = [t \in 1..len |-> f[t]]
    PROVE  Row(f) = f /\ Len(f) = len
<1> DEFINE values == {f[t] : t \in 1..len}
<1>1. f \in [1..len -> values]
  OBVIOUS
<1>2. f \in Seq(values)
  <2> HIDE DEF values
  <2> QED
    BY <1>1
<1>3. Len(f) = len
  <2> HIDE DEF values
  <2> QED
    BY <1>1, <1>2, LenProperties
<1>4. SubSeq(f, 1, len) = [t \in 1..len |-> f[1 + t - 1]]
  BY <1>2, <1>3
<1>5. [t \in 1..len |-> f[1 + t - 1]] = [t \in 1..len |-> f[t]]
  BY \A t \in 1..len : 1 + t - 1 = t
<1>6. SubSeq(f, 1, len) = f
  BY <1>4, <1>5
<1> QED
  BY <1>3, <1>6 DEF Row

\* The minimum of a set is its least member.
LEMMA LeastIs ==
    ASSUME NEW S \in SUBSET Int, NEW x \in S, \A y \in S : x <= y
    PROVE  Min(S) = x
<1> DEFINE least == CHOOSE x0 \in S : \A y \in S : x0 <= y
<1>1. least \in S /\ \A y \in S : least <= y
  OBVIOUS
<1>2. least <= x /\ x <= least /\ least \in Int
  BY <1>1
<1>3. Min(S) = least
  BY DEF Min
<1> HIDE DEF least
<1> QED
  BY <1>2, <1>3

\* The bars the features are warm for, and what they are there.
LEMMA RegimeFeatures ==
    ASSUME NEW short, NEW long, NEW m, NEW len, Begins(short, long, m, len)
    PROVE  /\ regime_features(short).valid = VolWindow..(m - 1)
           /\ regime_features(long).valid = VolWindow..(len - 1)
           /\ \A t \in VolWindow..(m - 1) :
                 regime_features(short).values[t] = regime_features(long).values[t]
<1> DEFINE first == [name |-> "log_return", param |-> 1]
           second == [name |-> "realized_vol", param |-> VolWindow]
           specs == <<first, second>>
           row(s, t) == [k \in DOMAIN specs |-> Compute(specs[k], s)[t]]
           Warmed(s) == {t \in DOMAIN s : \A k \in DOMAIN specs : t \in DOMAIN Compute(specs[k], s)}
<1> USE VolWindowAssumption
<1>1. \A s : Compute(first, s) = log_return(s, 1) /\ Compute(second, s) = realized_vol(s, VolWindow)
  BY DEF Compute
<1>2. \A s : Warmed(s) = {t \in DOMAIN s : t \in DOMAIN Compute(first, s) /\ t \in DOMAIN Compute(second, s)}
  <2> HIDE DEF first, second
  <2> QED
    OBVIOUS
<1>3. \A s : /\ regime_features(s).valid = Warmed(s)
             /\ regime_features(s).values =
                   [t \in Warmed(s) |-> row(s, t)]
  BY DEF regime_features, build_features
<1>4. ASSUME NEW s, NEW l, NEW i, NEW j, Begins(s, l, i, j)
      PROVE  Warmed(l) = VolWindow..(j - 1)
  <2>1. DOMAIN log_return(l, 1) = 1..(j - 1)
    BY <1>4, LogReturnCausal, 1 \in Nat \ {0}
  <2>2. DOMAIN realized_vol(l, VolWindow) = VolWindow..(j - 1)
    BY <1>4, RealizedVolCausal
  <2>3. DOMAIN l = 0..(j - 1)
    BY <1>4 DEF Begins
  <2>4. Warmed(l) = {t \in 0..(j - 1) : t \in 1..(j - 1) /\ t \in VolWindow..(j - 1)}
    <3> HIDE DEF Warmed, first, second, specs
    <3> QED
      BY <2>1, <2>2, <2>3, <1>1, <1>2
  <2>5. \A t \in VolWindow..(j - 1) : t \in 0..(j - 1) /\ t \in 1..(j - 1)
    BY <1>4 DEF Begins
  <2> HIDE DEF Warmed
  <2> QED
    BY <2>4, <2>5
<1>5. Begins(short, short, m, m)
  BY DEF Begins
<1>6. Warmed(short) = VolWindow..(m - 1) /\ Warmed(long) = VolWindow..(len - 1)
  BY <1>4, <1>5
<1>7. ASSUME NEW t \in VolWindow..(m - 1)
      PROVE  \A k \in DOMAIN specs : Compute(specs[k], short)[t] = Compute(specs[k], long)[t]
  <2>1. /\ SameUpTo(log_return(short, 1), log_return(long, 1), m)
        /\ DOMAIN log_return(long, 1) = 1..(len - 1)
    BY LogReturnCausal, 1 \in Nat \ {0}
  <2>2. /\ SameUpTo(realized_vol(short, VolWindow), realized_vol(long, VolWindow), m)
        /\ DOMAIN realized_vol(long, VolWindow) = VolWindow..(len - 1)
    BY RealizedVolCausal
  <2>3. t < m /\ t \in 1..(len - 1) /\ t \in VolWindow..(len - 1)
    BY <1>7 DEF Begins
  <2>4. log_return(short, 1)[t] = log_return(long, 1)[t]
    BY <2>1, <2>3 DEF SameUpTo
  <2>5. realized_vol(short, VolWindow)[t] = realized_vol(long, VolWindow)[t]
    BY <2>2, <2>3 DEF SameUpTo
  <2>6. /\ Compute(first, short)[t] = Compute(first, long)[t]
        /\ Compute(second, short)[t] = Compute(second, long)[t]
    BY <1>1, <2>4, <2>5
  <2> HIDE DEF first, second
  <2> QED
    BY <2>6
<1>8. ASSUME NEW t \in VolWindow..(m - 1)
      PROVE  regime_features(short).values[t] = regime_features(long).values[t]
  <2>1. t \in Warmed(short) /\ t \in Warmed(long)
    <3>1. t \in VolWindow..(len - 1)
      BY <1>8 DEF Begins
    <3> HIDE DEF Warmed
    <3> QED
      BY <3>1, <1>6, <1>8
  <2>2. row(short, t) = row(long, t)
    <3> HIDE DEF specs
    <3> QED
      BY <1>7, <1>8
  <2> HIDE DEF Warmed, row
  <2>3. regime_features(short).values = [t0 \in Warmed(short) |-> row(short, t0)]
    BY <1>3
  <2>4. regime_features(long).values = [t0 \in Warmed(long) |-> row(long, t0)]
    BY <1>3
  <2> QED
    BY <2>1, <2>2, <2>3, <2>4
<1> HIDE DEF Warmed
<1> QED
  BY <1>3, <1>6, <1>8

\* The first warm row.
LEMMA FirstRow ==
    ASSUME NEW k \in Nat, k > VolWindow
    PROVE  Min(VolWindow..(k - 1)) = VolWindow
<1> DEFINE rows == VolWindow..(k - 1)
<1>1. rows \in SUBSET Int /\ VolWindow \in rows /\ \A y \in rows : VolWindow <= y
  BY VolWindowAssumption
<1> HIDE DEF rows
<1>2. Min(rows) = VolWindow
  BY <1>1, LeastIs
<1> QED
  BY <1>2 DEF rows

\* The rows of the warm bars, in order.
LEMMA ObservationsAre ==
    ASSUME NEW s, NEW k \in Nat, k >= VolWindow, regime_features(s).valid = VolWindow..(k - 1)
    PROVE  Observations(s) =
              [t \in 1..(k - VolWindow) |-> regime_features(s).values[VolWindow + t - 1]]
<1> USE VolWindowAssumption
<1>1. Cardinality(VolWindow..(k - 1)) = k - VolWindow
  <2>1. Cardinality(VolWindow..(k - 1)) =
          IF VolWindow > k - 1 THEN 0 ELSE (k - 1) - VolWindow + 1
    BY VolWindow \in Int, k - 1 \in Int, FS_Interval
  <2> QED
    BY <2>1
<1>2. Observations(s) = [t \in 1..(k - VolWindow) |->
                           regime_features(s).values[Min(VolWindow..(k - 1)) + t - 1]]
  BY <1>1 DEF Observations, InOrder
<1>3. k > VolWindow => Min(VolWindow..(k - 1)) = VolWindow
  BY FirstRow
<1>4. CASE k > VolWindow
  BY <1>2, <1>3, <1>4
<1>5. CASE k = VolWindow
  <2>1. 1..(k - VolWindow) = {}
    BY <1>5
  <2> QED
    BY <2>1, <1>2
<1> QED
  BY <1>4, <1>5

\* The warm rows of a start are the start of the warm rows.
LEMMA ObservationsBegin ==
    ASSUME NEW short, NEW long, NEW m, NEW len, Begins(short, long, m, len), m >= VolWindow
    PROVE  RowsBegin(Observations(short), Observations(long), m - VolWindow, len - VolWindow)
<1> USE VolWindowAssumption
<1>1. m \in Nat /\ len \in Nat /\ m <= len
  BY DEF Begins
<1>2. ASSUME NEW s, NEW k \in Nat, k >= VolWindow, regime_features(s).valid = VolWindow..(k - 1)
      PROVE  Observations(s) =
                [t \in 1..(k - VolWindow) |-> regime_features(s).values[VolWindow + t - 1]]
  BY <1>2, ObservationsAre
<1> DEFINE a == regime_features(short)
           b == regime_features(long)
<1>3. /\ a.valid = VolWindow..(m - 1) /\ b.valid = VolWindow..(len - 1)
      /\ \A t \in VolWindow..(m - 1) : a.values[t] = b.values[t]
  BY RegimeFeatures
<1>4. /\ Observations(short) = [t \in 1..(m - VolWindow) |-> a.values[VolWindow + t - 1]]
      /\ Observations(long) = [t \in 1..(len - VolWindow) |-> b.values[VolWindow + t - 1]]
  BY <1>1, <1>2, <1>3
<1>5. \A t \in 1..(m - VolWindow) : VolWindow + t - 1 \in VolWindow..(m - 1)
  BY <1>1
<1>6. \A t \in 1..(m - VolWindow) : t \in 1..(len - VolWindow)
  BY <1>1
<1> HIDE DEF a, b
<1>7. \A t \in 1..(m - VolWindow) : Observations(short)[t] = Observations(long)[t]
  BY <1>3, <1>4, <1>5, <1>6
<1>8. m - VolWindow \in Nat /\ len - VolWindow \in Nat /\ m - VolWindow <= len - VolWindow
  BY <1>1
<1>9. /\ Observations(short) = [t \in 1..(m - VolWindow) |-> Observations(short)[t]]
      /\ Observations(long) = [t \in 1..(len - VolWindow) |-> Observations(long)[t]]
  BY <1>4
<1> QED
  BY <1>7, <1>8, <1>9 DEF RowsBegin

\* The densities, row by row.
LEMMA EmissionsAre ==
    ASSUME NEW params, NEW obs, NEW k \in Nat, obs = [t \in 1..k |-> obs[t]]
    PROVE  _log_gaussian(obs, params) = [t \in 1..k |-> Emissions(obs[t], params)]
<1> DEFINE rows == [t \in 1..k |-> Emissions(obs[t], params)]
<1>1. rows = [t \in 1..k |-> rows[t]]
  OBVIOUS
<1>2. _log_gaussian(obs, params) = Row(rows)
  <2>1. DOMAIN obs = 1..k
    OBVIOUS
  <2> QED
    BY <2>1 DEF _log_gaussian
<1> HIDE DEF rows
<1>3. Row(rows) = rows
  BY <1>1, RowIs
<1> QED
  BY <1>2, <1>3 DEF rows

\* A row's densities depend on that row only.
LEMMA EmissionsBegin ==
    ASSUME NEW a, NEW b, NEW m, NEW len, RowsBegin(a, b, m, len), NEW params
    PROVE  RowsBegin(_log_gaussian(a, params), _log_gaussian(b, params), m, len)
<1>1. ASSUME NEW obs, NEW k \in Nat, obs = [t \in 1..k |-> obs[t]]
      PROVE  _log_gaussian(obs, params) = [t \in 1..k |-> Emissions(obs[t], params)]
  BY <1>1, EmissionsAre
<1>2. /\ m \in Nat /\ len \in Nat /\ m <= len
      /\ a = [t \in 1..m |-> a[t]] /\ b = [t \in 1..len |-> b[t]]
      /\ \A t \in 1..m : a[t] = b[t]
  BY DEF RowsBegin
<1>3. /\ _log_gaussian(a, params) = [t \in 1..m |-> Emissions(a[t], params)]
      /\ _log_gaussian(b, params) = [t \in 1..len |-> Emissions(b[t], params)]
  <2>1. m \in Nat /\ len \in Nat
    BY <1>2
  <2>2. _log_gaussian(a, params) = [t \in 1..m |-> Emissions(a[t], params)]
    <3>1. a = [t \in 1..m |-> a[t]]
      BY <1>2
    <3> QED
      BY <1>1, <2>1, <3>1
  <2>3. _log_gaussian(b, params) = [t \in 1..len |-> Emissions(b[t], params)]
    <3>1. b = [t \in 1..len |-> b[t]]
      BY <1>2
    <3> QED
      BY <1>1, <2>1, <3>1
  <2> QED
    BY <2>2, <2>3
<1>4. \A t \in 1..m : t \in 1..len
  BY <1>2
<1> DEFINE ea == _log_gaussian(a, params)
           eb == _log_gaussian(b, params)
<1>5. /\ ea = [t \in 1..m |-> Emissions(a[t], params)]
      /\ eb = [t \in 1..len |-> Emissions(b[t], params)]
  BY <1>3
<1> HIDE DEF ea, eb
<1>6. \A t \in 1..m : ea[t] = eb[t]
  <2>1. \A t \in 1..m : a[t] = b[t]
    BY <1>2
  <2> QED
    BY <1>4, <1>5, <2>1
<1>7. ea = [t \in 1..m |-> ea[t]] /\ eb = [t \in 1..len |-> eb[t]]
  BY <1>5
<1>8. m \in Nat /\ len \in Nat /\ m <= len
  BY <1>2
<1>9. RowsBegin(ea, eb, m, len)
  BY <1>6, <1>7, <1>8 DEF RowsBegin
<1> QED
  BY <1>9 DEF ea, eb

\* The forward recursion has a solution, and _forward is one.
LEMMA ForwardIs ==
    ASSUME NEW params, NEW b, NEW len \in Nat, Len(b) = len
    PROVE  _forward(params, b) =
              [t \in 1..len |-> Weigh(params, b[t],
                  IF t = 1 THEN params.startprob ELSE Reach(params, _forward(params, b)[t - 1]))]
<1> DEFINE row(t, prev) == Weigh(params, b[t],
                                 IF t = 1 THEN params.startprob ELSE Reach(params, prev))
           Solves(f, k) == f = [t \in 1..k |-> row(t, f[t - 1])]
           P == {k \in Nat : \E f : Solves(f, k)}
<1>1. 0 \in P
  <2>1. Solves([t \in 1..0 |-> row(t, t)], 0)
    OBVIOUS
  <2> QED
    BY <2>1
<1>2. ASSUME NEW k \in Nat, k \in P
      PROVE  k + 1 \in P
  <2>1. PICK f : Solves(f, k)
    BY <1>2
  <2> DEFINE g == [t \in 1..(k + 1) |-> row(t, f[t - 1])]
  <2>2. \A t \in 1..k : t \in 1..(k + 1) /\ g[t] = f[t]
    <3> HIDE DEF row
    <3> QED
      BY <2>1
  <2>3. ASSUME NEW t \in 1..(k + 1)
        PROVE  row(t, f[t - 1]) = row(t, g[t - 1])
    <3>1. CASE t = 1
      BY <3>1
    <3>2. CASE t # 1
      <4>1. t - 1 \in 1..k
        BY <3>2, <2>3
      <4>2. g[t - 1] = f[t - 1]
        BY <4>1, <2>2
      <4> HIDE DEF row, g
      <4> QED
        BY <4>2
    <3> QED
      BY <3>1, <3>2
  <2>4. Solves(g, k + 1)
    <3> HIDE DEF row
    <3> QED
      BY <2>3
  <2> HIDE DEF Solves, g
  <2> QED
    BY <2>4
<1>3. len \in P
  <2> HIDE DEF P
  <2> QED
    BY <1>1, <1>2, NumberInduction
<1>4. \E f : Solves(f, len)
  BY <1>3
<1>5. _forward(params, b) = CHOOSE f : Solves(f, len)
  BY DEF _forward
<1> DEFINE forward == CHOOSE f : Solves(f, len)
<1>6. Solves(forward, len)
  <2> HIDE DEF Solves
  <2> QED
    BY <1>4
<1>7. _forward(params, b) = forward
  BY <1>5
<1> HIDE DEF forward
<1> QED
  BY <1>6, <1>7

\* The weights of the states at a row depend on no later row.
LEMMA FilterBegins ==
    ASSUME NEW a, NEW b, NEW m, NEW len, RowsBegin(a, b, m, len), NEW params
    PROVE  RowsBegin(filter_proba(params, a), filter_proba(params, b), m, len)
<1> DEFINE ea == _log_gaussian(a, params)
           eb == _log_gaussian(b, params)
           fa == _forward(params, ea)
           fb == _forward(params, eb)
<1>1. /\ m \in Nat /\ len \in Nat /\ m <= len
      /\ ea = [t \in 1..m |-> ea[t]] /\ eb = [t \in 1..len |-> eb[t]]
      /\ \A t \in 1..m : ea[t] = eb[t]
  <2>1. RowsBegin(ea, eb, m, len)
    BY EmissionsBegin
  <2> HIDE DEF ea, eb
  <2> QED
    BY <2>1 DEF RowsBegin
<1> HIDE DEF ea, eb
<1>2. Len(ea) = m /\ Len(eb) = len
  BY <1>1, RowIs
<1>3. /\ fa = [t \in 1..m |-> Weigh(params, ea[t],
                 IF t = 1 THEN params.startprob ELSE Reach(params, fa[t - 1]))]
      /\ fb = [t \in 1..len |-> Weigh(params, eb[t],
                 IF t = 1 THEN params.startprob ELSE Reach(params, fb[t - 1]))]
  <2>1. m \in Nat /\ len \in Nat
    BY <1>1
  <2>2. fa = [t \in 1..m |-> Weigh(params, ea[t],
                 IF t = 1 THEN params.startprob ELSE Reach(params, fa[t - 1]))]
    BY <1>2, <2>1, ForwardIs
  <2>3. fb = [t \in 1..len |-> Weigh(params, eb[t],
                 IF t = 1 THEN params.startprob ELSE Reach(params, fb[t - 1]))]
    BY <1>2, <2>1, ForwardIs
  <2> HIDE DEF fa, fb
  <2> QED
    BY <2>2, <2>3
<1> HIDE DEF fa, fb
<1> DEFINE P == {t \in Nat : t \in 1..m => fa[t] = fb[t]}
<1>4. \A t \in Nat : t \in P
  <2>1. 0 \in P
    OBVIOUS
  <2>2. ASSUME NEW t \in Nat, t \in P
        PROVE  t + 1 \in P
    <3> SUFFICES ASSUME t + 1 \in 1..m PROVE fa[t + 1] = fb[t + 1]
      OBVIOUS
    <3>0. ea[t + 1] = eb[t + 1]
      BY <1>1
    <3>1. t + 1 \in 1..len /\ (t + 1) - 1 = t /\ ea[t + 1] = eb[t + 1]
      <4>1. m \in Nat /\ len \in Nat /\ m <= len
        BY <1>1
      <4> QED
        BY <4>1, <3>0
    <3>2. t + 1 # 1 => fa[t] = fb[t]
      <4>1. t + 1 # 1 => t \in 1..m
        <5>1. m \in Nat
          BY <1>1
        <5> QED
          BY <5>1
      <4> QED
        BY <4>1, <2>2
    <3> HIDE DEF P
    <3>3. fa[t + 1] = Weigh(params, ea[t + 1],
                            IF t + 1 = 1 THEN params.startprob ELSE Reach(params, fa[t]))
      BY <1>3, <3>1
    <3>4. fb[t + 1] = Weigh(params, eb[t + 1],
                            IF t + 1 = 1 THEN params.startprob ELSE Reach(params, fb[t]))
      BY <1>3, <3>1
    <3>5. CASE t + 1 = 1
      BY <3>1, <3>3, <3>4, <3>5
    <3>6. CASE t + 1 # 1
      BY <3>1, <3>2, <3>3, <3>4, <3>6
    <3> QED
      BY <3>5, <3>6
  <2> HIDE DEF P
  <2> QED
    BY <2>1, <2>2, NumberInduction
<1>5. \A t \in 1..m : fa[t] = fb[t]
  BY <1>4
<1>6. fa = [t \in 1..m |-> fa[t]] /\ fb = [t \in 1..len |-> fb[t]]
  BY <1>3
<1>7. filter_proba(params, a) = fa /\ filter_proba(params, b) = fb
  BY DEF filter_proba, fa, fb, ea, eb
<1> QED
  BY <1>1, <1>5, <1>6, <1>7 DEF RowsBegin

\* A table of k rows.
IsRows(f, k) == k \in Nat /\ f = [t \in 1..k |-> f[t]]

\* The weights and the regimes a view holds, row by row.
LEMMA ViewIs ==
    ASSUME NEW hmm, NEW s, NEW k, IsRows(filter_proba(hmm, Observations(s)), k)
    PROVE  /\ View(hmm, s).proba = filter_proba(hmm, Observations(s))
           /\ View(hmm, s).regimes =
                 [t \in 1..k |-> RegimeOf(hmm, filter_proba(hmm, Observations(s))[t])]
<1> DEFINE p == filter_proba(hmm, Observations(s))
<1>0. k \in Nat /\ p = [t \in 1..k |-> p[t]]
  BY DEF IsRows
<1>1. Row(p) = p
  <2> HIDE DEF p
  <2> QED
    BY <1>0, RowIs
<1> DEFINE regimes == ordered_regimes(hmm, p)
<1>2. View(hmm, s).proba = p /\ View(hmm, s).regimes = Row(regimes)
  BY <1>1 DEF View, ViewFrom, Filtered
<1>3. regimes = [t \in 1..k |-> RegimeOf(hmm, p[t])]
  <2>1. DOMAIN p = 1..k
    BY <1>0
  <2> QED
    BY <2>1 DEF ordered_regimes
<1>4. regimes = [t \in 1..k |-> regimes[t]]
  BY <1>3
<1> HIDE DEF regimes
<1>5. Row(regimes) = regimes
  BY <1>0, <1>4, RowIs
<1> QED
  BY <1>2, <1>3, <1>5

\* Views of the first bars and of all of them: the same on the bars they share.
SharedRows(a, b, m, len) ==
    /\ m \in Nat /\ len \in Nat /\ m <= len
    /\ a.model = b.model
    /\ Begins(a.close, b.close, m, len)
    /\ a.valid = VolWindow..(m - 1) /\ b.valid = VolWindow..(len - 1)
    /\ \A i \in VolWindow..(m - 1) :
          /\ a.proba[RowOf(a, i)] = b.proba[RowOf(b, i)]
          /\ a.regimes[RowOf(a, i)] = b.regimes[RowOf(b, i)]
          /\ a.rv[i] = b.rv[i]

\* Views of a series and of its start share the rows of the start.
LEMMA ViewsBegin ==
    ASSUME NEW short, NEW long, NEW m, NEW len, Begins(short, long, m, len), m > VolWindow,
           NEW hmm
    PROVE  SharedRows(View(hmm, short), View(hmm, long), m, len)
<1> DEFINE a == View(hmm, short)
           b == View(hmm, long)
           pa == filter_proba(hmm, Observations(short))
           pb == filter_proba(hmm, Observations(long))
<1> USE VolWindowAssumption
<1>1. m \in Nat /\ len \in Nat /\ m <= len
  BY DEF Begins
<1>2. RowsBegin(pa, pb, m - VolWindow, len - VolWindow)
  <2>1. m >= VolWindow
    BY <1>1
  <2>2. RowsBegin(Observations(short), Observations(long), m - VolWindow, len - VolWindow)
    BY <2>1, ObservationsBegin
  <2> QED
    BY <2>2, FilterBegins
<1> HIDE DEF pa, pb
<1>4. /\ a.proba = pa /\ a.regimes = [t \in 1..(m - VolWindow) |-> RegimeOf(hmm, pa[t])]
      /\ b.proba = pb /\ b.regimes = [t \in 1..(len - VolWindow) |-> RegimeOf(hmm, pb[t])]
  <2>1. IsRows(pa, m - VolWindow)
    BY <1>2 DEF RowsBegin, IsRows
  <2>2. IsRows(pb, len - VolWindow)
    BY <1>2 DEF RowsBegin, IsRows
  <2>3. a.proba = pa /\ a.regimes = [t \in 1..(m - VolWindow) |-> RegimeOf(hmm, pa[t])]
    BY <2>1, ViewIs DEF pa
  <2>4. b.proba = pb /\ b.regimes = [t \in 1..(len - VolWindow) |-> RegimeOf(hmm, pb[t])]
    BY <2>2, ViewIs DEF pb
  <2> HIDE DEF a, b
  <2> QED
    BY <2>3, <2>4
<1>5. /\ a.model = hmm /\ a.close = short /\ a.valid = regime_features(short).valid
      /\ a.rv = realized_vol(short, VolWindow)
      /\ b.model = hmm /\ b.close = long /\ b.valid = regime_features(long).valid
      /\ b.rv = realized_vol(long, VolWindow)
  BY DEF View, ViewFrom
<1> HIDE DEF a, b
<1>6. a.valid = VolWindow..(m - 1) /\ b.valid = VolWindow..(len - 1)
  BY <1>5, RegimeFeatures
<1>7. \A i : RowOf(a, i) = i - VolWindow + 1 /\ RowOf(b, i) = i - VolWindow + 1
  <2>1. ASSUME NEW k \in Nat, k > VolWindow
        PROVE  Min(VolWindow..(k - 1)) = VolWindow
    BY <2>1, FirstRow
  <2>2. Min(a.valid) = VolWindow
    BY <1>1, <1>6, <2>1
  <2>3. Min(b.valid) = VolWindow
    <3>1. len > VolWindow
      BY <1>1
    <3> QED
      BY <1>1, <1>6, <2>1, <3>1
  <2> QED
    BY <2>2, <2>3 DEF RowOf
<1>8. ASSUME NEW i \in VolWindow..(m - 1)
      PROVE  /\ a.proba[RowOf(a, i)] = b.proba[RowOf(b, i)]
             /\ a.regimes[RowOf(a, i)] = b.regimes[RowOf(b, i)]
             /\ a.rv[i] = b.rv[i]
  <2>1. i - VolWindow + 1 \in 1..(m - VolWindow) /\ i - VolWindow + 1 \in 1..(len - VolWindow)
    BY <1>1, <1>8
  <2>2. pa[i - VolWindow + 1] = pb[i - VolWindow + 1]
    BY <2>1, <1>2 DEF RowsBegin
  <2>3. a.rv[i] = b.rv[i]
    <3>1. /\ SameUpTo(a.rv, b.rv, m) /\ DOMAIN b.rv = VolWindow..(len - 1)
      BY <1>5, RealizedVolCausal
    <3>2. i \in VolWindow..(len - 1) /\ i < m
      BY <1>1, <1>8
    <3> QED
      BY <3>1, <3>2 DEF SameUpTo
  <2>4. a.proba[RowOf(a, i)] = b.proba[RowOf(b, i)]
    BY <1>4, <1>7, <2>2
  <2>5. a.regimes[i - VolWindow + 1] = b.regimes[i - VolWindow + 1]
    BY <1>4, <2>1, <2>2
  <2> QED
    BY <1>7, <2>3, <2>4, <2>5
<1>9. a.model = b.model /\ Begins(a.close, b.close, m, len)
  BY <1>5
<1> QED
  BY <1>1, <1>6, <1>8, <1>9 DEF SharedRows, a, b

\* The strategies' own copies of the accounting give what the sizers' gives.
LEMMA AccountsAre ==
    ASSUME NEW series, NEW w, NEW funding
    PROVE  /\ RegimeAccount(series, w, funding) = _weighted_returns(series, w, funding)
           /\ LongShortAccount(series, w, funding) = _weighted_returns(series, w, funding)
           /\ EnsembleAccount(series, w, funding) = _weighted_returns(series, w, funding)
<1>1. RegimeAccount(series, w, funding) = _weighted_returns(series, w, funding)
  BY Zenon DEF RegimeAccount, _weighted_returns
<1>2. LongShortAccount(series, w, funding) = _weighted_returns(series, w, funding)
  BY Zenon DEF LongShortAccount, _weighted_returns
<1>3. EnsembleAccount(series, w, funding) = _weighted_returns(series, w, funding)
  BY Zenon DEF EnsembleAccount, _weighted_returns
<1> QED
  BY <1>1, <1>2, <1>3

\* Weights that agree give returns that agree.
LEMMA ReturnsContinue ==
    ASSUME NEW short, NEW long, NEW m, NEW len, Begins(short, long, m, len),
           NEW wa, NEW wb, DOMAIN wa = VolWindow..(m - 1), DOMAIN wb = VolWindow..(len - 1),
           \A i \in VolWindow..(m - 1) : wa[i] = wb[i], NEW funding
    PROVE  Continues(_weighted_returns(short, wa, funding), _weighted_returns(long, wb, funding))
<1> USE VolWindowAssumption
<1> DEFINE ra == _weighted_returns(short, wa, funding)
           rb == _weighted_returns(long, wb, funding)
           ia == {i \in DOMAIN wa : i + 1 \in DOMAIN short}
           ib == {i \in DOMAIN wb : i + 1 \in DOMAIN long}
           before(idx, w, i) == IF i - 1 \in idx THEN w[i - 1] ELSE 0
           cost(w, prev) == CostRate * Max({w - prev, prev - w})
           strat(close_, idx, w, i) ==
               w[i] * (close_[i + 1] - close_[i]) - cost(w[i], before(idx, w, i))
                    - w[i] * funding[i + 1]
<1>1. /\ m \in Nat /\ len \in Nat /\ m <= len
      /\ DOMAIN short = 0..(m - 1) /\ DOMAIN long = 0..(len - 1)
      /\ \A t \in 0..(m - 1) : short[t] = long[t]
  BY DEF Begins
<1>2. ia = VolWindow..(m - 2) /\ ib = VolWindow..(len - 2)
  <2>1. ia = {i \in VolWindow..(m - 1) : i + 1 \in 0..(m - 1)}
    BY <1>1
  <2>2. ib = {i \in VolWindow..(len - 1) : i + 1 \in 0..(len - 1)}
    BY <1>1
  <2> HIDE DEF ia, ib
  <2>3. m \in Nat /\ len \in Nat
    BY <1>1
  <2>4. {i \in VolWindow..(m - 1) : i + 1 \in 0..(m - 1)} = VolWindow..(m - 2)
    BY <2>3
  <2>5. {i \in VolWindow..(len - 1) : i + 1 \in 0..(len - 1)} = VolWindow..(len - 2)
    BY <2>3
  <2> QED
    BY <2>1, <2>2, <2>4, <2>5
<1>3. /\ ra.position = [i \in ia |-> wa[i]]
      /\ ra.hold = [i \in ia |-> short[i + 1] - short[i]]
      /\ ra.strat = [i \in ia |-> strat(short, ia, wa, i)]
  BY DEF _weighted_returns, Restrict
<1>4. /\ rb.position = [i \in ib |-> wb[i]]
      /\ rb.hold = [i \in ib |-> long[i + 1] - long[i]]
      /\ rb.strat = [i \in ib |-> strat(long, ib, wb, i)]
  BY DEF _weighted_returns, Restrict
<1> HIDE DEF ra, rb, ia, ib
<1>5. ASSUME NEW i \in ia
      PROVE  /\ i \in ib
             /\ wa[i] = wb[i]
             /\ short[i + 1] - short[i] = long[i + 1] - long[i]
             /\ strat(short, ia, wa, i) = strat(long, ib, wb, i)
  <2>0. m \in Nat /\ len \in Nat /\ m <= len
    BY <1>1
  <2>1. i \in VolWindow..(m - 2) /\ i \in ib /\ i \in VolWindow..(m - 1)
    BY <2>0, <1>2, <1>5
  <2>2. wa[i] = wb[i]
    BY <2>1
  <2>3. i \in 0..(m - 1) /\ i + 1 \in 0..(m - 1)
    BY <2>0, <2>1
  <2>4. short[i] = long[i] /\ short[i + 1] = long[i + 1]
    BY <2>3, <1>1
  <2>5. before(ia, wa, i) = before(ib, wb, i)
    <3>1. i - 1 \in ia <=> i - 1 \in ib
      BY <2>0, <2>1, <1>2
    <3>2. i - 1 \in ia => wa[i - 1] = wb[i - 1]
      <4>1. i - 1 \in ia => i - 1 \in VolWindow..(m - 1)
        BY <2>0, <1>2
      <4> QED
        BY <4>1
    <3> QED
      BY <3>1, <3>2
  <2> HIDE DEF before, cost
  <2> QED
    BY <2>1, <2>2, <2>4, <2>5
<1> HIDE DEF strat
<1>6. IsRestriction(ra.position, rb.position)
  BY <1>3, <1>4, <1>5 DEF IsRestriction
<1>7. IsRestriction(ra.hold, rb.hold)
  BY <1>3, <1>4, <1>5 DEF IsRestriction
<1>8. IsRestriction(ra.strat, rb.strat)
  BY <1>3, <1>4, <1>5 DEF IsRestriction
<1> QED
  BY <1>6, <1>7, <1>8 DEF Continues, ra, rb

\* The run-length recursion has a solution, and fit_predict gives it.
LEMMA BeliefsAre ==
    ASSUME NEW obs, NEW len \in Nat, Len(obs) = len
    PROVE  fit_predict(obs) =
              [t \in 1..len |->
                  Absorb(IF t = 1 THEN Start ELSE fit_predict(obs)[t - 1], obs[t])]
<1> DEFINE row(t, prev) == IF t = 0 THEN Start ELSE Absorb(prev, obs[t])
           Solves(f, k) == f = [t \in 0..k |-> row(t, f[t - 1])]
           P == {k \in Nat : \E f : Solves(f, k)}
<1>1. 0 \in P
  <2> DEFINE g == [t \in 0..0 |-> Start]
  <2>1. Solves(g, 0)
    <3>1. \A t \in 0..0 : t = 0
      OBVIOUS
    <3> HIDE DEF g
    <3>2. g = [t \in 0..0 |-> Start]
      BY DEF g
    <3>3. \A t \in 0..0 : row(t, g[t - 1]) = Start
      BY <3>1
    <3> HIDE DEF row
    <3> QED
      BY <3>2, <3>3
  <2> HIDE DEF Solves, g
  <2> QED
    BY <2>1
<1>2. ASSUME NEW k \in Nat, k \in P
      PROVE  k + 1 \in P
  <2>1. PICK f : Solves(f, k)
    BY <1>2
  <2> DEFINE g == [t \in 0..(k + 1) |-> row(t, f[t - 1])]
  <2>2. \A t \in 0..k : t \in 0..(k + 1) /\ g[t] = f[t]
    <3> HIDE DEF row
    <3> QED
      BY <2>1
  <2>3. ASSUME NEW t \in 0..(k + 1)
        PROVE  row(t, f[t - 1]) = row(t, g[t - 1])
    <3>1. CASE t = 0
      BY <3>1
    <3>2. CASE t # 0
      <4>1. t - 1 \in 0..k
        BY <3>2, <2>3
      <4>2. g[t - 1] = f[t - 1]
        BY <4>1, <2>2
      <4> HIDE DEF row, g
      <4> QED
        BY <4>2
    <3> QED
      BY <3>1, <3>2
  <2>4. Solves(g, k + 1)
    <3> HIDE DEF row
    <3> QED
      BY <2>3
  <2> HIDE DEF Solves, g
  <2> QED
    BY <2>4
<1>3. len \in P
  <2> HIDE DEF P
  <2> QED
    BY <1>1, <1>2, NumberInduction
<1>4. \E f : Solves(f, len)
  BY <1>3
<1> DEFINE belief == CHOOSE f : Solves(f, len)
<1>5. Solves(belief, len)
  <2> HIDE DEF Solves
  <2> QED
    BY <1>4
<1>6. fit_predict(obs) = [t \in 1..len |-> belief[t]]
  BY DEF fit_predict
<1> HIDE DEF belief
<1>7. ASSUME NEW t \in 1..len
      PROVE  belief[t] = Absorb(IF t = 1 THEN Start ELSE fit_predict(obs)[t - 1], obs[t])
  <2>1. t \in 0..len /\ t # 0
    OBVIOUS
  <2>2. belief[t] = row(t, belief[t - 1])
    <3> HIDE DEF row
    <3> QED
      BY <1>5, <2>1
  <2>3. belief[t] = Absorb(belief[t - 1], obs[t])
    BY <2>1, <2>2
  <2>4. CASE t = 1
    <3>1. 0 \in 0..len /\ t - 1 = 0
      BY <2>4
    <3>2. belief[0] = row(0, belief[0 - 1])
      <4> HIDE DEF row
      <4> QED
        BY <1>5, <3>1
    <3>3. belief[t - 1] = Start
      BY <3>1, <3>2
    <3> QED
      BY <2>3, <2>4, <3>3
  <2>5. CASE t # 1
    <3>1. t - 1 \in 1..len
      BY <2>5
    <3>2. fit_predict(obs)[t - 1] = belief[t - 1]
      BY <1>6, <3>1
    <3> QED
      BY <2>3, <2>5, <3>2
  <2> QED
    BY <2>4, <2>5
<1> QED
  BY <1>6, <1>7

\* A belief depends on no later row.
LEMMA BeliefsBegin ==
    ASSUME NEW a, NEW b, NEW m, NEW len, RowsBegin(a, b, m, len)
    PROVE  RowsBegin(fit_predict(a), fit_predict(b), m, len)
<1> DEFINE fa == fit_predict(a)
           fb == fit_predict(b)
<1>1. /\ m \in Nat /\ len \in Nat /\ m <= len
      /\ a = [t \in 1..m |-> a[t]] /\ b = [t \in 1..len |-> b[t]]
      /\ \A t \in 1..m : a[t] = b[t]
  BY DEF RowsBegin
<1>2. m \in Nat /\ len \in Nat /\ m <= len
  BY <1>1
<1>3. Len(a) = m /\ Len(b) = len
  BY <1>1, RowIs
<1>4. fa = [t \in 1..m |-> Absorb(IF t = 1 THEN Start ELSE fa[t - 1], a[t])]
  BY <1>2, <1>3, BeliefsAre
<1>5. fb = [t \in 1..len |-> Absorb(IF t = 1 THEN Start ELSE fb[t - 1], b[t])]
  BY <1>2, <1>3, BeliefsAre
<1> HIDE DEF fa, fb
<1> DEFINE P == {t \in Nat : t \in 1..m => fa[t] = fb[t]}
<1>6. \A t \in Nat : t \in P
  <2>1. 0 \in P
    OBVIOUS
  <2>2. ASSUME NEW t \in Nat, t \in P
        PROVE  t + 1 \in P
    <3> SUFFICES ASSUME t + 1 \in 1..m PROVE fa[t + 1] = fb[t + 1]
      OBVIOUS
    <3>1. t + 1 \in 1..len /\ (t + 1) - 1 = t
      BY <1>2
    <3>2. t + 1 # 1 => fa[t] = fb[t]
      <4>1. t + 1 # 1 => t \in 1..m
        BY <1>2
      <4> QED
        BY <4>1, <2>2
    <3>3. a[t + 1] = b[t + 1]
      BY <1>1
    <3> HIDE DEF P
    <3>4. fa[t + 1] = Absorb(IF t + 1 = 1 THEN Start ELSE fa[t], a[t + 1])
      BY <1>4, <3>1
    <3>5. fb[t + 1] = Absorb(IF t + 1 = 1 THEN Start ELSE fb[t], b[t + 1])
      BY <1>5, <3>1
    <3>6. CASE t + 1 = 1
      BY <3>3, <3>4, <3>5, <3>6
    <3>7. CASE t + 1 # 1
      BY <3>2, <3>3, <3>4, <3>5, <3>7
    <3> QED
      BY <3>6, <3>7
  <2> HIDE DEF P
  <2> QED
    BY <2>1, <2>2, NumberInduction
<1>7. \A t \in 1..m : fa[t] = fb[t]
  BY <1>6
<1>8. fa = [t \in 1..m |-> fa[t]] /\ fb = [t \in 1..len |-> fb[t]]
  BY <1>4, <1>5
<1> HIDE DEF P
<1> QED
  BY <1>2, <1>7, <1>8 DEF RowsBegin, fa, fb

\* Standardised returns are causal: the volatility is that of the bar before.
LEMMA StandardizedCausal ==
    ASSUME NEW short, NEW long, NEW m, NEW len, Begins(short, long, m, len)
    PROVE  /\ SameUpTo(_vol_standardized_returns(short), _vol_standardized_returns(long), m)
           /\ DOMAIN _vol_standardized_returns(long) \subseteq 0..(len - 1)
<1> DEFINE va == realized_vol(short, VolWindow)
           vb == realized_vol(long, VolWindow)
           ra == log_return(short, 1)
           rb == log_return(long, 1)
           finite(r, v) == {t \in DOMAIN r : t - 1 \in DOMAIN v /\ v[t - 1] > 0}
           size(r, v) == IntSqrt(Square(VolWindow * r) \div v)
           value(r, v) == IF r < 0 THEN -size(r, v) ELSE size(r, v)
<1> USE VolWindowAssumption
<1>1. m \in Nat /\ len \in Nat /\ m <= len
  BY DEF Begins
<1>2. SameUpTo(ra, rb, m) /\ DOMAIN rb = 1..(len - 1)
  BY LogReturnCausal, 1 \in Nat \ {0}
<1>3. SameUpTo(va, vb, m) /\ DOMAIN vb = VolWindow..(len - 1)
  BY RealizedVolCausal
<1>4. /\ _vol_standardized_returns(short) = [t \in finite(ra, va) |-> value(ra[t], va[t - 1])]
      /\ _vol_standardized_returns(long) = [t \in finite(rb, vb) |-> value(rb[t], vb[t - 1])]
  BY DEF _vol_standardized_returns
<1> HIDE DEF ra, rb, va, vb, value
<1>5. ASSUME NEW t \in 1..(len - 1), t < m
      PROVE  /\ t \in DOMAIN ra /\ ra[t] = rb[t]
             /\ t - 1 \in DOMAIN va <=> t - 1 \in DOMAIN vb
             /\ t - 1 \in DOMAIN va => va[t - 1] = vb[t - 1]
  <2>1. t - 1 < m
    BY <1>1, <1>5
  <2> QED
    BY <2>1, <1>2, <1>3, <1>5 DEF SameUpTo
<1>6. \A t \in DOMAIN ra : t \in 1..(len - 1) /\ t < m
  BY <1>2 DEF SameUpTo
<1>7. finite(ra, va) = {t \in finite(rb, vb) : t < m}
  BY <1>2, <1>5, <1>6
<1>8. \A t \in finite(ra, va) : value(ra[t], va[t - 1]) = value(rb[t], vb[t - 1])
  BY <1>5, <1>6
<1>9. finite(rb, vb) \subseteq 0..(len - 1)
  BY <1>1, <1>2
<1> HIDE DEF finite
<1> QED
  BY <1>4, <1>7, <1>8, <1>9 DEF SameUpTo

\* The run length of a series counts its bars from this one on.
RunsFrom(series, len, from) ==
    LET z == _vol_standardized_returns(series)
    IN  /\ DOMAIN z = from..(len - 1)
        /\ Standardized(series) = [t \in 1..(len - from) |-> z[from + t - 1]]
        /\ causal_run_length(series) = [i \in 0..(len - 1) |->
              IF i < from THEN Stable
              ELSE MapRunLength(fit_predict(Standardized(series))[i - from + 1])]

\* Where it is defined, that is the first bar with a volatility before it.
LEMMA RunLengthRows ==
    ASSUME NEW series, NEW len \in Nat, DOMAIN series = 0..(len - 1), RunLengthDefined(series)
    PROVE  \E from \in 0..len : RunsFrom(series, len, from)
<1> DEFINE z == _vol_standardized_returns(series)
           rows == DOMAIN z
           from == IF rows = {} THEN len ELSE Min(rows)
           obs == Standardized(series)
           beliefs == fit_predict(obs)
<1>1. Begins(series, series, len, len) /\ Length(series) = len
  BY SeriesLength DEF Begins
<1>2. rows \subseteq 0..(len - 1)
  BY <1>1, StandardizedCausal
<1>3. rows # {} => Min(rows)..(len - 1) \subseteq rows
  BY <1>1 DEF RunLengthDefined
<1>4. obs = [t \in 1..Cardinality(rows) |-> z[Min(rows) + t - 1]]
  BY DEF Standardized, RowsFrom
<1>5. causal_run_length(series) = RunLengths(series, fit_predict(Row(obs)))
  BY DEF causal_run_length
<1> HIDE DEF z, rows, obs
<1>6. ASSUME rows # {}
      PROVE  Min(rows) \in rows /\ \A y \in rows : Min(rows) <= y
  <2>1. rows \in SUBSET Nat /\ rows \in SUBSET Int
    BY <1>2
  <2>2. PICK x \in rows : \A y \in rows : x <= y
    BY <1>6, <2>1, LeastElement
  <2>3. Min(rows) = x
    BY <2>1, <2>2, LeastIs
  <2> QED
    BY <2>2, <2>3
<1>7. from \in 0..len /\ rows = from..(len - 1)
  <2>1. CASE rows = {}
    <3>1. len..(len - 1) = {}
      OBVIOUS
    <3> QED
      BY <2>1, <3>1
  <2>2. CASE rows # {}
    <3>1. Min(rows) \in 0..(len - 1) /\ \A y \in rows : Min(rows) <= y
      BY <1>2, <1>6, <2>2
    <3>2. \A y \in rows : y \in Min(rows)..(len - 1)
      BY <3>1, <1>2
    <3>3. rows = Min(rows)..(len - 1)
      BY <3>2, <1>3, <2>2
    <3> QED
      BY <2>2, <3>1, <3>3
  <2> QED
    BY <2>1, <2>2
<1>8. from = IF rows = {} THEN len ELSE Min(rows)
  OBVIOUS
<1> HIDE DEF from
<1>9. Cardinality(rows) = len - from
  <2>1. from \in Int /\ len - 1 \in Int
    BY <1>7
  <2>2. Cardinality(from..(len - 1)) = IF from > len - 1 THEN 0 ELSE (len - 1) - from + 1
    BY <2>1, FS_Interval
  <2> QED
    BY <1>7, <2>2
<1>10. obs = [t \in 1..(len - from) |-> z[from + t - 1]]
  <2>1. CASE rows = {}
    <3>1. 1..(len - from) = {} /\ Cardinality(rows) = len - from
      BY <1>8, <1>9, <2>1
    <3> QED
      BY <1>4, <3>1
  <2>2. CASE rows # {}
    BY <1>4, <1>8, <1>9, <2>2
  <2> QED
    BY <2>1, <2>2
<1>11. Row(obs) = obs /\ Len(obs) = len - from
  <2>1. obs = [t \in 1..(len - from) |-> obs[t]] /\ len - from \in Nat
    BY <1>7, <1>10
  <2> QED
    BY <2>1, RowIs
<1>12. Len(beliefs) = len - from
  <2>1. len - from \in Nat
    BY <1>7
  <2>2. beliefs = [t \in 1..(len - from) |->
                     Absorb(IF t = 1 THEN Start ELSE beliefs[t - 1], obs[t])]
    BY <2>1, <1>11, BeliefsAre
  <2> HIDE DEF beliefs
  <2>3. beliefs = [t \in 1..(len - from) |-> beliefs[t]]
    BY <2>2
  <2> QED
    BY <2>1, <2>3, RowIs
<1> HIDE DEF beliefs
<1>13. causal_run_length(series) = [i \in 0..(len - 1) |->
            IF i < from THEN Stable ELSE MapRunLength(beliefs[i - from + 1])]
  <2>1. len - (len - from) = from
    BY <1>7
  <2>2. causal_run_length(series) = RunLengths(series, beliefs)
    BY <1>5, <1>11 DEF beliefs
  <2> QED
    BY <2>1, <2>2, <1>1, <1>12 DEF RunLengths
<1>14. /\ DOMAIN z = from..(len - 1)
       /\ obs = [t \in 1..(len - from) |-> z[from + t - 1]]
  BY <1>7, <1>10 DEF rows
<1>15. RunsFrom(series, len, from)
  BY <1>13, <1>14 DEF RunsFrom, z, obs, beliefs
<1> QED
  BY <1>7, <1>15

\* A run length once found stays.
LEMMA RunLengthsContinue ==
    ASSUME NEW short, NEW long, NEW m, NEW len, Begins(short, long, m, len),
           RunLengthDefined(short), RunLengthDefined(long), NEW i \in 0..(m - 1)
    PROVE  causal_run_length(short)[i] = causal_run_length(long)[i]
<1> DEFINE za == _vol_standardized_returns(short)
           zb == _vol_standardized_returns(long)
           oa == Standardized(short)
           ob == Standardized(long)
<1>1. m \in Nat /\ len \in Nat /\ m <= len /\ DOMAIN short = 0..(m - 1) /\ DOMAIN long = 0..(len - 1)
  BY DEF Begins
<1>2. PICK from \in 0..m : RunsFrom(short, m, from)
  BY <1>1, RunLengthRows
<1>2a. /\ DOMAIN za = from..(m - 1)
      /\ oa = [t \in 1..(m - from) |-> za[from + t - 1]]
      /\ causal_run_length(short) = [j \in 0..(m - 1) |->
            IF j < from THEN Stable ELSE MapRunLength(fit_predict(oa)[j - from + 1])]
  BY <1>2 DEF RunsFrom
<1>3. PICK start \in 0..len : RunsFrom(long, len, start)
  BY <1>1, RunLengthRows
<1>3a. /\ DOMAIN zb = start..(len - 1)
      /\ ob = [t \in 1..(len - start) |-> zb[start + t - 1]]
      /\ causal_run_length(long) = [j \in 0..(len - 1) |->
            IF j < start THEN Stable ELSE MapRunLength(fit_predict(ob)[j - start + 1])]
  BY <1>3 DEF RunsFrom
<1>4. SameUpTo(za, zb, m)
  BY StandardizedCausal
<1> HIDE DEF za, zb, oa, ob
<1>5. from..(m - 1) = {t \in start..(len - 1) : t < m}
  BY <1>2, <1>2a, <1>3, <1>3a, <1>4 DEF SameUpTo
<1>6. causal_run_length(short)[i] =
         IF i < from THEN Stable ELSE MapRunLength(fit_predict(oa)[i - from + 1])
  BY <1>2, <1>2a
<1>7. i \in 0..(len - 1)
  BY <1>1
<1>8. causal_run_length(long)[i] =
         IF i < start THEN Stable ELSE MapRunLength(fit_predict(ob)[i - start + 1])
  BY <1>3, <1>3a, <1>7
<1>9. CASE i < from
  <2>1. ~(i \in from..(m - 1)) /\ i < m
    BY <1>1, <1>9
  <2>2. ~(i \in start..(len - 1))
    BY <2>1, <1>5
  <2>3. i < start
    BY <2>2, <1>1, <1>3, <1>3a, <1>7
  <2> QED
    BY <1>6, <1>8, <1>9, <2>3
<1>10. CASE ~(i < from)
  <2>1. from < m /\ from \in from..(m - 1)
    BY <1>1, <1>2, <1>2a, <1>10
  <2>2. from \in start..(len - 1)
    BY <2>1, <1>5
  <2>3. start \in start..(len - 1) /\ start < m
    BY <2>1, <2>2, <1>1, <1>3, <1>3a
  <2>4. start \in from..(m - 1)
    BY <2>3, <1>5
  <2>5. start = from
    BY <2>2, <2>4, <1>2, <1>2a, <1>3, <1>3a
  <2>6. RowsBegin(oa, ob, m - from, len - from)
    <3>1. m - from \in Nat /\ len - from \in Nat /\ m - from <= len - from
      BY <1>1, <1>2, <1>2a
    <3>2. oa = [t \in 1..(m - from) |-> oa[t]] /\ ob = [t \in 1..(len - from) |-> ob[t]]
      BY <1>2, <1>2a, <1>3, <1>3a, <2>5
    <3>3. ASSUME NEW t \in 1..(m - from)
          PROVE  oa[t] = ob[t]
      <4>1. from + t - 1 \in from..(m - 1) /\ t \in 1..(len - from)
        BY <1>1, <1>2, <1>2a, <3>3
      <4>2. za[from + t - 1] = zb[from + t - 1]
        BY <4>1, <1>2, <1>2a, <1>4 DEF SameUpTo
      <4>3. oa[t] = za[from + t - 1]
        BY <1>2, <1>2a, <3>3
      <4>4. ob[t] = zb[from + t - 1]
        BY <1>3, <1>3a, <2>5, <4>1
      <4> QED
        BY <4>2, <4>3, <4>4
    <3> QED
      BY <3>1, <3>2, <3>3 DEF RowsBegin
  <2>7. RowsBegin(fit_predict(oa), fit_predict(ob), m - from, len - from)
    BY <2>6, BeliefsBegin
  <2>8. i - from + 1 \in 1..(m - from)
    BY <1>1, <1>2, <1>2a, <1>10
  <2>9. fit_predict(oa)[i - from + 1] = fit_predict(ob)[i - from + 1]
    BY <2>7, <2>8 DEF RowsBegin
  <2> QED
    BY <1>6, <1>8, <1>10, <2>5, <2>9
<1> QED
  BY <1>9, <1>10

\* What a weight is made of, for the bars two views share.
LEMMA SharedParts ==
    ASSUME NEW a, NEW b, NEW m, NEW len, SharedRows(a, b, m, len),
           NEW i \in VolWindow..(m - 1)
    PROVE  /\ i \in a.valid /\ i \in b.valid
           /\ \A rank : InRegime(a, rank)[i] = InRegime(b, rank)[i]
           /\ InBull(a)[i] = InBull(b)[i]
           /\ a.proba[RowOf(a, i)] = b.proba[RowOf(b, i)]
           /\ a.rv[i] = b.rv[i]
<1>1. i \in a.valid /\ i \in b.valid
  <2>1. m \in Nat /\ len \in Nat /\ m <= len /\ VolWindow \in Nat
    BY VolWindowAssumption DEF SharedRows
  <2>2. i \in VolWindow..(len - 1)
    BY <2>1
  <2> QED
    BY <2>2 DEF SharedRows
<1>2. ASSUME NEW rank
      PROVE  InRegime(a, rank)[i] = InRegime(b, rank)[i]
  <2>1. a.regimes[RowOf(a, i)] = b.regimes[RowOf(b, i)]
    BY DEF SharedRows
  <2>2. /\ InRegime(a, rank)[i] = IF a.regimes[RowOf(a, i)] = rank THEN 1 ELSE 0
        /\ InRegime(b, rank)[i] = IF b.regimes[RowOf(b, i)] = rank THEN 1 ELSE 0
    BY <1>1 DEF InRegime
  <2> QED
    BY <2>1, <2>2
<1>3. InBull(a)[i] = InBull(b)[i]
  BY <1>2 DEF InBull, SharedRows
<1> QED
  BY <1>1, <1>2, <1>3 DEF SharedRows

\* Hence the weight of each strategy, and its returns.
LEMMA StrategyContinues ==
    ASSUME NEW a, NEW b, NEW m, NEW len, SharedRows(a, b, m, len),
           NEW s \in {"regime", "long_short", "vol_target", "conviction", "kelly", "ensemble"},
           s = "ensemble" => RunLengthDefined(a.close) /\ RunLengthDefined(b.close)
    PROVE  Continues(ReturnsOf(s, a), ReturnsOf(s, b))
<1>1. ASSUME NEW wa, NEW wb, DOMAIN wa = a.valid, DOMAIN wb = b.valid,
             \A i \in VolWindow..(m - 1) : wa[i] = wb[i]
      PROVE  Continues(_weighted_returns(a.close, wa, DailyFunding),
                       _weighted_returns(b.close, wb, DailyFunding))
  <2>1. /\ DOMAIN wa = VolWindow..(m - 1) /\ DOMAIN wb = VolWindow..(len - 1)
        /\ Begins(a.close, b.close, m, len)
    BY <1>1 DEF SharedRows
  <2> QED
    BY <1>1, <2>1, ReturnsContinue
<1>2. CASE s = "regime"
  <2>1. \A i \in VolWindow..(m - 1) : RegimeWeight(a)[i] = RegimeWeight(b)[i]
    BY SharedParts DEF RegimeWeight
  <2>2. DOMAIN RegimeWeight(a) = a.valid /\ DOMAIN RegimeWeight(b) = b.valid
    BY DEF RegimeWeight
  <2>3. Continues(causal_regime_returns(a, DailyFunding), causal_regime_returns(b, DailyFunding))
    BY <2>1, <2>2, <1>1, AccountsAre DEF causal_regime_returns
  <2> QED
    BY <1>2, <2>3 DEF ReturnsOf
<1>3. CASE s = "long_short"
  <2> DEFINE w(v) == LongShortWeight(v, TRUE)
  <2>1. \A i \in VolWindow..(m - 1) : w(a)[i] = w(b)[i]
    BY SharedParts DEF LongShortWeight
  <2>2. DOMAIN w(a) = a.valid /\ DOMAIN w(b) = b.valid
    BY DEF LongShortWeight
  <2>3. Continues(causal_long_short_returns(a, DailyFunding, TRUE),
                  causal_long_short_returns(b, DailyFunding, TRUE))
    <3>1. \A v : causal_long_short_returns(v, DailyFunding, TRUE) =
                    _weighted_returns(v.close, w(v), DailyFunding)
      BY Zenon, AccountsAre DEF causal_long_short_returns
    <3> HIDE DEF w
    <3> QED
      BY <2>1, <2>2, <3>1, <1>1
  <2> QED
    BY <1>3, <2>3 DEF ReturnsOf
<1>4. CASE s = "ensemble"
  <2> DEFINE w(v) == EnsembleWeight(v, causal_run_length(v.close))
  <2>1. ASSUME NEW i \in VolWindow..(m - 1)
        PROVE  w(a)[i] = w(b)[i]
    <3>1. Begins(a.close, b.close, m, len)
      BY DEF SharedRows
    <3>2. i \in 0..(m - 1)
      BY VolWindowAssumption DEF SharedRows
    <3>3. causal_run_length(a.close)[i] = causal_run_length(b.close)[i]
      BY <1>4, <3>1, <3>2, RunLengthsContinue
    <3> QED
      BY <3>3, SharedParts DEF EnsembleWeight
  <2>2. DOMAIN w(a) = a.valid /\ DOMAIN w(b) = b.valid
    BY DEF EnsembleWeight
  <2>3. Continues(causal_ensemble_returns(a, DailyFunding, causal_run_length(a.close)),
                  causal_ensemble_returns(b, DailyFunding, causal_run_length(b.close)))
    <3>1. \A v : causal_ensemble_returns(v, DailyFunding, causal_run_length(v.close)) =
                    _weighted_returns(v.close, w(v), DailyFunding)
      BY Zenon, AccountsAre DEF causal_ensemble_returns
    <3> HIDE DEF w
    <3> QED
      BY <2>1, <2>2, <3>1, <1>1
  <2> QED
    BY <1>4, <2>3 DEF ReturnsOf
<1>5. ASSUME NEW conviction \in BOOLEAN
      PROVE  Continues(causal_sized_returns(a, DailyFunding, TargetVol, conviction),
                       causal_sized_returns(b, DailyFunding, TargetVol, conviction))
  <2> DEFINE w(v) == causal_position_weight(v, TargetVol, conviction)
             bull(v) == regime_order(v.model)[Len(v.model.means)]
             size(rv) == IF TargetVol = 0 THEN Scale
                         ELSE IF rv = 0 THEN 0
                         ELSE Clip(IntSqrt(Square(TargetVol * VolWindow) \div rv),
                                   0, Scale * MaxLeverage)
             weight(row, k, rv, inbull) ==
                 IF conviction THEN (row[k] * size(rv)) \div SumFunction(row)
                 ELSE inbull * size(rv)
  <2>1. /\ w(a) = [i \in a.valid |-> weight(a.proba[RowOf(a, i)], bull(a), a.rv[i], InBull(a)[i])]
        /\ w(b) = [i \in b.valid |-> weight(b.proba[RowOf(b, i)], bull(b), b.rv[i], InBull(b)[i])]
    BY DEF causal_position_weight
  <2>2. bull(a) = bull(b)
    BY DEF SharedRows
  <2> HIDE DEF w, weight, bull
  <2>3. ASSUME NEW i \in VolWindow..(m - 1)
        PROVE  w(a)[i] = w(b)[i]
    <3>1. /\ i \in a.valid /\ i \in b.valid /\ InBull(a)[i] = InBull(b)[i] /\ a.rv[i] = b.rv[i]
          /\ a.proba[RowOf(a, i)] = b.proba[RowOf(b, i)]
      BY SharedParts
    <3>2. w(a)[i] = weight(a.proba[RowOf(a, i)], bull(a), a.rv[i], InBull(a)[i])
      BY <2>1, <3>1
    <3>3. w(b)[i] = weight(b.proba[RowOf(b, i)], bull(b), b.rv[i], InBull(b)[i])
      BY <2>1, <3>1
    <3> QED
      BY <2>2, <3>1, <3>2, <3>3
  <2>4. DOMAIN w(a) = a.valid /\ DOMAIN w(b) = b.valid
    BY <2>1
  <2> QED
    BY <2>3, <2>4, <1>1 DEF causal_sized_returns, w
<1>6. CASE s = "vol_target"
  BY <1>5, <1>6 DEF ReturnsOf
<1>7. CASE s = "conviction"
  BY <1>5, <1>7 DEF ReturnsOf
<1>8. CASE s = "kelly"
  <2> DEFINE w(v) == causal_kelly_weight(v)
             weight(hmm, row, rv) ==
                 IF rv = 0 THEN 0 ELSE Clip(KellyRaw(hmm, row, rv), 0, Scale * KellyCap)
  <2>1. /\ w(a) = [i \in a.valid |-> weight(a.model, a.proba[RowOf(a, i)], a.rv[i])]
        /\ w(b) = [i \in b.valid |-> weight(b.model, b.proba[RowOf(b, i)], b.rv[i])]
    BY DEF causal_kelly_weight
  <2>2. a.model = b.model
    BY DEF SharedRows
  <2> HIDE DEF w, weight
  <2>3. ASSUME NEW i \in VolWindow..(m - 1)
        PROVE  w(a)[i] = w(b)[i]
    <3>1. /\ i \in a.valid /\ i \in b.valid /\ a.rv[i] = b.rv[i]
          /\ a.proba[RowOf(a, i)] = b.proba[RowOf(b, i)]
      BY SharedParts
    <3>2. w(a)[i] = weight(a.model, a.proba[RowOf(a, i)], a.rv[i])
      BY <2>1, <3>1
    <3>3. w(b)[i] = weight(b.model, b.proba[RowOf(b, i)], b.rv[i])
      BY <2>1, <3>1
    <3> QED
      BY <2>2, <3>1, <3>2, <3>3
  <2>4. DOMAIN w(a) = a.valid /\ DOMAIN w(b) = b.valid
    BY <2>1
  <2>5. Continues(causal_kelly_returns(a, DailyFunding), causal_kelly_returns(b, DailyFunding))
    BY <2>3, <2>4, <1>1 DEF causal_kelly_returns, w
  <2> QED
    BY <1>8, <2>5 DEF ReturnsOf
<1> QED
  BY <1>2, <1>3, <1>4, <1>6, <1>7, <1>8

\* The inductive invariant: the bars that have arrived are numbered from zero.
SeriesInv == \E len \in Nat \ {0} : DOMAIN close = 0..(len - 1)

\* The last bar of any series revises nothing.
LEMMA SeriesFinal == SeriesInv => PositionsFinal
<1> SUFFICES ASSUME SeriesInv, Warm PROVE PositionsFinal
  BY DEF PositionsFinal
<1>1. PICK len \in Nat \ {0} : DOMAIN close = 0..(len - 1)
  BY DEF SeriesInv
<1>2. Length(close) = len
  BY <1>1, SeriesLength
<1> DEFINE before == Prefix(close, len - 1)
<1>3. len - 1 \in 0..len /\ len \in Nat /\ len - 1 \in Nat
  BY <1>1
<1>4. Begins(before, close, len - 1, len)
  BY <1>1, <1>3, PrefixBegins
<1>5. Length(before) = len - 1
  <2> HIDE DEF before
  <2> QED
    BY <1>4, BeginsTypes
<1>6. ASSUME Length(before) > VolWindow
      PROVE  Unrevised(Strategies(before) \cap Strategies(close),
                       View(model, before), View(model, close))
  <2> DEFINE a == View(model, before)
             b == View(model, close)
  <2> HIDE DEF before
  <2>1. SharedRows(a, b, len - 1, len)
    <3>1. len - 1 > VolWindow
      BY <1>5, <1>6
    <3> QED
      BY <1>4, <3>1, ViewsBegin
  <2>2. a.close = before /\ b.close = close
    BY DEF View, ViewFrom
  <2> HIDE DEF a, b
  <2>3. ASSUME NEW s \in Strategies(before) \cap Strategies(close)
        PROVE  Continues(ReturnsOf(s, a), ReturnsOf(s, b))
    <3>1. s \in {"regime", "long_short", "vol_target", "conviction", "kelly", "ensemble"}
      BY DEF Strategies
    <3>2. s = "ensemble" => RunLengthDefined(before) /\ RunLengthDefined(close)
      BY DEF Strategies
    <3> QED
      BY <2>1, <2>2, <3>1, <3>2, StrategyContinues
  <2> QED
    BY <2>3 DEF Unrevised, a, b
<1>7. ASSUME NEW spec \in Specs
      PROVE  is_causal(spec, close, MaxBars)
  <2>1. spec \in [name : _REGISTRY, param : Nat \ {0}]
    BY StreamAssumption
  <2> QED
    BY <1>1, <1>3, <2>1, CanaryPasses
<1> HIDE DEF before
<1>8. Length(close) - 1 = len - 1
  BY <1>2
<1> QED
  BY <1>2, <1>6, <1>7, <1>8 DEF PositionsFinal, before

\* The first bar is a series.
LEMMA SeriesInit == Init => SeriesInv
<1> SUFFICES ASSUME Init PROVE SeriesInv
  OBVIOUS
<1>1. DOMAIN close = 0..(1 - 1)
  BY DEF Init
<1> QED
  BY <1>1, 1 \in Nat \ {0} DEF SeriesInv

\* A series stays one when a bar arrives.
LEMMA SeriesStep == SeriesInv /\ [Next]_vars => SeriesInv'
<1> SUFFICES ASSUME SeriesInv, [Next]_vars PROVE SeriesInv'
  OBVIOUS
<1>1. PICK len \in Nat \ {0} : DOMAIN close = 0..(len - 1)
  BY DEF SeriesInv
<1>2. CASE ArriveBar
  <2>1. Length(close) = len
    BY <1>1, SeriesLength
  <2>2. PICK step \in Steps : close' = [t \in 0..Length(close) |->
            IF t \in DOMAIN close THEN close[t] ELSE close[t - 1] + step]
    BY <1>2 DEF ArriveBar
  <2>3. DOMAIN close' = 0..((len + 1) - 1) /\ len + 1 \in Nat \ {0}
    BY <1>1, <2>1, <2>2
  <2> QED
    BY <2>3 DEF SeriesInv
<1>3. CASE close' = close
  BY <1>1, <1>3 DEF SeriesInv
<1>4. CASE ~ArriveBar
  <2>1. close' = close
    BY <1>4 DEF Next, BuildFolds, vars, streamVars
  <2> QED
    BY <1>3, <2>1
<1> QED
  BY <1>2, <1>4

\* The bar that arrived last revises nothing: no position and no return, after
\* costs and funding, of any of the six strategies, for an earlier bar; and the
\* canary finds every registered feature causal, wherever it looks.
THEOREM PositionsAreFinal == Spec => []PositionsFinal
<1>1. SeriesInv /\ UNCHANGED vars => SeriesInv'
  BY SeriesStep
<1> QED
  BY SeriesInit, SeriesStep, SeriesFinal, PTL DEF Spec

-----------------------------------------------------------------------------
(* What the weights are made of: numbers in range.                         *)

\* A clipped number is within its bounds.
LEMMA ClipIs ==
    ASSUME NEW x \in Int, NEW low \in Int, NEW high \in Int, low <= high
    PROVE  Clip(x, low, high) \in low..high
<1>1. Min({high, x}) = IF high <= x THEN high ELSE x
  <2> DEFINE S == {high, x}
             y == IF high <= x THEN high ELSE x
  <2>1. S \in SUBSET Int /\ y \in S /\ \A z \in S : y <= z
    OBVIOUS
  <2> HIDE DEF S, y
  <2>2. Min(S) = y
    BY <2>1, LeastIs
  <2> QED
    BY <2>2 DEF S, y
<1> DEFINE y == Min({high, x})
<1>2. y \in Int /\ y <= high
  BY <1>1
<1>3. Clip(x, low, high) = Max({low, y})
  BY DEF Clip
<1> HIDE DEF y
<1> DEFINE S == {low, y}
           top == CHOOSE z \in S : \A v \in S : v <= z
<1>4. \E z \in S : \A v \in S : v <= z
  BY <1>2
<1>5. top \in S /\ \A v \in S : v <= top
  BY <1>4
<1>6. Max(S) = top
  BY DEF Max
<1> HIDE DEF top
<1>7. top \in {low, y} /\ low <= top
  BY <1>5
<1> QED
  BY <1>2, <1>3, <1>6, <1>7

\* The root of a natural number is one.
LEMMA RootIs ==
    ASSUME NEW x \in Nat
    PROVE  IntSqrt(x) \in Nat
<1> DEFINE Root(r, k) == r \in 0..k /\ r * r <= k /\ (r + 1) * (r + 1) > k
           P == {k \in Nat : \E r : Root(r, k)}
<1>1. 0 \in P
  <2>1. Root(0, 0)
    OBVIOUS
  <2> QED
    BY <2>1
<1>2. ASSUME NEW k \in Nat, k \in P
      PROVE  k + 1 \in P
  <2>1. PICK r : Root(r, k)
    BY <1>2
  <2>2. r \in Nat /\ r + 1 \in Nat
    BY <2>1
  <2>3. CASE (r + 1) * (r + 1) > k + 1
    <3>1. Root(r, k + 1)
      BY <2>1, <2>3
    <3> HIDE DEF Root
    <3> QED
      BY <3>1
  <2>4. CASE ~((r + 1) * (r + 1) > k + 1)
    <3>1. (r + 1) * (r + 1) = k + 1
      <4> DEFINE sq == (r + 1) * (r + 1)
      <4>1. sq \in Nat
        BY <2>2, ProductNat
      <4>2. sq > k /\ ~(sq > k + 1)
        BY <2>1, <2>4
      <4> HIDE DEF sq
      <4>3. sq = k + 1
        BY <4>1, <4>2
      <4> QED
        BY <4>3 DEF sq
    <3>2. ((r + 1) + 1) * ((r + 1) + 1) = (r + 1) * (r + 1) + 2 * r + 3
      BY <2>2
    <3>3. r + 1 \in 0..(k + 1)
      BY <2>1
    <3>4. Root(r + 1, k + 1)
      BY <2>2, <3>1, <3>2, <3>3
    <3> HIDE DEF Root
    <3> QED
      BY <3>4
  <2> QED
    BY <2>3, <2>4
<1>3. x \in P
  <2> HIDE DEF P
  <2> QED
    BY <1>1, <1>2, NumberInduction
<1>4. \E r \in 0..x : r * r <= x /\ (r + 1) * (r + 1) > x
  BY <1>3
<1> DEFINE root == CHOOSE r \in 0..x : r * r <= x /\ (r + 1) * (r + 1) > x
<1>5. root \in 0..x
  BY <1>4
<1>6. IntSqrt(x) = root
  BY DEF IntSqrt
<1> HIDE DEF root
<1> QED
  BY <1>5, <1>6

\* A variance is not negative.
LEMMA SquaresBound ==
    ASSUME NEW S, IsFiniteSet(S), NEW f, NEW q,
           \A x \in S : f[x] \in Int /\ q[x] = f[x] * f[x]
    PROVE  Cardinality(S) * SumFunctionOnSet(q, S)
               - SumFunctionOnSet(f, S) * SumFunctionOnSet(f, S) \in Nat
<1> DEFINE A(t) == SumFunctionOnSet(f, t)
           B(t) == SumFunctionOnSet(q, t)
           N(t) == Cardinality(t)
           P == {t \in SUBSET S :
                    /\ A(t) \in Int /\ B(t) \in Int
                    /\ N(t) * B(t) - A(t) * A(t) >= 0
                    /\ \A x \in Int : B(t) - 2 * (x * A(t)) + N(t) * (x * x) >= 0}
<1>0. \A x \in S : f[x] \in Int /\ q[x] = f[x] * f[x] /\ q[x] \in Int
  OBVIOUS
<1>1. {} \in P
  <2>1. A({}) = 0 /\ B({}) = 0 /\ N({}) = 0
    BY SumEmpty, FS_EmptySet
  <2> HIDE DEF A, B, N
  <2> QED
    BY <2>1
<1>2. ASSUME NEW t \in SUBSET S, NEW s \in S \ t, t \in P
      PROVE  t \cup {s} \in P
  <2> DEFINE u == t \cup {s}
             y == f[s]
             a == A(t)
             b == B(t)
             k == N(t)
  <2>1. /\ a \in Int /\ b \in Int /\ k * b - a * a >= 0
        /\ \A x \in Int : b - 2 * (x * a) + k * (x * x) >= 0
    BY <1>2
  <2>2. y \in Int /\ q[s] = y * y /\ q[s] \in Int
    BY <1>0
  <2>3. IsFiniteSet(t) /\ s \notin t
    BY <1>2, FS_Subset
  <2>4. A(u) = a + y /\ B(u) = b + y * y
    <3>1. \A x \in t : f[x] \in Int /\ q[x] \in Int
      BY <1>0
    <3>2. SumFunctionOnSet(f, t \cup {s}) = SumFunctionOnSet(f, t) + f[s]
      BY <2>2, <2>3, <3>1, SumAdd
    <3>3. SumFunctionOnSet(q, t \cup {s}) = SumFunctionOnSet(q, t) + q[s]
      BY <2>2, <2>3, <3>1, SumAdd
    <3> QED
      BY <2>2, <3>2, <3>3
  <2>5. k \in Nat /\ N(u) = k + 1
    BY <2>3, FS_AddElement, FS_CardinalityType
  <2>6. u \in SUBSET S
    BY <1>2
  <2> HIDE DEF A, B, N, y, a, b, k, u
  <2>7. (k + 1) * (b + y * y) - (a + y) * (a + y)
           = (k * b - a * a) + (b - 2 * (y * a) + k * (y * y))
    BY <2>1, <2>2, <2>5
  <2>8. (k + 1) * (b + y * y) - (a + y) * (a + y) >= 0
    <3> DEFINE v == k * b - a * a
               w == b - 2 * (y * a) + k * (y * y)
    <3>1. v \in Int /\ w \in Int /\ v >= 0 /\ w >= 0
      BY <2>1, <2>2, <2>5
    <3> HIDE DEF v, w
    <3>2. v + w >= 0
      BY <3>1
    <3> QED
      BY <2>7, <3>2 DEF v, w
  <2>9. ASSUME NEW x \in Int
        PROVE  (b + y * y) - 2 * (x * (a + y)) + (k + 1) * (x * x) >= 0
    <3> DEFINE v == b - 2 * (x * a) + k * (x * x)
               w == (y - x) * (y - x)
    <3>1. (b + y * y) - 2 * (x * (a + y)) + (k + 1) * (x * x) = v + w
      BY <2>1, <2>2, <2>5
    <3>2. v \in Int /\ v >= 0
      BY <2>1, <2>5
    <3>3. w \in Int /\ w >= 0
      BY <2>2
    <3> HIDE DEF v, w
    <3>4. v + w >= 0
      BY <3>2, <3>3
    <3> QED
      BY <3>1, <3>4
  <2>10. A(u) \in Int /\ B(u) \in Int
    BY <2>1, <2>2, <2>4
  <2>11. N(u) * B(u) - A(u) * A(u) >= 0
    BY <2>4, <2>5, <2>8, Zenon
  <2>12. ASSUME NEW x \in Int
         PROVE  B(u) - 2 * (x * A(u)) + N(u) * (x * x) >= 0
    BY <2>4, <2>5, <2>9, Zenon
  <2>13. u \in P
    BY <2>6, <2>10, <2>11, <2>12, Zenon
  <2> QED
    BY <2>13 DEF u
<1>3. S \in P
  <2> HIDE DEF P
  <2>1. \A t \in SUBSET S : t \in P
    BY <1>1, <1>2, SubsetInduction
  <2> QED
    BY <2>1
<1>4. A(S) \in Int /\ B(S) \in Int /\ N(S) * B(S) - A(S) * A(S) >= 0
  BY <1>3
<1>5. N(S) \in Int
  BY FS_CardinalityType
<1> HIDE DEF A, B, N
<1>6. N(S) * B(S) - A(S) * A(S) \in Nat
  BY <1>4, <1>5
<1> QED
  BY <1>6 DEF A, B, N

\* No window has a negative variance.
LEMMA SpreadIs ==
    ASSUME NEW window \in Nat \ {0}, NEW win \in [0..(window - 1) -> Int]
    PROVE  Spread(win) \in Nat
<1> DEFINE S == 0..(window - 1)
           q == [o \in DOMAIN win |-> Square(win[o])]
<1>1. IsFiniteSet(S) /\ DOMAIN win = S
  BY FS_Interval
<1>2. \A o \in S : win[o] \in Int /\ q[o] = win[o] * win[o]
  BY DEF Square
<1>3. DOMAIN q = S
  BY <1>1
<1>4. Spread(win) = Cardinality(DOMAIN win) * Total(q) - Square(Total(win))
  BY DEF Spread
<1> HIDE DEF q, S
<1>5. Cardinality(S) * SumFunctionOnSet(q, S)
          - SumFunctionOnSet(win, S) * SumFunctionOnSet(win, S) \in Nat
  BY <1>1, <1>2, SquaresBound
<1>6. Total(q) = SumFunctionOnSet(q, S) /\ Total(win) = SumFunctionOnSet(win, S)
  BY <1>1, <1>3 DEF Total, SumFunction
<1> QED
  BY <1>1, <1>4, <1>5, <1>6 DEF Square

\* No bar has a negative volatility.
LEMMA RealizedVolIs ==
    ASSUME NEW len \in Nat, NEW series \in [0..(len - 1) -> Int], NEW window \in Nat \ {0},
           NEW t \in window..(len - 1)
    PROVE  realized_vol(series, window)[t] \in Nat
<1> DEFINE r == log_return(series, 1)
           w == _rolling(r, window)
<1>1. r = [i \in 1..(len - 1) |-> series[i] - series[i - 1]]
  <2>1. Length(series) = len
    BY SeriesLength
  <2> QED
    BY <2>1 DEF log_return
<1>2. \A i \in 1..(len - 1) : r[i] \in Int
  <2>1. \A i \in 1..(len - 1) : i \in 0..(len - 1) /\ i - 1 \in 0..(len - 1)
    OBVIOUS
  <2> QED
    BY <1>1, <2>1
<1>3. DOMAIN w = {i \in 1..(len - 1) : (i - window + 1)..i \subseteq 1..(len - 1)}
  BY <1>1 DEF _rolling
<1>4. t \in DOMAIN w
  <2>1. t \in 1..(len - 1) /\ (t - window + 1)..t \subseteq 1..(len - 1)
    OBVIOUS
  <2> QED
    BY <2>1, <1>3
<1>5. w[t] = [o \in 0..(window - 1) |-> r[t - window + 1 + o]]
  BY <1>4 DEF _rolling
<1> HIDE DEF r, w
<1>6. w[t] \in [0..(window - 1) -> Int]
  <2>1. \A o \in 0..(window - 1) : t - window + 1 + o \in 1..(len - 1)
    OBVIOUS
  <2> QED
    BY <2>1, <1>2, <1>5
<1>7. realized_vol(series, window)[t] = Spread(w[t])
  BY <1>4 DEF realized_vol, w, r
<1> QED
  BY <1>6, <1>7, SpreadIs

\* A density is positive, however many features there are.
LEMMA RowDensityIs ==
    ASSUME NEW x, NEW mean, NEW variance, NEW len \in Nat, Len(x) = len
    PROVE  RowDensity(x, mean, variance) \in Nat \ {0}
<1> DEFINE term(d) == Density(x[d], mean[d], variance[d])
           row(d, prev) == IF d = 0 THEN 1 ELSE prev * term(d)
           Solves(f, k) == f = [d \in 0..k |-> row(d, f[d - 1])]
           P == {k \in Nat : \E f : Solves(f, k)}
<1>1. 0 \in P
  <2> DEFINE g == [d \in 0..0 |-> 1]
  <2>1. \A d \in 0..0 : d = 0
    OBVIOUS
  <2>2. \A d \in 0..0 : row(d, g[d - 1]) = 1
    BY <2>1
  <2>3. Solves(g, 0)
    <3> HIDE DEF row
    <3> QED
      BY <2>2
  <2> HIDE DEF Solves, g
  <2> QED
    BY <2>3
<1>2. ASSUME NEW k \in Nat, k \in P
      PROVE  k + 1 \in P
  <2>1. PICK f : Solves(f, k)
    BY <1>2
  <2> DEFINE g == [d \in 0..(k + 1) |-> row(d, f[d - 1])]
  <2>2. \A d \in 0..k : d \in 0..(k + 1) /\ g[d] = f[d]
    <3> HIDE DEF row
    <3> QED
      BY <2>1
  <2>3. ASSUME NEW d \in 0..(k + 1)
        PROVE  row(d, f[d - 1]) = row(d, g[d - 1])
    <3>1. CASE d = 0
      BY <3>1
    <3>2. CASE d # 0
      <4>1. d - 1 \in 0..k
        BY <3>2, <2>3
      <4>2. g[d - 1] = f[d - 1]
        BY <4>1, <2>2
      <4> HIDE DEF row, g
      <4> QED
        BY <4>2
    <3> QED
      BY <3>1, <3>2
  <2>4. Solves(g, k + 1)
    <3> HIDE DEF row
    <3> QED
      BY <2>3
  <2> HIDE DEF Solves, g
  <2> QED
    BY <2>4
<1>3. len \in P
  <2> HIDE DEF P
  <2> QED
    BY <1>1, <1>2, NumberInduction
<1> DEFINE p == CHOOSE f : Solves(f, len)
<1>4. Solves(p, len)
  <2>1. \E f : Solves(f, len)
    BY <1>3
  <2> HIDE DEF Solves
  <2> QED
    BY <2>1
<1>5. RowDensity(x, mean, variance) = p[len]
  BY DEF RowDensity
<1> HIDE DEF p
<1>6. \A d \in 0..len : p[d] = row(d, p[d - 1])
  <2> HIDE DEF row
  <2> QED
    BY <1>4
<1>7. \A d : term(d) \in {1, 2}
  BY DEF Density
<1> HIDE DEF term
<1> DEFINE Q == {d \in Nat : d \in 0..len => p[d] \in Nat \ {0}}
<1>8. len \in Q
  <2>1. 0 \in Q
    BY <1>6
  <2>2. ASSUME NEW d \in Nat, d \in Q
        PROVE  d + 1 \in Q
    <3> SUFFICES ASSUME d + 1 \in 0..len PROVE p[d + 1] \in Nat \ {0}
      OBVIOUS
    <3>1. p[d] \in Nat \ {0}
      BY <2>2
    <3>2. p[d + 1] = p[d] * term(d + 1)
      <4>1. d + 1 # 0 /\ (d + 1) - 1 = d
        OBVIOUS
      <4> QED
        BY <4>1, <1>6
    <3>3. term(d + 1) = 1 \/ term(d + 1) = 2
      BY <1>7
    <3> QED
      BY <3>1, <3>2, <3>3
  <2> HIDE DEF Q
  <2>3. \A d \in Nat : d \in Q
    BY <2>1, <2>2, NumberInduction
  <2> QED
    BY <2>3
<1>9. len \in 0..len
  OBVIOUS
<1> QED
  BY <1>5, <1>8, <1>9

\* The states of a fitted model.
LEMMA FittedStates ==
    ASSUME NEW params, Fitted(params)
    PROVE  /\ Len(params.means) \in Nat \ {0}
           /\ States(params) = 1..Len(params.means)
           /\ IsFiniteSet(States(params))
           /\ \A k \in States(params) : params.means[k][1] \in Int
<1> DEFINE n_states == Len(params.means)
<1>1. params.means \in Seq(Seq(Int) \ {<<>>}) /\ n_states >= 1
  BY DEF Fitted
<1>2. n_states \in Nat \ {0} /\ States(params) = 1..n_states
  BY <1>1, LenProperties DEF States
<1>3. IsFiniteSet(1..n_states)
  BY <1>2, FS_Interval
<1>4. ASSUME NEW k \in 1..n_states
      PROVE  params.means[k][1] \in Int
  <2>1. params.means[k] \in Seq(Int) /\ params.means[k] # <<>>
    BY <1>1, <1>4, ElementOfSeq
  <2>2. 1 \in 1..Len(params.means[k])
    BY <2>1, LenProperties, EmptySeq
  <2> QED
    BY <2>1, <2>2, ElementOfSeq
<1> QED
  BY <1>2, <1>3, <1>4

\* Weights that are not all zero have a positive sum, which none of them exceeds.
LEMMA DistributionSum ==
    ASSUME NEW n_states \in Nat, NEW row, Distribution(row, n_states)
    PROVE  /\ SumFunction(row) \in Nat \ {0}
           /\ \A k \in 1..n_states : row[k] \in Nat /\ row[k] <= SumFunction(row)
<1>1. /\ row \in [1..n_states -> Nat]
      /\ \A k \in 1..n_states : row[k] \in Nat
  BY DEF Distribution
<1>2. PICK i \in 1..n_states : row[i] > 0
  BY DEF Distribution
<1>3. IsFiniteSet(1..n_states)
  BY FS_Interval
<1>4. SumFunction(row) = SumFunctionOnSet(row, 1..n_states)
  BY <1>1 DEF SumFunction
<1>5. SumFunctionOnSet(row, 1..n_states) \in Nat
  BY <1>1, <1>3, SumNat
<1>6. ASSUME NEW k \in 1..n_states
      PROVE  row[k] <= SumFunctionOnSet(row, 1..n_states)
  <2>1. {} \in SUBSET (1..n_states) /\ k \in (1..n_states) \ {}
    OBVIOUS
  <2>2. SumFunctionOnSet(row, {}) + row[k] <= SumFunctionOnSet(row, 1..n_states)
    BY <1>1, <1>3, <2>1, SumPart
  <2> QED
    BY <1>1, <1>5, <2>2, SumEmpty
<1>7. SumFunctionOnSet(row, 1..n_states) # 0
  BY <1>1, <1>2, <1>5, <1>6
<1> QED
  BY <1>1, <1>4, <1>5, <1>6, <1>7

\* One step of the forward pass keeps them so.
LEMMA ReachIs ==
    ASSUME NEW params, Fitted(params), NEW prev, Distribution(prev, Len(params.means))
    PROVE  Distribution(Reach(params, prev), Len(params.means))
<1> DEFINE K == Len(params.means)
           f(j) == [i \in 1..K |-> prev[i] * params.transmat[i][j]]
           reach == Reach(params, prev)
<1>1. K \in Nat \ {0} /\ States(params) = 1..K /\ IsFiniteSet(1..K)
  BY FittedStates
<1>2. reach = [j \in 1..K |-> SumFunction(f(j))]
  BY <1>1 DEF Reach
<1>3. prev \in [1..K -> Nat] /\ \A i \in 1..K : Distribution(params.transmat[i], K)
  BY DEF Fitted, Distribution
<1>4. PICK i \in 1..K : prev[i] > 0
  BY DEF Distribution
<1>5. PICK j \in 1..K : params.transmat[i][j] > 0
  BY <1>3 DEF Distribution
<1> HIDE DEF K, reach
<1>6. \A h, k \in 1..K : prev[h] \in Nat /\ params.transmat[h][k] \in Nat
  BY <1>3 DEF Distribution
<1>7. ASSUME NEW k \in 1..K
      PROVE  /\ f(k) \in [1..K -> Nat]
             /\ SumFunction(f(k)) = SumFunctionOnSet(f(k), 1..K)
             /\ SumFunction(f(k)) \in Nat
  <2>1. \A h \in 1..K : prev[h] * params.transmat[h][k] \in Nat
    BY <1>6, ProductNat
  <2>2. f(k) \in [1..K -> Nat] /\ DOMAIN f(k) = 1..K
    BY <2>1
  <2>3. SumFunction(f(k)) = SumFunctionOnSet(f(k), 1..K)
    BY <2>2 DEF SumFunction
  <2> HIDE DEF f
  <2>4. \A h \in 1..K : f(k)[h] \in Nat
    BY <2>2
  <2>5. SumFunctionOnSet(f(k), 1..K) \in Nat
    BY <1>1, <2>4, SumNat
  <2> QED
    BY <2>2, <2>3, <2>5
<1>8. f(j)[i] > 0
  <2>1. prev[i] \in Nat \ {0} /\ params.transmat[i][j] \in Nat \ {0}
    BY <1>4, <1>5, <1>6
  <2>2. prev[i] * params.transmat[i][j] > 0
    BY <2>1
  <2> QED
    BY <2>2
<1> HIDE DEF f
<1>9. Distribution(f(j), K)
  BY <1>7, <1>8 DEF Distribution
<1>10. SumFunction(f(j)) # 0
  BY <1>1, <1>9, DistributionSum
<1>11. SumFunction(f(j)) > 0
  BY <1>7, <1>10
<1>12. reach \in [1..K -> Nat] /\ reach[j] > 0
  BY <1>2, <1>7, <1>11
<1>13. Distribution(reach, K)
  BY <1>12 DEF Distribution
<1> QED
  BY <1>13 DEF reach, K

\* Densities are positive, so a distribution weighed by them is one.
LEMMA WeighIs ==
    ASSUME NEW params, Fitted(params), NEW reach, Distribution(reach, Len(params.means)),
           NEW row, NEW x, NEW len \in Nat, Len(x) = len, row = Emissions(x, params)
    PROVE  Distribution(Weigh(params, row, reach), Len(params.means))
<1> DEFINE K == Len(params.means)
           e == [k \in 1..K |-> RowDensity(x, params.means[k], params.variances[k])]
           w == [j \in 1..K |-> row[j] * reach[j]]
<1>1. K \in Nat /\ States(params) = 1..K
  BY FittedStates
<1>2. row = e
  <2>1. row = Row(e)
    BY <1>1 DEF Emissions
  <2>2. e = [k \in 1..K |-> e[k]]
    OBVIOUS
  <2> HIDE DEF e
  <2>3. Row(e) = e
    BY <1>1, <2>2, RowIs
  <2> QED
    BY <2>1, <2>3
<1>3. \A k \in 1..K : row[k] \in Nat \ {0}
  BY <1>2, RowDensityIs
<1>4. Weigh(params, row, reach) = w
  <2>1. Weigh(params, row, reach) = Row(w)
    BY <1>1 DEF Weigh
  <2>2. w = [k \in 1..K |-> w[k]]
    OBVIOUS
  <2> HIDE DEF w
  <2>3. Row(w) = w
    BY <1>1, <2>2, RowIs
  <2> QED
    BY <2>1, <2>3
<1>5. \A k \in 1..K : reach[k] \in Nat
  BY DEF Distribution
<1>6. PICK i \in 1..K : reach[i] > 0
  BY DEF Distribution
<1> HIDE DEF K
<1>7. \A k \in 1..K : row[k] * reach[k] \in Nat
  BY <1>3, <1>5, ProductNat
<1>8. row[i] * reach[i] > 0
  <2>1. row[i] \in Nat \ {0} /\ reach[i] \in Nat \ {0}
    BY <1>3, <1>5, <1>6
  <2> QED
    BY <2>1
<1>9. w \in [1..K -> Nat] /\ w[i] > 0
  BY <1>7, <1>8
<1>10. Distribution(w, K)
  <2> HIDE DEF w
  <2> QED
    BY <1>9 DEF Distribution
<1> QED
  BY <1>4, <1>10 DEF K

\* What the filter says of a row is a distribution over the states.
LEMMA FilterIs ==
    ASSUME NEW params, Fitted(params), NEW len \in Nat,
           NEW obs, obs = [t \in 1..len |-> obs[t]], \A t \in 1..len : Len(obs[t]) \in Nat
    PROVE  /\ filter_proba(params, obs) = [t \in 1..len |-> filter_proba(params, obs)[t]]
           /\ \A t \in 1..len : Distribution(filter_proba(params, obs)[t], Len(params.means))
<1> DEFINE e == _log_gaussian(obs, params)
           f == _forward(params, e)
<1>1. e = [t \in 1..len |-> Emissions(obs[t], params)]
  BY EmissionsAre
<1> HIDE DEF e
<1>2. e = [t \in 1..len |-> e[t]]
  BY <1>1
<1>3. Len(e) = len
  BY <1>2, RowIs
<1>4. f = [t \in 1..len |-> Weigh(params, e[t],
                IF t = 1 THEN params.startprob ELSE Reach(params, f[t - 1]))]
  BY <1>3, ForwardIs
<1>5. ASSUME NEW t \in 1..len
      PROVE  \A reach : Distribution(reach, Len(params.means))
                 => Distribution(Weigh(params, e[t], reach), Len(params.means))
  <2>1. e[t] = Emissions(obs[t], params) /\ Len(obs[t]) \in Nat
    BY <1>1
  <2> QED
    BY <2>1, WeighIs
<1>6. Distribution(params.startprob, Len(params.means))
  BY DEF Fitted
<1> HIDE DEF f
<1> DEFINE P == {t \in Nat : t \in 1..len => Distribution(f[t], Len(params.means))}
<1>7. \A t \in Nat : t \in P
  <2>1. 0 \in P
    OBVIOUS
  <2>2. ASSUME NEW t \in Nat, t \in P
        PROVE  t + 1 \in P
    <3> SUFFICES ASSUME t + 1 \in 1..len PROVE Distribution(f[t + 1], Len(params.means))
      OBVIOUS
    <3>1. f[t + 1] = Weigh(params, e[t + 1],
                           IF t + 1 = 1 THEN params.startprob ELSE Reach(params, f[t]))
      <4>1. (t + 1) - 1 = t
        OBVIOUS
      <4> QED
        BY <4>1, <1>4
    <3>2. CASE t = 0
      <4>1. f[t + 1] = Weigh(params, e[t + 1], params.startprob)
        BY <3>1, <3>2
      <4> QED
        BY <4>1, <1>5, <1>6
    <3>3. CASE t # 0
      <4>1. t \in 1..len /\ t + 1 # 1
        BY <3>3
      <4>2. Distribution(Reach(params, f[t]), Len(params.means))
        BY <4>1, <2>2, ReachIs
      <4>3. f[t + 1] = Weigh(params, e[t + 1], Reach(params, f[t]))
        BY <3>1, <4>1
      <4> QED
        BY <4>2, <4>3, <1>5
    <3> QED
      BY <3>2, <3>3
  <2> HIDE DEF P
  <2> QED
    BY <2>1, <2>2, NumberInduction
<1>8. f = [t \in 1..len |-> f[t]]
  BY <1>4
<1>9. filter_proba(params, obs) = f
  BY DEF filter_proba, f, e
<1>10. \A t \in 1..len : Distribution(f[t], Len(params.means))
  <2>1. \A t \in 1..len : t \in Nat
    OBVIOUS
  <2> QED
    BY <1>7, <2>1
<1> QED
  BY <1>8, <1>9, <1>10

\* Every regime is some state's, the bull one too.
LEMMA BullState ==
    ASSUME NEW params, Fitted(params)
    PROVE  regime_order(params)[Len(params.means)] \in 1..Len(params.means)
<1> DEFINE K == 1..Len(params.means)
           R == {pair \in K \X K : Worse(params, pair[1], pair[2])}
           Ranked(k, r) == Cardinality({j \in K : j = k \/ Worse(params, j, k)}) = r
<1>1. Len(params.means) \in Nat \ {0} /\ States(params) = K /\ IsFiniteSet(K)
  BY FittedStates
<1>2. Cardinality(K) = Len(params.means)
  <2>1. 1 \in Int /\ Len(params.means) \in Int /\ Len(params.means) >= 1
    BY <1>1
  <2>2. Cardinality(K) = IF 1 > Len(params.means) THEN 0 ELSE Len(params.means) - 1 + 1
    BY <2>1, FS_Interval
  <2> QED
    BY <2>1, <2>2
<1>3. StrictlyOrders(R, K)
  <2>1. \A k \in K : params.means[k][1] \in Int
    BY <1>1, FittedStates
  <2>2. K \subseteq Int
    OBVIOUS
  <2>3. \A j, k \in K : <<j, k>> \in R <=> Worse(params, j, k)
    OBVIOUS
  <2> HIDE DEF R, K
  <2> QED
    BY <2>1, <2>2, <2>3 DEF StrictlyOrders, Worse
<1> HIDE DEF R
<1>4. PICK k \in K : Cardinality(UpTo(R, K, k)) = Len(params.means)
  <2>1. Len(params.means) \in 1..Cardinality(K)
    BY <1>1, <1>2
  <2> HIDE DEF K
  <2> QED
    BY <1>1, <1>3, <2>1, RanksOfAnOrder
<1>5. Ranked(k, Len(params.means))
  <2>1. UpTo(R, K, k) = {j \in K : j = k \/ Worse(params, j, k)}
    BY DEF UpTo, R
  <2> QED
    BY <1>4, <2>1
<1> DEFINE bull == CHOOSE k0 \in K : Ranked(k0, Len(params.means))
<1>6. bull \in K
  <2> HIDE DEF Ranked
  <2> QED
    BY <1>5
<1>7. regime_order(params)[Len(params.means)] = bull
  <2>1. Len(params.means) \in K
    BY <1>1
  <2> HIDE DEF K
  <2> QED
    BY <1>1, <2>1 DEF regime_order
<1> HIDE DEF bull
<1> QED
  BY <1>6, <1>7

\* What integer division gives.
LEMMA QuotientIs ==
    ASSUME NEW x \in Int, NEW y \in Nat \ {0}
    PROVE  /\ x \div y \in Int
           /\ x >= 0 => x \div y \in Nat
           /\ y * (x \div y) <= x
  OBVIOUS

\* A share of a quantity is not more than the quantity.
LEMMA ShareIs ==
    ASSUME NEW part \in Nat, NEW whole \in Nat \ {0}, part <= whole, NEW size \in Nat
    PROVE  (part * size) \div whole \in 0..size
<1> DEFINE q == (part * size) \div whole
<1>1. part * size \in Nat
  BY ProductNat
<1>2. q \in Nat /\ whole * q <= part * size
  BY <1>1, QuotientIs
<1> HIDE DEF q
<1>3. (whole - part) * size >= 0
  <2>1. whole - part \in Nat
    OBVIOUS
  <2>2. (whole - part) * size \in Nat
    BY <2>1, ProductNat
  <2> QED
    BY <2>2
<1>4. part * size <= whole * size
  BY <1>3
<1>5. ~(q > size)
  <2> SUFFICES ASSUME q > size PROVE FALSE
    OBVIOUS
  <2>1. PICK more \in Nat \ {0} : q = size + more
    <3>1. q - size \in Nat \ {0} /\ q = size + (q - size)
      BY <1>2
    <3> QED
      BY <3>1
  <2>2. whole * more > 0
    OBVIOUS
  <2>3. whole * q = whole * size + whole * more
    BY <2>1
  <2>4. whole * size \in Int /\ whole * more \in Int /\ part * size \in Int
    OBVIOUS
  <2>5. whole * q > whole * size
    BY <2>2, <2>3, <2>4
  <2>6. whole * size + whole * more <= part * size
    BY <1>2, <2>3
  <2> QED
    BY <1>4, <2>2, <2>4, <2>6
<1> QED
  BY <1>2, <1>5 DEF q

\* What the strategies are given: a fitted model, the warm bars, and for each of
\* them a distribution over the states and a volatility.
SoundView(v, len) ==
    /\ len \in Nat /\ len > VolWindow
    /\ DOMAIN v.close = 0..(len - 1)
    /\ v.valid = VolWindow..(len - 1)
    /\ Fitted(v.model)
    /\ \A i \in VolWindow..(len - 1) :
          Distribution(v.proba[RowOf(v, i)], Len(v.model.means)) /\ v.rv[i] \in Nat

\* What a fitted model makes of any bars is sound.
LEMMA ViewSound ==
    ASSUME NEW hmm, Fitted(hmm), NEW len \in Nat, len > VolWindow,
           NEW series \in [0..(len - 1) -> Int]
    PROVE  SoundView(View(hmm, series), len)
<1> DEFINE v == View(hmm, series)
           fm == regime_features(series)
           obs == Observations(series)
           p == filter_proba(hmm, obs)
<1> USE VolWindowAssumption
<1>1. Begins(series, series, len, len)
  BY DEF Begins
<1>2. fm.valid = VolWindow..(len - 1)
  BY <1>1, RegimeFeatures
<1>3. obs = [t \in 1..(len - VolWindow) |-> fm.values[VolWindow + t - 1]]
  <2>1. len >= VolWindow /\ regime_features(series).valid = VolWindow..(len - 1)
    BY <1>2
  <2> HIDE DEF fm, obs
  <2>2. Observations(series) =
            [t \in 1..(len - VolWindow) |-> regime_features(series).values[VolWindow + t - 1]]
    BY <2>1, ObservationsAre
  <2> QED
    BY <2>2 DEF fm, obs
<1>4. \A t \in fm.valid : Len(fm.values[t]) = 2
  <2> DEFINE specs == <<[name |-> "log_return", param |-> 1],
                        [name |-> "realized_vol", param |-> VolWindow]>>
             row(t) == [k \in DOMAIN specs |-> Compute(specs[k], series)[t]]
  <2>1. fm.values = [t \in fm.valid |-> row(t)]
    BY DEF regime_features, build_features
  <2>2. DOMAIN specs = 1..2
    OBVIOUS
  <2> HIDE DEF specs, fm
  <2>3. \A t : row(t) = [k \in 1..2 |-> row(t)[k]]
    BY <2>2
  <2> HIDE DEF row
  <2>4. \A t : Len(row(t)) = 2
    BY <2>3, RowIs, 2 \in Nat
  <2> QED
    BY <2>1, <2>4
<1> HIDE DEF fm, obs
<1>5. \A t \in 1..(len - VolWindow) : Len(obs[t]) \in Nat
  <2>1. \A t \in 1..(len - VolWindow) : VolWindow + t - 1 \in VolWindow..(len - 1)
    OBVIOUS
  <2> QED
    BY <1>2, <1>3, <1>4, <2>1
<1>6. obs = [t \in 1..(len - VolWindow) |-> obs[t]]
  BY <1>3
<1>7. /\ p = [t \in 1..(len - VolWindow) |-> p[t]]
      /\ \A t \in 1..(len - VolWindow) : Distribution(p[t], Len(hmm.means))
  BY <1>5, <1>6, len - VolWindow \in Nat, FilterIs
<1>8. /\ v.model = hmm /\ v.close = series /\ v.valid = fm.valid
      /\ v.rv = realized_vol(series, VolWindow)
  BY DEF View, ViewFrom, fm
<1>9. v.proba = p
  <2>1. IsRows(filter_proba(hmm, Observations(series)), len - VolWindow)
    <3>1. p = filter_proba(hmm, Observations(series))
      BY DEF obs
    <3> HIDE DEF p
    <3> QED
      BY <1>7, <3>1, len - VolWindow \in Nat DEF IsRows
  <2> QED
    BY <2>1, ViewIs DEF obs
<1> HIDE DEF v, p
<1>10. \A i : RowOf(v, i) = i - VolWindow + 1
  BY <1>2, <1>8, FirstRow DEF RowOf
<1>11. ASSUME NEW i \in VolWindow..(len - 1)
       PROVE  Distribution(v.proba[RowOf(v, i)], Len(v.model.means)) /\ v.rv[i] \in Nat
  <2>1. i - VolWindow + 1 \in 1..(len - VolWindow)
    OBVIOUS
  <2>2. Distribution(p[i - VolWindow + 1], Len(hmm.means))
    BY <1>7, <2>1
  <2>3. v.rv[i] \in Nat
    BY <1>8, RealizedVolIs
  <2> QED
    BY <1>8, <1>9, <1>10, <2>2, <2>3
<1> QED
  BY <1>2, <1>8, <1>11 DEF SoundView, v

\* A weight is held for every warm bar but the last, over the next return.
LEMMA PositionIs ==
    ASSUME NEW v, NEW len, SoundView(v, len), NEW weight, DOMAIN weight = v.valid, NEW funding
    PROVE  LET r == _weighted_returns(v.close, weight, funding)
               rows == CandleIndex(len, VolWindow)
           IN  /\ r.position = [i \in rows |-> weight[i]]
               /\ r.hold = [i \in rows |-> v.close[i + 1] - v.close[i]]
<1> USE VolWindowAssumption
<1>0. /\ len \in Nat /\ DOMAIN v.close = 0..(len - 1)
      /\ DOMAIN weight = VolWindow..(len - 1)
  BY DEF SoundView
<1> DEFINE idx == {i \in DOMAIN weight : i + 1 \in DOMAIN v.close}
<1>1. idx = VolWindow..(len - 2)
  <2>1. idx = {i \in VolWindow..(len - 1) : i + 1 \in 0..(len - 1)}
    BY <1>0
  <2> HIDE DEF idx
  <2>2. {i \in VolWindow..(len - 1) : i + 1 \in 0..(len - 1)} = VolWindow..(len - 2)
    BY <1>0
  <2> QED
    BY <2>1, <2>2
<1>2. LET r == _weighted_returns(v.close, weight, funding)
      IN  /\ r.position = [i \in idx |-> weight[i]]
          /\ r.hold = [i \in idx |-> v.close[i + 1] - v.close[i]]
  BY DEF _weighted_returns, Restrict
<1> QED
  BY <1>1, <1>2 DEF CandleIndex

\* A bar is in a regime or it is not.
LEMMA BullBit ==
    ASSUME NEW v, NEW len, SoundView(v, len), NEW i \in v.valid
    PROVE  /\ InBull(v)[i] = 0 \/ InBull(v)[i] = 1
           /\ \A rank : InRegime(v, rank)[i] = 0 \/ InRegime(v, rank)[i] = 1
  BY DEF InBull, InRegime

\* A volatility target never asks for more than the leverage allowed.
LEMMA SizeIs ==
    ASSUME NEW rv \in Nat
    PROVE  (IF rv = 0 THEN 0
            ELSE Clip(IntSqrt(Square(TargetVol * VolWindow) \div rv), 0, Scale * MaxLeverage))
           \in 0..(Scale * MaxLeverage)
<1>1. Scale * MaxLeverage \in Nat /\ TargetVol * VolWindow \in Nat
  BY StrategyAssumption, VolWindowAssumption, ProductNat
<1>2. CASE rv = 0
  BY <1>1, <1>2
<1>3. CASE rv # 0
  <2>1. Square(TargetVol * VolWindow) \in Nat
    BY <1>1, ProductNat DEF Square
  <2>2. Square(TargetVol * VolWindow) \div rv \in Nat
    BY <1>3, <2>1, QuotientIs
  <2>3. IntSqrt(Square(TargetVol * VolWindow) \div rv) \in Nat
    BY <2>2, RootIs
  <2>4. Clip(IntSqrt(Square(TargetVol * VolWindow) \div rv), 0, Scale * MaxLeverage)
            \in 0..(Scale * MaxLeverage)
    BY <1>1, <2>3, ClipIs
  <2> QED
    BY <1>3, <2>4
<1> QED
  BY <1>2, <1>3

\* The rows of what the sizers compute.
LEMMA SizedWeights ==
    ASSUME NEW v, NEW len, SoundView(v, len), NEW i \in v.valid
    PROVE  /\ causal_position_weight(v, TargetVol, FALSE)[i] # 0 => InBull(v)[i] = 1
           /\ InBull(v)[i] = 1 => causal_position_weight(v, TargetVol, TRUE)[i]
                                     \in 0..causal_position_weight(v, TargetVol, FALSE)[i]
<1> DEFINE bull == regime_order(v.model)[Len(v.model.means)]
           size == IF v.rv[i] = 0 THEN 0
                   ELSE Clip(IntSqrt(Square(TargetVol * VolWindow) \div v.rv[i]), 0,
                             Scale * MaxLeverage)
           row == v.proba[RowOf(v, i)]
<1>1. TargetVol # 0
  BY StrategyAssumption
<1>2. causal_position_weight(v, TargetVol, FALSE)[i] = InBull(v)[i] * size
  BY <1>1 DEF causal_position_weight
<1>3. causal_position_weight(v, TargetVol, TRUE)[i] = (row[bull] * size) \div SumFunction(row)
  BY <1>1 DEF causal_position_weight
<1>4. /\ Fitted(v.model) /\ v.rv[i] \in Nat
      /\ Distribution(row, Len(v.model.means))
  BY DEF SoundView
<1>5. size \in Nat
  <2>1. size \in 0..(Scale * MaxLeverage)
    BY <1>4, SizeIs
  <2> HIDE DEF size
  <2> QED
    BY <2>1
<1>6. bull \in 1..Len(v.model.means)
  BY <1>4, BullState
<1>7. Len(v.model.means) \in Nat
  BY <1>4, FittedStates
<1>8. InBull(v)[i] = 0 \/ InBull(v)[i] = 1
  BY BullBit
<1> HIDE DEF bull, size, row
<1>9. (row[bull] * size) \div SumFunction(row) \in 0..size
  <2>1. SumFunction(row) \in Nat \ {0} /\ row[bull] \in Nat /\ row[bull] <= SumFunction(row)
    BY <1>4, <1>6, <1>7, DistributionSum
  <2> QED
    BY <1>5, <2>1, ShareIs
<1>10. /\ InBull(v)[i] * size # 0 => InBull(v)[i] = 1
       /\ InBull(v)[i] = 1 => InBull(v)[i] * size = size
  <2>1. CASE InBull(v)[i] = 0
    BY <1>5, <2>1
  <2>2. CASE InBull(v)[i] = 1
    BY <1>5, <2>2
  <2> QED
    BY <1>8, <2>1, <2>2
<1> QED
  BY <1>2, <1>3, <1>9, <1>10

\* The weights of each strategy, next to those of the regime strategy.
WeightOf(s, v) ==
    CASE s = "regime"     -> RegimeWeight(v)
      [] s = "long_short" -> LongShortWeight(v, TRUE)
      [] s = "ensemble"   -> EnsembleWeight(v, causal_run_length(v.close))
      [] s = "vol_target" -> causal_position_weight(v, TargetVol, FALSE)
      [] s = "conviction" -> causal_position_weight(v, TargetVol, TRUE)
      [] s = "kelly"      -> causal_kelly_weight(v)
AllStrategies == {"regime", "long_short", "vol_target", "conviction", "kelly", "ensemble"}

\* Every strategy has a position for the same bars, over the same returns.
LEMMA PositionsHeld ==
    ASSUME NEW v, NEW len, SoundView(v, len), NEW s \in AllStrategies
    PROVE  LET rows == CandleIndex(len, VolWindow)
           IN  /\ ReturnsOf(s, v).position = [i \in rows |-> WeightOf(s, v)[i]]
               /\ ReturnsOf(s, v).hold = [i \in rows |-> v.close[i + 1] - v.close[i]]
<1>1. len \in Nat /\ DOMAIN v.close = 0..(len - 1) /\ v.valid = VolWindow..(len - 1)
  BY DEF SoundView
<1>2. ReturnsOf(s, v) = _weighted_returns(v.close, WeightOf(s, v), DailyFunding)
  BY AccountsAre
     DEF AllStrategies, ReturnsOf, WeightOf, causal_regime_returns, causal_long_short_returns,
         causal_ensemble_returns, causal_sized_returns, causal_kelly_returns
<1>3. DOMAIN WeightOf(s, v) = v.valid
  <2>1. /\ DOMAIN RegimeWeight(v) = v.valid
        /\ DOMAIN LongShortWeight(v, TRUE) = v.valid
    BY DEF RegimeWeight, LongShortWeight
  <2>2. DOMAIN EnsembleWeight(v, causal_run_length(v.close)) = v.valid
    BY DEF EnsembleWeight
  <2>3. /\ DOMAIN causal_position_weight(v, TargetVol, FALSE) = v.valid
        /\ DOMAIN causal_position_weight(v, TargetVol, TRUE) = v.valid
    BY DEF causal_position_weight
  <2>4. DOMAIN causal_kelly_weight(v) = v.valid
    BY DEF causal_kelly_weight
  <2> QED
    BY <2>1, <2>2, <2>3, <2>4 DEF AllStrategies, WeightOf
<1> QED
  BY <1>2, <1>3, PositionIs

\* Where each strategy stands next to the regime strategy, bar by bar.
LEMMA WeightsBounded ==
    ASSUME NEW v, NEW len, SoundView(v, len), NEW i \in v.valid
    PROVE  LET base == RegimeWeight(v)[i]
           IN  /\ WeightOf("ensemble", v)[i] \in {0, base}
               /\ WeightOf("long_short", v)[i] \in {-Scale, base}
               /\ WeightOf("vol_target", v)[i] # 0 => base > 0
               /\ base > 0 => WeightOf("conviction", v)[i] \in 0..WeightOf("vol_target", v)[i]
<1>1. RegimeWeight(v)[i] = Scale * InBull(v)[i]
  BY DEF RegimeWeight
<1>2. InBull(v)[i] = 0 \/ InBull(v)[i] = 1
  BY BullBit
<1>3. Scale \in Nat \ {0}
  BY StrategyAssumption
<1>4. WeightOf("ensemble", v)[i] \in {0, RegimeWeight(v)[i]}
  <2>1. WeightOf("ensemble", v) = EnsembleWeight(v, causal_run_length(v.close))
    BY DEF WeightOf
  <2> QED
    BY <1>1, <2>1 DEF EnsembleWeight
<1>5. WeightOf("long_short", v)[i] \in {-Scale, RegimeWeight(v)[i]}
  <2>1. WeightOf("long_short", v) = LongShortWeight(v, TRUE)
    BY DEF WeightOf
  <2> QED
    BY <1>1, <2>1 DEF LongShortWeight
<1>6. /\ WeightOf("vol_target", v) = causal_position_weight(v, TargetVol, FALSE)
      /\ WeightOf("conviction", v) = causal_position_weight(v, TargetVol, TRUE)
  BY DEF WeightOf
<1>7. InBull(v)[i] = 1 <=> RegimeWeight(v)[i] > 0
  BY <1>1, <1>2, <1>3
<1> QED
  BY <1>4, <1>5, <1>6, <1>7, SizedWeights

\* What the strategies hold, next to the regime strategy.
LEMMA ViewBeside ==
    ASSUME NEW v, NEW len, SoundView(v, len), NEW s \in AllStrategies
    PROVE  LET base == ReturnsOf("regime", v)
           IN  /\ DOMAIN ReturnsOf(s, v).position = CandleIndex(len, VolWindow)
               /\ Beside(s, ReturnsOf(s, v), base)
               /\ Certain(base.position, ReturnsOf("vol_target", v).position,
                          ReturnsOf("conviction", v).position)
<1> DEFINE position(t) == ReturnsOf(t, v).position
           hold(t) == ReturnsOf(t, v).hold
           rows == CandleIndex(len, VolWindow)
           weight(t) == WeightOf(t, v)
<1>1. /\ len \in Nat /\ v.valid = VolWindow..(len - 1)
  BY DEF SoundView
<1>2. \A t \in AllStrategies : /\ position(t) = [i \in rows |-> weight(t)[i]]
                               /\ hold(t) = [i \in rows |-> v.close[i + 1] - v.close[i]]
  BY PositionsHeld
<1>3. weight("regime") = RegimeWeight(v)
  BY DEF WeightOf
<1>4. {"regime", "ensemble", "vol_target", "conviction", "kelly", "long_short"} \subseteq AllStrategies
  BY DEF AllStrategies
<1>5. ASSUME NEW i \in rows
      PROVE  i \in v.valid
  <2>1. i \in VolWindow..(len - 2)
    BY <1>5 DEF CandleIndex
  <2>2. VolWindow \in Nat
    BY VolWindowAssumption
  <2> QED
    BY <1>1, <2>1, <2>2
<1>6. ASSUME NEW i \in rows
      PROVE  /\ weight("ensemble")[i] \in {0, RegimeWeight(v)[i]}
             /\ weight("long_short")[i] \in {-Scale, RegimeWeight(v)[i]}
             /\ weight("vol_target")[i] # 0 => RegimeWeight(v)[i] > 0
             /\ RegimeWeight(v)[i] > 0 => weight("conviction")[i] \in 0..weight("vol_target")[i]
  BY <1>5, <1>6, WeightsBounded
<1> HIDE DEF position, weight, rows, hold
<1>7. \A t \in AllStrategies : /\ DOMAIN position(t) = rows
                               /\ \A i \in rows : position(t)[i] = weight(t)[i]
  BY <1>2
<1>8. \A i \in rows : position("regime")[i] = RegimeWeight(v)[i]
  BY <1>3, <1>4, <1>7
<1>9. ASSUME NEW i \in rows
      PROVE  /\ s = "ensemble" => position(s)[i] \in {0, position("regime")[i]}
             /\ s = "long_short" => position(s)[i] \in {-Scale, position("regime")[i]}
             /\ s = "vol_target" => (position(s)[i] # 0 => position("regime")[i] > 0)
  BY <1>6, <1>7, <1>8, <1>9
<1>10. hold(s) = hold("regime")
  BY <1>2, <1>4
<1>11. DOMAIN position("regime") = rows
  BY <1>4, <1>7
<1>12. Beside(s, ReturnsOf(s, v), ReturnsOf("regime", v))
  BY <1>9, <1>10, <1>11 DEF Beside, position, hold
<1>13. ASSUME NEW i \in rows, position("regime")[i] > 0
       PROVE  position("conviction")[i] \in 0..position("vol_target")[i]
  <2>1. weight("conviction")[i] \in 0..weight("vol_target")[i]
    BY <1>6, <1>8, <1>13
  <2>2. /\ position("conviction")[i] = weight("conviction")[i]
        /\ position("vol_target")[i] = weight("vol_target")[i]
    BY <1>4, <1>7
  <2> QED
    BY <2>1, <2>2
<1>14. Certain(position("regime"), position("vol_target"), position("conviction"))
  BY <1>11, <1>13 DEF Certain
<1> QED
  BY <1>7, <1>12, <1>14 DEF position, rows

\* With their extras switched off the strategies are the regime strategy.
LEMMA ViewReduces ==
    ASSUME NEW v, NEW len, SoundView(v, len)
    PROVE  Reduces(v, ReturnsOf("regime", v))
<1>1. ReturnsOf("regime", v) = _weighted_returns(v.close, RegimeWeight(v), DailyFunding)
  BY AccountsAre DEF ReturnsOf, causal_regime_returns
<1>2. causal_long_short_returns(v, DailyFunding, FALSE) = ReturnsOf("regime", v)
  <2>1. LongShortWeight(v, FALSE) = RegimeWeight(v)
    BY DEF LongShortWeight, RegimeWeight
  <2> QED
    BY <1>1, <2>1, AccountsAre DEF causal_long_short_returns
<1>3. causal_ensemble_returns(v, DailyFunding, Confirmed(v)) = ReturnsOf("regime", v)
  <2>1. \A i \in v.valid : Confirmed(v)[i] >= MinRunLength
    BY StrategyAssumption DEF Confirmed
  <2>2. EnsembleWeight(v, Confirmed(v)) = RegimeWeight(v)
    BY <2>1 DEF EnsembleWeight, RegimeWeight
  <2> QED
    BY <1>1, <2>2, AccountsAre DEF causal_ensemble_returns
<1>4. causal_sized_returns(v, DailyFunding, 0, FALSE) = ReturnsOf("regime", v)
  <2>1. ASSUME NEW i \in v.valid
        PROVE  InBull(v)[i] * Scale = Scale * InBull(v)[i]
    <3>1. InBull(v)[i] = 0 \/ InBull(v)[i] = 1
      BY BullBit
    <3>2. Scale \in Nat
      BY StrategyAssumption
    <3> QED
      BY <3>1, <3>2
  <2>2. causal_position_weight(v, 0, FALSE) = [i \in v.valid |-> InBull(v)[i] * Scale]
    BY DEF causal_position_weight
  <2>3. causal_position_weight(v, 0, FALSE) = RegimeWeight(v)
    BY <2>1, <2>2 DEF RegimeWeight
  <2> QED
    BY <1>1, <2>3 DEF causal_sized_returns
<1> QED
  BY <1>2, <1>3, <1>4 DEF Reduces

\* On a sound view the strategies are comparable.
LEMMA ViewsAgree ==
    ASSUME NEW v, NEW len, SoundView(v, len)
    PROVE  Agree(v)
<1>1. Length(v.close) = len
  BY SeriesLength DEF SoundView
<1>2. Strategies(v.close) \subseteq AllStrategies
  BY DEF Strategies, AllStrategies
<1>3. \A s \in Strategies(v.close) :
          /\ DOMAIN ReturnsOf(s, v).position = CandleIndex(Length(v.close), VolWindow)
          /\ Beside(s, ReturnsOf(s, v), ReturnsOf("regime", v))
  BY <1>1, <1>2, ViewBeside
<1>4. "regime" \in AllStrategies
  BY DEF AllStrategies
<1>5. Certain(ReturnsOf("regime", v).position, ReturnsOf("vol_target", v).position,
              ReturnsOf("conviction", v).position)
  BY <1>4, ViewBeside
<1>6. Reduces(v, ReturnsOf("regime", v))
  BY ViewReduces
<1> QED
  BY <1>3, <1>5, <1>6, Zenon DEF Agree

\* Prices are numbers, and a series is evaluated under a fitted model.
StreamInv ==
    /\ \E len \in Nat \ {0} : close \in [0..(len - 1) -> Int]
    /\ task = "stream" => model \in Models

\* So they are on every series of every fitted model.
LEMMA StreamSound == StreamInv => StrategiesAgree
<1> SUFFICES ASSUME StreamInv, Warm PROVE Agree(View(model, close))
  BY DEF StrategiesAgree
<1>1. PICK len \in Nat \ {0} : close \in [0..(len - 1) -> Int]
  BY DEF StreamInv
<1>2. Length(close) = len
  BY <1>1, SeriesLength
<1>3. len \in Nat /\ len > VolWindow /\ Fitted(model)
  BY <1>1, <1>2, StreamAssumption DEF Warm, StreamInv
<1>4. SoundView(View(model, close), len)
  BY <1>1, <1>3, ViewSound
<1> QED
  BY <1>4, ViewsAgree

\* The first bar is a number.
LEMMA StreamInit == Init => StreamInv
<1> SUFFICES ASSUME Init PROVE StreamInv
  OBVIOUS
<1>1. close \in [0..(1 - 1) -> Int]
  <2>1. close = [t \in {0} |-> MaxBars] /\ MaxBars \in Int /\ 0..(1 - 1) = {0}
    BY StreamAssumption DEF Init
  <2> QED
    BY <2>1
<1>2. task = "stream" => model \in Models
  BY DEF Init
<1> QED
  BY <1>1, <1>2, 1 \in Nat \ {0} DEF StreamInv

\* Bars stay numbers, and the model is not exchanged.
LEMMA StreamStep == StreamInv /\ [Next]_vars => StreamInv'
<1> SUFFICES ASSUME StreamInv, [Next]_vars PROVE StreamInv'
  OBVIOUS
<1>1. PICK len \in Nat \ {0} : close \in [0..(len - 1) -> Int]
  BY DEF StreamInv
<1>2. task' = task /\ model' = model
  BY DEF Next, ArriveBar, BuildFolds, vars, streamVars
<1>3. CASE ArriveBar
  <2>1. Length(close) = len
    BY <1>1, SeriesLength
  <2>2. PICK step \in Steps : close' = [t \in 0..Length(close) |->
            IF t \in DOMAIN close THEN close[t] ELSE close[t - 1] + step]
    BY <1>3 DEF ArriveBar
  <2>3. step \in Int
    BY StreamAssumption
  <2>4. ASSUME NEW t \in 0..len
        PROVE  (IF t \in DOMAIN close THEN close[t] ELSE close[t - 1] + step) \in Int
    <3>1. t \in 0..(len - 1) \/ t - 1 \in 0..(len - 1)
      OBVIOUS
    <3>2. CASE t \in 0..(len - 1)
      BY <1>1, <3>2
    <3>3. CASE t \notin 0..(len - 1)
      BY <1>1, <2>3, <3>1, <3>3
    <3> QED
      BY <3>2, <3>3
  <2>5. close' \in [0..len -> Int]
    BY <2>1, <2>2, <2>4
  <2>6. close' \in [0..((len + 1) - 1) -> Int] /\ len + 1 \in Nat \ {0}
    <3>1. (len + 1) - 1 = len /\ len + 1 \in Nat \ {0}
      BY <1>1
    <3> QED
      BY <2>5, <3>1
  <2> QED
    BY <1>2, <2>6 DEF StreamInv
<1>4. CASE ~ArriveBar
  <2>1. close' = close
    BY <1>4 DEF Next, BuildFolds, vars, streamVars
  <2> QED
    BY <1>1, <1>2, <2>1 DEF StreamInv
<1> QED
  BY <1>3, <1>4

\* The strategies are variations of one, whatever the model and the bars: the
\* same bars have a position, the extras switched off leave the regime strategy,
\* the overlay and volatility targeting only hold what it holds, and no weight
\* passes its cap.
THEOREM StrategiesAlwaysAgree == Spec => []StrategiesAgree
<1>1. StreamInv /\ UNCHANGED vars => StreamInv'
  BY StreamStep
<1> QED
  BY StreamInit, StreamStep, StreamSound, PTL DEF Spec

-----------------------------------------------------------------------------
(* The tests of a search: what a trial's size may not change.              *)

IsRatio(a) == a.num \in Int /\ a.den \in Nat \ {0}

\* A sum over a root of squares is a ratio.
LEMMA RatioIs ==
    ASSUME NEW sum \in Int, NEW squares \in Nat
    PROVE  IsRatio(Ratio(sum, squares))
<1>1. sum * sum \in Int /\ -(sum * sum) \in Int
  OBVIOUS
<1> QED
  BY <1>1 DEF Ratio, IsRatio, Sq

\* Zero is a ratio.
LEMMA ZeroIs == IsRatio(Zero) /\ Zero.num = 0 /\ Zero.den = 1
  BY DEF Zero, Ratio, IsRatio

\* The order of ratios is transitive.
LEMMA AtMostTransitive ==
    ASSUME NEW a, NEW b, NEW c, IsRatio(a), IsRatio(b), IsRatio(c),
           RatioAtMost(a, b), RatioAtMost(b, c)
    PROVE  RatioAtMost(a, c)
<1> SUFFICES ASSUME NEW an \in Int, NEW ad \in Nat \ {0}, NEW bn \in Int, NEW bd \in Nat \ {0},
                    NEW cn \in Int, NEW cd \in Nat \ {0}, an * bd <= bn * ad, bn * cd <= cn * bd
             PROVE  an * cd <= cn * ad
  BY DEF IsRatio, RatioAtMost
<1>1. (an * bd) * cd <= (bn * ad) * cd
  OBVIOUS
<1>2. (bn * cd) * ad <= (cn * bd) * ad
  OBVIOUS
<1>3. (bn * ad) * cd = (bn * cd) * ad
  OBVIOUS
<1>4. (an * bd) * cd <= (cn * bd) * ad
  <2>1. (an * bd) * cd \in Int /\ (bn * ad) * cd \in Int /\ (cn * bd) * ad \in Int
    OBVIOUS
  <2> QED
    BY <1>1, <1>2, <1>3, <2>1
<1>5. (an * cd) * bd <= (cn * ad) * bd
  <2>1. (an * bd) * cd = (an * cd) * bd /\ (cn * bd) * ad = (cn * ad) * bd
    OBVIOUS
  <2> QED
    BY <1>4, <2>1
<1> DEFINE x == an * cd
           y == cn * ad
<1>6. x \in Int /\ y \in Int /\ x * bd <= y * bd
  BY <1>5
<1> HIDE DEF x, y
<1>7. x <= y
  <2> SUFFICES ASSUME x > y PROVE FALSE
    BY <1>6
  <2>1. x - y \in Nat \ {0}
    BY <1>6
  <2>2. (x - y) * bd > 0
    BY <2>1
  <2>3. (x - y) * bd = x * bd - y * bd
    BY <1>6
  <2>4. x * bd \in Int /\ y * bd \in Int
    BY <1>6
  <2> QED
    BY <1>6, <2>2, <2>3, <2>4
<1> QED
  BY <1>7 DEF x, y

\* The order of ratios is total.
LEMMA AtMostTotal ==
    ASSUME NEW a, NEW b, IsRatio(a), IsRatio(b)
    PROVE  RatioAtMost(a, b) \/ RatioAtMost(b, a)
<1>1. a.num * b.den \in Int /\ b.num * a.den \in Int
  BY DEF IsRatio
<1> QED
  BY <1>1 DEF RatioAtMost

\* Some ratio of a finite set is the largest.
LEMMA LargestIs ==
    ASSUME NEW S, IsFiniteSet(S), S # {}, \A a \in S : IsRatio(a)
    PROVE  Largest(S) \in S /\ \A c \in S : RatioAtMost(c, Largest(S))
<1> DEFINE Top(t, a) == a \in t /\ \A c \in t : RatioAtMost(c, a)
           P == {t \in SUBSET S : t # {} => \E a : Top(t, a)}
<1>1. {} \in P
  OBVIOUS
<1>2. ASSUME NEW t \in SUBSET S, NEW x \in S \ t, t \in P
      PROVE  t \cup {x} \in P
  <2>1. RatioAtMost(x, x)
    BY AtMostTotal
  <2>2. CASE t = {}
    <3>1. Top(t \cup {x}, x)
      BY <2>1, <2>2
    <3> HIDE DEF Top
    <3> QED
      BY <3>1
  <2>3. CASE t # {}
    <3>1. PICK a : Top(t, a)
      BY <1>2, <2>3
    <3>2. IsRatio(a) /\ IsRatio(x)
      BY <3>1
    <3>3. CASE RatioAtMost(x, a)
      <4>1. Top(t \cup {x}, a)
        BY <3>1, <3>3
      <4> HIDE DEF Top
      <4> QED
        BY <4>1
    <3>4. CASE ~RatioAtMost(x, a)
      <4>1. RatioAtMost(a, x)
        BY <3>2, <3>4, AtMostTotal
      <4>2. \A c \in t : RatioAtMost(c, x)
        BY <3>1, <3>2, <4>1, AtMostTransitive
      <4>3. Top(t \cup {x}, x)
        BY <2>1, <4>2
      <4> HIDE DEF Top
      <4> QED
        BY <4>3
    <3> QED
      BY <3>3, <3>4
  <2> QED
    BY <2>2, <2>3
<1>3. S \in P
  <2> HIDE DEF P
  <2>1. \A t \in SUBSET S : t \in P
    BY <1>1, <1>2, SubsetInduction
  <2> QED
    BY <2>1
<1>4. \E a \in S : \A c \in S : RatioAtMost(c, a)
  BY <1>3
<1> QED
  BY <1>4 DEF Largest

\* Comparing the largest of two sets is comparing their members.
LEMMA LargestAtMost ==
    ASSUME NEW A, IsFiniteSet(A), A # {}, \A a \in A : IsRatio(a),
           NEW B, IsFiniteSet(B), B # {}, \A b \in B : IsRatio(b)
    PROVE  RatioAtMost(Largest(A), Largest(B)) <=> \A a \in A : \E b \in B : RatioAtMost(a, b)
<1>1. Largest(A) \in A /\ \A c \in A : RatioAtMost(c, Largest(A))
  BY LargestIs
<1>2. Largest(B) \in B /\ \A c \in B : RatioAtMost(c, Largest(B))
  BY LargestIs
<1>3. ASSUME RatioAtMost(Largest(A), Largest(B)), NEW a \in A
      PROVE  \E b \in B : RatioAtMost(a, b)
  <2>1. RatioAtMost(a, Largest(B))
    BY <1>1, <1>2, <1>3, AtMostTransitive
  <2> QED
    BY <1>2, <2>1
<1>4. ASSUME \A a \in A : \E b \in B : RatioAtMost(a, b)
      PROVE  RatioAtMost(Largest(A), Largest(B))
  <2>1. PICK b \in B : RatioAtMost(Largest(A), b)
    BY <1>1, <1>4
  <2>2. RatioAtMost(b, Largest(B))
    BY <1>2
  <2> QED
    BY <1>1, <1>2, <2>1, <2>2, AtMostTransitive
<1> QED
  BY <1>3, <1>4

\* The same ratio, or the one that doubling both of its parts twice gives.
Scaled(a, b) ==
    \/ b.num = a.num /\ b.den = a.den
    \/ b.num = 4 * a.num /\ b.den = 4 * a.den
Whole(a) == a.num \in Int /\ a.den \in Int

\* No comparison notices a scale.
LEMMA ScaledCompares ==
    ASSUME NEW a, NEW a2, Whole(a), Scaled(a, a2), NEW b, NEW b2, Whole(b), Scaled(b, b2)
    PROVE  RatioAtMost(a2, b2) <=> RatioAtMost(a, b)
<1>1. a.num * b.den \in Int /\ b.num * a.den \in Int
  BY DEF Whole
<1> DEFINE x == a.num * b.den
           y == b.num * a.den
<1>2. \/ a2.num * b2.den = x /\ b2.num * a2.den = y
      \/ a2.num * b2.den = 4 * x /\ b2.num * a2.den = 4 * y
      \/ a2.num * b2.den = 16 * x /\ b2.num * a2.den = 16 * y
  <2>0. a.num \in Int /\ a.den \in Int /\ b.num \in Int /\ b.den \in Int
    BY DEF Whole
  <2>1. CASE a2.num = a.num /\ a2.den = a.den /\ b2.num = b.num /\ b2.den = b.den
    BY <2>1
  <2>2. CASE a2.num = a.num /\ a2.den = a.den /\ b2.num = 4 * b.num /\ b2.den = 4 * b.den
    BY <2>0, <2>2
  <2>3. CASE a2.num = 4 * a.num /\ a2.den = 4 * a.den /\ b2.num = b.num /\ b2.den = b.den
    BY <2>0, <2>3
  <2>4. CASE a2.num = 4 * a.num /\ a2.den = 4 * a.den /\ b2.num = 4 * b.num /\ b2.den = 4 * b.den
    BY <2>0, <2>4
  <2> HIDE DEF x, y
  <2> QED
    BY <2>1, <2>2, <2>3, <2>4 DEF Scaled
<1>3. x \in Int /\ y \in Int
  BY <1>1
<1>4. RatioAtMost(a, b) <=> x <= y
  BY DEF RatioAtMost
<1> HIDE DEF x, y
<1> QED
  BY <1>2, <1>3, <1>4 DEF RatioAtMost

\* Twice the terms, twice the sum.
LEMMA SumTwice ==
    ASSUME NEW S, IsFiniteSet(S), NEW f, DOMAIN f = S, NEW g, DOMAIN g = S,
           \A x \in S : f[x] \in Int /\ g[x] = 2 * f[x]
    PROVE  SumFunction(f) \in Int /\ SumFunction(g) = 2 * SumFunction(f)
<1>1. SumFunctionOnSet(f, S) \in Int
  BY SumInt
<1>2. SumFunctionOnSet(g, S) = SumFunctionOnSet(f, S) + SumFunctionOnSet(f, S)
  <2>1. \A x \in S : f[x] \in Int /\ f[x] \in Int /\ g[x] = f[x] + f[x]
    OBVIOUS
  <2> QED
    BY <2>1, SumPlus
<1> QED
  BY <1>1, <1>2 DEF SumFunction

\* Four times the terms, four times the sum.
LEMMA SumFourfold ==
    ASSUME NEW S, IsFiniteSet(S), NEW f, DOMAIN f = S, NEW g, DOMAIN g = S,
           \A x \in S : f[x] \in Int /\ g[x] = 4 * f[x]
    PROVE  SumFunction(f) \in Int /\ SumFunction(g) = 4 * SumFunction(f)
<1> DEFINE h == [x \in S |-> 2 * f[x]]
<1>1. \A x \in S : h[x] = 2 * f[x] /\ h[x] \in Int
  OBVIOUS
<1>2. DOMAIN h = S
  OBVIOUS
<1> HIDE DEF h
<1>3. SumFunction(f) \in Int /\ SumFunction(h) = 2 * SumFunction(f)
  BY <1>1, <1>2, SumTwice
<1>4. SumFunction(g) = 2 * SumFunction(h)
  <2>1. \A x \in S : g[x] = 2 * h[x]
    BY <1>1
  <2> QED
    BY <1>1, <1>2, <2>1, SumTwice
<1> QED
  BY <1>3, <1>4

\* Twice the sum over four times the squares is the same ratio, scaled.
LEMMA RatioScaled ==
    ASSUME NEW sum \in Int, NEW squares \in Int
    PROVE  /\ Whole(Ratio(sum, squares))
           /\ Scaled(Ratio(sum, squares), Ratio(2 * sum, 4 * squares))
           /\ Scaled(Ratio(sum, squares), Ratio(sum, squares))
<1>1. sum * sum \in Int /\ (2 * sum) * (2 * sum) = 4 * (sum * sum)
  OBVIOUS
<1> DEFINE sq == sum * sum
<1>2. Sq(sum) = sq /\ Sq(2 * sum) = 4 * sq /\ sq \in Int
  BY <1>1 DEF Sq
<1> HIDE DEF sq
<1>3. CASE squares = 0
  <2>1. 4 * squares = 0
    BY <1>3
  <2> QED
    BY <1>3, <2>1 DEF Ratio, Whole, Scaled
<1>4. CASE squares # 0
  <2>1. 4 * squares # 0 /\ (2 * sum < 0 <=> sum < 0)
    BY <1>4
  <2>2. /\ Ratio(sum, squares).num = IF sum < 0 THEN -sq ELSE sq
        /\ Ratio(sum, squares).den = squares
    BY <1>2, <1>4 DEF Ratio
  <2>3. /\ Ratio(2 * sum, 4 * squares).num = IF sum < 0 THEN -(4 * sq) ELSE 4 * sq
        /\ Ratio(2 * sum, 4 * squares).den = 4 * squares
    BY <1>2, <2>1 DEF Ratio
  <2> QED
    BY <1>2, <2>2, <2>3 DEF Whole, Scaled
<1> QED
  BY <1>3, <1>4

\* The Sharpe ratio of a trial and of the same at twice the size.
LEMMA SharpeDoubled ==
    ASSUME NEW rows, IsFiniteSet(rows), NEW col, \A t \in rows : col[t] \in Int,
           NEW twice, \A t \in rows : twice[t] = 2 * col[t]
    PROVE  /\ Whole(SharpeOver(col, rows))
           /\ Scaled(SharpeOver(col, rows), SharpeOver(twice, rows))
           /\ Scaled(SharpeOver(col, rows), SharpeOver(col, rows))
<1> DEFINE f == Over(col, rows)
           g == Over(twice, rows)
           fsq == [t \in rows |-> Sq(col[t])]
           gsq == [t \in rows |-> Sq(twice[t])]
           count == Cardinality(rows)
           s == SumFunction(f)
           q == SumFunction(fsq)
           squares == count * q - Sq(s)
<1>1. count \in Int
  BY FS_CardinalityType
<1>2. SumFunction(f) \in Int /\ SumFunction(g) = 2 * SumFunction(f)
  <2>1. DOMAIN f = rows /\ DOMAIN g = rows /\ \A t \in rows : f[t] \in Int /\ g[t] = 2 * f[t]
    BY DEF Over
  <2> HIDE DEF f, g
  <2> QED
    BY <2>1, SumTwice
<1>3. SumFunction(fsq) \in Int /\ SumFunction(gsq) = 4 * SumFunction(fsq)
  <2>1. ASSUME NEW t \in rows
        PROVE  fsq[t] \in Int /\ gsq[t] = 4 * fsq[t]
    <3> SUFFICES ASSUME NEW c \in Int, col[t] = c, twice[t] = 2 * c
                 PROVE  Sq(col[t]) \in Int /\ Sq(twice[t]) = 4 * Sq(col[t])
      OBVIOUS
    <3>1. c * c \in Int /\ (2 * c) * (2 * c) = 4 * (c * c)
      OBVIOUS
    <3> QED
      BY <3>1 DEF Sq
  <2>2. DOMAIN fsq = rows /\ DOMAIN gsq = rows
    OBVIOUS
  <2> HIDE DEF fsq, gsq
  <2> QED
    BY <2>1, <2>2, SumFourfold
<1>4. SharpeOver(col, rows) = Ratio(s, squares)
  BY DEF SharpeOver
<1>5. SharpeOver(twice, rows) = Ratio(2 * s, count * (4 * q) - Sq(2 * s))
  BY <1>2, <1>3 DEF SharpeOver
<1>6. s \in Int /\ q \in Int
  BY <1>2, <1>3
<1> HIDE DEF s, q, count
<1>7. squares \in Int /\ count * (4 * q) - Sq(2 * s) = 4 * squares
  <2>1. count * q \in Int /\ s * s \in Int
    BY <1>1, <1>6
  <2>2. count * (4 * q) = 4 * (count * q) /\ (2 * s) * (2 * s) = 4 * (s * s)
    BY <1>1, <1>6
  <2> QED
    BY <2>1, <2>2 DEF Sq
<1> HIDE DEF squares
<1> QED
  BY <1>4, <1>5, <1>6, <1>7, RatioScaled

\* A Sharpe ratio is a ratio.
LEMMA SharpeIs ==
    ASSUME NEW rows, IsFiniteSet(rows), NEW col, \A t \in rows : col[t] \in Int
    PROVE  IsRatio(SharpeOver(col, rows))
<1> DEFINE f == Over(col, rows)
           q == [t \in rows |-> Sq(col[t])]
           squares == Cardinality(rows) * SumFunction(q) - Sq(SumFunction(f))
<1>1. \A t \in rows : f[t] \in Int /\ q[t] = f[t] * f[t]
  BY DEF Over, Sq
<1>2. DOMAIN f = rows /\ DOMAIN q = rows
  BY DEF Over
<1>3. SharpeOver(col, rows) = Ratio(SumFunction(f), squares)
  BY DEF SharpeOver
<1> HIDE DEF f, q
<1>4. SumFunctionOnSet(f, rows) \in Int
  BY <1>1, SumInt
<1>5. Cardinality(rows) * SumFunctionOnSet(q, rows)
          - SumFunctionOnSet(f, rows) * SumFunctionOnSet(f, rows) \in Nat
  BY <1>1, SquaresBound
<1>6. SumFunction(f) = SumFunctionOnSet(f, rows) /\ SumFunction(q) = SumFunctionOnSet(q, rows)
  BY <1>2 DEF SumFunction
<1>7. squares \in Nat /\ SumFunction(f) \in Int
  BY <1>4, <1>5, <1>6 DEF Sq
<1> HIDE DEF squares
<1> QED
  BY <1>3, <1>7, RatioIs

\* Performances that compare the same way.
SamePerformance(p, p2) ==
    /\ DOMAIN p2 = DOMAIN p
    /\ \A j \in DOMAIN p : IsRatio(p[j]) /\ Scaled(p[j], p2[j])

\* Performances that differ by scale compare alike.
LEMMA SameCompares ==
    ASSUME NEW p, NEW p2, SamePerformance(p, p2)
    PROVE  /\ \A j, k \in DOMAIN p : RatioAtMost(p2[j], p2[k]) <=> RatioAtMost(p[j], p[k])
           /\ \A k \in DOMAIN p : p2[k].num < 0 <=> p[k].num < 0
<1>1. \A j \in DOMAIN p : Whole(p[j]) /\ Scaled(p[j], p2[j])
  BY DEF SamePerformance, IsRatio, Whole
<1>2. \A k \in DOMAIN p : p2[k].num < 0 <=> p[k].num < 0
  BY <1>1 DEF Scaled, Whole
<1> QED
  BY <1>1, <1>2, ScaledCompares

\* So they have the same winner and the same ranks.
LEMMA SameWinner ==
    ASSUME NEW p, NEW p2, SamePerformance(p, p2)
    PROVE  /\ Best(p2) = Best(p)
           /\ \A k \in DOMAIN p : TwiceRank(p2, k) = TwiceRank(p, k)
<1>1. DOMAIN p2 = DOMAIN p
  BY DEF SamePerformance
<1>2. \A j, k \in DOMAIN p : RatioAtMost(p2[j], p2[k]) <=> RatioAtMost(p[j], p[k])
  BY SameCompares
<1>3. {k \in DOMAIN p2 : \A j \in DOMAIN p2 : RatioAtMost(p2[j], p2[k])}
        = {k \in DOMAIN p : \A j \in DOMAIN p : RatioAtMost(p[j], p[k])}
  BY <1>1, <1>2
<1>4. ASSUME NEW k \in DOMAIN p
      PROVE  TwiceRank(p2, k) = TwiceRank(p, k)
  <2> DEFINE below(q) == {j \in DOMAIN q : RatioAtMost(q[j], q[k])}
             equal(q) == {j \in below(q) : RatioAtMost(q[k], q[j])}
  <2>1. below(p2) = below(p)
    BY <1>1, <1>2
  <2>2. equal(p2) = equal(p)
    <3>1. \A j \in below(p) : j \in DOMAIN p
      OBVIOUS
    <3> HIDE DEF below
    <3> QED
      BY <1>2, <2>1, <3>1
  <2>3. \A q : TwiceRank(q, k) = 2 * Cardinality(below(q)) - Cardinality(equal(q)) + 1
    BY DEF TwiceRank
  <2> HIDE DEF below, equal
  <2> QED
    BY <2>1, <2>2, <2>3
<1> QED
  BY <1>3, <1>4 DEF Best

\* A function has finitely many values on a finite set.
LEMMA FiniteImage ==
    ASSUME NEW S, IsFiniteSet(S), NEW f
    PROVE  IsFiniteSet({f[x] : x \in S})
<1> DEFINE g == [x \in S |-> f[x]]
           T == {f[x] : x \in S}
<1>1. g \in Surjection(S, T)
  BY DEF Surjection
<1> HIDE DEF g, T
<1>2. IsFiniteSet(T)
  BY <1>1, FS_Surjection
<1> QED
  BY <1>2 DEF T

\* Some trial is the best.
LEMMA BestIs ==
    ASSUME NEW len \in Nat \ {0}, NEW p, DOMAIN p = 1..len, \A j \in 1..len : IsRatio(p[j])
    PROVE  Best(p) \in 1..len
<1> DEFINE S == {p[j] : j \in 1..len}
           W == {k \in 1..len : \A j \in 1..len : RatioAtMost(p[j], p[k])}
<1>1. IsFiniteSet(S)
  <2>1. IsFiniteSet(1..len)
    BY FS_Interval
  <2> QED
    BY <2>1, FiniteImage
<1>2. S # {} /\ \A a \in S : IsRatio(a)
  <2>1. p[1] \in S
    OBVIOUS
  <2> QED
    BY <2>1
<1>3. Largest(S) \in S /\ \A c \in S : RatioAtMost(c, Largest(S))
  <2> HIDE DEF S
  <2> QED
    BY <1>1, <1>2, LargestIs
<1>4. PICK k \in 1..len : Largest(S) = p[k]
  BY <1>3
<1>5. k \in W
  BY <1>3, <1>4
<1>6. W \in SUBSET Nat /\ W # {}
  BY <1>5
<1>7. PICK least \in W : \A y \in W : least <= y
  <2> HIDE DEF W
  <2> QED
    BY <1>6, LeastElement
<1>8. Min(W) = least
  <2>1. W \in SUBSET Int
    BY <1>6
  <2> HIDE DEF W
  <2> QED
    BY <1>7, <2>1, LeastIs
<1>9. Best(p) = Min(W)
  BY DEF Best
<1> QED
  BY <1>7, <1>8, <1>9

\* The performance matrix: at least one trial, all of the same length.
Matrix(d, len) ==
    /\ len \in Nat /\ d \in Seq(Seq(Int)) /\ Len(d) \in Nat \ {0}
    /\ \A j \in 1..Len(d) : Len(d[j]) = len

\* The columns of a performance matrix.
LEMMA MatrixIs ==
    ASSUME NEW d, NEW len, Matrix(d, len)
    PROVE  /\ Len(d) \in Nat \ {0} /\ DOMAIN d = 1..Len(d)
           /\ \A j \in 1..Len(d) : d[j] \in [1..len -> Int] /\ Len(d[j]) = len
<1>1. d \in Seq(Seq(Int)) /\ DOMAIN d = 1..Len(d) /\ Len(d) \in Nat \ {0}
  BY LenProperties DEF Matrix
<1>2. ASSUME NEW j \in 1..Len(d)
      PROVE  d[j] \in [1..len -> Int] /\ Len(d[j]) = len
  <2>1. d[j] \in Seq(Int) /\ Len(d[j]) = len
    BY <1>1, <1>2, ElementOfSeq DEF Matrix
  <2> QED
    BY <2>1, LenProperties
<1> QED
  BY <1>1, <1>2

\* A trial at twice the size is one of the same length, and leaves the others.
DoubledAt(d, d2, k, len) ==
    /\ Len(d2) = Len(d) /\ DOMAIN d2 = DOMAIN d
    /\ Len(d2[1]) = Len(d[1])
    /\ \A j \in DOMAIN d : DOMAIN d2[j] = 1..len
    /\ \A j \in DOMAIN d : j # k => d2[j] = d[j]
    /\ \A t \in 1..len : d2[k][t] = 2 * d[k][t]

\* Doubling a trial changes its column and no other.
LEMMA DoubledIs ==
    ASSUME NEW d, NEW len, Matrix(d, len), NEW k \in DOMAIN d
    PROVE  DoubledAt(d, Doubled(d, k), k, len)
<1> DEFINE twice == [t \in DOMAIN d[k] |-> 2 * d[k][t]]
           d2 == Doubled(d, k)
<1>1. /\ Len(d) \in Nat \ {0} /\ DOMAIN d = 1..Len(d) /\ len \in Nat
      /\ \A j \in 1..Len(d) : d[j] \in [1..len -> Int] /\ Len(d[j]) = len
  BY MatrixIs DEF Matrix
<1>2. d2 = [d EXCEPT ![k] = twice]
  BY DEF Doubled
<1>3. /\ DOMAIN twice = 1..len /\ \A t \in 1..len : twice[t] = 2 * d[k][t]
      /\ twice = [t \in 1..len |-> twice[t]]
  BY <1>1
<1> HIDE DEF twice
<1>4. Len(twice) = len
  BY <1>1, <1>3, RowIs
<1>5. d = [j \in 1..Len(d) |-> d[j]]
  BY MatrixIs DEF Matrix
<1> HIDE DEF d2
<1>6. /\ DOMAIN d2 = 1..Len(d) /\ d2 = [j \in 1..Len(d) |-> d2[j]]
      /\ d2[k] = twice /\ \A j \in 1..Len(d) : j # k => d2[j] = d[j]
  BY <1>1, <1>2, <1>5
<1>7. Len(d2) = Len(d)
  BY <1>1, <1>6, RowIs
<1>8. \A j \in 1..Len(d) : Len(d2[j]) = len /\ DOMAIN d2[j] = 1..len
  BY <1>1, <1>3, <1>4, <1>6
<1>9. Len(d2[1]) = Len(d[1])
  BY <1>1, <1>8
<1> QED
  BY <1>1, <1>3, <1>6, <1>7, <1>8, <1>9 DEF DoubledAt, d2

\* On any blocks, doubling a trial changes no comparison.
LEMMA PerformanceDoubled ==
    ASSUME NEW d, NEW len, Matrix(d, len), NBlocks # 0, NEW k \in DOMAIN d, NEW blocks
    PROVE  /\ DOMAIN Performance(d, blocks) = 1..Len(d)
           /\ SamePerformance(Performance(d, blocks), Performance(Doubled(d, k), blocks))
<1> DEFINE d2 == Doubled(d, k)
           block_len == len \div NBlocks
           rows == {t \in 1..(block_len * NBlocks) : (t - 1) \div block_len \in blocks}
<1>1. DoubledAt(d, d2, k, len)
  BY DoubledIs
<1>2. /\ Len(d) \in Nat \ {0} /\ DOMAIN d = 1..Len(d) /\ len \in Nat
      /\ \A j \in 1..Len(d) : d[j] \in [1..len -> Int] /\ Len(d[j]) = len
  BY MatrixIs DEF Matrix
<1>3. Len(d[1]) = len /\ Len(d2[1]) = len
  BY <1>1, <1>2 DEF DoubledAt
<1>4. IsFiniteSet(rows) /\ rows \subseteq 1..len
  <2>1. NBlocks \in Nat \ {0}
    BY TestsAssumption
  <2>2. block_len \in Nat /\ NBlocks * block_len <= len
    <3>1. len \in Int /\ len >= 0
      BY <1>2
    <3> QED
      BY <2>1, <3>1, QuotientIs
  <2> HIDE DEF block_len
  <2>3. block_len * NBlocks \in Int /\ block_len * NBlocks <= len
    BY <2>1, <2>2
  <2>4. rows \subseteq 1..len
    BY <1>2, <2>3
  <2>5. IsFiniteSet(1..len)
    BY <1>2, FS_Interval
  <2> HIDE DEF rows
  <2> QED
    BY <2>4, <2>5, FS_Subset
<1>5. /\ Performance(d, blocks) = [j \in DOMAIN d |-> SharpeOver(d[j], rows)]
      /\ Performance(d2, blocks) = [j \in DOMAIN d2 |-> SharpeOver(d2[j], rows)]
  BY <1>3 DEF Performance
<1> HIDE DEF rows, d2
<1>6. ASSUME NEW j \in DOMAIN d
      PROVE  /\ IsRatio(SharpeOver(d[j], rows))
             /\ Scaled(SharpeOver(d[j], rows), SharpeOver(d2[j], rows))
  <2>1. \A t \in rows : d[j][t] \in Int
    BY <1>2, <1>4, <1>6
  <2>2. IsRatio(SharpeOver(d[j], rows))
    BY <1>4, <2>1, SharpeIs
  <2>3. CASE j = k
    <3>1. \A t \in rows : d2[j][t] = 2 * d[j][t]
      BY <1>1, <1>4, <2>3 DEF DoubledAt
    <3> QED
      BY <1>4, <2>1, <2>2, <3>1, SharpeDoubled
  <2>4. CASE j # k
    <3>1. d2[j] = d[j]
      BY <1>1, <1>6, <2>4 DEF DoubledAt
    <3> QED
      BY <2>2, <3>1 DEF Scaled
  <2> QED
    BY <2>3, <2>4, <2>2
<1>7. DOMAIN d2 = DOMAIN d
  BY <1>1 DEF DoubledAt
<1>8. SamePerformance(Performance(d, blocks), Performance(d2, blocks))
  BY <1>5, <1>6, <1>7 DEF SamePerformance
<1> QED
  BY <1>2, <1>5, <1>8 DEF d2

\* Nor does it change how often the search overfits.
LEMMA OverfitDoubled ==
    ASSUME NEW d, NEW len, Matrix(d, len), NBlocks # 0, NEW k \in DOMAIN d
    PROVE  cscv_pbo(Doubled(d, k)) = cscv_pbo(d)
<1> DEFINE d2 == Doubled(d, k)
           rest(s) == (0..(NBlocks - 1)) \ s
           winner(e) == [s \in Halves |-> Best(Performance(e, s))]
           oos(e) == [s \in Halves |-> Performance(e, rest(s))]
<1>1. Len(d) \in Nat \ {0} /\ Len(d2) = Len(d)
  BY MatrixIs, DoubledIs DEF DoubledAt
<1>2. ASSUME NEW s \in Halves
      PROVE  /\ winner(d2)[s] = winner(d)[s]
             /\ TwiceRank(oos(d2)[s], winner(d2)[s]) = TwiceRank(oos(d)[s], winner(d)[s])
             /\ oos(d2)[s][winner(d2)[s]].num < 0 <=> oos(d)[s][winner(d)[s]].num < 0
  <2> DEFINE p == Performance(d, s)
             p2 == Performance(d2, s)
             q == Performance(d, rest(s))
             q2 == Performance(d2, rest(s))
  <2>1. /\ DOMAIN p = 1..Len(d) /\ SamePerformance(p, p2)
        /\ DOMAIN q = 1..Len(d) /\ SamePerformance(q, q2)
    BY PerformanceDoubled
  <2>2. /\ winner(d)[s] = Best(p) /\ winner(d2)[s] = Best(p2)
        /\ oos(d)[s] = q /\ oos(d2)[s] = q2
    OBVIOUS
  <2> HIDE DEF p, p2, q, q2, winner, oos
  <2>3. Best(p2) = Best(p)
    BY <2>1, SameWinner
  <2>4. Best(p) \in 1..Len(d)
    <3>1. \A j \in 1..Len(d) : IsRatio(p[j])
      BY <2>1 DEF SamePerformance
    <3> QED
      BY <1>1, <2>1, <3>1, BestIs
  <2>5. TwiceRank(q2, Best(p)) = TwiceRank(q, Best(p))
    BY <2>1, <2>4, SameWinner
  <2>6. q2[Best(p)].num < 0 <=> q[Best(p)].num < 0
    BY <2>1, <2>4, SameCompares
  <2> QED
    BY <2>2, <2>3, <2>5, <2>6
<1>3. \A e : cscv_pbo(e) =
         [n_splits |-> Cardinality(Halves),
          overfit  |-> Cardinality({s \in Halves : TwiceRank(oos(e)[s], winner(e)[s]) <= Len(e) + 1}),
          oos_loss |-> Cardinality({s \in Halves : oos(e)[s][winner(e)[s]].num < 0})]
  BY DEF cscv_pbo
<1> HIDE DEF winner, oos, d2
<1>4. {s \in Halves : TwiceRank(oos(d2)[s], winner(d2)[s]) <= Len(d2) + 1}
         = {s \in Halves : TwiceRank(oos(d)[s], winner(d)[s]) <= Len(d) + 1}
  BY <1>1, <1>2
<1>5. {s \in Halves : oos(d2)[s][winner(d2)[s]].num < 0}
         = {s \in Halves : oos(d)[s][winner(d)[s]].num < 0}
  BY <1>2
<1>6. cscv_pbo(d2) = cscv_pbo(d)
  BY <1>3, <1>4, <1>5
<1> QED
  BY <1>6 DEF d2

\* The resamples: paths of row numbers.
Draws(paths, len) ==
    /\ Len(paths) \in Nat /\ DOMAIN paths = 1..Len(paths)
    /\ \A b \in DOMAIN paths : paths[b] \in [1..len -> 1..len]

\* The statistics of a test are ratios.
Ratios(d, paths) ==
    /\ IsFiniteSet(DOMAIN d)
    /\ \A k \in DOMAIN d : /\ IsRatio(Observed(d, paths, k))
                           /\ \A b \in DOMAIN paths : IsRatio(Resampled(d, paths, b, k))

\* Means and deviations are integers.
LEMMA MeansAre ==
    ASSUME NEW d, NEW len, Matrix(d, len), NEW k \in DOMAIN d,
           NEW path \in [1..len -> 1..len]
    PROVE  Mean(d, k) \in Int /\ Centered(d, path, k) \in Int
<1> DEFINE f == [t \in DOMAIN path |-> d[k][path[t]]]
           rows == 1..len
<1>1. d[k] \in [rows -> Int] /\ len \in Nat
  BY MatrixIs DEF Matrix
<1>2. IsFiniteSet(rows)
  BY <1>1, FS_Interval
<1>3. DOMAIN f = rows /\ \A t \in rows : f[t] \in Int
  BY <1>1
<1>4. DOMAIN d[k] = rows /\ \A t \in rows : d[k][t] \in Int
  BY <1>1
<1> HIDE DEF f, rows
<1>5. Mean(d, k) \in Int
  BY <1>2, <1>4, SumInt DEF Mean, SumFunction
<1>6. SumFunction(f) \in Int
  BY <1>2, <1>3, SumInt DEF SumFunction
<1>7. Centered(d, path, k) = SumFunction(f) - Mean(d, k)
  BY DEF Centered, f
<1> QED
  BY <1>5, <1>6, <1>7

\* A sum of squared deviations is not negative.
LEMMA OmegaIs ==
    ASSUME NEW d, NEW len, Matrix(d, len), NEW k \in DOMAIN d, NEW paths, Draws(paths, len)
    PROVE  Omega(d, paths, k) \in Nat
<1> DEFINE f == [b \in DOMAIN paths |-> Sq(Centered(d, paths[b], k))]
<1>1. IsFiniteSet(DOMAIN paths)
  BY FS_Interval DEF Draws
<1>2. ASSUME NEW b \in DOMAIN paths
      PROVE  f[b] \in Nat
  <2>1. Centered(d, paths[b], k) \in Int
    BY MeansAre DEF Draws
  <2> DEFINE c == Centered(d, paths[b], k)
  <2>2. c \in Int /\ f[b] = c * c
    BY <2>1 DEF Sq
  <2> HIDE DEF c, f
  <2>3. c * c \in Nat
    BY <2>2
  <2> QED
    BY <2>2, <2>3
<1>3. Omega(d, paths, k) = SumFunction(f) /\ DOMAIN f = DOMAIN paths
  BY DEF Omega
<1> HIDE DEF f
<1> QED
  BY <1>1, <1>2, <1>3, SumNat DEF SumFunction

\* So every statistic is a ratio.
LEMMA RatiosAre ==
    ASSUME NEW d, NEW len, Matrix(d, len), NEW paths, Draws(paths, len)
    PROVE  Ratios(d, paths)
<1>1. IsFiniteSet(DOMAIN d)
  <2>1. DOMAIN d = 1..Len(d) /\ Len(d) \in Nat
    BY MatrixIs
  <2> QED
    BY <2>1, FS_Interval
<1>2. ASSUME NEW k \in DOMAIN d, NEW b \in DOMAIN paths
      PROVE  IsRatio(Resampled(d, paths, b, k))
  <2>1. Centered(d, paths[b], k) \in Int
    BY MeansAre DEF Draws
  <2>2. Omega(d, paths, k) \in Nat
    BY OmegaIs
  <2> QED
    BY <2>1, <2>2, RatioIs DEF Resampled
<1>3. ASSUME NEW k \in DOMAIN d
      PROVE  IsRatio(Observed(d, paths, k))
  <2>1. Mean(d, k) \in Int
    <3>1. [t \in 1..len |-> t] \in [1..len -> 1..len]
      OBVIOUS
    <3> QED
      BY <3>1, MeansAre
  <2>2. Omega(d, paths, k) \in Nat
    BY OmegaIs
  <2> QED
    BY <2>1, <2>2, RatioIs DEF Observed
<1> QED
  BY <1>1, <1>2, <1>3 DEF Ratios

\* A resample reaches the observed statistic if no trial's ratio is above all of
\* its own.
LEMMA ReachesIs ==
    ASSUME NEW d, NEW paths, Ratios(d, paths), NEW b \in DOMAIN paths, NEW S \in SUBSET DOMAIN d
    PROVE  b \in Reaching(d, paths, S)
               <=> \A k \in DOMAIN d : \/ RatioAtMost(Observed(d, paths, k), Zero)
                                       \/ \E j \in S : RatioAtMost(Observed(d, paths, k),
                                                                   Resampled(d, paths, b, j))
<1> DEFINE f == [k \in DOMAIN d |-> Observed(d, paths, k)]
           g == [k \in S |-> Resampled(d, paths, b, k)]
           A == {f[k] : k \in DOMAIN d}
           B == {g[k] : k \in S}
           A0 == {Zero} \cup A
           B0 == {Zero} \cup B
<1>1. A = {Observed(d, paths, k) : k \in DOMAIN d} /\ B = {Resampled(d, paths, b, k) : k \in S}
  OBVIOUS
<1>2. b \in Reaching(d, paths, S) <=> RatioAtMost(Largest(A0), Largest(B0))
  BY <1>1 DEF Reaching, Statistic
<1>3. \A k \in DOMAIN d : f[k] = Observed(d, paths, k) /\ IsRatio(f[k])
  BY DEF Ratios
<1>4. \A k \in S : g[k] = Resampled(d, paths, b, k) /\ IsRatio(g[k])
  BY DEF Ratios
<1>5. IsFiniteSet(DOMAIN d) /\ IsFiniteSet(S)
  BY FS_Subset DEF Ratios
<1> HIDE DEF f, g
<1>6. IsFiniteSet(A) /\ IsFiniteSet(B)
  BY <1>5, FiniteImage
<1>7. IsFiniteSet(A0) /\ A0 # {} /\ \A a \in A0 : IsRatio(a)
  <2>1. \A a \in A : IsRatio(a)
    BY <1>3
  <2> HIDE DEF A
  <2>2. IsFiniteSet(A \cup {Zero})
    BY <1>6, FS_AddElement
  <2>3. A \cup {Zero} = A0
    OBVIOUS
  <2> QED
    BY <2>1, <2>2, <2>3, ZeroIs
<1>8. IsFiniteSet(B0) /\ B0 # {} /\ \A a \in B0 : IsRatio(a)
  <2>1. \A a \in B : IsRatio(a)
    BY <1>4
  <2> HIDE DEF B
  <2>2. IsFiniteSet(B \cup {Zero})
    BY <1>6, FS_AddElement
  <2>3. B \cup {Zero} = B0
    OBVIOUS
  <2> QED
    BY <2>1, <2>2, <2>3, ZeroIs
<1>9. RatioAtMost(Largest(A0), Largest(B0)) <=> \A a \in A0 : \E c \in B0 : RatioAtMost(a, c)
  <2> HIDE DEF A0, B0
  <2> QED
    BY <1>7, <1>8, LargestAtMost
<1>10. RatioAtMost(Zero, Zero)
  BY ZeroIs, AtMostTotal
<1>11. (\A a \in A0 : \E c \in B0 : RatioAtMost(a, c))
          <=> \A k \in DOMAIN d : RatioAtMost(f[k], Zero) \/ \E j \in S : RatioAtMost(f[k], g[j])
  BY <1>10
<1> HIDE DEF A0, B0
<1> QED
  BY <1>2, <1>3, <1>4, <1>9, <1>11

\* A trial at twice the size has the same statistics but for a common factor.
LEMMA StatisticsDoubled ==
    ASSUME NEW d, NEW len, Matrix(d, len), NEW paths, Draws(paths, len), NEW k \in DOMAIN d,
           NEW j \in DOMAIN d
    PROVE  /\ Scaled(Observed(d, paths, j), Observed(Doubled(d, k), paths, j))
           /\ \A b \in DOMAIN paths :
                 Scaled(Resampled(d, paths, b, j), Resampled(Doubled(d, k), paths, b, j))
<1> DEFINE d2 == Doubled(d, k)
<1>1. DoubledAt(d, d2, k, len)
  BY DoubledIs
<1> HIDE DEF d2
<1>2. CASE j # k
  <2>1. d2[j] = d[j]
    BY <1>1, <1>2 DEF DoubledAt
  <2>2. Mean(d2, j) = Mean(d, j) /\ \A path : Centered(d2, path, j) = Centered(d, path, j)
    BY <2>1 DEF Mean, Centered
  <2>3. Omega(d2, paths, j) = Omega(d, paths, j)
    BY <2>2 DEF Omega
  <2>4. /\ Observed(d2, paths, j) = Observed(d, paths, j)
        /\ \A b : Resampled(d2, paths, b, j) = Resampled(d, paths, b, j)
    BY <2>2, <2>3 DEF Observed, Resampled
  <2> QED
    BY <2>4 DEF Scaled, d2
<1>3. CASE j = k
  <2>1. /\ DOMAIN d2[k] = 1..len /\ \A t \in 1..len : d2[k][t] = 2 * d[k][t]
    BY <1>1 DEF DoubledAt
  <2>2. len \in Nat /\ d[k] \in [1..len -> Int] /\ DOMAIN d[k] = 1..len
    BY MatrixIs DEF Matrix
  <2>3. IsFiniteSet(1..len)
    BY <2>2, FS_Interval
  <2>4. Mean(d, k) \in Int /\ Mean(d2, k) = 2 * Mean(d, k)
    <3> DEFINE rows == 1..len
    <3>1. /\ DOMAIN d[k] = rows /\ DOMAIN d2[k] = rows /\ IsFiniteSet(rows)
          /\ \A t \in rows : d[k][t] \in Int /\ d2[k][t] = 2 * d[k][t]
      BY <2>1, <2>2, <2>3
    <3> HIDE DEF rows
    <3> QED
      BY <3>1, SumTwice DEF Mean
  <2>5. ASSUME NEW path \in [1..len -> 1..len]
        PROVE  Centered(d, path, k) \in Int /\ Centered(d2, path, k) = 2 * Centered(d, path, k)
    <3> DEFINE f == [t \in DOMAIN path |-> d[k][path[t]]]
               g == [t \in DOMAIN path |-> d2[k][path[t]]]
               rows == 1..len
    <3>1. /\ DOMAIN f = rows /\ DOMAIN g = rows /\ IsFiniteSet(rows)
          /\ \A t \in rows : f[t] \in Int /\ g[t] = 2 * f[t]
      BY <2>1, <2>2, <2>3
    <3>2. Centered(d, path, k) = SumFunction(f) - Mean(d, k)
      BY DEF Centered
    <3>3. Centered(d2, path, k) = SumFunction(g) - Mean(d2, k)
      BY DEF Centered
    <3> HIDE DEF f, g, rows
    <3>4. SumFunction(f) \in Int /\ SumFunction(g) = 2 * SumFunction(f)
      BY <3>1, SumTwice
    <3> QED
      BY <2>4, <3>2, <3>3, <3>4
  <2>6. /\ IsFiniteSet(DOMAIN paths)
        /\ \A b \in DOMAIN paths : paths[b] \in [1..len -> 1..len]
    <3>1. Len(paths) \in Nat /\ DOMAIN paths = 1..Len(paths)
      BY DEF Draws
    <3>2. IsFiniteSet(1..Len(paths))
      BY <3>1, FS_Interval
    <3>3. \A b \in DOMAIN paths : paths[b] \in [1..len -> 1..len]
      BY DEF Draws
    <3> QED
      BY <3>1, <3>2, <3>3
  <2>7. Omega(d, paths, k) \in Int /\ Omega(d2, paths, k) = 4 * Omega(d, paths, k)
    <3> DEFINE f == [b \in DOMAIN paths |-> Sq(Centered(d, paths[b], k))]
               g == [b \in DOMAIN paths |-> Sq(Centered(d2, paths[b], k))]
    <3>1. ASSUME NEW b \in DOMAIN paths
          PROVE  f[b] \in Int /\ g[b] = 4 * f[b]
      <4> DEFINE c == Centered(d, paths[b], k)
      <4>1. c \in Int /\ Centered(d2, paths[b], k) = 2 * c
        BY <2>5, <2>6
      <4>2. f[b] = c * c /\ g[b] = (2 * c) * (2 * c)
        BY <4>1 DEF Sq
      <4> HIDE DEF c, f, g
      <4>3. c * c \in Int /\ (2 * c) * (2 * c) = 4 * (c * c)
        BY <4>1
      <4> QED
        BY <4>2, <4>3
    <3>2. DOMAIN f = DOMAIN paths /\ DOMAIN g = DOMAIN paths
      OBVIOUS
    <3>3. Omega(d, paths, k) = SumFunction(f) /\ Omega(d2, paths, k) = SumFunction(g)
      BY DEF Omega
    <3> HIDE DEF f, g
    <3> QED
      BY <2>6, <3>1, <3>2, <3>3, SumFourfold
  <2>8. Scaled(Observed(d, paths, k), Observed(d2, paths, k))
    BY <2>4, <2>7, RatioScaled DEF Observed
  <2>9. ASSUME NEW b \in DOMAIN paths
        PROVE  Scaled(Resampled(d, paths, b, k), Resampled(d2, paths, b, k))
    <3>1. /\ Centered(d, paths[b], k) \in Int
          /\ Centered(d2, paths[b], k) = 2 * Centered(d, paths[b], k)
      BY <2>5, <2>6
    <3> QED
      BY <2>7, <3>1, RatioScaled DEF Resampled
  <2> QED
    BY <1>3, <2>8, <2>9 DEF d2
<1> QED
  BY <1>2, <1>3

\* A scaled ratio is one.
LEMMA ScaledRatio ==
    ASSUME NEW a, NEW b, IsRatio(a), Scaled(a, b)
    PROVE  IsRatio(b) /\ Whole(a)
  BY DEF IsRatio, Scaled, Whole

\* A strategy counts when it is not too far below the benchmark, and one of
\* twice the scale counts with it.
Counts(z, draws) == z.num < 0 => -z.num * draws * ThresholdDen <= z.den * ThresholdNum

\* Scaled ratios count alike.
LEMMA CountsScaled ==
    ASSUME NEW z, NEW z2, Whole(z), Scaled(z, z2), NEW draws \in Nat
    PROVE  Counts(z2, draws) <=> Counts(z, draws)
<1>1. draws \in Int /\ ThresholdDen \in Int /\ ThresholdNum \in Int
  BY TestsAssumption
<1>2. z.num \in Int /\ z.den \in Int
  BY DEF Whole
<1>3. CASE z2.num = z.num /\ z2.den = z.den
  BY <1>3 DEF Counts
<1>4. CASE z2.num = 4 * z.num /\ z2.den = 4 * z.den
  <2> DEFINE lhs == -z.num * draws * ThresholdDen
             rhs == z.den * ThresholdNum
  <2>1. /\ -z2.num * draws * ThresholdDen = 4 * lhs
        /\ z2.den * ThresholdNum = 4 * rhs
    BY <1>1, <1>2, <1>4
  <2>2. lhs \in Int /\ rhs \in Int
    BY <1>1, <1>2
  <2>3. /\ Counts(z2, draws) <=> (z2.num < 0 => 4 * lhs <= 4 * rhs)
        /\ Counts(z, draws) <=> (z.num < 0 => lhs <= rhs)
    BY <2>1 DEF Counts
  <2> HIDE DEF lhs, rhs
  <2>4. 4 * lhs <= 4 * rhs <=> lhs <= rhs
    BY <2>2
  <2>5. z2.num < 0 <=> z.num < 0
    BY <1>2, <1>4
  <2> QED
    BY <2>3, <2>4, <2>5
<1> QED
  BY <1>3, <1>4 DEF Scaled

\* A doubled trial changes neither the strategies that count nor the resamples that reach
\* the observed statistic.
LEMMA ReachingDoubled ==
    ASSUME NEW d, NEW len, Matrix(d, len), NEW paths, Draws(paths, len), NEW k \in DOMAIN d
    PROVE  /\ DOMAIN Doubled(d, k) = DOMAIN d
           /\ Relevant(Doubled(d, k), paths) = Relevant(d, paths)
           /\ \A S \in SUBSET DOMAIN d :
                 Reaching(Doubled(d, k), paths, S) = Reaching(d, paths, S)
<1> DEFINE d2 == Doubled(d, k)
           K == DOMAIN d
<1>1. DOMAIN d2 = K
  BY DoubledIs DEF DoubledAt
<1>2. Ratios(d, paths)
  BY RatiosAre
<1>3. ASSUME NEW j \in K
      PROVE  /\ Whole(Observed(d, paths, j)) /\ IsRatio(Observed(d2, paths, j))
             /\ Scaled(Observed(d, paths, j), Observed(d2, paths, j))
             /\ \A b \in DOMAIN paths :
                   /\ Whole(Resampled(d, paths, b, j)) /\ IsRatio(Resampled(d2, paths, b, j))
                   /\ Scaled(Resampled(d, paths, b, j), Resampled(d2, paths, b, j))
  <2>1. /\ Scaled(Observed(d, paths, j), Observed(d2, paths, j))
        /\ \A b \in DOMAIN paths : Scaled(Resampled(d, paths, b, j), Resampled(d2, paths, b, j))
    BY StatisticsDoubled
  <2>2. /\ IsRatio(Observed(d, paths, j))
        /\ \A b \in DOMAIN paths : IsRatio(Resampled(d, paths, b, j))
    BY <1>2 DEF Ratios
  <2> HIDE DEF d2
  <2> QED
    BY <2>1, <2>2, ScaledRatio
<1> HIDE DEF d2
<1>4. Ratios(d2, paths)
  BY <1>1, <1>2, <1>3 DEF Ratios
<1>5. Whole(Zero) /\ Scaled(Zero, Zero)
  BY ZeroIs DEF IsRatio, Whole, Scaled
<1>6. ASSUME NEW S \in SUBSET K
      PROVE  Reaching(d2, paths, S) = Reaching(d, paths, S)
  <2>1. ASSUME NEW b \in DOMAIN paths
        PROVE  b \in Reaching(d2, paths, S) <=> b \in Reaching(d, paths, S)
    <3>1. \A i \in K : RatioAtMost(Observed(d2, paths, i), Zero)
                           <=> RatioAtMost(Observed(d, paths, i), Zero)
      BY <1>3, <1>5, ScaledCompares
    <3>2. \A i \in K, j \in S :
              RatioAtMost(Observed(d2, paths, i), Resampled(d2, paths, b, j))
                  <=> RatioAtMost(Observed(d, paths, i), Resampled(d, paths, b, j))
      BY <1>3, ScaledCompares
    <3>3. b \in Reaching(d, paths, S)
              <=> \A i \in K : \/ RatioAtMost(Observed(d, paths, i), Zero)
                               \/ \E j \in S : RatioAtMost(Observed(d, paths, i),
                                                           Resampled(d, paths, b, j))
      BY <1>2, ReachesIs
    <3>4. b \in Reaching(d2, paths, S)
              <=> \A i \in K : \/ RatioAtMost(Observed(d2, paths, i), Zero)
                               \/ \E j \in S : RatioAtMost(Observed(d2, paths, i),
                                                           Resampled(d2, paths, b, j))
      BY <1>1, <1>4, ReachesIs
    <3> QED
      BY <3>1, <3>2, <3>3, <3>4
  <2>2. /\ Reaching(d2, paths, S) \subseteq DOMAIN paths
        /\ Reaching(d, paths, S) \subseteq DOMAIN paths
    BY DEF Reaching
  <2> QED
    BY <2>1, <2>2
<1>7. Relevant(d2, paths) = Relevant(d, paths)
  <2>1. ASSUME NEW j \in K
        PROVE  Counts(Observed(d2, paths, j), Len(paths)) <=> Counts(Observed(d, paths, j), Len(paths))
    <3>1. Len(paths) \in Nat
      BY DEF Draws
    <3> QED
      BY <1>3, <3>1, CountsScaled
  <2>2. /\ Relevant(d2, paths) = {j \in K : Counts(Observed(d2, paths, j), Len(paths))}
        /\ Relevant(d, paths) = {j \in K : Counts(Observed(d, paths, j), Len(paths))}
    BY <1>1 DEF Relevant, Counts
  <2> QED
    BY <2>1, <2>2
<1> QED
  BY <1>1, <1>6, <1>7 DEF d2

\* A trial at twice its size leaves both p-values as they are.
LEMMA PValuesDoubled ==
    ASSUME NEW d, NEW len, Matrix(d, len), NEW paths, Draws(paths, len), NEW k \in DOMAIN d
    PROVE  /\ spa_test(Doubled(d, k), paths).spa = spa_test(d, paths).spa
           /\ spa_test(Doubled(d, k), paths).reality = spa_test(d, paths).reality
<1> DEFINE d2 == Doubled(d, k)
<1>1. /\ DOMAIN d2 = DOMAIN d /\ Relevant(d2, paths) = Relevant(d, paths)
      /\ \A S \in SUBSET DOMAIN d : Reaching(d2, paths, S) = Reaching(d, paths, S)
  BY ReachingDoubled
<1> HIDE DEF d2
<1>2. Relevant(d, paths) \in SUBSET DOMAIN d
  BY DEF Relevant
<1>3. /\ Reaching(d2, paths, Relevant(d2, paths)) = Reaching(d, paths, Relevant(d, paths))
      /\ Reaching(d2, paths, DOMAIN d2) = Reaching(d, paths, DOMAIN d)
  BY <1>1, <1>2
<1> QED
  BY <1>3 DEF spa_test, d2

\* The more strategies may reach it, the more resamples reach the observed one.
LEMMA FewerReach ==
    ASSUME NEW d, NEW len, Matrix(d, len), NEW paths, Draws(paths, len)
    PROVE  spa_test(d, paths).spa <= spa_test(d, paths).reality
<1> DEFINE few == Reaching(d, paths, Relevant(d, paths))
           all == Reaching(d, paths, DOMAIN d)
<1>1. Ratios(d, paths)
  BY RatiosAre
<1>2. Relevant(d, paths) \in SUBSET DOMAIN d /\ DOMAIN d \in SUBSET DOMAIN d
  BY DEF Relevant
<1>3. ASSUME NEW b \in DOMAIN paths, b \in few
      PROVE  b \in all
  <2>1. \A k \in DOMAIN d : \/ RatioAtMost(Observed(d, paths, k), Zero)
                            \/ \E j \in Relevant(d, paths) :
                                  RatioAtMost(Observed(d, paths, k), Resampled(d, paths, b, j))
    BY <1>1, <1>2, <1>3, ReachesIs
  <2>2. \A k \in DOMAIN d : \/ RatioAtMost(Observed(d, paths, k), Zero)
                            \/ \E j \in DOMAIN d :
                                  RatioAtMost(Observed(d, paths, k), Resampled(d, paths, b, j))
    BY <1>2, <2>1
  <2> QED
    BY <1>1, <1>2, <2>2, ReachesIs
<1>4. few \subseteq DOMAIN paths /\ all \subseteq DOMAIN paths
  BY DEF Reaching
<1>5. IsFiniteSet(DOMAIN paths)
  <2>1. Len(paths) \in Nat /\ DOMAIN paths = 1..Len(paths)
    BY DEF Draws
  <2> QED
    BY <2>1, FS_Interval
<1>6. few \in SUBSET all
  BY <1>3, <1>4
<1>7. spa_test(d, paths).spa = Cardinality(few) /\ spa_test(d, paths).reality = Cardinality(all)
  BY DEF spa_test
<1> HIDE DEF few, all
<1>8. IsFiniteSet(all)
  BY <1>4, <1>5, FS_Subset
<1>9. Cardinality(few) <= Cardinality(all)
  BY <1>6, <1>8, FS_Subset
<1> QED
  BY <1>7, <1>9

\* A statistic of zero is reached by every resample.
LEMMA ZeroStatistic ==
    ASSUME NEW d, NEW len, Matrix(d, len), NEW paths, Draws(paths, len),
           spa_test(d, paths).t_obs.num = 0
    PROVE  spa_test(d, paths).spa = Len(paths)
<1> DEFINE f == [k \in DOMAIN d |-> Observed(d, paths, k)]
           A == {f[k] : k \in DOMAIN d}
           A0 == {Zero} \cup A
           top == Statistic(d, paths)
<1>1. Ratios(d, paths)
  BY RatiosAre
<1>2. A = {Observed(d, paths, k) : k \in DOMAIN d}
  OBVIOUS
<1>3. top = Largest(A0) /\ top.num = 0
  BY <1>2 DEF Statistic, spa_test
<1>4. \A k \in DOMAIN d : f[k] = Observed(d, paths, k) /\ IsRatio(f[k]) /\ f[k] \in A0
  BY <1>1 DEF Ratios
<1>5. IsFiniteSet(DOMAIN d)
  BY <1>1 DEF Ratios
<1>6. IsFiniteSet(A0) /\ A0 # {} /\ \A a \in A0 : IsRatio(a)
  <2>1. \A a \in A : IsRatio(a)
    BY <1>4
  <2> HIDE DEF f
  <2>2. IsFiniteSet(A)
    BY <1>5, FiniteImage
  <2> HIDE DEF A
  <2>3. IsFiniteSet(A \cup {Zero})
    BY <2>2, FS_AddElement
  <2>4. A \cup {Zero} = A0
    OBVIOUS
  <2> QED
    BY <2>1, <2>3, <2>4, ZeroIs
<1> HIDE DEF f, A, A0, top
<1>7. top \in A0 /\ \A c \in A0 : RatioAtMost(c, top)
  BY <1>3, <1>6, LargestIs
<1>8. ASSUME NEW k \in DOMAIN d
      PROVE  RatioAtMost(Observed(d, paths, k), Zero)
  <2>1. IsRatio(f[k]) /\ IsRatio(top) /\ RatioAtMost(f[k], top)
    BY <1>4, <1>6, <1>7
  <2>2. f[k].num * top.den <= 0 * f[k].den
    BY <1>3, <2>1 DEF RatioAtMost
  <2>3. f[k].num \in Int /\ f[k].den \in Int /\ top.den \in Nat \ {0}
    BY <2>1 DEF IsRatio
  <2>4. f[k].num <= 0
    BY <2>2, <2>3
  <2>5. f[k].num * 1 <= 0 * f[k].den
    BY <2>3, <2>4
  <2> QED
    BY <1>4, <2>5, ZeroIs DEF RatioAtMost
<1>9. Relevant(d, paths) \in SUBSET DOMAIN d
  BY DEF Relevant
<1>10. \A b \in DOMAIN paths : b \in Reaching(d, paths, Relevant(d, paths))
  BY <1>1, <1>8, <1>9, ReachesIs
<1>11. Reaching(d, paths, Relevant(d, paths)) = DOMAIN paths
  BY <1>10 DEF Reaching
<1>12. Cardinality(DOMAIN paths) = Len(paths)
  <2>1. Len(paths) \in Nat /\ DOMAIN paths = 1..Len(paths)
    BY DEF Draws
  <2>2. Len(paths) \in Int /\ 1 \in Int
    BY <2>1
  <2>3. Cardinality(1..Len(paths)) = IF 1 > Len(paths) THEN 0 ELSE Len(paths) - 1 + 1
    BY <2>2, FS_Interval
  <2>4. (IF 1 > Len(paths) THEN 0 ELSE Len(paths) - 1 + 1) = Len(paths)
    BY <2>1
  <2> QED
    BY <2>1, <2>3, <2>4
<1> QED
  BY <1>11, <1>12 DEF spa_test

\* The resamples of a log are drawn once its trials align.
Logged ==
    /\ trial_returns \in Seq(Seq(Int))
    /\ boot_paths \in Seq(_stationary_bootstrap_indices(Len(trial_returns[1])))
    /\ boot_paths # <<>> => Aligned(trial_returns)

\* A verdict is what the tests make of the log and the resamples it was given,
\* and neither changes after it.
Judged ==
    verdict.kind = "verdict" =>
        /\ Aligned(trial_returns) /\ CscvAccepts(trial_returns)
        /\ Len(boot_paths) = NBootstrap
        /\ verdict.pbo = cscv_pbo(trial_returns)
        /\ verdict.spa = spa_test(trial_returns, boot_paths)
TestsInv == Logged /\ Judged

\* An empty log has no verdict.
LEMMA TestsInitInv == Init => TestsInv
<1> SUFFICES ASSUME Init PROVE TestsInv
  OBVIOUS
<1>1. trial_returns = <<>> /\ boot_paths = <<>> /\ verdict = NotYet
  BY DEF Init, TestsInit
<1>2. /\ <<>> \in Seq(Seq(Int))
      /\ <<>> \in Seq(_stationary_bootstrap_indices(Len(trial_returns[1])))
  OBVIOUS
<1>3. Logged
  BY <1>1, <1>2 DEF Logged
<1>4. Judged
  BY <1>1 DEF Judged, NotYet
<1> QED
  BY <1>3, <1>4 DEF TestsInv

\* What leaves the log alone keeps its verdict.
LEMMA TestsStutterInv == TestsInv /\ UNCHANGED testVars => TestsInv'
<1> SUFFICES ASSUME TestsInv, UNCHANGED testVars PROVE TestsInv'
  OBVIOUS
<1>1. trial_returns' = trial_returns /\ boot_paths' = boot_paths /\ verdict' = verdict
  BY DEF testVars
<1>2. Logged'
  BY <1>1 DEF TestsInv, Logged
<1>3. Judged'
  BY <1>1 DEF TestsInv, Judged
<1> QED
  BY <1>2, <1>3 DEF TestsInv

\* A trial is logged only before the resamples and the verdict.
LEMMA LogTrialInv ==
    ASSUME TestsInv, NEW returns \in Columns, LogTrial(returns)
    PROVE  TestsInv'
<1>1. /\ verdict = NotYet /\ boot_paths = <<>> /\ verdict' = verdict /\ boot_paths' = boot_paths
      /\ trial_returns' = Append(trial_returns, returns)
  BY DEF LogTrial
<1>2. trial_returns \in Seq(Seq(Int)) /\ returns \in Seq(Int)
  BY TestsAssumption DEF TestsInv, Logged
<1>3. trial_returns' \in Seq(Seq(Int))
  BY <1>1, <1>2
<1>4. boot_paths' = <<>> /\ verdict'.kind # "verdict"
  BY <1>1 DEF NotYet
<1> QED
  BY <1>3, <1>4 DEF TestsInv, Logged, Judged

\* No path is drawn after the verdict, which needs all of them.
LEMMA ResampleInv ==
    ASSUME TestsInv, NEW path, Resample(path)
    PROVE  TestsInv'
<1> DEFINE indices == _stationary_bootstrap_indices(Len(trial_returns[1]))
<1>1. /\ Aligned(trial_returns) /\ path \in indices /\ Len(boot_paths) < NBootstrap
      /\ boot_paths' = Append(boot_paths, path)
      /\ trial_returns' = trial_returns /\ verdict' = verdict
  BY DEF Resample
<1>2. trial_returns \in Seq(Seq(Int)) /\ boot_paths \in Seq(indices)
  BY DEF TestsInv, Logged
<1> HIDE DEF indices
<1>3. boot_paths' \in Seq(indices)
  BY <1>1, <1>2
<1>4. Logged'
  BY <1>1, <1>2, <1>3 DEF Logged, indices
<1>5. verdict.kind # "verdict"
  <2>1. Len(boot_paths) \in Nat /\ NBootstrap \in Nat
    BY <1>2, TestsAssumption
  <2> QED
    BY <1>1, <2>1 DEF TestsInv, Judged
<1> QED
  BY <1>1, <1>4, <1>5 DEF TestsInv, Judged

\* The verdict is about the log and the resamples as they are.
LEMMA JudgeInv ==
    ASSUME TestsInv, Judge
    PROVE  TestsInv'
<1>1. trial_returns' = trial_returns /\ boot_paths' = boot_paths
  BY DEF Judge
<1>2. Logged'
  BY <1>1 DEF TestsInv, Logged
<1>3. CASE Aligned(trial_returns) /\ CscvAccepts(trial_returns) /\ SpaAccepts(trial_returns)
  <2>1. /\ Len(boot_paths) = NBootstrap
        /\ verdict' = [kind |-> "verdict", pbo |-> cscv_pbo(trial_returns),
                       spa |-> spa_test(trial_returns, boot_paths)]
    BY <1>3 DEF Judge
  <2>2. /\ verdict'.pbo = cscv_pbo(trial_returns)
        /\ verdict'.spa = spa_test(trial_returns, boot_paths)
    BY <2>1
  <2>3. Judged'
    BY <1>1, <1>3, <2>1, <2>2 DEF Judged
  <2> QED
    BY <1>2, <2>3 DEF TestsInv
<1>4. CASE ~(Aligned(trial_returns) /\ CscvAccepts(trial_returns) /\ SpaAccepts(trial_returns))
  <2>1. verdict'.kind # "verdict"
    BY <1>4 DEF Judge, Refused
  <2> QED
    BY <1>2, <2>1 DEF TestsInv, Judged
<1> QED
  BY <1>3, <1>4

\* Whatever the library does, a verdict stays true of its log.
LEMMA TestsStepInv == TestsInv /\ [Next]_vars => TestsInv'
<1> SUFFICES ASSUME TestsInv, [Next]_vars PROVE TestsInv'
  OBVIOUS
<1>1. CASE task = "tests" /\ TestsNext /\ UNCHANGED <<task, streamVars, folds, walkVars>>
  BY <1>1, LogTrialInv, ResampleInv, JudgeInv DEF TestsNext
<1>2. CASE UNCHANGED testVars
  BY <1>2, TestsStutterInv
<1> QED
  BY <1>1, <1>2 DEF Next, ArriveBar, BuildFolds, vars

\* A verdict true of its log is not moved by the size of a trial.
LEMMA TestsInvSound == TestsInv => SelectionTestsSound
<1> SUFFICES ASSUME TestsInv, verdict.kind = "verdict"
             PROVE  SelectionTestsSound
  BY DEF SelectionTestsSound
<1> DEFINE d == trial_returns
           len == Len(trial_returns[1])
<1>1. /\ Aligned(d) /\ CscvAccepts(d) /\ Len(boot_paths) = NBootstrap
      /\ verdict.pbo = cscv_pbo(d) /\ verdict.spa = spa_test(d, boot_paths)
  BY DEF TestsInv, Judged
<1>2. d \in Seq(Seq(Int)) /\ boot_paths \in Seq(_stationary_bootstrap_indices(len))
  BY DEF TestsInv, Logged
<1>3. Matrix(d, len)
  <2>1. DOMAIN d = 1..Len(d) /\ Len(d) \in Nat /\ Len(d) >= 2
    BY <1>1, <1>2 DEF CscvAccepts
  <2>2. 1 \in 1..Len(d) /\ Len(d) \in Nat \ {0}
    BY <2>1
  <2>3. d[1] \in Seq(Int)
    BY <1>2, <2>2
  <2>4. len \in Nat
    BY <2>3
  <2>5. \A j \in 1..Len(d) : Len(d[j]) = len
    BY <1>1, <2>1, <2>2 DEF Aligned
  <2> QED
    BY <1>2, <2>2, <2>4, <2>5 DEF Matrix
<1>4. Draws(boot_paths, len)
  <2> DEFINE indices == _stationary_bootstrap_indices(len)
  <2>1. indices = [1..len -> 1..len]
    BY DEF _stationary_bootstrap_indices
  <2>2. boot_paths \in Seq(indices)
    BY <1>2
  <2> HIDE DEF indices, len
  <2>3. /\ Len(boot_paths) \in Nat /\ DOMAIN boot_paths = 1..Len(boot_paths)
        /\ \A b \in DOMAIN boot_paths : boot_paths[b] \in indices
    BY <2>2
  <2> QED
    BY <2>1, <2>3 DEF Draws
<1>5. NBlocks # 0
  BY <1>1, TestsAssumption DEF CscvAccepts
<1> HIDE DEF len
<1>6. ASSUME NEW k \in DOMAIN d
      PROVE  /\ cscv_pbo(Doubled(d, k)) = verdict.pbo
             /\ spa_test(Doubled(d, k), boot_paths).spa = verdict.spa.spa
             /\ spa_test(Doubled(d, k), boot_paths).reality = verdict.spa.reality
  <2>1. cscv_pbo(Doubled(d, k)) = verdict.pbo
    BY <1>1, <1>3, <1>5, OverfitDoubled
  <2>2. /\ spa_test(Doubled(d, k), boot_paths).spa = spa_test(d, boot_paths).spa
        /\ spa_test(Doubled(d, k), boot_paths).reality = spa_test(d, boot_paths).reality
    BY <1>3, <1>4, PValuesDoubled
  <2> QED
    BY <1>1, <2>1, <2>2
<1>7. verdict.spa.spa <= verdict.spa.reality
  BY <1>1, <1>3, <1>4, FewerReach
<1>8. verdict.spa.t_obs.num = 0 => verdict.spa.spa = NBootstrap
  BY <1>1, <1>3, <1>4, ZeroStatistic
<1> QED
  BY <1>6, <1>7, <1>8 DEF SelectionTestsSound

\* The tests of a search are not moved by the size of a trial: running any one of
\* them at twice the leverage changes neither the overfitting count nor a
\* p-value, whatever the log, the blocks, the threshold and the resamples drawn.
\* The test that leaves poor strategies out is never the more severe, and a
\* search of which nothing beats the benchmark is never significant.
THEOREM SelectionAlwaysSound == Spec => []SelectionTestsSound
<1>1. TestsInv /\ UNCHANGED vars => TestsInv'
  BY TestsStepInv
<1> QED
  BY TestsInitInv, TestsStepInv, TestsInvSound, PTL DEF Spec
=============================================================================
