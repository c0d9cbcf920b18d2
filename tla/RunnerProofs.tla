---------------------------- MODULE RunnerProofs ----------------------------
(***************************************************************************)
(* What the runner guarantees.  First a run (module FlowRun), for every    *)
(* flow, every reference pattern, every number of runs and every           *)
(* combination of faults.  Then a loop block, which a run takes for one    *)
(* step (module LoopBlock), for every number of nested steps and           *)
(* iterations, every set of polling steps, every timeout and interval.     *)
(***************************************************************************)
EXTENDS FlowRun, LoopBlock, FiniteSetTheorems, WellFoundedInduction, TLAPS

Work == SetupSteps \cup MainSteps

-----------------------------------------------------------------------------
(* Where the default resume point lies.                                    *)
LEMMA StepsAreNatural ==
  /\ LastStep \in Nat
  /\ Steps = 1..LastStep /\ MainSteps \subseteq Steps
  /\ MainSteps \subseteq Nat
BY SizesAssumption DEF LastStep, Steps, MainSteps

LEMMA LeastNat ==
  ASSUME NEW T \in SUBSET Nat, T # {}
  PROVE  \E m \in T : \A k \in T : m <= k
<1> DEFINE R == {ss \in Nat \X Nat : ss[1] < ss[2]}
<1>1. IsWellFoundedOn(R, Nat)
  BY NatLessThanWellFounded DEF OpToRel
<1>2. \A k \in Nat, m \in Nat : k < m => <<k, m>> \in R
  OBVIOUS
<1> HIDE DEF R
<1>3. PICK m \in T : \A k \in T : ~(<<k, m>> \in R)
  BY <1>1, WFMin
<1>4. \A k \in T : k \in Nat
  OBVIOUS
<1>5. \A k \in T : ~(k < m)
  BY <1>2, <1>3, <1>4
<1>6. \A k \in T : m <= k
  BY <1>3, <1>4, <1>5
<1> QED
  BY <1>3, <1>6

LEMMA MinOfMainSteps ==
  ASSUME NEW S \in SUBSET MainSteps, S # {}
  PROVE  MinOf(S) \in S /\ \A p \in S : MinOf(S) <= p
<1>1. S \subseteq Nat
  BY StepsAreNatural
<1>2. \E x \in S : \A y \in S : x <= y
  BY <1>1, LeastNat
<1> QED
  BY <1>2 DEF MinOf

LEMMA RecordedIsFinite ==
  ASSUME NEW S \in SUBSET MainSteps
  PROVE  IsFiniteSet(S) /\ Cardinality(S) \in 0..NMain
<1>1. IsFiniteSet(MainSteps) /\ Cardinality(MainSteps) = NMain
  BY FS_Interval, SizesAssumption DEF MainSteps
<1>2. IsFiniteSet(S) /\ Cardinality(S) <= Cardinality(MainSteps)
  BY <1>1, FS_Subset
<1>3. Cardinality(S) \in Nat
  BY <1>2, FS_CardinalityType
<1> QED
  BY <1>1, <1>2, <1>3, SizesAssumption

LEMMA DefaultResumePointType ==
  ASSUME NEW s \in [Steps -> StepStatus \cup {"none"}]
  PROVE  DefaultResumePoint(s) \in (NSetup + 1)..(NSetup + NMain + 1)
<1> DEFINE recorded == {p \in MainSteps : s[p] # "none"}
           notPassed == {p \in recorded : s[p] # "passed"}
<1>1. CASE notPassed # {}
  <2>1. MinOf(notPassed) \in MainSteps
    BY <1>1, MinOfMainSteps
  <2> QED
    BY <1>1, <2>1, SizesAssumption DEF DefaultResumePoint, MainSteps
<1>2. CASE notPassed = {}
  <2>1. Cardinality(recorded) \in 0..NMain
    BY RecordedIsFinite
  <2> QED
    BY <1>2, <2>1, SizesAssumption DEF DefaultResumePoint
<1> QED
  BY <1>1, <1>2

-----------------------------------------------------------------------------
(* Types.                                                                  *)
LEMMA DeriveStatusType ==
  ASSUME NEW st, NEW cancelled \in BOOLEAN, NEW failure \in BOOLEAN
  PROVE  DeriveStatus(st, cancelled, failure) \in RunStatus
BY DEF DeriveStatus, RunStatus

\* A step is under way or ends only where the flow has one.
AtAStep == doing \in {"exec", "finish"} => pos \in Steps

Typed == TypeOK /\ AtAStep

LEMMA TypeCorrectStart ==
  ASSUME Typed, StartFresh \/ \E e \in RunIds : ResumeDefault(e) \/ ResumeAt(e)
  PROVE  Typed'
<1> USE DEF Typed, TypeOK, AtAStep
<1>1. /\ Start
      /\ origin' \in {"fresh", "default", "chosen"}
      /\ earlier' \in [Steps -> StepStatus \cup {"none"}]
      /\ from' \in Nat
  <2>1. CASE StartFresh
    BY <2>1, StepsAreNatural, SizesAssumption DEF StartFresh, Nothing
  <2>2. ASSUME NEW e \in RunIds, ResumeDefault(e)
        PROVE  <1>1!1 /\ <1>1!2 /\ <1>1!3 /\ <1>1!4
    <3>1. saved[e] \in [Steps -> StepStatus \cup {"none"}]
      OBVIOUS
    <3>2. DefaultResumePoint(saved[e]) \in Nat
      BY <3>1, DefaultResumePointType, SizesAssumption
    <3> QED
      BY <2>2, <3>1, <3>2 DEF ResumeDefault
  <2>3. ASSUME NEW e \in RunIds, ResumeAt(e)
        PROVE  <1>1!1 /\ <1>1!2 /\ <1>1!3 /\ <1>1!4
    BY <2>3, StepsAreNatural DEF ResumeAt
  <2> QED
    BY <2>1, <2>2, <2>3
<1>2. run + 1 \in RunIds /\ 1 \in 1..(LastStep + 1) /\ run + 1 \in 0..MaxRuns
  BY <1>1, SizesAssumption, StepsAreNatural DEF Start, RunIds
<1>3. until' \in {0} \cup MainSteps
  BY <1>1 DEF Start
<1> QED
  BY <1>1, <1>2, <1>3 DEF Start, Nothing

LEMMA TypeCorrectRunner ==
  ASSUME Typed, Runner
  PROVE  Typed'
<1> USE DEF Typed, TypeOK, AtAStep, At
<1>1. pos <= LastStep => pos \in Steps
  BY StepsAreNatural
<1>2. ASSUME ReuseStep PROVE Typed'
  <2>1. earlier[pos] \in StepStatus
    BY <1>1, <1>2 DEF ReuseStep, Reusable
  <2> QED
    BY <1>1, <1>2, <2>1 DEF ReuseStep, Settle, options, rows, history
<1>3. ASSUME SkipOutsideWindow PROVE Typed'
  BY <1>1, <1>3 DEF SkipOutsideWindow, Settle, options, rows, history, StepStatus
<1>4. ASSUME SkipStopped PROVE Typed'
  BY <1>1, <1>4 DEF SkipStopped, NoteCancel, CtxDone, Settle, options, rows, history, StepStatus
<1>5. ASSUME Refuse PROVE Typed'
  BY <1>1, <1>5 DEF Refuse, InTeardown, Settle, options, rows, history, StepStatus
<1>6. ASSUME Begin PROVE Typed'
  BY <1>1, <1>6 DEF Begin, options, rows, flags, history
<1>7. ASSUME NEW outcome \in StepStatus \ {"skipped"}, StepEnds(outcome) PROVE Typed'
  BY <1>7 DEF StepEnds, options, rows, flags, history
<1>8. ASSUME FinishStep PROVE Typed'
  <2>1. status[pos] \in StepStatus \cup {"none"} /\ pos \in Steps
    BY <1>8 DEF FinishStep
  <2>2. pos' \in 1..(LastStep + 1) /\ doing' = "next"
    BY <1>8, <2>1, StepsAreNatural DEF FinishStep, Advance
  <2>3. stop' \in BOOLEAN /\ cancelSeen' \in BOOLEAN /\ engineErr' \in BOOLEAN
    BY <1>8 DEF FinishStep, ApplyPolicy, NoteWrite, WriteOutcome
  <2>4. saved' \in [RunIds -> [Steps -> StepStatus \cup {"none"}]]
    <3>1. saved' = saved \/ saved' = [saved EXCEPT ![run][pos] = status[pos]]
      BY <1>8 DEF FinishStep
    <3>2. [saved EXCEPT ![run][pos] = status[pos]]
            \in [RunIds -> [Steps -> StepStatus \cup {"none"}]]
      BY <2>1
    <3> QED
      BY <3>1, <3>2
  <2> QED
    BY <1>8, <2>2, <2>3, <2>4 DEF FinishStep, options, history
<1>9. ASSUME Return PROVE Typed'
  <2> DEFINE outcome == DeriveStatus(status, cancelSeen, engineErr)
  <2>1. outcome \in RunStatus
    BY DeriveStatusType
  <2>2. final' = [final EXCEPT ![run] = outcome]
    BY <1>9 DEF Return
  <2>3. /\ \/ rowStatus' = rowStatus
           \/ rowStatus' = [rowStatus EXCEPT ![run] = final'[run]]
        /\ pinned' = pinned \/ pinned' = [pinned EXCEPT ![run] = FALSE]
    BY <1>9, Zenon DEF Return
  <2> HIDE DEF outcome
  <2>4. final' \in [RunIds -> RunStatus \cup {"none"}]
    BY <2>1, <2>2
  <2>5. run \in RunIds => final'[run] = outcome
    BY <2>2
  <2>6. rowStatus' \in [RunIds -> RunStatus \cup {"none", "running", "deleted"}]
    BY <2>1, <2>3, <2>5
  <2>7. pinned' \in [RunIds -> BOOLEAN]
    BY <2>3
  <2> QED
    BY <1>9, <2>4, <2>6, <2>7 DEF Return, options, flags, history
<1> QED
  BY <1>2, <1>3, <1>4, <1>5, <1>6, <1>7, <1>8, <1>9 DEF Runner

LEMMA TypeCorrectEnvironment ==
  ASSUME Typed,
         \/ Cancel \/ CallerGone \/ TeardownTimesOut \/ Crash
         \/ \E r \in RunIds, on \in BOOLEAN : Pin(r, on)
         \/ \E r \in RunIds : Purge(r)
  PROVE  Typed'
<1> USE DEF Typed, TypeOK, AtAStep, Unmoved, options, rows, flags, history,
            WorkRemains, Nothing
<1>1. ASSUME Cancel PROVE Typed'
  BY <1>1 DEF Cancel
<1>2. ASSUME CallerGone PROVE Typed'
  BY <1>2 DEF CallerGone
<1>3. ASSUME TeardownTimesOut PROVE Typed'
  BY <1>3 DEF TeardownTimesOut
<1>4. ASSUME Crash PROVE Typed'
  <2>1. 1 \in 1..(LastStep + 1)
    BY SizesAssumption DEF LastStep
  <2> QED
    BY <1>4, <2>1 DEF Crash
<1>5. ASSUME NEW r \in RunIds, NEW on \in BOOLEAN, Pin(r, on) PROVE Typed'
  BY <1>5 DEF Pin
<1>6. ASSUME NEW r \in RunIds, Purge(r) PROVE Typed'
  BY <1>6 DEF Purge
<1> QED
  BY <1>1, <1>2, <1>3, <1>4, <1>5, <1>6

LEMMA TypedInductive == Typed /\ [Next]_vars => Typed'
<1>1. ASSUME Typed, UNCHANGED vars PROVE Typed'
  BY <1>1 DEF Typed, AtAStep, TypeOK, vars, rows, flags, options, history
<1> QED
  BY <1>1, TypeCorrectStart, TypeCorrectRunner, TypeCorrectEnvironment DEF Next

LEMMA AlwaysTyped == Spec => []Typed
<1>1. Init => Typed
  <2> SUFFICES ASSUME Init PROVE Typed
    OBVIOUS
  <2>1. run \in 0..MaxRuns /\ pos \in 1..(LastStep + 1) /\ from \in Nat
    BY SizesAssumption, StepsAreNatural DEF Init
  <2>2. /\ Nothing \in [Steps -> StepStatus \cup {"none"}]
        /\ Nothing \in [Steps -> {"none", "ran", "reused", "skipped", "refused"}]
    BY DEF Nothing
  <2> QED
    BY <2>1, <2>2 DEF Init, Typed, TypeOK, AtAStep
<1> QED
  BY <1>1, TypedInductive, PTL DEF Spec

(* Every variable keeps its type, through every fault.                     *)
THEOREM TypeCorrect == Spec => []TypeOK
BY AlwaysTyped, PTL DEF Typed

-----------------------------------------------------------------------------
(* Nothing runs after a stop.                                              *)

\* Steps not reached yet have no outcome.
InOrder ==
  Active => \A p \in Steps :
    p > pos \/ (p = pos /\ doing # "finish") => how[p] = "none"

\* Once a step stopped the run, the flag says so and no work is under way.
StopRemembered ==
  Active =>
    /\ \A p \in Work : p < pos /\ Stops(p) =>
         stop /\ (doing = "exec" => pos \notin Work)
    /\ doing = "finish" /\ pos \in Work /\ how[pos] = "refused" => stop

StopInv == InOrder /\ StopRemembered /\ NothingRunsAfterAStop

\* The steps that settle the outcome of the step at pos without running it.
LEMMA SettleKeepsStopInv ==
  ASSUME Typed, StopInv, At("next"), pos \in Steps,
         NEW outcome, NEW reason \in {"reused", "skipped", "refused"},
         Settle(outcome, reason),
         stop => stop',
         reason = "refused" /\ pos \in Work => stop'
  PROVE  StopInv'
<1> USE DEF Typed, TypeOK, At, Active
<1>1. /\ pos' = pos /\ doing' = "finish" /\ carryOn' = carryOn
      /\ how' = [how EXCEPT ![pos] = reason]
      /\ status' = [status EXCEPT ![pos] = outcome]
  BY DEF Settle, options
<1>2. /\ how'[pos] = reason
      /\ \A p \in Steps : p # pos => how'[p] = how[p] /\ status'[p] = status[p]
  BY <1>1
<1>3. InOrder'
  BY <1>1, <1>2, StepsAreNatural DEF InOrder, StopInv
<1>4. Work \subseteq Steps
  BY SizesAssumption DEF Work, Steps, SetupSteps, MainSteps
<1>5. StopRemembered'
  BY <1>1, <1>2, <1>4, StepsAreNatural DEF StopInv, StopRemembered, Stops
<1>6. NothingRunsAfterAStop'
  <2> SUFFICES ASSUME NEW p \in Work, NEW q \in Work, p < q, Stops(p)'
               PROVE  how'[q] # "ran"
    BY DEF NothingRunsAfterAStop, Work
  <2>1. CASE q = pos
    BY <1>2, <2>1
  <2>2. CASE q # pos /\ p # pos
    BY <1>1, <1>2, <1>4, <2>2 DEF StopInv, NothingRunsAfterAStop, Stops, Work
  <2>3. CASE p = pos
    BY <1>2, <1>4, <2>3, StepsAreNatural DEF StopInv, InOrder
  <2> QED
    BY <2>1, <2>2, <2>3
<1> QED
  BY <1>3, <1>5, <1>6 DEF StopInv

LEMMA WorkAndTeardown ==
  /\ Work \subseteq Steps /\ TeardownSteps \subseteq Steps
  /\ Work \cup TeardownSteps = Steps
  /\ \A p \in TeardownSteps : p \notin Work /\ p \notin SetupSteps /\ p \notin MainSteps
  /\ \A p \in SetupSteps : p \notin MainSteps
BY SizesAssumption DEF Work, Steps, SetupSteps, MainSteps, TeardownSteps

LEMMA StopInvInductive ==
  ASSUME Typed, StopInv, [Next]_vars
  PROVE  StopInv'
<1> USE DEF Active
<1>0. /\ pos \in 1..(LastStep + 1) /\ how \in [Steps -> {"none", "ran", "reused", "skipped", "refused"}]
      /\ status \in [Steps -> StepStatus \cup {"none"}] /\ stop \in BOOLEAN /\ AtAStep
  BY DEF Typed, TypeOK
<1> USE <1>0 DEF At
<1>1. ASSUME Start PROVE StopInv'
  <2>1. /\ how' = Nothing /\ doing' = "next"
    BY <1>1 DEF Start
  <2> QED
    BY <2>1, WorkAndTeardown
       DEF StopInv, InOrder, StopRemembered, NothingRunsAfterAStop, Stops, Nothing, Work
<1>2. ASSUME ReuseStep PROVE StopInv'
  <2>1. PICK outcome : Settle(outcome, "reused")
    BY <1>2 DEF ReuseStep
  <2>2. pos \in Steps /\ At("next") /\ (stop => stop')
    BY <1>2, StepsAreNatural DEF ReuseStep
  <2> QED
    BY <2>1, <2>2, SettleKeepsStopInv, Zenon
<1>3. ASSUME SkipOutsideWindow PROVE StopInv'
  <2>1. PICK outcome : Settle(outcome, "skipped")
    BY <1>3 DEF SkipOutsideWindow
  <2>2. pos \in Steps /\ At("next") /\ (stop => stop')
    BY <1>3, StepsAreNatural DEF SkipOutsideWindow
  <2> QED
    BY <2>1, <2>2, SettleKeepsStopInv, Zenon
<1>4. ASSUME SkipStopped PROVE StopInv'
  <2>1. PICK outcome : Settle(outcome, "skipped")
    BY <1>4 DEF SkipStopped
  <2>2. pos \in Steps /\ At("next") /\ (stop => stop')
    BY <1>4, StepsAreNatural DEF SkipStopped
  <2> QED
    BY <2>1, <2>2, SettleKeepsStopInv, Zenon
<1>5. ASSUME Refuse PROVE StopInv'
  <2>1. stop' \/ pos \notin Work
    BY <1>5, WorkAndTeardown DEF Refuse, InTeardown
  <2>2. stop => stop'
    BY <1>5 DEF Refuse
  <2>3. Settle("errored", "refused") /\ pos \in Steps /\ At("next")
    BY <1>5, StepsAreNatural DEF Refuse
  <2> QED
    BY <2>1, <2>2, <2>3, SettleKeepsStopInv, Zenon
<1>6. ASSUME Begin PROVE StopInv'
  <2>1. /\ doing = "next" /\ doing' = "exec" /\ pos' = pos /\ stop' = stop
        /\ how' = how /\ status' = status /\ carryOn' = carryOn
    BY <1>6 DEF Begin, flags, options
  <2>2. pos \in Work => ~stop
    BY <1>6, WorkAndTeardown DEF Begin, MayRun, InTeardown
  <2> QED
    BY <2>1, <2>2 DEF StopInv, InOrder, StopRemembered, NothingRunsAfterAStop, Stops
<1>7. ASSUME NEW outcome \in StepStatus \ {"skipped"}, StepEnds(outcome)
      PROVE  StopInv'
  <2>1. /\ doing = "exec" /\ doing' = "finish" /\ pos' = pos /\ stop' = stop
        /\ carryOn' = carryOn
        /\ how' = [how EXCEPT ![pos] = "ran"]
        /\ status' = [status EXCEPT ![pos] = outcome]
    BY <1>7 DEF StepEnds, flags, options
  <2>2. /\ how'[pos] = "ran"
        /\ \A p \in Steps : p # pos => how'[p] = how[p] /\ status'[p] = status[p]
    BY <2>1 DEF AtAStep
  <2>3. InOrder'
    BY <2>1, <2>2, StepsAreNatural DEF StopInv, InOrder
  <2>4. StopRemembered'
    BY <2>1, <2>2, StepsAreNatural, WorkAndTeardown DEF StopInv, StopRemembered, Stops
  <2>5. NothingRunsAfterAStop'
    <3> SUFFICES ASSUME NEW p \in Work, NEW q \in Work, p < q, Stops(p)'
                 PROVE  how'[q] # "ran"
      BY DEF NothingRunsAfterAStop, Work
    <3>1. CASE q = pos
      BY <2>1, <2>2, <3>1, StepsAreNatural, WorkAndTeardown
         DEF StopInv, StopRemembered, Stops
    <3>2. CASE q # pos /\ p # pos
      BY <2>1, <2>2, <3>2, WorkAndTeardown DEF StopInv, NothingRunsAfterAStop, Stops, Work
    <3>3. CASE p = pos
      BY <2>1, <2>2, <3>3, StepsAreNatural, WorkAndTeardown DEF StopInv, InOrder
    <3> QED
      BY <3>1, <3>2, <3>3
  <2> QED
    BY <2>3, <2>4, <2>5 DEF StopInv
<1>8. ASSUME FinishStep PROVE StopInv'
  <2>1. /\ doing = "finish" /\ doing' = "next" /\ pos' = pos + 1
        /\ carryOn' = carryOn /\ how' = how /\ status' = status
        /\ pos \in Steps
    BY <1>8 DEF FinishStep, Advance, options, AtAStep
  <2>2. \A p \in Work : p <= pos /\ Stops(p) => stop'
    <3> SUFFICES ASSUME NEW p \in Work, p <= pos, Stops(p) PROVE stop'
      OBVIOUS
    <3>1. CASE p = pos
      BY <1>8, <2>1, <3>1, WorkAndTeardown
         DEF FinishStep, ApplyPolicy, InTeardown, Stops, StopInv, StopRemembered
    <3>2. CASE p # pos
      <4>1. p < pos /\ stop
        BY <2>1, <3>2, WorkAndTeardown, StepsAreNatural DEF StopInv, StopRemembered
      <4>2. pos \in Work => how[pos] # "ran"
        BY <4>1 DEF StopInv, NothingRunsAfterAStop, Work
      <4> QED
        BY <1>8, <2>1, <4>1, <4>2, WorkAndTeardown
           DEF FinishStep, ApplyPolicy, InTeardown
    <3> QED
      BY <3>1, <3>2
  <2>3. InOrder'
    BY <2>1, StepsAreNatural DEF StopInv, InOrder
  <2>4. StopRemembered'
    BY <2>1, <2>2, StepsAreNatural, WorkAndTeardown DEF StopRemembered, Stops
  <2> QED
    BY <2>1, <2>3, <2>4 DEF StopInv, NothingRunsAfterAStop, Stops
<1>9. ASSUME UNCHANGED <<how, status, pos, stop, carryOn>>,
             doing' = doing \/ doing' = "idle"
      PROVE  StopInv'
  BY <1>9 DEF StopInv, InOrder, StopRemembered, NothingRunsAfterAStop, Stops
<1>10. CASE Return
  BY <1>9, <1>10 DEF Return, flags, options
<1>11. CASE Cancel \/ CallerGone \/ TeardownTimesOut
  BY <1>9, <1>11
     DEF Cancel, CallerGone, TeardownTimesOut, Unmoved, flags, options
<1>13. CASE Crash
  <2>1. /\ ~Active' /\ pos' = 1 /\ carryOn' = carryOn
        /\ \A p \in Steps : how'[p] = "none" /\ status'[p] = "none"
    BY <1>13 DEF Crash, Nothing, options
  <2> QED
    BY <2>1, WorkAndTeardown
       DEF StopInv, InOrder, StopRemembered, NothingRunsAfterAStop, Stops, Work
<1>12. CASE \/ \E r \in RunIds : Purge(r)
            \/ \E r \in RunIds, on \in BOOLEAN : Pin(r, on)
            \/ UNCHANGED vars
  BY <1>9, <1>12 DEF Purge, Pin, Unmoved, flags, options, vars
<1> QED
  BY <1>1, <1>2, <1>3, <1>4, <1>5, <1>6, <1>7, <1>8, <1>10, <1>11, <1>12, <1>13
     DEF Next, Runner, StartFresh, ResumeDefault, ResumeAt

LEMMA AlwaysStopInv == Spec => []StopInv
<1>1. Init => StopInv
  BY WorkAndTeardown
     DEF Init, StopInv, InOrder, StopRemembered, NothingRunsAfterAStop, Stops,
         Active, Nothing, Work
<1>2. Typed /\ StopInv /\ [Next]_vars => StopInv'
  BY StopInvInductive
<1> QED
  BY <1>1, <1>2, AlwaysTyped, PTL DEF Spec

(* Whatever cancels, fails or times out, no setup or main step is executed *)
(* after one that stopped the run (runner.go:312, 388, 423).               *)
THEOREM StopIsFinal == Spec => []NothingRunsAfterAStop
BY AlwaysStopInv, PTL DEF StopInv

-----------------------------------------------------------------------------
(* The run in progress has not returned, later ones have left no trace.    *)
RunsInv ==
  /\ Active => /\ run \in RunIds
               /\ final[run] = "none"
               /\ rowStatus[run] \in {"running", "deleted"}
  /\ \A r \in RunIds : r > run =>
       final[r] = "none" /\ rowStatus[r] = "none" /\ saved[r] = Nothing

LEMMA RunsInvInductive ==
  ASSUME Typed, RunsInv, [Next]_vars
  PROVE  RunsInv'
<1> USE DEF Active, RunsInv
<1>0. /\ run \in 0..MaxRuns /\ RunIds = 1..MaxRuns /\ MaxRuns \in Nat
      /\ rowStatus \in [RunIds -> RunStatus \cup {"none", "running", "deleted"}]
      /\ final \in [RunIds -> RunStatus \cup {"none"}]
      /\ saved \in [RunIds -> [Steps -> StepStatus \cup {"none"}]]
  BY SizesAssumption DEF Typed, TypeOK, RunIds
<1>1. ASSUME Start PROVE RunsInv'
  BY <1>0, <1>1 DEF Start
<1>2. ASSUME UNCHANGED <<rows, run, final>>, Active' => Active
      PROVE  RunsInv'
  BY <1>2 DEF rows
<1>3. CASE ReuseStep \/ SkipOutsideWindow \/ SkipStopped \/ Refuse
  BY <1>2, <1>3
     DEF ReuseStep, SkipOutsideWindow, SkipStopped, Refuse, Settle, At
<1>4. CASE Begin \/ (\E outcome \in StepStatus \ {"skipped"} : StepEnds(outcome))
  BY <1>2, <1>4 DEF Begin, StepEnds, At
<1>5. ASSUME FinishStep PROVE RunsInv'
  <2>1. UNCHANGED <<rowStatus, run, final>> /\ Active
    BY <1>5 DEF FinishStep, At
  <2>2. saved' = saved \/ saved' = [saved EXCEPT ![run][pos] = status[pos]]
    BY <1>5 DEF FinishStep
  <2>3. \A r \in RunIds : r > run => saved'[r] = saved[r]
    BY <1>0, <2>2
  <2> QED
    BY <2>1, <2>3
<1>6. ASSUME Return PROVE RunsInv'
  <2>1. /\ doing' = "idle" /\ UNCHANGED <<saved, run>>
        /\ \E v : final' = [final EXCEPT ![run] = v]
        /\ \/ rowStatus' = rowStatus
           \/ \E v : rowStatus' = [rowStatus EXCEPT ![run] = v]
    BY <1>6, Zenon DEF Return
  <2> QED
    BY <1>0, <2>1
<1>7. CASE Cancel \/ CallerGone \/ TeardownTimesOut
  BY <1>2, <1>7 DEF Cancel, CallerGone, TeardownTimesOut, Unmoved
<1>8. CASE Crash
  BY <1>2, <1>8 DEF Crash, Unmoved
<1>9. ASSUME NEW r \in RunIds, NEW on \in BOOLEAN, Pin(r, on) PROVE RunsInv'
  BY <1>9 DEF Pin, Unmoved
<1>10. ASSUME NEW n \in RunIds, Purge(n) PROVE RunsInv'
  BY <1>0, <1>10 DEF Purge, Unmoved, HasRow
<1>11. CASE UNCHANGED vars
  BY <1>2, <1>11 DEF vars
<1> QED
  BY <1>1, <1>3, <1>4, <1>5, <1>6, <1>7, <1>8, <1>9, <1>10, <1>11
     DEF Next, Runner, StartFresh, ResumeDefault, ResumeAt

LEMMA AlwaysRunsInv == Spec => []RunsInv
<1>1. Init => RunsInv
  BY DEF Init, RunsInv, Active
<1>2. Typed /\ RunsInv /\ [Next]_vars => RunsInv'
  BY RunsInvInductive
<1> QED
  BY <1>1, <1>2, AlwaysTyped, PTL DEF Spec

-----------------------------------------------------------------------------
(* Teardown always runs.                                                   *)
Handled(p) == how[p] = "ran" \/ (how[p] = "refused" /\ Refs[p] \cap NoData # {})

TeardownSoFar ==
  Active => \A p \in TeardownSteps :
    p < pos \/ (p = pos /\ doing = "finish") => Handled(p)

TeardownInv == TeardownSoFar /\ TeardownAlwaysRuns

\* The step at pos gets its outcome in a way that handles a teardown step.
LEMMA OutcomeKeepsTeardownInv ==
  ASSUME Typed, RunsInv, TeardownInv, Active, pos \in Steps, NEW reason,
         how' = [how EXCEPT ![pos] = reason], doing' = "finish",
         UNCHANGED <<pos, options, run, final>>,
         pos \in TeardownSteps => Handled(pos)'
  PROVE  TeardownInv'
<1>1. \A p \in Steps : p # pos => how'[p] = how[p]
  BY DEF Typed, TypeOK
<1>2. TeardownSoFar'
  <2> SUFFICES ASSUME NEW p \in TeardownSteps, p < pos \/ p = pos
               PROVE  Handled(p)'
    BY StepsAreNatural DEF TeardownSoFar
  <2>1. CASE p = pos
    BY <2>1
  <2>2. CASE p # pos
    BY <1>1, <2>2, WorkAndTeardown
       DEF TeardownInv, TeardownSoFar, Handled, NoData, Reuse, options
  <2> QED
    BY <2>1, <2>2
<1>3. ~Returned'
  BY DEF Returned, RunsInv
<1> QED
  BY <1>2, <1>3 DEF TeardownInv, TeardownAlwaysRuns

LEMMA TeardownInvInductive ==
  ASSUME Typed, RunsInv, TeardownInv, [Next]_vars
  PROVE  TeardownInv'
<1> USE DEF Active
<1>0. pos <= LastStep => pos \in Steps
  BY StepsAreNatural DEF Typed, TypeOK
<1>1. ASSUME Start PROVE TeardownInv'
  <2>1. ~Returned'
    BY <1>1, SizesAssumption DEF Start, Returned, RunsInv, RunIds, Typed, TypeOK
  <2>2. TeardownSoFar'
    BY <1>1, WorkAndTeardown, StepsAreNatural DEF Start, TeardownSoFar
  <2> QED
    BY <2>1, <2>2 DEF TeardownInv, TeardownAlwaysRuns
<1>2. CASE ReuseStep \/ SkipOutsideWindow \/ SkipStopped
  <2>1. pos \in Steps /\ pos \notin TeardownSteps /\ Active
    BY <1>0, <1>2, WorkAndTeardown
       DEF ReuseStep, SkipOutsideWindow, SkipStopped, Reusable, OutsideWindow,
           StoppedAt, Due, Work, At
  <2>2. PICK outcome, reason : Settle(outcome, reason)
    BY <1>2 DEF ReuseStep, SkipOutsideWindow, SkipStopped
  <2> QED
    BY <2>1, <2>2, OutcomeKeepsTeardownInv, Zenon DEF Settle
<1>3. ASSUME Refuse PROVE TeardownInv'
  <2>1. /\ pos \in Steps /\ Active /\ Settle("errored", "refused")
        /\ Refs[pos] \cap NoData # {}
    BY <1>0, <1>3 DEF Refuse, At
  <2>2. Handled(pos)'
    BY <2>1 DEF Settle, Handled, NoData, Reuse, options, Typed, TypeOK
  <2> QED
    BY <2>1, <2>2, OutcomeKeepsTeardownInv, Zenon DEF Settle
<1>4. ASSUME NEW outcome \in StepStatus \ {"skipped"}, StepEnds(outcome)
      PROVE  TeardownInv'
  <2>1. /\ pos \in Steps /\ Active /\ how' = [how EXCEPT ![pos] = "ran"]
        /\ doing' = "finish" /\ UNCHANGED <<pos, options, run, final>>
    BY <1>4 DEF StepEnds, At, Typed, AtAStep
  <2>2. Handled(pos)'
    BY <2>1 DEF Handled, Typed, TypeOK
  <2> QED
    BY <2>1, <2>2, OutcomeKeepsTeardownInv, Zenon
<1>5. ASSUME FinishStep PROVE TeardownInv'
  <2>1. /\ pos \in Steps /\ doing = "finish" /\ pos' = pos + 1 /\ doing' = "next"
        /\ UNCHANGED <<how, options, run, final>>
    BY <1>5 DEF FinishStep, Advance, At, Typed, AtAStep
  <2> QED
    BY <2>1, StepsAreNatural, WorkAndTeardown
       DEF TeardownInv, TeardownSoFar, TeardownAlwaysRuns, Returned, Handled,
           NoData, Reuse, options
<1>6. ASSUME Return PROVE TeardownInv'
  <2>1. /\ doing = "next" /\ pos > LastStep /\ doing' = "idle"
        /\ UNCHANGED <<how, options>>
    BY <1>6 DEF Return, At
  <2>2. \A p \in TeardownSteps : p < pos
    BY <2>1, StepsAreNatural, WorkAndTeardown DEF Typed, TypeOK
  <2> QED
    BY <2>1, <2>2
       DEF TeardownInv, TeardownSoFar, TeardownAlwaysRuns, Handled,
           NoData, Reuse, options
<1>7. ASSUME UNCHANGED <<how, pos, options, run, final>>,
             Active' => Active /\ (doing' = "finish" <=> doing = "finish")
      PROVE  TeardownInv'
  BY <1>7 DEF TeardownInv, TeardownSoFar, TeardownAlwaysRuns, Returned, Handled,
              NoData, Reuse, options
<1>8. CASE Begin \/ Cancel \/ CallerGone \/ TeardownTimesOut
  BY <1>7, <1>8 DEF Begin, Cancel, CallerGone, TeardownTimesOut, Unmoved, At
<1>10. CASE Crash
  BY <1>10 DEF Crash, RunsInv, TeardownInv, TeardownSoFar, TeardownAlwaysRuns,
               Returned
<1>9. CASE \/ \E r \in RunIds : Purge(r)
           \/ \E r \in RunIds, on \in BOOLEAN : Pin(r, on)
           \/ UNCHANGED vars
  BY <1>7, <1>9 DEF Purge, Pin, Unmoved, vars
<1> QED
  BY <1>1, <1>2, <1>3, <1>4, <1>5, <1>6, <1>8, <1>9, <1>10
     DEF Next, Runner, StartFresh, ResumeDefault, ResumeAt

(* A run that returns has executed every teardown step, or refused it for  *)
(* want of the data from_step left out (runner.go:432-457).                *)
THEOREM TeardownRuns == Spec => []TeardownAlwaysRuns
<1>1. Init => TeardownInv
  BY DEF Init, TeardownInv, TeardownSoFar, TeardownAlwaysRuns, Returned, Active
<1>2. Typed /\ RunsInv /\ TeardownInv /\ [Next]_vars => TeardownInv'
  BY TeardownInvInductive
<1>3. TeardownInv => TeardownAlwaysRuns
  BY DEF TeardownInv
<1> QED
  BY <1>1, <1>2, <1>3, AlwaysTyped, AlwaysRunsInv, PTL DEF Spec

-----------------------------------------------------------------------------
(* A cancellation in time marks the run cancelled.                         *)

\* It is on record, or a step is left that will notice it.
CancelPending ==
  Active /\ inTime => CtxDone /\ (cancelSeen \/ WorkRemains)

CancelInv == CancelPending /\ CancelInTimeMarksCancelled

\* While the run goes on, nothing but CancelPending can be disturbed.
LEMMA PendingIsEnough ==
  ASSUME RunsInv', Active', CancelPending'
  PROVE  CancelInv'
BY DEF RunsInv, CancelInv, CancelInTimeMarksCancelled, Returned

\* A step that leaves the context alone and the step at pos behind.
LEMMA PassingKeepsPending ==
  ASSUME Typed, CancelInv, RunsInv', Active, Active',
         UNCHANGED <<options, ctx, inTime>>,
         cancelSeen => cancelSeen',
         (pos' = pos /\ (doing' = "next" <=> doing = "next"))
           \/ (pos' = pos /\ (~inTime \/ cancelSeen' \/ ~Due(pos)))
           \/ (pos' = pos + 1 /\ doing' = "next" /\ doing # "next")
  PROVE  CancelInv'
<1>1. \A p \in Steps : Due(p)' <=> Due(p)
  BY DEF Due, Reusable, Reuse, OutsideWindow, options
<1>2. inTime => cancelSeen' \/ WorkRemains'
  BY <1>1, StepsAreNatural
     DEF CancelInv, CancelPending, WorkRemains, Typed, TypeOK
<1> QED
  BY <1>2, PendingIsEnough DEF CancelInv, CancelPending, CtxDone

LEMMA CancelInvInductive ==
  ASSUME Typed, RunsInv, RunsInv', CancelInv, [Next]_vars
  PROVE  CancelInv'
<1> USE DEF Active
<1>1. ASSUME Start PROVE CancelInv'
  BY <1>1, PendingIsEnough DEF Start, CancelPending
<1>2. CASE ReuseStep \/ SkipOutsideWindow
  <2>1. ~Due(pos)
    BY <1>2 DEF ReuseStep, SkipOutsideWindow, Due
  <2>2. /\ Active /\ Active' /\ pos' = pos /\ cancelSeen' = cancelSeen
        /\ UNCHANGED <<options, ctx, inTime>>
    BY <1>2 DEF ReuseStep, SkipOutsideWindow, Settle, At, history
  <2> QED
    BY <2>1, <2>2, PassingKeepsPending
<1>3. ASSUME SkipStopped PROVE CancelInv'
  <2>1. inTime => cancelSeen'
    BY <1>3 DEF SkipStopped, NoteCancel, CancelInv, CancelPending, At
  <2>2. /\ Active /\ Active' /\ pos' = pos /\ (cancelSeen => cancelSeen')
        /\ UNCHANGED <<options, ctx, inTime>>
    BY <1>3 DEF SkipStopped, NoteCancel, Settle, At, history
  <2> QED
    BY <2>1, <2>2, PassingKeepsPending
<1>4. CASE Refuse \/ Begin
  <2>1. ~Due(pos) \/ ~inTime
    BY <1>4, WorkAndTeardown
       DEF Refuse, Begin, MayRun, InTeardown, Due, Work, CancelInv, CancelPending, At
  <2>2. /\ Active /\ Active' /\ pos' = pos /\ cancelSeen' = cancelSeen
        /\ UNCHANGED <<options, ctx, inTime>>
    BY <1>4 DEF Refuse, Begin, Settle, At, history, flags
  <2> QED
    BY <2>1, <2>2, PassingKeepsPending
<1>5. ASSUME NEW outcome \in StepStatus \ {"skipped"}, StepEnds(outcome)
      PROVE  CancelInv'
  <2>1. /\ Active /\ Active' /\ pos' = pos /\ cancelSeen' = cancelSeen
        /\ doing # "next" /\ doing' # "next"
        /\ UNCHANGED <<options, ctx, inTime>>
    BY <1>5 DEF StepEnds, At, history, flags
  <2> QED
    BY <2>1, PassingKeepsPending
<1>6. ASSUME FinishStep PROVE CancelInv'
  <2>1. /\ Active /\ Active' /\ pos' = pos + 1 /\ (cancelSeen => cancelSeen')
        /\ doing # "next" /\ doing' = "next"
        /\ UNCHANGED <<options, ctx, inTime>>
    BY <1>6 DEF FinishStep, Advance, ApplyPolicy, At, history
  <2> QED
    BY <2>1, PassingKeepsPending
<1>7. ASSUME Return PROVE CancelInv'
  <2>1. /\ ~Active' /\ Active /\ pos > LastStep /\ UNCHANGED <<inTime, run>>
        /\ final' = [final EXCEPT ![run] = DeriveStatus(status, cancelSeen, engineErr)]
    BY <1>7 DEF Return, At, history
  <2>2. inTime => cancelSeen
    BY <2>1, StepsAreNatural
       DEF CancelInv, CancelPending, WorkRemains, Typed, TypeOK
  <2>3. cancelSeen => DeriveStatus(status, cancelSeen, engineErr) = "cancelled"
    BY DEF DeriveStatus
  <2>4. run \in RunIds
    BY <2>1 DEF RunsInv
  <2>5. inTime => final'[run] = "cancelled"
    BY <2>1, <2>2, <2>3, <2>4 DEF Typed, TypeOK
  <2> QED
    BY <2>1, <2>5 DEF CancelInv, CancelPending, CancelInTimeMarksCancelled
<1>8. CASE Cancel \/ CallerGone
  <2>1. /\ Active /\ Active' /\ ctx' # "live"
        /\ UNCHANGED <<pos, doing, cancelSeen, options>>
        /\ inTime' = (inTime \/ WorkRemains)
    BY <1>8, Zenon DEF Cancel, CallerGone, Unmoved, flags, CtxDone
  <2>2. WorkRemains' <=> WorkRemains
    BY <2>1 DEF WorkRemains, Due, Reusable, Reuse, OutsideWindow, options
  <2> QED
    BY <2>1, <2>2, PendingIsEnough DEF CancelInv, CancelPending, CtxDone
<1>9. ASSUME UNCHANGED <<pos, options, ctx, inTime, cancelSeen, run, final>>,
             doing' = doing \/ ~Active'
      PROVE  CancelInv'
  <2>1. CASE Active /\ Active'
    BY <1>9, <2>1, PassingKeepsPending
  <2>2. CASE ~Active'
    BY <1>9, <2>2 DEF CancelInv, CancelPending, CancelInTimeMarksCancelled, Returned
  <2> QED
    BY <1>9, <2>1, <2>2
<1>10. CASE TeardownTimesOut
  BY <1>9, <1>10 DEF TeardownTimesOut, Unmoved, flags, history
<1>12. CASE Crash
  BY <1>12 DEF Crash, RunsInv, CancelInv, CancelPending,
               CancelInTimeMarksCancelled, Returned
<1>11. CASE \/ \E r \in RunIds : Purge(r)
            \/ \E r \in RunIds, on \in BOOLEAN : Pin(r, on)
            \/ UNCHANGED vars
  BY <1>9, <1>11 DEF Purge, Pin, Unmoved, flags, history, vars
<1> QED
  BY <1>1, <1>2, <1>3, <1>4, <1>5, <1>6, <1>7, <1>8, <1>10, <1>11, <1>12
     DEF Next, Runner, StartFresh, ResumeDefault, ResumeAt

(* A run whose context ends while a step that would run is left ends as    *)
(* cancelled (runner.go:312, 388).                                         *)
THEOREM CancelledInTime == Spec => []CancelInTimeMarksCancelled
<1>1. Init => CancelInv
  BY DEF Init, CancelInv, CancelPending, CancelInTimeMarksCancelled, Active
<1>2. Typed /\ RunsInv /\ RunsInv' /\ CancelInv /\ [Next]_vars => CancelInv'
  BY CancelInvInductive
<1>3. CancelInv => CancelInTimeMarksCancelled
  BY DEF CancelInv
<1> QED
  BY <1>1, <1>2, <1>3, AlwaysTyped, AlwaysRunsInv, PTL DEF Spec

-----------------------------------------------------------------------------
(* A settled row is a complete one.                                        *)
RecordedSoFar ==
  /\ doing = "finish" => status[pos] # "none"
  /\ Active /\ ~engineErr /\ HasRow(run) =>
       \A p \in Steps : p < pos => saved[run][p] # "none"

RowsInv == RecordedSoFar /\ SettledMeansRecorded

LEMMA RowsInvInductive ==
  ASSUME Typed, RunsInv, RowsInv, [Next]_vars
  PROVE  RowsInv'
<1> USE DEF Active
<1>0. pos <= LastStep => pos \in Steps
  BY StepsAreNatural DEF Typed, TypeOK
<1>1. ASSUME Start PROVE RowsInv'
  <2>1. /\ run' = run + 1 /\ run' \in RunIds /\ saved' = saved
        /\ rowStatus' = [rowStatus EXCEPT ![run + 1] = "running"]
    BY <1>1, SizesAssumption DEF Start, RunIds, Typed, TypeOK
  <2>2. \A r \in RunIds : rowStatus'[r] = rowStatus[r] \/ rowStatus'[r] = "running"
    BY <2>1 DEF Typed, TypeOK
  <2>3. RecordedSoFar'
    BY <1>1, StepsAreNatural DEF Start, RecordedSoFar
  <2> QED
    BY <2>1, <2>2, <2>3 DEF RowsInv, SettledMeansRecorded
<1>2. ASSUME NEW outcome \in StepStatus, pos \in Steps, Active,
             status' = [status EXCEPT ![pos] = outcome],
             UNCHANGED <<rows, run, pos, engineErr>>
      PROVE  RowsInv'
  <2>1. status'[pos] # "none"
    BY <1>2 DEF Typed, TypeOK, StepStatus
  <2> QED
    BY <1>2, <2>1 DEF RowsInv, RecordedSoFar, SettledMeansRecorded, HasRow, rows
<1>3. ASSUME ReuseStep PROVE RowsInv'
  <2>1. pos \in Steps /\ earlier[pos] \in StepStatus
    BY <1>0, <1>3 DEF ReuseStep, Reusable, Typed, TypeOK
  <2> QED
    BY <1>2, <1>3, <2>1 DEF ReuseStep, Settle, At
<1>4. CASE SkipOutsideWindow \/ SkipStopped \/ Refuse
  <2>1. PICK outcome \in StepStatus, reason \in {"skipped", "refused"} : Settle(outcome, reason)
    BY <1>4 DEF SkipOutsideWindow, SkipStopped, Refuse, StepStatus
  <2>2. pos \in Steps /\ Active
    BY <1>0, <1>4 DEF SkipOutsideWindow, SkipStopped, Refuse, At
  <2> QED
    BY <1>2, <2>1, <2>2 DEF Settle
<1>5. ASSUME NEW outcome \in StepStatus \ {"skipped"}, StepEnds(outcome)
      PROVE  RowsInv'
  BY <1>2, <1>5 DEF StepEnds, At, flags, Typed, AtAStep
<1>6. ASSUME FinishStep PROVE RowsInv'
  <2>1. /\ pos \in Steps /\ doing' = "next" /\ pos' = pos + 1
        /\ status[pos] # "none"
        /\ UNCHANGED <<rowStatus, run>>
    BY <1>6 DEF FinishStep, Advance, At, RowsInv, RecordedSoFar, Typed, AtAStep
  <2>2. /\ saved' = saved \/ saved' = [saved EXCEPT ![run][pos] = status[pos]]
        /\ ~engineErr' => ~engineErr /\ saved' = [saved EXCEPT ![run][pos] = status[pos]]
    BY <1>6 DEF FinishStep, NoteWrite, WriteOutcome
  <2>3. run \in RunIds /\ rowStatus[run] \in {"running", "deleted"}
    BY <1>6 DEF FinishStep, At, RunsInv
  <2>4. \A r \in RunIds : r # run => saved'[r] = saved[r]
    BY <2>2 DEF Typed, TypeOK
  <2>5. ~engineErr' =>
          \A p \in Steps : saved'[run][p] = IF p = pos THEN status[pos] ELSE saved[run][p]
    BY <2>1, <2>2, <2>3 DEF Typed, TypeOK
  <2>6. RecordedSoFar'
    BY <1>6, <2>1, <2>2, <2>3, <2>5, StepsAreNatural
       DEF FinishStep, At, RowsInv, RecordedSoFar, HasRow
  <2>7. SettledMeansRecorded'
    BY <2>1, <2>3, <2>4 DEF RowsInv, SettledMeansRecorded
  <2> QED
    BY <2>6, <2>7 DEF RowsInv
<1>7. ASSUME Return PROVE RowsInv'
  <2> DEFINE outcome == DeriveStatus(status, cancelSeen, engineErr)
  <2>1. /\ doing = "next" /\ pos > LastStep /\ doing' = "idle" /\ saved' = saved
        /\ final' = [final EXCEPT ![run] = outcome]
        /\ \/ rowStatus' = rowStatus
           \/ HasRow(run) /\ rowStatus' = [rowStatus EXCEPT ![run] = final'[run]]
    BY <1>7, Zenon DEF Return, At, WriteOutcome
  <2>2. run \in RunIds /\ final'[run] = outcome
    BY <2>1 DEF RunsInv, Typed, TypeOK
  <2>3. outcome \in {"passed", "failed"} => ~engineErr
    BY DEF DeriveStatus
  <2> HIDE DEF outcome
  <2>4. \A r \in RunIds : r # run => rowStatus'[r] = rowStatus[r]
    BY <2>1 DEF Typed, TypeOK
  <2>5. \A p \in Steps : p < pos
    BY <2>1, StepsAreNatural DEF Typed, TypeOK
  <2>6. rowStatus'[run] \in {"passed", "failed"} =>
          \A p \in Steps : saved'[run][p] # "none"
    BY <2>1, <2>2, <2>3, <2>5
       DEF RowsInv, RecordedSoFar, SettledMeansRecorded, Typed, TypeOK
  <2>7. SettledMeansRecorded'
    BY <2>1, <2>4, <2>6 DEF RowsInv, SettledMeansRecorded
  <2> QED
    BY <2>1, <2>7 DEF RowsInv, RecordedSoFar
<1>8. ASSUME UNCHANGED <<rowStatus, saved, run, pos, status, engineErr>>,
             Active' => Active, doing' = "finish" => doing = "finish"
      PROVE  RowsInv'
  BY <1>8 DEF RowsInv, RecordedSoFar, SettledMeansRecorded, HasRow
<1>9. CASE Begin \/ Cancel \/ CallerGone \/ TeardownTimesOut
  BY <1>8, <1>9
     DEF Begin, Cancel, CallerGone, TeardownTimesOut, Unmoved, At, rows, flags
<1>12. CASE Crash
  BY <1>12 DEF Crash, RowsInv, RecordedSoFar, SettledMeansRecorded, rows
<1>10. CASE (\E r \in RunIds, on \in BOOLEAN : Pin(r, on)) \/ UNCHANGED vars
  BY <1>8, <1>10 DEF Pin, Unmoved, flags, vars, rows
<1>11. ASSUME NEW n \in RunIds, Purge(n) PROVE RowsInv'
  <2>1. /\ UNCHANGED <<run, pos, status, engineErr, doing>>
        /\ \A r \in RunIds : \/ rowStatus'[r] = "deleted"
                             \/ rowStatus'[r] = rowStatus[r] /\ saved'[r] = saved[r]
    BY <1>11 DEF Purge, Unmoved, flags
  <2>2. RecordedSoFar'
    BY <2>1 DEF RowsInv, RecordedSoFar, HasRow, RunsInv
  <2> QED
    BY <2>1, <2>2 DEF RowsInv, SettledMeansRecorded
<1> QED
  BY <1>1, <1>3, <1>4, <1>5, <1>6, <1>7, <1>9, <1>10, <1>11, <1>12
     DEF Next, Runner, StartFresh, ResumeDefault, ResumeAt

LEMMA AlwaysRowsInv == Spec => []RowsInv
<1>1. Init => RowsInv
  BY DEF Init, RowsInv, RecordedSoFar, SettledMeansRecorded, Active
<1>2. Typed /\ RunsInv /\ RowsInv /\ [Next]_vars => RowsInv'
  BY RowsInvInductive
<1> QED
  BY <1>1, <1>2, AlwaysTyped, AlwaysRunsInv, PTL DEF Spec

(* A row that says passed or failed has a row for every step, whatever the *)
(* store, the caller and the process did (runner.go:459-476).              *)
THEOREM SettledIsComplete == Spec => []SettledMeansRecorded
BY AlwaysRowsInv, PTL DEF RowsInv

-----------------------------------------------------------------------------
(* The default resume point is covered, while the store does not fail.     *)

\* No main step has a row when one before it has none.
GapFree(s) ==
  \A p, q \in MainSteps : p < q /\ s[q] # "none" => s[p] # "none"

(* Over rows without a gap, the default resume point (resume.go:158-179)   *)
(* has only passed steps before it.                                        *)
LEMMA PassedBeforeResumePoint ==
  ASSUME NEW s \in [Steps -> StepStatus \cup {"none"}], GapFree(s),
         NEW p \in MainSteps, p < DefaultResumePoint(s)
  PROVE  s[p] = "passed"
<1> DEFINE recorded == {x \in MainSteps : s[x] # "none"}
           notPassed == {x \in recorded : s[x] # "passed"}
<1>1. p \in Nat /\ p \in (NSetup + 1)..(NSetup + NMain)
  BY StepsAreNatural DEF MainSteps
<1>2. CASE notPassed # {}
  <2>1. /\ DefaultResumePoint(s) = MinOf(notPassed)
        /\ MinOf(notPassed) \in notPassed
        /\ \A x \in notPassed : MinOf(notPassed) <= x
    BY <1>2, MinOfMainSteps DEF DefaultResumePoint
  <2>2. p \in recorded
    BY <2>1 DEF GapFree
  <2>3. p \notin notPassed
    <3>1. MinOf(notPassed) \in Nat /\ p < MinOf(notPassed)
      BY <2>1, StepsAreNatural
    <3>2. p \in notPassed => MinOf(notPassed) <= p
      BY <2>1
    <3> HIDE DEF notPassed
    <3> QED
      BY <1>1, <3>1, <3>2
  <2> QED
    BY <2>2, <2>3
<1>3. CASE notPassed = {}
  <2>1. DefaultResumePoint(s) = NSetup + Cardinality(recorded) + 1
    BY <1>3 DEF DefaultResumePoint
  <2>2. ASSUME p \notin recorded PROVE FALSE
    <3>1. recorded \subseteq (NSetup + 1)..(p - 1)
      <4> SUFFICES ASSUME NEW x \in recorded PROVE x \in (NSetup + 1)..(p - 1)
        OBVIOUS
      <4>1. ~(p < x) /\ p # x
        BY <2>2 DEF GapFree
      <4>2. x \in (NSetup + 1)..(NSetup + NMain)
        BY DEF MainSteps
      <4> QED
        BY <1>1, <4>1, <4>2, SizesAssumption
    <3>2. /\ IsFiniteSet((NSetup + 1)..(p - 1))
          /\ Cardinality((NSetup + 1)..(p - 1)) = p - 1 - NSetup
      <4>1. NSetup + 1 \in Int /\ p - 1 \in Int /\ p - 1 >= NSetup
        BY <1>1, SizesAssumption
      <4>2. /\ IsFiniteSet((NSetup + 1)..(p - 1))
            /\ Cardinality((NSetup + 1)..(p - 1))
                 = IF NSetup + 1 > p - 1 THEN 0 ELSE (p - 1) - (NSetup + 1) + 1
        BY <4>1, FS_Interval
      <4> QED
        BY <4>1, <4>2, SizesAssumption
    <3>3. Cardinality(recorded) <= p - 1 - NSetup
      BY <3>1, <3>2, FS_Subset
    <3>4. Cardinality(recorded) \in Nat
      BY RecordedIsFinite
    <3> QED
      BY <1>1, <2>1, <3>3, <3>4, SizesAssumption
  <2> QED
    BY <1>3, <2>2
<1> QED
  BY <1>2, <1>3

GapInv ==
  /\ \A r \in RunIds : GapFree(saved[r])
  /\ Active => \A p \in Steps : p >= pos => saved[run][p] = "none"
  /\ Active /\ HasRow(run) =>
       \A p \in MainSteps : p < pos /\ saved[run][p] = "none" => CtxDone
  /\ Active /\ origin = "default" =>
       GapFree(earlier) /\ from = DefaultResumePoint(earlier)

LEMMA GapInvInductive ==
  ASSUME "store" \notin Faults, Typed, RunsInv, RowsInv, GapInv, [Next]_vars
  PROVE  GapInv'
<1> USE DEF Active
<1>0. MainSteps \subseteq Steps
  BY StepsAreNatural
<1>1. ASSUME StartFresh \/ \E e \in RunIds : ResumeDefault(e) \/ ResumeAt(e)
      PROVE  GapInv'
  <2>1. Start
    BY <1>1 DEF StartFresh, ResumeDefault, ResumeAt
  <2>2. /\ run' = run + 1 /\ run' \in RunIds /\ saved' = saved /\ pos' = 1
        /\ saved'[run'] = Nothing
    BY <2>1, SizesAssumption DEF Start, RunIds, RunsInv, Typed, TypeOK
  <2>3. origin' = "default" =>
          GapFree(earlier)' /\ from' = DefaultResumePoint(earlier')
    BY <1>1 DEF StartFresh, ResumeDefault, ResumeAt, GapInv, GapFree
  <2>4. \A p \in Steps : saved'[run'][p] = "none"
    BY <2>2 DEF Nothing
  <2>5. \A p \in MainSteps : ~(p < pos')
    BY <2>2, SizesAssumption DEF MainSteps
  <2> QED
    BY <2>2, <2>3, <2>4, <2>5 DEF GapInv, GapFree, DefaultResumePoint
<1>2. ASSUME UNCHANGED <<saved, rowStatus, run, pos, options>>,
             Active' => Active, CtxDone => CtxDone'
      PROVE  GapInv'
  BY <1>2 DEF GapInv, GapFree, HasRow, options, DefaultResumePoint
<1>3. CASE ReuseStep \/ SkipOutsideWindow \/ SkipStopped \/ Refuse
  BY <1>2, <1>3
     DEF ReuseStep, SkipOutsideWindow, SkipStopped, Refuse, Settle, At, rows, CtxDone
<1>4. CASE Begin \/ (\E outcome \in StepStatus \ {"skipped"} : StepEnds(outcome))
  BY <1>2, <1>4 DEF Begin, StepEnds, At, rows, CtxDone
<1>5. ASSUME FinishStep PROVE GapInv'
  <2>1. /\ Active /\ pos \in Steps /\ pos' = pos + 1
        /\ UNCHANGED <<rowStatus, run, ctx, origin, from, earlier>>
    BY <1>5 DEF FinishStep, Advance, At, options, Typed, AtAStep
  <2>2. run \in RunIds /\ pos \in Nat /\ saved \in [RunIds -> [Steps -> StepStatus \cup {"none"}]]
    BY <2>1, StepsAreNatural DEF RunsInv, Typed, TypeOK
  <2>3. \/ GapFree(earlier)' /\ from' = DefaultResumePoint(earlier)'
        \/ origin' # "default"
    BY <2>1 DEF GapInv, GapFree, DefaultResumePoint
  <2>4. CASE CanWrite /\ saved' = [saved EXCEPT ![run][pos] = status[pos]]
    <3>1. /\ \A r \in RunIds : r # run => saved'[r] = saved[r]
          /\ saved'[run][pos] = status[pos]
          /\ \A p \in Steps : p # pos => saved'[run][p] = saved[run][p]
      BY <2>1, <2>2, <2>4
    <3>2. pos \in MainSteps => \A p \in MainSteps : p < pos => saved[run][p] # "none"
      BY <2>1, <2>4, WorkAndTeardown DEF CanWrite, GapInv, InTeardown, Work
    <3>3. GapFree(saved'[run])
      <4> SUFFICES ASSUME NEW p \in MainSteps, NEW q \in MainSteps, p < q,
                          saved'[run][q] # "none"
                   PROVE  saved'[run][p] # "none"
        BY DEF GapFree
      <4>1. CASE q = pos
        BY <1>0, <3>1, <3>2, <4>1, StepsAreNatural
      <4>2. CASE q # pos
        <5>1. saved[run][q] # "none" /\ ~(q >= pos)
          BY <1>0, <2>1, <3>1, <4>2 DEF GapInv
        <5>2. saved[run][p] # "none" /\ p # pos
          BY <2>2, <5>1, StepsAreNatural DEF GapInv, GapFree
        <5> QED
          BY <1>0, <3>1, <5>2
      <4> QED
        BY <4>1, <4>2
    <3>4. \A p \in Steps : p >= pos' => saved'[run][p] = "none"
      <4> SUFFICES ASSUME NEW p \in Steps, p >= pos'
                   PROVE  saved'[run][p] = "none"
        OBVIOUS
      <4>1. p # pos /\ p >= pos
        BY <2>1, <2>2, StepsAreNatural
      <4>2. saved[run][p] = "none"
        BY <2>1, <4>1 DEF GapInv
      <4> QED
        BY <3>1, <4>1, <4>2
    <3>5. HasRow(run)' => \A p \in MainSteps :
            p < pos' /\ saved'[run][p] = "none" => CtxDone'
      <4> SUFFICES ASSUME HasRow(run)', NEW p \in MainSteps, p < pos',
                          saved'[run][p] = "none"
                   PROVE  CtxDone'
        OBVIOUS
      <4>1. CASE p = pos
        BY <1>5, <3>1, <4>1 DEF FinishStep, At, RowsInv, RecordedSoFar
      <4>2. CASE p # pos
        BY <1>0, <2>1, <2>2, <3>1, <4>2, StepsAreNatural DEF GapInv, HasRow, CtxDone
      <4> QED
        BY <4>1, <4>2
    <3> QED
      BY <2>1, <2>3, <3>1, <3>3, <3>4, <3>5 DEF GapInv, GapFree
  <2>5. CASE ~CanWrite /\ saved' = saved
    <3>1. HasRow(run) /\ pos \in MainSteps => CtxDone
      BY <2>5, WorkAndTeardown DEF CanWrite, InTeardown
    <3> QED
      BY <1>0, <2>1, <2>2, <2>3, <2>5, <3>1, StepsAreNatural
         DEF GapInv, GapFree, HasRow, CtxDone
  <2> QED
    BY <1>5, <2>4, <2>5 DEF FinishStep, WriteOutcome
<1>6. CASE Return
  <2>1. ~Active' /\ saved' = saved
    BY <1>6 DEF Return
  <2> QED
    BY <2>1 DEF GapInv, GapFree
<1>7. CASE Cancel \/ CallerGone \/ TeardownTimesOut
  BY <1>2, <1>7
     DEF Cancel, CallerGone, TeardownTimesOut, Unmoved, rows, options, CtxDone
<1>10. CASE Crash
  BY <1>10 DEF Crash, GapInv, GapFree, rows
<1>8. CASE (\E r \in RunIds, on \in BOOLEAN : Pin(r, on)) \/ UNCHANGED vars
  BY <1>2, <1>8 DEF Pin, Unmoved, options, vars, rows, CtxDone
<1>9. ASSUME NEW n \in RunIds, Purge(n) PROVE GapInv'
  <2>1. /\ UNCHANGED <<run, pos, doing, ctx, origin, from, earlier>>
        /\ \A r \in RunIds : \/ rowStatus'[r] = "deleted" /\ saved'[r] = Nothing
                             \/ rowStatus'[r] = rowStatus[r] /\ saved'[r] = saved[r]
    BY <1>9 DEF Purge, Unmoved, options
  <2>2. GapFree(Nothing) /\ \A p \in Steps : Nothing[p] = "none"
    BY <1>0 DEF GapFree, Nothing
  <2>3. \A r \in RunIds : GapFree(saved'[r])
    BY <2>1, <2>2 DEF GapInv
  <2>4. Active' /\ HasRow(run)' =>
          \A p \in MainSteps : p < pos' /\ saved'[run][p] = "none" => CtxDone'
    BY <2>1 DEF GapInv, RunsInv, HasRow, CtxDone
  <2>5. Active' => \A p \in Steps : p >= pos' => saved'[run][p] = "none"
    BY <2>1, <2>2 DEF GapInv, RunsInv
  <2>6. Active' /\ origin' = "default" =>
          GapFree(earlier)' /\ from' = DefaultResumePoint(earlier)'
    BY <2>1 DEF GapInv, GapFree, DefaultResumePoint
  <2> QED
    BY <2>1, <2>3, <2>4, <2>5, <2>6 DEF GapInv, GapFree
<1> QED
  BY <1>1, <1>3, <1>4, <1>5, <1>6, <1>7, <1>8, <1>9, <1>10 DEF Next, Runner

(* Whatever ended the earlier run, while the store itself does not fail    *)
(* the default resume point leaves no step without a result before it.     *)
THEOREM ResumeIsCovered ==
  ASSUME "store" \notin Faults
  PROVE  Spec => []ResumePointIsCovered
<1>1. Init => GapInv
  BY StepsAreNatural DEF Init, GapInv, GapFree, Active, Nothing
<1>2. Typed /\ RunsInv /\ RowsInv /\ GapInv /\ [Next]_vars => GapInv'
  BY GapInvInductive
<1>3. Typed /\ GapInv => ResumePointIsCovered
  <2> SUFFICES ASSUME Typed, GapInv, origin = "default", Active
               PROVE  /\ from <= NSetup + NMain + 1
                      /\ \A p \in MainSteps : p < from => earlier[p] = "passed"
    BY DEF ResumePointIsCovered
  <2>1. /\ earlier \in [Steps -> StepStatus \cup {"none"}]
        /\ GapFree(earlier) /\ from = DefaultResumePoint(earlier)
    BY DEF Typed, TypeOK, GapInv
  <2>2. from \in (NSetup + 1)..(NSetup + NMain + 1)
    BY <2>1, DefaultResumePointType
  <2> QED
    BY <2>1, <2>2, PassedBeforeResumePoint, SizesAssumption
<1> QED
  BY <1>1, <1>2, <1>3, AlwaysTyped, AlwaysRunsInv, AlwaysRowsInv, PTL DEF Spec

-----------------------------------------------------------------------------
(* Pins on finished runs.                                                  *)
PinsHaveRows == \A r \in RunIds : pinned[r] => rowStatus[r] # "none"

LEMMA PinsStep ==
  ASSUME Typed, RunsInv, PinsHaveRows, [Next]_vars
  PROVE  /\ PinsHaveRows'
         /\ \A r \in RunIds : OverPinSurvives(r)
<1> USE DEF PinsHaveRows, OverPinSurvives
<1>0. /\ pinned \in [RunIds -> BOOLEAN]
      /\ rowStatus \in [RunIds -> RunStatus \cup {"none", "running", "deleted"}]
      /\ final \in [RunIds -> RunStatus \cup {"none"}]
  BY DEF Typed, TypeOK
<1>1. CASE Start
  <2>1. /\ pinned' = pinned
        /\ rowStatus' = [rowStatus EXCEPT ![run + 1] = "running"]
    BY <1>1 DEF Start
  <2>2. run + 1 \in RunIds => rowStatus[run + 1] = "none"
    BY SizesAssumption DEF RunsInv, RunIds, Typed, TypeOK
  <2> QED
    BY <1>0, <2>1, <2>2
<1>2. ASSUME UNCHANGED <<pinned, rowStatus>>
      PROVE  PinsHaveRows' /\ \A r \in RunIds : OverPinSurvives(r)
  BY <1>2
<1>3. CASE \/ ReuseStep \/ SkipOutsideWindow \/ SkipStopped \/ Refuse \/ Begin
           \/ (\E outcome \in StepStatus \ {"skipped"} : StepEnds(outcome))
           \/ FinishStep
  BY <1>2, <1>3
     DEF ReuseStep, SkipOutsideWindow, SkipStopped, Refuse, Settle, Begin,
         StepEnds, FinishStep, rows
<1>4. CASE Return
  <2>1. /\ Active /\ wanted' = wanted
        /\ pinned' = pinned \/ pinned' = [pinned EXCEPT ![run] = FALSE]
        /\ \/ rowStatus' = rowStatus
           \/ rowStatus' = [rowStatus EXCEPT ![run] = final'[run]]
                /\ pinned' = [pinned EXCEPT ![run] = FALSE]
    BY <1>4, Zenon DEF Return, At, Active, history
  <2> QED
    BY <1>0, <2>1
<1>5. CASE Cancel \/ CallerGone \/ TeardownTimesOut \/ Crash \/ UNCHANGED vars
  BY <1>2, <1>5
     DEF Cancel, CallerGone, TeardownTimesOut, Crash, rows, vars
<1>6. ASSUME NEW n \in RunIds, NEW on \in BOOLEAN, Pin(n, on)
      PROVE  PinsHaveRows' /\ \A r \in RunIds : OverPinSurvives(r)
  <2>1. /\ rowStatus' = rowStatus /\ HasRow(n)
        /\ \A r \in RunIds : pinned'[r] = IF r = n THEN on ELSE pinned[r]
        /\ ~on => n \notin wanted'
    BY <1>0, <1>6 DEF Pin
  <2> QED
    BY <2>1, Zenon DEF HasRow
<1>7. ASSUME NEW n \in RunIds, Purge(n)
      PROVE  PinsHaveRows' /\ \A r \in RunIds : OverPinSurvives(r)
  <2>1. /\ pinned' = pinned
        /\ \A r \in RunIds : pinned[r] => rowStatus'[r] = rowStatus[r]
    BY <1>7 DEF Purge
  <2> QED
    BY <2>1
<1> QED
  BY <1>1, <1>3, <1>4, <1>5, <1>6, <1>7
     DEF Next, Runner, StartFresh, ResumeDefault, ResumeAt

(* A pin on a finished run outlives every purge and every later run        *)
(* (runs.go:365-440).                                                      *)
THEOREM PinsSurvive == Spec => FinishedPinSurvives
<1>1. Init => PinsHaveRows
  BY DEF Init, PinsHaveRows
<1>2. Typed /\ RunsInv /\ PinsHaveRows /\ [Next]_vars => PinsHaveRows'
  BY PinsStep
<1>3. Typed /\ RunsInv /\ PinsHaveRows /\ [Next]_vars
        => [\A r \in RunIds : OverPinSurvives(r)]_vars
  BY PinsStep
<1> QED
  BY <1>1, <1>2, <1>3, AlwaysTyped, AlwaysRunsInv, PTL DEF Spec, FinishedPinSurvives

-----------------------------------------------------------------------------
(* Records of the past.  They are kept because a step has no row before it *)
(* is finished, and a row is only updated while its run is active.         *)
FreshRows ==
  /\ \A r \in RunIds : rowStatus[r] = "deleted" => saved[r] = Nothing
  /\ Active => \A p \in Steps : p >= pos => saved[run][p] = "none"

LEMMA KeptByStep ==
  ASSUME Typed, RunsInv, FreshRows, [Next]_vars
  PROVE  /\ FreshRows'
         /\ \A r \in RunIds : RecordKept(r)
<1> USE DEF FreshRows, RecordKept, Active
<1>0. /\ rowStatus \in [RunIds -> RunStatus \cup {"none", "running", "deleted"}]
      /\ saved \in [RunIds -> [Steps -> StepStatus \cup {"none"}]]
      /\ final \in [RunIds -> RunStatus \cup {"none"}]
      /\ run \in 0..MaxRuns /\ RunIds = 1..MaxRuns /\ MaxRuns \in Nat
      /\ pos \in 1..(LastStep + 1)
      /\ RunStatus \cap {"none", "running", "deleted"} = {}
      /\ \A p \in Steps : Nothing[p] = "none"
  BY SizesAssumption DEF Typed, TypeOK, RunIds, RunStatus, Nothing
<1>1. CASE Start
  <2>1. /\ saved' = saved /\ pos' = 1 /\ run' = run + 1 /\ run' \in RunIds
        /\ rowStatus' = [rowStatus EXCEPT ![run + 1] = "running"]
    BY <1>0, <1>1 DEF Start
  <2>2. rowStatus[run'] = "none" /\ saved[run'] = Nothing
    BY <1>0, <2>1 DEF RunsInv
  <2> QED
    BY <1>0, <2>1, <2>2
<1>2. ASSUME UNCHANGED <<saved, rowStatus, run, pos>>, Active' => Active
      PROVE  FreshRows' /\ \A r \in RunIds : RecordKept(r)
  BY <1>2
<1>3. CASE \/ ReuseStep \/ SkipOutsideWindow \/ SkipStopped \/ Refuse \/ Begin
           \/ (\E outcome \in StepStatus \ {"skipped"} : StepEnds(outcome))
  BY <1>2, <1>3
     DEF ReuseStep, SkipOutsideWindow, SkipStopped, Refuse, Settle, Begin,
         StepEnds, At, rows
<1>4. ASSUME FinishStep PROVE FreshRows' /\ \A r \in RunIds : RecordKept(r)
  <2>1. /\ Active /\ pos \in Steps /\ pos' = pos + 1
        /\ UNCHANGED <<rowStatus, run>>
    BY <1>4 DEF FinishStep, Advance, At, Typed, AtAStep
  <2>2. run \in RunIds /\ saved[run][pos] = "none" /\ pos \in Nat /\ Steps \subseteq Nat
    BY <2>1, StepsAreNatural DEF RunsInv
  <2>3. CASE CanWrite /\ saved' = [saved EXCEPT ![run][pos] = status[pos]]
    <3>1. /\ \A r \in RunIds : r # run => saved'[r] = saved[r]
          /\ \A p \in Steps : p # pos => saved'[run][p] = saved[run][p]
          /\ rowStatus[run] # "deleted"
      BY <1>0, <2>2, <2>3 DEF CanWrite, HasRow
    <3>2. \A p \in Steps : p >= pos' => p # pos /\ p >= pos
      BY <2>1, <2>2
    <3> QED
      BY <2>1, <2>2, <3>1, <3>2
  <2>4. CASE saved' = saved
    <3>1. \A p \in Steps : p >= pos' => p # pos /\ p >= pos
      BY <2>1, <2>2
    <3> QED
      BY <2>1, <2>4, <3>1
  <2> QED
    BY <1>4, <2>3, <2>4 DEF FinishStep, WriteOutcome
<1>5. CASE Return
  <2>1. PICK v : final' = [final EXCEPT ![run] = v]
    BY <1>5 DEF Return
  <2>2. /\ Active /\ ~Active' /\ saved' = saved
        /\ \/ rowStatus' = rowStatus
           \/ HasRow(run) /\ rowStatus' = [rowStatus EXCEPT ![run] = final'[run]]
    BY <1>5, Zenon DEF Return, At, WriteOutcome
  <2>3. run \in RunIds /\ rowStatus[run] \in {"running", "deleted"}
    BY <2>2 DEF RunsInv
  <2>4. final'[run] \in RunStatus
    BY <1>0, <1>5, <2>3, DeriveStatusType DEF Return, Typed, TypeOK
  <2> QED
    BY <1>0, <2>2, <2>3, <2>4 DEF HasRow
<1>6. CASE Cancel \/ CallerGone \/ TeardownTimesOut \/ UNCHANGED vars
  BY <1>2, <1>6
     DEF Cancel, CallerGone, TeardownTimesOut, Unmoved, rows, vars
<1>7. CASE Crash
  BY <1>7 DEF Crash, rows
<1>8. ASSUME NEW n \in RunIds, NEW on \in BOOLEAN, Pin(n, on)
      PROVE  FreshRows' /\ \A r \in RunIds : RecordKept(r)
  BY <1>2, <1>8 DEF Pin, Unmoved
<1>9. ASSUME NEW n \in RunIds, Purge(n)
      PROVE  FreshRows' /\ \A r \in RunIds : RecordKept(r)
  <2>1. /\ UNCHANGED <<run, pos, doing>>
        /\ \A r \in RunIds :
             \/ HasRow(r) /\ rowStatus'[r] = "deleted" /\ saved'[r] = Nothing
             \/ rowStatus'[r] = rowStatus[r] /\ saved'[r] = saved[r]
    BY <1>9 DEF Purge, Unmoved
  <2> QED
    BY <1>0, <2>1 DEF RunsInv, HasRow
<1> QED
  BY <1>1, <1>3, <1>4, <1>5, <1>6, <1>7, <1>8, <1>9
     DEF Next, Runner, StartFresh, ResumeDefault, ResumeAt

(* The status a run came to, the outcome recorded of a step and a purge    *)
(* are final, however the store fails (runs.go:117, 195).                  *)
THEOREM RecordsStay == Spec => RecordsAreKept
<1>1. Init => FreshRows
  BY DEF Init, FreshRows, Active
<1>2. Typed /\ RunsInv /\ FreshRows /\ [Next]_vars => FreshRows'
  BY KeptByStep
<1>3. Typed /\ RunsInv /\ FreshRows /\ [Next]_vars
        => [\A r \in RunIds : RecordKept(r)]_vars
  BY KeptByStep
<1> QED
  BY <1>1, <1>2, <1>3, AlwaysTyped, AlwaysRunsInv, PTL DEF Spec, RecordsAreKept

-----------------------------------------------------------------------------
(* The loop block                                                          *)
Statuses == Bad \cup {"passed", "skipped"}
InStep == {"nested", "call", "inflight", "refused", "sleep"}

\* Where the loop is, in terms of the iterations it has begun.
Placed ==
  /\ at \in {"when", "resolve"} => i = 0 /\ limit = 0 /\ ran = <<>>
  /\ at \in InStep \cup {"iterated", "decide", "pause"} => i > 0

BlockTypeInv == BlockTypeOK /\ Placed

\* The steps of an iteration end in one of these ways.
EndsOfStep == \E outcome \in Statuses : at \in InStep /\ NestedEnds(outcome)

(***************************************************************************)
(* Types                                                                   *)
(***************************************************************************)
LEMMA NestedEndsTyped ==
  ASSUME BlockTypeInv, EndsOfStep, UNCHANGED <<timers, lateCalls>>
  PROVE BlockTypeInv'
<1>1. PICK outcome \in Statuses : at \in InStep /\ NestedEnds(outcome)
  BY DEF EndsOfStep
<1>2. i \in 1..Max /\ step \in Nested
  BY <1>1, StepsAssumption DEF BlockTypeInv, BlockTypeOK, Placed
<1>3. StepRecord(outcome) \in StepResult
  BY <1>1, <1>2 DEF StepRecord, StepResult, Statuses
<1>4. ran' \in Seq(StepResult)
  BY <1>1, <1>3 DEF NestedEnds, BlockTypeInv, BlockTypeOK
<1>5. steps' \in [Nested -> 0..Max]
  BY <1>1, <1>2 DEF NestedEnds, Remember, BlockTypeInv, BlockTypeOK
<1>6. iterVals' \subseteq Nested
  BY <1>1, <1>2 DEF NestedEnds, AddValue, BlockTypeInv, BlockTypeOK
<1>7. /\ iterFailed' \in BOOLEAN /\ iterCancelled' \in BOOLEAN
      /\ at' \in {"iterated", "nested"} /\ step' \in Nested
  BY <1>1, <1>2, StepsAssumption DEF NestedEnds, AfterStep, Nested
<1> QED
  BY <1>1, <1>2, <1>4, <1>5, <1>6, <1>7
  DEF NestedEnds, block, timers, totals, BlockTypeInv, BlockTypeOK, Placed, InStep, Places

\* What each action that may end a step does instead, when it does not.
LEMMA RetryCases ==
  ASSUME at \in InStep, RetryOrGiveUp
  PROVE \/ EndsOfStep /\ UNCHANGED timers
        \/ ~PastDeadline /\ Sleep
BY DEF RetryOrGiveUp, EndsOfStep, Statuses, Bad

LEMMA SleepTyped ==
  ASSUME BlockTypeInv, at \in InStep, Sleep, UNCHANGED lateCalls
  PROVE BlockTypeInv'
BY TimesAssumption
DEF BlockTypeInv, BlockTypeOK, Placed, InStep, Places, Sleep, block, iteration, totals, record

LEMMA TypeInitially == BlockInit => BlockTypeInv
<1> SUFFICES ASSUME BlockInit PROVE BlockTypeInv
  OBVIOUS
<1>1. /\ limit \in 0..Max /\ i \in 0..limit /\ step \in Nested
      /\ elapsed \in 0..(PollTimeout + 1) /\ nap \in 0..PollInterval
  BY StepsAssumption, TimesAssumption DEF BlockInit, Nested
<1>2. steps \in [Nested -> 0..Max]
  BY StepsAssumption DEF BlockInit
<1>3. iterations \in Seq(IterationValue) /\ ran \in Seq(StepResult)
  BY DEF BlockInit
<1>4. /\ lateTries \in 0..2 /\ lateCalls \in 0..2 /\ spent \in Nat
      /\ iterVals \subseteq Nested
  BY DEF BlockInit
<1> QED
  BY <1>1, <1>2, <1>3, <1>4 DEF BlockInit, BlockTypeInv, BlockTypeOK, Placed, Places, InStep, Bad

LEMMA TypePreserved ==
  ASSUME BlockTypeInv, [BlockNext]_blockVars
  PROVE BlockTypeInv'
<1> USE DEF block, timers, iteration, totals, record
<1>1. CASE BlockWhen
  BY <1>1 DEF BlockWhen, Fail, BlockTypeInv, BlockTypeOK, Placed, InStep, Places, Bad
<1>2. CASE Resolve
  BY <1>2, StepsAssumption
  DEF Resolve, Fail, BlockTypeInv, BlockTypeOK, Placed, InStep, Places, Bad
<1>3. CASE While
  BY <1>3 DEF While, Fail, BlockTypeInv, BlockTypeOK, Placed, InStep, Places, Bad
<1>4. CASE LeaveLoop
  BY <1>4 DEF LeaveLoop, BlockTypeInv, BlockTypeOK, Placed, InStep, Places
<1>5. CASE BeginIteration
  <2>1. limit' \in 0..Max /\ i' \in 0..limit' /\ i' > 0 /\ step' \in Nested
    BY <1>5, StepsAssumption DEF BeginIteration, BlockTypeInv, BlockTypeOK, Nested
  <2>2. iterVals' \subseteq Nested
    BY <1>5 DEF BeginIteration
  <2> QED
    BY <1>5, <2>1, <2>2
    DEF BeginIteration, BlockTypeInv, BlockTypeOK, Placed, InStep, Places
<1>6. CASE StopBetweenSteps
  BY <1>6 DEF StopBetweenSteps, BlockTypeInv, BlockTypeOK, Placed, InStep, Places
<1>7. CASE BeginStep
  <2>1. CASE \E outcome \in {"skipped", "errored"} : NestedEnds(outcome) /\ UNCHANGED timers
    BY <1>7, <2>1, NestedEndsTyped DEF BeginStep, EndsOfStep, InStep, Statuses, Bad
  <2>2. CASE at' = "call"
    BY <1>7, <2>2, TimesAssumption
    DEF BeginStep, NestedEnds, AfterStep, BlockTypeInv, BlockTypeOK, Placed, InStep, Places
  <2> QED BY <1>7, <2>1, <2>2 DEF BeginStep
<1>8. CASE Call
  BY <1>8 DEF Call, ToTwo, BlockTypeInv, BlockTypeOK, Placed, InStep, Places
<1>9. CASE CallCancelled
  BY <1>9, NestedEndsTyped DEF CallCancelled, EndsOfStep, InStep, Statuses, Bad
<1>10. CASE CallFails
  BY <1>10, NestedEndsTyped, SleepTyped, RetryCases
  DEF CallFails, EndsOfStep, InStep, Statuses, Bad
<1>11. CASE CallAnswers
  BY <1>11, NestedEndsTyped, SleepTyped, RetryCases
  DEF CallAnswers, EndsOfStep, InStep, Statuses, Bad
<1>12. CASE PollAgain
  BY <1>12 DEF PollAgain, BlockTypeInv, BlockTypeOK, Placed, InStep, Places
<1>13. CASE PollCancelled
  BY <1>13, NestedEndsTyped DEF PollCancelled, EndsOfStep, InStep, Statuses, Bad
<1>14. CASE EndIteration
  <2>1. iterations' \in Seq(IterationValue) /\ spent' \in Nat
    <3>1. CASE spent >= Budget
      <4>1. [vals |-> iterVals, trimmed |-> TRUE, size |-> 0] \in IterationValue
        BY DEF IterationValue, BlockTypeInv, BlockTypeOK
      <4>2. /\ iterations' = Append(iterations,
                  [vals |-> iterVals, trimmed |-> TRUE, size |-> 0])
            /\ UNCHANGED spent
        BY <1>14, <3>1 DEF EndIteration, AddIteration
      <4> QED
        BY <4>1, <4>2 DEF BlockTypeInv, BlockTypeOK
    <3>2. CASE ~(spent >= Budget)
      <4>1. PICK size \in 0..MaxSize :
              /\ iterations' = Append(iterations,
                   [vals |-> iterVals, trimmed |-> FALSE, size |-> size])
              /\ spent' = spent + size
        BY <1>14, <3>2 DEF EndIteration, AddIteration
      <4>2. size \in Nat
        BY BudgetAssumption
      <4>3. [vals |-> iterVals, trimmed |-> FALSE, size |-> size] \in IterationValue
        BY <4>2 DEF IterationValue, BlockTypeInv, BlockTypeOK
      <4> QED
        BY <4>1, <4>2, <4>3 DEF BlockTypeInv, BlockTypeOK
    <3> QED BY <3>1, <3>2
  <2> QED
    BY <1>14, <2>1
    DEF EndIteration, NoteFailure, BlockTypeInv, BlockTypeOK, Placed, InStep, Places
<1>15. CASE Decide
  BY <1>15 DEF Decide, BlockTypeInv, BlockTypeOK, Placed, InStep, Places
<1>16. CASE Pause
  BY <1>16 DEF Pause, BlockTypeInv, BlockTypeOK, Placed, InStep, Places
<1>17. CASE SettleBlock
  BY <1>17 DEF SettleBlock, Fail, Outcome, BlockTypeInv, BlockTypeOK, Placed, InStep, Places, Bad
<1>18. CASE CancelBlock
  BY <1>18 DEF CancelBlock, BlockTypeInv, BlockTypeOK, Placed, InStep, Places
<1>19. CASE Tick
  BY <1>19, TimesAssumption
  DEF Tick, Later, BlockTypeInv, BlockTypeOK, Placed, InStep, Places
<1>20. CASE UNCHANGED blockVars
  BY <1>20 DEF blockVars, BlockTypeInv, BlockTypeOK, Placed, InStep, Places
<1> QED
  BY <1>1, <1>2, <1>3, <1>4, <1>5, <1>6, <1>7, <1>8, <1>9, <1>10, <1>11,
     <1>12, <1>13, <1>14, <1>15, <1>16, <1>17, <1>18, <1>19, <1>20
  DEF BlockNext, Step

LEMMA TypeInvariant == BlockSpec => []BlockTypeInv
BY TypeInitially, TypePreserved, PTL DEF BlockSpec

\* Type correctness: no iteration past the bound, no step past the last.
THEOREM BlockTypeCorrect == BlockSpec => []BlockTypeOK
BY TypeInvariant, PTL DEF BlockTypeInv

(***************************************************************************)
(* The order of executions                                                 *)
(***************************************************************************)
Latest == ran[Len(ran)]

\* The block may go on to another iteration after the execution r.
ReadyForNext(r) ==
  /\ r.status # "cancelled"
  /\ IF r.status \in Bad THEN onError = "continue" ELSE r.step = NSteps

\* The latest execution is the one that leads to where the block is.
LatestFits ==
  /\ at \in InStep =>
       IF step = 1 THEN IF i = 1 THEN ran = <<>>
                       ELSE ran # <<>> /\ Latest.iter = i - 1 /\ ReadyForNext(Latest)
       ELSE /\ ran # <<>> /\ Latest.iter = i /\ Latest.step = step - 1
            /\ Latest.status \notin Bad
  /\ at = "iterated" /\ ~iterCancelled =>
       /\ ran # <<>> /\ Latest.iter = i
       /\ Latest.status # "cancelled"
       /\ IF iterFailed THEN Latest.status \in Bad
          ELSE Latest.status \notin Bad /\ Latest.step = NSteps
  /\ at \in {"top", "decide", "pause"} =>
       IF i = 0 THEN ran = <<>>
       ELSE ran # <<>> /\ Latest.iter = i /\ ReadyForNext(Latest)

OrderInv == RunsInOrder /\ LatestFits

LEMMA StepEndsInOrder ==
  ASSUME BlockTypeInv, BlockTypeInv', OrderInv, EndsOfStep
  PROVE OrderInv'
<1>1. PICK outcome \in Statuses : at \in InStep /\ NestedEnds(outcome)
  BY DEF EndsOfStep
<1> DEFINE r == StepRecord(outcome)
<1>2. i \in Nat \ {0} /\ step \in 1..NSteps
  BY <1>1, StepsAssumption DEF BlockTypeInv, BlockTypeOK, Placed, Nested
<1>3. ran \in Seq(StepResult) /\ ran' = Append(ran, r) /\ ran' \in Seq(StepResult)
  BY <1>1 DEF NestedEnds, BlockTypeInv, BlockTypeOK
<1>4. /\ Len(ran') = Len(ran) + 1 /\ ran'[Len(ran')] = r
      /\ \A j \in 1..Len(ran) : ran'[j] = ran[j]
  BY <1>3
<1>5. Latest' = r
  BY <1>4 DEF Latest
<1>6. r.iter = i /\ r.step = step /\ r.status = outcome
  BY DEF StepRecord
<1>7. ran # <<>> => Follows(Latest, r)
  BY <1>1, <1>2, <1>6 DEF OrderInv, LatestFits, ReadyForNext, Follows
<1>8. RunsInOrder'
  <2> SUFFICES ASSUME NEW j \in 1..(Len(ran') - 1)
               PROVE Follows(ran[j], ran[j + 1])'
    BY DEF RunsInOrder
  <2>1. onError' = onError
    BY <1>1 DEF NestedEnds, block
  <2>2. CASE j = Len(ran)
    <3>1. ran # <<>> /\ ran'[j] = Latest /\ ran'[j + 1] = r
      BY <1>3, <1>4, <2>2 DEF Latest
    <3> QED BY <1>7, <3>1, <2>1 DEF Follows
  <2>3. CASE j # Len(ran)
    <3>1. j \in 1..(Len(ran) - 1) /\ ran'[j] = ran[j] /\ ran'[j + 1] = ran[j + 1]
      BY <1>3, <1>4, <2>3
    <3>2. Follows(ran[j], ran[j + 1])
      BY <3>1 DEF OrderInv, RunsInOrder
    <3> QED BY <3>1, <3>2, <2>1 DEF Follows
  <2> QED BY <2>2, <2>3
<1>9. ran' # <<>>
  BY <1>3, <1>4
<1>10. LatestFits'
  <2>1. CASE outcome \in Bad \/ step = NSteps
    BY <1>1, <1>5, <1>6, <1>9, <2>1
    DEF NestedEnds, AfterStep, LatestFits, InStep, Bad
  <2>2. CASE ~(outcome \in Bad \/ step = NSteps)
    BY <1>1, <1>2, <1>5, <1>6, <1>9, <2>2
    DEF NestedEnds, AfterStep, LatestFits, InStep, Bad
  <2> QED BY <2>1, <2>2
<1> QED BY <1>8, <1>10 DEF OrderInv

\* A step that records nothing only has to fit the latest execution.
LEMMA OrderKept ==
  ASSUME OrderInv, UNCHANGED <<ran, onError>>
  PROVE RunsInOrder' /\ (LatestFits' => OrderInv')
BY DEF OrderInv, RunsInOrder, Follows

LEMMA SleepInOrder ==
  ASSUME OrderInv, at \in InStep, Sleep
  PROVE OrderInv'
BY OrderKept
DEF Sleep, OrderInv, LatestFits, Latest, ReadyForNext, InStep, block,
    iteration, record

LEMMA OrderInitially == BlockInit => OrderInv
BY DEF BlockInit, OrderInv, RunsInOrder, LatestFits, InStep

LEMMA OrderPreserved ==
  ASSUME BlockTypeInv, BlockTypeInv', OrderInv, [BlockNext]_blockVars
  PROVE OrderInv'
<1> USE DEF block, timers, iteration, totals, record
<1>1. CASE BlockWhen \/ Resolve
  BY <1>1, OrderKept
  DEF BlockWhen, Resolve, Fail, BlockTypeInv, Placed, LatestFits, Latest, InStep
<1>2. CASE While \/ LeaveLoop
  BY <1>2, OrderKept DEF While, LeaveLoop, Fail, LatestFits, Latest, InStep
<1>3. CASE BeginIteration
  <2>1. i \in Nat
    BY StepsAssumption DEF BlockTypeInv, BlockTypeOK
  <2> QED
    BY <1>3, <2>1, OrderKept
    DEF BeginIteration, OrderInv, LatestFits, Latest, ReadyForNext, InStep
<1>4. CASE StopBetweenSteps
  BY <1>4, OrderKept DEF StopBetweenSteps, LatestFits, InStep
<1>5. CASE BeginStep
  <2>1. CASE \E outcome \in {"skipped", "errored"} : NestedEnds(outcome) /\ UNCHANGED timers
    BY <1>5, <2>1, StepEndsInOrder DEF BeginStep, EndsOfStep, InStep, Statuses, Bad
  <2>2. CASE at' = "call" /\ UNCHANGED <<block, i, step, iteration, record>>
    BY <1>5, <2>2, OrderKept
    DEF BeginStep, OrderInv, LatestFits, Latest, ReadyForNext, InStep
  <2> QED BY <1>5, <2>1, <2>2 DEF BeginStep
<1>6. CASE Call
  BY <1>6, OrderKept DEF Call, OrderInv, LatestFits, Latest, ReadyForNext, InStep
<1>7. CASE CallCancelled
  BY <1>7, StepEndsInOrder DEF CallCancelled, EndsOfStep, InStep, Statuses, Bad
<1>8. CASE CallFails
  BY <1>8, StepEndsInOrder, SleepInOrder, RetryCases
  DEF CallFails, EndsOfStep, InStep, Statuses, Bad
<1>9. CASE CallAnswers
  BY <1>9, StepEndsInOrder, SleepInOrder, RetryCases
  DEF CallAnswers, EndsOfStep, InStep, Statuses, Bad
<1>10. CASE PollAgain
  BY <1>10, OrderKept DEF PollAgain, OrderInv, LatestFits, Latest, ReadyForNext, InStep
<1>11. CASE PollCancelled
  BY <1>11, StepEndsInOrder DEF PollCancelled, EndsOfStep, InStep, Statuses, Bad
<1>12. CASE EndIteration
  <2>1. i > 0
    BY <1>12 DEF EndIteration, BlockTypeInv, Placed
  <2> QED
    BY <1>12, <2>1, OrderKept
    DEF EndIteration, MayContinue, OrderInv, LatestFits, Latest, ReadyForNext,
        InStep, BlockTypeInv, BlockTypeOK
<1>13. CASE Decide \/ Pause
  BY <1>13, OrderKept
  DEF Decide, Pause, OrderInv, LatestFits, Latest, ReadyForNext, InStep
<1>14. CASE SettleBlock
  BY <1>14, OrderKept DEF SettleBlock, Fail, LatestFits, InStep
<1>15. CASE CancelBlock \/ Tick \/ UNCHANGED blockVars
  BY <1>15, OrderKept
  DEF CancelBlock, Tick, blockVars, OrderInv, LatestFits, Latest, ReadyForNext, InStep
<1> QED
  BY <1>1, <1>2, <1>3, <1>4, <1>5, <1>6, <1>7, <1>8, <1>9, <1>10, <1>11,
     <1>12, <1>13, <1>14, <1>15
  DEF BlockNext, Step

\* A failed step ends its iteration and, unless on_error is continue, the
\* block; no step and no iteration is passed over.
THEOREM ExecutionsInOrder == BlockSpec => []RunsInOrder
<1>1. BlockInit => BlockTypeInv /\ OrderInv
  BY TypeInitially, OrderInitially
<1>2. BlockTypeInv /\ OrderInv /\ [BlockNext]_blockVars => (BlockTypeInv /\ OrderInv)'
  BY TypePreserved, OrderPreserved
<1>3. OrderInv => RunsInOrder
  BY DEF OrderInv
<1> QED
  BY <1>1, <1>2, <1>3, PTL DEF BlockSpec

(***************************************************************************)
(* steps.<id> is the latest execution                                      *)
(***************************************************************************)
LEMMA StepEndsLatest ==
  ASSUME BlockTypeInv, LatestExecution, EndsOfStep
  PROVE LatestExecution'
<1>1. PICK outcome \in Statuses : at \in InStep /\ NestedEnds(outcome)
  BY DEF EndsOfStep
<1> DEFINE n == Len(ran)
           r == StepRecord(outcome)
<1>2. i \in 1..Max /\ step \in Nested /\ ran \in Seq(StepResult)
      /\ steps \in [Nested -> 0..Max]
  BY <1>1, StepsAssumption DEF BlockTypeInv, BlockTypeOK, Placed
<1>3. /\ n \in Nat /\ Len(ran') = n + 1 /\ ran'[n + 1] = r
      /\ \A j \in 1..n : ran'[j] = ran[j]
  BY <1>1, <1>2 DEF NestedEnds
<1>4. r.iter = i /\ r.step = step /\ r.status = outcome
  BY DEF StepRecord
<1>5. SUFFICES ASSUME NEW k \in Nested
               PROVE IF Executed(k)' = {} THEN steps'[k] = 0
                     ELSE \E j \in Executed(k)' :
                            /\ steps'[k] = ran'[j].iter
                            /\ \A m \in Executed(k)' : m <= j
  BY DEF LatestExecution
<1>6. CASE k = step /\ outcome # "skipped"
  <2>1. Executed(k)' = Executed(k) \cup {n + 1}
    BY <1>3, <1>4, <1>6 DEF Executed
  <2>2. \A m \in Executed(k)' : m <= n + 1
    BY <2>1, <1>3 DEF Executed
  <2>3. steps'[k] = i
    BY <1>1, <1>2, <1>6 DEF NestedEnds, Remember
  <2> QED BY <2>1, <2>2, <2>3, <1>3, <1>4
<1>7. CASE ~(k = step /\ outcome # "skipped")
  <2>1. Executed(k)' = Executed(k)
    BY <1>3, <1>4, <1>7 DEF Executed
  <2>2. steps'[k] = steps[k]
    BY <1>1, <1>2, <1>7 DEF NestedEnds, Remember
  <2>3. \A j \in Executed(k) : ran'[j] = ran[j]
    BY <1>3 DEF Executed
  <2> QED BY <2>1, <2>2, <2>3 DEF LatestExecution
<1> QED BY <1>6, <1>7

LEMMA SameRecord ==
  ASSUME LatestExecution, UNCHANGED record
  PROVE LatestExecution'
BY DEF LatestExecution, Executed, record

\* What an action does to the record: a step ends or nothing is recorded.
LEMMA RecordChanges ==
  ASSUME [BlockNext]_blockVars
  PROVE EndsOfStep \/ UNCHANGED record
<1>1. CASE BeginStep \/ CallCancelled \/ PollCancelled
  BY <1>1 DEF BeginStep, CallCancelled, PollCancelled, EndsOfStep, InStep, Statuses, Bad
<1>2. CASE CallFails \/ CallAnswers
  BY <1>2, RetryCases
  DEF CallFails, CallAnswers, Sleep, EndsOfStep, InStep, Statuses, Bad
<1>3. CASE BlockWhen \/ Resolve \/ While \/ LeaveLoop \/ BeginIteration
            \/ StopBetweenSteps \/ Call \/ PollAgain
  BY <1>3 DEF BlockWhen, Resolve, While, LeaveLoop, BeginIteration,
     StopBetweenSteps, Call, PollAgain
<1>4. CASE EndIteration \/ Decide \/ Pause \/ SettleBlock \/ CancelBlock \/ Tick \/ UNCHANGED blockVars
  BY <1>4 DEF EndIteration, Decide, Pause, SettleBlock, CancelBlock, Tick, blockVars
<1> QED
  BY <1>1, <1>2, <1>3, <1>4 DEF BlockNext, Step

\* What a later step reads as steps.<id> is what id's latest execution left.
THEOREM StepsAreLatest == BlockSpec => []LatestExecution
<1>1. BlockInit => LatestExecution
  BY DEF BlockInit, LatestExecution, Executed
<1>2. BlockTypeInv /\ LatestExecution /\ [BlockNext]_blockVars => LatestExecution'
  BY RecordChanges, StepEndsLatest, SameRecord
<1> QED
  BY <1>1, <1>2, TypeInvariant, PTL DEF BlockSpec

(***************************************************************************)
(* Polls and their deadline                                                *)
(***************************************************************************)
\* Where a step may be after an attempt begun late.
PollInv ==
  /\ at = "sleep" => step \in Polls
  /\ at \in {"call", "sleep"} => lateTries = 0
  /\ at \in {"inflight", "refused"} => lateTries = 0 \/ (lateTries = 1 /\ PastDeadline)
  /\ lateTries <= 1

LEMMA PollPreserved ==
  ASSUME BlockTypeInv, PollInv, [BlockNext]_blockVars
  PROVE PollInv'
<1> USE DEF block, timers, iteration, totals, record
<1>1. lateTries \in 0..2 /\ elapsed \in 0..(PollTimeout + 1)
  BY DEF BlockTypeInv, BlockTypeOK
<1>2. ASSUME NEW outcome, NestedEnds(outcome), UNCHANGED timers
      PROVE PollInv'
  BY <1>2 DEF NestedEnds, AfterStep, PollInv
<1>3. ASSUME Sleep, ~PastDeadline, step \in Polls, at = "inflight"
      PROVE PollInv'
  BY <1>3 DEF Sleep, PollInv
<1>4. CASE BeginStep
  BY <1>4, <1>2 DEF BeginStep, PollInv
<1>5. CASE CallCancelled \/ PollCancelled
  BY <1>5, <1>2 DEF CallCancelled, PollCancelled
<1>6. CASE CallFails \/ CallAnswers
  BY <1>6, <1>2, <1>3 DEF CallFails, CallAnswers, RetryOrGiveUp
<1>7. CASE Call
  BY <1>7, <1>1 DEF Call, ToTwo, PollInv, PastDeadline
<1>8. CASE Tick
  BY <1>8, <1>1, TimesAssumption DEF Tick, Later, PollInv, PastDeadline
<1>9. CASE BlockWhen \/ Resolve \/ While \/ LeaveLoop \/ BeginIteration
            \/ StopBetweenSteps \/ EndIteration \/ Decide \/ Pause \/ SettleBlock
  BY <1>9 DEF BlockWhen, Resolve, Fail, While, LeaveLoop, BeginIteration,
     StopBetweenSteps, EndIteration, Decide, Pause, SettleBlock, PollInv
<1>10. CASE PollAgain \/ CancelBlock \/ UNCHANGED blockVars
  BY <1>10 DEF PollAgain, CancelBlock, blockVars, PollInv, PastDeadline
<1> QED
  BY <1>4, <1>5, <1>6, <1>7, <1>8, <1>9, <1>10 DEF BlockNext, Step

\* A step begins at most one attempt after its deadline.
THEOREM PollsAreBounded == BlockSpec => []PollIsBounded
<1>1. BlockInit => PollInv
  BY DEF BlockInit, PollInv
<1>2. BlockTypeInv /\ PollInv /\ [BlockNext]_blockVars => PollInv'
  BY PollPreserved
<1>3. PollInv => PollIsBounded
  BY DEF PollInv, PollIsBounded
<1> QED
  BY <1>1, <1>2, <1>3, TypeInvariant, PTL DEF BlockSpec

(***************************************************************************)
(* Cancellation                                                            *)
(***************************************************************************)
\* After a request begun with a context that is done the block only unwinds.
LateCallsInv ==
  /\ at = "refused" => ctxDone
  /\ lateCalls > 0 =>
       ctxDone /\ (at \in {"refused", "end", "done"} \/ (at = "iterated" /\ iterCancelled))
  /\ lateCalls <= 1

LEMMA CancelPreserved ==
  ASSUME BlockTypeInv, LateCallsInv, [BlockNext]_blockVars
  PROVE LateCallsInv'
<1> USE DEF block, timers, iteration, totals, record
<1>1. lateCalls \in 0..2
  BY DEF BlockTypeInv, BlockTypeOK
<1>2. ASSUME NEW outcome, NestedEnds(outcome), UNCHANGED lateCalls,
             at \notin {"end", "done", "iterated"},
             outcome = "cancelled" \/ at # "refused"
      PROVE LateCallsInv'
  BY <1>1, <1>2 DEF NestedEnds, AfterStep, LateCallsInv, Bad
<1>3. ASSUME Sleep, at = "inflight", UNCHANGED lateCalls
      PROVE LateCallsInv'
  BY <1>1, <1>3 DEF Sleep, LateCallsInv
<1>4. CASE BeginStep
  BY <1>1, <1>4, <1>2 DEF BeginStep, LateCallsInv
<1>5. CASE CallCancelled \/ PollCancelled
  BY <1>5, <1>2 DEF CallCancelled, PollCancelled
<1>6. CASE CallFails \/ CallAnswers
  BY <1>6, <1>2, <1>3 DEF CallFails, CallAnswers, RetryOrGiveUp
<1>7. CASE Call
  BY <1>7, <1>1 DEF Call, ToTwo, LateCallsInv
<1>8. CASE Tick \/ CancelBlock \/ UNCHANGED blockVars
  BY <1>8, <1>1 DEF Tick, CancelBlock, blockVars, LateCallsInv
<1>9. CASE BlockWhen \/ Resolve \/ While \/ LeaveLoop \/ BeginIteration
            \/ StopBetweenSteps \/ PollAgain
  BY <1>9, <1>1 DEF BlockWhen, Resolve, Fail, While, LeaveLoop, BeginIteration,
     StopBetweenSteps, PollAgain, LateCallsInv
<1>10. CASE EndIteration
  BY <1>10, <1>1 DEF EndIteration, MayContinue, LateCallsInv
<1>11. CASE Decide \/ Pause \/ SettleBlock
  BY <1>11, <1>1 DEF Decide, Pause, SettleBlock, Fail, LateCallsInv
<1> QED
  BY <1>4, <1>5, <1>6, <1>7, <1>8, <1>9, <1>10, <1>11 DEF BlockNext, Step

\* A cancelled block begins at most one more request.
THEOREM CancellationIsPrompt == BlockSpec => []CancelIsPrompt
<1>1. BlockInit => LateCallsInv
  BY DEF BlockInit, LateCallsInv
<1>2. BlockTypeInv /\ LateCallsInv /\ [BlockNext]_blockVars => LateCallsInv'
  BY CancelPreserved
<1>3. LateCallsInv => CancelIsPrompt
  BY DEF LateCallsInv, CancelIsPrompt
<1> QED
  BY <1>1, <1>2, <1>3, TypeInvariant, PTL DEF BlockSpec

(***************************************************************************)
(* The outcome                                                             *)
(***************************************************************************)
SomeBad == \E j \in 1..Len(ran) : ran[j].status \in Bad
SomeCancelled == \E j \in 1..Len(ran) : ran[j].status = "cancelled"

\* Whatever went wrong is on its way to the block's status.
OutcomeInv ==
  /\ at \in {"when", "resolve"} => ran = <<>>
  /\ SomeBad /\ at # "done" => anyFailed \/ (at = "iterated" /\ iterFailed)
  /\ SomeCancelled =>
       /\ ctxDone
       /\ at \in {"end", "done"} \/ (at = "iterated" /\ iterCancelled)
       /\ at = "done" => result = "cancelled"
  /\ result = "passed" => ~ctxDone /\ ~SomeBad
  /\ result = "skipped" => ran = <<>>
  /\ result = "cancelled" => ctxDone
  /\ at # "done" <=> result = "none"

LEMMA StepEndsOutcome ==
  ASSUME BlockTypeInv, OutcomeInv, NEW outcome \in Statuses, at \in InStep,
         NestedEnds(outcome), outcome = "cancelled" => ctxDone
  PROVE OutcomeInv'
<1>1. ran \in Seq(StepResult) /\ result = "none"
  BY DEF BlockTypeInv, BlockTypeOK, OutcomeInv, InStep
<1>2. /\ Len(ran') = Len(ran) + 1 /\ ran'[Len(ran) + 1].status = outcome
      /\ \A j \in 1..Len(ran) : ran'[j] = ran[j]
  BY <1>1 DEF NestedEnds, StepRecord
<1>3. Len(ran) \in Nat
  BY <1>1
<1>4. SomeBad' <=> SomeBad \/ outcome \in Bad
  BY <1>2, <1>3 DEF SomeBad, Bad
<1>5. SomeCancelled' <=> SomeCancelled \/ outcome = "cancelled"
  BY <1>2, <1>3 DEF SomeCancelled
<1>6. ~SomeCancelled
  BY DEF OutcomeInv, InStep
<1>7. SomeBad => anyFailed
  BY DEF OutcomeInv, InStep
<1>8. /\ UNCHANGED <<ctxDone, anyFailed, result>>
      /\ at' \in {"iterated", "nested"}
      /\ outcome \in Bad => at' = "iterated" /\ iterFailed'
      /\ outcome = "cancelled" => iterCancelled'
  BY DEF NestedEnds, AfterStep, totals, Bad
<1> QED
  BY <1>1, <1>4, <1>5, <1>6, <1>7, <1>8 DEF OutcomeInv, Bad

LEMMA OutcomePreserved ==
  ASSUME BlockTypeInv, OutcomeInv, LateCallsInv, [BlockNext]_blockVars
  PROVE OutcomeInv'
<1> USE DEF block, timers, iteration, totals, record
<1>1. UNCHANGED ran => SomeBad' = SomeBad /\ SomeCancelled' = SomeCancelled
  BY DEF SomeBad, SomeCancelled
<1>2. CASE BlockWhen \/ Resolve
  BY <1>2, <1>1 DEF BlockWhen, Resolve, Fail, OutcomeInv, SomeBad, SomeCancelled
<1>3. CASE While \/ LeaveLoop \/ BeginIteration \/ StopBetweenSteps
  BY <1>3, <1>1
  DEF While, LeaveLoop, BeginIteration, StopBetweenSteps, Fail, OutcomeInv
<1>4. CASE BeginStep
  BY <1>4, <1>1, StepEndsOutcome DEF BeginStep, OutcomeInv, InStep, Statuses, Bad
<1>5. CASE CallCancelled
  <2>1. ctxDone \/ at = "refused"
    BY <1>5 DEF CallCancelled
  <2>2. ctxDone
    BY <2>1 DEF LateCallsInv
  <2> QED
    BY <1>5, <2>2, StepEndsOutcome DEF CallCancelled, InStep, Statuses, Bad
<1>6. CASE PollCancelled
  BY <1>6, StepEndsOutcome DEF PollCancelled, InStep, Statuses, Bad
<1>7. ASSUME Sleep, at = "inflight" PROVE OutcomeInv'
  BY <1>7, <1>1 DEF Sleep, OutcomeInv
<1>8. CASE CallFails \/ CallAnswers
  BY <1>8, <1>7, StepEndsOutcome
  DEF CallFails, CallAnswers, RetryOrGiveUp, InStep, Statuses, Bad
<1>9. CASE Call \/ PollAgain \/ Decide \/ Pause
  <2>1. anyFailed => anyFailed'
    BY <1>9 DEF Call, PollAgain, Decide, Pause
  <2>2. /\ at \in {"call", "sleep", "decide", "pause"}
        /\ at' \in {"refused", "inflight", "call", "end", "top", "pause"}
        /\ UNCHANGED <<ctxDone, ran, result>>
    BY <1>9 DEF Call, PollAgain, Decide, Pause
  <2> QED
    BY <1>1, <2>1, <2>2 DEF OutcomeInv
<1>10. CASE EndIteration
  <2>1. anyFailed \/ iterFailed => anyFailed'
    BY <1>10 DEF EndIteration, NoteFailure
  <2>2. /\ at = "iterated" /\ at' \in {"decide", "end"}
        /\ iterCancelled => at' = "end"
        /\ UNCHANGED <<ctxDone, ran, result>>
    BY <1>10 DEF EndIteration, MayContinue
  <2> QED
    BY <1>1, <2>1, <2>2 DEF OutcomeInv
<1>11. CASE SettleBlock
  BY <1>11, <1>1 DEF SettleBlock, Fail, Outcome, OutcomeInv, BlockTypeInv, BlockTypeOK
<1>12. CASE CancelBlock \/ Tick \/ UNCHANGED blockVars
  BY <1>12, <1>1 DEF CancelBlock, Tick, blockVars, OutcomeInv
<1> QED
  BY <1>2, <1>3, <1>4, <1>5, <1>6, <1>8, <1>9, <1>10, <1>11, <1>12
  DEF BlockNext, Step

\* The block's status agrees with what its steps did and with the context.
THEOREM OutcomeIsTrue == BlockSpec => []OutcomeTellsTruth
<1>1. BlockInit => OutcomeInv /\ LateCallsInv
  BY DEF BlockInit, OutcomeInv, LateCallsInv, SomeBad, SomeCancelled
<1>2. BlockTypeInv /\ OutcomeInv /\ LateCallsInv /\ [BlockNext]_blockVars => (OutcomeInv /\ LateCallsInv)'
  BY OutcomePreserved, CancelPreserved
<1>3. BlockTypeInv /\ OutcomeInv => OutcomeTellsTruth
  <2> SUFFICES ASSUME BlockTypeInv, OutcomeInv PROVE OutcomeTellsTruth
    OBVIOUS
  <2>1. \A j \in 1..Len(ran) : ran[j] \in StepResult
    BY DEF BlockTypeInv, BlockTypeOK
  <2>2. \A j \in 1..Len(ran) : ran[j].status \in Bad \cup {"passed", "skipped"}
    BY <2>1 DEF StepResult
  <2> QED
    BY <2>2 DEF OutcomeInv, OutcomeTellsTruth, SomeBad, SomeCancelled
<1> QED
  BY <1>1, <1>2, <1>3, TypeInvariant, PTL DEF BlockSpec

(***************************************************************************)
(* Sums                                                                    *)
(***************************************************************************)
\* Induction, stated with the set of what it has been shown of: the library's
\* theorems about it take a predicate, which the provers here cannot instantiate.
LEMMA NumberInduction ==
  ASSUME NEW G, 0 \in G, \A n \in Nat : n \in G => n + 1 \in G
  PROVE  Nat \subseteq G
<1> SUFFICES ASSUME Nat \ G # {} PROVE FALSE
  OBVIOUS
<1>1. PICK m \in Nat \ G : \A k \in Nat \ G : m <= k
  <2>1. Nat \ G \in SUBSET Nat
    OBVIOUS
  <2> QED
    BY <2>1, LeastNat
<1>2. m # 0 /\ m - 1 \in Nat
  BY <1>1
<1>3. m - 1 \in G
  BY <1>1, <1>2
<1>4. (m - 1) + 1 \in G /\ (m - 1) + 1 = m
  BY <1>2, <1>3
<1> QED
  BY <1>1, <1>4

LEMMA OneLess ==
  ASSUME NEW s, IsFiniteSet(s), NEW x \in s
  PROVE  /\ IsFiniteSet(s \ {x}) /\ Cardinality(s \ {x}) \in Nat
         /\ Cardinality(s) = Cardinality(s \ {x}) + 1
<1>1. IsFiniteSet(s \ {x}) /\ Cardinality(s \ {x}) = Cardinality(s) - 1
  BY FS_RemoveElement
<1> QED
  BY <1>1, FS_CardinalityType

LEMMA SubsetInduction ==
  ASSUME NEW D, IsFiniteSet(D), NEW G, {} \in G,
         \A s \in SUBSET D : s # {} /\ (\A x \in s : s \ {x} \in G) => s \in G
  PROVE  SUBSET D \subseteq G
<1> DEFINE Done == {n \in Nat : \A s \in SUBSET D : Cardinality(s) <= n => s \in G}
<1>1. \A s \in SUBSET D : IsFiniteSet(s) /\ Cardinality(s) \in Nat
  BY FS_Subset, FS_CardinalityType
<1>2. 0 \in Done
  <2>1. \A s \in SUBSET D : Cardinality(s) <= 0 => s = {}
    BY <1>1, FS_EmptySet
  <2> QED
    BY <2>1
<1>3. ASSUME NEW n \in Nat, n \in Done PROVE n + 1 \in Done
  <2>1. ASSUME NEW s \in SUBSET D, Cardinality(s) <= n + 1, s # {}
        PROVE  s \in G
    <3>1. ASSUME NEW x \in s PROVE s \ {x} \in G
      <4>1. Cardinality(s \ {x}) <= n /\ s \ {x} \in SUBSET D
        BY <1>1, <2>1, OneLess
      <4> QED
        BY <1>3, <4>1
    <3> QED
      BY <2>1, <3>1
  <2>2. \A s \in SUBSET D : Cardinality(s) <= n + 1 => s \in G
    BY <2>1
  <2> QED
    BY <2>2
<1> HIDE DEF Done
<1>4. Nat \subseteq Done
  BY <1>2, <1>3, NumberInduction
<1> QED
  BY <1>1, <1>4 DEF Done

\* g sums f over every subset, one chosen element after the other.
Choice(s) == CHOOSE x \in s : TRUE
Total(f, g, s) == IF s = {} THEN 0 ELSE f[Choice(s)] + g[s \ {Choice(s)}]
Sums(f, D, g) == g = [s \in SUBSET D |-> Total(f, g, s)]

LEMMA ChoiceIsMember == \A s : s # {} => Choice(s) \in s
BY DEF Choice

LEMMA SumsExist ==
  ASSUME NEW D, IsFiniteSet(D), NEW f \in [D -> Nat]
  PROVE  \E g \in [SUBSET D -> Nat] : Sums(f, D, g)
<1> DEFINE Upto(n, g) ==
             \A s \in SUBSET D : Cardinality(s) <= n => g[s] = Total(f, g, s)
           Reached == {n \in Nat : \E g \in [SUBSET D -> Nat] : Upto(n, g)}
<1>1. \A s \in SUBSET D : IsFiniteSet(s) /\ Cardinality(s) \in Nat
  BY FS_Subset, FS_CardinalityType
<1>2. 0 \in Reached
  <2> DEFINE zero == [s \in SUBSET D |-> 0]
  <2>1. \A s \in SUBSET D : Cardinality(s) <= 0 => s = {}
    BY <1>1, FS_EmptySet
  <2>2. zero \in [SUBSET D -> Nat] /\ Upto(0, zero)
    BY <2>1 DEF Total
  <2> QED
    BY <2>2
<1>3. ASSUME NEW n \in Nat, n \in Reached PROVE n + 1 \in Reached
  <2>1. PICK g \in [SUBSET D -> Nat] : Upto(n, g)
    BY <1>3
  <2> DEFINE h == [s \in SUBSET D |-> Total(f, g, s)]
  <2>2. \A s \in SUBSET D : Total(f, g, s) \in Nat
    BY ChoiceIsMember DEF Total
  <2>3. h \in [SUBSET D -> Nat]
    BY <2>2
  <2>4. ASSUME NEW s \in SUBSET D, Cardinality(s) <= n + 1
        PROVE  h[s] = Total(f, h, s)
    <3>1. CASE s = {}
      BY <3>1 DEF Total
    <3>2. CASE s # {}
      <4>1. /\ s \ {Choice(s)} \in SUBSET D
            /\ Cardinality(s \ {Choice(s)}) <= n
        BY <1>1, <2>4, <3>2, ChoiceIsMember, OneLess
      <4>2. h[s \ {Choice(s)}] = g[s \ {Choice(s)}]
        BY <2>1, <4>1
      <4>3. h[s] = f[Choice(s)] + g[s \ {Choice(s)}]
        BY <3>2 DEF Total
      <4> QED
        BY <3>2, <4>2, <4>3 DEF Total
    <3> QED
      BY <3>1, <3>2
  <2>5. Upto(n + 1, h)
    BY <2>4
  <2> HIDE DEF h, Upto
  <2> QED
    BY <2>3, <2>5
<1> HIDE DEF Reached
<1>4. Nat \subseteq Reached
  BY <1>2, <1>3, NumberInduction
<1>5. Cardinality(D) \in Nat /\ \A s \in SUBSET D : Cardinality(s) <= Cardinality(D)
  BY FS_Subset, FS_CardinalityType
<1>6. PICK g \in [SUBSET D -> Nat] : Upto(Cardinality(D), g)
  BY <1>4, <1>5 DEF Reached
<1>7. g = [s \in SUBSET D |-> Total(f, g, s)]
  BY <1>5, <1>6
<1> QED
  BY <1>7 DEF Sums

\* The sums over the subsets of D depend on the terms of D only.
LEMMA SumsAgree ==
  ASSUME NEW D, IsFiniteSet(D), NEW E, D \subseteq E, NEW f, NEW h, NEW g, NEW k,
         \A d \in D : h[d] = f[d], Sums(f, D, g), Sums(h, E, k)
  PROVE  k[D] = g[D]
<1> DEFINE G == {s \in SUBSET D : g[s] = k[s]}
<1>1. \A s \in SUBSET D : g[s] = Total(f, g, s)
  BY DEF Sums
<1>2. \A s \in SUBSET D : k[s] = Total(h, k, s)
  BY DEF Sums
<1>3. {} \in G
  BY <1>1, <1>2 DEF Total
<1>4. ASSUME NEW s \in SUBSET D, s # {}, \A x \in s : s \ {x} \in G
      PROVE  s \in G
  <2>1. Choice(s) \in s /\ h[Choice(s)] = f[Choice(s)]
    BY <1>4, ChoiceIsMember
  <2>2. g[s \ {Choice(s)}] = k[s \ {Choice(s)}]
    BY <1>4, <2>1
  <2> QED
    BY <1>1, <1>2, <1>4, <2>1, <2>2 DEF Total
<1> HIDE DEF G
<1>5. SUBSET D \subseteq G
  BY <1>3, <1>4, SubsetInduction
<1>6. D \in G
  BY <1>5
<1> QED
  BY <1>6 DEF G

LEMMA AnyOrder ==
  ASSUME NEW D, IsFiniteSet(D), NEW f \in [D -> Nat],
         NEW g \in [SUBSET D -> Nat], Sums(f, D, g)
  PROVE  \A s \in SUBSET D : \A x \in s : g[s] = f[x] + g[s \ {x}]
<1> DEFINE G == {s \in SUBSET D : \A x \in s : g[s] = f[x] + g[s \ {x}]}
<1>1. {} \in G
  OBVIOUS
<1>2. ASSUME NEW s \in SUBSET D, s # {}, \A x \in s : s \ {x} \in G
      PROVE  s \in G
  <2> DEFINE c == Choice(s)
  <2>1. c \in s /\ g[s] = f[c] + g[s \ {c}]
    BY <1>2, ChoiceIsMember DEF Sums, Total
  <2> HIDE DEF c
  <2>2. ASSUME NEW x \in s, x # c PROVE g[s] = f[x] + g[s \ {x}]
    <3>1. /\ g[s \ {c}] = f[x] + g[(s \ {c}) \ {x}]
          /\ g[s \ {x}] = f[c] + g[(s \ {x}) \ {c}]
      BY <1>2, <2>1, <2>2
    <3>2. (s \ {c}) \ {x} = (s \ {x}) \ {c}
      OBVIOUS
    <3> DEFINE rest == g[(s \ {x}) \ {c}]
    <3>3. f[x] \in Nat /\ f[c] \in Nat /\ rest \in Nat
      BY <2>1
    <3>4. g[s \ {c}] = f[x] + rest /\ g[s \ {x}] = f[c] + rest
      BY <3>1, <3>2
    <3> HIDE DEF rest
    <3> QED
      BY <2>1, <3>3, <3>4
  <2> QED
    BY <2>1, <2>2
<1> HIDE DEF G
<1>3. SUBSET D \subseteq G
  BY <1>1, <1>2, SubsetInduction
<1> QED
  BY <1>3 DEF G

LEMMA SumIsASum ==
  ASSUME NEW D, IsFiniteSet(D), NEW f \in [D -> Nat]
  PROVE  \E g \in [SUBSET D -> Nat] : Sums(f, D, g) /\ SumFunction(f) = g[D]
<1> DEFINE it == CHOOSE it : it = [s \in SUBSET DOMAIN f |->
                   IF s = {} THEN 0 ELSE f[Choice(s)] + it[s \ {Choice(s)}]]
<1>1. SumFunction(f) = it[DOMAIN f]
  BY DEF SumFunction, SumFunctionOnSet, FoldFunctionOnSet, MapThenFoldSet, Choice
<1>2. PICK g \in [SUBSET D -> Nat] : Sums(f, D, g)
  BY SumsExist
<1>3. g = [s \in SUBSET DOMAIN f |->
            IF s = {} THEN 0 ELSE f[Choice(s)] + g[s \ {Choice(s)}]]
  BY <1>2 DEF Sums, Total
<1>4. it = [s \in SUBSET DOMAIN f |->
             IF s = {} THEN 0 ELSE f[Choice(s)] + it[s \ {Choice(s)}]]
  BY <1>3
<1> HIDE DEF it
<1>5. Sums(f, D, it)
  BY <1>4 DEF Sums, Total
<1>6. it[D] = g[D]
  BY <1>2, <1>5, SumsAgree
<1> QED
  BY <1>1, <1>2, <1>6

\* A sum without one of its terms.
LEMMA SumGrows ==
  ASSUME NEW D, IsFiniteSet(D), NEW x \in D, NEW f \in [D \ {x} -> Nat],
         NEW h \in [D -> Nat], \A d \in D \ {x} : h[d] = f[d]
  PROVE  /\ SumFunction(f) \in Nat
         /\ SumFunction(h) = SumFunction(f) + h[x]
<1>1. IsFiniteSet(D \ {x})
  BY OneLess
<1>2. PICK g \in [SUBSET (D \ {x}) -> Nat] :
        Sums(f, D \ {x}, g) /\ SumFunction(f) = g[D \ {x}]
  BY <1>1, SumIsASum
<1>3. PICK k \in [SUBSET D -> Nat] : Sums(h, D, k) /\ SumFunction(h) = k[D]
  BY SumIsASum
<1>4. k[D \ {x}] = g[D \ {x}]
  BY <1>1, <1>2, <1>3, SumsAgree
<1>5. k[D] = h[x] + k[D \ {x}]
  BY <1>3, AnyOrder
<1>6. g[D \ {x}] \in Nat /\ h[x] \in Nat
  BY <1>2
<1> QED
  BY <1>2, <1>3, <1>4, <1>5, <1>6

LEMMA SumOfNothing ==
  ASSUME NEW f \in [{} -> Nat]
  PROVE  SumFunction(f) = 0
<1>1. PICK g \in [SUBSET {} -> Nat] : Sums(f, {}, g) /\ SumFunction(f) = g[{}]
  BY FS_EmptySet, SumIsASum
<1> QED
  BY <1>1 DEF Sums, Total

(***************************************************************************)
(* What the iterations hold                                                *)
(***************************************************************************)
InProgress == at \in InStep \cup {"iterated"}

\* The nested steps executed in iteration j.
Vals(j) == {k \in Nested : \E m \in Executed(k) : ran[m].iter = j}

\* The entries are those of the iterations that are over, in order, and the
\* iteration in progress has noted what it executed so far.
ValsInv ==
  /\ i = IF InProgress THEN Len(iterations) + 1 ELSE Len(iterations)
  /\ \A m \in 1..Len(ran) : ran[m].iter <= i
  /\ \A j \in 1..Len(iterations) : iterations[j].vals = Vals(j)
  /\ InProgress => iterVals = Vals(i)

\* spent is the sum the budget is compared with.
Sizes(n) == [m \in 1..n |-> iterations[m].size]
SpentInv ==
  /\ spent = SumFunction(Sizes(Len(iterations)))
  /\ \A j \in 1..Len(iterations) :
       iterations[j].trimmed <=> SumFunction(Sizes(j - 1)) >= Budget

BooksInv == ValsInv /\ SpentInv

LEMMA BooksChange ==
  ASSUME [BlockNext]_blockVars
  PROVE \/ EndsOfStep
        \/ BeginIteration
        \/ EndIteration
        \/ UNCHANGED <<ran, iterVals, iterations, spent, i, InProgress>>
<1> USE DEF block, timers, iteration, totals, record, InProgress
<1>1. CASE BeginStep \/ CallCancelled \/ PollCancelled
  BY <1>1 DEF BeginStep, CallCancelled, PollCancelled, EndsOfStep, InStep, Statuses, Bad
<1>2. CASE CallFails \/ CallAnswers
  BY <1>2, RetryCases
  DEF CallFails, CallAnswers, Sleep, EndsOfStep, InStep, Statuses, Bad
<1>3. CASE BlockWhen \/ Resolve \/ While \/ LeaveLoop \/ StopBetweenSteps
  BY <1>3 DEF BlockWhen, Resolve, While, LeaveLoop, StopBetweenSteps, Fail, InStep
<1>4. CASE Call
  BY <1>4 DEF Call, InStep
<1>5. CASE PollAgain
  BY <1>5 DEF PollAgain, InStep
<1>6. CASE Decide
  <2>1. /\ UNCHANGED <<ran, iterVals, iterations, spent, i>>
        /\ at = "decide" /\ at' \in {"end", "top", "pause"}
    BY <1>6 DEF Decide
  <2>2. ~InProgress /\ ~InProgress'
    BY <2>1 DEF InStep
  <2> QED
    BY <2>1, <2>2
<1>7. CASE Pause
  BY <1>7 DEF Pause, InStep
<1>8. CASE SettleBlock
  BY <1>8 DEF SettleBlock, Fail, InStep
<1>9. CASE CancelBlock \/ Tick \/ UNCHANGED blockVars
  BY <1>9 DEF CancelBlock, Tick, blockVars
<1> QED
  BY <1>1, <1>2, <1>3, <1>4, <1>5, <1>6, <1>7, <1>8, <1>9 DEF BlockNext, Step

LEMMA SameBooks ==
  ASSUME BooksInv, UNCHANGED <<ran, iterVals, iterations, spent, i, InProgress>>
  PROVE BooksInv'
BY DEF BooksInv, ValsInv, SpentInv, Vals, Executed, Sizes

LEMMA StepEndsBooks ==
  ASSUME BlockTypeInv, BooksInv, EndsOfStep
  PROVE BooksInv'
<1>1. PICK outcome \in Statuses : at \in InStep /\ NestedEnds(outcome)
  BY DEF EndsOfStep
<1> DEFINE n == Len(ran)
           r == StepRecord(outcome)
<1>2. /\ i \in 1..Max /\ step \in Nested /\ ran \in Seq(StepResult)
      /\ i \in Nat /\ iterations \in Seq(IterationValue)
  BY <1>1, StepsAssumption DEF BlockTypeInv, BlockTypeOK, Placed
<1>3. /\ n \in Nat /\ Len(ran') = n + 1 /\ ran'[n + 1] = r
      /\ \A j \in 1..n : ran'[j] = ran[j]
  BY <1>1, <1>2 DEF NestedEnds
<1>4. r.iter = i /\ r.step = step /\ r.status = outcome
  BY DEF StepRecord
<1>5. InProgress /\ InProgress'
  BY <1>1 DEF NestedEnds, AfterStep, InProgress, InStep
<1>6. UNCHANGED <<i, iterations, spent>>
  BY <1>1 DEF NestedEnds, totals
<1>7. i = Len(iterations) + 1 /\ Len(iterations) \in Nat
  BY <1>2, <1>5 DEF BooksInv, ValsInv
<1>8. \A m \in 1..Len(ran') : ran'[m].iter <= i
  BY <1>2, <1>3, <1>4 DEF BooksInv, ValsInv
<1>9. \A k \in Nested : \A m \in 1..Len(ran') :
        m \in Executed(k)' <=>
          \/ m \in Executed(k)
          \/ m = n + 1 /\ k = step /\ outcome # "skipped"
  BY <1>3, <1>4 DEF Executed
<1>10. \A k \in Nested : Executed(k) \subseteq 1..n /\ Executed(k)' \subseteq 1..(n + 1)
  BY <1>3 DEF Executed
<1>11. ASSUME NEW j \in Nat, j # i PROVE Vals(j)' = Vals(j)
  <2>1. \A k \in Nested : \A m \in Executed(k) : m \in Executed(k)' /\ ran'[m] = ran[m]
    BY <1>3, <1>9, <1>10
  <2>2. \A k \in Nested : \A m \in Executed(k)' :
          ran'[m].iter = j => m \in Executed(k) /\ ran'[m] = ran[m]
    BY <1>3, <1>4, <1>9, <1>10, <1>11
  <2> QED
    BY <2>1, <2>2 DEF Vals
<1>12. \A j \in Nat : j = i =>
         Vals(j)' = IF outcome = "skipped" THEN Vals(j) ELSE Vals(j) \cup {step}
  <2> SUFFICES ASSUME NEW j \in Nat, j = i
               PROVE Vals(j)' = IF outcome = "skipped" THEN Vals(j)
                               ELSE Vals(j) \cup {step}
    OBVIOUS
  <2>1. \A k \in Nested : \A m \in Executed(k) : m \in Executed(k)' /\ ran'[m] = ran[m]
    BY <1>3, <1>9, <1>10
  <2>2. \A k \in Nested : \A m \in Executed(k)' :
          \/ m \in Executed(k) /\ ran'[m] = ran[m]
          \/ k = step /\ outcome # "skipped"
    BY <1>3, <1>9, <1>10
  <2>3. \A k \in Nested : k = step /\ outcome # "skipped" =>
          n + 1 \in Executed(k)' /\ ran'[n + 1].iter = j
    BY <1>2, <1>3, <1>4, <1>9
  <2>4. Vals(j) \subseteq Vals(j)'
    BY <2>1 DEF Vals
  <2>5. outcome # "skipped" => step \in Vals(j)'
    BY <1>2, <2>3 DEF Vals
  <2>6. \A k \in Vals(j)' : k \in Vals(j) \/ (k = step /\ outcome # "skipped")
    BY <2>2 DEF Vals
  <2> QED
    BY <2>4, <2>5, <2>6
<1>13. iterVals' = Vals(i)'
  <2>1. PICK j \in Nat : j = i
    BY <1>2
  <2>2. iterVals = Vals(j)
    BY <1>5, <2>1 DEF BooksInv, ValsInv
  <2>3. iterVals' = Vals(j)'
    BY <1>1, <1>12, <2>1, <2>2 DEF NestedEnds, AddValue
  <2>4. i' = j
    BY <1>6, <2>1
  <2> QED
    BY <2>3, <2>4 DEF Vals
<1>14. \A j \in 1..Len(iterations) : iterations[j].vals = Vals(j)'
  BY <1>7, <1>11 DEF BooksInv, ValsInv
<1>15. ValsInv'
  BY <1>5, <1>6, <1>7, <1>8, <1>13, <1>14 DEF ValsInv
<1>16. SpentInv'
  BY <1>6 DEF BooksInv, SpentInv, Sizes
<1> QED
  BY <1>15, <1>16 DEF BooksInv

LEMMA BeginIterationBooks ==
  ASSUME BlockTypeInv, BooksInv, BeginIteration
  PROVE BooksInv'
<1>1. /\ ran \in Seq(StepResult) /\ i \in Nat
      /\ iterations \in Seq(IterationValue)
  BY StepsAssumption DEF BlockTypeInv, BlockTypeOK
<1>2. /\ ~InProgress /\ InProgress' /\ i' = i + 1 /\ iterVals' = {}
      /\ UNCHANGED <<ran, iterations, spent>>
  BY DEF BeginIteration, InProgress, InStep, totals, record
<1>3. \A m \in 1..Len(ran) : ran[m].iter \in Nat /\ ran[m].iter <= i
  <2>1. \A m \in 1..Len(ran) : ran[m] \in StepResult
    BY <1>1
  <2> QED
    BY <2>1, StepsAssumption DEF StepResult, BooksInv, ValsInv
<1>4. \A k \in Nested : Executed(k)' = Executed(k) /\ Executed(k) \subseteq 1..Len(ran)
  BY <1>2 DEF Executed
<1>5. \A j \in Nat : Vals(j)' = Vals(j)
  BY <1>2, <1>4 DEF Vals
<1>6. \A m \in 1..Len(ran) : ran[m].iter # i + 1
  BY <1>1, <1>3
<1>7. Vals(i + 1) = {}
  BY <1>4, <1>6 DEF Vals
<1>8. i + 1 \in Nat /\ i = Len(iterations) /\ Len(iterations) \in Nat
  BY <1>1, <1>2 DEF BooksInv, ValsInv
<1>9. iterVals' = Vals(i)'
  <2>1. PICK j \in Nat : j = i + 1
    BY <1>8
  <2>2. Vals(j)' = {}
    BY <1>5, <1>7, <2>1
  <2>3. i' = j
    BY <1>2, <2>1
  <2> QED
    BY <1>2, <2>2, <2>3 DEF Vals
<1>10. \A m \in 1..Len(ran) : ran[m].iter <= i + 1
  BY <1>1, <1>3
<1>11. ValsInv'
  BY <1>2, <1>5, <1>8, <1>9, <1>10 DEF BooksInv, ValsInv
<1>12. SpentInv'
  BY <1>2 DEF BooksInv, SpentInv, Sizes
<1> QED
  BY <1>11, <1>12 DEF BooksInv

LEMMA SizesAdd ==
  ASSUME NEW n \in Nat, NEW q, \A m \in 1..(n + 1) : q[m].size \in Nat
  PROVE /\ SumFunction([m \in 1..n |-> q[m].size]) \in Nat
        /\ SumFunction([m \in 1..(n + 1) |-> q[m].size]) =
             SumFunction([m \in 1..n |-> q[m].size]) + q[n + 1].size
<1> DEFINE D == 1..(n + 1)
           x == n + 1
           f == [m \in 1..n |-> q[m].size]
           h == [m \in 1..(n + 1) |-> q[m].size]
<1>1. IsFiniteSet(D) /\ x \in D /\ D \ {x} = 1..n
  BY FS_Interval
<1>2. f \in [D \ {x} -> Nat] /\ h \in [D -> Nat] /\ h[x] = q[n + 1].size
  BY <1>1
<1>3. \A d \in D \ {x} : h[d] = f[d]
  BY <1>1
<1> HIDE DEF D, f, h
<1>4. SumFunction(f) \in Nat /\ SumFunction(h) = SumFunction(f) + h[x]
  BY <1>1, <1>2, <1>3, SumGrows
<1> QED
  BY <1>2, <1>4 DEF f, h

LEMMA EndIterationBooks ==
  ASSUME BlockTypeInv, BooksInv, BlockTypeInv', EndIteration
  PROVE BooksInv'
<1>0. PICK n \in Nat : n = Len(iterations)
  BY DEF BlockTypeInv, BlockTypeOK
<1>1. /\ iterations \in Seq(IterationValue) /\ iterations' \in Seq(IterationValue)
      /\ spent \in Nat
  BY DEF BlockTypeInv, BlockTypeOK
<1>2. /\ InProgress /\ ~InProgress' /\ UNCHANGED <<ran, i>> /\ AddIteration
  BY DEF EndIteration, InProgress, InStep, record
<1>3. PICK e : /\ iterations' = Append(iterations, e)
               /\ e.vals = iterVals
               /\ e.trimmed <=> spent >= Budget
               /\ e.size \in Nat /\ spent' = spent + e.size
  <2>1. CASE spent >= Budget
    <3> DEFINE e == [vals |-> iterVals, trimmed |-> TRUE, size |-> 0]
    <3>1. /\ e.vals = iterVals /\ e.trimmed = TRUE /\ e.size = 0
      OBVIOUS
    <3>2. iterations' = Append(iterations, e) /\ spent' = spent
      BY <1>2, <2>1 DEF AddIteration
    <3> HIDE DEF e
    <3> QED
      BY <1>1, <2>1, <3>1, <3>2
  <2>2. CASE ~(spent >= Budget)
    <3>1. PICK size \in 0..MaxSize :
            /\ iterations' = Append(iterations,
                 [vals |-> iterVals, trimmed |-> FALSE, size |-> size])
            /\ spent' = spent + size
      BY <1>2, <2>2 DEF AddIteration
    <3> DEFINE e == [vals |-> iterVals, trimmed |-> FALSE, size |-> size]
    <3>2. /\ e.vals = iterVals /\ e.trimmed = FALSE /\ e.size = size /\ size \in Nat
      BY BudgetAssumption
    <3>3. iterations' = Append(iterations, e)
      BY <3>1
    <3> HIDE DEF e
    <3> QED
      BY <2>2, <3>1, <3>2, <3>3
  <2> QED
    BY <2>1, <2>2
<1>4. /\ Len(iterations') = n + 1 /\ iterations'[n + 1] = e
      /\ \A m \in 1..n : iterations'[m] = iterations[m]
  BY <1>0, <1>1, <1>3
<1>5. \A j : Vals(j)' = Vals(j)
  BY <1>2 DEF Vals, Executed
<1>6. i = n + 1 /\ iterVals = Vals(n + 1)
  BY <1>0, <1>2 DEF BooksInv, ValsInv
<1>7. \A j \in 1..(n + 1) : iterations'[j].vals = Vals(j)'
  BY <1>0, <1>3, <1>4, <1>5, <1>6 DEF BooksInv, ValsInv
<1>8. ValsInv'
  BY <1>2, <1>4, <1>6, <1>7 DEF BooksInv, ValsInv
<1>9. \A m \in 1..(n + 1) : iterations'[m].size \in Nat
  <2>1. \A m \in 1..(n + 1) : iterations'[m] \in IterationValue
    BY <1>1, <1>4
  <2> QED
    BY <2>1 DEF IterationValue
<1>10. \A m \in 0..n : Sizes(m)' = Sizes(m)
  BY <1>1, <1>4 DEF Sizes
<1>11. /\ SumFunction(Sizes(n))' \in Nat
       /\ SumFunction(Sizes(n + 1))' = SumFunction(Sizes(n))' + e.size
  BY <1>4, <1>9, SizesAdd DEF Sizes
<1>12. SumFunction(Sizes(n))' = spent
  BY <1>0, <1>10 DEF BooksInv, SpentInv
<1>13. spent' = SumFunction(Sizes(n + 1))'
  BY <1>3, <1>11, <1>12
<1>14. ASSUME NEW j \in 1..(n + 1)
       PROVE iterations'[j].trimmed <=> SumFunction(Sizes(j - 1))' >= Budget
  <2>1. j - 1 \in 0..n /\ SumFunction(Sizes(j - 1))' = SumFunction(Sizes(j - 1))
    BY <1>1, <1>10
  <2>2. CASE j = n + 1
    BY <1>0, <1>3, <1>4, <1>12, <2>1, <2>2
  <2>3. CASE j # n + 1
    BY <1>0, <1>4, <2>1, <2>3 DEF BooksInv, SpentInv
  <2> QED
    BY <2>2, <2>3
<1>15. SpentInv'
  BY <1>4, <1>13, <1>14 DEF SpentInv
<1> QED
  BY <1>8, <1>15 DEF BooksInv

\* Every entry of steps.<block>.iterations holds what its iteration executed,
\* and exactly the entries begun within the budget have bodies.
THEOREM IterationsAreBooked == BlockSpec => []IterationsMatch
<1>1. ASSUME BlockInit PROVE BooksInv
  <2>1. iterations = <<>> /\ ran = <<>> /\ i = 0 /\ spent = 0 /\ at = "when"
    BY <1>1 DEF BlockInit
  <2>2. Len(iterations) = 0 /\ Len(ran) = 0
    BY <2>1
  <2>3. SumFunction(Sizes(0)) = 0
    <3>1. Sizes(0) \in [{} -> Nat]
      BY DEF Sizes
    <3> QED
      BY <3>1, SumOfNothing
  <2> QED
    BY <2>1, <2>2, <2>3 DEF BooksInv, ValsInv, SpentInv, InProgress, InStep
<1>2. BlockTypeInv /\ BlockTypeInv' /\ BooksInv /\ [BlockNext]_blockVars => BooksInv'
  BY BooksChange, SameBooks, StepEndsBooks, BeginIterationBooks, EndIterationBooks
<1>3. BooksInv => IterationsMatch
  BY DEF BooksInv, ValsInv, SpentInv, IterationsMatch, Vals, KeptBefore, Sizes
<1> QED
  BY <1>1, <1>2, <1>3, TypeInvariant, PTL DEF BlockSpec
=============================================================================
