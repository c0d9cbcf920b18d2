------------------------------- MODULE FlowRun -------------------------------
(***************************************************************************)
(* One flow executed by the runner (internal/runner/runner.go, Run) and    *)
(* recorded in the run store (internal/runs): setup, main and teardown     *)
(* steps in order, stop on failure, cancellation, resume from an earlier   *)
(* run, and the rows the store keeps.                                      *)
(*                                                                         *)
(* A step is its position in the flow: setup first, then main, then        *)
(* teardown.  What a step does over HTTP is abstracted to its outcome; a   *)
(* loop block counts as one step.  Runs follow one another, each may       *)
(* resume from the rows any earlier one left, also when that one crashed.  *)
(***************************************************************************)
EXTENDS Naturals, FiniteSets

CONSTANTS
  NSetup, NMain, NTeardown,  \* how many steps each phase has
  MaxRuns,                   \* bound: runs started
  Refs,                      \* the steps each step's expressions reference
  Faults                     \* what the environment does in this instance

Steps == 1..(NSetup + NMain + NTeardown)
SetupSteps == 1..NSetup
MainSteps == (NSetup + 1)..(NSetup + NMain)
TeardownSteps == (NSetup + NMain + 1)..(NSetup + NMain + NTeardown)
LastStep == NSetup + NMain + NTeardown
RunIds == 1..MaxRuns

FaultKinds ==
  {"cancel", "gone", "timeout", "crash", "store", "pin", "purge"}

ASSUME SizesAssumption ==
  NSetup \in Nat /\ NMain \in Nat /\ NTeardown \in Nat /\ MaxRuns \in Nat
ASSUME RefsAssumption == Refs \in [Steps -> SUBSET Steps]
ASSUME FaultsAssumption == Faults \subseteq FaultKinds

VARIABLES
  \* the store
  rowStatus,  \* status column of each run's row, or that there is no row
  pinned,     \* its pinned column
  saved,      \* status of each step row of each run
  \* the run in progress, or the last one
  run,        \* its id
  doing,      \* where Run is
  pos,        \* the step it is at
  status,     \* outcome of each step so far
  how,        \* how each step came by its outcome
  stop, cancelSeen, engineErr,  \* Run's local flags
  ctx,        \* "live", "cancelled" (Cancel) or "gone" (the caller's context too)
  tdExpired,  \* the teardown context timed out
  \* its options
  carryOn,    \* ContinueOnFailure
  origin,     \* "fresh", or resumed at the "default" or a "chosen" step
  from, until, earlier,  \* resumePlan
  final,      \* the status each run returned with
  \* history
  asked,      \* Cancel was called and returned true
  inTime,     \* the context ended while a step that would run was left
  wanted      \* the runs the user pinned and did not unpin

rows == <<rowStatus, pinned, saved>>
options == <<carryOn, origin, from, until, earlier>>
flags == <<stop, cancelSeen, engineErr>>
history == <<asked, inTime, wanted>>
vars == <<rows, run, doing, pos, status, how, flags, ctx, tdExpired,
          options, final, history>>

StepStatus == {"passed", "failed", "errored", "skipped", "unmet", "cancelled"}
RunStatus == {"passed", "failed", "errored", "cancelled"}

Active == doing # "idle"
CtxDone == ctx # "live"
InTeardown(p) == p \in TeardownSteps
HasRow(r) == rowStatus[r] \notin {"none", "deleted"}
Reuse == origin # "fresh"

(***************************************************************************)
(* resume.go                                                               *)
(***************************************************************************)
MinOf(S) == CHOOSE x \in S : \A y \in S : x <= y

\* A bug to catch: resuming at the last step the earlier run recorded, also
\* when that one passed and nothing marks what comes after it.
ResumeAfterLastRow(s) ==
  LET recorded == {p \in MainSteps : s[p] # "none"}
      notPassed == {p \in recorded : s[p] # "passed"}
  IN IF notPassed # {} THEN MinOf(notPassed)
                       ELSE NSetup + Cardinality(recorded) + 2

\* The first recorded main step that did not pass, else the position after
\* as many main steps as were recorded.
DefaultResumePoint(s) ==
  LET recorded == {p \in MainSteps : s[p] # "none"}
      notPassed == {p \in recorded : s[p] # "passed"}
  IN IF notPassed # {} THEN MinOf(notPassed)
                       ELSE NSetup + Cardinality(recorded) + 1

Nothing == [p \in Steps |-> "none"]
NoData == IF Reuse THEN {} ELSE {p \in MainSteps : p < from}
Reusable(p) ==
  /\ Reuse
  /\ earlier[p] # "none"
  /\ p \in SetupSteps \/ (p \in MainSteps /\ p < from)
OutsideWindow(p) == p \in MainSteps /\ (p < from \/ (until # 0 /\ p > until))

\* A step that would be executed had the run not been stopped.
Due(p) == p \in SetupSteps \cup MainSteps /\ ~Reusable(p) /\ ~OutsideWindow(p)
WorkRemains == \E p \in Steps : Due(p) /\ (p > pos \/ (p = pos /\ doing = "next"))

(***************************************************************************)
(* summary.go                                                              *)
(***************************************************************************)
DeriveStatus(st, cancelled, failure) ==
  LET counted == {st[p] : p \in SetupSteps \cup MainSteps}
  IN IF cancelled THEN "cancelled"
     ELSE IF failure \/ "errored" \in counted THEN "errored"
     ELSE IF "failed" \in counted THEN "failed"
     ELSE IF "passed" \in counted THEN "passed" ELSE "errored"

(***************************************************************************)
(* The run                                                                 *)
(***************************************************************************)
Init ==
  /\ rowStatus = [r \in RunIds |-> "none"]
  /\ pinned = [r \in RunIds |-> FALSE]
  /\ saved = [r \in RunIds |-> Nothing]
  /\ run = 0 /\ doing = "idle" /\ pos = 1
  /\ status = Nothing
  /\ how = Nothing
  /\ stop = FALSE /\ cancelSeen = FALSE /\ engineErr = FALSE
  /\ ctx = "live" /\ tdExpired = FALSE
  /\ carryOn = FALSE /\ origin = "fresh" /\ from = NSetup + 1 /\ until = 0
  /\ earlier = Nothing
  /\ final = [r \in RunIds |-> "none"]
  /\ asked = FALSE /\ inTime = FALSE /\ wanted = {}

\* Run's preamble: the row is created, the cancel function registered.
Start ==
  /\ ~Active
  /\ run < MaxRuns
  /\ run' = run + 1
  /\ rowStatus' = [rowStatus EXCEPT ![run + 1] = "running"]
  /\ doing' = "next" /\ pos' = 1
  /\ status' = Nothing /\ how' = Nothing
  /\ stop' = FALSE /\ cancelSeen' = FALSE /\ engineErr' = FALSE
  /\ ctx' = "live" /\ tdExpired' = FALSE
  /\ carryOn' \in BOOLEAN
  /\ until' = 0 \/ until' \in {p \in MainSteps : p >= from'}
  /\ asked' = FALSE /\ inTime' = FALSE
  /\ UNCHANGED <<pinned, saved, final, wanted>>

\* No run to resume from: from_step alone skips what comes before it.
StartFresh ==
  /\ origin' = "fresh" /\ earlier' = Nothing
  /\ from' \in {NSetup + 1} \cup MainSteps
  /\ Start

ResumeDefault(e) ==
  /\ HasRow(e)
  /\ origin' = "default" /\ earlier' = saved[e]
  /\ from' = DefaultResumePoint(saved[e])
  /\ Start

ResumeAt(e) ==
  /\ HasRow(e)
  /\ origin' = "chosen" /\ earlier' = saved[e]
  /\ from' \in MainSteps
  /\ Start

At(step) == doing = step

\* A bug to catch: teardown obeys the policy that stops the other phases.
StoppedAtAny(p) == (Due(p) \/ InTeardown(p)) /\ (stop \/ CtxDone)

StoppedAt(p) == Due(p) /\ (stop \/ CtxDone)
MayRun(p) == InTeardown(p) \/ (Due(p) /\ ~stop /\ ~CtxDone)

\* A bug to catch: a run a failure already stopped is not marked cancelled.
NoteCancelUnlessStopped == cancelSeen' = (cancelSeen \/ (CtxDone /\ ~stop))

NoteCancel == cancelSeen' = (cancelSeen \/ CtxDone)

\* The result of the step at pos is decided without executing it.
Settle(outcome, reason) ==
  /\ status' = [status EXCEPT ![pos] = outcome]
  /\ how' = [how EXCEPT ![pos] = reason]
  /\ doing' = "finish"
  /\ UNCHANGED <<rows, run, pos, engineErr, ctx, tdExpired, options, final, history>>

ReuseStep ==
  /\ At("next") /\ pos <= LastStep
  /\ Reusable(pos)
  /\ Settle(earlier[pos], "reused")
  /\ UNCHANGED <<stop, cancelSeen>>

SkipOutsideWindow ==
  /\ At("next") /\ pos <= LastStep
  /\ ~Reusable(pos) /\ OutsideWindow(pos)
  /\ Settle("skipped", "skipped")
  /\ UNCHANGED <<stop, cancelSeen>>

SkipStopped ==
  /\ At("next") /\ pos <= LastStep
  /\ StoppedAt(pos)
  /\ NoteCancel
  /\ stop' = TRUE
  /\ Settle("skipped", "skipped")

\* forwardRefError: the step needs one that was skipped with no data.
Refuse ==
  /\ At("next") /\ pos <= LastStep
  /\ pos \notin SetupSteps /\ MayRun(pos)
  /\ Refs[pos] \cap NoData # {}
  /\ stop' = (stop \/ ~InTeardown(pos))
  /\ Settle("errored", "refused")
  /\ UNCHANGED cancelSeen

Begin ==
  /\ At("next") /\ pos <= LastStep
  /\ MayRun(pos)
  /\ Refs[pos] \cap NoData = {} \/ pos \in SetupSteps
  /\ doing' = "exec"
  /\ UNCHANGED <<rows, run, pos, status, how, flags, ctx, tdExpired,
                 options, final, history>>

\* executeStep or executeBlock returns.  "unmet" is a skip by the step's own
\* `when`.
StepEnds(outcome) ==
  /\ At("exec")
  /\ outcome = "cancelled" => IF InTeardown(pos) THEN tdExpired ELSE CtxDone
  /\ status' = [status EXCEPT ![pos] = outcome]
  /\ how' = [how EXCEPT ![pos] = "ran"]
  /\ doing' = "finish"
  /\ UNCHANGED <<rows, run, pos, flags, ctx, tdExpired, options, final, history>>

\* A bug to catch: the row of a step does not need the row of its run.
CanWriteAlone == IF InTeardown(pos) THEN ~tdExpired ELSE ~CtxDone

\* The context finishStep writes with is the run's, in teardown its own.
CanWrite ==
  /\ HasRow(run)
  /\ IF InTeardown(pos) THEN ~tdExpired ELSE ~CtxDone

\* The outcomes of a write to the store that `possible` does not rule out.
WriteOutcome(possible) ==
  {ok \in BOOLEAN : (ok => possible) /\ (~ok => ~possible \/ "store" \in Faults)}

\* The policy after an executed setup or main step.
ApplyPolicy ==
  LET counts == how[pos] = "ran" /\ ~InTeardown(pos)
  IN /\ stop' = IF counts /\ status[pos] \in {"failed", "errored"}
                 THEN ~carryOn
                 ELSE stop \/ (counts /\ status[pos] = "cancelled")
     /\ cancelSeen' = (cancelSeen \/ (counts /\ status[pos] = "cancelled"))

\* A bug to catch: a step row that could not be written is only logged.
NoteUnwritten(ok) == engineErr' = engineErr

\* A block's nested steps have rows of their own, whose writes may fail alone
\* (block.go:287, 331).
NoteWrite(ok) ==
  \/ engineErr' = (engineErr \/ ~ok)
  \/ "store" \in Faults /\ pos \in MainSteps /\ engineErr' = TRUE

\* A bug to catch: a step row that could not be written is written again.
AdvanceWhenWritten(ok) ==
  /\ pos' = IF ok THEN pos + 1 ELSE pos
  /\ doing' = IF ok THEN "next" ELSE "finish"

Advance(ok) == pos' = pos + 1 /\ doing' = "next"

\* finishStep (append, persist, emit) and the policy that follows it.
FinishStep ==
  /\ At("finish")
  /\ \E ok \in WriteOutcome(CanWrite) :
       /\ saved' = IF ok THEN [saved EXCEPT ![run][pos] = status[pos]] ELSE saved
       /\ NoteWrite(ok)
       /\ Advance(ok)
  /\ ApplyPolicy
  /\ UNCHANGED <<rowStatus, pinned, run, status, how, ctx, tdExpired,
                 options, final, history>>

\* The end of Run: the outcome, the row's last update (with the caller's
\* context, and pinned as it was when the run began), unregister.
Return ==
  /\ At("next") /\ pos > LastStep
  /\ final' = [final EXCEPT ![run] = DeriveStatus(status, cancelSeen, engineErr)]
  /\ \E ok \in WriteOutcome(HasRow(run) /\ ctx # "gone") :
       IF ok THEN /\ rowStatus' = [rowStatus EXCEPT ![run] = final'[run]]
                  /\ pinned' = [pinned EXCEPT ![run] = FALSE]
             ELSE UNCHANGED <<rowStatus, pinned>>
  /\ doing' = "idle"
  /\ UNCHANGED <<saved, run, pos, status, how, flags, ctx, tdExpired,
                 options, history>>

Runner ==
  \/ ReuseStep \/ SkipOutsideWindow \/ SkipStopped \/ Refuse \/ Begin
  \/ \E outcome \in StepStatus \ {"skipped"} : StepEnds(outcome)
  \/ FinishStep \/ Return

(***************************************************************************)
(* Everything else that reaches the run or its row                         *)
(***************************************************************************)
Unmoved == UNCHANGED <<run, pos, status, how, flags, options, final>>

\* Runner.Cancel found the run and called its cancel function.
Cancel ==
  /\ "cancel" \in Faults
  /\ Active /\ ~asked
  /\ ctx' = IF ctx = "live" THEN "cancelled" ELSE ctx
  /\ asked' = TRUE
  /\ inTime' = (inTime \/ WorkRemains)
  /\ UNCHANGED <<rows, doing, tdExpired, wanted>> /\ Unmoved

\* The context Run was called with ends: an HTTP client that went away.
CallerGone ==
  /\ "gone" \in Faults
  /\ Active /\ ctx # "gone"
  /\ ctx' = "gone"
  /\ inTime' = (inTime \/ WorkRemains)
  /\ UNCHANGED <<rows, doing, tdExpired, asked, wanted>> /\ Unmoved

TeardownTimesOut ==
  /\ "timeout" \in Faults
  /\ Active /\ InTeardown(pos) /\ ~tdExpired
  /\ tdExpired' = TRUE
  /\ UNCHANGED <<rows, doing, ctx, history>> /\ Unmoved

\* The process dies with all that Run knew; what the store holds stays.
Crash ==
  /\ "crash" \in Faults
  /\ Active
  /\ doing' = "idle" /\ pos' = 1
  /\ status' = Nothing /\ how' = Nothing
  /\ stop' = FALSE /\ cancelSeen' = FALSE /\ engineErr' = FALSE
  /\ ctx' = "live" /\ tdExpired' = FALSE
  /\ UNCHANGED <<rows, run, options, final, history>>

Pin(r, on) ==
  /\ "pin" \in Faults
  /\ HasRow(r)
  /\ pinned' = [pinned EXCEPT ![r] = on]
  /\ wanted' = IF on THEN wanted \cup {r} ELSE wanted \ {r}
  /\ UNCHANGED <<rowStatus, saved, doing, ctx, tdExpired, asked, inTime>> /\ Unmoved

\* A bug to catch: purging by age does not look at the pins.
PurgeByAge(newest) ==
  /\ "purge" \in Faults
  /\ LET old == {r \in RunIds : HasRow(r) /\ r <= newest}
     IN /\ old # {}
        /\ rowStatus' = [r \in RunIds |-> IF r \in old THEN "deleted" ELSE rowStatus[r]]
        /\ saved' = [r \in RunIds |-> IF r \in old THEN Nothing ELSE saved[r]]
  /\ UNCHANGED <<pinned, doing, ctx, tdExpired, history>> /\ Unmoved

\* Purge by count or by age deletes the unpinned runs up to some start time,
\* their steps with them.
Purge(newest) ==
  /\ "purge" \in Faults
  /\ LET old == {r \in RunIds : HasRow(r) /\ ~pinned[r] /\ r <= newest}
     IN /\ old # {}
        /\ rowStatus' = [r \in RunIds |-> IF r \in old THEN "deleted" ELSE rowStatus[r]]
        /\ saved' = [r \in RunIds |-> IF r \in old THEN Nothing ELSE saved[r]]
  /\ UNCHANGED <<pinned, doing, ctx, tdExpired, history>> /\ Unmoved

Next ==
  \/ StartFresh
  \/ \E e \in RunIds : ResumeDefault(e) \/ ResumeAt(e) \/ Purge(e)
  \/ Runner
  \/ Cancel \/ CallerGone \/ TeardownTimesOut \/ Crash
  \/ \E r \in RunIds, on \in BOOLEAN : Pin(r, on)

Spec == Init /\ [][Next]_vars

\* The runner's goroutine is scheduled, and a step ends: requests and polls
\* have deadlines (runtime client timeout, poll.timeout).
FairSpec == Spec /\ WF_vars(Runner)

-----------------------------------------------------------------------------
(* Properties *)

TypeOK ==
  /\ rowStatus \in [RunIds -> RunStatus \cup {"none", "running", "deleted"}]
  /\ pinned \in [RunIds -> BOOLEAN]
  /\ saved \in [RunIds -> [Steps -> StepStatus \cup {"none"}]]
  /\ run \in 0..MaxRuns
  /\ doing \in {"idle", "next", "exec", "finish"}
  /\ pos \in 1..(LastStep + 1)
  /\ status \in [Steps -> StepStatus \cup {"none"}]
  /\ how \in [Steps -> {"none", "ran", "reused", "skipped", "refused"}]
  /\ stop \in BOOLEAN /\ cancelSeen \in BOOLEAN /\ engineErr \in BOOLEAN
  /\ ctx \in {"live", "cancelled", "gone"} /\ tdExpired \in BOOLEAN
  /\ carryOn \in BOOLEAN /\ origin \in {"fresh", "default", "chosen"}
  /\ from \in Nat /\ until \in {0} \cup MainSteps
  /\ earlier \in [Steps -> StepStatus \cup {"none"}]
  /\ final \in [RunIds -> RunStatus \cup {"none"}]
  /\ asked \in BOOLEAN /\ inTime \in BOOLEAN /\ wanted \subseteq RunIds

Returned == run > 0 /\ final[run] # "none"

\* "teardown: always runs, in order, continuing past its own failures, on a
\* context detached from every cancellation" (runner.go:432): whatever
\* happened before, a run that returned executed every teardown step, or
\* refused it because it needs a step that from_step left without data.
TeardownAlwaysRuns ==
  Returned => \A p \in TeardownSteps :
                \/ how[p] = "ran"
                \/ how[p] = "refused" /\ Refs[p] \cap NoData # {}

\* "stop at first failed/errored step; remaining steps skipped" (PLAN.md,
\* section 9): after an executed step that stops the run, no later setup or
\* main step is executed, however cancellation and store errors interleave.
Stops(p) ==
  \/ how[p] = "refused"
  \/ how[p] = "ran" /\ status[p] = "cancelled"
  \/ how[p] = "ran" /\ status[p] \in {"failed", "errored"} /\ ~carryOn
NothingRunsAfterAStop ==
  \A p, q \in SetupSteps \cup MainSteps :
    p < q /\ Stops(p) => how[q] # "ran"

\* A row that says passed or failed is the whole story: every step of that
\* run has its row, so resume, hints and history read what really happened.
\* Only cancelled, errored and still "running" rows may miss steps.
SettledMeansRecorded ==
  \A r \in RunIds : rowStatus[r] \in {"passed", "failed"} =>
    \A p \in Steps : saved[r][p] # "none"

\* A cancellation (Cancel, or the caller leaving) that comes while a step
\* that would run is left makes the run end as cancelled, also when it was
\* already failing or the store was failing.
CancelInTimeMarksCancelled ==
  Returned /\ inTime => final[run] = "cancelled"

\* "copies the earlier run's setup steps and every main step before the
\* resume point" (docs/flows.md:472): whatever ended the earlier run, the
\* default resume point leaves nothing before it without a result.
ResumePointIsCovered ==
  origin = "default" /\ Active =>
    /\ from <= NSetup + NMain + 1
    /\ \A p \in MainSteps : p < from => earlier[p] = "passed"

\* "pinned runs kept" (PLAN.md:536), as far as the code keeps the promise: a
\* pin set on a run that is over outlives every purge and every later run,
\* resumed from it or not, until the user takes it off.
OverPinSurvives(r) ==
  pinned[r] /\ r \in wanted' /\ ~(r = run /\ Active) =>
    pinned'[r] /\ rowStatus'[r] = rowStatus[r]
FinishedPinSurvives == [][\A r \in RunIds : OverPinSurvives(r)]_vars

\* What the store says of the past stays true: the status a run came to and the
\* outcome recorded of a step are changed by nobody, later runs and a run that is
\* still in progress included, and a run purged while it is in progress does not
\* come back, neither its row nor those of its steps (runs.go:117, 195).
RecordKept(r) ==
  /\ rowStatus[r] \in RunStatus => rowStatus'[r] \in {rowStatus[r], "deleted"}
  /\ rowStatus[r] = "deleted" => rowStatus'[r] = "deleted" /\ saved'[r] = Nothing
  /\ rowStatus'[r] # "deleted" =>
       \A p \in Steps : saved[r][p] # "none" => saved'[r][p] = saved[r][p]
RecordsAreKept == [][\A r \in RunIds : RecordKept(r)]_vars

\* A started run comes back: no store error, cancellation or timeout leaves
\* its goroutine waiting.
EveryRunReturns == Active ~> ~Active
=============================================================================
