------------------------------ MODULE LoopBlock ------------------------------
(***************************************************************************)
(* A loop block of a flow (internal/runner/block.go, executeBlock and      *)
(* runBlockIteration) and the nested steps it executes                     *)
(* (internal/runner/step.go, executeStep), with the poll loop of a step    *)
(* that has `until`.                                                       *)
(*                                                                         *)
(* What an expression evaluates to and what a request answers are choices  *)
(* of the environment; an expression the block does not have evaluates to  *)
(* the value that changes nothing.  Time is only told apart as far as a    *)
(* deadline tells it: elapsed counts from the first attempt of a step and  *)
(* stops one past the poll timeout.                                        *)
(***************************************************************************)
EXTENDS Naturals, Sequences, Functions

CONSTANTS
  NSteps,        \* nested steps of the block
  Max,           \* max of foreach, or repeat.max
  Polls,         \* the nested steps with `until`
  PollTimeout, PollInterval,
  Budget,        \* blockIterationsBudgetBytes
  MaxSize        \* bound: the bytes one iteration's bodies take

Nested == 1..NSteps

ASSUME StepsAssumption == NSteps \in Nat \ {0} /\ Max \in Nat
ASSUME PollsAssumption == Polls \subseteq Nested
ASSUME TimesAssumption == PollTimeout \in Nat /\ PollInterval \in Nat
ASSUME BudgetAssumption == Budget \in Nat /\ MaxSize \in Nat

VARIABLES
  kind, onError,  \* the block: "foreach" or "repeat", "stop" or "continue"
  ctxDone,        \* the run was cancelled or timed out
  at,             \* where the block is
  limit,          \* the loop bound once it is known
  i,              \* iterations begun
  step,           \* the nested step the iteration is at
  elapsed, nap,   \* of that step: time since its first attempt, time slept
  iterFailed, iterCancelled, iterVals,  \* of runBlockIteration
  anyFailed, iterations, spent,         \* of executeBlock
  steps,          \* stepsSoFar: the iteration each nested id was last executed in
  ran,            \* the nested step results, in order
  result,         \* the status of the block
  \* history
  lateTries,      \* attempts of this step begun after its deadline
  lateCalls       \* requests of the block begun after the context was done
                  \* (both count to two)

block == <<kind, onError>>
timers == <<elapsed, nap, lateTries>>
iteration == <<iterFailed, iterCancelled, iterVals>>
totals == <<anyFailed, iterations, spent>>
record == <<steps, ran>>
blockVars == <<block, ctxDone, at, limit, i, step, timers, iteration, totals,
          record, result, lateCalls>>

Places == {"when", "resolve", "top", "nested", "call", "inflight", "refused",
           "sleep", "iterated", "decide", "pause", "end", "done"}
Bad == {"failed", "errored", "cancelled"}

BlockInit ==
  /\ kind \in {"foreach", "repeat"} /\ onError \in {"stop", "continue"}
  /\ ctxDone = FALSE
  /\ at = "when" /\ limit = 0 /\ i = 0 /\ step = 1
  /\ elapsed = 0 /\ nap = 0
  /\ iterFailed = FALSE /\ iterCancelled = FALSE /\ iterVals = {}
  /\ anyFailed = FALSE /\ iterations = <<>> /\ spent = 0
  /\ steps = [k \in Nested |-> 0] /\ ran = <<>>
  /\ result = "none"
  /\ lateTries = 0 /\ lateCalls = 0

(***************************************************************************)
(* The block                                                               *)
(***************************************************************************)
Fail(status) == at' = "done" /\ result' = status

\* `when` of the block: an error, false, or go on.
BlockWhen ==
  /\ at = "when"
  /\ \/ Fail("errored")
     \/ Fail("skipped")
     \/ at' = "resolve" /\ UNCHANGED result
  /\ UNCHANGED <<block, ctxDone, limit, i, step, timers, iteration, totals,
                 record, lateCalls>>

\* The list of a foreach (an error, no list, longer than max, or a list), or
\* the bound and interval of a repeat.
Resolve ==
  /\ at = "resolve"
  /\ \/ Fail("errored") /\ UNCHANGED limit
     \/ kind = "foreach" /\ Fail("failed") /\ UNCHANGED limit
     \/ /\ at' = "top" /\ UNCHANGED result
        /\ limit' \in (IF kind = "foreach" THEN 0..Max ELSE {Max})
  /\ UNCHANGED <<block, ctxDone, i, step, timers, iteration, totals, record,
                 lateCalls>>

\* `while` is evaluated before the context is looked at.
While ==
  /\ at = "top" /\ i < limit /\ kind = "repeat"
  /\ \/ Fail("errored")
     \/ at' = "end" /\ UNCHANGED result
  /\ UNCHANGED <<block, ctxDone, limit, i, step, timers, iteration, totals,
                 record, lateCalls>>

LeaveLoop ==
  /\ at = "top" /\ (i = limit \/ ctxDone)
  /\ at' = "end"
  /\ UNCHANGED <<block, ctxDone, limit, i, step, timers, iteration, totals,
                 record, result, lateCalls>>

BeginIteration ==
  /\ at = "top" /\ i < limit /\ ~ctxDone
  /\ i' = i + 1 /\ step' = 1 /\ at' = "nested"
  /\ iterFailed' = FALSE /\ iterCancelled' = FALSE /\ iterVals' = {}
  /\ UNCHANGED <<block, ctxDone, limit, timers, totals, record, result,
                 lateCalls>>

(***************************************************************************)
(* A nested step                                                           *)
(***************************************************************************)
StepRecord(status) == [iter |-> i, step |-> step, status |-> status]

Remember(status) ==
  steps' = IF status = "skipped" THEN steps ELSE [steps EXCEPT ![step] = i]

\* The end of a pass through the loop of runBlockIteration.
AfterStep(status) ==
  /\ iterFailed' = (status \in Bad)
  /\ iterCancelled' = (status = "cancelled")
  /\ IF status \in Bad \/ step = NSteps
     THEN at' = "iterated" /\ UNCHANGED step
     ELSE at' = "nested" /\ step' = step + 1

AddValue(status) ==
  iterVals' = IF status = "skipped" THEN iterVals ELSE iterVals \cup {step}

\* executeStep returns and runBlockIteration takes its result.
NestedEnds(status) ==
  /\ ran' = Append(ran, StepRecord(status))
  /\ Remember(status) /\ AddValue(status) /\ AfterStep(status)
  /\ UNCHANGED <<block, ctxDone, limit, i, totals, result>>

StopBetweenSteps ==
  /\ at = "nested" /\ ctxDone
  /\ iterFailed' = TRUE /\ iterCancelled' = TRUE /\ at' = "iterated"
  /\ UNCHANGED <<block, ctxDone, limit, i, step, timers, iterVals, totals,
                 record, result, lateCalls>>

\* `when`, interpolation, binding and the URL: skipped, an error, or a request
\* to send.
BeginStep ==
  /\ at = "nested" /\ ~ctxDone
  /\ \/ /\ \E status \in {"skipped", "errored"} : NestedEnds(status)
        /\ UNCHANGED timers
     \/ /\ at' = "call"
        /\ elapsed' = 0 /\ nap' = 0 /\ lateTries' = 0
        /\ UNCHANGED <<block, ctxDone, limit, i, step, iteration, totals,
                       record, result>>
  /\ UNCHANGED lateCalls

PastDeadline == elapsed > PollTimeout
ToTwo(n) == IF n = 0 THEN 1 ELSE 2

\* One attempt.  With a context that is done the client sends nothing.
Call ==
  /\ at = "call"
  /\ lateTries' = IF PastDeadline THEN ToTwo(lateTries) ELSE lateTries
  /\ lateCalls' = IF ctxDone THEN ToTwo(lateCalls) ELSE lateCalls
  /\ at' = IF ctxDone THEN "refused" ELSE "inflight"
  /\ UNCHANGED <<block, ctxDone, limit, i, step, elapsed, nap, iteration,
                 totals, record, result>>

Sleep ==
  /\ at' = "sleep" /\ nap' = 0
  /\ UNCHANGED <<block, ctxDone, limit, i, step, elapsed, lateTries,
                 iteration, totals, record, result>>

\* A bug to catch: an attempt after the deadline is followed by another.
RetryForEver == Sleep

\* After an attempt that did not satisfy `until`.
RetryOrGiveUp ==
  \/ PastDeadline /\ NestedEnds("failed") /\ UNCHANGED timers
  \/ ~PastDeadline /\ Sleep

\* A bug to catch: a cancelled request is retried as a failed one.
CancelledRetried ==
  /\ at = "refused" \/ (at = "inflight" /\ ctxDone)
  /\ IF step \in Polls THEN RetryOrGiveUp
     ELSE NestedEnds("cancelled") /\ UNCHANGED timers
  /\ UNCHANGED lateCalls

\* The client reports a done context as cancelled, whatever went wrong.
CallCancelled ==
  /\ at = "refused" \/ (at = "inflight" /\ ctxDone)
  /\ NestedEnds("cancelled")
  /\ UNCHANGED <<timers, lateCalls>>

CallFails ==
  /\ at = "inflight" /\ ~ctxDone
  /\ \/ step \notin Polls /\ NestedEnds("errored") /\ UNCHANGED timers
     \/ step \in Polls /\ RetryOrGiveUp
  /\ UNCHANGED lateCalls

\* A response; assertions and extraction give one of the three outcomes.
CallAnswers ==
  /\ at = "inflight"
  /\ \/ /\ \E status \in {"passed", "failed", "errored"} : NestedEnds(status)
        /\ UNCHANGED timers
     \/ step \in Polls /\ RetryOrGiveUp
  /\ UNCHANGED lateCalls

PollAgain ==
  /\ at = "sleep" /\ nap >= PollInterval
  /\ at' = "call"
  /\ UNCHANGED <<block, ctxDone, limit, i, step, timers, iteration, totals,
                 record, result, lateCalls>>

PollCancelled ==
  /\ at = "sleep" /\ PollInterval > 0 /\ ctxDone
  /\ NestedEnds("cancelled")
  /\ UNCHANGED <<timers, lateCalls>>

(***************************************************************************)
(* After an iteration                                                      *)
(***************************************************************************)
\* A bug to catch: the budget is compared after this iteration is added.
AddIterationLate ==
  \E size \in 0..MaxSize :
    /\ iterations' = Append(iterations,
         [vals |-> iterVals, trimmed |-> spent + size >= Budget,
          size |-> IF spent + size >= Budget THEN 0 ELSE size])
    /\ spent' = spent + size

\* The iteration joins steps.<block>.iterations, without bodies once the
\* budget is spent.
AddIteration ==
  IF spent >= Budget
  THEN /\ iterations' = Append(iterations,
            [vals |-> iterVals, trimmed |-> TRUE, size |-> 0])
       /\ UNCHANGED spent
  ELSE \E size \in 0..MaxSize :
         /\ iterations' = Append(iterations,
              [vals |-> iterVals, trimmed |-> FALSE, size |-> size])
         /\ spent' = spent + size

\* A bug to catch: with on_error continue a failed iteration is forgotten.
NoteFailureUnlessContinue ==
  anyFailed' = (anyFailed \/ (iterFailed /\ onError # "continue"))

NoteFailure == anyFailed' = (anyFailed \/ iterFailed)

MayContinue == ~iterCancelled /\ (iterFailed => onError = "continue")

EndIteration ==
  /\ at = "iterated"
  /\ AddIteration /\ NoteFailure
  /\ at' = IF MayContinue THEN "decide" ELSE "end"
  /\ UNCHANGED <<block, ctxDone, limit, i, step, timers, iteration, record,
                 result, lateCalls>>

\* break_when and until: an error fails the block, true ends the loop.
Decide ==
  /\ at = "decide"
  /\ \/ at' = "end" /\ anyFailed' \in {anyFailed, TRUE}
     \/ /\ UNCHANGED anyFailed
        /\ \/ at' = "top"
           \/ kind = "repeat" /\ i < limit /\ ~ctxDone /\ at' = "pause"
  /\ UNCHANGED <<block, ctxDone, limit, i, step, timers, iteration,
                 iterations, spent, record, result, lateCalls>>

\* The interval of a repeat passes, or the context ends it.
Pause ==
  /\ at = "pause"
  /\ at' = "top" \/ (ctxDone /\ at' = "end")
  /\ UNCHANGED <<block, ctxDone, limit, i, step, timers, iteration, totals,
                 record, result, lateCalls>>

Outcome ==
  IF ctxDone THEN "cancelled" ELSE IF anyFailed THEN "failed" ELSE "passed"

SettleBlock ==
  /\ at = "end"
  /\ Fail(Outcome)
  /\ UNCHANGED <<block, ctxDone, limit, i, step, timers, iteration, totals,
                 record, lateCalls>>

(***************************************************************************)
(* The environment                                                         *)
(***************************************************************************)
CancelBlock ==
  /\ at # "done" /\ ~ctxDone
  /\ ctxDone' = TRUE
  /\ UNCHANGED <<block, at, limit, i, step, timers, iteration, totals, record,
                 result, lateCalls>>

Later(t, bound) == IF t <= bound THEN t + 1 ELSE t

\* Time passes while a request is out or the step sleeps, also longer than it
\* asked to.
Tick ==
  /\ \/ at = "inflight" /\ elapsed <= PollTimeout /\ UNCHANGED nap
     \/ /\ at = "sleep" /\ (elapsed <= PollTimeout \/ nap < PollInterval)
        /\ nap' = IF nap < PollInterval THEN nap + 1 ELSE nap
  /\ elapsed' = Later(elapsed, PollTimeout)
  /\ UNCHANGED <<block, ctxDone, at, limit, i, step, lateTries,
                 iteration, totals, record, result, lateCalls>>

Step ==
  BlockWhen \/ Resolve \/ While \/ LeaveLoop \/ BeginIteration
    \/ StopBetweenSteps \/ BeginStep \/ Call \/ CallCancelled \/ CallFails
    \/ CallAnswers \/ PollAgain \/ PollCancelled \/ EndIteration \/ Decide
    \/ Pause \/ SettleBlock

BlockNext == Step \/ CancelBlock \/ Tick

BlockSpec == BlockInit /\ [][BlockNext]_blockVars
FairBlockSpec == BlockSpec /\ WF_blockVars(Step) /\ WF_blockVars(Tick)

(***************************************************************************)
(* Properties                                                              *)
(***************************************************************************)
StepResult == [iter : 1..Max, step : Nested, status : Bad \cup {"passed", "skipped"}]
IterationValue == [vals : SUBSET Nested, trimmed : BOOLEAN, size : Nat]

\* The variables keep their types: in particular the loop never begins an
\* iteration past its bound, nor a nested step past the last.
BlockTypeOK ==
  /\ kind \in {"foreach", "repeat"} /\ onError \in {"stop", "continue"}
  /\ ctxDone \in BOOLEAN
  /\ at \in Places
  /\ limit \in 0..Max /\ i \in 0..limit /\ step \in Nested
  /\ lateTries \in 0..2 /\ lateCalls \in 0..2
  /\ elapsed \in 0..(PollTimeout + 1) /\ nap \in 0..PollInterval
  /\ iterFailed \in BOOLEAN /\ iterCancelled \in BOOLEAN
  /\ iterVals \subseteq Nested
  /\ anyFailed \in BOOLEAN /\ spent \in Nat
  /\ iterations \in Seq(IterationValue)
  /\ steps \in [Nested -> 0..Max]
  /\ ran \in Seq(StepResult)
  /\ result \in Bad \cup {"none", "passed", "skipped"}

\* What may be executed after the execution r: the next step of the iteration
\* when r did not go wrong, or the first step of the next iteration when r was
\* the last step or on_error forgives it.
Follows(r, next) ==
  \/ next.iter = r.iter /\ next.step = r.step + 1 /\ r.status \notin Bad
  \/ /\ next.iter = r.iter + 1 /\ next.step = 1
     /\ r.status # "cancelled"
     /\ IF r.status \in Bad THEN onError = "continue" ELSE r.step = NSteps

\* A nested step that failed ends its iteration, and the block unless on_error
\* is continue; nothing follows a cancelled one; no step or iteration is
\* passed over (block.go:200-205, 295-304).
RunsInOrder ==
  \A j \in 1..(Len(ran) - 1) : Follows(ran[j], ran[j + 1])

Executed(k) == {j \in 1..Len(ran) : ran[j].step = k /\ ran[j].status # "skipped"}

\* steps.<id> is what the latest execution of id left, also when a later
\* iteration skipped it, and nothing when it was never executed
\* (runner.go:555-569, docs/flows.md:389-394).
LatestExecution ==
  \A k \in Nested :
    IF Executed(k) = {} THEN steps[k] = 0
    ELSE \E j \in Executed(k) :
           /\ steps[k] = ran[j].iter
           /\ \A m \in Executed(k) : m <= j

\* What the block reports agrees with what its steps did: it passed only if it
\* was not cancelled and every execution passed or was skipped, it was
\* cancelled only if the context ended, and then whenever a nested step was.
OutcomeTellsTruth ==
  /\ result = "passed" =>
       ~ctxDone /\ \A j \in 1..Len(ran) : ran[j].status \in {"passed", "skipped"}
  /\ result = "skipped" => ran = <<>>
  /\ result = "cancelled" => ctxDone
  /\ at = "done" /\ (\E j \in 1..Len(ran) : ran[j].status = "cancelled") =>
       result = "cancelled"

KeptBefore(j) == SumFunction([m \in 1..(j - 1) |-> iterations[m].size])

\* Each entry of steps.<block>.iterations holds the steps that iteration
\* executed, and the entries with bodies are exactly those begun within the
\* budget, so they form a prefix (block.go:181-196).
IterationsMatch ==
  \A j \in 1..Len(iterations) :
    /\ iterations[j].vals =
         {k \in Nested : \E m \in Executed(k) : ran[m].iter = j}
    /\ iterations[j].trimmed <=> KeptBefore(j) >= Budget

\* Only a step with until sends more than one request, and it begins at most
\* one attempt after its deadline, however slow the answers and the timers are
\* (step.go:238-293).
PollIsBounded ==
  /\ lateTries <= 1
  /\ at = "sleep" => step \in Polls

\* Once the run is cancelled the whole block begins at most one more request,
\* and that one is never sent: a sleeping poll may wake at the same moment.
CancelIsPrompt == lateCalls <= 1

\* The block ends, also if every poll fails until its deadline.
BlockEnds == <>(at = "done")
=============================================================================
