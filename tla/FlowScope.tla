------------------------------ MODULE FlowScope ------------------------------
(***************************************************************************)
(* What an expression finds in `steps`: the reference check of the static  *)
(* validator (flow/validate.go over flow/materialize.go's AllSteps)        *)
(* against the map the runner builds while it walks a flow, resumes one    *)
(* from an earlier run, skips, stops and iterates (runner/runner.go,       *)
(* resume.go, block.go).                                                   *)
(*                                                                         *)
(* The runner never looks at the validator's verdicts, and one reference   *)
(* does not influence what another finds, so a run carries none of them:   *)
(* the properties range over every reference its current step could make.  *)
(* Outcomes, conditions and the loop's own decisions are choices, which    *)
(* LoopBlock and FlowRun model.                                            *)
(***************************************************************************)
EXTENDS Naturals, Sequences, FiniteSets, SequencesExt

CONSTANTS
    Flows,         \* the texts the flow may have: [setup, main, teardown]
    MaxRuns,       \* bound: runs
    MaxIterations  \* bound: iterations of a loop block

\* The empty parent: no step has that id (STEP_ID_INVALID).
NoOne == "none"
\* No guard tells a failed, an errored and a cancelled step apart: "failed".
Outcomes == {"passed", "failed"}
Statuses == Outcomes \cup {"skipped", "when"}
Phases == {"setup", "main", "teardown"}
Rank == [setup |-> 1, main |-> 2, teardown |-> 3]

IsBlock(s) == s.nested # <<>>

\* The validator's list of a flow's steps: setup, main and teardown in their
\* order, the nested steps of a block right after it.  An entry's place says
\* where it is in that list.
Entry(s, ph, parent, i, j) ==
    [id |-> s.id, when |-> s.when, parent |-> parent, place |-> <<Rank[ph], i, j>>]
AllSteps(f) ==
    (UNION {{Entry(f[ph][i], ph, NoOne, i, 0) : i \in DOMAIN f[ph]} : ph \in Phases})
    \cup (UNION {{Entry(f.main[i].nested[j], "main", f.main[i].id, i, j) :
                     j \in DOMAIN f.main[i].nested} : i \in DOMAIN f.main})
Before(p, q) ==
    \/ p[1] < q[1]
    \/ p[1] = q[1] /\ p[2] < q[2]
    \/ p[1] = q[1] /\ p[2] = q[2] /\ p[3] < q[3]

IdsOf(f) == {e.id : e \in AllSteps(f)}
AllIds == UNION {IdsOf(f) : f \in Flows}

\* What the engine refuses before it runs a flow: two steps with one id
\* (STEP_ID_DUPLICATE), a block in another (NESTED_LOOP) or outside the main
\* steps (LOOP_IN_PHASE).
Calls == [id : AllIds, when : BOOLEAN, nested : {<<>>}]
Blocks == [id : AllIds, when : BOOLEAN, nested : Seq(Calls)]
FlowShape == [setup : Seq(Calls), main : Seq(Blocks), teardown : Seq(Calls)]
OneStepPerId(f) == \A d, e \in AllSteps(f) : d.id = e.id => d = e

ASSUME FlowsAssumption ==
    /\ Flows \subseteq FlowShape /\ NoOne \notin AllIds
    /\ \A f \in Flows : OneStepPerId(f)
ASSUME BoundsAssumption == MaxRuns \in Nat /\ MaxIterations \in Nat

VARIABLES
    flow,     \* its current text
    runs,     \* runs started
    phase,    \* of the run in progress, or "idle"
    at,       \* position in the phase's list
    loop,     \* where the run is inside a loop block
    plan,     \* what the run reuses and leaves out
    stop,     \* stopRemaining
    gone,     \* the run's context has been cancelled
    steps,    \* stepsSoFar: a value for each id that is present
    record,   \* the step results of the run
    earlier,  \* those of the run before it
    left      \* history: ids the run left out for want of data

runVars == <<phase, at, loop, plan, stop, gone, steps, record, left>>
vars == <<flow, runs, runVars, earlier>>

Outside == [in |-> FALSE, iter |-> 0, step |-> 0, failed |-> FALSE]
\* A value tells which execution it is of; a step never reached has the empty one.
Empty == [run |-> 0, iter |-> 0]
Here == [run |-> runs, iter |-> loop.iter]

-----------------------------------------------------------------------------
(* The validator *)

StepNamed(all, id) == CHOOSE e \in all : e.id = id

\* A reference: who makes it, in which of its fields, to which step.  A
\* block's `when` and foreach are its own fields, repeat.until, repeat.while
\* and break_when are read once per iteration.
BlockContext(reader, r) == IF r.field = "iteration" THEN reader.id ELSE reader.parent

\* Mutant: the sibling that follows is taken for one that has run.
RanAnywhereInBlock(target, reader) == ~target.when
\* An earlier sibling without a `when` has run in this iteration.
RanThisIteration(target, reader) == Before(target.place, reader.place) /\ ~target.when

\* Mutant: siblings are held to the order of the list, too.
StrictOrder(target, reader, r) == FALSE
SameBlock(target, reader, r) ==
    BlockContext(reader, r) # NoOne /\ target.parent = BlockContext(reader, r)

\* The diagnostic an unguarded reference gets.
Verdict(f, r) ==
    LET reader == StepNamed(AllSteps(f), r.reader)
        target == StepNamed(AllSteps(f), r.target)
        maybeSkipped == target.when \/ target.parent # NoOne
    IN  IF r.target \notin IdsOf(f) THEN "UNKNOWN_STEP"
        ELSE IF ~Before(target.place, reader.place) /\ ~SameBlock(target, reader, r)
        THEN "STEP_ORDER"
        ELSE IF maybeSkipped
                /\ ~(SameBlock(target, reader, r) /\ RanThisIteration(target, reader))
        THEN "MAYBE_SKIPPED"
        ELSE "none"

-----------------------------------------------------------------------------
(* The plan of a run *)

Result(id, parent, status, val) ==
    [id |-> id, parent |-> parent, phase |-> phase, status |-> status, val |-> val,
     reused |-> FALSE]
Reused(x) == [x EXCEPT !.reused = TRUE]
NoValue(s, status) == Result(s.id, NoOne, status, Empty)
Put(res) == record' = Append(record, res)
Remember(id, val) == steps' = [x \in DOMAIN steps \cup {id} |-> IF x = id THEN val ELSE steps[x]]

\* The earlier results of a step, and of the steps of a block in their order.
Earlier(id) == {i \in DOMAIN earlier : earlier[i].id = id /\ earlier[i].phase # "teardown"}
LatestOf(id) == earlier[Max(Earlier(id))]
EarlierNested(id) ==
    LET upTo[n \in 0 .. Len(earlier)] ==
          IF n = 0 THEN <<>>
          ELSE IF earlier[n].parent = id THEN Append(upTo[n - 1], earlier[n]) ELSE upTo[n - 1]
    IN  upTo[Len(earlier)]

\* The first main step that did not pass, or what follows as many main steps
\* as are recorded: the id may be another step's by now.
DefaultResumeIndex ==
    LET main == {i \in DOMAIN earlier :
                   earlier[i].phase = "main" /\ \E m \in DOMAIN flow.main : flow.main[m].id = earlier[i].id}
        bad  == {i \in main : earlier[i].status # "passed"}
    IN  IF bad = {} THEN Cardinality(main) + 1
        ELSE CHOOSE m \in DOMAIN flow.main : flow.main[m].id = earlier[Min(bad)].id

NoPlan == [reuse |-> FALSE, from |-> 1, until |-> 0, noData |-> {}, cont |-> FALSE]

Begin(p) ==
    /\ phase = "idle" /\ runs < MaxRuns
    /\ runs' = runs + 1 /\ phase' = "setup" /\ at' = 1 /\ plan' = p
    /\ UNCHANGED <<flow, loop, stop, gone, steps, record, left, earlier>>

Start(cont) == Begin([NoPlan EXCEPT !.cont = cont])

\* From a step on, with no earlier run to take the steps before it from.
StartFrom(i, until) ==
    /\ i \in 2 .. Len(flow.main) /\ until \in {0} \cup i .. Len(flow.main)
    /\ Begin([NoPlan EXCEPT !.from = i, !.until = until,
                            !.noData = {flow.main[j].id : j \in 1 .. i - 1}])

ResumeFrom(i, until) ==
    /\ runs > 0
    /\ until \in {0} \cup i .. Len(flow.main)
    /\ Begin([NoPlan EXCEPT !.reuse = TRUE, !.from = i, !.until = until])

-----------------------------------------------------------------------------
(* The walk *)

Current == flow[phase][at]
Due == phase # "idle" /\ ~loop.in /\ at <= Len(flow[phase])
InMain == phase = "main"
Reusable == /\ plan.reuse /\ phase # "teardown" /\ (InMain => at < plan.from)
            /\ Earlier(Current.id) # {}
OutsideWindow == InMain /\ at < plan.from
PastUntil == InMain /\ plan.until # 0 /\ at > plan.until
Stopped == phase # "teardown" /\ (stop \/ gone)
Executes == Due /\ ~Reusable /\ ~OutsideWindow /\ ~PastUntil /\ ~Stopped

Advance == at' = at + 1 /\ UNCHANGED <<flow, runs, phase, plan, earlier>>
Quietly == UNCHANGED <<loop, stop, gone, left>>

ReuseStep ==
    /\ Due /\ Reusable /\ ~IsBlock(Current)
    /\ LET x == LatestOf(Current.id) IN Put(Reused(x)) /\ Remember(x.id, x.val)
    /\ Advance /\ Quietly

\* Mutant: the values of the first iteration.
RestoredFirst(nested, id) == nested[Min({i \in DOMAIN nested : nested[i].id = id})].val
\* Each nested step has the value of its latest reused result.
Restored(nested, id) == nested[Max({i \in DOMAIN nested : nested[i].id = id})].val

ReuseBlock ==
    /\ Due /\ Reusable /\ IsBlock(Current)
    /\ LET block  == LatestOf(Current.id)
           nested == EarlierNested(Current.id)
           ids    == {nested[i].id : i \in DOMAIN nested}
       IN  /\ record' = record \o <<Reused(block)>> \o [i \in DOMAIN nested |-> Reused(nested[i])]
           /\ steps' = [x \in DOMAIN steps \cup ids \cup {block.id} |->
                          IF x = block.id THEN block.val
                          ELSE IF x \in ids THEN Restored(nested, x) ELSE steps[x]]
    /\ Advance /\ Quietly

\* Before the resume point with nothing to reuse: the one skip that leaves
\* the step out of `steps`.
LeaveOut ==
    /\ Due /\ ~Reusable /\ OutsideWindow
    /\ Put(NoValue(Current, "skipped")) /\ left' = left \cup {Current.id}
    /\ Advance /\ UNCHANGED <<loop, stop, gone, steps>>

SkipPastUntil ==
    /\ Due /\ ~Reusable /\ ~OutsideWindow /\ PastUntil
    /\ Put(NoValue(Current, "skipped")) /\ Remember(Current.id, Empty)
    /\ Advance /\ Quietly

SkipStopped ==
    /\ Due /\ ~Reusable /\ ~OutsideWindow /\ ~PastUntil /\ Stopped
    /\ Put(NoValue(Current, "skipped")) /\ Remember(Current.id, Empty) /\ stop' = TRUE
    /\ Advance /\ UNCHANGED <<loop, gone, left>>

\* The step's own fields name one that was left out.
RefuseForward ==
    /\ Executes /\ phase # "setup" /\ plan.noData # {}
    /\ Put(NoValue(Current, "failed")) /\ Remember(Current.id, Empty)
    /\ stop' = (stop \/ InMain)
    /\ Advance /\ UNCHANGED <<loop, gone, left>>

WhenSkips ==
    /\ Executes /\ Current.when
    /\ Put(NoValue(Current, "when")) /\ UNCHANGED steps
    /\ Advance /\ Quietly

\* A cancelled step stops the run whatever the policy: its Cancel does.
AfterStep(status) ==
    stop' = IF status = "failed" /\ phase # "teardown" THEN ~plan.cont ELSE stop

RunCall(status) ==
    /\ Executes /\ ~IsBlock(Current)
    /\ Put(Result(Current.id, NoOne, status, Here)) /\ Remember(Current.id, Here)
    /\ AfterStep(status)
    /\ Advance /\ UNCHANGED <<loop, gone, left>>

-----------------------------------------------------------------------------
(* A loop block *)

Nested == flow.main[at].nested
Between == loop.in /\ loop.step = 0
Inside == loop.in /\ loop.step > 0
BlockEnds(status) ==
    LET id == flow.main[at].id  val == [run |-> runs, iter |-> 0]
    IN  /\ Put(Result(id, NoOne, status, val)) /\ Remember(id, val)
        /\ loop' = Outside /\ AfterStep(status)
        /\ Advance /\ UNCHANGED <<gone, left>>

EnterBlock ==
    /\ Executes /\ IsBlock(Current)
    /\ loop' = [Outside EXCEPT !.in = TRUE]
    /\ UNCHANGED <<flow, runs, phase, at, plan, stop, gone, steps, record, left, earlier>>

\* foreach cannot be evaluated, or is too long.
BlockFails == Executes /\ IsBlock(Current) /\ BlockEnds("failed")

StayInLoop(l) == loop' = l /\ UNCHANGED <<flow, runs, phase, at, plan, stop, gone, left, earlier>>

BeginIteration ==
    /\ Between /\ ~gone /\ loop.iter < MaxIterations
    /\ StayInLoop([loop EXCEPT !.iter = @ + 1, !.step = 1])
    /\ UNCHANGED <<steps, record>>

\* Mutant: the iteration does not end with the list.
NextNested == [loop EXCEPT !.step = @ + 1]
PastNested == [loop EXCEPT !.step = IF @ = Len(Nested) THEN 0 ELSE @ + 1]
EndIteration == [loop EXCEPT !.step = 0, !.failed = TRUE]

NestedWhenSkips ==
    LET n == Nested[loop.step]
    IN  /\ Inside /\ ~gone /\ n.when
        /\ Put(Result(n.id, flow.main[at].id, "when", Empty)) /\ UNCHANGED steps
        /\ StayInLoop(PastNested)

RunNested(status) ==
    LET n == Nested[loop.step]
    IN  /\ Inside /\ ~gone
        /\ Put(Result(n.id, flow.main[at].id, status, Here)) /\ Remember(n.id, Here)
        /\ StayInLoop(IF status = "passed" THEN PastNested ELSE EndIteration)

NestedCancelled ==
    /\ Inside /\ gone
    /\ StayInLoop(EndIteration) /\ UNCHANGED <<steps, record>>

\* The list is done, the condition says so, or an expression failed.
LeaveBlock ==
    /\ Between
    /\ \E status \in IF gone \/ loop.failed THEN {"failed"} ELSE Outcomes :
         BlockEnds(status)

-----------------------------------------------------------------------------
NextPhase ==
    /\ phase \in {"setup", "main"} /\ ~loop.in /\ at > Len(flow[phase])
    /\ phase' = IF InMain THEN "teardown" ELSE "main"
    /\ at' = 1
    /\ UNCHANGED <<flow, runs, loop, plan, stop, gone, steps, record, left, earlier>>

Ends ==
    /\ phase' = "idle" /\ at' = 0 /\ loop' = Outside /\ plan' = NoPlan
    /\ stop' = FALSE /\ gone' = FALSE /\ steps' = <<>> /\ record' = <<>> /\ left' = {}
    /\ earlier' = record /\ UNCHANGED <<flow, runs>>

Return == phase = "teardown" /\ at > Len(flow.teardown) /\ Ends
Crash == phase # "idle" /\ Ends

Cancel ==
    /\ phase \in {"setup", "main"} /\ ~gone /\ gone' = TRUE
    /\ UNCHANGED <<flow, runs, phase, at, loop, plan, stop, steps, record, left, earlier>>

Edit ==
    /\ phase = "idle" /\ runs \in 1 .. MaxRuns - 1
    /\ \E f \in Flows \ {flow} : flow' = f
    /\ UNCHANGED <<runs, runVars, earlier>>

Init ==
    /\ flow \in Flows /\ runs = 0 /\ phase = "idle" /\ at = 0 /\ loop = Outside
    /\ plan = NoPlan /\ stop = FALSE /\ gone = FALSE
    /\ steps = <<>> /\ record = <<>> /\ earlier = <<>> /\ left = {}

Starts ==
    \/ \E cont \in BOOLEAN : Start(cont)
    \/ \E i \in DOMAIN flow.main \cup {DefaultResumeIndex}, until \in {0} \cup DOMAIN flow.main :
         StartFrom(i, until) \/ ResumeFrom(i, until)

StepOf ==
    \/ ReuseStep \/ ReuseBlock \/ LeaveOut \/ SkipPastUntil \/ SkipStopped
    \/ RefuseForward \/ WhenSkips
    \/ \E status \in Outcomes : RunCall(status)

StepOfBlock ==
    \/ EnterBlock \/ BlockFails \/ BeginIteration \/ NestedWhenSkips
    \/ \E status \in Outcomes : RunNested(status)
    \/ NestedCancelled \/ LeaveBlock

Next == Starts \/ StepOf \/ StepOfBlock \/ NextPhase \/ Return \/ Crash \/ Cancel \/ Edit

Spec == Init /\ [][Next]_vars

-----------------------------------------------------------------------------
(* Properties *)

Values == [run : 0 .. MaxRuns, iter : 0 .. MaxIterations]

\* Positions stay in the flow's lists, and every value is of a run there was.
TypeOK ==
    /\ flow \in Flows /\ runs \in 0 .. MaxRuns
    /\ phase \in Phases \cup {"idle"} /\ (phase # "idle" => at \in 1 .. Len(flow[phase]) + 1)
    /\ loop.in => InMain /\ IsBlock(Current) /\ loop.step \in 0 .. Len(Nested)
    /\ loop.iter \in 0 .. MaxIterations
    /\ {stop, gone, plan.reuse, plan.cont} \subseteq BOOLEAN
    /\ left \subseteq AllIds
    /\ DOMAIN steps \subseteq AllIds /\ \A id \in DOMAIN steps : steps[id] \in Values
    /\ \A results \in {record, earlier} : \A i \in DOMAIN results :
         /\ results[i].id \in AllIds /\ results[i].status \in Statuses
         /\ results[i].val \in Values

References(f) == [reader : IdsOf(f), field : {"own", "iteration"}, target : IdsOf(f)]
Verdicts == [f \in Flows |-> [r \in References(f) |-> Verdict(f, r)]]

\* The references whose expression the run may evaluate in this state.
Evaluated ==
    LET by(id, field) == {r \in DOMAIN Verdicts[flow] : r.reader = id /\ r.field = field}
    IN  IF Between THEN by(flow.main[at].id, "iteration")
        ELSE IF Inside /\ ~gone THEN by(Nested[loop.step].id, "own")
        ELSE IF Executes THEN by(Current.id, "own") ELSE {}

\* Known gap: a nested step may name the block it is in, which has no value
\* before its last iteration, and the validator is silent.
OwnBlock(r) == Inside /\ r.target = flow.main[at].id

\* A reference that the validator takes without an error or a MAYBE_SKIPPED
\* warning finds its step in `steps` whenever it is evaluated, in fresh and
\* resumed, stopped, cancelled and edited runs alike (validate.go:140-146:
\* "every step whose result may be absent").  Only a step before the resume
\* point without a result to reuse is absent, as runner.go:367-371 wants it.
CleanReadsFind ==
    \A r \in Evaluated :
        Verdicts[flow][r] = "none" /\ ~OwnBlock(r) => r.target \in DOMAIN steps \cup left

\* A step that was in another block, or in none, when the run that is resumed
\* recorded it: with that block it is reused, wherever it is by now.
Relocated(id) ==
    \E i \in DOMAIN record :
        /\ record[i].id = id /\ record[i].reused
        /\ record[i].parent # StepNamed(AllSteps(flow), id).parent

\* What the validator rejects as out of order could not have worked: no run
\* has a value for such a reference, so STEP_ORDER (an error, for which the
\* engine refuses the flow) refuses no flow that runs.  Only a step that an
\* edit moved out of a block the run reuses is there before its time.
RejectedReadsFindNothing ==
    \A r \in Evaluated :
        Verdicts[flow][r] = "STEP_ORDER" /\ ~Relocated(r.target) => r.target \notin DOMAIN steps

\* A result that gives its step a value: a `when` that skips a step leaves it
\* what it had, but as a reused result it does not (runner.go:302, :345).
Gives(x) == x.status # "when" \/ x.reused

\* steps.<id> is the value of the latest result the run's history shows for
\* id, executed or reused, iterations of the earlier run included
\* (block.go:309-316).
ReadsLatestResult ==
    \A id \in DOMAIN steps : \E i \in DOMAIN record :
        /\ record[i].id = id /\ Gives(record[i]) /\ steps[id] = record[i].val
        /\ \A j \in DOMAIN record : j > i /\ record[j].id = id => ~Gives(record[j])
=============================================================================
