--------------------------- MODULE IndexSyncProofs ---------------------------
(* Proofs about IndexSync, for every set of services and contents, every     *)
(* debounce window and every number of edits, operations and faults.         *)
EXTENDS IndexSync, TLAPS

-----------------------------------------------------------------------------
(* Types                                                                   *)

\* A goroutine in the middle of a sync or a removal has a service.
HasService == \A p \in Procs : at[p] \notin {"idle", "rewatch"} => svc[p] \in Services

Typed == TypeOK /\ HasService

\* Every step keeps every variable in its type; a step of a sync writes what its
\* goroutine has read of the service it has.
LEMMA TypedInductive ==
  ASSUME Typed, [Next]_vars
  PROVE  Typed'
<1> USE ContentsAssumption, TimesAssumption, BoundsAssumption
    DEF TypeOK, Typed, HasService, Phases
<1>0. {"watch", "old", "api", "git", "open"} \subseteq Procs
  BY DEF Procs
<1> USE <1>0
<1>1. ASSUME NEW s \in Services, handleEvent(s) PROVE Typed'
  BY <1>1 DEF handleEvent, nextFlushIn, fileVars, dbVars, jobVars, ghostVars
<1>2. ASSUME handleIgnored PROVE Typed'
  BY <1>2 DEF handleIgnored, nextFlushIn, fileVars, dbVars, jobVars, ghostVars
<1>3. ASSUME flush PROVE Typed'
  BY <1>3 DEF flush, fileVars, dbVars, ghostVars
<1>4. ASSUME Tick PROVE Typed'
  BY <1>4 DEF Tick, Off, fileVars, dbVars, jobVars, ghostVars
<1>5. ASSUME NEW p \in Procs, StartSync(p) PROVE Typed'
  BY <1>5 DEF StartSync, Goto, fileVars, dbVars, watchVars, ghostVars
<1>6. ASSUME NEW p \in Procs, Fetch(p) PROVE Typed'
  BY <1>6 DEF Fetch, Goto, Changed, fileVars, dbVars
<1>7. ASSUME NEW p \in Procs, Read(p) PROVE Typed'
  BY <1>7 DEF Read, Goto, Syncing, fileVars, dbVars, watchVars
<1>8. ASSUME NEW p \in Procs, Apply(p) PROVE Typed'
  BY <1>8 DEF Apply, AfterSync, Done, Goto, fileVars, dbVars, watchVars
<1>9. ASSUME NEW p \in Procs, Fail(p) PROVE Typed'
  BY <1>9 DEF Fail, AfterSync, Done, Goto, fileVars, watchVars
<1>10. ASSUME NEW p \in Procs, Vouch(p) PROVE Typed'
  BY <1>10 DEF Vouch, Store, Done, Goto, fileVars, dbVars, watchVars
<1>11. ASSUME NEW some \in SUBSET registered, SyncServices(some) PROVE Typed'
  BY <1>11 DEF SyncServices, BeginOp, fileVars, dbVars, watchVars, ghostVars
<1>12. ASSUME NEW s \in Services, AddService(s) PROVE Typed'
  BY <1>12 DEF AddService, BeginOp, fileVars, dbVars, watchVars, ghostVars
<1>13. ASSUME NEW s \in Services, RemoveService(s) PROVE Typed'
  BY <1>13 DEF RemoveService, BeginOp, Goto, fileVars, dbVars, watchVars, ghostVars
<1>14. ASSUME NEW s \in Services, Rebind(s) PROVE Typed'
  BY <1>14 DEF Rebind, BeginOp, dbVars
<1>15. ASSUME RemoveRows PROVE Typed'
  BY <1>15 DEF RemoveRows, Goto, Syncing, fileVars, watchVars
<1>16. ASSUME Forget PROVE Typed'
  BY <1>16 DEF Forget, Done, Goto, fileVars, dbVars, watchVars, ghostVars
<1>17. ASSUME VouchLast PROVE Typed'
  BY <1>17 DEF VouchLast, Store, fileVars, dbVars, watchVars
<1>18. ASSUME StopWatch PROVE Typed'
  BY <1>18 DEF StopWatch, fileVars, dbVars
<1>19. ASSUME StartWatch PROVE Typed'
  BY <1>19 DEF StartWatch, Goto, fileVars, dbVars, ghostVars
<1>20. ASSUME GitTick PROVE Typed'
  BY <1>20 DEF GitTick, BeginOp, fileVars, dbVars, watchVars, ghostVars
<1>21. ASSUME NEW s \in Services, Edit(s) PROVE Typed'
  BY <1>21 DEF Edit, Changed, fileVars, dbVars, jobVars
<1>22. ASSUME NEW s \in Services, Touch(s) PROVE Typed'
  BY <1>22 DEF Touch, fileVars, dbVars, jobVars, ghostVars
<1>23. ASSUME NEW s \in Services, LoseEvent(s) PROVE Typed'
  BY <1>23 DEF LoseEvent, fileVars, dbVars, jobVars
<1>24. ASSUME Open PROVE Typed'
  BY <1>24 DEF Open, fileVars, dbVars, watchVars, ghostVars
<1>25. ASSUME staleCheck PROVE Typed'
  BY <1>25 DEF staleCheck, Goto, fileVars, dbVars, watchVars
<1>26. ASSUME Opened PROVE Typed'
  BY <1>26 DEF Opened, fileVars, dbVars, jobVars, ghostVars
<1>27. ASSUME Stop PROVE Typed'
  <2>1. /\ at' = [p \in Procs |-> "idle"] /\ svc' = [p \in Procs |-> NoService]
        /\ got' = [p \in Procs |-> NoContent]
        /\ todo' = [p \in Procs |-> {}] /\ vouch' = [p \in Procs |-> {}]
        /\ print' = NoContent /\ rebinding' = FALSE
    BY <1>27 DEF Stop
  <2>2. /\ at' \in [Procs -> Phases] /\ got' \in [Procs -> Contents \cup {NoContent}]
        /\ svc' \in [Procs -> Services \cup {NoService}]
    BY <2>1
  <2>3. /\ todo' \in [Procs -> SUBSET Services] /\ vouch' \in [Procs -> SUBSET Services]
    BY <2>1
  <2>4. HasService'
    BY <2>1
  <2>5. raced' \subseteq Services /\ excused' \subseteq Services /\ fresh' \subseteq Procs
    BY <1>27 DEF Stop
  <2>6. /\ engine' \in {"closed", "opening", "running"}
        /\ watched' \subseteq Services /\ events' \subseteq Services /\ pending' \subseteq Services
        /\ timer' \in {Off} \cup (0 .. Debounce) /\ age' \in Nat
        /\ faults' \in 0 .. MaxFaults
    BY <1>27 DEF Stop
  <2>7. UNCHANGED <<disk, edits, registered, catalog, status, fp, ops>>
    BY <1>27 DEF Stop, fileVars, dbVars
  <2> QED
    BY <2>1, <2>2, <2>3, <2>4, <2>5, <2>6, <2>7
<1>28. ASSUME UNCHANGED vars PROVE Typed'
  BY <1>28 DEF vars, fileVars, dbVars, watchVars, jobVars, ghostVars
<1> QED
  BY <1>1, <1>2, <1>3, <1>4, <1>5, <1>6, <1>7, <1>8, <1>9, <1>10, <1>11, <1>12,
     <1>13, <1>14, <1>15, <1>16, <1>17, <1>18, <1>19, <1>20, <1>21, <1>22, <1>23,
     <1>24, <1>25, <1>26, <1>27, <1>28
  DEF Next, Watcher, Job, Operation, Environment

\* Types are kept from the start on.
LEMMA TypedInit == Init => Typed
<1> SUFFICES ASSUME Init PROVE Typed
  OBVIOUS
<1>1. HasService
  BY DEF Init, HasService
<1>2. /\ at \in [Procs -> Phases] /\ got \in [Procs -> Contents \cup {NoContent}]
      /\ svc \in [Procs -> Services \cup {NoService}]
  BY DEF Init, Phases
<1>3. todo \in [Procs -> SUBSET Services] /\ vouch \in [Procs -> SUBSET Services]
  BY DEF Init
<1>4. /\ disk \in [Services -> Contents] /\ registered \subseteq Services
      /\ catalog \in [Services -> Contents \cup {NoContent}]
      /\ status \in [Services -> {"absent", "ok", "error"}]
      /\ fp \in [Services -> Contents \cup {NoContent}]
  BY ContentsAssumption DEF Init
<1>5. /\ engine \in {"closed", "opening", "running"} /\ timer = Off /\ age = 0
      /\ watched = {} /\ events = {} /\ pending = {}
      /\ print = NoContent /\ rebinding = FALSE
      /\ edits = 0 /\ ops = 0 /\ faults = 0
      /\ fresh = {} /\ excused = {} /\ raced = {}
  BY DEF Init
<1>6. edits \in 0 .. MaxEdits /\ ops \in 0 .. MaxOps /\ faults \in 0 .. MaxFaults
  BY <1>5, BoundsAssumption
<1>7. TypeOK
  BY <1>2, <1>3, <1>4, <1>5, <1>6 DEF TypeOK
<1> QED
  BY <1>1, <1>7 DEF Typed

LEMMA TypedAlways == Spec => []Typed
  BY TypedInit, TypedInductive, PTL DEF Spec

THEOREM TypeCorrect == Spec => []TypeOK
<1>1. Typed => TypeOK
  BY DEF Typed
<1> QED
  BY <1>1, TypedAlways, PTL

-----------------------------------------------------------------------------
(* The debounce timer                                                      *)

\* The clock of the oldest pending change runs only while something pends, and
\* what the timer has left ends within its budget.
Punctual ==
    /\ pending = {} => age = 0
    /\ FlushWithinMaxDelay

\* The timer an event sets while a change pends ends within its budget.
LEMMA NextFlushInBudget ==
  ASSUME age \in Nat, age <= MaxDelay
  PROVE  nextFlushIn(TRUE) \in Nat /\ age + nextFlushIn(TRUE) <= MaxDelay
<1>1. MaxDelay \in Nat /\ Debounce \in Nat
  BY TimesAssumption
<1>2. CASE MaxDelay - age >= Debounce
  BY <1>1, <1>2 DEF nextFlushIn
<1>3. CASE ~(MaxDelay - age >= Debounce)
  BY <1>1, <1>3 DEF nextFlushIn
<1> QED
  BY <1>2, <1>3

\* What is left of the timer is a time, so the oldest change is in its budget.
LEMMA AgeInBudget ==
  ASSUME TypeOK, Punctual
  PROVE  age \in Nat /\ age <= MaxDelay
  BY TimesAssumption DEF TypeOK, Punctual, FlushWithinMaxDelay, Off

LEMMA PunctualInductive ==
  ASSUME Typed, Punctual, [Next]_vars
  PROVE  Punctual'
<1> USE DEF Punctual, FlushWithinMaxDelay
<1>0. TypeOK /\ age \in Nat /\ age <= MaxDelay
  BY AgeInBudget DEF Typed
<1>1. ASSUME NEW s \in Services, handleEvent(s) PROVE Punctual'
  <2>1. timer' = nextFlushIn(pending' # {}) /\ age' = age
    BY <1>1 DEF handleEvent
  <2>2. pending' = {} => pending = {}
    BY <1>1 DEF handleEvent
  <2>3. ASSUME pending' # {} PROVE age' + timer' <= MaxDelay /\ timer' # Off
    <3>1. timer' = nextFlushIn(TRUE)
      BY <2>1, <2>3 DEF nextFlushIn
    <3>2. nextFlushIn(TRUE) \in Nat /\ age + nextFlushIn(TRUE) <= MaxDelay
      BY <1>0, NextFlushInBudget
    <3>3. timer' \in Nat /\ age' + timer' <= MaxDelay
      BY <2>1, <3>1, <3>2
    <3> QED
      BY <3>3 DEF Off
  <2> QED
    BY <2>1, <2>2, <2>3
<1>2. ASSUME handleIgnored PROVE Punctual'
  <2>1. timer' = nextFlushIn(pending # {}) /\ age' = age /\ pending' = pending
    BY <1>2 DEF handleIgnored
  <2>2. ASSUME pending # {} PROVE age' + timer' <= MaxDelay /\ timer' # Off
    <3>1. timer' = nextFlushIn(TRUE)
      BY <2>1, <2>2 DEF nextFlushIn
    <3>2. nextFlushIn(TRUE) \in Nat /\ age + nextFlushIn(TRUE) <= MaxDelay
      BY <1>0, NextFlushInBudget
    <3>3. timer' \in Nat /\ age' + timer' <= MaxDelay
      BY <2>1, <3>1, <3>2
    <3> QED
      BY <3>3 DEF Off
  <2> QED
    BY <2>1, <2>2
<1>3. ASSUME flush PROVE Punctual'
  BY <1>3 DEF flush
<1>4. ASSUME Tick PROVE Punctual'
  BY <1>0, <1>4 DEF Tick, TypeOK, Off
<1>5. ASSUME StopWatch PROVE Punctual'
  BY <1>5 DEF StopWatch
<1>6. ASSUME Stop PROVE Punctual'
  BY <1>6 DEF Stop
<1>7. ASSUME UNCHANGED <<pending, timer, age>> PROVE Punctual'
  BY <1>7
<1>8. ASSUME NEW p \in Procs, Job(p) PROVE Punctual'
  <2>1. UNCHANGED <<pending, timer, age>>
    BY <1>8 DEF Job, StartSync, Fetch, Read, Apply, Fail, Vouch, watchVars
  <2> QED
    BY <2>1, <1>7
<1>9. ASSUME Operation, ~StopWatch PROVE Punctual'
  <2>1. UNCHANGED <<pending, timer, age>>
    BY <1>9 DEF Operation, SyncServices, AddService, RemoveService, Rebind, RemoveRows,
                Forget, VouchLast, StartWatch, GitTick, watchVars
  <2> QED
    BY <2>1, <1>7
<1>10. ASSUME Environment PROVE Punctual'
  <2>1. UNCHANGED <<pending, timer, age>>
    BY <1>10 DEF Environment, Edit, Touch, LoseEvent
  <2> QED
    BY <2>1, <1>7
<1>11. ASSUME Open \/ staleCheck \/ Opened \/ UNCHANGED vars PROVE Punctual'
  <2>1. UNCHANGED <<pending, timer, age>>
    BY <1>11 DEF Open, staleCheck, Opened, vars, watchVars
  <2> QED
    BY <2>1, <1>7
<1> QED
  BY <1>1, <1>2, <1>3, <1>4, <1>5, <1>6, <1>8, <1>9, <1>10, <1>11 DEF Next, Watcher

\* However many events follow a change, and whatever syncs, restarts and stops
\* come between, its flush is due within the maximal delay (watch.go:17-38).
THEOREM FlushIsPunctual == Spec => []FlushWithinMaxDelay
<1>1. Init => Punctual
  BY DEF Init, Punctual, FlushWithinMaxDelay
<1>2. Punctual => FlushWithinMaxDelay
  BY DEF Punctual
<1> QED
  BY <1>1, <1>2, PunctualInductive, TypedAlways, PTL DEF Spec
-----------------------------------------------------------------------------
(* What the goroutines are at                                              *)

\* An idle goroutine has no service; who is fresh has read and not yet written;
\* what is about to be applied, and what is indexed, has been built.
IdleIsFree == \A p \in Procs : at[p] \in {"idle", "rewatch"} => svc[p] = NoService
FreshIsWriting == \A p \in fresh : at[p] \in {"apply", "fail"}
BuiltIsSound ==
    /\ \A p \in Procs : at[p] = "apply" => got[p] \in Contents \ Broken
    /\ \A s \in Services : catalog[s] \notin Broken

\* A removal takes the service from the workspace file first, and a service that
\* is not in it is read by nobody, but for those who read it before.
Removing(s) == at["api"] = "remove" /\ svc["api"] = s
RemovedFirst == at["api"] \in {"remove", "forget"} => svc["api"] \notin registered
FreshIsRegistered ==
    \A p \in fresh : svc[p] \in registered \/ Removing(svc[p])

\* A stopped process does nothing; while Open checks, only the check is at work;
\* only a running watcher has directories and events of theirs.
OthersWait ==
    /\ engine = "closed" => \A p \in Procs : ~Busy(p)
    /\ engine = "opening" => \A p \in Procs \ {"open"} : ~Busy(p)
EventsAreWatched ==
    /\ events \subseteq watched
    /\ engine # "running" => watched = {}
    /\ at["api"] = "rewatch" => watched = {} /\ rebinding

\* The loop that a rebind replaces finds its place free.
OldIsFree == rebinding /\ at["api"] # "rewatch" => ~Busy("old")

JobInv == /\ IdleIsFree /\ FreshIsWriting /\ BuiltIsSound /\ RemovedFirst
          /\ FreshIsRegistered /\ OthersWait /\ EventsAreWatched /\ OldIsFree


LEMMA JobInit == Init => JobInv
<1> SUFFICES ASSUME Init PROVE JobInv
  OBVIOUS
<1>1. IdleIsFree /\ FreshIsWriting /\ RemovedFirst /\ FreshIsRegistered
  BY DEF Init, IdleIsFree, FreshIsWriting, RemovedFirst, FreshIsRegistered, Procs
<1>2. BuiltIsSound
  BY ContentsAssumption DEF Init, BuiltIsSound
<1>3. OthersWait /\ EventsAreWatched /\ OldIsFree
  BY DEF Init, OthersWait, EventsAreWatched, OldIsFree, Busy, Procs
<1> QED
  BY <1>1, <1>2, <1>3 DEF JobInv

\* Every step keeps what the goroutines are at in order.
LEMMA JobInductive ==
  ASSUME Typed, JobInv, [Next]_vars
  PROVE  JobInv'
<1> USE ContentsAssumption
    DEF TypeOK, Typed, HasService, JobInv, IdleIsFree, FreshIsWriting, BuiltIsSound,
        RemovedFirst, FreshIsRegistered, Removing, OthersWait, EventsAreWatched, OldIsFree, Busy
<1>0. {"watch", "old", "api", "git", "open"} \subseteq Procs
  BY DEF Procs
<1> USE <1>0
<1>1. ASSUME NEW s \in Services, handleEvent(s) PROVE JobInv'
  BY <1>1 DEF handleEvent, fileVars, dbVars, jobVars, ghostVars
<1>2. ASSUME handleIgnored \/ Tick PROVE JobInv'
  BY <1>2 DEF handleIgnored, Tick, fileVars, dbVars, jobVars, ghostVars
<1>3. ASSUME flush PROVE JobInv'
  BY <1>3 DEF flush, LoopIdle, fileVars, dbVars, ghostVars
<1>4. ASSUME NEW p \in Procs, StartSync(p) PROVE JobInv'
  BY <1>4 DEF StartSync, Goto, fileVars, dbVars, watchVars, ghostVars
<1>5. ASSUME NEW p \in Procs, Fetch(p) PROVE JobInv'
  BY <1>5 DEF Fetch, Goto, Changed, fileVars, dbVars
<1>6. ASSUME NEW p \in Procs, Read(p) PROVE JobInv'
  BY <1>6 DEF Read, Goto, Syncing, fileVars, dbVars, watchVars
<1>7. ASSUME NEW p \in Procs, Apply(p) PROVE JobInv'
  BY <1>7 DEF Apply, AfterSync, Done, Goto, fileVars, dbVars, watchVars
<1>8. ASSUME NEW p \in Procs, Fail(p) PROVE JobInv'
  BY <1>8 DEF Fail, AfterSync, Done, Goto, fileVars, watchVars
<1>9. ASSUME NEW p \in Procs, Vouch(p) PROVE JobInv'
  BY <1>9 DEF Vouch, Store, Done, Goto, fileVars, dbVars, watchVars
<1>10. ASSUME NEW some \in SUBSET registered, SyncServices(some) PROVE JobInv'
  BY <1>10 DEF SyncServices, BeginOp, Idle, fileVars, dbVars, watchVars, ghostVars
<1>11. ASSUME NEW s \in Services, AddService(s) PROVE JobInv'
  BY <1>11 DEF AddService, BeginOp, Idle, fileVars, dbVars, watchVars, ghostVars
<1>12. ASSUME NEW s \in Services, RemoveService(s) PROVE JobInv'
  BY <1>12 DEF RemoveService, BeginOp, Idle, Goto, fileVars, dbVars, watchVars, ghostVars
<1>13. ASSUME NEW s \in Services, Rebind(s) PROVE JobInv'
  BY <1>13 DEF Rebind, BeginOp, Idle, dbVars
<1>14. ASSUME RemoveRows PROVE JobInv'
  BY <1>14 DEF RemoveRows, Goto, Syncing, fileVars, watchVars
<1>15. ASSUME Forget PROVE JobInv'
  BY <1>15 DEF Forget, Done, Goto, fileVars, dbVars, watchVars, ghostVars
<1>16. ASSUME VouchLast PROVE JobInv'
  BY <1>16 DEF VouchLast, Store, fileVars, dbVars, watchVars
<1>17. ASSUME StopWatch PROVE JobInv'
  BY <1>17 DEF StopWatch, fileVars, dbVars
<1>18. ASSUME StartWatch PROVE JobInv'
  <2>1. /\ at["api"] = "rewatch" /\ at' = [at EXCEPT !["api"] = "idle"] /\ rebinding' = FALSE
        /\ watched' = registered
        /\ UNCHANGED <<disk, registered, catalog, engine, events, svc, got, todo, vouch, fresh>>
    BY <1>18 DEF StartWatch, Goto, fileVars, dbVars, ghostVars
  <2>2. engine = "running" /\ events = {}
    BY <2>1
  <2>3. EventsAreWatched' /\ OldIsFree' /\ OthersWait'
    BY <2>1, <2>2
  <2>4. IdleIsFree' /\ FreshIsWriting' /\ BuiltIsSound' /\ RemovedFirst' /\ FreshIsRegistered'
    BY <2>1
  <2> QED
    BY <2>3, <2>4
<1>19. ASSUME GitTick PROVE JobInv'
  BY <1>19 DEF GitTick, BeginOp, Idle, fileVars, dbVars, watchVars, ghostVars
<1>20. ASSUME NEW s \in Services, Edit(s) PROVE JobInv'
  BY <1>20 DEF Edit, Changed, fileVars, dbVars, jobVars
<1>21. ASSUME NEW s \in Services, Touch(s) \/ LoseEvent(s) PROVE JobInv'
  BY <1>21 DEF Touch, LoseEvent, fileVars, dbVars, jobVars, ghostVars
<1>22. ASSUME Open PROVE JobInv'
  BY <1>22 DEF Open, fileVars, dbVars, watchVars, ghostVars
<1>23. ASSUME staleCheck PROVE JobInv'
  BY <1>23 DEF staleCheck, Goto, fileVars, dbVars, watchVars
<1>24. ASSUME Opened PROVE JobInv'
  BY <1>24 DEF Opened, fileVars, dbVars, jobVars, ghostVars
<1>25. ASSUME Stop PROVE JobInv'
  BY <1>25 DEF Stop, fileVars, dbVars
<1>26. ASSUME UNCHANGED vars PROVE JobInv'
  BY <1>26 DEF vars, fileVars, dbVars, watchVars, jobVars, ghostVars
<1> QED
  BY <1>1, <1>2, <1>3, <1>4, <1>5, <1>6, <1>7, <1>8, <1>9, <1>10, <1>11, <1>12, <1>13, <1>14, <1>15, <1>16, <1>17, <1>18, <1>19, <1>20, <1>21, <1>22, <1>23, <1>24, <1>25, <1>26
  DEF Next, Watcher, Job, Operation, Environment
-----------------------------------------------------------------------------
(* What the catalog says                                                   *)

\* Somebody will still read s: an event is on its way, or a goroutine is on its
\* way to it.  The git timer is nobody's answer to a change.
Ahead(s) ==
    \/ s \in events \cup pending
    \/ \E p \in Procs \ {"git"} : s \in todo[p]
    \/ \E p \in Procs \ {"git"} : svc[p] = s /\ at[p] \in {"fetch", "read"}

\* p has read what the files of its service hold now.
Matches(p) ==
    IF disk[svc[p]] \in Broken THEN at[p] = "fail"
    ELSE at[p] = "apply" /\ got[p] = disk[svc[p]]

\* A service of a living process is indexed, or about to be; and the latest
\* reading of it is of the files as they are, or not the last one.
IndexedOrAhead ==
    engine # "closed" =>
        \A s \in registered \ excused :
            Mirrors(s) \/ Ahead(s) \/ \E p \in fresh : svc[p] = s /\ Matches(p)
LatestMatches ==
    \A s \in registered \ excused : \A p \in fresh : svc[p] = s => Matches(p) \/ Ahead(s)

\* The rows of a service that is not registered are gone, or about to go.
GoneIsAbsent ==
    \A s \in Services \ (registered \cup excused) : status[s] = "absent" \/ Removing(s)

\* A fingerprint is of what is indexed, unless it is on record that it may not
\* be or somebody will still store another.
PrintsAreTrue ==
    \A s \in registered \ (excused \cup raced) :
        status[s] = "ok" /\ fp[s] # NoContent => fp[s] = catalog[s] \/ Unvouched(s)

IndexInv == IndexedOrAhead /\ LatestMatches /\ GoneIsAbsent /\ PrintsAreTrue

LEMMA IndexInit == Init => IndexInv
<1> SUFFICES ASSUME Init PROVE IndexInv
  OBVIOUS
<1>1. IndexedOrAhead /\ LatestMatches /\ GoneIsAbsent
  BY DEF Init, IndexedOrAhead, LatestMatches, GoneIsAbsent
<1>2. PrintsAreTrue
  BY DEF Init, PrintsAreTrue
<1> QED
  BY <1>1, <1>2 DEF IndexInv

\* An event or a goroutine answers every change; a writing that is not of the
\* latest reading, a lost event, a stop in the middle are on record.
LEMMA IndexInductive ==
  ASSUME Typed, JobInv, IndexInv, [Next]_vars
  PROVE  IndexInv'
<1> USE ContentsAssumption
    DEF TypeOK, Typed, HasService, JobInv, IdleIsFree, FreshIsWriting, BuiltIsSound,
        RemovedFirst, FreshIsRegistered, Removing, OthersWait, EventsAreWatched, OldIsFree,
        IndexInv, IndexedOrAhead, LatestMatches, GoneIsAbsent, PrintsAreTrue, Ahead, Matches,
        Mirrors, Unvouched, Syncing
<1>0. {"watch", "old", "api", "git", "open"} \subseteq Procs
  BY DEF Procs
<1> USE <1>0
<1>1. ASSUME NEW s \in Services, handleEvent(s) PROVE IndexInv'
  <2>1. IndexedOrAhead'
    BY <1>1 DEF handleEvent, fileVars, dbVars, jobVars, ghostVars
  <2>2. LatestMatches'
    BY <1>1 DEF handleEvent, fileVars, dbVars, jobVars, ghostVars
  <2>3. GoneIsAbsent'
    BY <1>1 DEF handleEvent, fileVars, dbVars, jobVars, ghostVars
  <2>4. PrintsAreTrue'
    BY <1>1 DEF handleEvent, fileVars, dbVars, jobVars, ghostVars
  <2> QED
    BY <2>1, <2>2, <2>3, <2>4
<1>2. ASSUME handleIgnored \/ Tick PROVE IndexInv'
  <2>1. IndexedOrAhead'
    BY <1>2 DEF handleIgnored, Tick, fileVars, dbVars, jobVars, ghostVars
  <2>2. LatestMatches'
    BY <1>2 DEF handleIgnored, Tick, fileVars, dbVars, jobVars, ghostVars
  <2>3. GoneIsAbsent'
    BY <1>2 DEF handleIgnored, Tick, fileVars, dbVars, jobVars, ghostVars
  <2>4. PrintsAreTrue'
    BY <1>2 DEF handleIgnored, Tick, fileVars, dbVars, jobVars, ghostVars
  <2> QED
    BY <2>1, <2>2, <2>3, <2>4
<1>3. ASSUME flush PROVE IndexInv'
  <2>1. IndexedOrAhead'
    BY <1>3 DEF flush, LoopIdle, Busy, fileVars, dbVars, ghostVars
  <2>2. LatestMatches'
    BY <1>3 DEF flush, LoopIdle, Busy, fileVars, dbVars, ghostVars
  <2>3. GoneIsAbsent'
    BY <1>3 DEF flush, LoopIdle, Busy, fileVars, dbVars, ghostVars
  <2>4. PrintsAreTrue'
    BY <1>3 DEF flush, LoopIdle, Busy, fileVars, dbVars, ghostVars
  <2> QED
    BY <2>1, <2>2, <2>3, <2>4
<1>4. ASSUME NEW p \in Procs, StartSync(p) PROVE IndexInv'
  <2>1. IndexedOrAhead'
    BY <1>4 DEF StartSync, Goto, fileVars, dbVars, watchVars, ghostVars
  <2>2. LatestMatches'
    BY <1>4 DEF StartSync, Goto, fileVars, dbVars, watchVars, ghostVars
  <2>3. GoneIsAbsent'
    BY <1>4 DEF StartSync, Goto, fileVars, dbVars, watchVars, ghostVars
  <2>4. PrintsAreTrue'
    BY <1>4 DEF StartSync, Goto, fileVars, dbVars, watchVars, ghostVars
  <2> QED
    BY <2>1, <2>2, <2>3, <2>4
<1>5. ASSUME NEW p \in Procs, Fetch(p) PROVE IndexInv'
  <2>1. IndexedOrAhead'
    BY <1>5 DEF Fetch, Goto, Changed, fileVars, dbVars
  <2>2. LatestMatches'
    <3>1. /\ at[p] = "fetch" /\ UNCHANGED <<registered, pending, svc, got, todo, fresh>>
          /\ \E phase \in {"read", "fail"} : at' = [at EXCEPT ![p] = phase]
          /\ excused \subseteq excused' /\ events \subseteq events'
      BY <1>5 DEF Fetch, Goto, Changed
    <3>2. \A x \in Services \ {svc[p]} : disk'[x] = disk[x]
      BY <1>5 DEF Fetch, fileVars
    <3>3. svc[p] \notin excused' => disk' = disk \/ svc[p] \in events'
      <4>1. engine # "closed"
        BY <3>1 DEF Busy
      <4> QED
        BY <1>5, <4>1 DEF Fetch, Changed, fileVars
    <3>4. svc[p] \notin excused' => at' = [at EXCEPT ![p] = "read"]
      BY <1>5 DEF Fetch, Goto
    <3> SUFFICES ASSUME NEW x \in registered \ excused', NEW q \in fresh, svc[q] = x
                 PROVE  Matches(q)' \/ Ahead(x)'
      BY <3>1
    <3>5. q # p /\ at'[q] = at[q] /\ x \in Services /\ x \notin excused
      BY <3>1
    <3>6. Matches(q) => Matches(q)' \/ Ahead(x)'
      BY <3>1, <3>2, <3>3, <3>5
    <3>7. Ahead(x) => Ahead(x)'
      BY <3>1, <3>4
    <3> QED
      BY <3>5, <3>6, <3>7
  <2>3. GoneIsAbsent'
    BY <1>5 DEF Fetch, Goto, Changed, fileVars, dbVars
  <2>4. PrintsAreTrue'
    BY <1>5 DEF Fetch, Goto, Changed, fileVars, dbVars
  <2> QED
    BY <2>1, <2>2, <2>3, <2>4
<1>6. ASSUME NEW p \in Procs, Read(p) PROVE IndexInv'
  <2>1. IndexedOrAhead'
    BY <1>6 DEF Read, Goto, Syncing, fileVars, dbVars, watchVars
  <2>2. LatestMatches'
    BY <1>6 DEF Read, Goto, Syncing, fileVars, dbVars, watchVars
  <2>3. GoneIsAbsent'
    BY <1>6 DEF Read, Goto, Syncing, fileVars, dbVars, watchVars
  <2>4. PrintsAreTrue'
    BY <1>6 DEF Read, Goto, Syncing, fileVars, dbVars, watchVars
  <2> QED
    BY <2>1, <2>2, <2>3, <2>4
<1>7. ASSUME NEW p \in Procs, Apply(p) PROVE IndexInv'
  <2>1. IndexedOrAhead'
    BY <1>7 DEF Apply, Overwrites, AfterSync, Done, Goto, fileVars, dbVars, watchVars
  <2>2. LatestMatches'
    BY <1>7 DEF Apply, Overwrites, AfterSync, Done, Goto, fileVars, dbVars, watchVars
  <2>3. GoneIsAbsent'
    BY <1>7 DEF Apply, Overwrites, AfterSync, Done, Goto, fileVars, dbVars, watchVars
  <2>4. PrintsAreTrue'
    <3>1. PICK s \in Services : svc[p] = s /\ at[p] = "apply"
      BY <1>7 DEF Apply
    <3>2. /\ \A x \in Services \ {s} : /\ catalog'[x] = catalog[x] /\ status'[x] = status[x]
                                       /\ x \notin excused' => x \notin excused
                                       /\ x \notin raced' => x \notin raced
          /\ UNCHANGED <<fp, registered>>
      <4>1. CASE /\ catalog' = [catalog EXCEPT ![s] = got[p]]
                 /\ status' = [status EXCEPT ![s] = "ok"]
                 /\ excused' = IF Overwrites(p, s) THEN excused \cup {s} ELSE excused
                 /\ raced' = IF p \in fresh /\ p # "git" THEN raced ELSE raced \cup {s}
        BY <1>7, <4>1 DEF Apply
      <4>2. CASE UNCHANGED <<dbVars, raced>> /\ excused' = excused \cup {s}
        BY <1>7, <3>1, <4>2 DEF Apply, dbVars
      <4> QED
        BY <1>7, <3>1, <4>1, <4>2 DEF Apply
    <3>3. \A q \in Procs \ {p} : at'[q] = at[q] /\ svc'[q] = svc[q]
      BY <1>7 DEF Apply, AfterSync, Done, Goto
    <3>4. vouch["api"] \subseteq vouch'["api"]
      BY <1>7 DEF Apply, AfterSync
    <3>5. \A x \in Services \ {s} : Unvouched(x) => Unvouched(x)'
      BY <3>1, <3>3, <3>4
    <3>6. s \notin excused' \cup raced' => Unvouched(s)'
      <4>1. CASE Goto(p, "fail") /\ excused' = excused \cup {s}
        BY <4>1
      <4>2. CASE /\ raced' = IF p \in fresh /\ p # "git" THEN raced ELSE raced \cup {s}
                 /\ AfterSync(p, TRUE)
        <5>1. CASE p = "api"
          BY <3>1, <4>2, <5>1 DEF AfterSync
        <5>2. CASE p \in {"watch", "old", "open"}
          BY <3>1, <4>2, <5>2 DEF AfterSync, Goto
        <5>3. CASE p = "git"
          BY <4>2, <5>3
        <5> QED
          BY <5>1, <5>2, <5>3 DEF Procs
      <4> QED
        BY <1>7, <3>1, <4>1, <4>2 DEF Apply
    <3> QED
      BY <3>2, <3>5, <3>6
  <2> QED
    BY <2>1, <2>2, <2>3, <2>4
<1>8. ASSUME NEW p \in Procs, Fail(p) PROVE IndexInv'
  <2>1. IndexedOrAhead'
    <3>1. PICK s \in Services : svc[p] = s /\ at[p] = "fail"
      BY <1>8 DEF Fail
    <3>2. /\ at' = [at EXCEPT ![p] = "idle"] /\ svc' = [svc EXCEPT ![p] = NoService]
          /\ fresh' = fresh \ {p}
          /\ \A q \in Procs \ {p} : got'[q] = got[q]
          /\ UNCHANGED <<disk, catalog, registered, engine, events, pending, todo>>
      BY <1>8 DEF Fail, AfterSync, Done, Goto, fileVars, watchVars
    <3>3. /\ \A x \in Services \ {s} : status'[x] = status[x] /\ (x \in excused' <=> x \in excused)
          /\ s \notin excused' => status'[s] = "error" /\ ~Overwrites(p, s) /\ s \notin excused
      BY <1>8, <3>1 DEF Fail
    <3>4. \A x \in Services : Ahead(x) => Ahead(x)'
      BY <3>1, <3>2
    <3>5. ASSUME NEW x \in registered \ excused', engine # "closed", x # s
          PROVE  Mirrors(x)' \/ Ahead(x)' \/ \E q \in fresh' : svc'[q] = x /\ Matches(q)'
      BY <3>1, <3>2, <3>3, <3>4, <3>5
    <3>6. ASSUME s \in registered, s \notin excused', engine # "closed"
          PROVE  Mirrors(s)' \/ Ahead(s)' \/ \E q \in fresh' : svc'[q] = s /\ Matches(q)'
      <4>1. CASE p \in fresh
        BY <3>1, <3>2, <3>3, <3>4, <3>6, <4>1
      <4>2. CASE p \notin fresh
        <5>1. PICK q \in fresh : svc[q] = s /\ at[q] \in {"apply", "fail"}
          BY <3>3, <3>6, <4>2 DEF Overwrites
        <5>2. Matches(q) \/ Ahead(s)
          BY <3>3, <3>6, <5>1
        <5>3. q # p
          BY <4>2, <5>1
        <5> QED
          BY <3>2, <3>4, <5>1, <5>2, <5>3
      <4> QED
        BY <4>1, <4>2
    <3> QED
      BY <3>2, <3>5, <3>6
  <2>2. LatestMatches'
    BY <1>8 DEF Fail, Overwrites, AfterSync, Done, Goto, fileVars, watchVars
  <2>3. GoneIsAbsent'
    BY <1>8 DEF Fail, Overwrites, AfterSync, Done, Goto, fileVars, watchVars
  <2>4. PrintsAreTrue'
    BY <1>8 DEF Fail, Overwrites, AfterSync, Done, Goto, fileVars, watchVars
  <2> QED
    BY <2>1, <2>2, <2>3, <2>4
<1>9. ASSUME NEW p \in Procs, Vouch(p) PROVE IndexInv'
  <2>1. IndexedOrAhead'
    BY <1>9 DEF Vouch, Store, Done, Goto, fileVars, dbVars, watchVars
  <2>2. LatestMatches'
    BY <1>9 DEF Vouch, Store, Done, Goto, fileVars, dbVars, watchVars
  <2>3. GoneIsAbsent'
    BY <1>9 DEF Vouch, Store, Done, Goto, fileVars, dbVars, watchVars
  <2>4. PrintsAreTrue'
    BY <1>9 DEF Vouch, Store, Done, Goto, fileVars, dbVars, watchVars
  <2> QED
    BY <2>1, <2>2, <2>3, <2>4
<1>10. ASSUME NEW some \in SUBSET registered, SyncServices(some) PROVE IndexInv'
  <2>1. IndexedOrAhead'
    BY <1>10 DEF SyncServices, BeginOp, Idle, Busy, fileVars, dbVars, watchVars, ghostVars
  <2>2. LatestMatches'
    BY <1>10 DEF SyncServices, BeginOp, Idle, Busy, fileVars, dbVars, watchVars, ghostVars
  <2>3. GoneIsAbsent'
    BY <1>10 DEF SyncServices, BeginOp, Idle, Busy, fileVars, dbVars, watchVars, ghostVars
  <2>4. PrintsAreTrue'
    BY <1>10 DEF SyncServices, BeginOp, Idle, Busy, fileVars, dbVars, watchVars, ghostVars
  <2> QED
    BY <2>1, <2>2, <2>3, <2>4
<1>11. ASSUME NEW s \in Services, AddService(s) PROVE IndexInv'
  <2>1. IndexedOrAhead'
    BY <1>11 DEF AddService, BeginOp, Idle, Busy, fileVars, dbVars, watchVars, ghostVars
  <2>2. LatestMatches'
    BY <1>11 DEF AddService, BeginOp, Idle, Busy, fileVars, dbVars, watchVars, ghostVars
  <2>3. GoneIsAbsent'
    BY <1>11 DEF AddService, BeginOp, Idle, Busy, fileVars, dbVars, watchVars, ghostVars
  <2>4. PrintsAreTrue'
    BY <1>11 DEF AddService, BeginOp, Idle, Busy, fileVars, dbVars, watchVars, ghostVars
  <2> QED
    BY <2>1, <2>2, <2>3, <2>4
<1>12. ASSUME NEW s \in Services, RemoveService(s) PROVE IndexInv'
  <2>1. IndexedOrAhead'
    BY <1>12 DEF RemoveService, BeginOp, Idle, Busy, Goto, fileVars, dbVars, watchVars, ghostVars
  <2>2. LatestMatches'
    BY <1>12 DEF RemoveService, BeginOp, Idle, Busy, Goto, fileVars, dbVars, watchVars, ghostVars
  <2>3. GoneIsAbsent'
    BY <1>12 DEF RemoveService, BeginOp, Idle, Busy, Goto, fileVars, dbVars, watchVars, ghostVars
  <2>4. PrintsAreTrue'
    BY <1>12 DEF RemoveService, BeginOp, Idle, Busy, Goto, fileVars, dbVars, watchVars, ghostVars
  <2> QED
    BY <2>1, <2>2, <2>3, <2>4
<1>13. ASSUME NEW s \in Services, Rebind(s) PROVE IndexInv'
  <2>1. IndexedOrAhead'
    BY <1>13 DEF Rebind, BeginOp, Idle, Busy, dbVars
  <2>2. LatestMatches'
    BY <1>13 DEF Rebind, BeginOp, Idle, Busy, dbVars
  <2>3. GoneIsAbsent'
    BY <1>13 DEF Rebind, BeginOp, Idle, Busy, dbVars
  <2>4. PrintsAreTrue'
    BY <1>13 DEF Rebind, BeginOp, Idle, Busy, dbVars
  <2> QED
    BY <2>1, <2>2, <2>3, <2>4
<1>14. ASSUME RemoveRows PROVE IndexInv'
  <2>1. IndexedOrAhead'
    BY <1>14 DEF RemoveRows, Goto, Syncing, fileVars, watchVars
  <2>2. LatestMatches'
    BY <1>14 DEF RemoveRows, Goto, Syncing, fileVars, watchVars
  <2>3. GoneIsAbsent'
    BY <1>14 DEF RemoveRows, Goto, Syncing, fileVars, watchVars
  <2>4. PrintsAreTrue'
    BY <1>14 DEF RemoveRows, Goto, Syncing, fileVars, watchVars
  <2> QED
    BY <2>1, <2>2, <2>3, <2>4
<1>15. ASSUME Forget PROVE IndexInv'
  <2>1. IndexedOrAhead'
    BY <1>15 DEF Forget, Done, Goto, fileVars, dbVars, watchVars, ghostVars
  <2>2. LatestMatches'
    BY <1>15 DEF Forget, Done, Goto, fileVars, dbVars, watchVars, ghostVars
  <2>3. GoneIsAbsent'
    BY <1>15 DEF Forget, Done, Goto, fileVars, dbVars, watchVars, ghostVars
  <2>4. PrintsAreTrue'
    BY <1>15 DEF Forget, Done, Goto, fileVars, dbVars, watchVars, ghostVars
  <2> QED
    BY <2>1, <2>2, <2>3, <2>4
<1>16. ASSUME VouchLast PROVE IndexInv'
  <2>1. IndexedOrAhead'
    BY <1>16 DEF VouchLast, Store, fileVars, dbVars, watchVars
  <2>2. LatestMatches'
    BY <1>16 DEF VouchLast, Store, fileVars, dbVars, watchVars
  <2>3. GoneIsAbsent'
    BY <1>16 DEF VouchLast, Store, fileVars, dbVars, watchVars
  <2>4. PrintsAreTrue'
    BY <1>16 DEF VouchLast, Store, fileVars, dbVars, watchVars
  <2> QED
    BY <2>1, <2>2, <2>3, <2>4
<1>17. ASSUME StopWatch PROVE IndexInv'
  <2>0. /\ at' = [at EXCEPT !["old"] = at["watch"], !["watch"] = "idle", !["git"] = "idle",
                            !["api"] = "rewatch"]
        /\ svc' = [svc EXCEPT !["old"] = svc["watch"], !["watch"] = NoService,
                              !["git"] = NoService]
        /\ got' = [got EXCEPT !["old"] = got["watch"], !["watch"] = NoContent,
                              !["git"] = NoContent]
        /\ todo' = [todo EXCEPT !["old"] = todo["watch"], !["watch"] = {}, !["git"] = {}]
        /\ fresh' = (fresh \ {"watch", "git"}) \cup (IF "watch" \in fresh THEN {"old"} ELSE {})
        /\ excused' = excused \cup events \cup pending \cup ({svc["git"]} \ {NoService})
        /\ UNCHANGED <<disk, registered, catalog, status, engine>>
    BY <1>17 DEF StopWatch, fileVars, dbVars
  <2>a. at["api"] = "idle" /\ todo["api"] = {} /\ at["old"] = "idle" /\ todo["old"] = {}
    BY <1>17 DEF StopWatch, Busy
  <2>b. "old" \notin fresh /\ "api" \notin fresh /\ svc["api"] = NoService /\ svc["old"] = NoService
    BY <2>a
  <2>c. /\ at'["old"] = at["watch"] /\ svc'["old"] = svc["watch"] /\ got'["old"] = got["watch"]
        /\ todo'["old"] = todo["watch"]
        /\ at'["open"] = at["open"] /\ svc'["open"] = svc["open"] /\ got'["open"] = got["open"]
        /\ todo'["open"] = todo["open"]
    BY <2>0
  <2>d. ASSUME NEW x \in Services, x \notin excused', Ahead(x) PROVE Ahead(x)'
    <3>1. x \notin events \cup pending
      BY <2>0, <2>d
    <3>2. ASSUME NEW q \in Procs \ {"git"}, x \in todo[q] PROVE Ahead(x)'
      BY <2>a, <2>c, <3>2 DEF Procs
    <3>3. ASSUME NEW q \in Procs \ {"git"}, svc[q] = x, at[q] \in {"fetch", "read"}
          PROVE  Ahead(x)'
      BY <2>a, <2>c, <3>3 DEF Procs
    <3> QED
      BY <2>d, <3>1, <3>2, <3>3
  <2>e. ASSUME NEW q \in fresh, svc[q] \in Services \ excused', Matches(q)
        PROVE  \E r \in fresh' : svc'[r] = svc[q] /\ Matches(r)'
    <3>1. q # "git"
      BY <2>0, <2>e
    <3>2. CASE q = "watch"
      BY <2>0, <2>c, <2>e, <3>2
    <3>3. CASE q = "open"
      BY <2>0, <2>c, <2>e, <3>3
    <3> QED
      BY <2>b, <3>1, <3>2, <3>3 DEF Procs
  <2>1. IndexedOrAhead'
    <3> SUFFICES ASSUME engine # "closed", NEW x \in registered \ excused'
                 PROVE  Mirrors(x)' \/ Ahead(x)' \/ \E r \in fresh' : svc'[r] = x /\ Matches(r)'
      BY <2>0
    <3>1. x \in Services /\ x \notin excused
      BY <2>0
    <3>2. Mirrors(x) => Mirrors(x)'
      BY <2>0
    <3>3. CASE \E q \in fresh : svc[q] = x /\ Matches(q)
      BY <2>e, <3>1, <3>3
    <3> QED
      BY <2>d, <3>1, <3>2, <3>3
  <2>2. LatestMatches'
    <3> SUFFICES ASSUME NEW x \in registered \ excused', NEW r \in fresh', svc'[r] = x
                 PROVE  Matches(r)' \/ Ahead(x)'
      BY <2>0
    <3>1. CASE r = "old"
      <4>1. "watch" \in fresh /\ svc["watch"] = x /\ x \in Services \ excused
        BY <2>0, <2>b, <2>c, <3>1
      <4>2. Matches("watch") => Matches(r)'
        BY <2>0, <2>c, <3>1
      <4>3. Matches("watch") \/ Ahead(x)
        BY <2>0, <4>1
      <4> QED
        BY <2>d, <4>1, <4>2, <4>3
    <3>2. CASE r = "open"
      <4>1. "open" \in fresh /\ svc["open"] = x /\ x \in Services \ excused
        BY <2>0, <2>c, <3>2
      <4>2. Matches("open") => Matches(r)'
        BY <2>0, <2>c, <3>2
      <4> QED
        BY <2>0, <2>d, <4>1, <4>2, <3>2
    <3> QED
      BY <2>0, <2>b, <3>1, <3>2 DEF Procs
  <2>3. GoneIsAbsent'
    BY <1>17 DEF StopWatch, Busy, fileVars, dbVars
  <2>4. PrintsAreTrue'
    BY <1>17 DEF StopWatch, Busy, fileVars, dbVars
  <2> QED
    BY <2>1, <2>2, <2>3, <2>4
<1>18. ASSUME StartWatch PROVE IndexInv'
  <2>1. IndexedOrAhead'
    BY <1>18 DEF StartWatch, Goto, fileVars, dbVars, ghostVars
  <2>2. LatestMatches'
    BY <1>18 DEF StartWatch, Goto, fileVars, dbVars, ghostVars
  <2>3. GoneIsAbsent'
    BY <1>18 DEF StartWatch, Goto, fileVars, dbVars, ghostVars
  <2>4. PrintsAreTrue'
    BY <1>18 DEF StartWatch, Goto, fileVars, dbVars, ghostVars
  <2> QED
    BY <2>1, <2>2, <2>3, <2>4
<1>19. ASSUME GitTick PROVE IndexInv'
  <2>1. IndexedOrAhead'
    BY <1>19 DEF GitTick, BeginOp, Idle, Busy, fileVars, dbVars, watchVars, ghostVars
  <2>2. LatestMatches'
    BY <1>19 DEF GitTick, BeginOp, Idle, Busy, fileVars, dbVars, watchVars, ghostVars
  <2>3. GoneIsAbsent'
    BY <1>19 DEF GitTick, BeginOp, Idle, Busy, fileVars, dbVars, watchVars, ghostVars
  <2>4. PrintsAreTrue'
    BY <1>19 DEF GitTick, BeginOp, Idle, Busy, fileVars, dbVars, watchVars, ghostVars
  <2> QED
    BY <2>1, <2>2, <2>3, <2>4
<1>20. ASSUME NEW s \in Services, Edit(s) PROVE IndexInv'
  <2>1. IndexedOrAhead'
    BY <1>20 DEF Edit, Changed, fileVars, dbVars, jobVars
  <2>2. LatestMatches'
    <3>1. /\ UNCHANGED <<registered, pending, at, svc, got, todo, fresh>>
          /\ excused \subseteq excused' /\ events \subseteq events'
          /\ \A x \in Services \ {s} : disk'[x] = disk[x]
          /\ s \notin excused' => engine = "closed" \/ s \in events'
      BY <1>20 DEF Edit, Changed, jobVars
    <3>2. engine = "closed" => fresh = {}
      BY DEF Busy
    <3> QED
      BY <3>1, <3>2
  <2>3. GoneIsAbsent'
    BY <1>20 DEF Edit, Changed, fileVars, dbVars, jobVars
  <2>4. PrintsAreTrue'
    BY <1>20 DEF Edit, Changed, fileVars, dbVars, jobVars
  <2> QED
    BY <2>1, <2>2, <2>3, <2>4
<1>21. ASSUME NEW s \in Services, Touch(s) \/ LoseEvent(s) PROVE IndexInv'
  <2>1. IndexedOrAhead'
    BY <1>21 DEF Touch, LoseEvent, fileVars, dbVars, jobVars, ghostVars
  <2>2. LatestMatches'
    BY <1>21 DEF Touch, LoseEvent, fileVars, dbVars, jobVars, ghostVars
  <2>3. GoneIsAbsent'
    BY <1>21 DEF Touch, LoseEvent, fileVars, dbVars, jobVars, ghostVars
  <2>4. PrintsAreTrue'
    BY <1>21 DEF Touch, LoseEvent, fileVars, dbVars, jobVars, ghostVars
  <2> QED
    BY <2>1, <2>2, <2>3, <2>4
<1>22. ASSUME Open PROVE IndexInv'
  <2>1. IndexedOrAhead'
    BY <1>22 DEF Open, Busy, fileVars, dbVars, watchVars, ghostVars
  <2>2. LatestMatches'
    BY <1>22 DEF Open, Busy, fileVars, dbVars, watchVars, ghostVars
  <2>3. GoneIsAbsent'
    BY <1>22 DEF Open, Busy, fileVars, dbVars, watchVars, ghostVars
  <2>4. PrintsAreTrue'
    BY <1>22 DEF Open, Busy, fileVars, dbVars, watchVars, ghostVars
  <2> QED
    BY <2>1, <2>2, <2>3, <2>4
<1>23. ASSUME staleCheck PROVE IndexInv'
  <2>1. IndexedOrAhead'
    BY <1>23 DEF staleCheck, Busy, Goto, fileVars, dbVars, watchVars
  <2>2. LatestMatches'
    BY <1>23 DEF staleCheck, Busy, Goto, fileVars, dbVars, watchVars
  <2>3. GoneIsAbsent'
    BY <1>23 DEF staleCheck, Busy, Goto, fileVars, dbVars, watchVars
  <2>4. PrintsAreTrue'
    BY <1>23 DEF staleCheck, Busy, Goto, fileVars, dbVars, watchVars
  <2> QED
    BY <2>1, <2>2, <2>3, <2>4
<1>24. ASSUME Opened PROVE IndexInv'
  <2>1. IndexedOrAhead'
    BY <1>24 DEF Opened, Busy, fileVars, dbVars, jobVars, ghostVars
  <2>2. LatestMatches'
    BY <1>24 DEF Opened, Busy, fileVars, dbVars, jobVars, ghostVars
  <2>3. GoneIsAbsent'
    BY <1>24 DEF Opened, Busy, fileVars, dbVars, jobVars, ghostVars
  <2>4. PrintsAreTrue'
    BY <1>24 DEF Opened, Busy, fileVars, dbVars, jobVars, ghostVars
  <2> QED
    BY <2>1, <2>2, <2>3, <2>4
<1>25. ASSUME Stop PROVE IndexInv'
  <2>1. IndexedOrAhead'
    BY <1>25 DEF Stop, fileVars, dbVars
  <2>2. LatestMatches'
    BY <1>25 DEF Stop, fileVars, dbVars
  <2>3. GoneIsAbsent'
    BY <1>25 DEF Stop, fileVars, dbVars
  <2>4. PrintsAreTrue'
    BY <1>25 DEF Stop, fileVars, dbVars
  <2> QED
    BY <2>1, <2>2, <2>3, <2>4
<1>26. ASSUME UNCHANGED vars PROVE IndexInv'
  <2>1. IndexedOrAhead'
    BY <1>26 DEF vars, fileVars, dbVars, watchVars, jobVars, ghostVars
  <2>2. LatestMatches'
    BY <1>26 DEF vars, fileVars, dbVars, watchVars, jobVars, ghostVars
  <2>3. GoneIsAbsent'
    BY <1>26 DEF vars, fileVars, dbVars, watchVars, jobVars, ghostVars
  <2>4. PrintsAreTrue'
    BY <1>26 DEF vars, fileVars, dbVars, watchVars, jobVars, ghostVars
  <2> QED
    BY <2>1, <2>2, <2>3, <2>4
<1> QED
  BY <1>1, <1>2, <1>3, <1>4, <1>5, <1>6, <1>7, <1>8, <1>9, <1>10, <1>11, <1>12, <1>13, <1>14, <1>15, <1>16, <1>17, <1>18, <1>19, <1>20, <1>21, <1>22, <1>23, <1>24, <1>25, <1>26
  DEF Next, Watcher, Job, Operation, Environment

\* When the daemon is quiet the catalog is what the files are, whatever edits,
\* syncs of five goroutines, rebinds, failures and restarts came before, but for
\* the services a change of which is on record as lost (watch.go:45).
THEOREM SettledCatalogIsIndexed == Spec => []SettledIsIndexed
<1>1. ASSUME Typed, JobInv, IndexInv PROVE SettledIsIndexed
  <2> SUFFICES ASSUME Settled, NEW s \in Services, s \notin excused
               PROVE  Mirrors(s)
    BY DEF SettledIsIndexed
  <2>1. \A p \in Procs : at[p] = "idle" /\ todo[p] = {}
    BY DEF Settled, Busy
  <2>2. "api" \in Procs
    BY DEF Procs
  <2>3. ~Ahead(s) /\ ~Removing(s) /\ fresh = {}
    BY <1>1, <2>1, <2>2 DEF Settled, Ahead, Removing, JobInv, FreshIsWriting, Typed, TypeOK
  <2>4. CASE s \in registered
    BY <1>1, <2>3, <2>4 DEF IndexInv, IndexedOrAhead, Settled
  <2>5. CASE s \notin registered
    BY <1>1, <2>3, <2>5 DEF IndexInv, GoneIsAbsent, Mirrors
  <2> QED
    BY <2>4, <2>5
<1>2. Spec => []JobInv
  BY JobInit, JobInductive, TypedAlways, PTL DEF Spec
<1>3. Spec => []IndexInv
  BY <1>2, IndexInit, IndexInductive, TypedAlways, PTL DEF Spec
<1> QED
  BY <1>1, <1>2, <1>3, TypedAlways, PTL
=============================================================================
