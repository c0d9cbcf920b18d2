------------------------------ MODULE IndexSync ------------------------------
(***************************************************************************)
(* How the catalog follows the files: the debounced file watcher of a      *)
(* daemon (registry/watch.go), the syncs it, the HTTP handlers and the git *)
(* timer run (registry/sync.go, engine/local/services.go), the content     *)
(* fingerprints that let Open skip a service (engine/local/staleness.go)   *)
(* and the stops between them.  A service's package is one value out of    *)
(* Contents; a package in Broken does not build.  Packages are read,       *)
(* applied and fingerprinted in separate steps, as the code does without a *)
(* lock across them.                                                       *)
(***************************************************************************)
EXTENDS Integers, FiniteSets

CONSTANTS
    Services,     \* names a workspace may register
    Contents,     \* what a service's package may hold
    Broken,       \* contents whose Build fails
    FirstContent, \* what every package holds at first
    GitSourced,   \* services read from a managed clone
    NoContent,    \* "nothing indexed", "no fingerprint"
    NoService,
    Debounce,     \* the debounce window, in ticks
    MaxDelay,     \* the longest deferral of a flush, in ticks
    MaxEdits,     \* bound: changes to packages
    MaxOps,       \* bound: API operations and git ticks
    MaxFaults     \* bound: failed writes or fetches, lost events, stops

ASSUME ContentsAssumption ==
    /\ Broken \subseteq Contents
    /\ FirstContent \in Contents \ Broken
    /\ NoContent \notin Contents
    /\ NoService \notin Services
    /\ GitSourced \subseteq Services
ASSUME TimesAssumption ==
    /\ Debounce \in Nat \ {0}
    /\ MaxDelay \in Nat
    /\ Debounce <= MaxDelay
ASSUME BoundsAssumption == MaxEdits \in Nat /\ MaxOps \in Nat /\ MaxFaults \in Nat

VARIABLES
    disk,       \* the packages on disk
    registered, \* the services of the workspace file
    catalog,    \* what is indexed of each service
    status,     \* the service's row: "absent", "ok" or "error"
    fp,         \* settings "fingerprint:<name>"
    engine,     \* "closed", "opening" or "running"
    watched,    \* services whose directories the watcher has in its index
    events,     \* file events not yet read by the watcher's loop
    pending,    \* pendingServices
    timer,      \* ticks until the debounce timer fires, or Off
    age,        \* ticks since firstPending
    at,         \* per goroutine: where its current sync is
    svc,        \* per goroutine: the service it syncs
    got,        \* per goroutine: the package it read
    print,      \* the fingerprint the staleness check took before its sync
    todo,       \* per goroutine: services still to sync
    vouch,      \* per goroutine: services still to fingerprint
    rebinding,  \* the handler restarts the watcher when it is through
    edits, ops, faults,
    fresh,      \* history: goroutines no later reader of their service has overtaken
    excused,    \* history: services a change of which has gone unseen
    raced       \* history: services whose fingerprint may not be the catalog's

Off == -1
\* The goroutines that sync: the watcher's loop in onChange, the loop of a
\* watcher that restartWatch has replaced, a request handler, the git timer,
\* and Open's staleness check.
Procs == {"watch", "old", "api", "git", "open"}
Phases == {"idle", "fetch", "read", "apply", "fail", "vouch",
           "remove", "forget", "rewatch"}

fileVars  == <<disk, edits>>
dbVars    == <<catalog, status>>
watchVars == <<watched, events, pending, timer, age>>
jobVars   == <<at, svc, got, print, todo, vouch, rebinding>>
ghostVars == <<fresh, excused, raced>>
vars == <<fileVars, registered, dbVars, fp, engine, watchVars, jobVars,
          ops, faults, ghostVars>>

TypeOK ==
    /\ disk \in [Services -> Contents]
    /\ registered \subseteq Services
    /\ catalog \in [Services -> Contents \cup {NoContent}]
    /\ status \in [Services -> {"absent", "ok", "error"}]
    /\ fp \in [Services -> Contents \cup {NoContent}]
    /\ engine \in {"closed", "opening", "running"}
    /\ watched \subseteq Services /\ events \subseteq Services
    /\ pending \subseteq Services
    /\ timer \in {Off} \cup (0 .. Debounce) /\ age \in Nat
    /\ at \in [Procs -> Phases]
    /\ svc \in [Procs -> Services \cup {NoService}]
    /\ got \in [Procs -> Contents \cup {NoContent}]
    /\ print \in Contents \cup {NoContent}
    /\ todo \in [Procs -> SUBSET Services]
    /\ vouch \in [Procs -> SUBSET Services]
    /\ rebinding \in BOOLEAN
    /\ edits \in 0 .. MaxEdits /\ ops \in 0 .. MaxOps /\ faults \in 0 .. MaxFaults
    /\ fresh \subseteq Procs
    /\ excused \subseteq Services /\ raced \subseteq Services

Init ==
    /\ disk = [s \in Services |-> FirstContent]
    /\ registered \in SUBSET Services
    /\ catalog = [s \in Services |-> NoContent]
    /\ status = [s \in Services |-> "absent"]
    /\ fp = [s \in Services |-> NoContent]
    /\ engine = "closed"
    /\ watched = {} /\ events = {} /\ pending = {} /\ timer = Off /\ age = 0
    /\ at = [p \in Procs |-> "idle"]
    /\ svc = [p \in Procs |-> NoService]
    /\ got = [p \in Procs |-> NoContent] /\ print = NoContent
    /\ todo = [p \in Procs |-> {}]
    /\ vouch = [p \in Procs |-> {}]
    /\ rebinding = FALSE
    /\ edits = 0 /\ ops = 0 /\ faults = 0
    /\ fresh = {} /\ excused = {} /\ raced = {}

-----------------------------------------------------------------------------
(* Files and events *)

Syncing(s) == {p \in Procs : svc[p] = s}

\* Somebody has read s and has not vouched for it yet.
Unvouched(s) ==
    \/ s \in vouch["api"]
    \/ \E p \in Syncing(s) : at[p] \in {"apply", "fail", "vouch"}
    \/ svc["open"] = s

\* A change of s's package: an event for a watched service, unseen otherwise.
Changed(s) ==
    /\ events' = IF s \in watched THEN events \cup {s} ELSE events
    /\ excused' = IF s \in watched \/ engine = "closed" THEN excused ELSE excused \cup {s}

Edit(s) ==
    /\ edits < MaxEdits
    /\ \E c \in Contents \ {disk[s]} : disk' = [disk EXCEPT ![s] = c]
    /\ edits' = edits + 1
    /\ Changed(s)
    /\ UNCHANGED <<registered, dbVars, fp, engine, watched, pending, timer, age,
                   jobVars, ops, faults, fresh, raced>>

\* A save that changes nothing: an event all the same.
Touch(s) ==
    /\ s \in watched \ events
    /\ events' = events \cup {s}
    /\ UNCHANGED <<fileVars, registered, dbVars, fp, engine, watched, pending,
                   timer, age, jobVars, ops, faults, ghostVars>>

Busy(p) ==
    \/ at[p] # "idle" \/ todo[p] # {} \/ vouch[p] # {}
    \/ p = "api" /\ rebinding

\* While onChange runs nobody reads the events, and the kernel's queue may
\* overflow; the loop drops the error that says so.
LoseEvent(s) ==
    /\ faults < MaxFaults
    /\ Busy("watch")
    /\ s \in events
    /\ events' = events \ {s}
    /\ faults' = faults + 1
    /\ excused' = excused \cup {s}
    /\ UNCHANGED <<fileVars, registered, dbVars, fp, engine, watched, pending,
                   timer, age, jobVars, ops, fresh, raced>>

-----------------------------------------------------------------------------
(* The watcher's loop *)

LoopIdle == engine = "running" /\ ~Busy("watch")

\* Mutant: every event is given a whole window.
nextFlushInUncapped(some) == Debounce

\* How long the timer runs after an event: a whole window, or what is left of
\* the oldest pending change's budget.
nextFlushIn(some) ==
    IF ~some THEN Debounce
    ELSE IF MaxDelay - age >= Debounce THEN Debounce
    ELSE IF MaxDelay - age < 0 THEN 0 ELSE MaxDelay - age

handleEvent(s) ==
    /\ LoopIdle
    /\ s \in events
    /\ events' = events \ {s}
    /\ pending' = IF s \in watched THEN pending \cup {s} ELSE pending
    /\ timer' = nextFlushIn(pending' # {})
    /\ UNCHANGED <<fileVars, registered, dbVars, fp, engine, watched, age,
                   jobVars, ops, faults, ghostVars>>

\* An ignored file name, or another file of the workspace root: nothing is
\* marked, the timer is set again all the same.
handleIgnored ==
    /\ LoopIdle
    /\ watched # {}
    /\ timer' = nextFlushIn(pending # {})
    /\ UNCHANGED <<fileVars, registered, dbVars, fp, engine, watched, events,
                   pending, age, jobVars, ops, faults, ghostVars>>

\* Mutant: the events that queued up behind the timer are drained.
flushAndDrain ==
    /\ LoopIdle
    /\ timer = 0
    /\ timer' = Off /\ age' = 0
    /\ todo' = [todo EXCEPT !["watch"] = pending]
    /\ pending' = {} /\ events' = {}
    /\ UNCHANGED <<fileVars, registered, dbVars, fp, engine, watched,
                   at, svc, got, print, vouch, rebinding, ops, faults, ghostVars>>

flush ==
    /\ LoopIdle
    /\ timer = 0
    /\ timer' = Off /\ age' = 0
    /\ todo' = [todo EXCEPT !["watch"] = pending]
    /\ pending' = {}
    /\ UNCHANGED <<fileVars, registered, dbVars, fp, engine, watched, events,
                   at, svc, got, print, vouch, rebinding, ops, faults, ghostVars>>

\* A tick of the clock.  A timer that is due fires before the next one.
Tick ==
    /\ engine = "running"
    /\ timer > 0
    /\ timer' = timer - 1
    /\ age' = IF pending = {} THEN 0 ELSE age + 1
    /\ UNCHANGED <<fileVars, registered, dbVars, fp, engine, watched, events,
                   pending, jobVars, ops, faults, ghostVars>>

-----------------------------------------------------------------------------
(* One sync, by goroutine p *)

Goto(p, phase) == at' = [at EXCEPT ![p] = phase]

\* p is through with its service.
Done(p) ==
    /\ Goto(p, "idle")
    /\ svc' = [svc EXCEPT ![p] = NoService]
    /\ got' = [got EXCEPT ![p] = NoContent]

\* Only the handlers and the git timer fetch; the watcher and Open build from
\* the clone as it is.
StartSync(p) ==
    /\ at[p] = "idle"
    /\ p # "open"
    /\ \E s \in todo[p] :
        /\ todo' = [todo EXCEPT ![p] = @ \ {s}]
        /\ IF s \in registered
           THEN /\ svc' = [svc EXCEPT ![p] = s]
                /\ Goto(p, IF p \in {"api", "git"} /\ s \in GitSourced THEN "fetch"
                                                                       ELSE "read")
           ELSE UNCHANGED <<svc, at>>
    /\ UNCHANGED <<fileVars, registered, dbVars, fp, engine, watchVars, got, print,
                   vouch, rebinding, ops, faults, ghostVars>>

\* Manager.Sync: fetch, then reset --hard onto the tracked ref.
Fetch(p) ==
    /\ at[p] = "fetch"
    /\ LET s == svc[p] IN
       \/ /\ edits < MaxEdits
          /\ \E c \in Contents \ {disk[s]} : disk' = [disk EXCEPT ![s] = c]
          /\ edits' = edits + 1
          /\ Changed(s)
          /\ Goto(p, "read")
          /\ UNCHANGED faults
       \/ /\ Goto(p, "read")
          /\ UNCHANGED <<fileVars, events, excused, faults>>
       \/ /\ faults < MaxFaults
          /\ faults' = faults + 1
          /\ excused' = excused \cup {s}
          /\ Goto(p, "fail")
          /\ UNCHANGED <<fileVars, events>>
    /\ UNCHANGED <<registered, dbVars, fp, engine, watched, pending, timer, age,
                   svc, got, print, todo, vouch, rebinding, ops, fresh, raced>>

\* Builder.Build.  What was missed of s before is answered by this reading,
\* and every goroutine that read s earlier is overtaken.
Read(p) ==
    /\ at[p] = "read"
    /\ LET s == svc[p] IN
       /\ got' = [got EXCEPT ![p] = disk[s]]
       /\ Goto(p, IF disk[s] \in Broken THEN "fail" ELSE "apply")
       /\ fresh' = (fresh \ Syncing(s)) \cup (IF s \in registered THEN {p} ELSE {})
       /\ excused' = IF s \in registered THEN excused \ {s} ELSE excused
    /\ UNCHANGED <<fileVars, registered, dbVars, fp, engine, watchVars, svc, print,
                   todo, vouch, rebinding, ops, faults, raced>>

\* p writes what it read of s when a later reading, or the removal of s, has
\* been written already.
Overwrites(p, s) ==
    /\ p \notin fresh
    /\ \A q \in fresh : ~(svc[q] = s /\ at[q] \in {"apply", "fail"})

\* Where p goes after a sync: the watcher vouches for a success only, a
\* handler for every outcome and after its last service, the git timer never.
AfterSync(p, ok) ==
    /\ IF ok /\ p \in {"watch", "old", "open"}
       THEN Goto(p, "vouch") /\ UNCHANGED svc /\ got' = [got EXCEPT ![p] = NoContent]
       ELSE Done(p)
    /\ vouch' = IF p = "api" THEN [vouch EXCEPT ![p] = @ \cup {svc[p]}] ELSE vouch
    /\ fresh' = fresh \ {p}

Apply(p) ==
    /\ at[p] = "apply"
    /\ LET s == svc[p] IN
       \/ /\ catalog' = [catalog EXCEPT ![s] = got[p]]
          /\ status' = [status EXCEPT ![s] = "ok"]
          /\ excused' = IF Overwrites(p, s) THEN excused \cup {s} ELSE excused
          /\ raced' = IF p \in fresh /\ p # "git" THEN raced ELSE raced \cup {s}
          /\ AfterSync(p, TRUE)
          /\ UNCHANGED faults
       \/ /\ faults < MaxFaults
          /\ faults' = faults + 1
          /\ excused' = excused \cup {s}
          /\ Goto(p, "fail")
          /\ UNCHANGED <<dbVars, svc, got, vouch, fresh, raced>>
    /\ UNCHANGED <<fileVars, registered, fp, engine, watchVars, print, todo, rebinding, ops>>

\* MarkServiceError: the row says so, what is indexed stays.  Its own failure
\* is swallowed.
Fail(p) ==
    /\ at[p] = "fail"
    /\ LET s == svc[p] IN
       /\ \/ /\ status' = [status EXCEPT ![s] = "error"]
             /\ excused' = IF Overwrites(p, s) THEN excused \cup {s} ELSE excused
             /\ UNCHANGED faults
          \/ /\ faults < MaxFaults
             /\ faults' = faults + 1
             /\ excused' = excused \cup {s}
             /\ UNCHANGED status
    /\ AfterSync(p, FALSE)
    /\ UNCHANGED <<fileVars, registered, catalog, fp, engine, watchVars, print, todo,
                   rebinding, ops, raced>>

\* The print of s is stored: of the files as they are now by
\* refreshFingerprint, of the files as they were before the sync by Open.
Store(s, of) ==
    /\ fp' = [fp EXCEPT ![s] = of]
    /\ raced' = IF of = catalog[s] THEN raced \ {s} ELSE raced \cup {s}

Vouch(p) ==
    /\ at[p] = "vouch"
    /\ IF p = "open" THEN Store(svc[p], print)
       ELSE IF svc[p] \in registered THEN Store(svc[p], disk[svc[p]])
       ELSE UNCHANGED <<fp, raced>>
    /\ Done(p)
    /\ print' = IF p = "open" THEN NoContent ELSE print
    /\ UNCHANGED <<fileVars, registered, dbVars, engine, watchVars, todo, vouch,
                   rebinding, ops, faults, fresh, excused>>

VouchLast ==
    /\ at["api"] = "idle" /\ todo["api"] = {}
    /\ \E s \in vouch["api"] :
        /\ vouch' = [vouch EXCEPT !["api"] = @ \ {s}]
        /\ IF s \in registered THEN Store(s, disk[s]) ELSE UNCHANGED <<fp, raced>>
    /\ UNCHANGED <<fileVars, registered, dbVars, engine, watchVars, at, svc, got,
                   print, todo, rebinding, ops, faults, fresh, excused>>

-----------------------------------------------------------------------------
(* Operations of the engine *)

Idle(p) == engine = "running" /\ ~Busy(p)

BeginOp(p) ==
    /\ Idle(p)
    /\ ops < MaxOps
    /\ ops' = ops + 1

\* Sync of one service or of all, and Reindex.
SyncServices(some) ==
    /\ BeginOp("api")
    /\ todo' = [todo EXCEPT !["api"] = some]
    /\ UNCHANGED <<fileVars, registered, dbVars, fp, engine, watchVars, at, svc, got,
                   print, vouch, rebinding, faults, ghostVars>>

\* Add does not restart the watcher.
AddService(s) ==
    /\ BeginOp("api")
    /\ s \notin registered
    /\ registered' = registered \cup {s}
    /\ todo' = [todo EXCEPT !["api"] = {s}]
    /\ UNCHANGED <<fileVars, dbVars, fp, engine, watchVars, at, svc, got, print,
                   vouch, rebinding, faults, ghostVars>>

\* Remove: the workspace file, then the rows, then the fingerprint.
RemoveService(s) ==
    /\ BeginOp("api")
    /\ s \in registered
    /\ registered' = registered \ {s}
    /\ svc' = [svc EXCEPT !["api"] = s]
    /\ Goto("api", "remove")
    /\ UNCHANGED <<fileVars, dbVars, fp, engine, watchVars, got, print, todo, vouch,
                   rebinding, faults, ghostVars>>

RemoveRows ==
    /\ at["api"] = "remove"
    /\ LET s == svc["api"] IN
       /\ catalog' = [catalog EXCEPT ![s] = NoContent]
       /\ status' = [status EXCEPT ![s] = "absent"]
       /\ fresh' = fresh \ Syncing(s)
       /\ excused' = excused \ {s}
    /\ Goto("api", "forget")
    /\ UNCHANGED <<fileVars, registered, fp, engine, watchVars, svc, got, print, todo,
                   vouch, rebinding, ops, faults, raced>>

Forget ==
    /\ at["api"] = "forget"
    /\ fp' = [fp EXCEPT ![svc["api"]] = NoContent]
    /\ Done("api")
    /\ UNCHANGED <<fileVars, registered, dbVars, engine, watchVars, print, todo, vouch,
                   rebinding, ops, faults, ghostVars>>

\* Bind and Unbind: s is read from another directory, which the watcher does
\* not know, until the watcher is restarted after the sync.
Rebind(s) ==
    /\ BeginOp("api")
    /\ s \in registered
    /\ ~Busy("old")
    /\ edits < MaxEdits
    /\ edits' = edits + 1
    /\ \E c \in Contents \ {disk[s]} : disk' = [disk EXCEPT ![s] = c]
    /\ watched' = watched \ {s} /\ events' = events \ {s}
    /\ excused' = excused \cup {s}
    /\ todo' = [todo EXCEPT !["api"] = {s}]
    /\ rebinding' = TRUE
    /\ UNCHANGED <<registered, dbVars, fp, engine, pending, timer, age, at, svc, got,
                   print, vouch, faults, fresh, raced>>

\* restartWatch cancels the loop and closes its watcher: what the loop had
\* pending is dropped, a callback it is in runs on, and the git timer's sync
\* fails on its cancelled context.
StopWatch ==
    /\ rebinding
    /\ at["api"] = "idle" /\ todo["api"] = {} /\ vouch["api"] = {}
    /\ at' = [at EXCEPT !["old"] = at["watch"], !["watch"] = "idle", !["git"] = "idle",
                        !["api"] = "rewatch"]
    /\ svc' = [svc EXCEPT !["old"] = svc["watch"], !["watch"] = NoService,
                          !["git"] = NoService]
    /\ got' = [got EXCEPT !["old"] = got["watch"], !["watch"] = NoContent,
                          !["git"] = NoContent]
    /\ todo' = [todo EXCEPT !["old"] = todo["watch"], !["watch"] = {}, !["git"] = {}]
    /\ fresh' = (fresh \ {"watch", "git"})
                    \cup (IF "watch" \in fresh THEN {"old"} ELSE {})
    /\ excused' = excused \cup events \cup pending \cup ({svc["git"]} \ {NoService})
    /\ watched' = {} /\ events' = {} /\ pending' = {} /\ timer' = Off /\ age' = 0
    /\ UNCHANGED <<fileVars, registered, dbVars, fp, engine, print, vouch, rebinding,
                   ops, faults, raced>>

StartWatch ==
    /\ at["api"] = "rewatch"
    /\ Goto("api", "idle")
    /\ rebinding' = FALSE
    /\ watched' = registered
    /\ UNCHANGED <<fileVars, registered, dbVars, fp, engine, events, pending, timer,
                   age, svc, got, print, todo, vouch, ops, faults, ghostVars>>

\* A tick of the git timer.
GitTick ==
    /\ BeginOp("git")
    /\ registered \cap GitSourced # {}
    /\ todo' = [todo EXCEPT !["git"] = registered \cap GitSourced]
    /\ UNCHANGED <<fileVars, registered, dbVars, fp, engine, watchVars, at, svc, got,
                   print, vouch, rebinding, faults, ghostVars>>

-----------------------------------------------------------------------------
(* Open and the end of the process *)

Open ==
    /\ engine = "closed"
    /\ engine' = "opening"
    /\ todo' = [todo EXCEPT !["open"] = registered]
    /\ UNCHANGED <<fileVars, registered, dbVars, fp, watchVars, at, svc, got, print,
                   vouch, rebinding, ops, faults, ghostVars>>

\* A service whose files have the stored fingerprint, and a row, is skipped:
\* neither the row's status nor what it holds is looked at.
staleCheck ==
    /\ engine = "opening" /\ at["open"] = "idle"
    /\ \E s \in todo["open"] :
        /\ todo' = [todo EXCEPT !["open"] = @ \ {s}]
        /\ IF fp[s] = disk[s] /\ status[s] # "absent"
           THEN /\ excused' = IF s \in raced \/ status[s] = "error"
                              THEN excused \cup {s} ELSE excused
                /\ UNCHANGED <<at, svc, print>>
           ELSE /\ print' = disk[s]
                /\ svc' = [svc EXCEPT !["open"] = s]
                /\ Goto("open", "read")
                /\ UNCHANGED excused
    /\ UNCHANGED <<fileVars, registered, dbVars, fp, engine, watchVars, got, vouch,
                   rebinding, ops, faults, fresh, raced>>

\* The watch begins only after the check.
Opened ==
    /\ engine = "opening" /\ ~Busy("open")
    /\ engine' = "running"
    /\ watched' = registered
    /\ UNCHANGED <<fileVars, registered, dbVars, fp, events, pending, timer, age,
                   jobVars, ops, faults, ghostVars>>

\* Close, which waits for no sync, or a crash.
Stop ==
    /\ engine # "closed"
    /\ faults < MaxFaults
    /\ faults' = faults + 1
    /\ engine' = "closed"
    /\ watched' = {} /\ events' = {} /\ pending' = {} /\ timer' = Off /\ age' = 0
    /\ at' = [p \in Procs |-> "idle"]
    /\ svc' = [p \in Procs |-> NoService]
    /\ got' = [p \in Procs |-> NoContent] /\ print' = NoContent
    /\ todo' = [p \in Procs |-> {}]
    /\ vouch' = [p \in Procs |-> {}]
    /\ rebinding' = FALSE
    /\ fresh' = {}
    /\ raced' = raced \cup {s \in Services : Unvouched(s)}
    /\ excused' = IF at["api"] = "remove" THEN excused \cup {svc["api"]} ELSE excused
    /\ UNCHANGED <<fileVars, registered, dbVars, fp, ops>>

-----------------------------------------------------------------------------
Watcher ==
    \/ \E s \in Services : handleEvent(s)
    \/ handleIgnored
    \/ flush
    \/ Tick

Job(p) ==
    \/ StartSync(p) \/ Fetch(p) \/ Read(p) \/ Apply(p) \/ Fail(p) \/ Vouch(p)

Operation ==
    \/ \E some \in SUBSET registered : some # {} /\ SyncServices(some)
    \/ \E s \in Services : AddService(s) \/ RemoveService(s) \/ Rebind(s)
    \/ RemoveRows \/ Forget \/ VouchLast \/ StopWatch \/ StartWatch
    \/ GitTick

Environment == \E s \in Services : Edit(s) \/ Touch(s) \/ LoseEvent(s)

Next ==
    \/ Watcher
    \/ \E p \in Procs : Job(p)
    \/ Operation
    \/ Environment
    \/ Open \/ staleCheck \/ Opened \/ Stop

Spec == Init /\ [][Next]_vars

-----------------------------------------------------------------------------
(* Properties *)

\* The row of s says what the files say.
Mirrors(s) ==
    IF s \notin registered THEN status[s] = "absent"
    ELSE IF disk[s] \in Broken THEN status[s] = "error"
    ELSE status[s] = "ok" /\ catalog[s] = disk[s]

Settled ==
    /\ engine = "running"
    /\ events = {} /\ pending = {}
    /\ \A p \in Procs : ~Busy(p)

\* When the writing has stopped and the daemon is quiet, the catalog is what
\* the files are, whatever syncs, ticks, restarts and failures came before;
\* but for the services a change of which was lost in one of the ways this
\* module names (watch.go:45: "the settled, final state is always indexed").
SettledIsIndexed == Settled => \A s \in Services : Mirrors(s) \/ s \in excused

\* A pending change waits for its flush no longer than the maximal delay,
\* however many events follow it (registry/watch.go:17-38).
FlushWithinMaxDelay == pending # {} => age + timer <= MaxDelay /\ timer # Off
=============================================================================
