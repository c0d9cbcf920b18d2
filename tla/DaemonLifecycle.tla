--------------------------- MODULE DaemonLifecycle ---------------------------
(***************************************************************************)
(* The daemons of one workspace and the commands that find, stop, restart  *)
(* and start them: `sapien serve` (internal/cli/serve.go) over the record  *)
(* daemon.json (internal/daemon/daemon.go) and the workspace lock, and     *)
(* `daemon stop`, `daemon restart` and findOrStartDaemon                   *)
(* (internal/cli/daemonctl.go).                                            *)
(*                                                                         *)
(* The lock is what WorkspaceClaim promises of it: taken in one step, and  *)
(* free as soon as its owner released it or died.  A daemon is one process *)
(* from start to exit; pids are not reused.  Probes of another process are *)
(* steps of their own, so anything may happen between a look and what      *)
(* follows from it.                                                        *)
(***************************************************************************)
EXTENDS Naturals, Sequences

CONSTANTS
  Daemons,      \* processes running `sapien serve`
  Clients,      \* processes running one of the commands
  NoProc,
  Older         \* daemons of another build than the commands

ASSUME ProcsAssumption == NoProc \notin Daemons \cup Clients
ASSUME ApartAssumption == Daemons \cap Clients = {}
ASSUME OlderAssumption == Older \subseteq Daemons

VARIABLES
  owner,    \* the daemons that hold the workspace lock
  json,     \* the pid in daemon.json, or NoProc
  printed,  \* the daemons that printed their handshake
  at,       \* where each daemon and each command is
  mode,     \* what it was started as
  seen,     \* the pid it read from daemon.json
  victims,  \* the pids it has to stop, in order
  then,     \* where it goes once they are gone
  child,    \* the daemon a command spawned
  began     \* history: who held the lock when the command began

workspace == <<owner, json, printed>>
locals == <<mode, seen, victims, then, child>>
vars == <<workspace, at, locals, began>>

Actors == Daemons \cup Clients
Pids == Daemons \cup {NoProc}

Starting == {"claimed", "listening", "written"}
Engaged == Starting \cup {"unheard", "serving", "shutdown", "close"}
Unheard == {"unheard", "release unheard", "released unheard"}
Answering == {"listening", "written", "serving"} \cup Unheard
Handling == {"serving", "shutdown", "close", "release"}

Live(p) == at[p] \notin {"unborn", "exited"}
MayAnswer(p) == p \in Daemons /\ at[p] \in Answering

Init ==
  /\ owner = {} /\ json = NoProc /\ printed = {}
  /\ at = [a \in Actors |-> IF a \in Daemons THEN "unborn" ELSE "idle"]
  /\ mode = [a \in Actors |-> "none"]
  /\ seen = [a \in Actors |-> NoProc]
  /\ victims = [a \in Actors |-> <<>>]
  /\ then = [a \in Actors |-> "none"]
  /\ child = [a \in Actors |-> NoProc]
  /\ began = [c \in Clients |-> {}]

Goto(a, place) == at' = [at EXCEPT ![a] = place]

(***************************************************************************)
(* stopDaemon, by a command or by `serve --restart`                        *)
(***************************************************************************)
\* Stop the pids, then go on at place.
StopAll(a, pids, place) ==
  IF pids = <<>>
  THEN Goto(a, place) /\ UNCHANGED <<victims, then>>
  ELSE /\ Goto(a, "term")
       /\ victims' = [victims EXCEPT ![a] = pids]
       /\ then' = [then EXCEPT ![a] = place]

Victim(a) == Head(victims[a])

\* The first victim is gone.
NextVictim(a) ==
  /\ victims' = [victims EXCEPT ![a] = Tail(@)]
  /\ IF Len(victims[a]) > 1
     THEN Goto(a, "term") /\ UNCHANGED then
     ELSE Goto(a, then[a]) /\ then' = [then EXCEPT ![a] = "none"]

\* SIGTERM ends a process that has not installed its handler.
Term(a) ==
  /\ at[a] = "term"
  /\ \/ /\ ~Live(Victim(a)) /\ NextVictim(a) /\ UNCHANGED owner
     \/ /\ Live(Victim(a)) /\ at[Victim(a)] \in Handling
        /\ Goto(a, "wait") /\ UNCHANGED <<owner, victims, then>>
     \/ /\ Live(Victim(a)) /\ at[Victim(a)] \notin Handling
        /\ at' = [at EXCEPT ![a] = "wait", ![Victim(a)] = "exited"]
        /\ owner' = owner \ {Victim(a)} /\ UNCHANGED <<victims, then>>
  /\ UNCHANGED <<json, printed, mode, seen, child, began>>

WaitForExit(a) ==
  /\ at[a] = "wait" /\ ~Live(Victim(a))
  /\ NextVictim(a)
  /\ UNCHANGED <<workspace, mode, seen, child, began>>

\* SIGKILL after the grace period.
Kill(a) ==
  /\ at[a] = "wait" /\ Live(Victim(a))
  /\ at' = [at EXCEPT ![Victim(a)] = "exited"]
  /\ owner' = owner \ {Victim(a)}
  /\ UNCHANGED <<json, printed, locals, began>>

\* The process outlives both signals: the stopper gives up.
Survives(a) ==
  /\ at[a] = "wait" /\ Live(Victim(a))
  /\ Goto(a, IF a \in Daemons THEN "exited" ELSE "error")
  /\ UNCHANGED <<workspace, locals, began>>

(***************************************************************************)
(* sapien serve                                                            *)
(***************************************************************************)
Birth(p, flag) ==
  /\ at[p] = "unborn"
  /\ mode' = [mode EXCEPT ![p] = flag]

\* By a user, or by the restart hook of a daemon.
Serve(p) ==
  /\ \E flag \in {"serve", "serve --restart"} : Birth(p, flag)
  /\ Goto(p, "check")
  /\ UNCHANGED <<workspace, seen, victims, then, child, began>>

ReadRecord(p) ==
  /\ at[p] = "check"
  /\ seen' = [seen EXCEPT ![p] = json]
  /\ Goto(p, IF json = NoProc THEN "acquire" ELSE "probe")
  /\ UNCHANGED <<workspace, mode, victims, then, child, began>>

\* A live daemon is a conflict, or is stopped; a silent one is left to the
\* lock.
RefuseOrReplace(p) ==
  /\ at[p] = "probe"
  /\ \/ Goto(p, "acquire") /\ UNCHANGED <<victims, then>>
     \/ /\ MayAnswer(seen[p]) /\ mode[p] = "serve"
        /\ Goto(p, "exited") /\ UNCHANGED <<victims, then>>
     \/ /\ MayAnswer(seen[p]) /\ mode[p] = "serve --restart"
        /\ StopAll(p, <<seen[p]>>, "forget")
  /\ seen' = [seen EXCEPT ![p] = NoProc]
  /\ UNCHANGED <<workspace, mode, child, began>>

ForgetReplaced(p) ==
  /\ at[p] = "forget"
  /\ json' = NoProc /\ Goto(p, "acquire")
  /\ UNCHANGED <<owner, printed, locals, began>>

AcquireLock(p) ==
  /\ at[p] \in {"acquire", "reacquire"}
  /\ \/ /\ owner = {} /\ owner' = {p} /\ Goto(p, "claimed")
        /\ mode' = [mode EXCEPT ![p] = "serve"]  \* the flag has done its work
     \/ /\ owner # {} /\ UNCHANGED <<owner, mode>>
        /\ Goto(p, IF at[p] = "acquire" /\ mode[p] = "serve --restart"
                   THEN "holder" ELSE "exited")
  /\ UNCHANGED <<json, printed, seen, victims, then, child, began>>

StopHolder(p) ==
  /\ at[p] = "holder"
  /\ \/ owner = {} /\ StopAll(p, <<>>, "reacquire")
     \/ \E q \in owner : StopAll(p, <<q>>, "reacquire")
  /\ UNCHANGED <<workspace, mode, seen, child, began>>

\* The engine is opened, and the listener bound and served.
Open(p) ==
  /\ at[p] = "claimed" /\ Goto(p, "listening")
  /\ UNCHANGED <<workspace, locals, began>>

FailToStart(p) ==
  /\ at[p] \in {"claimed", "listening"} /\ Goto(p, "close")
  /\ UNCHANGED <<workspace, locals, began>>

WriteRecord(p) ==
  /\ at[p] = "listening" /\ Goto(p, "written")
  /\ json' = p
  /\ UNCHANGED <<owner, printed, locals, began>>

\* The handshake, and the signal handler; nobody may be left to read the
\* handshake.
PrintHandshake(p) ==
  /\ at[p] = "written"
  /\ \/ Goto(p, "serving") /\ printed' = printed \cup {p}
     \/ Goto(p, "unheard") /\ UNCHANGED printed
  /\ UNCHANGED <<owner, json, locals, began>>

\* SIGTERM, idle, or the listener failed.
Shutdown(p) ==
  /\ at[p] = "serving" /\ Goto(p, "shutdown")
  /\ UNCHANGED <<workspace, locals, began>>

\* A bug to catch: the lock is released before the engine is closed.
RemoveRecordAndLock(p) ==
  /\ at[p] = "shutdown" /\ Goto(p, "close")
  /\ json' = NoProc /\ owner' = owner \ {p}
  /\ UNCHANGED <<printed, locals, began>>

\* A bug to catch: the lock is released first, and the record left to the next
\* daemon to overwrite.
RemoveLockAlone(p) ==
  /\ at[p] = "shutdown" /\ Goto(p, "close")
  /\ owner' = owner \ {p}
  /\ UNCHANGED <<json, printed, locals, began>>

RemoveRecord(p) ==
  /\ at[p] = "shutdown" /\ Goto(p, "close")
  /\ json' = NoProc
  /\ UNCHANGED <<owner, printed, locals, began>>

\* Without its handshake a daemon ends with its listener open, and leaves its
\* record behind.
CloseEngine(p) ==
  /\ \/ at[p] = "close" /\ Goto(p, "release")
     \/ at[p] = "unheard" /\ Goto(p, "release unheard")
  /\ UNCHANGED <<workspace, locals, began>>

ReleaseLock(p) ==
  /\ \/ at[p] = "release" /\ Goto(p, "released")
     \/ at[p] = "release unheard" /\ Goto(p, "released unheard")
  /\ owner' = owner \ {p}
  /\ UNCHANGED <<json, printed, locals, began>>

\* The process ends: after the release of its lock, whether that succeeded or
\* failed, or it dies anywhere before.  A dead process's claim binds nobody.
Exit(p) ==
  /\ Live(p)
  /\ Goto(p, "exited") /\ owner' = owner \ {p}
  /\ UNCHANGED <<json, printed, locals, began>>

(***************************************************************************)
(* The commands                                                            *)
(***************************************************************************)
Begin(c) ==
  /\ at[c] = "idle"
  /\ \E command \in {"stop", "restart", "start"} :
       /\ mode' = [mode EXCEPT ![c] = command]
       /\ Goto(c, IF command = "start" THEN "find" ELSE "read")
       /\ began' = [began EXCEPT ![c] = IF command = "start" THEN {} ELSE owner]
  /\ UNCHANGED <<workspace, seen, victims, then, child>>

Running(p) == IF p # NoProc /\ Live(p) THEN <<p>> ELSE <<>>

\* stop and restart read the record first.
ReadToStop(c) ==
  /\ at[c] = "read" /\ mode[c] # "start"
  /\ seen' = [seen EXCEPT ![c] = json]
  /\ victims' = [victims EXCEPT ![c] = Running(json)]
  /\ Goto(c, "holder")
  /\ UNCHANGED <<workspace, mode, then, child, began>>

\* replaceStaleDaemon stops the daemon of the record before it looks at the
\* lock; without a record there is nothing to replace.
ReadToReplace(c) ==
  /\ at[c] = "read" /\ mode[c] = "start"
  /\ seen' = [seen EXCEPT ![c] = json]
  /\ IF json = NoProc THEN StopAll(c, <<>>, "spawn")
                      ELSE StopAll(c, <<json>>, "holder left")
  /\ UNCHANGED <<workspace, mode, child, began>>

\* Where a command goes once nothing that ran is left.
AfterStop(c) ==
  IF mode[c] = "restart" /\ victims'[c] = <<>> THEN "spawn"
  ELSE IF mode[c] = "stop" /\ victims'[c] = <<>> /\ seen[c] = NoProc THEN "done"
  ELSE "forget"

\* A bug to catch: only the pid in daemon.json is stopped.
AskHolderOfRecord(c) ==
  /\ at[c] = "holder"
  /\ UNCHANGED victims
  /\ IF victims[c] = <<>>
     THEN Goto(c, AfterStop(c)) /\ UNCHANGED then
     ELSE Goto(c, "term") /\ then' = [then EXCEPT ![c] = "forget"]
  /\ seen' = [seen EXCEPT ![c] = NoProc]
  /\ UNCHANGED <<workspace, mode, child, began>>

\* The lock names the live holder, whatever daemon.json says.
AskHolder(c) ==
  /\ at[c] = "holder"
  /\ \/ owner \subseteq {seen[c]} /\ UNCHANGED victims
     \/ \E q \in owner \ {seen[c]} :
          victims' = [victims EXCEPT ![c] = Append(victims[c], q)]
  /\ IF victims'[c] = <<>>
     THEN Goto(c, AfterStop(c)) /\ UNCHANGED then
     ELSE Goto(c, "term") /\ then' = [then EXCEPT ![c] = "forget"]
  /\ seen' = [seen EXCEPT ![c] = NoProc]
  /\ UNCHANGED <<workspace, mode, child, began>>

\* daemon.Remove, by a command that stopped a daemon or found none, or by Find.
Forget(c) ==
  /\ at[c] \in {"forget", "find stale"}
  /\ json' = NoProc
  /\ Goto(c, IF at[c] = "find stale" THEN "orphan"
             ELSE IF mode[c] = "stop" THEN "done" ELSE "spawn")
  /\ UNCHANGED <<owner, printed, locals, began>>

\* findOrStartDaemon: what the record says ...
Find(c) ==
  /\ at[c] = "find"
  /\ seen' = [seen EXCEPT ![c] = json]
  /\ Goto(c, IF json = NoProc THEN "orphan" ELSE "find alive")
  /\ UNCHANGED <<workspace, mode, victims, then, child, began>>

\* ... whether that daemon answers, and is of this build ...
FindAlive(c) ==
  /\ at[c] = "find alive"
  /\ \/ MayAnswer(seen[c]) /\ Goto(c, IF seen[c] \in Older THEN "read" ELSE "done")
     \/ Goto(c, "find running")
  /\ UNCHANGED <<workspace, locals, began>>

\* ... else whether its process exists.  findDaemonAttempts bounds the retries.
FindRunning(c) ==
  /\ at[c] = "find running"
  /\ IF Live(seen[c]) THEN Goto(c, "find") \/ Goto(c, "error")
                      ELSE Goto(c, "find stale")
  /\ UNCHANGED <<workspace, locals, began>>

\* No record, yet somebody holds the lock: it is stopped.
StopOrphan(c) ==
  /\ at[c] = "orphan"
  /\ \/ owner = {} /\ StopAll(c, <<>>, "spawn")
     \/ \E q \in owner : StopAll(c, <<q>>, "spawn")
  /\ UNCHANGED <<workspace, mode, seen, child, began>>

\* The record's daemon is gone, yet another one holds the lock.
StopHolderLeft(c) ==
  /\ at[c] = "holder left"
  /\ \/ owner \subseteq {seen[c]} /\ StopAll(c, <<>>, "forget")
     \/ \E q \in owner \ {seen[c]} : StopAll(c, <<q>>, "forget")
  /\ seen' = [seen EXCEPT ![c] = NoProc]
  /\ UNCHANGED <<workspace, mode, child, began>>

Spawn(c) ==
  /\ at[c] = "spawn"
  /\ \/ \E p \in Daemons :
          /\ Birth(p, "serve")
          /\ at' = [at EXCEPT ![p] = "check", ![c] = "handshake"]
          /\ child' = [child EXCEPT ![c] = p]
     \/ Goto(c, "error") /\ UNCHANGED <<mode, child>>
  /\ UNCHANGED <<workspace, seen, victims, then, began>>

\* The handshake arrives, the child exits without it, or the time is up.
Handshake(c) ==
  /\ at[c] = "handshake"
  /\ \/ child[c] \in printed /\ Goto(c, "done")
     \/ Goto(c, "error")
  /\ child' = [child EXCEPT ![c] = NoProc]
  /\ UNCHANGED <<workspace, mode, seen, victims, then, began>>

(***************************************************************************)
(* Specification                                                           *)
(***************************************************************************)
Stopping(a) == Term(a) \/ WaitForExit(a) \/ Kill(a) \/ Survives(a)

Daemon(p) ==
  Serve(p) \/ ReadRecord(p) \/ RefuseOrReplace(p) \/ ForgetReplaced(p)
    \/ AcquireLock(p) \/ StopHolder(p) \/ Open(p) \/ FailToStart(p)
    \/ WriteRecord(p) \/ PrintHandshake(p) \/ Shutdown(p) \/ RemoveRecord(p)
    \/ CloseEngine(p) \/ ReleaseLock(p) \/ Exit(p) \/ Stopping(p)

Command(c) ==
  ReadToStop(c) \/ ReadToReplace(c) \/ AskHolder(c) \/ Forget(c) \/ Find(c) \/ FindAlive(c)
    \/ FindRunning(c) \/ StopOrphan(c) \/ StopHolderLeft(c) \/ Spawn(c)
    \/ Handshake(c)
    \/ Stopping(c)

Next ==
  \/ \E p \in Daemons : Daemon(p)
  \/ \E c \in Clients : Begin(c) \/ Command(c)

Spec == Init /\ [][Next]_vars

(***************************************************************************)
(* Properties                                                              *)
(***************************************************************************)
DaemonPlaces ==
  {"unborn", "check", "probe", "term", "wait", "forget", "acquire", "holder",
   "reacquire", "release", "released", "exited"} \cup Engaged \cup Unheard
CommandPlaces ==
  {"idle", "read", "holder", "holder left", "term", "wait", "forget", "find",
   "find alive", "find running", "find stale", "orphan", "spawn", "handshake", "done", "error"}

\* The variables keep their types, and who stops daemons has one to stop
\* (daemonctl.go:116-120, 135-142).
TypeOK ==
  /\ owner \in SUBSET Daemons /\ json \in Pids /\ printed \in SUBSET Daemons
  /\ at \in [Actors -> DaemonPlaces \cup CommandPlaces]
  /\ \A p \in Daemons : at[p] \in DaemonPlaces
  /\ \A c \in Clients : at[c] \in CommandPlaces
  /\ mode \in [Actors -> {"none", "serve", "serve --restart",
                           "stop", "restart", "start"}]
  /\ seen \in [Actors -> Pids] /\ child \in [Actors -> Pids]
  /\ victims \in [Actors -> Seq(Daemons)]
  /\ \A a \in Actors : at[a] \in {"term", "wait"} => victims[a] # <<>>
  /\ then \in [Actors -> {"none", "forget", "reacquire", "spawn", "holder left"}]
  /\ began \in [Clients -> SUBSET Daemons]

\* Two daemons never have the engine of the workspace open at once
\* (serve.go:375-379).
OneEngine ==
  \A p, q \in Daemons : at[p] \in Engaged /\ at[q] \in Engaged => p = q

\* daemon.json leads to the daemon that owns the workspace, or to a dead one
\* (Find, daemon.go:222-257): of the processes that run, only the owner is named
\* there, save a daemon whose handshake nobody heard, which releases the lock and
\* leaves the record (serve.go:219-222) until its process has ended.  And from its
\* writing on the record is its daemon's or missing, so that what a daemon removes
\* when it shuts down is its own record (serve.go:248).
Recorded == {"written", "unheard", "serving", "shutdown"}
RecordNamesOwner ==
  /\ json # NoProc /\ Live(json) => json \in owner \/ at[json] = "released unheard"
  /\ \A p \in Daemons : at[p] \in Recorded => json \in {p, NoProc}

\* A stop that reports success, and a restart that goes on to spawn a daemon,
\* has rid the workspace of the daemon that owned it when the command began,
\* whether or not daemon.json named it (daemonctl.go:114-120, 225-233).
StopStops ==
  \A c \in Clients :
    \/ mode[c] = "stop" /\ at[c] = "done"
    \/ mode[c] = "restart" /\ at[c] \in {"spawn", "handshake", "done"}
    => began[c] \cap owner = {}
=============================================================================
