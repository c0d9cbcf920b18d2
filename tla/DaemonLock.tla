----------------------------- MODULE DaemonLock -----------------------------
(***************************************************************************)
(* The workspace lock file, .sapien/daemon.lock (internal/daemon/lock.go), *)
(* one action per system call: Acquire is create-exclusive, write, and on  *)
(* "already exists" read, probe, remove, retry; Release is read, remove.   *)
(*                                                                         *)
(* A process is one incarnation of a pid, so a dead one never comes back.  *)
(* The file at the lock path is `inode`, the process whose O_EXCL create   *)
(* made it, and `content`, the pid written in it.  A write goes to the     *)
(* file its process created, which by then may no longer be the one at     *)
(* the path.                                                               *)
(***************************************************************************)
EXTENDS Naturals

CONSTANTS
  Procs,    \* the processes that may claim the workspace
  Nobody,   \* no file at the path / a file nothing was written to
  Overlap   \* may two processes be inside Acquire at the same time?

ASSUME NobodyAssumption == Nobody \notin Procs
ASSUME OverlapAssumption == Overlap \in BOOLEAN

VARIABLES
  inode,    \* creator of the file at the lock path, Nobody when there is none
  content,  \* pid recorded in that file, Nobody while it is empty
  pc,       \* where each process is
  attempt,  \* Acquire's loop counter
  pidRead,  \* the pid Holder parsed from the file
  stubborn, \* may removing the file fail, on this system?
  misjudged \* history: was a live holder ever taken for none?

lockVars == <<inode, content, pc, attempt, pidRead, stubborn, misjudged>>

AcquireSteps == {"create", "write", "read", "probe", "remove"}
HoldSteps == {"held", "unlink"}

Acquiring(p) == pc[p] \in AcquireSteps
Holds(p) == pc[p] \in HoldSteps
Alive(p) == pc[p] # "dead"

LockInit ==
  /\ inode = Nobody
  /\ content = Nobody
  /\ pc = [p \in Procs |-> "idle"]
  /\ attempt = [p \in Procs |-> 0]
  /\ pidRead = [p \in Procs |-> Nobody]
  /\ stubborn \in BOOLEAN
  /\ misjudged = FALSE

MoveTo(p, step) == pc' = [pc EXCEPT ![p] = step]
FileGone == inode' = Nobody /\ content' = Nobody
\* os.Remove with its error ignored.
TryRemove == FileGone \/ (stubborn /\ UNCHANGED <<inode, content>>)

(***************************************************************************)
(* Acquire                                                                 *)
(***************************************************************************)
BeginAcquire(p) ==
  /\ pc[p] = "idle"
  /\ Overlap \/ \A q \in Procs : ~Acquiring(q)
  /\ MoveTo(p, "create")
  /\ attempt' = [attempt EXCEPT ![p] = 0]
  /\ UNCHANGED <<inode, content, pidRead>>

\* A bug to catch: opening without O_EXCL truncates whatever is there.
CreateWithoutExcl(p) ==
  /\ pc[p] = "create"
  /\ inode' = p /\ content' = Nobody
  /\ MoveTo(p, "write")
  /\ UNCHANGED <<attempt, pidRead>>

CreateExclusive(p) ==
  /\ pc[p] = "create"
  /\ inode = Nobody
  /\ inode' = p /\ content' = Nobody
  /\ MoveTo(p, "write")
  /\ UNCHANGED <<attempt, pidRead>>

\* The workspace directory cannot be written.
CreateFails(p) ==
  /\ pc[p] = "create"
  /\ MoveTo(p, "idle")
  /\ UNCHANGED <<inode, content, attempt, pidRead>>

CreateExists(p) ==
  /\ pc[p] = "create"
  /\ inode # Nobody
  /\ MoveTo(p, "read")
  /\ UNCHANGED <<inode, content, attempt, pidRead>>

WritePid(p) ==
  /\ pc[p] = "write"
  /\ content' = IF inode = p THEN p ELSE content
  /\ MoveTo(p, "held")
  /\ UNCHANGED <<inode, attempt, pidRead>>

\* The write or the close fails: whatever is at the path is removed.
WriteFails(p) ==
  /\ pc[p] = "write"
  /\ TryRemove
  /\ MoveTo(p, "idle")
  /\ UNCHANGED <<attempt, pidRead>>

Held == \E q \in Procs : Holds(q)

\* Holder, first half: an absent, empty or unparsable file names nobody, and
\* neither does one that cannot be read (no permission, no descriptors left).
ReadHolder(p) ==
  /\ pc[p] = "read"
  /\ \E readable \in BOOLEAN :
       LET named == IF readable THEN content ELSE Nobody IN
         /\ pidRead' = [pidRead EXCEPT ![p] = named]
         /\ MoveTo(p, IF named = Nobody THEN "remove" ELSE "probe")
         /\ misjudged' = (misjudged \/ (~readable /\ Held))
  /\ UNCHANGED <<inode, content, attempt>>

\* A bug to catch: the recorded pid is taken for stale without a probe.
ProbeSkipped(p) ==
  /\ pc[p] = "probe"
  /\ MoveTo(p, "remove")
  /\ UNCHANGED <<inode, content, attempt, pidRead, misjudged>>

\* Holder, second half: signal 0 to the recorded pid.  Any error counts as
\* dead, also "not permitted", which a live process of another user answers.
ProbeHolder(p) ==
  /\ pc[p] = "probe"
  /\ \E permitted \in BOOLEAN :
       /\ IF permitted /\ Alive(pidRead[p]) /\ pidRead[p] # p
            THEN MoveTo(p, "idle")  \* Conflict, naming pidRead[p]
            ELSE MoveTo(p, "remove")
       /\ misjudged' = (misjudged \/ (~permitted /\ Held))
  /\ UNCHANGED <<inode, content, attempt, pidRead>>

\* A bug to catch: the stale file is emptied, not removed, and the loop goes
\* on until its create succeeds.
TruncateStale(p) ==
  /\ pc[p] = "remove"
  /\ content' = Nobody
  /\ MoveTo(p, "create")
  /\ attempt' = [attempt EXCEPT ![p] = @ + 1]
  /\ UNCHANGED <<inode, pidRead>>

RemoveStale(p) ==
  /\ pc[p] = "remove"
  /\ TryRemove
  /\ MoveTo(p, IF attempt[p] = 0 THEN "create" ELSE "idle")
  /\ attempt' = [attempt EXCEPT ![p] = 1]
  /\ UNCHANGED pidRead

(***************************************************************************)
(* Release                                                                 *)
(***************************************************************************)
ReadOwn(p) ==
  /\ pc[p] = "held"
  /\ MoveTo(p, IF content = p THEN "unlink" ELSE "idle")
  /\ UNCHANGED <<inode, content, attempt, pidRead>>

Unlink(p) ==
  /\ pc[p] = "unlink"
  /\ FileGone
  /\ MoveTo(p, "idle")
  /\ UNCHANGED <<attempt, pidRead>>

\* The read or the remove fails: Release reports it, the file stays.
ReleaseFails(p) ==
  /\ Holds(p)
  /\ MoveTo(p, "idle")
  /\ UNCHANGED <<inode, content, attempt, pidRead>>

\* The process exits or is killed anywhere; what it left on disk stays.
Crash(p) ==
  /\ Alive(p)
  /\ MoveTo(p, "dead")
  /\ UNCHANGED <<inode, content, attempt, pidRead>>

Acquire(p) ==
  \/ BeginAcquire(p)
  \/ CreateExclusive(p) \/ CreateExists(p) \/ CreateFails(p)
  \/ WritePid(p) \/ WriteFails(p) \/ RemoveStale(p)

Holder(p) == ReadHolder(p) \/ ProbeHolder(p)

Release(p) == ReadOwn(p) \/ Unlink(p) \/ ReleaseFails(p)

LockNext ==
  /\ \E p \in Procs :
       \/ Holder(p)
       \/ (Acquire(p) \/ Release(p) \/ Crash(p)) /\ UNCHANGED misjudged
  /\ UNCHANGED stubborn

LockSpec == LockInit /\ [][LockNext]_lockVars

-----------------------------------------------------------------------------
(* Properties *)

LockTypeOK ==
  /\ inode \in Procs \cup {Nobody}
  /\ content \in Procs \cup {Nobody}
  /\ pc \in [Procs -> {"idle", "dead"} \cup AcquireSteps \cup HoldSteps]
  /\ attempt \in [Procs -> 0..1]
  /\ pidRead \in [Procs -> Procs \cup {Nobody}]
  /\ stubborn \in BOOLEAN
  /\ misjudged \in BOOLEAN

\* "The workspace lock is the daemon's exclusive claim on a workspace", refused
\* "when another live process holds the lock" (internal/daemon/lock.go:13, 33-35):
\* Acquire has succeeded in at most one live process that has not released since.
Exclusive ==
  \A p, q \in Procs : Holds(p) /\ Holds(q) => p = q

\* The lock is exclusive as long as Holder never took a live holder for none
\* because it could not read the file or probe the process (lock.go:92-101).
MutualExclusion == misjudged \/ Exclusive

\* "The lock file always names the live holder" (internal/daemon/lock.go:19),
\* so that serve and replacement find the process to refuse or to stop; again
\* unless a live holder was taken for none.
LockNamesHolder ==
  misjudged \/ \A p \in Procs : Holds(p) => inode = p /\ content = p

\* "a lock left by a dead process is taken over silently"
\* (internal/daemon/lock.go:35): the two attempts are enough, Acquire never
\* ends in "could not acquire the workspace lock" unless removing the file failed.
TakeoverNeverGivesUp ==
  ~stubborn => \A p \in Procs : pc[p] = "remove" => attempt[p] = 0

Claim == INSTANCE WorkspaceClaim
           WITH owner <- {p \in Procs : Holds(p)},
                alive <- {p \in Procs : Alive(p)}

\* The lock file implements the abstract claim (lock.go:13-20), step by step,
\* until Holder takes a live holder for none.
ClaimUntilMisjudged ==
  Claim!Init /\ [][Claim!Next \/ misjudged']_Claim!vars
=============================================================================
