----------------------------- MODULE SemanticSwap -----------------------------
(***************************************************************************)
(* The semantic index under a live change of its settings: the background  *)
(* worker and its bounded queue, the swap that replaces both               *)
(* (engine/local/semantic.go), the full reindex a change spawns and the    *)
(* settings requests that cause it (engine/local/settings_semantic.go),    *)
(* the vectors each writes (semantic/index.go), the writers that change a  *)
(* text and enqueue a job for it afterwards, and Close.                    *)
(*                                                                         *)
(* An item is a service, with everything embedded on its behalf, or a      *)
(* memory no watcher follows: a personal one, which has no file, or a      *)
(* service's.  Its text is a version number.  A configuration is a model   *)
(* value, Off when semantic search is disabled; two configurations may     *)
(* name the same model.                                                    *)
(***************************************************************************)
EXTENDS Naturals, Sequences, FiniteSets

CONSTANTS
    Services,
    Memories,    \* the memory that is followed, if any
    Writers,     \* syncs, the watcher and memory requests in progress at once
    Configs,     \* the enabled configurations
    Off,         \* the disabled one, and "no model"
    Model,       \* the model (with kinds and prefixes) a configuration names
    Requests,    \* the settings requests
    Reindexers,  \* goroutines spawnSemanticReindex starts, reused
    Closer,      \* the goroutine in Close
    Nobody,
    QueueSize,   \* semanticQueueSize (64 in the code)
    MaxChanges   \* bound: changes of an item's text

Worker == "worker"

ASSUME NamesAssumption ==
    /\ \A m, n \in Memories : m = n
    /\ Services \cap Memories = {}
    /\ Off \notin Configs
    /\ Off \notin {Model[c] : c \in Configs}
    /\ Nobody \notin Requests \cup Reindexers \cup {Closer}
    /\ Closer \notin Requests
    /\ Worker \notin Reindexers
ASSUME SizesAssumption ==
    /\ QueueSize \in Nat \ {0}
    /\ MaxChanges \in Nat

Items == Services \cup Memories
Indexers == Reindexers \cup {Worker}
Swappers == Requests \cup {Closer}
NoRow == [model |-> Off, text |-> 0]

\* A job names what is to be read when its turn comes; that of a memory just
\* written carries its text.
Naming(s) == [of |-> s, by |-> "name", text |-> 0]
NoJob == Naming(Nobody)

VARIABLES
    file,      \* the semantic section of the merged configuration on disk
    applied,   \* semAppliedCfg and semIdx, which change together
    queue,     \* semQueue; <<>> when it is nil
    worker,    \* the worker goroutine: "none", "running" or "cancelled"
    swapMu,    \* the holder of semSwapMu
    semMu,     \* the writer that holds semMu
    reindexMu, \* the holder of semReindexMu
    req,       \* per swapper: how far its request, or Close, has come
    before,    \* per request: the configuration it saw applied
    after,     \* per request: the configuration it loaded
    ix,        \* per indexer: where it is
    job,       \* per indexer: the job it is at
    got,       \* per indexer: the row it is embedding
    left,      \* per indexer: items still to index
    wr,        \* per writer: "idle", or how far its enqueueing has come
    wjob,      \* per writer: the job it enqueues
    vec,       \* the stored vectors
    text,      \* what the catalog holds
    catching,  \* items the catch-up of Open has still to enqueue
    db,        \* "open" or "closed"
    changes,
    lost,      \* history: items that wait for a job that was dropped or failed
    overtaken, \* history: items an older reading of which was written last
    skipped,   \* history: a reindex was not asked for that the swap needed
    late       \* history: a request spawned work after Close had drained it

cfgVars   == <<file, applied, before, after>>
lockVars  == <<swapMu, semMu, reindexMu>>
ixVars    == <<ix, job, got, left>>
wrVars    == <<wr, wjob>>
vars == <<cfgVars, lockVars, ixVars, wrVars, changes, queue, worker, req, vec, text,
          catching, db, lost, overtaken, skipped, late>>

Jobs == [of : Items, by : {"name", "text"}, text : 0 .. MaxChanges]
Rows == [model : {Off} \cup {Model[c] : c \in Configs}, text : 0 .. MaxChanges]

TypeOK ==
    /\ {file, applied} \subseteq Configs \cup {Off}
    /\ queue \in Seq(Jobs) /\ Len(queue) <= QueueSize
    /\ worker \in {"none", "running", "cancelled"}
    /\ swapMu \in Swappers \cup {Nobody} /\ semMu \in Swappers \cup {Nobody}
    /\ reindexMu \in Reindexers \cup {Nobody}
    /\ req \in [Swappers -> {"idle", "load", "lock", "drain", "install", "spawn", "wait", "done"}]
    /\ before \in [Requests -> Configs \cup {Off}] /\ after \in [Requests -> Configs \cup {Off}]
    /\ ix \in [Indexers -> {"idle", "lock", "clear", "next", "read", "embed"}]
    /\ job \in [Indexers -> Jobs \cup {NoJob}]
    /\ got \in [Indexers -> Rows] /\ left \in [Indexers -> SUBSET Items]
    /\ wr \in [Writers -> {"idle", "capture", "send"}]
    /\ wjob \in [Writers -> Jobs \cup {NoJob}]
    /\ vec \in [Items -> Rows] /\ text \in [Items -> 0 .. MaxChanges]
    /\ catching \subseteq Items /\ db \in {"open", "closed"}
    /\ changes \in 0 .. MaxChanges
    /\ lost \subseteq Items /\ overtaken \subseteq Items /\ {skipped, late} \subseteq BOOLEAN

ModelOf(c) == IF c = Off THEN Off ELSE Model[c]

\* The row that s should have.
Current(s) == [model |-> ModelOf(applied), text |-> text[s]]

\* Open has installed what the file says and is about to enqueue everything.
Init ==
    /\ file \in Configs \cup {Off}
    /\ applied = file
    /\ worker = (IF file = Off THEN "none" ELSE "running")
    /\ queue = <<>>
    /\ catching = (IF file = Off THEN {} ELSE Items)
    /\ swapMu = Nobody /\ semMu = Nobody /\ reindexMu = Nobody
    /\ req = [p \in Swappers |-> "idle"]
    /\ before = [p \in Requests |-> Off] /\ after = [p \in Requests |-> Off]
    /\ ix = [p \in Indexers |-> "idle"] /\ job = [p \in Indexers |-> NoJob]
    /\ got = [p \in Indexers |-> NoRow] /\ left = [p \in Indexers |-> {}]
    /\ wr = [w \in Writers |-> "idle"] /\ wjob = [w \in Writers |-> NoJob]
    /\ vec = [s \in Items |-> NoRow] /\ text = [s \in Items |-> 0]
    /\ db = "open"
    /\ changes = 0
    /\ lost = {} /\ overtaken = {} /\ skipped = FALSE /\ late = FALSE

-----------------------------------------------------------------------------
(* The queue *)

\* What becomes of the items of jobs that nobody will do, and of one brought up
\* to date.
Lose(S) ==
    /\ lost' = lost \cup {s \in S : vec[s] # Current(s)}
    /\ UNCHANGED overtaken
Redone(s) == lost' = lost \ {s} /\ overtaken' = overtaken \ {s}

\* A full queue drops the job.
Enqueue(j) ==
    IF Len(queue) = QueueSize
    THEN Lose({j.of}) /\ UNCHANGED queue
    ELSE queue' = Append(queue, j) /\ UNCHANGED <<lost, overtaken>>

\* Open does this before it returns: services first, then all the memories.
enqueueSemanticCatchUp(s) ==
    /\ s \in catching /\ (s \in Memories => catching \subseteq Memories)
    /\ semMu = Nobody
    /\ catching' = catching \ {s}
    /\ Enqueue(Naming(s))
    /\ UNCHANGED <<cfgVars, lockVars, ixVars, wrVars, changes, worker, req, vec, text, db,
                   skipped, late>>

-----------------------------------------------------------------------------
(* Writers *)

\* Mutant: the memory as it was before the update.
JobOfOld(s, by) ==
    IF by = "name" THEN Naming(s) ELSE [of |-> s, by |-> by, text |-> text[s]]
JobOf(s, by) ==
    IF by = "name" THEN Naming(s) ELSE [of |-> s, by |-> by, text |-> changes + 1]

\* A sync, an example, a memory or the watcher changes what is to be embedded.
\* The requests that write a memory begin when Open has returned.
Change(w, s, by) ==
    /\ wr[w] = "idle" /\ db = "open"
    /\ by = "text" => s \in Memories /\ catching = {}
    /\ changes < MaxChanges /\ changes' = changes + 1
    /\ text' = [text EXCEPT ![s] = changes + 1]
    /\ wr' = [wr EXCEPT ![w] = "capture"]
    /\ wjob' = [wjob EXCEPT ![w] = JobOf(s, by)]
    /\ UNCHANGED <<cfgVars, lockVars, ixVars, queue, worker, req, vec, catching, db,
                   lost, overtaken, skipped, late>>

\* semanticQueue: the queue there is now, if any.
CaptureQueue(w) ==
    /\ wr[w] = "capture" /\ semMu = Nobody
    /\ IF applied = Off
       THEN wr' = [wr EXCEPT ![w] = "idle"] /\ wjob' = [wjob EXCEPT ![w] = NoJob]
       ELSE wr' = [wr EXCEPT ![w] = "send"] /\ UNCHANGED wjob
    /\ UNCHANGED <<cfgVars, lockVars, ixVars, changes, queue, worker, req, vec, text,
                   catching, db, lost, overtaken, skipped, late>>

\* The job goes to the queue that was captured.
SendJob(w) ==
    /\ wr[w] = "send"
    /\ Enqueue(wjob[w])
    /\ wr' = [wr EXCEPT ![w] = "idle"] /\ wjob' = [wjob EXCEPT ![w] = NoJob]
    /\ UNCHANGED <<cfgVars, lockVars, ixVars, changes, worker, req, vec, text,
                   catching, db, skipped, late>>

-----------------------------------------------------------------------------
(* Indexing, by the worker and by reindexes *)

\* The worker takes a job; a cancelled one may still take one more.
TakeJob ==
    /\ worker # "none" /\ ix[Worker] = "idle"
    /\ queue # <<>>
    /\ queue' = Tail(queue)
    /\ job' = [job EXCEPT ![Worker] = Head(queue)]
    /\ ix' = [ix EXCEPT ![Worker] = "read"]
    /\ UNCHANGED <<cfgVars, lockVars, wrVars, changes, got, left, worker, req, vec, text,
                   catching, db, lost, overtaken, skipped, late>>

semanticWorkerExit ==
    /\ worker = "cancelled" /\ ix[Worker] = "idle"
    /\ worker' = "none"
    /\ UNCHANGED <<cfgVars, lockVars, ixVars, wrVars, changes, queue, req, vec, text,
                   catching, db, lost, overtaken, skipped, late>>

\* SemanticReindex: one at a time; with semantic search off it does nothing.
LockReindex(r) ==
    /\ ix[r] = "lock"
    /\ reindexMu = Nobody /\ semMu = Nobody
    /\ IF applied = Off
       THEN ix' = [ix EXCEPT ![r] = "idle"] /\ UNCHANGED <<reindexMu, skipped>>
       ELSE ix' = [ix EXCEPT ![r] = "clear"] /\ reindexMu' = r /\ skipped' = FALSE
    /\ UNCHANGED <<cfgVars, swapMu, semMu, wrVars, changes, job, got, left, queue, worker,
                   req, vec, text, catching, db, lost, overtaken, late>>

\* A deletion, or the list of services after them, may fail: the reindex ends.
\* The rows of services go first, those of memories last.
Clear(r) ==
    /\ ix[r] = "clear"
    /\ \/ /\ vec' = [s \in Items |-> NoRow]
          /\ left' = [left EXCEPT ![r] = Items]
          /\ ix' = [ix EXCEPT ![r] = "next"]
          /\ UNCHANGED <<reindexMu, lost>>
       \/ /\ \E gone \in {{}, Services, Items} :
               vec' = [s \in Items |-> IF s \in gone THEN NoRow ELSE vec[s]]
          /\ ix' = [ix EXCEPT ![r] = "idle"] /\ reindexMu' = Nobody
          /\ lost' = lost \cup {s \in Items : vec'[s] # Current(s)}
          /\ UNCHANGED left
    /\ UNCHANGED <<cfgVars, swapMu, semMu, wrVars, changes, job, got, queue, worker, req,
                   text, catching, db, overtaken, skipped, late>>

\* The services, and then all the memories.
NextService(r) ==
    /\ ix[r] = "next"
    /\ IF left[r] = {}
       THEN /\ ix' = [ix EXCEPT ![r] = "idle"]
            /\ reindexMu' = Nobody
            /\ UNCHANGED <<job, left>>
       ELSE /\ \E s \in left[r] :
                 /\ s \in Memories => left[r] \subseteq Memories
                 /\ job' = [job EXCEPT ![r] = Naming(s)]
                 /\ left' = [left EXCEPT ![r] = @ \ {s}]
            /\ ix' = [ix EXCEPT ![r] = "read"]
            /\ UNCHANGED reindexMu
    /\ UNCHANGED <<cfgVars, swapMu, semMu, wrVars, changes, got, queue, worker, req, vec,
                   text, catching, db, lost, overtaken, skipped, late>>

\* p is through with its job.
Through(p) ==
    /\ ix' = [ix EXCEPT ![p] = IF p = Worker THEN "idle" ELSE "next"]
    /\ job' = [job EXCEPT ![p] = NoJob]
    /\ got' = [got EXCEPT ![p] = NoRow]

\* What is embedded for a job.
TextFor(j) == IF j.by = "name" THEN text[j.of] ELSE j.text

\* indexServiceSemantics and indexMemoriesSemantics take the index that is installed
\* now, read the texts that the job only names, and leave out what is stored already
\* under the same model and hash.
ReadTexts(p) ==
    /\ ix[p] = "read" /\ semMu = Nobody
    /\ ~(p = Worker /\ worker = "cancelled")
    /\ LET s == job[p].of
           row == [model |-> ModelOf(applied), text |-> TextFor(job[p])] IN
       IF applied = Off \/ vec[s] = row
       THEN /\ Through(p)
            /\ IF row = Current(s) THEN Redone(s) ELSE UNCHANGED <<lost, overtaken>>
       ELSE /\ got' = [got EXCEPT ![p] = row]
            /\ ix' = [ix EXCEPT ![p] = "embed"]
            /\ UNCHANGED <<job, lost, overtaken>>
    /\ UNCHANGED <<cfgVars, lockVars, wrVars, changes, left, queue, worker, req, vec, text,
                   catching, db, skipped, late>>

\* The embedder has answered: upsert, whatever the row holds by now.
Upsert(p) ==
    /\ ix[p] = "embed" /\ semMu = Nobody
    /\ ~(p = Worker /\ worker = "cancelled")
    /\ LET s == job[p].of
           newer == vec[s].model = got[p].model /\ vec[s].text > got[p].text IN
       /\ vec' = [vec EXCEPT ![s] = got[p]]
       /\ IF newer THEN overtaken' = overtaken \cup {s} /\ UNCHANGED lost
          ELSE IF got[p] = Current(s) THEN Redone(s) ELSE UNCHANGED <<lost, overtaken>>
    /\ Through(p)
    /\ UNCHANGED <<cfgVars, lockVars, wrVars, changes, left, queue, worker, req, text,
                   catching, db, skipped, late>>

\* Reading or embedding fails: the database or the provider does, or the worker's
\* context is cancelled.
EmbedFails(p) ==
    /\ semMu = Nobody
    /\ ix[p] = "embed" \/ (ix[p] = "read" /\ applied # Off)
    /\ Lose({job[p].of})
    /\ Through(p)
    /\ UNCHANGED <<cfgVars, lockVars, wrVars, changes, left, queue, worker, req, vec,
                   text, catching, db, skipped, late>>

-----------------------------------------------------------------------------
(* Settings requests: PutSemantic, and ReloadSemantic in another workspace *)

\* The file is written; ReloadSemantic, in another workspace, finds it written.
PutSemantic(p, c) ==
    /\ req[p] = "idle" /\ catching = {}
    /\ file' = c
    /\ req' = [req EXCEPT ![p] = "load"]
    /\ UNCHANGED <<applied, before, after, lockVars, ixVars, wrVars, changes, queue,
                   worker, vec, text, catching, db, lost, overtaken, skipped, late>>

LoadConfig(p) ==
    /\ req[p] = "load" /\ semMu = Nobody
    /\ before' = [before EXCEPT ![p] = applied]
    /\ after' = [after EXCEPT ![p] = file]
    /\ req' = [req EXCEPT ![p] = "lock"]
    /\ UNCHANGED <<file, applied, lockVars, ixVars, wrVars, changes, queue, worker, vec, text,
                   catching, db, lost, overtaken, skipped, late>>

\* Whether a change of the applied configuration asks for a reindex: turning it
\* on does, another model does, another batch size does not.
semanticLiveChangeNeeded(old, new) ==
    /\ new # Off
    /\ old = Off \/ Model[old] # Model[new]

\* Mutant: the write lock is taken before the wait.
LockAll(p) ==
    /\ req[p] = "lock" /\ swapMu = Nobody /\ semMu = Nobody
    /\ swapMu' = p /\ semMu' = p
    /\ worker' = IF worker = "running" THEN "cancelled" ELSE worker
    /\ req' = [req EXCEPT ![p] = "drain"]
    /\ UNCHANGED <<cfgVars, reindexMu, ixVars, wrVars, changes, queue, vec, text,
                   catching, db, lost, overtaken, skipped, late>>

\* drainSemantic, by a swap or by Close: cancel the worker and wait for it,
\* with semMu free, for the job at hand reads under it.
LockSwap(p) ==
    /\ req[p] = "lock" /\ swapMu = Nobody
    /\ swapMu' = p
    /\ worker' = IF worker = "running" THEN "cancelled" ELSE worker
    /\ req' = [req EXCEPT ![p] = "drain"]
    /\ UNCHANGED <<cfgVars, semMu, reindexMu, ixVars, wrVars, changes, queue, vec, text,
                   catching, db, lost, overtaken, skipped, late>>

LockSemMu(p) ==
    /\ req[p] = "drain" /\ worker = "none"
    /\ semMu \in {Nobody, p}
    /\ semMu' = p
    /\ req' = [req EXCEPT ![p] = "install"]
    /\ UNCHANGED <<cfgVars, swapMu, reindexMu, ixVars, wrVars, changes, queue, worker, vec,
                   text, catching, db, lost, overtaken, skipped, late>>

SentTo == {w \in Writers : wr[w] = "send"}
Drained == req[Closer] \in {"wait", "done"}

\* The jobs of the queue that is replaced are lost, those still to be sent to it
\* too: nobody reads it any more.  A request that compares with a configuration
\* replaced meanwhile may leave out the reindex it needs.
applyEmbedder(p) ==
    /\ req[p] = "install" /\ p # Closer
    /\ applied' = after[p]
    /\ queue' = <<>>
    /\ worker' = IF after[p] = Off THEN "none" ELSE "running"
    /\ swapMu' = Nobody /\ semMu' = Nobody
    /\ req' = [req EXCEPT ![p] = "spawn"]
    /\ Lose({queue[i].of : i \in DOMAIN queue} \cup {wjob[w].of : w \in SentTo})
    /\ wr' = [w \in Writers |-> IF w \in SentTo THEN "idle" ELSE wr[w]]
    /\ wjob' = [w \in Writers |-> IF w \in SentTo THEN NoJob ELSE wjob[w]]
    /\ skipped' = (skipped \/ (/\ semanticLiveChangeNeeded(applied, after[p])
                              /\ ~semanticLiveChangeNeeded(before[p], after[p])))
    /\ late' = (late \/ (Drained /\ after[p] # Off))
    /\ UNCHANGED <<file, before, after, reindexMu, ixVars, changes, vec, text,
                   catching, db>>

spawnSemanticReindex(p) ==
    /\ req[p] = "spawn"
    /\ req' = [req EXCEPT ![p] = "done"]
    /\ before' = [before EXCEPT ![p] = Off] /\ after' = [after EXCEPT ![p] = Off]
    /\ IF semanticLiveChangeNeeded(before[p], after[p])
       THEN /\ \E r \in Reindexers : ix[r] = "idle"
            /\ ix' = [ix EXCEPT ![CHOOSE r \in Reindexers : ix[r] = "idle"] = "lock"]
            /\ late' = (late \/ Drained)
       ELSE UNCHANGED <<ix, late>>
    /\ UNCHANGED <<file, applied, lockVars, wrVars, job, got, left, changes, queue, worker, vec, text,
                   catching, db, lost, overtaken, skipped>>

-----------------------------------------------------------------------------
(* Close *)

Close ==
    /\ req[Closer] = "idle" /\ catching = {}
    /\ req' = [req EXCEPT ![Closer] = "lock"]
    /\ UNCHANGED <<cfgVars, lockVars, ixVars, wrVars, changes, queue, worker, vec, text,
                   catching, db, lost, overtaken, skipped, late>>

\* stopSemantic forgets the worker it has drained; the index stays.
stopSemantic ==
    /\ req[Closer] = "install"
    /\ swapMu' = Nobody /\ semMu' = Nobody
    /\ req' = [req EXCEPT ![Closer] = "wait"]
    /\ UNCHANGED <<cfgVars, reindexMu, ixVars, wrVars, changes, queue, worker, vec, text,
                   catching, db, lost, overtaken, skipped, late>>

\* Mutant: nobody waits for the reindexes.
CloseDBAtOnce ==
    /\ req[Closer] = "wait"
    /\ db' = "closed"
    /\ req' = [req EXCEPT ![Closer] = "done"]
    /\ UNCHANGED <<cfgVars, lockVars, ixVars, wrVars, changes, queue, worker, vec, text,
                   catching, lost, overtaken, skipped, late>>

\* semWG.Wait, then the database is closed.
CloseDB ==
    /\ req[Closer] = "wait"
    /\ \A r \in Reindexers : ix[r] = "idle"
    /\ db' = "closed"
    /\ req' = [req EXCEPT ![Closer] = "done"]
    /\ UNCHANGED <<cfgVars, lockVars, ixVars, wrVars, changes, queue, worker, vec, text,
                   catching, lost, overtaken, skipped, late>>

-----------------------------------------------------------------------------
WriterStep(w) ==
    \/ \E s \in Items, by \in {"name", "text"} : Change(w, s, by)
    \/ CaptureQueue(w) \/ SendJob(w)
WorkerStep == TakeJob \/ semanticWorkerExit \/ ReadTexts(Worker) \/ Upsert(Worker)
                      \/ EmbedFails(Worker)
Reindex(r) == LockReindex(r) \/ Clear(r) \/ NextService(r) \/ ReadTexts(r) \/ Upsert(r)
                             \/ EmbedFails(r)
RequestStep(p) == LoadConfig(p) \/ LockSwap(p) \/ LockSemMu(p) \/ applyEmbedder(p)
                                \/ spawnSemanticReindex(p)
CloseStep == LockSwap(Closer) \/ LockSemMu(Closer) \/ stopSemantic \/ CloseDB

Next ==
    \/ \E s \in Items : enqueueSemanticCatchUp(s)
    \/ \E w \in Writers : WriterStep(w)
    \/ WorkerStep
    \/ \E r \in Reindexers : Reindex(r)
    \/ \E p \in Requests : \/ \E c \in Configs \cup {Off} : PutSemantic(p, c)
                          \/ RequestStep(p)
    \/ Close \/ CloseStep

Spec == Init /\ [][Next]_vars

\* Goroutines are scheduled, and an embedding call ends: its client has a
\* timeout (semantic/embedder.go:56).
FairSpec ==
    /\ Spec
    /\ WF_vars(WorkerStep)
    /\ \A r \in Reindexers : WF_vars(Reindex(r))
    /\ \A p \in Requests : WF_vars(RequestStep(p))
    /\ WF_vars(CloseStep)

-----------------------------------------------------------------------------
(* Properties *)

Settled ==
    /\ queue = <<>> /\ catching = {}
    /\ \A w \in Writers : wr[w] = "idle"
    /\ \A p \in Indexers : ix[p] = "idle"
    /\ \A p \in Requests : req[p] \in {"idle", "done"}
    /\ req[Closer] = "idle"

\* Once everything has come to rest the vectors are those of the current texts
\* under the applied model, through every swap: only what a full or replaced
\* queue, a failed call or reindex, an older reading written last or a change
\* compared with a replaced configuration has lost may be behind
\* (semantic.go:32-35, local.go:129-133).
VectorsAreCurrent ==
    Settled /\ applied # Off /\ ~skipped =>
        \A s \in Items \ (lost \cup overtaken) : vec[s] = Current(s)

\* The database is not closed while somebody is at work on it, but for work
\* that a settings request began after Close had waited (semantic.go:174-178).
CloseIsClean ==
    db = "closed" => late \/ (worker = "none" /\ \A p \in Indexers : ix[p] = "idle")

\* Settings requests and Close return: a swap, the worker it drains and the job
\* the worker is at never wait for each other (semantic.go:152-160: holding semMu
\* "would block that read and deadlock").
EverybodyReturns ==
    (\E p \in Swappers : req[p] \notin {"idle", "done"}) ~>
        (\A p \in Swappers : req[p] \in {"idle", "done"})
=============================================================================
