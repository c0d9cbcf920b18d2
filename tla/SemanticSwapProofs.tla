------------------------- MODULE SemanticSwapProofs -------------------------
(* Proofs about SemanticSwap, for every set of services, configurations,    *)
(* settings requests and reindexes, and every size of the queue.            *)
EXTENDS SemanticSwap, SequenceTheorems, TLAPS

-----------------------------------------------------------------------------
(* Types                                                                   *)

\* An indexer that reads or embeds has a job, a writer that enqueues one too.
HasWork ==
    /\ \A p \in Indexers : ix[p] \in {"read", "embed"} => job[p] \in Jobs
    /\ \A w \in Writers : wr[w] # "idle" => wjob[w] \in Jobs

Typed == TypeOK /\ HasWork

LEMMA NamingType == \A s \in Items : Naming(s) \in Jobs
  BY SizesAssumption DEF Naming, Jobs

LEMMA TypedInit == Init => Typed
<1> SUFFICES ASSUME Init PROVE Typed
  OBVIOUS
<1>1. NoRow \in Rows
  BY SizesAssumption DEF NoRow, Rows
<1>2. /\ req \in [Swappers -> {"idle", "load", "lock", "drain", "install", "spawn", "wait", "done"}]
      /\ before \in [Requests -> Configs \cup {Off}] /\ after \in [Requests -> Configs \cup {Off}]
  BY DEF Init
<1>3. /\ ix \in [Indexers -> {"idle", "lock", "clear", "next", "read", "embed"}]
      /\ job \in [Indexers -> Jobs \cup {NoJob}]
  BY DEF Init
<1>4. /\ got \in [Indexers -> Rows] /\ vec \in [Items -> Rows]
  BY <1>1 DEF Init
<1>5. /\ left \in [Indexers -> SUBSET Items] /\ text \in [Items -> 0 .. MaxChanges]
      /\ wr \in [Writers -> {"idle", "capture", "send"}] /\ wjob \in [Writers -> Jobs \cup {NoJob}]
  BY SizesAssumption DEF Init
<1>6. queue \in Seq(Jobs) /\ Len(queue) <= QueueSize
  BY SizesAssumption DEF Init
<1>7. changes \in 0 .. MaxChanges
  BY SizesAssumption DEF Init
<1>8. /\ {file, applied} \subseteq Configs \cup {Off}
      /\ worker \in {"none", "running", "cancelled"}
      /\ swapMu = Nobody /\ semMu = Nobody /\ reindexMu = Nobody
      /\ catching \subseteq Items /\ db = "open"
      /\ lost = {} /\ overtaken = {} /\ skipped = FALSE /\ late = FALSE
  BY DEF Init
<1>9. HasWork
  BY DEF Init, HasWork
<1> QED
  BY <1>2, <1>3, <1>4, <1>5, <1>6, <1>7, <1>8, <1>9 DEF Typed, TypeOK

\* A row that an indexer reads for a job is one that may be stored.
LEMMA ReadRow ==
  ASSUME TypeOK, applied # Off, NEW j \in Jobs
  PROVE  /\ [model |-> ModelOf(applied), text |-> TextFor(j)] \in Rows
         /\ TextFor(j) \in 0 .. MaxChanges
  BY DEF TypeOK, ModelOf, Rows, Jobs, TextFor

LEMMA Enqueued ==
  ASSUME TypeOK, NEW j \in Jobs, Enqueue(j)
  PROVE  /\ queue' \in Seq(Jobs) /\ Len(queue') <= QueueSize
         /\ lost' \subseteq Items /\ overtaken' \subseteq Items
<1> USE DEF TypeOK, Enqueue, Lose
<1>1. CASE Len(queue) = QueueSize
  <2>1. j.of \in Items
    BY DEF Jobs
  <2> QED
    BY <1>1, <2>1
<1>2. CASE Len(queue) # QueueSize
  <2>1. queue' = Append(queue, j) /\ UNCHANGED <<lost, overtaken>>
    BY <1>2
  <2>2. queue' \in Seq(Jobs) /\ Len(queue') = Len(queue) + 1 /\ Len(queue) \in Nat
    BY <2>1
  <2> QED
    BY <1>2, <2>1, <2>2, SizesAssumption
<1> QED
  BY <1>1, <1>2

\* Every step keeps every variable in its type; what is written to a row is what
\* the indexer has read of the service it has.
LEMMA TypedInductive ==
  ASSUME Typed, [Next]_vars
  PROVE  Typed'
<1> USE DEF TypeOK, Typed, HasWork, cfgVars, lockVars, ixVars, wrVars
<1>a. /\ Worker \in Indexers /\ Reindexers \subseteq Indexers
      /\ Requests \subseteq Swappers /\ Closer \in Swappers
  BY DEF Indexers, Swappers
<1>b. NoRow \in Rows
  BY SizesAssumption DEF NoRow, Rows
<1>1. ASSUME NEW s \in Items, enqueueSemanticCatchUp(s) PROVE Typed'
  <2>1. Naming(s) \in Jobs /\ Enqueue(Naming(s))
    BY <1>1, NamingType DEF enqueueSemanticCatchUp
  <2> QED
    BY <1>1, <2>1, Enqueued DEF enqueueSemanticCatchUp
<1>2. ASSUME NEW w \in Writers, NEW s \in Items, NEW by \in {"name", "text"}, Change(w, s, by)
      PROVE  Typed'
  <2>1. changes' \in 0 .. MaxChanges /\ text' \in [Items -> 0 .. MaxChanges]
    BY <1>2, SizesAssumption DEF Change
  <2>2. JobOf(s, by) \in Jobs
    BY <1>2, <2>1, NamingType DEF JobOf, Jobs, Change
  <2>3. wjob' \in [Writers -> Jobs \cup {NoJob}] /\ wr' \in [Writers -> {"idle", "capture", "send"}]
    BY <1>2, <2>2 DEF Change
  <2> QED
    BY <1>2, <2>1, <2>2, <2>3 DEF Change
<1>21. ASSUME NEW w \in Writers, CaptureQueue(w) PROVE Typed'
  BY <1>21 DEF CaptureQueue
<1>22. ASSUME NEW w \in Writers, SendJob(w) PROVE Typed'
  <2>1. wjob[w] \in Jobs /\ Enqueue(wjob[w])
    BY <1>22 DEF SendJob
  <2>2. /\ queue' \in Seq(Jobs) /\ Len(queue') <= QueueSize
        /\ lost' \subseteq Items /\ overtaken' \subseteq Items
    BY <2>1, Enqueued
  <2> QED
    BY <1>22, <2>2 DEF SendJob
<1>3. ASSUME TakeJob PROVE Typed'
  <2>1. /\ queue' \in Seq(Jobs) /\ Len(queue') <= Len(queue) /\ Head(queue) \in Jobs
        /\ Len(queue') \in Nat /\ Len(queue) \in Nat
    BY <1>3 DEF TakeJob
  <2>2. Len(queue') <= QueueSize
    BY <2>1, SizesAssumption
  <2> QED
    BY <1>3, <1>a, <2>1, <2>2 DEF TakeJob
<1>4. ASSUME semanticWorkerExit PROVE Typed'
  BY <1>4 DEF semanticWorkerExit
<1>5. ASSUME NEW r \in Reindexers, LockReindex(r) PROVE Typed'
  BY <1>5, <1>a DEF LockReindex
<1>6. ASSUME NEW r \in Reindexers, Clear(r) PROVE Typed'
  <2>1. /\ ix' \in [Indexers -> {"idle", "lock", "clear", "next", "read", "embed"}]
        /\ left' \in [Indexers -> SUBSET Items]
        /\ reindexMu' \in Reindexers \cup {Nobody}
        /\ \A p \in Indexers : ix'[p] \in {"read", "embed"} => ix[p] \in {"read", "embed"}
    BY <1>6, <1>a DEF Clear
  <2>2. vec' \in [Items -> Rows]
    <3>1. CASE vec' = [s \in Items |-> NoRow]
      BY <1>b, <3>1
    <3>2. CASE \E gone \in {{}, Services, Items} :
                 vec' = [s \in Items |-> IF s \in gone THEN NoRow ELSE vec[s]]
      BY <1>b, <3>2
    <3> QED
      BY <1>6, <3>1, <3>2 DEF Clear
  <2>3. lost' \subseteq Items
    BY <1>6 DEF Clear
  <2> QED
    BY <1>6, <2>1, <2>2, <2>3 DEF Clear
<1>7. ASSUME NEW r \in Reindexers, NextService(r) PROVE Typed'
  <2>1. CASE left[r] = {}
    BY <1>7, <1>a, <2>1 DEF NextService
  <2>2. CASE left[r] # {}
    <3>1. PICK s \in left[r] : /\ job' = [job EXCEPT ![r] = Naming(s)]
                               /\ left' = [left EXCEPT ![r] = @ \ {s}]
      BY <1>7, <2>2 DEF NextService
    <3>2. s \in Items /\ Naming(s) \in Jobs
      BY <1>a, <3>1, NamingType
    <3>3. ix' = [ix EXCEPT ![r] = "read"]
      BY <1>7, <2>2 DEF NextService
    <3>4. left' \in [Indexers -> SUBSET Items] /\ job' \in [Indexers -> Jobs \cup {NoJob}]
      BY <1>a, <3>1, <3>2
    <3>5. \A p \in Indexers : ix'[p] \in {"read", "embed"} => job'[p] \in Jobs
      BY <1>a, <3>1, <3>2, <3>3
    <3> QED
      BY <1>7, <1>a, <2>2, <3>3, <3>4, <3>5 DEF NextService
  <2> QED
    BY <2>1, <2>2
<1>8. ASSUME NEW p \in Indexers, ReadTexts(p) PROVE Typed'
  <2> DEFINE row == [model |-> ModelOf(applied), text |-> TextFor(job[p])]
  <2>1. job[p] \in Jobs
    BY <1>8 DEF ReadTexts
  <2>2. CASE applied = Off \/ vec[job[p].of] = row
    <3>1. Through(p) /\ lost' \subseteq Items /\ overtaken' \subseteq Items
      BY <1>8, <2>2 DEF ReadTexts, Redone
    <3>2. /\ job' \in [Indexers -> Jobs \cup {NoJob}] /\ got' \in [Indexers -> Rows]
          /\ ix' \in [Indexers -> {"idle", "lock", "clear", "next", "read", "embed"}]
          /\ \A q \in Indexers : ix'[q] \in {"read", "embed"} =>
                                     ix[q] \in {"read", "embed"} /\ job'[q] = job[q]
      BY <1>b, <3>1 DEF Through
    <3> QED
      BY <1>8, <3>1, <3>2 DEF ReadTexts
  <2>3. CASE ~(applied = Off \/ vec[job[p].of] = row)
    <3>1. got' = [got EXCEPT ![p] = row] /\ ix' = [ix EXCEPT ![p] = "embed"]
          /\ UNCHANGED <<job, lost, overtaken>>
      BY <1>8, <2>3 DEF ReadTexts
    <3>2. got' \in [Indexers -> Rows]
      BY <2>1, <2>3, <3>1, ReadRow
    <3> QED
      BY <1>8, <2>1, <3>1, <3>2 DEF ReadTexts
  <2> QED
    BY <2>2, <2>3
<1>9. ASSUME NEW p \in Indexers, Upsert(p) PROVE Typed'
  <2>1. job[p] \in Jobs /\ job[p].of \in Items
    BY <1>9 DEF Upsert, Jobs
  <2>2. lost' \subseteq Items /\ overtaken' \subseteq Items /\ vec' \in [Items -> Rows]
    BY <1>9, <2>1 DEF Upsert, Redone
  <2>3. /\ job' \in [Indexers -> Jobs \cup {NoJob}] /\ got' \in [Indexers -> Rows]
        /\ ix' \in [Indexers -> {"idle", "lock", "clear", "next", "read", "embed"}]
        /\ \A q \in Indexers : ix'[q] \in {"read", "embed"} =>
                                   ix[q] \in {"read", "embed"} /\ job'[q] = job[q]
    BY <1>9, <1>b DEF Upsert, Through
  <2> QED
    BY <1>9, <2>2, <2>3 DEF Upsert
<1>10. ASSUME NEW p \in Indexers, EmbedFails(p) PROVE Typed'
  <2>1. job[p] \in Jobs /\ job[p].of \in Items
    BY <1>10 DEF EmbedFails, Jobs
  <2>2. lost' \subseteq Items /\ overtaken' \subseteq Items
    BY <1>10, <2>1 DEF EmbedFails, Lose
  <2>3. /\ job' \in [Indexers -> Jobs \cup {NoJob}] /\ got' \in [Indexers -> Rows]
        /\ ix' \in [Indexers -> {"idle", "lock", "clear", "next", "read", "embed"}]
        /\ \A q \in Indexers : ix'[q] \in {"read", "embed"} =>
                                   ix[q] \in {"read", "embed"} /\ job'[q] = job[q]
    BY <1>10, <1>b DEF EmbedFails, Through
  <2> QED
    BY <1>10, <2>2, <2>3 DEF EmbedFails
<1>11. ASSUME NEW p \in Requests, NEW c \in Configs \cup {Off}, PutSemantic(p, c) PROVE Typed'
  BY <1>11, <1>a DEF PutSemantic
<1>12. ASSUME NEW p \in Requests, LoadConfig(p) PROVE Typed'
  BY <1>12, <1>a DEF LoadConfig
<1>13. ASSUME NEW p \in Swappers, LockSwap(p) PROVE Typed'
  BY <1>13 DEF LockSwap
<1>14. ASSUME NEW p \in Swappers, LockSemMu(p) PROVE Typed'
  BY <1>14 DEF LockSemMu
<1>15. ASSUME NEW p \in Requests, applyEmbedder(p) PROVE Typed'
  <2>0. \A i \in DOMAIN queue : queue[i] \in Jobs
    OBVIOUS
  <2>1. \A i \in DOMAIN queue : queue[i].of \in Items
    BY <2>0 DEF Jobs
  <2>2. \A w \in SentTo : wjob[w].of \in Items
    BY DEF SentTo, Jobs
  <2>3. lost' \subseteq Items /\ overtaken' \subseteq Items
    BY <1>15, <2>1, <2>2 DEF applyEmbedder, Lose
  <2>4. queue' \in Seq(Jobs) /\ Len(queue') <= QueueSize
    BY <1>15, SizesAssumption DEF applyEmbedder
  <2>5. /\ wr' \in [Writers -> {"idle", "capture", "send"}]
        /\ wjob' \in [Writers -> Jobs \cup {NoJob}]
        /\ \A w \in Writers : wr'[w] # "idle" => wr[w] # "idle" /\ wjob'[w] = wjob[w]
    BY <1>15 DEF applyEmbedder, SentTo
  <2>6. applied' \in Configs \cup {Off} /\ worker' \in {"none", "running", "cancelled"}
    BY <1>15 DEF applyEmbedder
  <2>7. req' \in [Swappers -> {"idle", "load", "lock", "drain", "install", "spawn", "wait", "done"}]
    BY <1>15, <1>a DEF applyEmbedder
  <2>8. skipped' \in BOOLEAN /\ late' \in BOOLEAN
    BY <1>15 DEF applyEmbedder, semanticLiveChangeNeeded, Drained
  <2> QED
    BY <1>15, <2>3, <2>4, <2>5, <2>6, <2>7, <2>8 DEF applyEmbedder
<1>16. ASSUME NEW p \in Requests, spawnSemanticReindex(p) PROVE Typed'
  BY <1>16, <1>a DEF spawnSemanticReindex, Drained
<1>17. ASSUME Close PROVE Typed'
  BY <1>17, <1>a DEF Close
<1>18. ASSUME stopSemantic PROVE Typed'
  BY <1>18, <1>a DEF stopSemantic
<1>19. ASSUME CloseDB PROVE Typed'
  BY <1>19, <1>a DEF CloseDB
<1>20. ASSUME UNCHANGED vars PROVE Typed'
  BY <1>20 DEF vars
<1> QED
  BY <1>a, <1>1, <1>2, <1>21, <1>22, <1>3, <1>4, <1>5, <1>6, <1>7, <1>8, <1>9, <1>10, <1>11, <1>12,
     <1>13, <1>14, <1>15, <1>16, <1>17, <1>18, <1>19, <1>20
  DEF Next, WriterStep, WorkerStep, Reindex, RequestStep, CloseStep

LEMMA TypedAlways == Spec => []Typed
  BY TypedInit, TypedInductive, PTL DEF Spec

\* Types are kept from the start on; the queue never outgrows its size.
THEOREM TypeCorrect == Spec => []TypeOK
<1>1. Typed => TypeOK
  BY DEF Typed
<1> QED
  BY <1>1, TypedAlways, PTL

-----------------------------------------------------------------------------
(* Close                                                                   *)

\* Who is past the lock of a swap holds it, and has drained the worker before
\* the swap is installed.
SwapsExclude == \A p \in Swappers : req[p] \in {"drain", "install"} => swapMu = p
Installing == \A p \in Swappers : req[p] = "install" => worker = "none"

\* A worker that is gone has no job at hand.
GoneIsIdle == worker = "none" => ix[Worker] = "idle"

\* Once Close has drained the worker, only late work brings one back; the
\* database is closed last, with no reindex at work.
DrainedStays == Drained => late \/ worker = "none"
ClosedIsDone == db = "closed" => req[Closer] = "done"
ClosedIsQuiet == db = "closed" => late \/ \A r \in Reindexers : ix[r] = "idle"

CleanInv == SwapsExclude /\ Installing /\ GoneIsIdle /\ DrainedStays
            /\ ClosedIsDone /\ ClosedIsQuiet

LEMMA CleanInit == Init => CleanInv
  BY DEF Init, CleanInv, SwapsExclude, Installing, GoneIsIdle, DrainedStays,
         ClosedIsDone, ClosedIsQuiet, Drained, Swappers, Indexers

LEMMA CleanInductive ==
  ASSUME Typed, CleanInv, [Next]_vars
  PROVE  CleanInv'
<1> USE NamesAssumption
    DEF Typed, TypeOK, CleanInv, SwapsExclude, Installing, GoneIsIdle, DrainedStays,
        ClosedIsDone, ClosedIsQuiet, Drained, cfgVars, lockVars, ixVars, wrVars
<1>a. /\ Worker \in Indexers /\ Reindexers \subseteq Indexers
      /\ Requests \subseteq Swappers /\ Closer \in Swappers
  BY DEF Indexers, Swappers
<1>1. ASSUME NEW s \in Items, enqueueSemanticCatchUp(s) PROVE CleanInv'
  BY <1>1 DEF enqueueSemanticCatchUp
<1>20. ASSUME NEW w \in Writers, WriterStep(w) PROVE CleanInv'
  BY <1>20 DEF WriterStep, Change, CaptureQueue, SendJob
<1>2. ASSUME TakeJob PROVE CleanInv'
  BY <1>2, <1>a DEF TakeJob
<1>3. ASSUME semanticWorkerExit PROVE CleanInv'
  BY <1>3 DEF semanticWorkerExit
<1>4. ASSUME NEW r \in Reindexers, LockReindex(r) PROVE CleanInv'
  BY <1>4, <1>a DEF LockReindex
<1>5. ASSUME NEW r \in Reindexers, Clear(r) PROVE CleanInv'
  BY <1>5, <1>a DEF Clear
<1>6. ASSUME NEW r \in Reindexers, NextService(r) PROVE CleanInv'
  BY <1>6, <1>a DEF NextService
<1>7. ASSUME NEW p \in Indexers, ReadTexts(p) PROVE CleanInv'
  BY <1>7, <1>a DEF ReadTexts, Through
<1>8. ASSUME NEW p \in Indexers, Upsert(p) PROVE CleanInv'
  BY <1>8, <1>a DEF Upsert, Through
<1>9. ASSUME NEW p \in Indexers, EmbedFails(p) PROVE CleanInv'
  BY <1>9, <1>a DEF EmbedFails, Through
<1>10. ASSUME NEW p \in Requests, NEW c \in Configs \cup {Off}, PutSemantic(p, c)
       PROVE CleanInv'
  BY <1>10, <1>a DEF PutSemantic
<1>11. ASSUME NEW p \in Requests, LoadConfig(p) PROVE CleanInv'
  BY <1>11, <1>a DEF LoadConfig
<1>12. ASSUME NEW p \in Swappers, LockSwap(p) PROVE CleanInv'
  <2>1. \A q \in Swappers : req[q] \notin {"drain", "install"}
    BY <1>12 DEF LockSwap, Swappers
  <2>2. /\ req' = [req EXCEPT ![p] = "drain"] /\ swapMu' = p
        /\ worker = "none" <=> worker' = "none"
        /\ req[p] = "lock" /\ UNCHANGED <<ix, db, late>>
    BY <1>12 DEF LockSwap
  <2>3. SwapsExclude' /\ Installing'
    BY <2>1, <2>2
  <2>4. GoneIsIdle' /\ DrainedStays' /\ ClosedIsDone' /\ ClosedIsQuiet'
    BY <1>a, <2>2
  <2> QED
    BY <2>3, <2>4
<1>13. ASSUME NEW p \in Swappers, LockSemMu(p) PROVE CleanInv'
  BY <1>13, <1>a DEF LockSemMu
<1>14. ASSUME NEW p \in Requests, applyEmbedder(p) PROVE CleanInv'
  BY <1>14, <1>a DEF applyEmbedder
<1>15. ASSUME NEW p \in Requests, spawnSemanticReindex(p) PROVE CleanInv'
  BY <1>15, <1>a DEF spawnSemanticReindex
<1>16. ASSUME Close PROVE CleanInv'
  BY <1>16, <1>a DEF Close
<1>17. ASSUME stopSemantic PROVE CleanInv'
  BY <1>17, <1>a DEF stopSemantic
<1>18. ASSUME CloseDB PROVE CleanInv'
  BY <1>18, <1>a DEF CloseDB
<1>19. ASSUME UNCHANGED vars PROVE CleanInv'
  BY <1>19 DEF vars
<1> QED
  BY <1>a, <1>1, <1>2, <1>3, <1>4, <1>5, <1>6, <1>7, <1>8, <1>9, <1>10, <1>11, <1>12,
     <1>13, <1>14, <1>15, <1>16, <1>17, <1>18, <1>19, <1>20
  DEF Next, WorkerStep, Reindex, RequestStep, CloseStep

\* The database is closed when nobody is at work on it, but for what a settings
\* request began after Close had waited (semantic.go:174-178).
THEOREM ClosesCleanly == Spec => []CloseIsClean
<1>1. CleanInv => CloseIsClean
  BY DEF CleanInv, GoneIsIdle, DrainedStays, ClosedIsDone, ClosedIsQuiet, Drained,
         CloseIsClean, Indexers
<1> QED
  BY <1>1, CleanInit, CleanInductive, TypedAlways, PTL DEF Spec
-----------------------------------------------------------------------------
(* Vectors                                                                 *)

\* A full reindex is still to come: a goroutine is about to do it, or a request
\* is about to start one.
ReindexAhead ==
    \/ \E r \in Reindexers : ix[r] \in {"lock", "clear"}
    \/ \E p \in Requests : req[p] = "spawn" /\ semanticLiveChangeNeeded(before[p], after[p])

\* s is up to date, or somebody will still index it for a job that reads its text or
\* carries it; excused are the items an update of which is on record as lost.
excused == lost \cup overtaken
Carries(j) == TextFor(j) = text[j.of]
Queued(s) == \E i \in DOMAIN queue : queue[i].of = s /\ Carries(queue[i])
Written(s) == \E w \in Writers : wr[w] # "idle" /\ wjob[w].of = s /\ Carries(wjob[w])
Waiting(s) == s \in catching \/ Queued(s) \/ Written(s)
AtHand(s) ==
    \E p \in Indexers :
        /\ job[p].of = s
        /\ \/ ix[p] = "read" /\ Carries(job[p])
           \/ ix[p] = "embed" /\ got[p] = Current(s)
Listed(s) == \E r \in Reindexers : ix[r] \in {"next", "read", "embed"} /\ s \in left[r]
Covered(s) == vec[s] = Current(s) \/ Waiting(s) \/ AtHand(s) \/ Listed(s) \/ ReindexAhead

EverythingCovered ==
    applied # Off /\ ~skipped => \A s \in Items \ excused : Covered(s)

\* One reindex works at a time.
ReindexesExclude ==
    \A r \in Reindexers : ix[r] \in {"clear", "next", "read", "embed"} => reindexMu = r

\* The worker, which every swap drains, embeds under the applied model; a reindex
\* may hold a row of a replaced model only while another reindex is ahead.
WorkerIsUpToDate == ix[Worker] = "embed" => got[Worker].model = ModelOf(applied)
OldModelIsRedone ==
    applied # Off /\ ~skipped =>
        \A r \in Reindexers : ix[r] = "embed" => got[r].model = ModelOf(applied) \/ ReindexAhead

\* Versions grow: what a job carries and what an indexer has read are no newer than
\* what is there.
NotNewer(j) == j.text <= text[j.of]
JobsAreOld ==
    /\ \A p \in Indexers : ix[p] \in {"read", "embed"} => NotNewer(job[p])
    /\ \A i \in DOMAIN queue : NotNewer(queue[i])
    /\ \A w \in Writers : wr[w] # "idle" => NotNewer(wjob[w])
VersionsGrow ==
    /\ \A s \in Items : text[s] <= changes
    /\ \A p \in Indexers : ix[p] = "embed" => got[p].text <= text[job[p].of]

VectorInv == EverythingCovered /\ ReindexesExclude /\ WorkerIsUpToDate
             /\ OldModelIsRedone /\ VersionsGrow /\ JobsAreOld

LEMMA VectorInit == Init => VectorInv
<1> SUFFICES ASSUME Init PROVE VectorInv
  OBVIOUS
<1>1. EverythingCovered
  BY DEF Init, EverythingCovered, Covered, Waiting
<1>2. ReindexesExclude /\ WorkerIsUpToDate /\ OldModelIsRedone /\ VersionsGrow
  BY DEF Init, ReindexesExclude, WorkerIsUpToDate, OldModelIsRedone, VersionsGrow, Indexers
<1>3. JobsAreOld
  BY DEF Init, JobsAreOld
<1> QED
  BY <1>1, <1>2, <1>3 DEF VectorInv

\* The facts about the indexers that do not depend on coverage.
LEMMA ExcludeInductive ==
  ASSUME Typed, CleanInv, ReindexesExclude, WorkerIsUpToDate, VersionsGrow, JobsAreOld,
         [Next]_vars
  PROVE  ReindexesExclude' /\ WorkerIsUpToDate' /\ VersionsGrow'
<1> USE NamesAssumption DEF ReindexesExclude, WorkerIsUpToDate, VersionsGrow,
        Typed, TypeOK, HasWork, cfgVars, lockVars, ixVars, wrVars
<1> DEFINE Goal == ReindexesExclude' /\ WorkerIsUpToDate' /\ VersionsGrow'
<1>a. /\ Worker \in Indexers /\ Reindexers \subseteq Indexers
      /\ Requests \subseteq Swappers /\ Closer \in Swappers
  BY DEF Indexers, Swappers
<1>b. /\ changes \in Nat /\ \A s \in Items : text[s] \in Nat
      /\ \A p \in Indexers : got[p].text \in Nat
  BY SizesAssumption DEF Rows
<1>c. \A j \in Jobs : j.of \in Items
  BY DEF Jobs
<1>1. ASSUME NEW s \in Items, enqueueSemanticCatchUp(s) PROVE Goal
  BY <1>1 DEF enqueueSemanticCatchUp
<1>2. ASSUME NEW w \in Writers, NEW s \in Items, NEW by \in {"name", "text"}, Change(w, s, by)
      PROVE  Goal
  <2>1. /\ changes' = changes + 1 /\ text' = [text EXCEPT ![s] = changes + 1]
        /\ UNCHANGED <<ix, job, got, reindexMu, applied>>
    BY <1>2 DEF Change
  <2>2. \A x \in Items : text[x] <= text'[x] /\ text'[x] <= changes'
    BY <1>b, <2>1
  <2>3. ASSUME NEW p \in Indexers, ix'[p] = "embed" PROVE got'[p].text <= text'[job'[p].of]
    <3>1. job[p].of \in Items /\ got[p].text <= text[job[p].of]
      BY <1>c, <2>1, <2>3
    <3>2. text[job[p].of] <= text'[job[p].of] /\ text'[job[p].of] \in Nat
      BY <1>b, <2>1, <2>2, <3>1
    <3> QED
      BY <1>b, <2>1, <3>1, <3>2
  <2> QED
    BY <2>1, <2>2, <2>3
<1>21. ASSUME NEW w \in Writers, CaptureQueue(w) \/ SendJob(w) PROVE Goal
  BY <1>21 DEF CaptureQueue, SendJob
<1>3. ASSUME TakeJob PROVE Goal
  BY <1>3, <1>a DEF TakeJob
<1>4. ASSUME semanticWorkerExit PROVE Goal
  BY <1>4 DEF semanticWorkerExit
<1>5. ASSUME NEW r \in Reindexers, LockReindex(r) PROVE Goal
  BY <1>5, <1>a DEF LockReindex
<1>6. ASSUME NEW r \in Reindexers, Clear(r) PROVE Goal
  BY <1>6, <1>a DEF Clear
<1>7. ASSUME NEW r \in Reindexers, NextService(r) PROVE Goal
  BY <1>7, <1>a DEF NextService
<1>8. ASSUME NEW p \in Indexers, ReadTexts(p) PROVE Goal
  <2> DEFINE row == [model |-> ModelOf(applied), text |-> TextFor(job[p])]
  <2>1. CASE applied = Off \/ vec[job[p].of] = row
    <3>1. Through(p) /\ ix[p] = "read" /\ UNCHANGED <<text, reindexMu, applied, changes>>
      BY <1>8, <2>1 DEF ReadTexts
    <3> QED
      BY <1>a, <3>1 DEF Through
  <2>2. CASE ~(applied = Off \/ vec[job[p].of] = row)
    <3>1. got' = [got EXCEPT ![p] = row] /\ ix' = [ix EXCEPT ![p] = "embed"] /\ ix[p] = "read"
          /\ UNCHANGED <<job, text, reindexMu, applied, changes>>
      BY <1>8, <2>2 DEF ReadTexts
    <3>2. got'[p] = row /\ \A q \in Indexers \ {p} : got'[q] = got[q] /\ ix'[q] = ix[q]
      BY <3>1
    <3> HIDE DEF row
    <3>3. row.model = ModelOf(applied) /\ row.text = TextFor(job[p]) /\ job[p] \in Jobs
      BY <3>1 DEF row
    <3>4. TextFor(job[p]) <= text[job[p].of]
      BY <1>b, <1>c, <3>1, <3>3 DEF TextFor, JobsAreOld, NotNewer
    <3>5. VersionsGrow'
      BY <1>b, <3>1, <3>2, <3>3, <3>4
    <3>6. WorkerIsUpToDate' /\ ReindexesExclude'
      BY <1>a, <3>1, <3>2, <3>3 DEF ModelOf
    <3> QED
      BY <3>5, <3>6
  <2> QED
    BY <2>1, <2>2
<1>9. ASSUME NEW p \in Indexers, Upsert(p) PROVE Goal
  BY <1>9, <1>a DEF Upsert, Through
<1>10. ASSUME NEW p \in Indexers, EmbedFails(p) PROVE Goal
  BY <1>10, <1>a DEF EmbedFails, Through
<1>11. ASSUME NEW p \in Requests, NEW c \in Configs \cup {Off}, PutSemantic(p, c)
       PROVE Goal
  BY <1>11 DEF PutSemantic
<1>12. ASSUME NEW p \in Requests, LoadConfig(p) PROVE Goal
  BY <1>12 DEF LoadConfig
<1>13. ASSUME NEW p \in Swappers, LockSwap(p) \/ LockSemMu(p) PROVE Goal
  BY <1>13 DEF LockSwap, LockSemMu
<1>14. ASSUME NEW p \in Requests, applyEmbedder(p) PROVE Goal
  <2>1. ix[Worker] = "idle"
    BY <1>14, <1>a DEF applyEmbedder, CleanInv, Installing, GoneIsIdle
  <2> QED
    BY <1>14, <1>a, <2>1 DEF applyEmbedder
<1>15. ASSUME NEW p \in Requests, spawnSemanticReindex(p) PROVE Goal
  BY <1>15, <1>a DEF spawnSemanticReindex
<1>16. ASSUME Close \/ stopSemantic \/ CloseDB PROVE Goal
  BY <1>16 DEF Close, stopSemantic, CloseDB
<1>17. ASSUME UNCHANGED vars PROVE Goal
  BY <1>17 DEF vars
<1> QED
  BY <1>a, <1>1, <1>2, <1>21, <1>3, <1>4, <1>5, <1>6, <1>7, <1>8, <1>9, <1>10, <1>11, <1>12,
     <1>13, <1>14, <1>15, <1>16, <1>17
  DEF Next, WriterStep, WorkerStep, Reindex, RequestStep, CloseStep

\* What is there only grows, and jobs are handed on as they are.
LEMMA JobsAreOldInductive ==
  ASSUME Typed, VersionsGrow, JobsAreOld, [Next]_vars
  PROVE  JobsAreOld'
<1> USE DEF JobsAreOld, NotNewer, Typed, TypeOK, HasWork, cfgVars, lockVars, ixVars, wrVars
<1>a. Worker \in Indexers /\ Reindexers \subseteq Indexers
  BY DEF Indexers
<1>b. /\ changes \in Nat /\ \A s \in Items : text[s] \in Nat
      /\ \A j \in Jobs : j.of \in Items /\ j.text \in Nat
  BY SizesAssumption DEF Jobs
<1>c. \A s \in Items : Naming(s).text = 0 /\ Naming(s).of = s
  BY DEF Naming
<1>d. \A i \in DOMAIN queue : queue[i] \in Jobs
  OBVIOUS
<1>1. ASSUME NEW j \in Jobs, NotNewer(j), Enqueue(j), UNCHANGED text
      PROVE  \A i \in DOMAIN queue' : queue'[i].text <= text'[queue'[i].of]
  <2>1. CASE queue' = queue
    BY <1>1, <2>1
  <2>2. CASE queue' = Append(queue, j)
    <3>1. /\ DOMAIN queue = 1 .. Len(queue) /\ Len(queue) \in Nat
          /\ DOMAIN queue' = 1 .. Len(queue) + 1 /\ queue'[Len(queue) + 1] = j
          /\ \A i \in 1 .. Len(queue) : queue'[i] = queue[i]
      BY <2>2
    <3> SUFFICES ASSUME NEW i \in DOMAIN queue' PROVE queue'[i].text <= text[queue'[i].of]
      BY <1>1
    <3>2. CASE i = Len(queue) + 1
      BY <1>1, <3>1, <3>2
    <3>3. CASE i \in 1 .. Len(queue)
      BY <3>1, <3>3
    <3> QED
      BY <3>1, <3>2, <3>3
  <2> QED
    BY <1>1, <2>1, <2>2 DEF Enqueue
<1>2. ASSUME NEW s \in Items, enqueueSemanticCatchUp(s) PROVE JobsAreOld'
  <2>1. Naming(s) \in Jobs /\ NotNewer(Naming(s)) /\ Enqueue(Naming(s)) /\ UNCHANGED text
    BY <1>2, <1>b, <1>c, NamingType DEF enqueueSemanticCatchUp
  <2>2. \A i \in DOMAIN queue' : queue'[i].text <= text'[queue'[i].of]
    BY ONLY <1>1, <2>1
  <2> QED
    BY <1>2, <2>2 DEF enqueueSemanticCatchUp
<1>3. ASSUME NEW w \in Writers, NEW s \in Items, NEW by \in {"name", "text"}, Change(w, s, by)
      PROVE  JobsAreOld'
  <2>1. /\ text' = [text EXCEPT ![s] = changes + 1] /\ UNCHANGED <<ix, job, queue>>
        /\ wjob' = [wjob EXCEPT ![w] = JobOf(s, by)] /\ wr' = [wr EXCEPT ![w] = "capture"]
    BY <1>3 DEF Change
  <2>2. \A x \in Items : text[x] <= text'[x] /\ text'[x] \in Nat
    BY <1>b, <2>1 DEF VersionsGrow
  <2>3. \A j \in Jobs : NotNewer(j) => j.text <= text'[j.of]
    <3> SUFFICES ASSUME NEW j \in Jobs, j.text <= text[j.of] PROVE j.text <= text'[j.of]
      OBVIOUS
    <3> QED
      BY <1>b, <2>2
  <2>4. JobOf(s, by).text <= text'[JobOf(s, by).of]
    <3>1. CASE by = "name"
      BY <1>b, <1>c, <2>2, <3>1 DEF JobOf
    <3>2. CASE by # "name"
      BY <1>b, <2>1, <3>2 DEF JobOf
    <3> QED
      BY <3>1, <3>2
  <2>5. \A p \in Indexers : ix'[p] \in {"read", "embed"} => job'[p].text <= text'[job'[p].of]
    BY <2>1, <2>3
  <2>6. \A i \in DOMAIN queue' : queue'[i].text <= text'[queue'[i].of]
    BY <1>d, <2>1, <2>3
  <2>7. \A v \in Writers : wr'[v] # "idle" => wjob'[v].text <= text'[wjob'[v].of]
    BY <2>1, <2>3, <2>4
  <2> QED
    BY <2>5, <2>6, <2>7
<1>4. ASSUME NEW w \in Writers, CaptureQueue(w) PROVE JobsAreOld'
  BY <1>4 DEF CaptureQueue
<1>5. ASSUME NEW w \in Writers, SendJob(w) PROVE JobsAreOld'
  <2>1. wjob[w] \in Jobs /\ NotNewer(wjob[w]) /\ Enqueue(wjob[w]) /\ UNCHANGED text
    BY <1>5 DEF SendJob
  <2>2. \A i \in DOMAIN queue' : queue'[i].text <= text'[queue'[i].of]
    BY ONLY <1>1, <2>1
  <2> QED
    BY <1>5, <2>2 DEF SendJob
<1>6. ASSUME TakeJob PROVE JobsAreOld'
  <2>1. /\ queue # <<>> /\ queue' = Tail(queue) /\ job' = [job EXCEPT ![Worker] = Head(queue)]
        /\ ix' = [ix EXCEPT ![Worker] = "read"] /\ UNCHANGED <<text, wr, wjob>>
    BY <1>6 DEF TakeJob
  <2>2. /\ NotNewer(Head(queue))
        /\ \A i \in DOMAIN Tail(queue) : i + 1 \in DOMAIN queue /\ Tail(queue)[i] = queue[i + 1]
    BY <2>1
  <2> QED
    BY <1>a, <2>1, <2>2
<1>7. ASSUME NEW r \in Reindexers, LockReindex(r) PROVE JobsAreOld'
  BY <1>7, <1>a DEF LockReindex
<1>8. ASSUME NEW r \in Reindexers, Clear(r) PROVE JobsAreOld'
  <2>1. \A p \in Indexers : ix'[p] \in {"read", "embed"} => ix[p] \in {"read", "embed"}
    BY <1>8, <1>a DEF Clear
  <2> QED
    BY <1>8, <2>1 DEF Clear
<1>9. ASSUME NEW r \in Reindexers, NextService(r) PROVE JobsAreOld'
  <2>1. CASE left[r] = {}
    BY <1>9, <1>a, <2>1 DEF NextService
  <2>2. CASE left[r] # {}
    <3>1. PICK s \in left[r] : job' = [job EXCEPT ![r] = Naming(s)]
      BY <1>9, <2>2 DEF NextService
    <3>2. s \in Items /\ ix' = [ix EXCEPT ![r] = "read"] /\ UNCHANGED <<text, wr, wjob, queue>>
      BY <1>9, <1>a, <2>2, <3>1 DEF NextService
    <3> QED
      BY <1>a, <1>b, <1>c, <3>1, <3>2
  <2> QED
    BY <2>1, <2>2
<1>10. ASSUME NEW p \in Indexers, ReadTexts(p) \/ Upsert(p) \/ EmbedFails(p) PROVE JobsAreOld'
  <2>1. /\ \A q \in Indexers : ix'[q] \in {"read", "embed"} =>
                                 ix[q] \in {"read", "embed"} /\ job'[q] = job[q]
        /\ UNCHANGED <<text, wr, wjob, queue>>
    BY <1>10 DEF ReadTexts, Upsert, EmbedFails, Through
  <2> QED
    BY <2>1
<1>11. ASSUME NEW p \in Requests, LoadConfig(p) \/ \E c \in Configs \cup {Off} : PutSemantic(p, c)
       PROVE JobsAreOld'
  BY <1>11 DEF PutSemantic, LoadConfig
<1>12. ASSUME NEW p \in Swappers, LockSwap(p) \/ LockSemMu(p) PROVE JobsAreOld'
  BY <1>12 DEF LockSwap, LockSemMu
<1>13. ASSUME NEW p \in Requests, applyEmbedder(p) PROVE JobsAreOld'
  <2>1. /\ \A w \in Writers : wr'[w] # "idle" => wr[w] # "idle" /\ wjob'[w] = wjob[w]
        /\ queue' = <<>> /\ UNCHANGED <<text, ix, job>>
    BY <1>13 DEF applyEmbedder, SentTo
  <2> QED
    BY <2>1
<1>14. ASSUME NEW p \in Requests, spawnSemanticReindex(p) PROVE JobsAreOld'
  <2>1. /\ \A q \in Indexers : ix'[q] \in {"read", "embed"} => ix[q] \in {"read", "embed"}
        /\ UNCHANGED <<text, job, wr, wjob, queue>>
    BY <1>14 DEF spawnSemanticReindex
  <2> QED
    BY <2>1
<1>15. ASSUME Close \/ stopSemantic \/ CloseDB \/ semanticWorkerExit PROVE JobsAreOld'
  BY <1>15 DEF Close, stopSemantic, CloseDB, semanticWorkerExit
<1>16. ASSUME UNCHANGED vars PROVE JobsAreOld'
  BY <1>16 DEF vars
<1>17. Requests \subseteq Swappers /\ Closer \in Swappers
  BY DEF Swappers
<1> QED
  BY <1>a, <1>2, <1>3, <1>4, <1>5, <1>6, <1>7, <1>8, <1>9, <1>10, <1>11, <1>12, <1>13, <1>14,
     <1>15, <1>16, <1>17
  DEF Next, WriterStep, WorkerStep, Reindex, RequestStep, CloseStep

\* The job is queued, or the loss is on record; what was queued stays so.
LEMMA EnqueueKeeps ==
  ASSUME Typed, NEW j \in Jobs, Enqueue(j)
  PROVE  /\ excused \subseteq excused'
         /\ \/ j.of \in excused' \/ vec[j.of] = Current(j.of)
            \/ \E i \in DOMAIN queue' : queue'[i] = j
         /\ \A i \in DOMAIN queue : i \in DOMAIN queue' /\ queue'[i] = queue[i]
<1> USE DEF Typed, TypeOK, Enqueue, Lose, excused
<1>1. CASE Len(queue) = QueueSize
  BY <1>1
<1>2. CASE Len(queue) # QueueSize
  <2>1. queue' = Append(queue, j) /\ UNCHANGED <<lost, overtaken>>
    BY <1>2
  <2>2. /\ DOMAIN queue = 1 .. Len(queue) /\ Len(queue) \in Nat
        /\ DOMAIN queue' = 1 .. Len(queue) + 1 /\ queue'[Len(queue) + 1] = j
        /\ \A i \in 1 .. Len(queue) : queue'[i] = queue[i] /\ i \in 1 .. Len(queue) + 1
        /\ Len(queue) + 1 \in 1 .. Len(queue) + 1
    BY <2>1
  <2> QED
    BY <2>1, <2>2
<1> QED
  BY <1>1, <1>2

\* A row read for a job that carries the current text is the one the item should have.
LEMMA CarriesCurrent ==
  ASSUME NEW j
  PROVE  [model |-> ModelOf(applied), text |-> TextFor(j)] = Current(j.of) <=> Carries(j)
  BY DEF Current, Carries

\* A step that leaves the work and the vectors alone keeps what is covered covered.
LEMMA NothingMoves ==
  ASSUME VectorInv, ReindexAhead => ReindexAhead',
         UNCHANGED <<applied, ix, job, got, left, queue, vec, text, catching, wr, wjob,
                     lost, overtaken, skipped>>
  PROVE  EverythingCovered' /\ OldModelIsRedone'
<1>1. ASSUME NEW x \in Items, Covered(x) PROVE Covered(x)'
  <2>1. AtHand(x) => AtHand(x)'
    <3> SUFFICES ASSUME NEW q \in Indexers, job[q].of = x,
                        \/ ix[q] = "read" /\ Carries(job[q])
                        \/ ix[q] = "embed" /\ got[q] = Current(x)
                 PROVE  AtHand(x)'
      BY DEF AtHand
    <3> QED
      BY DEF AtHand, Current, Carries, TextFor, ModelOf
  <2>2. Waiting(x) => Waiting(x)'
    BY DEF Waiting, Queued, Written, Carries, TextFor
  <2>3. Listed(x) => Listed(x)'
    BY DEF Listed
  <2> QED
    BY <1>1, <2>1, <2>2, <2>3 DEF Covered, Current, ModelOf
<1>2. OldModelIsRedone'
  BY DEF VectorInv, OldModelIsRedone, ModelOf
<1> QED
  BY <1>1, <1>2 DEF VectorInv, EverythingCovered, excused

\* A step that only moves work along keeps what is covered covered.
LEMMA CoveredInductive ==
  ASSUME Typed, CleanInv, VectorInv, [Next]_vars
  PROVE  EverythingCovered' /\ OldModelIsRedone'
<1> USE NamesAssumption DEF VectorInv, EverythingCovered, OldModelIsRedone,
        Typed, TypeOK, HasWork, cfgVars, lockVars, ixVars, wrVars
<1> DEFINE Goal == EverythingCovered' /\ OldModelIsRedone'
<1>a. /\ Worker \in Indexers /\ Reindexers \subseteq Indexers
      /\ Requests \subseteq Swappers /\ Closer \in Swappers
  BY DEF Indexers, Swappers
<1>b. /\ changes \in Nat /\ \A s \in Items : text[s] \in Nat /\ vec[s].text \in Nat
      /\ \A p \in Indexers : got[p].text \in Nat
  BY SizesAssumption DEF Rows
<1>c. \A j \in Jobs : j.of \in Items
  BY DEF Jobs
<1>d. \A s \in Items : Naming(s).of = s /\ Carries(Naming(s)) /\ Carries(Naming(s))'
  BY DEF Naming, Carries, TextFor
<1>1. ASSUME NEW s \in Items, enqueueSemanticCatchUp(s) PROVE Goal
  <2>1. /\ catching' = catching \ {s} /\ Enqueue(Naming(s)) /\ Naming(s) \in Jobs
        /\ UNCHANGED <<applied, before, after, ix, job, got, left, wr, wjob, req, vec, text, skipped>>
    BY <1>1, NamingType DEF enqueueSemanticCatchUp
  <2>2. OldModelIsRedone'
    BY <2>1 DEF ReindexAhead
  <2>3. ASSUME applied' # Off, ~skipped', NEW x \in Items \ excused' PROVE Covered(x)'
    <3>1. excused \subseteq excused' /\ Covered(x)
      BY <2>1, <2>3, EnqueueKeeps
    <3>2. Queued(x) => Queued(x)'
      BY <2>1, EnqueueKeeps DEF Queued, Carries, TextFor
    <3>3. x = s => Queued(x)' \/ vec[x] = Current(x)
      <4>1. ASSUME NEW i \in DOMAIN queue', queue'[i] = Naming(s), x = s PROVE Queued(x)'
        <5>1. queue'[i].of = x /\ queue'[i].by = "name"
          BY <4>1 DEF Naming
        <5> QED
          BY <5>1 DEF Queued, Carries, TextFor
      <4>2. \/ s \in excused' \/ vec[s] = Current(s)
            \/ \E i \in DOMAIN queue' : queue'[i] = Naming(s)
        BY <1>d, <2>1, EnqueueKeeps
      <4> QED
        BY <2>3, <4>1, <4>2
    <3>4. Waiting(x) => Waiting(x)' \/ vec[x] = Current(x)
      BY <2>1, <3>2, <3>3 DEF Waiting, Written, Carries, TextFor
    <3> QED
      BY <2>1, <3>1, <3>4 DEF Covered, Current, AtHand, Listed, ReindexAhead, Carries, TextFor
  <2> QED
    BY <2>2, <2>3
<1>2. ASSUME NEW w \in Writers, NEW s \in Items, NEW by \in {"name", "text"}, Change(w, s, by)
      PROVE  Goal
  <2>1. /\ text' = [text EXCEPT ![s] = changes + 1] /\ wr[w] = "idle"
        /\ wr' = [wr EXCEPT ![w] = "capture"] /\ wjob' = [wjob EXCEPT ![w] = JobOf(s, by)]
        /\ UNCHANGED <<applied, before, after, ix, job, got, left, queue, req, vec, catching,
                       lost, overtaken, skipped>>
    BY <1>2 DEF Change
  <2>2. OldModelIsRedone'
    BY <2>1 DEF ReindexAhead
  <2>3. PICK j : j = JobOf(s, by)
    OBVIOUS
  <2>4. Written(s)'
    <3>1. j.of = s /\ (j.by # "name" => j.text = changes + 1)
      BY <2>3 DEF JobOf, Naming
    <3>2. wr'[w] # "idle" /\ wjob'[w] = j /\ text'[s] = changes + 1
      BY <2>1, <2>3
    <3> QED
      BY <3>1, <3>2 DEF Written, Carries, TextFor
  <2>5. ASSUME NEW x \in Items, x # s, Covered(x) PROVE Covered(x)'
    <3>1. \A k : k.of = x => (Carries(k) <=> Carries(k)')
      BY <2>1, <2>5 DEF Carries, TextFor
    <3>2. Queued(x) => Queued(x)'
      BY <2>1, <3>1 DEF Queued
    <3>3. Written(x) => Written(x)'
      BY <2>1, <3>1 DEF Written
    <3>4. Current(x)' = Current(x)
      BY <2>1, <2>5 DEF Current, ModelOf
    <3>5. AtHand(x) => AtHand(x)'
      BY <2>1, <3>1, <3>4 DEF AtHand
    <3> QED
      BY <2>1, <2>5, <3>2, <3>3, <3>4, <3>5 DEF Covered, Waiting, Listed, ReindexAhead
  <2> QED
    BY <2>1, <2>2, <2>4, <2>5 DEF Covered, Waiting, excused
<1>21. ASSUME NEW w \in Writers, CaptureQueue(w) PROVE Goal
  <2>1. CASE applied = Off
    BY <1>21, <2>1 DEF CaptureQueue
  <2>2. CASE applied # Off
    <3>1. /\ wr[w] = "capture" /\ wr' = [wr EXCEPT ![w] = "send"]
          /\ UNCHANGED <<applied, before, after, ix, job, got, left, wjob, queue, req, vec, text,
                         catching, lost, overtaken, skipped>>
      BY <1>21, <2>2 DEF CaptureQueue
    <3>2. \A x \in Items : Written(x) => Written(x)'
      BY <3>1 DEF Written, Carries, TextFor
    <3> QED
      BY <3>1, <3>2 DEF Covered, Current, Waiting, Queued, AtHand, Listed, ReindexAhead, Carries,
                        TextFor, excused
  <2> QED
    BY <2>1, <2>2
<1>22. ASSUME NEW w \in Writers, SendJob(w) PROVE Goal
  <2>1. /\ Enqueue(wjob[w]) /\ wjob[w] \in Jobs
        /\ wr' = [wr EXCEPT ![w] = "idle"] /\ wjob' = [wjob EXCEPT ![w] = NoJob]
        /\ UNCHANGED <<applied, before, after, ix, job, got, left, req, vec, text, catching, skipped>>
    BY <1>22 DEF SendJob
  <2>2. OldModelIsRedone'
    BY <2>1 DEF ReindexAhead
  <2>3. ASSUME applied' # Off, ~skipped', NEW x \in Items \ excused' PROVE Covered(x)'
    <3>1. excused \subseteq excused' /\ Covered(x)
      BY <2>1, <2>3, EnqueueKeeps
    <3>2. Queued(x) => Queued(x)'
      BY <2>1, EnqueueKeeps DEF Queued, Carries, TextFor
    <3>3. Written(x) => Written(x)' \/ Queued(x)' \/ vec[x] = Current(x)
      <4> SUFFICES ASSUME NEW u \in Writers, wr[u] # "idle", wjob[u].of = x, Carries(wjob[u])
                   PROVE  Written(x)' \/ Queued(x)' \/ vec[x] = Current(x)
        BY DEF Written
      <4>1. CASE u = w
        <5>1. ASSUME NEW i \in DOMAIN queue', queue'[i] = wjob[w] PROVE Queued(x)'
          BY <2>1, <4>1, <5>1 DEF Queued, Carries, TextFor
        <5> QED
          BY <2>1, <2>3, <4>1, <5>1, EnqueueKeeps
      <4>2. CASE u # w
        BY <2>1, <4>2 DEF Written, Carries, TextFor
      <4> QED
        BY <4>1, <4>2
    <3> QED
      BY <2>1, <3>1, <3>2, <3>3 DEF Covered, Current, Waiting, AtHand, Listed, ReindexAhead, Carries,
                                    TextFor
  <2> QED
    BY <2>2, <2>3
<1>3. ASSUME TakeJob PROVE Goal
  <2>1. /\ queue # <<>> /\ queue' = Tail(queue) /\ ix[Worker] = "idle"
        /\ job' = [job EXCEPT ![Worker] = Head(queue)] /\ ix' = [ix EXCEPT ![Worker] = "read"]
        /\ UNCHANGED <<applied, before, after, got, left, wr, wjob, req, vec, text, catching,
                       lost, overtaken, skipped>>
    BY <1>3 DEF TakeJob
  <2>2. ReindexAhead' <=> ReindexAhead
    BY <1>a, <2>1 DEF ReindexAhead
  <2>3. OldModelIsRedone'
    BY <1>a, <2>1, <2>2 DEF ModelOf
  <2>4. ASSUME NEW x \in Items, Covered(x) PROVE Covered(x)'
    <3>1. Queued(x) => Queued(x)' \/ AtHand(x)'
      <4> SUFFICES ASSUME NEW i \in DOMAIN queue, queue[i].of = x, Carries(queue[i])
                   PROVE  Queued(x)' \/ AtHand(x)'
        BY DEF Queued
      <4>1. CASE i = 1
        <5>1. job'[Worker] = queue[1] /\ ix'[Worker] = "read"
          BY <1>a, <2>1
        <5>2. TextFor(job[Worker])' = text[x]
          BY <2>1, <4>1, <5>1 DEF Carries, TextFor
        <5> QED
          BY <1>a, <2>1, <4>1, <5>1, <5>2 DEF AtHand, Carries
      <4>2. CASE i # 1
        <5>1. i - 1 \in DOMAIN Tail(queue) /\ Tail(queue)[i - 1] = queue[i]
          BY <4>2
        <5> QED
          BY <2>1, <5>1 DEF Queued, Carries, TextFor
      <4> QED
        BY <4>1, <4>2
    <3>2. AtHand(x) => AtHand(x)'
      BY <1>a, <2>1 DEF AtHand, Current, Carries, TextFor
    <3>3. Listed(x) => Listed(x)'
      BY <1>a, <2>1 DEF Listed
    <3>4. Written(x) => Written(x)'
      BY <2>1 DEF Written, Carries, TextFor
    <3> QED
      BY <2>1, <2>2, <2>4, <3>1, <3>2, <3>3, <3>4 DEF Covered, Current, Waiting
  <2> QED
    BY <2>1, <2>3, <2>4 DEF excused
<1>4. ASSUME semanticWorkerExit PROVE Goal
  BY <1>4, NothingMoves DEF semanticWorkerExit, ReindexAhead
<1>5. ASSUME NEW r \in Reindexers, LockReindex(r) PROVE Goal
  BY <1>5, <1>a DEF LockReindex, Covered, Current, Waiting, Queued, Written, AtHand, Listed,
              ReindexAhead, Carries, TextFor, excused
<1>6. ASSUME NEW r \in Reindexers, Clear(r) PROVE Goal
  <2>1. /\ ix[r] = "clear" /\ UNCHANGED <<applied, before, after, job, got, queue, req, text,
                                            catching, wr, wjob, overtaken, skipped>>
    BY <1>6 DEF Clear
  <2>2. \A q \in Reindexers : ix[q] # "embed"
    BY <2>1 DEF ReindexesExclude
  <2>3. OldModelIsRedone'
    BY <1>6, <1>a, <2>2 DEF Clear
  <2>4. CASE ix' = [ix EXCEPT ![r] = "next"] /\ left' = [left EXCEPT ![r] = Items]
    <3>1. \A x \in Items : Listed(x)'
      BY <1>a, <2>4 DEF Listed
    <3> QED
      BY <2>3, <3>1 DEF Covered
  <2>5. CASE lost' = lost \cup {s \in Items : vec'[s] # Current(s)}
    <3>1. \A x \in Items : Current(x)' = Current(x)
      BY <2>1 DEF Current, ModelOf
    <3>2. \A x \in Items \ excused' : vec'[x] = Current(x)
      BY <2>5 DEF excused
    <3> QED
      BY <2>3, <3>1, <3>2 DEF Covered
  <2> QED
    BY <1>6, <2>4, <2>5 DEF Clear
<1>7. ASSUME NEW r \in Reindexers, NextService(r) PROVE Goal
  <2>1. /\ ix[r] = "next" /\ UNCHANGED <<applied, before, after, got, queue, req, vec,
                                          text, catching, wr, wjob, lost, overtaken, skipped>>
    BY <1>7 DEF NextService
  <2>2. CASE left[r] = {}
    <3>1. ix' = [ix EXCEPT ![r] = "idle"] /\ UNCHANGED <<job, left>>
      BY <1>7, <2>2 DEF NextService
    <3>2. ReindexAhead' <=> ReindexAhead
      BY <1>a, <2>1, <3>1 DEF ReindexAhead
    <3>3. OldModelIsRedone'
      BY <1>a, <2>1, <3>1, <3>2 DEF ModelOf
    <3>4. ASSUME NEW x \in Items, Covered(x) PROVE Covered(x)'
      <4>1. AtHand(x) => AtHand(x)'
        <5> SUFFICES ASSUME NEW q \in Indexers, job[q].of = x,
                            \/ ix[q] = "read" /\ Carries(job[q])
                            \/ ix[q] = "embed" /\ got[q] = Current(x)
                     PROVE  AtHand(x)'
          BY DEF AtHand
        <5>1. q # r /\ job'[q] = job[q] /\ ix'[q] = ix[q] /\ got'[q] = got[q]
          BY <1>a, <2>1, <3>1
        <5> QED
          BY <2>1, <5>1 DEF AtHand, Current, Carries, TextFor
      <4>2. Listed(x) => Listed(x)'
        BY <1>a, <2>1, <2>2, <3>1 DEF Listed
      <4>3. Waiting(x) => Waiting(x)'
        BY <2>1 DEF Waiting, Queued, Written, Carries, TextFor
      <4> QED
        BY <2>1, <3>2, <3>4, <4>1, <4>2, <4>3 DEF Covered, Current
    <3> QED
      BY <2>1, <3>3, <3>4 DEF excused
  <2>3. CASE left[r] # {}
    <3>1. PICK s \in left[r] : /\ job' = [job EXCEPT ![r] = Naming(s)]
                               /\ left' = [left EXCEPT ![r] = @ \ {s}]
      BY <1>7, <2>3 DEF NextService
    <3>2. ix' = [ix EXCEPT ![r] = "read"] /\ s \in Items
      BY <1>7, <1>a, <2>3, <3>1 DEF NextService
    <3>3. ReindexAhead' <=> ReindexAhead
      BY <1>a, <2>1, <3>2 DEF ReindexAhead
    <3>4. OldModelIsRedone'
      BY <1>a, <2>1, <3>2, <3>3 DEF ModelOf
    <3>5. ASSUME NEW x \in Items, Covered(x) PROVE Covered(x)'
      <4>1. AtHand(x) => AtHand(x)'
        <5> SUFFICES ASSUME NEW p \in Indexers, job[p].of = x,
                            \/ ix[p] = "read" /\ Carries(job[p])
                            \/ ix[p] = "embed" /\ got[p] = Current(x)
                     PROVE  AtHand(x)'
          BY DEF AtHand
        <5>1. p # r /\ job'[p] = job[p] /\ ix'[p] = ix[p] /\ got'[p] = got[p]
          BY <1>a, <2>1, <3>1, <3>2
        <5> QED
          BY <2>1, <5>1 DEF AtHand, Current, Carries, TextFor
      <4>2. Listed(x) => Listed(x)' \/ AtHand(x)'
        <5> SUFFICES ASSUME NEW q \in Reindexers, ix[q] \in {"next", "read", "embed"}, x \in left[q]
                     PROVE  Listed(x)' \/ AtHand(x)'
          BY DEF Listed
        <5>1. CASE q = r /\ x = s
          <6>1. job'[r] = Naming(x) /\ ix'[r] = "read"
            BY <1>a, <3>1, <3>2, <5>1
          <6>2. job'[r].of = x /\ TextFor(job[r])' = text'[x]
            BY <6>1 DEF Naming, TextFor
          <6> QED
            BY <1>a, <6>1, <6>2 DEF AtHand, Carries
        <5>2. CASE ~(q = r /\ x = s)
          <6>1. x \in left'[q] /\ ix'[q] \in {"next", "read", "embed"}
            BY <1>a, <3>1, <3>2, <5>2
          <6> QED
            BY <6>1 DEF Listed
        <5> QED
          BY <5>1, <5>2
      <4>3. Waiting(x) => Waiting(x)'
        BY <2>1 DEF Waiting, Queued, Written, Carries, TextFor
      <4> QED
        BY <2>1, <3>3, <3>5, <4>1, <4>2, <4>3 DEF Covered, Current
    <3> QED
      BY <2>1, <3>4, <3>5 DEF excused
  <2> QED
    BY <2>2, <2>3
<1>8. ASSUME NEW p \in Indexers, ReadTexts(p) PROVE Goal
  <2>1. /\ ix[p] = "read" /\ UNCHANGED <<applied, before, after, left, queue, req, vec,
                                          text, catching, wr, wjob, skipped>>
    BY <1>8 DEF ReadTexts
  <2>0. PICK s \in Items : s = job[p].of
    BY <1>c, <2>1
  <2> DEFINE row == [model |-> ModelOf(applied), text |-> TextFor(job[p])]
  <2>2. row = Current(s) <=> Carries(job[p])
    BY <2>0, CarriesCurrent
  <2>3. \A x \in Items : Waiting(x) => Waiting(x)'
    BY <2>1 DEF Waiting, Queued, Written, Carries, TextFor
  <2>4. CASE applied # Off /\ vec[s] = row
    <3>1. Through(p) /\ excused' \subseteq excused
          /\ (excused' # excused => row = Current(s) /\ excused' = excused \ {s})
      BY <1>8, <2>0, <2>4 DEF ReadTexts, Redone, excused
    <3>2. ReindexAhead' <=> ReindexAhead
      BY <1>a, <2>1, <3>1 DEF ReindexAhead, Through
    <3>3. OldModelIsRedone'
      BY <1>a, <2>1, <3>1, <3>2 DEF ModelOf, Through
    <3>4. row = Current(s) => Covered(s)'
      BY <2>1, <2>4 DEF Covered, Current
    <3>5. ASSUME NEW x \in Items, x # s \/ row # Current(s), Covered(x) PROVE Covered(x)'
      <4>1. AtHand(x) => AtHand(x)'
        <5> SUFFICES ASSUME NEW q \in Indexers, job[q].of = x,
                            \/ ix[q] = "read" /\ Carries(job[q])
                            \/ ix[q] = "embed" /\ got[q] = Current(x)
                     PROVE  AtHand(x)'
          BY DEF AtHand
        <5>1. q # p
          BY <2>0, <2>1, <2>2, <3>5
        <5>2. job'[q] = job[q] /\ got'[q] = got[q] /\ ix'[q] = ix[q]
          BY <3>1, <5>1 DEF Through
        <5> QED
          BY <2>1, <5>2 DEF AtHand, Current, Carries, TextFor
      <4>2. Listed(x) => Listed(x)'
        BY <1>a, <2>1, <3>1 DEF Listed, Through
      <4> QED
        BY <2>1, <2>3, <3>2, <3>5, <4>1, <4>2 DEF Covered, Current
    <3> HIDE DEF row
    <3> QED
      BY <2>1, <3>1, <3>3, <3>4, <3>5
  <2>5. CASE applied # Off /\ vec[s] # row
    <3>1. /\ got' = [got EXCEPT ![p] = row] /\ ix' = [ix EXCEPT ![p] = "embed"]
          /\ UNCHANGED <<job, lost, overtaken>>
      BY <1>8, <2>0, <2>5 DEF ReadTexts
    <3>2. ReindexAhead' <=> ReindexAhead
      BY <1>a, <2>1, <3>1 DEF ReindexAhead
    <3>3. row.model = ModelOf(applied)
      OBVIOUS
    <3> HIDE DEF row
    <3>4. OldModelIsRedone'
      BY <1>a, <2>1, <3>1, <3>2, <3>3 DEF ModelOf
    <3>5. ASSUME NEW x \in Items, Covered(x) PROVE Covered(x)'
      <4>1. AtHand(x) => AtHand(x)'
        <5> SUFFICES ASSUME NEW q \in Indexers, job[q].of = x,
                            \/ ix[q] = "read" /\ Carries(job[q])
                            \/ ix[q] = "embed" /\ got[q] = Current(x)
                     PROVE  AtHand(x)'
          BY DEF AtHand
        <5>1. CASE q = p
          <6>1. got'[p] = Current(x) /\ ix'[p] = "embed" /\ job'[p].of = x
            BY <2>0, <2>1, <2>2, <3>1, <5>1
          <6>2. Current(x)' = Current(x)
            BY <2>1 DEF Current
          <6> QED
            BY <6>1, <6>2 DEF AtHand
        <5>2. CASE q # p
          BY <2>1, <3>1, <5>2 DEF AtHand, Current, Carries, TextFor
        <5> QED
          BY <5>1, <5>2
      <4>2. Listed(x) => Listed(x)'
        BY <1>a, <2>1, <3>1 DEF Listed
      <4> QED
        BY <2>1, <2>3, <3>2, <3>5, <4>1, <4>2 DEF Covered, Current
    <3> QED
      BY <2>1, <3>1, <3>4, <3>5 DEF excused
  <2>6. CASE applied = Off
    BY <2>1, <2>6
  <2> QED
    BY <2>4, <2>5, <2>6
<1>9. ASSUME NEW p \in Indexers, Upsert(p) PROVE Goal
  <2>0. PICK s \in Items : s = job[p].of
    BY <1>9, <1>c DEF Upsert
  <2> DEFINE newer == vec[s].model = got[p].model /\ vec[s].text > got[p].text
  <2>1. /\ ix[p] = "embed" /\ Through(p) /\ vec' = [vec EXCEPT ![s] = got[p]]
        /\ UNCHANGED <<applied, before, after, left, queue, req, text, catching, wr, wjob, skipped>>
    BY <1>9, <2>0 DEF Upsert
  <2>2. excused' = IF newer THEN excused \cup {s}
                   ELSE IF got[p] = Current(s) THEN excused \ {s} ELSE excused
    BY <1>9, <2>0 DEF Upsert, Redone, excused
  <2>3. s \in Items /\ vec'[s] = got[p]
    BY <2>1
  <2>4. ReindexAhead' <=> ReindexAhead
    BY <1>a, <2>1 DEF ReindexAhead, Through
  <2>5. OldModelIsRedone'
    BY <1>a, <2>1, <2>4 DEF ModelOf, Through
  <2>6. \A x \in Items : Waiting(x) => Waiting(x)'
    BY <2>1 DEF Waiting, Queued, Written, Carries, TextFor
  <2>7. ASSUME NEW x \in Items, x # s \/ got[p] # Current(s) PROVE AtHand(x) => AtHand(x)'
    <3> SUFFICES ASSUME NEW q \in Indexers, job[q].of = x,
                        \/ ix[q] = "read" /\ Carries(job[q])
                        \/ ix[q] = "embed" /\ got[q] = Current(x)
                 PROVE  AtHand(x)'
      BY DEF AtHand
    <3>1. q # p
      BY <2>0, <2>1, <2>7
    <3>2. job'[q] = job[q] /\ got'[q] = got[q] /\ ix'[q] = ix[q]
      BY <2>1, <3>1 DEF Through
    <3> QED
      BY <2>1, <3>2 DEF AtHand, Current, Carries, TextFor
  <2>8. \A x \in Items : Listed(x) => Listed(x)'
    BY <1>a, <2>1 DEF Listed, Through
  <2>9. ASSUME NEW x \in Items, x # s, Covered(x) PROVE Covered(x)'
    BY <2>1, <2>4, <2>6, <2>7, <2>8, <2>9 DEF Covered, Current
  <2>10. ASSUME applied # Off, ~skipped, s \notin excused' PROVE Covered(s)'
    <3>1. CASE got[p] = Current(s)
      BY <2>1, <2>3, <3>1 DEF Covered, Current
    <3>2. CASE got[p] # Current(s)
      <4>1. ~newer /\ s \notin excused /\ Covered(s)
        BY <2>2, <2>3, <2>10, <3>2
      <4>2. vec[s] = Current(s) => ReindexAhead
        <5>1. ASSUME vec[s] = Current(s), got[p].model = ModelOf(applied) PROVE FALSE
          <6>1. vec[s].model = ModelOf(applied) /\ vec[s].text = text[s]
            BY <5>1 DEF Current
          <6>2. got[p].text # text[s]
            BY <3>2, <5>1 DEF Current, Rows
          <6>3. got[p].text <= text[s]
            BY <2>0, <2>1 DEF VersionsGrow
          <6>4. got[p].text \in Nat /\ text[s] \in Nat
            BY <1>b, <2>3
          <6> QED
            BY <4>1, <5>1, <6>1, <6>2, <6>3, <6>4
        <5> QED
          BY <1>a, <2>1, <2>10, <5>1 DEF WorkerIsUpToDate, Indexers
      <4>3. AtHand(s) => AtHand(s)'
        BY <2>7, <3>2
      <4> QED
        BY <2>1, <2>4, <2>6, <2>8, <4>1, <4>2, <4>3 DEF Covered
    <3> QED
      BY <3>1, <3>2
  <2>11. ASSUME NEW x \in Items, x # s, x \notin excused' PROVE x \notin excused
    BY <2>2, <2>11
  <2> QED
    BY <2>1, <2>5, <2>9, <2>10, <2>11
<1>10. ASSUME NEW p \in Indexers, EmbedFails(p) PROVE Goal
  <2>1. /\ ix[p] \in {"read", "embed"} /\ Through(p) /\ Lose({job[p].of})
        /\ UNCHANGED <<applied, before, after, left, queue, req, vec, text, catching, wr, wjob,
                       skipped>>
    BY <1>10 DEF EmbedFails
  <2>2. ReindexAhead' <=> ReindexAhead
    BY <1>a, <2>1 DEF ReindexAhead, Through
  <2>3. OldModelIsRedone'
    BY <1>a, <2>1, <2>2 DEF ModelOf, Through
  <2>4. excused \subseteq excused' /\ (job[p].of \in excused' \/ vec[job[p].of] = Current(job[p].of))
    BY <2>1 DEF Lose, excused
  <2>5. ASSUME NEW x \in Items \ excused', Covered(x) PROVE Covered(x)'
    <3>1. CASE x = job[p].of
      BY <2>1, <2>4, <2>5, <3>1 DEF Covered, Current
    <3>2. CASE x # job[p].of
      <4>1. \A q \in Indexers : job[q].of = x => q # p /\ job'[q] = job[q] /\ got'[q] = got[q] /\ ix'[q] = ix[q]
        BY <2>1, <3>2 DEF Through
      <4>2. AtHand(x) => AtHand(x)'
        <5> SUFFICES ASSUME NEW q \in Indexers, job[q].of = x,
                            \/ ix[q] = "read" /\ Carries(job[q])
                            \/ ix[q] = "embed" /\ got[q] = Current(x)
                     PROVE  AtHand(x)'
          BY DEF AtHand
        <5> QED
          BY <2>1, <4>1 DEF AtHand, Current, Carries, TextFor
      <4>3. Listed(x) => Listed(x)'
        BY <1>a, <2>1 DEF Listed, Through
      <4>4. Waiting(x) => Waiting(x)'
        BY <2>1 DEF Waiting, Queued, Written, Carries, TextFor
      <4> QED
        BY <2>1, <2>2, <2>5, <4>2, <4>3, <4>4 DEF Covered, Current
    <3> QED
      BY <3>1, <3>2
  <2> QED
    BY <2>1, <2>3, <2>4, <2>5
<1>11. ASSUME NEW p \in Requests, NEW c \in Configs \cup {Off}, PutSemantic(p, c)
       PROVE Goal
  <2>1. ReindexAhead => ReindexAhead'
    BY <1>11, <1>a DEF PutSemantic, ReindexAhead
  <2> QED
    BY <1>11, <2>1, NothingMoves DEF PutSemantic
<1>12. ASSUME NEW p \in Requests, LoadConfig(p) PROVE Goal
  <2>1. ReindexAhead => ReindexAhead'
    BY <1>12, <1>a DEF LoadConfig, ReindexAhead
  <2> QED
    BY <1>12, <2>1, NothingMoves DEF LoadConfig
<1>13. ASSUME NEW p \in Swappers, LockSwap(p) \/ LockSemMu(p) PROVE Goal
  <2>1. /\ \A q \in Requests : req[q] = "spawn" <=> req'[q] = "spawn"
        /\ UNCHANGED <<applied, before, after, ix, job, got, left, queue, vec, text,
                       catching, wr, wjob, lost, overtaken, skipped>>
    BY <1>13, <1>a DEF LockSwap, LockSemMu
  <2>2. ReindexAhead => ReindexAhead'
    BY <2>1 DEF ReindexAhead
  <2> QED
    BY <2>1, <2>2, NothingMoves
<1>14. ASSUME NEW p \in Requests, applyEmbedder(p) PROVE Goal
  <2>1. /\ applied' = after[p] /\ req[p] = "install" /\ req' = [req EXCEPT ![p] = "spawn"]
        /\ wr' = [w \in Writers |-> IF w \in SentTo THEN "idle" ELSE wr[w]]
        /\ wjob' = [w \in Writers |-> IF w \in SentTo THEN NoJob ELSE wjob[w]]
        /\ Lose({queue[i].of : i \in DOMAIN queue} \cup {wjob[w].of : w \in SentTo})
        /\ UNCHANGED <<before, after, ix, job, got, left, vec, text, catching>>
        /\ skipped' = (skipped \/ (/\ semanticLiveChangeNeeded(applied, after[p])
                                   /\ ~semanticLiveChangeNeeded(before[p], after[p])))
    BY <1>14 DEF applyEmbedder
  <2>2. CASE semanticLiveChangeNeeded(applied, after[p])
    <3>1. ~skipped' => ReindexAhead'
      BY <1>a, <2>1, <2>2 DEF ReindexAhead
    <3> QED
      BY <2>1, <3>1 DEF Covered
  <2>3. CASE ~semanticLiveChangeNeeded(applied, after[p])
    <3>1. CASE applied' # Off
      <4>1. applied # Off /\ ModelOf(applied') = ModelOf(applied)
        BY <2>1, <2>3, <3>1 DEF semanticLiveChangeNeeded, ModelOf
      <4>2. \A x \in Items : Current(x)' = Current(x)
        BY <2>1, <4>1 DEF Current
      <4>3. ReindexAhead => ReindexAhead'
        BY <1>a, <2>1 DEF ReindexAhead
      <4>4. skipped' = skipped
        BY <2>1, <2>3
      <4>5. ASSUME NEW x \in Items, x \notin excused', Covered(x) PROVE Covered(x)'
        <5>1. Queued(x) => vec[x] = Current(x)
          BY <2>1, <4>5 DEF Queued, Lose, excused
        <5>2. Written(x) => vec[x] = Current(x) \/ Written(x)'
          <6> SUFFICES ASSUME NEW w \in Writers, wr[w] # "idle", wjob[w].of = x, Carries(wjob[w])
                       PROVE  vec[x] = Current(x) \/ Written(x)'
            BY DEF Written
          <6>1. CASE w \in SentTo
            BY <2>1, <4>5, <6>1 DEF Lose, excused
          <6>2. CASE w \notin SentTo
            BY <2>1, <6>2 DEF Written, Carries, TextFor
          <6> QED
            BY <6>1, <6>2
        <5>3. AtHand(x) => AtHand(x)'
          BY <2>1, <4>2 DEF AtHand, Carries, TextFor
        <5>4. Listed(x) => Listed(x)'
          BY <2>1 DEF Listed
        <5> QED
          BY <2>1, <4>2, <4>3, <4>5, <5>1, <5>2, <5>3, <5>4 DEF Covered, Waiting
      <4>6. OldModelIsRedone'
        BY <2>1, <4>1, <4>3, <4>4
      <4>7. excused \subseteq excused'
        BY <2>1 DEF Lose, excused
      <4> QED
        BY <2>1, <4>1, <4>4, <4>5, <4>6, <4>7
    <3> QED
      BY <3>1
  <2> QED
    BY <2>2, <2>3
<1>15. ASSUME NEW p \in Requests, spawnSemanticReindex(p) PROVE Goal
  <2>1. /\ req[p] = "spawn" /\ req' = [req EXCEPT ![p] = "done"]
        /\ \A q \in Requests \ {p} : before'[q] = before[q] /\ after'[q] = after[q]
        /\ UNCHANGED <<applied, job, got, left, queue, vec, text, catching, wr, wjob,
                       lost, overtaken, skipped>>
    BY <1>15 DEF spawnSemanticReindex
  <2>2. /\ \A q \in Indexers : ix[q] # "idle" => ix'[q] = ix[q]
        /\ \A q \in Indexers : ix'[q] = "embed" => ix[q] = "embed"
        /\ ReindexAhead => ReindexAhead'
    <3>1. CASE semanticLiveChangeNeeded(before[p], after[p])
      <4> DEFINE free == CHOOSE r \in Reindexers : ix[r] = "idle"
      <4>0. free \in Reindexers /\ ix[free] = "idle" /\ ix' = [ix EXCEPT ![free] = "lock"]
        BY <1>15, <3>1 DEF spawnSemanticReindex
      <4> HIDE DEF free
      <4>1. PICK r \in Reindexers : ix[r] = "idle" /\ ix' = [ix EXCEPT ![r] = "lock"]
        BY <4>0
      <4>2. ix'[r] = "lock"
        BY <1>a, <4>1
      <4> QED
        BY <1>a, <4>1, <4>2 DEF ReindexAhead
    <3>2. CASE ~semanticLiveChangeNeeded(before[p], after[p])
      <4>1. ix' = ix
        BY <1>15, <3>2 DEF spawnSemanticReindex
      <4> QED
        BY <1>a, <2>1, <3>2, <4>1 DEF ReindexAhead
    <3> QED
      BY <3>1, <3>2
  <2>3. ASSUME NEW x \in Items, Covered(x) PROVE Covered(x)'
    <3>1. AtHand(x) => AtHand(x)'
      <4> SUFFICES ASSUME NEW q \in Indexers, job[q].of = x,
                          \/ ix[q] = "read" /\ Carries(job[q])
                          \/ ix[q] = "embed" /\ got[q] = Current(x)
                   PROVE  AtHand(x)'
        BY DEF AtHand
      <4>1. ix'[q] = ix[q]
        BY <2>2
      <4> QED
        BY <2>1, <4>1 DEF AtHand, Current, Carries, TextFor
    <3>2. Listed(x) => Listed(x)'
      BY <1>a, <2>1, <2>2 DEF Listed
    <3>3. Waiting(x) => Waiting(x)'
      BY <2>1 DEF Waiting, Queued, Written, Carries, TextFor
    <3> QED
      BY <2>1, <2>2, <2>3, <3>1, <3>2, <3>3 DEF Covered, Current
  <2>4. OldModelIsRedone'
    BY <1>a, <2>1, <2>2
  <2> QED
    BY <2>1, <2>3, <2>4 DEF excused
<1>16. ASSUME Close \/ stopSemantic \/ CloseDB PROVE Goal
  <2>1. /\ \A q \in Requests : req[q] = "spawn" <=> req'[q] = "spawn"
        /\ UNCHANGED <<applied, before, after, ix, job, got, left, queue, vec, text,
                       catching, wr, wjob, lost, overtaken, skipped>>
    BY <1>16, <1>a DEF Close, stopSemantic, CloseDB
  <2>2. ReindexAhead => ReindexAhead'
    BY <2>1 DEF ReindexAhead
  <2> QED
    BY <2>1, <2>2, NothingMoves
<1>17. ASSUME UNCHANGED vars PROVE Goal
  BY <1>17, NothingMoves DEF vars, ReindexAhead
<1> QED
  BY <1>a, <1>1, <1>2, <1>21, <1>22, <1>3, <1>4, <1>5, <1>6, <1>7, <1>8, <1>9, <1>10, <1>11, <1>12,
     <1>13, <1>14, <1>15, <1>16, <1>17
  DEF Next, WriterStep, WorkerStep, Reindex, RequestStep, CloseStep

LEMMA VectorInductive ==
  ASSUME Typed, CleanInv, VectorInv, [Next]_vars
  PROVE  VectorInv'
  BY ExcludeInductive, JobsAreOldInductive, CoveredInductive DEF VectorInv

\* Once everything has come to rest, through every swap, the vectors are those of
\* the current texts under the applied model, but for what is on record as lost
\* (semantic.go:32-35, local.go:129-133).
THEOREM VectorsEndCurrent == Spec => []VectorsAreCurrent
<1>1. ASSUME VectorInv PROVE VectorsAreCurrent
  <2> SUFFICES ASSUME Settled, applied # Off, ~skipped, NEW s \in Items \ excused
               PROVE  vec[s] = Current(s)
    BY DEF VectorsAreCurrent, excused
  <2>1. Covered(s)
    BY <1>1 DEF VectorInv, EverythingCovered
  <2>2. ~Waiting(s)
    BY DEF Settled, Waiting, Queued, Written
  <2>3. ~AtHand(s) /\ ~Listed(s) /\ ~ReindexAhead
    BY DEF Settled, AtHand, Listed, ReindexAhead, Indexers
  <2> QED
    BY <2>1, <2>2, <2>3 DEF Covered
<1>2. Spec => []CleanInv
  BY CleanInit, CleanInductive, TypedAlways, PTL DEF Spec
<1>3. Spec => []VectorInv
  BY <1>2, VectorInit, VectorInductive, TypedAlways, PTL DEF Spec
<1> QED
  BY <1>1, <1>3, PTL
=============================================================================
