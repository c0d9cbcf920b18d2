---------------------------- MODULE KnowledgeStore ----------------------------
(***************************************************************************)
(* One memory (internal/memory) or one saved example (internal/example):   *)
(* its files, its row in the SQLite index, the requests that change both   *)
(* in several unprotected steps, and the reindexes that rebuild the row    *)
(* from the files while people edit them.                                  *)
(*                                                                         *)
(* The stores treat every id apart, so the model follows one.  A place is  *)
(* a tier and a folder of it: the file name follows from the id.  A text   *)
(* is a number, a new one for every write.                                 *)
(***************************************************************************)
EXTENDS Naturals

CONSTANTS
    Clients,     \* requests in progress at the same time
    Kinds,       \* which stores: a subset of {"memory", "example"}
    Tiers,
    Folders,
    Root,        \* the tier's own directory among the folders
    PathRank,    \* where the path of a place comes when they are sorted
    Faults,      \* a subset of AllFaults
    MaxTexts,    \* bound: texts written by requests and editors
    MaxRequests, \* bound: requests
    MaxEdits     \* bound: changes of a file by an editor or by git

AllFaults == {"crash", "remove", "db"}
Places == Tiers \X Folders
Personal == <<"personal">>   \* a memory without a file
Nowhere == <<>>

ASSUME KindsAssumption == Kinds \subseteq {"memory", "example"} /\ Kinds # {}
ASSUME PlacesAssumption ==
    /\ Root \in Folders
    /\ PathRank \in [Places -> Nat]
    /\ \A p, q \in Places : PathRank[p] = PathRank[q] => p = q
ASSUME FaultsAssumption == Faults \subseteq AllFaults
ASSUME BoundsAssumption == MaxTexts \in Nat /\ MaxRequests \in Nat /\ MaxEdits \in Nat

Engine == "engine"           \* Open's and the watcher's reindex
Procs == Clients \cup {Engine}
ASSUME ClientsAssumption == Engine \notin Clients
Gone == 0
Malformed == MaxTexts + 1
Texts == 1 .. MaxTexts
NoRow == [place |-> Nowhere, text |-> Gone]
\* A request and a reindex when they begin; the fields of the other are unused.
Request(at, op, old, new, text) ==
    [at |-> at, op |-> op, old |-> old, new |-> new, text |-> text,
     todo |-> {}, seen |-> FALSE, clean |-> TRUE]
Reindexing(todo, clean) ==
    [at |-> "scan", op |-> "reindex", old |-> Nowhere, new |-> Nowhere, text |-> Gone,
     todo |-> todo, seen |-> FALSE, clean |-> clean]
Idle == Request("idle", "none", Nowhere, Nowhere, Gone)

VARIABLES
    kind,
    file,     \* per place: Gone, Malformed or the text
    row,
    job,      \* per process: the operation it is in
    phase,    \* the engine: "down", "opening" or "up"
    pending,  \* the watcher has seen a change it has not acted on
    texts, requests, edits,
    missed,   \* history: a change that no reindex to come will read
    alone,    \* history: no request has overlapped another one or an edit
    owed      \* history: texts one of which must still be stored

dataVars == <<file, row, texts>>
ghostVars == <<missed, alone, owed>>
vars == <<kind, dataVars, job, phase, pending, requests, edits, ghostVars>>

Readable(p) == file[p] \in Texts

TypeOK ==
    /\ kind \in Kinds
    /\ file \in [Places -> Texts \cup {Gone, Malformed}]
    /\ row = NoRow \/ (row.place \in Places \cup {Personal} /\ row.text \in Texts)
    /\ kind = "example" => row.place # Personal
    /\ \A p \in Procs :
         /\ job[p].at \in {"idle", "again", "write", "remove", "index", "unlink",
                           "deindex", "rename", "scan", "upsert", "drop"}
         /\ job[p].at \in {"write", "rename"} => job[p].new \in Places
         /\ job[p].at = "index" => job[p].text \in Texts
         /\ job[p].todo \subseteq Places
    /\ phase \in {"down", "opening", "up"}
    /\ texts \in 0 .. MaxTexts /\ requests \in 0 .. MaxRequests /\ edits \in 0 .. MaxEdits
    /\ {pending, missed, alone} \subseteq BOOLEAN /\ owed \subseteq Texts

Init ==
    /\ kind \in Kinds
    /\ file = [p \in Places |-> Gone] /\ row = NoRow
    /\ job = [p \in Procs |-> Idle]
    /\ phase = "up" /\ pending = FALSE
    /\ texts = 0 /\ requests = 0 /\ edits = 0
    /\ missed = FALSE /\ alone = TRUE /\ owed = {}

-----------------------------------------------------------------------------
(* What every step is made of *)

\* A file changed: the watcher, which runs in a daemon that is up, watches the
\* directories of memories and not those of examples.
FileChanges ==
    IF phase = "up" /\ kind = "memory"
    THEN pending' = TRUE /\ UNCHANGED missed
    ELSE missed' = TRUE /\ UNCHANGED pending

\* An error of os.Remove is ignored, and nothing wakes the watcher.
NotRemoved == missed' = TRUE /\ UNCHANGED <<file, pending>>

Step(p, j) == job' = [job EXCEPT ![p] = j]
Ends(p) == Step(p, Idle)

\* A request enters: \E old place and text by Get, then its first write.
Enters(c) ==
    /\ phase = "up" /\ job[c] = Idle
    /\ requests < MaxRequests /\ requests' = requests + 1
    /\ alone' = (alone /\ \A d \in Clients : job[d] = Idle)

\* Get finds the row, and an example's file behind it.
Found == /\ row # NoRow
         /\ kind = "example" => Readable(row.place)
Text == IF kind = "example" THEN file[row.place] ELSE row.text
Folder(p) == IF p = Personal THEN Root ELSE p[2]

\* What a step of a request leaves alone besides what it names.
Same(c) == UNCHANGED <<kind, phase, edits>>

\* Mutant: every kind has a personal scope.
TargetsOfAll(folder) == {<<t, folder>> : t \in Tiers} \cup {Personal}
\* DirFor and PathFor: a tier and a folder; the personal scope has no file.
Targets(folder) == {<<t, folder>> : t \in Tiers}
                     \cup (IF kind = "memory" THEN {Personal} ELSE {})

-----------------------------------------------------------------------------
(* Create, Update, Move *)

\* A memory gets an id of its own; an example's must not be in the index.
Create(c) ==
    /\ Enters(c) /\ texts < MaxTexts
    /\ IF kind = "memory" THEN texts = 0 ELSE row = NoRow
    /\ \E to \in UNION {Targets(f) : f \in Folders} :
         Step(c, Request(IF to = Personal THEN "index" ELSE "write",
                         "create", Nowhere, to, texts + 1))
    /\ texts' = texts + 1
    /\ UNCHANGED <<file, row, pending, missed, owed>> /\ Same(c)

\* The path an update writes to: the tier it names, or the one the item is
\* in, and the folder the item is in.
NewPath(tier) ==
    IF tier = Nowhere THEN row.place
    ELSE IF tier = Personal THEN Personal
    ELSE <<tier[1], Folder(row.place)>>

\* Update reads the row and goes on to write the file, or to remove it when
\* the memory becomes personal.
Get(c, tier, text, op) ==
    LET to == NewPath(tier)
    IN  Step(c, Request(IF to # Personal THEN "write"
                        ELSE IF row.place = Personal THEN "index" ELSE "remove",
                        op, row.place, to, text))

Update(c) ==
    /\ Enters(c) /\ texts < MaxTexts
    /\ Found
    /\ \E tier \in {Nowhere} \cup Targets(Root) : Get(c, tier, texts + 1, "update")
    /\ texts' = texts + 1
    /\ UNCHANGED <<file, row, pending, missed, owed>> /\ Same(c)

\* The engine's Move reads the whole item, and hands it to Update with another
\* tier; Update reads the row again.
Move(c) ==
    /\ Enters(c)
    /\ Found /\ row.place # Personal
    /\ \E tier \in Tiers \ {row.place[1]} :
         Step(c, Request("again", "move", Nowhere, <<tier, Root>>, Text))
    /\ UNCHANGED <<file, row, texts, pending, missed, owed>> /\ Same(c)

MoveAgain(c) ==
    /\ job[c].at = "again"
    /\ IF Found THEN Get(c, job[c].new, job[c].text, "move") ELSE Ends(c)
    /\ UNCHANGED <<file, row, texts, requests, pending, ghostVars>> /\ Same(c)

\* A temporary file renamed over the path: another reader sees all or nothing.
\* The texts owed: the ones there were, or the one being written.
WriteFile(c) ==
    LET j == job[c]
    IN  /\ j.at = "write"
        /\ file' = [file EXCEPT ![j.new] = j.text]
        /\ Step(c, [j EXCEPT !.at = IF j.old \in {Nowhere, Personal, j.new}
                                    THEN "index" ELSE "remove"])
        /\ FileChanges
        /\ owed' = IF owed = {} THEN {} ELSE owed \cup {j.text}
        /\ UNCHANGED <<row, texts, requests, alone>> /\ Same(c)

\* The old file goes once the new one is there.  A memory that becomes
\* personal has no new file: until its row is written nothing is owed.
RemoveOld(c) ==
    LET j == job[c]
    IN  /\ j.at = "remove"
        /\ Step(c, [j EXCEPT !.at = "index"])
        /\ owed' = IF j.new = Personal THEN {} ELSE owed
        /\ \/ /\ file' = [file EXCEPT ![j.old] = Gone]
              /\ FileChanges
           \/ "remove" \in Faults /\ NotRemoved
        /\ UNCHANGED <<row, texts, requests, alone>> /\ Same(c)

\* The row of a memory that is and stays personal changes without any file's
\* doing so: if there is a file for it, nothing brings the two together.
RowAlone(j) ==
    missed' = (missed \/ ({j.old, j.new} \subseteq {Personal, Nowhere}
                            /\ \E p \in Places : Readable(p)))

\* What a request that wrote its row has promised.  A personal memory is its
\* row alone: it is not safe from a reindex that began before, nor from a file
\* that could not be removed.
Owed(j) ==
    IF j.new = Personal
       /\ ((\E p \in Procs : job[p].op = "reindex") \/ \E p \in Places : Readable(p))
    THEN {} ELSE {j.text}

\* The request returns.  What it wrote is owed from now on; if the index
\* refused it, only what it said before may be relied on.
Index(c) ==
    LET j == job[c]
    IN  /\ j.at = "index"
        /\ Ends(c)
        /\ \/ /\ row' = [place |-> j.new, text |-> j.text]
              /\ owed' = IF j.op = "folder" THEN owed ELSE Owed(j)
           \/ "db" \in Faults /\ UNCHANGED <<row, owed>>
        /\ RowAlone(j)
        /\ UNCHANGED <<file, texts, requests, pending, alone>> /\ Same(c)

-----------------------------------------------------------------------------
(* Delete and MoveFolder *)

Delete(c) ==
    /\ Enters(c)
    /\ Found
    /\ Step(c, Request(IF row.place = Personal THEN "deindex" ELSE "unlink",
                       "delete", row.place, Nowhere, Gone))
    /\ owed' = {}
    /\ UNCHANGED <<file, row, texts, pending, missed>> /\ Same(c)

Unlink(c) ==
    LET j == job[c]
    IN  /\ j.at = "unlink"
        /\ Step(c, [j EXCEPT !.at = "deindex"])
        /\ \/ /\ file' = [file EXCEPT ![j.old] = Gone]
              /\ FileChanges
           \/ "remove" \in Faults /\ NotRemoved
        /\ UNCHANGED <<row, texts, requests, alone, owed>> /\ Same(c)

Deindex(c) ==
    /\ job[c].at = "deindex"
    /\ Ends(c)
    /\ row' = NoRow \/ ("db" \in Faults /\ UNCHANGED row)
    /\ RowAlone(job[c])
    /\ UNCHANGED <<file, texts, requests, pending, alone, owed>> /\ Same(c)

\* Nothing may be at the destination when MoveFolder looks.
MoveFolder(c) ==
    /\ Enters(c)
    /\ Found /\ row.place # Personal
    /\ \E f \in Folders \ {row.place[2]} :
         LET to == <<row.place[1], f>>
         IN  /\ file[to] = Gone
             /\ Step(c, Request("rename", "folder", row.place, to, Text))
    /\ UNCHANGED <<file, row, texts, pending, missed, owed>> /\ Same(c)

\* The file moves as it is; what is indexed for it is what Get had read.
Rename(c) ==
    LET j == job[c]
    IN  /\ j.at = "rename"
        /\ IF file[j.old] = Gone
           THEN Ends(c) /\ UNCHANGED <<file, pending, missed>>
           ELSE /\ file' = [file EXCEPT ![j.new] = file[j.old], ![j.old] = Gone]
                /\ Step(c, [j EXCEPT !.at = "index"])
                /\ FileChanges
        /\ UNCHANGED <<row, texts, requests, alone, owed>> /\ Same(c)

-----------------------------------------------------------------------------
(* Reindex, for the engine and for a request *)

FilesThere == {p \in Places : file[p] # Gone}
First(todo) == CHOOSE p \in todo : \A q \in todo : PathRank[p] <= PathRank[q]

\* No request has changed a file and still to write its row.
Prompt == \A c \in Clients : job[c].at \notin {"remove", "index", "deindex"}

\* A reindex that starts reads every change made before it.
Reindex(p) ==
    /\ Step(p, Reindexing(FilesThere, Prompt /\ \A q \in Procs : job[q].op # "reindex"))
    /\ missed' = FALSE

ReindexRequest(c) ==
    /\ Enters(c) /\ Reindex(c)
    /\ UNCHANGED <<file, row, texts, pending, owed>> /\ Same(c)

\* The next file of the list; one that does not parse, or has gone, is passed.
ReadNext(p) ==
    LET j == job[p]  f == First(j.todo)
    IN  /\ j.at = "scan" /\ j.todo # {}
        /\ Step(p, IF Readable(f)
                   THEN [j EXCEPT !.at = "upsert", !.todo = @ \ {f}, !.new = f, !.text = file[f]]
                   ELSE [j EXCEPT !.todo = @ \ {f}])
        /\ UNCHANGED <<kind, dataVars, phase, pending, requests, edits, ghostVars>>

\* A reindex that failed, that another one overlapped, or that began between
\* the file and the row of a request, may leave the row behind the files.
Breaks(p) == Ends(p) /\ missed' = TRUE
Completes(p) ==
    /\ Ends(p)
    /\ missed' = (missed \/ ~job[p].clean \/ \E q \in Procs \ {p} : job[q].op = "reindex")

\* Mutant: a row that exists is left as it is.
InsertedIfNew(j) == IF row = NoRow THEN [place |-> j.new, text |-> j.text] ELSE row
Upserted(j) == [place |-> j.new, text |-> j.text]
Upsert(p) ==
    LET j == job[p]
    IN  /\ j.at = "upsert"
        /\ \/ /\ row' = Upserted(j)
              /\ Step(p, [j EXCEPT !.at = "scan", !.seen = TRUE])
              /\ UNCHANGED missed
           \/ "db" \in Faults /\ Breaks(p) /\ UNCHANGED row
        /\ UNCHANGED <<kind, file, texts, phase, pending, requests, edits, alone, owed>>

\* Mutant: personal rows are not told from the others.
StaleAnyScope(j) == row # NoRow /\ ~j.seen
\* The rows whose file was not read, personal ones apart.
Stale(j) == row # NoRow /\ row.place # Personal /\ ~j.seen

SelectStale(p) ==
    LET j == job[p]
    IN  /\ j.at = "scan" /\ j.todo = {}
        /\ IF Stale(j) THEN Step(p, [j EXCEPT !.at = "drop"]) /\ UNCHANGED missed
                       ELSE Completes(p)
        /\ UNCHANGED <<kind, dataVars, phase, pending, requests, edits, alone, owed>>

\* By id, whatever the row has become.
Drop(p) ==
    /\ job[p].at = "drop"
    /\ \/ row' = NoRow /\ Completes(p)
       \/ "db" \in Faults /\ Breaks(p) /\ UNCHANGED row
    /\ UNCHANGED <<kind, file, texts, phase, pending, requests, edits, alone, owed>>

-----------------------------------------------------------------------------
(* The engine, editors and crashes *)

OnWatchChange ==
    /\ phase = "up" /\ pending /\ job[Engine] = Idle
    /\ pending' = FALSE
    /\ Reindex(Engine)
    /\ UNCHANGED <<kind, dataVars, phase, requests, edits, alone, owed>>

\* Open reindexes when the fingerprint of a directory is not the one stored by
\* an earlier Open.  Changes made and undone since then go unseen (module
\* FlowTiers has the fingerprints themselves).
Open ==
    /\ phase = "down"
    /\ phase' = "opening"
    /\ Reindex(Engine) \/ UNCHANGED <<job, missed>>
    /\ UNCHANGED <<kind, dataVars, pending, requests, edits, alone, owed>>

Opened ==
    /\ phase = "opening" /\ job[Engine] = Idle
    /\ phase' = "up"
    /\ UNCHANGED <<kind, dataVars, job, pending, requests, edits, ghostVars>>

\* The process dies between two steps of anything.
Crash ==
    /\ "crash" \in Faults /\ phase # "down"
    /\ phase' = "down"
    /\ job' = [p \in Procs |-> Idle]
    /\ missed' = (missed \/ pending \/ \E p \in Procs : job[p] # Idle)
    /\ pending' = FALSE
    /\ UNCHANGED <<kind, dataVars, requests, edits, alone, owed>>

\* An editor or git writes, breaks, creates or removes a file.
Edit ==
    /\ edits < MaxEdits /\ edits' = edits + 1
    /\ \E p \in Places, to \in {Gone, Malformed} \cup ({texts + 1} \cap Texts) :
         /\ file[p] # to
         /\ file' = [file EXCEPT ![p] = to]
         /\ texts' = IF to \in Texts THEN to ELSE texts
    /\ FileChanges
    /\ owed' = {}
    /\ alone' = (alone /\ \A c \in Clients : job[c] = Idle)
    /\ UNCHANGED <<kind, row, job, phase, requests>>

RequestStep(c) ==
    \/ Create(c) \/ Update(c) \/ Move(c) \/ MoveAgain(c)
    \/ WriteFile(c) \/ RemoveOld(c) \/ Index(c)
    \/ Delete(c) \/ Unlink(c) \/ Deindex(c) \/ MoveFolder(c) \/ Rename(c)
    \/ ReindexRequest(c)
ReindexStep(p) == ReadNext(p) \/ Upsert(p) \/ SelectStale(p) \/ Drop(p)

Next ==
    \/ \E c \in Clients : RequestStep(c)
    \/ \E p \in Procs : ReindexStep(p)
    \/ OnWatchChange \/ Open \/ Opened \/ Crash \/ Edit

Spec == Init /\ [][Next]_vars

-----------------------------------------------------------------------------
(* Properties *)

LastReadable(p) ==
    Readable(p) /\ \A q \in Places : Readable(q) => PathRank[q] <= PathRank[p]
RowMatchesFiles ==
    \/ \E p \in Places : LastReadable(p) /\ row = [place |-> p, text |-> file[p]]
    \/ /\ \A p \in Places : ~Readable(p)
       /\ row = NoRow \/ row.place = Personal \/ FilesThere # {}

\* "Files are the source of truth" (PLAN.md:843): once every change has been
\* read, searches and opens show the last readable file in path order, and
\* nothing when no file is left; of an item whose only files do not parse, which
\* is to keep "whatever was last indexed" (memory/store.go:379), nothing is asked
\* here.  Requests, reindexes, editors, failing writes and crashes may come in
\* any order, each between any two steps of another; `missed` says where the code
\* has nothing that would read a change.
SettledRowMatchesFiles ==
    ~pending /\ ~missed /\ (\A p \in Procs : job[p] = Idle) => RowMatchesFiles

\* "moving it if the scope changed, removing the old file" (memory/store.go:91):
\* the text of the last request that succeeded, or of the one that was cut
\* short after it, is in a file, or in the row of a personal memory, whatever
\* reindexes and crashes did.  Requests that overlap on one item give up this
\* promise: each removes what its own reading of the row called the old file.
Holds(t) == (\E p \in Places : file[p] = t) \/ (row.place = Personal /\ row.text = t)
TextIsKept == alone /\ owed # {} => \E t \in owed : Holds(t)
=============================================================================
