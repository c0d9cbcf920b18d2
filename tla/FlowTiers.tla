------------------------------ MODULE FlowTiers ------------------------------
(***************************************************************************)
(* Flows in their tiers (engine/local/flows.go): a flow is a YAML file in  *)
(* a tier's flows directory, its row in the catalog is keyed by the id     *)
(* alone, and every operation rebuilds all the rows of the tiers it        *)
(* touched (reindexOwnerFlows, catalog.UpsertFlows).  The watcher and Open *)
(* rebuild them too, while people and agents edit, move, break and remove  *)
(* the files, and the process may die at any moment.                       *)
(*                                                                         *)
(* A place is a tier and a path in it.  A file created without a path is   *)
(* named after its flow's id; one created at a path may have any name, here *)
(* one that is no flow's id, and no two flows one path.  A text is a       *)
(* number, a new one for every write.  The service tier, whose rows        *)
(* service syncs replace as well, is left out.                             *)
(***************************************************************************)
EXTENDS Naturals, Sequences, FiniteSets, SequencesExt

CONSTANTS
    Clients,     \* requests in progress at the same time
    Ids,
    Places,      \* bound: a tier and a path each
    Root,        \* the default path, in the tier's own directory
    Named,       \* the places whose file name is the flow's id
    Faults,      \* a subset of AllFaults
    MaxTexts,    \* bound: texts written by requests and editors
    MaxRequests, \* bound: requests
    MaxEdits     \* bound: changes of a file by an editor, an agent or git

AllFaults == {"crash", "db", "volumes"}
Tiers == {"local", "workspace"}
Engine == "engine"           \* Open's and the watcher's rebuilds
Procs == Clients \cup {Engine}
Gone == 0
Malformed == MaxTexts + 1
Texts == 1 .. MaxTexts
Nowhere == <<>>
NoRow == [place |-> Nowhere, text |-> Gone]
Tier(p) == p[1]
NoOne == "none"

ASSUME IdsAssumption == NoOne \notin Ids /\ IsFiniteSet(Ids)
ASSUME ClientsAssumption == Engine \notin Clients
ASSUME PlacesAssumption ==
    /\ \A p \in Places : p = <<p[1], p[2]>> /\ p[1] \in Tiers
    /\ Tiers \X {Root} \subseteq Named /\ Named \subseteq Places
    /\ IsFiniteSet(Places)
ASSUME FaultsAssumption == Faults \subseteq AllFaults
ASSUME BoundsAssumption == MaxTexts \in Nat /\ MaxRequests \in Nat /\ MaxEdits \in Nat

VARIABLES
    file,     \* per id and place: Gone, Malformed or the text
    row,      \* per id
    job,      \* per process: the operation it is in
    phase,    \* the engine: "down", "opening" or "up"
    pending,  \* the watcher has seen a change it has not acted on
    stored,   \* per tier: the fingerprint an Open recorded last
    texts, requests, edits,
    touched,  \* history: tiers with a change since their fingerprint was stored
    missed,   \* history: a change that no rebuild to come will read
    alone,    \* history: ids no request on which overlapped another or an edit
    owed      \* history: per id, the texts that nobody replaced or deleted

dataVars == <<file, row, texts>>
ghostVars == <<touched, missed, alone, owed>>
vars == <<dataVars, job, phase, pending, stored, requests, edits, ghostVars>>

Idle == [at |-> "idle", op |-> "none", id |-> NoOne, old |-> Nowhere, new |-> Nowhere,
         text |-> Gone, tiers |-> <<>>, prev |-> {}, todo |-> <<>>, listed |-> {},
         found |-> <<>>, areas |-> <<>>, fp |-> {}]

Readable(i, p) == file[i][p] \in Texts
ListedIn(i, t) == row[i] # NoRow /\ Tier(row[i].place) = t

\* Mutant: only the files directly in the tier's directory.
FilesAtTop(t) == {x \in Ids \X {<<t, Root>>} : file[x[1]][x[2]] # Gone}
\* The flow files of a tier, at any depth.
FilesIn(t) == {x \in Ids \X Places : Tier(x[2]) = t /\ file[x[1]][x[2]] # Gone}

\* Mutant: of both tiers together.
FingerprintOfAll(t) == {<<x, file[x[1]][x[2]]>> : x \in FilesIn("local") \cup FilesIn("workspace")}
\* Name, time and size of every file: a rename keeps the time.
Fingerprint(t) == {<<x, file[x[1]][x[2]]>> : x \in FilesIn(t)}

TypeOK ==
    /\ file \in [Ids -> [Places -> Texts \cup {Gone, Malformed}]]
    /\ \A i \in Ids : row[i] = NoRow \/ (row[i].place \in Places /\ row[i].text \in Texts)
    /\ \A p \in Procs :
         /\ job[p].at \in {"idle", "save", "move", "leave", "unlink",
                           "list", "rows", "parse", "upsert", "check"}
         /\ job[p].at \in {"save", "move", "leave", "unlink"} => job[p].id \in Ids
         /\ job[p].at \in {"list", "rows", "parse", "upsert"} => job[p].tiers # <<>>
         /\ \A x \in ToSet(job[p].found) :
              x.text \in Texts /\ \E q \in Places : <<x.id, q>> \in job[p].listed
    /\ phase \in {"down", "opening", "up"}
    /\ \A t \in Tiers : \A x \in stored[t] : Tier(x[1][2]) = t
    /\ touched \subseteq Tiers
    /\ texts \in 0 .. MaxTexts /\ requests \in 0 .. MaxRequests /\ edits \in 0 .. MaxEdits
    /\ {pending, missed} \subseteq BOOLEAN
    /\ alone \subseteq Ids /\ owed \in [Ids -> SUBSET Texts]

Init ==
    /\ file = [i \in Ids |-> [p \in Places |-> Gone]] /\ row = [i \in Ids |-> NoRow]
    /\ job = [p \in Procs |-> Idle]
    /\ phase = "up" /\ pending = FALSE /\ stored = [t \in Tiers |-> {}]
    /\ texts = 0 /\ requests = 0 /\ edits = 0
    /\ touched = {} /\ missed = FALSE
    /\ alone = Ids /\ owed = [i \in Ids |-> {}]

-----------------------------------------------------------------------------
(* What the operations are made of *)

Step(p, j) == job' = [job EXCEPT ![p] = j]
Ends(p) == Step(p, Idle)
Rebuild(j, tiers) == [j EXCEPT !.at = "list", !.tiers = tiers,
                               !.prev = {}, !.listed = {}, !.found = <<>>]
\* A request that has changed its files goes on to rebuild their tiers.
ThenRebuild(j) == Rebuild([Idle EXCEPT !.id = j.id], j.tiers)

\* Files change: a daemon that is up has a watcher that sees it.
Changes(i, new) ==
    /\ file' = [file EXCEPT ![i] = new]
    /\ touched' = touched \cup {Tier(p) : p \in {q \in Places : new[q] # file[i][q]}}
    /\ IF phase = "up" THEN pending' = TRUE /\ UNCHANGED missed
                       ELSE missed' = TRUE /\ UNCHANGED pending

\* The text at p is replaced or deleted by somebody who may.
NotOwed(i, p) == owed[i] \ {file[i][p]}

Enters(c, i) ==
    /\ phase = "up" /\ job[c] = Idle
    /\ requests < MaxRequests /\ requests' = requests + 1
    /\ alone' = IF \E d \in Clients : job[d].id = i THEN alone \ {i} ELSE alone

-----------------------------------------------------------------------------
(* The requests *)

\* Mutant: the row is looked at, the file is not.
NoRowYet(i, p) == row[i] = NoRow
\* CreateIn refuses to overwrite a file and to reuse an id.
Free(i, p) == file[i][p] = Gone /\ row[i] = NoRow

CreateIn(c) ==
    \E i \in Ids, to \in Places :
       /\ Enters(c, i) /\ texts < MaxTexts /\ texts' = texts + 1
       /\ Free(i, to)
       /\ Step(c, [Idle EXCEPT !.at = "save", !.op = "create", !.id = i, !.new = to,
                               !.text = texts + 1, !.tiers = <<Tier(to)>>])
       /\ UNCHANGED <<file, row, phase, pending, stored, edits, touched, missed, owed>>

\* An update goes to the path of the row, whether or not its file is there.
Update(c) ==
    \E i \in Ids :
       /\ Enters(c, i) /\ texts < MaxTexts /\ texts' = texts + 1
       /\ row[i] # NoRow
       /\ Step(c, [Idle EXCEPT !.at = "save", !.op = "update", !.id = i,
                               !.new = row[i].place, !.text = texts + 1,
                               !.tiers = <<Tier(row[i].place)>>])
       /\ UNCHANGED <<file, row, phase, pending, stored, edits, touched, missed, owed>>

\* flow.Save renames a finished temporary file over the path.
Save(c) ==
    LET j == job[c]
        kept == IF j.op = "update" THEN NotOwed(j.id, j.new) ELSE owed[j.id]
    IN  /\ j.at = "save"
        /\ Changes(j.id, [file[j.id] EXCEPT ![j.new] = j.text])
        /\ Step(c, ThenRebuild(j))
        /\ owed' = [owed EXCEPT ![j.id] = kept \cup {j.text}]
        /\ UNCHANGED <<row, texts, phase, stored, requests, edits, alone>>

\* RescopeWith keeps the path, Move keeps the tier and the file's name.
\* RescopeWith rebuilds the tier the flow left before the one it joined: an id has
\* one row at most.
Relocated(p) ==
    {q \in Places : (q[1] = p[1]) # (q[2] = p[2]) /\ (q \in Named) = (p \in Named)}
TiersOfMove(old, new) ==
    IF Tier(old) = Tier(new) THEN <<Tier(old)>> ELSE <<Tier(old), Tier(new)>>

Relocate(c) ==
    \E i \in Ids :
       /\ Enters(c, i)
       /\ row[i] # NoRow
       /\ \E to \in Relocated(row[i].place) :
            /\ file[i][to] = Gone
            /\ Step(c, [Idle EXCEPT !.at = "move", !.op = "relocate", !.id = i,
                                    !.old = row[i].place, !.new = to,
                                    !.tiers = TiersOfMove(row[i].place, to)])
       /\ UNCHANGED <<dataVars, phase, pending, stored, edits, touched, missed, owed>>

\* moveFile: one rename, or a copy and then a removal between two volumes.
MoveFile(c) ==
    LET j == job[c]  text == file[j.id][j.old]
    IN  /\ j.at = "move"
        /\ \/ /\ text = Gone
              /\ Ends(c) /\ UNCHANGED <<file, touched, pending, missed>>
           \/ /\ text # Gone
              /\ Changes(j.id, [file[j.id] EXCEPT ![j.new] = text, ![j.old] = Gone])
              /\ Step(c, ThenRebuild(j))
           \/ /\ text # Gone /\ "volumes" \in Faults /\ Tier(j.old) # Tier(j.new)
              /\ IF file[j.id][j.new] = Gone
                 THEN /\ Changes(j.id, [file[j.id] EXCEPT ![j.new] = text])
                      /\ Step(c, [j EXCEPT !.at = "leave"])
                 ELSE Ends(c) /\ UNCHANGED <<file, touched, pending, missed>>
        /\ UNCHANGED <<row, texts, phase, stored, requests, edits, alone, owed>>

LeaveOld(c) ==
    LET j == job[c]
    IN  /\ j.at = "leave"
        /\ IF file[j.id][j.old] = Gone
           THEN Ends(c) /\ UNCHANGED <<file, touched, pending, missed>>
           ELSE /\ Changes(j.id, [file[j.id] EXCEPT ![j.old] = Gone])
                /\ Step(c, ThenRebuild(j))
        /\ UNCHANGED <<row, texts, phase, stored, requests, edits, alone, owed>>

Delete(c) ==
    \E i \in Ids :
       /\ Enters(c, i)
       /\ row[i] # NoRow
       /\ Step(c, [Idle EXCEPT !.at = "unlink", !.op = "delete", !.id = i,
                               !.old = row[i].place, !.tiers = <<Tier(row[i].place)>>])
       /\ UNCHANGED <<dataVars, phase, pending, stored, edits, touched, missed, owed>>

Unlink(c) ==
    LET j == job[c]
    IN  /\ j.at = "unlink"
        /\ IF file[j.id][j.old] # Gone
           THEN Changes(j.id, [file[j.id] EXCEPT ![j.old] = Gone])
           ELSE UNCHANGED <<file, touched, pending, missed>>
        /\ Step(c, ThenRebuild(j))
        /\ owed' = [owed EXCEPT ![j.id] = NotOwed(j.id, j.old)]
        /\ UNCHANGED <<row, texts, phase, stored, requests, edits, alone>>

-----------------------------------------------------------------------------
(* reindexOwnerFlows: list the files and the rows, parse, replace the rows *)

sameInRebuild == <<file, texts, phase, pending, requests, edits, alone, owed>>

RowsIn(t) == {[id |-> i, place |-> row[i].place, text |-> row[i].text] :
                i \in {k \in Ids : ListedIn(k, t)}}

\* Only files that do not parse need the rows.
List(p) ==
    LET j == job[p]  files == FilesIn(Head(j.tiers))
    IN  /\ j.at = "list"
        /\ Step(p, [j EXCEPT !.at = IF files = {} THEN "upsert" ELSE "rows",
                             !.todo = SetToSeq(files), !.listed = files])
        /\ UNCHANGED <<row, stored, touched, missed, sameInRebuild>>

\* When they cannot be read the rebuild goes on without them.
ReadRows(p) ==
    LET j == job[p]
    IN  /\ j.at = "rows"
        /\ \E rows \in {RowsIn(Head(j.tiers))} \cup (IF "db" \in Faults THEN {{}} ELSE {}) :
             Step(p, [j EXCEPT !.at = "parse", !.prev = rows])
        /\ UNCHANGED <<row, stored, touched, missed, sameInRebuild>>

\* Mutant: a file that does not parse keeps the row of its path only.
SummaryOfPath(j, i, p) ==
    IF Readable(i, p) THEN {[id |-> i, place |-> p, text |-> file[i][p]]}
                      ELSE {x \in j.prev : x.id = i /\ x.place = p}
\* A file that does not parse keeps the row of its path, or else that of the id
\* its name says.
Summary(j, i, p) ==
    IF Readable(i, p) THEN {[id |-> i, place |-> p, text |-> file[i][p]]}
                      ELSE {x \in j.prev : x.id = i /\ (x.place = p \/ p \in Named)}

ParseNext(p) ==
    LET j == job[p]  next == Head(j.todo)
    IN  /\ j.at = "parse"
        /\ Step(p, [j EXCEPT !.todo = Tail(@),
                             !.found = @ \o SetToSeq(Summary(j, next[1], next[2])),
                             !.at = IF Len(j.todo) = 1 THEN "upsert" ELSE "parse"])
        /\ UNCHANGED <<row, stored, touched, missed, sameInRebuild>>

\* The id is the table's primary key: two files of one id in the tier, or a
\* row of that id in another, fail the transaction.
Unique(j) ==
    /\ \A a, b \in DOMAIN j.found : a # b => j.found[a].id # j.found[b].id
    /\ \A x \in ToSet(j.found) : row[x.id] # NoRow => ListedIn(x.id, Head(j.tiers))

Replaced(j) ==
    [i \in Ids |->
       IF \E x \in ToSet(j.found) : x.id = i
       THEN LET x == CHOOSE y \in ToSet(j.found) : y.id = i
            IN  [place |-> x.place, text |-> x.text]
       ELSE IF ListedIn(i, Head(j.tiers)) THEN NoRow ELSE row[i]]

\* After the last tier, or a failure, a request returns; Open goes on with the
\* next area it checks, and records the fingerprint of one that was rebuilt.
Finishes(p, ok) ==
    LET j == job[p]
    IN  IF j.op # "open" THEN Ends(p) /\ UNCHANGED <<stored, touched>>
        ELSE /\ Step(p, [Idle EXCEPT !.at = "check", !.op = "open", !.areas = Tail(j.areas)])
             /\ IF ok THEN stored' = [stored EXCEPT ![Head(j.areas)] = j.fp] /\ UNCHANGED touched
                      ELSE touched' = touched \cup {Head(j.areas)} /\ UNCHANGED stored

\* A tier is done; or the operation fails, and the tiers after it are left.
Upsert(p) ==
    LET j == job[p]
    IN  /\ j.at = "upsert"
        /\ \/ /\ Unique(j) /\ row' = Replaced(j)
              /\ IF Len(j.tiers) = 1 THEN Finishes(p, TRUE)
                 ELSE Step(p, Rebuild(j, Tail(j.tiers))) /\ UNCHANGED <<stored, touched>>
              /\ UNCHANGED missed
           \/ /\ ~Unique(j) \/ "db" \in Faults
              /\ Finishes(p, FALSE)
              /\ missed' = (missed \/ p = Engine)
              /\ UNCHANGED row
        /\ UNCHANGED sameInRebuild

-----------------------------------------------------------------------------
(* The engine, editors and crashes *)

\* The workspace area is both tiers, for the watcher and for Open.
BothTiers == <<"workspace", "local">>

\* A request that is between its file and its rows when the watcher flushes may
\* write its rows last, from files it had read before.
BetweenFileAndRows(c) == job[c].at \in {"leave", "list", "rows", "parse", "upsert"}

OnWatchChange ==
    /\ phase = "up" /\ pending /\ job[Engine] = Idle
    /\ pending' = FALSE
    /\ missed' = \E c \in Clients : BetweenFileAndRows(c)
    /\ Step(Engine, Rebuild([Idle EXCEPT !.op = "watch"], BothTiers))
    /\ UNCHANGED <<dataVars, phase, stored, requests, edits, touched, alone, owed>>

\* Open sees the changes of the tiers whose fingerprint is another one now.
Open ==
    /\ phase = "down" /\ phase' = "opening"
    /\ Step(Engine, [Idle EXCEPT !.at = "check", !.op = "open", !.areas = BothTiers])
    /\ missed' = (missed /\ \E t \in touched : Fingerprint(t) = stored[t])
    /\ UNCHANGED <<dataVars, pending, stored, requests, edits, touched, alone, owed>>

\* checkWorkspaceArea: the fingerprint is taken before the rebuild.
CheckArea ==
    LET j == job[Engine]  a == Head(j.areas)
    IN  /\ j.at = "check" /\ j.areas # <<>>
        /\ IF Fingerprint(a) = stored[a]
           THEN Step(Engine, [j EXCEPT !.areas = Tail(@)]) /\ UNCHANGED touched
           ELSE /\ Step(Engine, Rebuild([j EXCEPT !.fp = Fingerprint(a)],
                                        IF a = "workspace" THEN BothTiers ELSE <<a>>))
                /\ touched' = touched \ {a}
        /\ UNCHANGED <<dataVars, phase, pending, stored, requests, edits, missed, alone, owed>>

Opened ==
    /\ job[Engine].at = "check" /\ job[Engine].areas = <<>>
    /\ Ends(Engine) /\ phase' = "up"
    /\ UNCHANGED <<dataVars, pending, stored, requests, edits, ghostVars>>

\* The process stops, between two steps of anything; with no request in
\* progress that is also how a daemon or a command ends.
Crash ==
    /\ "crash" \in Faults /\ phase # "down"
    /\ phase' = "down" /\ job' = [p \in Procs |-> Idle] /\ pending' = FALSE
    /\ missed' = (missed \/ pending \/ \E p \in Procs : job[p] # Idle)
    /\ touched' = IF job[Engine].op = "open" THEN Tiers ELSE touched
    /\ UNCHANGED <<dataVars, stored, requests, edits, alone, owed>>

\* An editor, an agent or git writes, breaks, moves or removes the only file
\* of a flow, or creates one.
Edit ==
    /\ edits < MaxEdits /\ edits' = edits + 1
    /\ \E i \in Ids, p \in Places :
         /\ \A q \in Places \ {p} : file[i][q] = Gone
         /\ \/ \E to \in {Gone, Malformed} \cup ({texts + 1} \cap Texts) :
                 /\ file[i][p] # to
                 /\ Changes(i, [file[i] EXCEPT ![p] = to])
                 /\ texts' = IF to \in Texts THEN to ELSE texts
                 /\ owed' = [owed EXCEPT ![i] = NotOwed(i, p)]
            \/ \E q \in Places \ {p} :
                 /\ file[i][p] # Gone
                 /\ Changes(i, [file[i] EXCEPT ![q] = file[i][p], ![p] = Gone])
                 /\ UNCHANGED <<texts, owed>>
         /\ alone' = IF \E c \in Clients : job[c].id = i THEN alone \ {i} ELSE alone
    /\ UNCHANGED <<row, job, phase, stored, requests>>

RequestStep(c) ==
    \/ CreateIn(c) \/ Update(c) \/ Save(c) \/ Relocate(c) \/ MoveFile(c)
    \/ LeaveOld(c) \/ Delete(c) \/ Unlink(c)
RebuildStep(p) == List(p) \/ ReadRows(p) \/ ParseNext(p) \/ Upsert(p)

Next ==
    \/ \E c \in Clients : RequestStep(c)
    \/ \E p \in Procs : RebuildStep(p)
    \/ OnWatchChange \/ Open \/ CheckArea \/ Opened \/ Crash \/ Edit

Spec == Init /\ [][Next]_vars

-----------------------------------------------------------------------------
(* Properties *)

RowOf(i, p) == [place |-> p, text |-> file[i][p]]
PlacesOf(i) == {p \in Places : file[i][p] # Gone}
RowMatchesFile(i) ==
    /\ PlacesOf(i) = {} => row[i] = NoRow
    /\ \A p \in Places : PlacesOf(i) = {p} /\ Readable(i, p) => row[i] = RowOf(i, p)

\* "the file watcher picks up the change" (PLAN.md:712): once every change has
\* been read, a flow is listed with the tier, the path and the text of its file,
\* and exactly when it has one.  Two requests, a rebuild of the watcher or of
\* Open, editors, failing transactions and crashes may come in any order;
\* `missed` says where the code has nothing that would read a change.
SettledRowsMatchFiles ==
    ~pending /\ ~missed /\ (\A p \in Procs : job[p] = Idle) => \A i \in Ids : RowMatchesFile(i)

\* "Move never overwrites", "Rescope never overwrites", CreateIn "refuses to
\* overwrite an existing file" (flows.go:551, :454, :276): a text stays in a
\* file until a request or an editor replaces or deletes that very text, through
\* moves between folders, tiers and volumes, failures and crashes.  Requests
\* that overlap on one flow give up the promise: they look before they write.
TextsAreKept ==
    \A i \in alone : \A t \in owed[i] : \E p \in Places : file[i][p] = t

RebuildEnds(p) == job[p].at = "upsert" /\ job'[p].at # "upsert"
FoundIn(j, x, places) == \E q \in places : <<x.id, q>> \in j.listed

\* "A file that fails to parse must not cost the flow its index row ... Keep the
\* row the catalog already has for that path (or id)" (flows.go:923-927): of the
\* rows a rebuild has read it unlists none whose file it has found at the path the
\* row says or under a name that says the id, whatever became of the file meanwhile.
FoundFilesStayListed ==
    [][\A p \in Procs : \A x \in job[p].prev :
         RebuildEnds(p) /\ FoundIn(job[p], x, Named \cup {x.place}) /\ row[x.id] # NoRow
           => row'[x.id] # NoRow]_vars
=============================================================================
