------------------------- MODULE KnowledgeStoreProofs -------------------------
(***************************************************************************)
(* Proofs about KnowledgeStore, for every set of requests, tiers, folders  *)
(* and faults.                                                             *)
(*                                                                         *)
(* The rows: while no change is waiting and no reindex has been disturbed, *)
(* a reindex in progress has the last of the files it has read in the row  *)
(* (Scanned), and the requests in progress concern personal memories only. *)
(* The texts: a request that nothing overlaps still finds what it looked   *)
(* at, and a personal memory's row is safe from every reindex.             *)
(***************************************************************************)
EXTENDS KnowledgeStore, WellFoundedInduction, TLAPS

LEMMA LeastNat ==
  ASSUME NEW T \in SUBSET Nat, T # {}
  PROVE  \E m \in T : \A k \in T : m <= k
<1> DEFINE R == {ss \in Nat \X Nat : ss[1] < ss[2]}
<1>1. IsWellFoundedOn(R, Nat)
  BY NatLessThanWellFounded DEF OpToRel
<1>2. \A k \in Nat, m \in Nat : k < m => <<k, m>> \in R
  OBVIOUS
<1> HIDE DEF R
<1>3. PICK m \in T : \A k \in T : ~(<<k, m>> \in R)
  BY <1>1, WFMin
<1>4. \A k \in T : k \in Nat
  OBVIOUS
<1>5. \A k \in T : ~(k < m)
  BY <1>2, <1>3, <1>4
<1>6. \A k \in T : m <= k
  BY <1>3, <1>4, <1>5
<1> QED
  BY <1>3, <1>6

\* The first of some files comes before the others.
LEMMA FirstFile ==
  ASSUME NEW T \in SUBSET Places, T # {}
  PROVE  First(T) \in T /\ \A q \in T \ {First(T)} : PathRank[First(T)] < PathRank[q]
<1>1. \A p \in T : PathRank[p] \in Nat
  BY PlacesAssumption
<1> DEFINE S == {PathRank[p] : p \in T}
<1>2. S \in SUBSET Nat /\ S # {}
  BY <1>1
<1>3. PICK m \in S : \A k \in S : m <= k
  BY <1>2, LeastNat
<1>4. PICK p \in T : m = PathRank[p]
  BY <1>3
<1>5. \A q \in T : PathRank[q] \in S
  OBVIOUS
<1>6. \E x \in T : \A q \in T : PathRank[x] <= PathRank[q]
  BY <1>3, <1>4, <1>5
<1>7. First(T) \in T /\ \A q \in T : PathRank[First(T)] <= PathRank[q]
  BY <1>6 DEF First
<1>8. \A q \in T \ {First(T)} : PathRank[First(T)] # PathRank[q]
  BY <1>7, PlacesAssumption
<1> QED
  BY <1>1, <1>7, <1>8

(***************************************************************************)
(* Types                                                                   *)
(***************************************************************************)
Stages == {"idle", "again", "write", "remove", "index", "unlink",
           "deindex", "rename", "scan", "upsert", "drop"}
Operations == {"none", "create", "update", "move", "delete", "folder", "reindex"}
Spots == Places \cup {Personal, Nowhere}
Jobs == [at : Stages, op : Operations, old : Spots, new : Spots, text : Texts \cup {Gone},
         todo : SUBSET Places, seen : BOOLEAN, clean : BOOLEAN]

\* What a job holds where it is.
SoundJob(j) ==
  /\ j \in Jobs
  /\ j.at \in {"write", "rename", "upsert", "again"} => j.new \in Places
  /\ j.at \in {"index", "remove"} => j.new \in Places \cup {Personal}
  /\ j.at \in {"remove", "unlink", "rename"} => j.old \in Places
  /\ j.at \in {"remove", "rename"} => j.old # j.new
  /\ j.at \in {"write", "index", "upsert", "again", "remove", "rename"} => j.text \in Texts
  /\ j.op = "reindex" <=> j.at \in {"scan", "upsert", "drop"}
  /\ j.op = "folder" => j.at \in {"rename", "index"} /\ j.new \in Places
  /\ j.at = "rename" => j.op = "folder"

Rows == [place : Places \cup {Personal}, text : Texts]

Typed ==
  /\ kind \in Kinds
  /\ file \in [Places -> Texts \cup {Gone, Malformed}]
  /\ row = NoRow \/ row \in Rows
  /\ job \in [Procs -> Jobs] /\ \A p \in Procs : SoundJob(job[p])
  /\ phase \in {"down", "opening", "up"}
  /\ texts \in 0 .. MaxTexts /\ requests \in 0 .. MaxRequests /\ edits \in 0 .. MaxEdits
  /\ pending \in BOOLEAN /\ missed \in BOOLEAN /\ alone \in BOOLEAN /\ owed \subseteq Texts
  /\ kind = "example" => row.place # Personal /\ \A p \in Procs : job[p].new # Personal

LEMMA Spotted ==
  /\ Personal \notin Places /\ Nowhere \notin Places /\ Personal # Nowhere
  /\ NoRow.place = Nowhere /\ NoRow.text = Gone /\ Gone \notin Texts /\ Malformed \notin Texts
  /\ Gone # Malformed
<1>1. Personal \notin Places /\ Nowhere \notin Places /\ Personal # Nowhere
  BY DEF Personal, Nowhere, Places
<1>2. Gone \notin Texts /\ Malformed \notin Texts /\ Gone # Malformed
  BY BoundsAssumption DEF Gone, Malformed, Texts
<1> QED
  BY <1>1, <1>2 DEF NoRow

LEMMA TypedGivesTypeOK == Typed => TypeOK
<1> SUFFICES ASSUME Typed PROVE TypeOK
  OBVIOUS
<1>1. row = NoRow \/ (row.place \in Places \cup {Personal} /\ row.text \in Texts)
  BY DEF Typed, Rows
<1>2. ASSUME NEW p \in Procs
      PROVE  /\ job[p].at \in Stages
             /\ job[p].at \in {"write", "rename"} => job[p].new \in Places
             /\ job[p].at = "index" => job[p].text \in Texts
             /\ job[p].todo \subseteq Places
  <2>1. SoundJob(job[p])
    BY DEF Typed
  <2>2. \A j \in Jobs : j.at \in Stages /\ j.todo \subseteq Places
    BY DEF Jobs
  <2> QED
    BY <2>1, <2>2 DEF SoundJob
<1> QED
  BY <1>1, <1>2 DEF Typed, TypeOK, Stages

LEMMA IdleSound == /\ SoundJob(Idle)
                   /\ Idle.at = "idle" /\ Idle.op = "none" /\ Idle.new = Nowhere
                   /\ Idle.old = Nowhere /\ Idle.todo = {} /\ ~Idle.seen /\ Idle.clean
BY DEF Idle, Request, SoundJob, Jobs, Stages, Operations, Spots

\* The jobs that begin, and those that go on.
LEMMA GoOn ==
  ASSUME NEW j \in Jobs, NEW at \in Stages, NEW k, k = [j EXCEPT !.at = at]
  PROVE  /\ k \in Jobs /\ k.at = at /\ k.op = j.op /\ k.old = j.old /\ k.new = j.new
         /\ k.text = j.text /\ k.todo = j.todo /\ k.seen = j.seen /\ k.clean = j.clean
BY DEF Jobs

LEMMA GoOnPassing ==
  ASSUME NEW j \in Jobs, NEW todo \in SUBSET Places, NEW k, k = [j EXCEPT !.todo = todo]
  PROVE  /\ k \in Jobs /\ k.at = j.at /\ k.op = j.op /\ k.old = j.old /\ k.new = j.new
         /\ k.text = j.text /\ k.todo = todo /\ k.seen = j.seen /\ k.clean = j.clean
BY DEF Jobs

LEMMA GoOnSeen ==
  ASSUME NEW j \in Jobs, NEW k, k = [j EXCEPT !.at = "scan", !.seen = TRUE]
  PROVE  /\ k \in Jobs /\ k.at = "scan" /\ k.op = j.op /\ k.old = j.old /\ k.new = j.new
         /\ k.text = j.text /\ k.todo = j.todo /\ k.seen = TRUE /\ k.clean = j.clean
<1>1. "scan" \in Stages /\ TRUE \in BOOLEAN
  BY DEF Stages
<1> QED
  BY <1>1 DEF Jobs

LEMMA TypedStep ==
  ASSUME Typed, NEW p \in Procs, NEW j, SoundJob(j), kind = "example" => j.new # Personal,
         job' = [job EXCEPT ![p] = j], kind' = kind,
         file' \in [Places -> Texts \cup {Gone, Malformed}],
         row' = NoRow \/ row' \in Rows, kind = "example" => row'.place # Personal,
         phase' \in {"down", "opening", "up"},
         texts' \in 0 .. MaxTexts, requests' \in 0 .. MaxRequests, edits' \in 0 .. MaxEdits,
         pending' \in BOOLEAN, missed' \in BOOLEAN, alone' \in BOOLEAN, owed' \subseteq Texts
  PROVE  Typed'
<1>1. job \in [Procs -> Jobs] /\ \A q \in Procs : SoundJob(job[q])
  BY DEF Typed
<1>2. j \in Jobs
  BY DEF SoundJob
<1>3. /\ job' \in [Procs -> Jobs]
      /\ \A q \in Procs : job'[q] = IF q = p THEN j ELSE job[q]
  BY <1>1, <1>2
<1>4. \A q \in Procs : SoundJob(job'[q])
  BY <1>1, <1>3
<1>5. kind = "example" => \A q \in Procs : job'[q].new # Personal
  <2>1. kind = "example" => \A q \in Procs : job[q].new # Personal
    BY DEF Typed
  <2> QED
    BY <1>3, <2>1
<1> QED
  BY <1>3, <1>4, <1>5 DEF Typed

LEMMA EntersTyped ==
  ASSUME Typed, NEW c \in Clients, Enters(c)
  PROVE  requests' \in 0 .. MaxRequests /\ alone' \in BOOLEAN /\ job[c] = Idle
<1>1. requests \in 0 .. MaxRequests /\ requests < MaxRequests /\ requests' = requests + 1
  BY DEF Typed, Enters
<1>2. alone' \in BOOLEAN
  BY DEF Enters
<1> QED
  BY <1>1, <1>2, BoundsAssumption DEF Enters

LEMMA WritesATextMore ==
  ASSUME Typed, texts < MaxTexts
  PROVE  texts + 1 \in Texts /\ texts + 1 \in 0 .. MaxTexts
BY BoundsAssumption DEF Typed, Texts

\* What Get found.
LEMMA Got ==
  ASSUME Typed, Found
  PROVE  /\ row.place \in Places \cup {Personal} /\ Text \in Texts
         /\ kind = "example" => row.place \in Places
<1>1. row \in Rows
  BY DEF Typed, Found
<1>2. row.place \in Places \cup {Personal} /\ row.text \in Texts
  BY <1>1 DEF Rows
<1>3. kind = "example" => row.place # Personal /\ file[row.place] \in Texts
  BY DEF Typed, Found, Readable
<1> QED
  BY <1>2, <1>3 DEF Text

LEMMA TargetsAre ==
  ASSUME NEW f \in Folders, NEW to \in Targets(f)
  PROVE  to \in Places \cup {Personal} /\ (kind = "example" => to \in Places)
BY DEF Targets, Places

LEMMA NewPathIs ==
  ASSUME Typed, Found, NEW tier \in {Nowhere} \cup Places \cup Targets(Root)
  PROVE  /\ NewPath(tier) \in Places \cup {Personal}
         /\ kind = "example" => NewPath(tier) \in Places
<1>1. Root \in Folders
  BY PlacesAssumption
<1>2. tier = Nowhere \/ tier \in Places \/ (tier = Personal /\ kind # "example")
  BY <1>1, TargetsAre
<1>3. row.place \in Places \cup {Personal} /\ (kind = "example" => row.place \in Places)
  BY Got
<1>4. Folder(row.place) \in Folders
  BY <1>1, <1>3 DEF Folder, Places
<1>5. CASE tier \in Places
  <2>1. tier[1] \in Tiers /\ tier # Nowhere /\ tier # Personal
    BY <1>5, Spotted DEF Places
  <2>2. <<tier[1], Folder(row.place)>> \in Places
    BY <1>4, <2>1 DEF Places
  <2> QED
    BY <2>1, <2>2 DEF NewPath
<1> QED
  BY <1>2, <1>3, <1>5, Spotted DEF NewPath

(***************************************************************************)
(* The steps by which a request looks at the item, and changes nothing     *)
(***************************************************************************)
Begun(j) ==
  /\ SoundJob(j) /\ (kind = "example" => j.new # Personal)
  /\ j.at \in {"again", "write", "remove", "index", "unlink", "deindex", "rename"}
  /\ j.at \in {"remove", "index"} => j.new = Personal /\ j.op # "folder"
  /\ j.at = "index" => j.old \in {Personal, Nowhere}
  /\ j.at = "deindex" => j.old = Personal /\ j.new = Nowhere
  /\ j.at = "rename" => file[j.new] = Gone /\ row.place # Personal

Looks(c) == Create(c) \/ Update(c) \/ Move(c) \/ MoveAgain(c) \/ Delete(c) \/ MoveFolder(c)

\* A job of these fields begins one.
LEMMA BegunIs ==
  ASSUME NEW at \in {"again", "write", "remove", "index", "unlink", "deindex", "rename"},
         NEW op \in {"create", "update", "move", "delete", "folder"},
         NEW old \in Spots, NEW new \in Spots, NEW text \in Texts \cup {Gone},
         kind = "example" => new # Personal,
         at \in {"write", "rename", "again"} => new \in Places,
         at \in {"remove", "index"} => new = Personal /\ op # "folder",
         at \in {"remove", "unlink", "rename"} => old \in Places,
         at = "rename" => old # new /\ file[new] = Gone /\ row.place # Personal,
         at = "index" => old \in {Personal, Nowhere},
         at = "deindex" => old = Personal /\ new = Nowhere,
         at \in {"write", "index", "again", "remove", "rename"} => text \in Texts,
         op = "folder" <=> at = "rename"
  PROVE  Begun(Request(at, op, old, new, text)) /\ Request(at, op, old, new, text).at = at
<1> DEFINE j == Request(at, op, old, new, text)
<1>1. at \in Stages /\ op \in Operations
  BY DEF Stages, Operations
<1>2. /\ j \in Jobs /\ j.at = at /\ j.op = op /\ j.old = old /\ j.new = new /\ j.text = text
      /\ j.todo = {}
  BY <1>1 DEF Jobs, Request
<1> HIDE DEF j
<1>3. SoundJob(j)
  BY <1>2, Spotted DEF SoundJob
<1>4. Begun(j)
  BY <1>2, <1>3 DEF Begun
<1> QED
  BY <1>2, <1>4 DEF j

\* What a step of a request that looks at the item leaves behind.
Turned(c, j) == job' = [job EXCEPT ![c] = j]

LEMMA CreateBegins ==
  ASSUME Typed, NEW c \in Clients, Create(c)
  PROVE  \E j : Turned(c, j) /\ Begun(j) /\ j.at \in {"index", "write"}
<1>1. PICK to \in UNION {Targets(f) : f \in Folders} :
        Step(c, Request(IF to = Personal THEN "index" ELSE "write",
                        "create", Nowhere, to, texts + 1))
  BY DEF Create
<1>2. PICK f \in Folders : to \in Targets(f)
  OBVIOUS
<1> DEFINE at == IF to = Personal THEN "index" ELSE "write"
           k == Request(at, "create", Nowhere, to, texts + 1)
<1>3. Turned(c, k)
  BY <1>1 DEF Step, Turned
<1>4. texts + 1 \in Texts
  BY WritesATextMore DEF Create
<1>5. to \in Places \cup {Personal} /\ (kind = "example" => to # Personal)
  BY <1>2, TargetsAre, Spotted
<1>6. at \in {"index", "write"} /\ (at = "index" => to = Personal)
                                /\ (at = "write" => to \in Places)
  BY <1>5
<1> HIDE DEF at
<1>7. to \in Spots /\ Nowhere \in Spots /\ texts + 1 \in Texts \cup {Gone}
  BY <1>4, <1>5 DEF Spots
<1>8. Begun(k) /\ k.at = at
  BY <1>4, <1>5, <1>6, <1>7, BegunIs
<1> QED
  BY <1>3, <1>6, <1>8

LEMMA GetBegins ==
  ASSUME Typed, Found, NEW c \in Clients, NEW tier \in {Nowhere} \cup Places \cup Targets(Root),
         NEW text \in Texts, NEW op \in {"update", "move"}, Get(c, tier, text, op)
  PROVE  \E j : Turned(c, j) /\ Begun(j) /\ j.at \in {"index", "write", "remove"}
<1> DEFINE to == NewPath(tier)
           at == IF to # Personal THEN "write"
                 ELSE IF row.place = Personal THEN "index" ELSE "remove"
           k == Request(at, op, row.place, to, text)
<1>1. Turned(c, k)
  BY DEF Get, Step, Turned
<1>2. to \in Places \cup {Personal} /\ (kind = "example" => to # Personal)
  BY NewPathIs, Spotted
<1>3. row.place \in Places \cup {Personal}
  BY Got
<1>4. /\ at \in {"index", "write", "remove"}
      /\ at = "write" => to \in Places
      /\ at = "remove" => to = Personal /\ row.place \in Places
      /\ at = "index" => to = Personal /\ row.place = Personal
  BY <1>2, <1>3
<1> HIDE DEF at, to
<1>5. Begun(k) /\ k.at = at
  BY <1>2, <1>3, <1>4, BegunIs DEF Spots
<1> QED
  BY <1>1, <1>4, <1>5

LEMMA MoveBegins ==
  ASSUME Typed, NEW c \in Clients, Move(c)
  PROVE  \E j : Turned(c, j) /\ Begun(j) /\ j.at = "again"
<1>1. PICK tier \in Tiers : Step(c, Request("again", "move", Nowhere, <<tier, Root>>, Text))
  BY DEF Move
<1> DEFINE k == Request("again", "move", Nowhere, <<tier, Root>>, Text)
<1>2. Turned(c, k)
  BY <1>1 DEF Step, Turned
<1>3. Text \in Texts
  BY Got DEF Move
<1>4. <<tier, Root>> \in Places
  BY PlacesAssumption DEF Places
<1>5. Begun(k) /\ k.at = "again"
  BY <1>3, <1>4, Spotted, BegunIs DEF Spots
<1> QED
  BY <1>2, <1>5

LEMMA MoveAgainBegins ==
  ASSUME Typed, NEW c \in Clients, MoveAgain(c)
  PROVE  \E j : Turned(c, j) /\ ((Begun(j) /\ j.at \in {"index", "write", "remove"}) \/ j = Idle)
<1>1. CASE ~Found
  BY <1>1 DEF MoveAgain, Ends, Step, Turned
<1>2. CASE Found
  <2>1. job[c].new \in Places /\ job[c].text \in Texts
    BY DEF MoveAgain, Typed, SoundJob, Procs
  <2>2. Get(c, job[c].new, job[c].text, "move")
    BY <1>2 DEF MoveAgain
  <2> QED
    BY <1>2, <2>1, <2>2, GetBegins
<1> QED
  BY <1>1, <1>2

LEMMA DeleteBegins ==
  ASSUME Typed, NEW c \in Clients, Delete(c)
  PROVE  \E j : Turned(c, j) /\ Begun(j) /\ j.at \in {"unlink", "deindex"}
<1> DEFINE at == IF row.place = Personal THEN "deindex" ELSE "unlink"
           k == Request(at, "delete", row.place, Nowhere, Gone)
<1>1. Turned(c, k)
  BY DEF Delete, Step, Turned
<1>2. row.place \in Places \cup {Personal}
  BY Got DEF Delete
<1>3. /\ at \in {"unlink", "deindex"}
      /\ at = "unlink" => row.place \in Places
      /\ at = "deindex" => row.place = Personal
  BY <1>2
<1> HIDE DEF at
<1>4. Begun(k) /\ k.at = at
  BY <1>2, <1>3, Spotted, BegunIs DEF Spots
<1> QED
  BY <1>1, <1>3, <1>4

LEMMA MoveFolderBegins ==
  ASSUME Typed, NEW c \in Clients, MoveFolder(c)
  PROVE  \E j : Turned(c, j) /\ Begun(j) /\ j.at = "rename"
<1>1. row.place \in Places /\ Text \in Texts
  BY Got DEF MoveFolder
<1>2. PICK f \in Folders \ {row.place[2]} :
        /\ file[<<row.place[1], f>>] = Gone
        /\ Step(c, Request("rename", "folder", row.place, <<row.place[1], f>>, Text))
  BY DEF MoveFolder
<1> DEFINE to == <<row.place[1], f>>
           k == Request("rename", "folder", row.place, to, Text)
<1>3. Turned(c, k)
  BY <1>2 DEF Step, Turned
<1>4. to \in Places /\ to # row.place
  BY <1>1, <1>2 DEF Places
<1>5. file[to] = Gone
  BY <1>2
<1> HIDE DEF to
<1>6. Begun(k) /\ k.at = "rename"
  BY <1>1, <1>4, <1>5, Spotted, BegunIs DEF Spots
<1> QED
  BY <1>3, <1>6

LEMMA Looking ==
  ASSUME Typed, NEW c \in Clients, Looks(c)
  PROVE  /\ UNCHANGED <<kind, file, row, phase, pending, missed, edits>>
         /\ \E j : /\ Turned(c, j) /\ (Begun(j) \/ j = Idle)
                   /\ j.at \in {"unlink", "deindex"} => owed' = {}
         /\ owed' \in {owed, {}}
         /\ \/ job[c].at = "again" /\ job[c].op # "reindex" /\ alone' = alone
            \/ job[c] = Idle /\ alone' = (alone /\ \A d \in Clients : job[d] = Idle)
<1>1. /\ UNCHANGED <<kind, file, row, phase, pending, missed, edits>>
      /\ owed' \in {owed, {}}
  BY DEF Looks, Create, Update, Move, MoveAgain, Delete, MoveFolder, Same, ghostVars
<1>2. CASE Create(c)
  BY <1>1, <1>2, CreateBegins DEF Create, Enters
<1>3. CASE Update(c)
  <2>1. texts + 1 \in Texts /\ Found
    BY <1>3, WritesATextMore DEF Update
  <2>2. PICK tier \in {Nowhere} \cup Targets(Root) : Get(c, tier, texts + 1, "update")
    BY <1>3 DEF Update
  <2>3. \E j : Turned(c, j) /\ Begun(j) /\ j.at \in {"index", "write", "remove"}
    BY <2>1, <2>2, GetBegins
  <2> QED
    BY <1>1, <1>3, <2>3 DEF Update, Enters
<1>4. CASE Move(c)
  BY <1>1, <1>4, MoveBegins DEF Move, Enters
<1>5. CASE MoveAgain(c)
  <2>1. \E j : Turned(c, j) /\ ((Begun(j) /\ j.at \in {"index", "write", "remove"}) \/ j = Idle)
    BY <1>5, MoveAgainBegins
  <2>2. job[c].at = "again" /\ alone' = alone
    BY <1>5 DEF MoveAgain, ghostVars
  <2>3. job[c].op # "reindex"
    BY <2>2 DEF Typed, SoundJob, Procs
  <2> QED
    BY <1>1, <2>1, <2>2, <2>3, IdleSound
<1>6. CASE Delete(c)
  BY <1>1, <1>6, DeleteBegins DEF Delete, Enters
<1>7. CASE MoveFolder(c)
  BY <1>1, <1>7, MoveFolderBegins DEF MoveFolder, Enters
<1> QED
  BY <1>2, <1>3, <1>4, <1>5, <1>6, <1>7 DEF Looks

LEMMA LookingTyped ==
  ASSUME Typed, NEW c \in Clients, Looks(c)
  PROVE  Typed'
<1>1. /\ UNCHANGED <<kind, file, row, phase, pending, missed, edits>>
      /\ owed' \in {owed, {}} /\ c \in Procs
  BY Looking DEF Procs
<1>2. PICK j : Turned(c, j) /\ (Begun(j) \/ j = Idle)
  BY Looking
<1>3. SoundJob(j) /\ (kind = "example" => j.new # Personal)
  BY <1>2, IdleSound, Spotted DEF Begun
<1>4. requests' \in 0 .. MaxRequests /\ alone' \in BOOLEAN
  <2>1. requests \in 0 .. MaxRequests /\ alone \in BOOLEAN
    BY DEF Typed
  <2>2. Enters(c) \/ UNCHANGED <<requests, alone>>
    BY DEF Looks, Create, Update, Move, MoveAgain, Delete, MoveFolder, ghostVars
  <2> QED
    BY <2>1, <2>2, EntersTyped
<1>5. texts' \in 0 .. MaxTexts
  <2>1. texts \in 0 .. MaxTexts
    BY DEF Typed
  <2>2. (texts < MaxTexts /\ texts' = texts + 1) \/ texts' = texts
    BY DEF Looks, Create, Update, Move, MoveAgain, Delete, MoveFolder
  <2> QED
    BY <2>1, <2>2, WritesATextMore
<1> QED
  BY <1>1, <1>2, <1>3, <1>4, <1>5, TypedStep DEF Typed, Turned

(***************************************************************************)
(* The steps that change the files and the row                             *)
(***************************************************************************)
LEMMA Onward ==
  ASSUME Typed, NEW p \in Procs, NEW at \in Stages, Step(p, [job[p] EXCEPT !.at = at])
  PROVE  \E k : /\ Turned(p, k) /\ k \in Jobs /\ k.at = at
                /\ k.op = job[p].op /\ k.old = job[p].old /\ k.new = job[p].new
                /\ k.text = job[p].text /\ k.todo = job[p].todo /\ k.seen = job[p].seen
                /\ k.clean = job[p].clean
<1>1. job[p] \in Jobs
  BY DEF Typed
<1> DEFINE k == [job[p] EXCEPT !.at = at]
<1>2. Turned(p, k)
  BY DEF Step, Turned
<1> HIDE DEF k
<1>3. k = [job[p] EXCEPT !.at = at]
  BY DEF k
<1> QED
  BY <1>1, <1>2, <1>3, GoOn

\* What a process is in the middle of.
LEMMA InJob ==
  ASSUME Typed, NEW p \in Procs
  PROVE  /\ job[p] \in Jobs /\ SoundJob(job[p]) /\ (kind = "example" => job[p].new # Personal)
         /\ job[p].at \in Stages /\ job[p].op \in Operations /\ job[p].old \in Spots
         /\ job[p].new \in Spots /\ job[p].text \in Texts \cup {Gone}
         /\ job[p].todo \in SUBSET Places /\ job[p].seen \in BOOLEAN
<1>1. job[p] \in Jobs /\ SoundJob(job[p]) /\ (kind = "example" => job[p].new # Personal)
  BY DEF Typed
<1> QED
  BY <1>1 DEF Jobs

LEMMA ChangesTyped ==
  ASSUME Typed, FileChanges \/ NotRemoved
  PROVE  pending' \in BOOLEAN /\ missed' \in BOOLEAN /\ (pending' \/ missed')
BY DEF Typed, FileChanges, NotRemoved

LEMMA WriteFileJob ==
  ASSUME Typed, NEW c \in Clients, WriteFile(c)
  PROVE  \E k : /\ Turned(c, k) /\ SoundJob(k) /\ k.at \in {"index", "remove"}
                /\ k.op = job[c].op /\ k.new = job[c].new /\ k.text = job[c].text
                /\ k.new \in Places /\ k.text \in Texts /\ k.op # "folder"
<1> DEFINE at == IF job[c].old \in {Nowhere, Personal, job[c].new} THEN "index" ELSE "remove"
<1>1. Step(c, [job[c] EXCEPT !.at = at]) /\ job[c].at = "write"
  BY DEF WriteFile
<1>2. at \in Stages /\ c \in Procs
  BY DEF Stages, Procs
<1>3. PICK k : /\ Turned(c, k) /\ k \in Jobs /\ k.at = at
               /\ k.op = job[c].op /\ k.old = job[c].old /\ k.new = job[c].new
               /\ k.text = job[c].text
  BY <1>1, <1>2, Onward
<1>4. SoundJob(job[c]) /\ job[c].old \in Spots
  BY <1>2, InJob
<1>5. /\ k.new \in Places /\ k.text \in Texts /\ k.op # "folder"
      /\ k.op # "reindex"
  BY <1>1, <1>3, <1>4 DEF SoundJob
<1>6. k.at = "remove" => k.old \in Places /\ k.old # k.new
  BY <1>3, <1>4 DEF Spots
<1>7. SoundJob(k)
  BY <1>3, <1>5, <1>6 DEF SoundJob
<1> QED
  BY <1>3, <1>5, <1>7

LEMMA WriteFileTyped ==
  ASSUME Typed, NEW c \in Clients, WriteFile(c)
  PROVE  Typed'
<1>1. PICK k : /\ Turned(c, k) /\ SoundJob(k) /\ k.new = job[c].new /\ k.text = job[c].text
               /\ k.new \in Places /\ k.text \in Texts
  BY WriteFileJob
<1>2. c \in Procs /\ k.new # Personal
  BY <1>1, Spotted DEF Procs
<1>3. file' \in [Places -> Texts \cup {Gone, Malformed}] /\ owed' \subseteq Texts
  BY <1>1 DEF WriteFile, Typed
<1>4. pending' \in BOOLEAN /\ missed' \in BOOLEAN
  BY ChangesTyped DEF WriteFile
<1>5. UNCHANGED <<kind, phase, row, texts, requests, edits, alone>>
  BY DEF WriteFile, Same
<1> QED
  BY <1>1, <1>2, <1>3, <1>4, <1>5, TypedStep DEF Typed, Turned

LEMMA RemoveOldJob ==
  ASSUME Typed, NEW c \in Clients, RemoveOld(c)
  PROVE  \E k : /\ Turned(c, k) /\ SoundJob(k) /\ k.at = "index" /\ k.op = job[c].op
                /\ k.old = job[c].old /\ k.new = job[c].new /\ k.text = job[c].text
                /\ k.op # "folder" /\ k.old \in Places /\ k.old # k.new
<1>1. Step(c, [job[c] EXCEPT !.at = "index"]) /\ job[c].at = "remove"
  BY DEF RemoveOld
<1>2. "index" \in Stages /\ c \in Procs
  BY DEF Stages, Procs
<1>3. PICK k : /\ Turned(c, k) /\ k \in Jobs /\ k.at = "index" /\ k.op = job[c].op
               /\ k.old = job[c].old /\ k.new = job[c].new /\ k.text = job[c].text
  BY <1>1, <1>2, Onward
<1>4. SoundJob(job[c])
  BY <1>2, InJob
<1>5. /\ k.op # "folder" /\ k.op # "reindex" /\ k.old \in Places /\ k.old # k.new
      /\ k.new \in Places \cup {Personal} /\ k.text \in Texts
  BY <1>1, <1>3, <1>4 DEF SoundJob
<1>6. SoundJob(k)
  BY <1>3, <1>5 DEF SoundJob
<1> QED
  BY <1>3, <1>5, <1>6

LEMMA RemoveOldTyped ==
  ASSUME Typed, NEW c \in Clients, RemoveOld(c)
  PROVE  Typed'
<1>1. PICK k : Turned(c, k) /\ SoundJob(k) /\ k.new = job[c].new
  BY RemoveOldJob
<1>2. c \in Procs /\ (kind = "example" => k.new # Personal)
  BY <1>1, InJob DEF Procs
<1>3. file' \in [Places -> Texts \cup {Gone, Malformed}] /\ owed' \subseteq Texts
  BY DEF RemoveOld, Typed, NotRemoved
<1>4. pending' \in BOOLEAN /\ missed' \in BOOLEAN
  BY ChangesTyped DEF RemoveOld
<1>5. UNCHANGED <<kind, phase, row, texts, requests, edits, alone>>
  BY DEF RemoveOld, Same
<1> QED
  BY <1>1, <1>2, <1>3, <1>4, <1>5, TypedStep DEF Typed, Turned

LEMMA IndexTyped ==
  ASSUME Typed, NEW c \in Clients, Index(c)
  PROVE  Typed'
<1>1. Turned(c, Idle) /\ c \in Procs
  BY DEF Index, Ends, Step, Turned, Procs
<1>2. /\ job[c].new \in Places \cup {Personal} /\ job[c].text \in Texts
      /\ kind = "example" => job[c].new # Personal
  BY <1>1, InJob DEF Index, SoundJob
<1>3. row' = row \/ row' = [place |-> job[c].new, text |-> job[c].text]
  BY DEF Index
<1>4. (row' = NoRow \/ row' \in Rows) /\ (kind = "example" => row'.place # Personal)
  BY <1>2, <1>3 DEF Typed, Rows
<1>5. owed' \subseteq Texts
  BY <1>2 DEF Index, Owed, Typed
<1>6. UNCHANGED <<kind, phase, file, texts, requests, edits, pending, alone>>
  BY DEF Index, Same
<1>7. missed' \in BOOLEAN
  BY DEF Index, RowAlone, Typed
<1> QED
  BY <1>1, <1>4, <1>5, <1>6, <1>7, IdleSound, Spotted, TypedStep DEF Typed, Turned

LEMMA UnlinkJob ==
  ASSUME Typed, NEW c \in Clients, Unlink(c)
  PROVE  \E k : /\ Turned(c, k) /\ SoundJob(k) /\ k.at = "deindex" /\ k.op = job[c].op
                /\ k.new = job[c].new /\ k.op # "folder" /\ k.op # "reindex"
<1>1. Step(c, [job[c] EXCEPT !.at = "deindex"]) /\ job[c].at = "unlink"
  BY DEF Unlink
<1>2. "deindex" \in Stages /\ c \in Procs
  BY DEF Stages, Procs
<1>3. PICK k : /\ Turned(c, k) /\ k \in Jobs /\ k.at = "deindex" /\ k.op = job[c].op
               /\ k.old = job[c].old /\ k.new = job[c].new
  BY <1>1, <1>2, Onward
<1>4. SoundJob(job[c])
  BY <1>2, InJob
<1>5. k.op # "folder" /\ k.op # "reindex"
  BY <1>1, <1>3, <1>4 DEF SoundJob
<1>6. SoundJob(k)
  BY <1>3, <1>5 DEF SoundJob
<1> QED
  BY <1>3, <1>5, <1>6

LEMMA UnlinkTyped ==
  ASSUME Typed, NEW c \in Clients, Unlink(c)
  PROVE  Typed'
<1>1. PICK k : Turned(c, k) /\ SoundJob(k) /\ k.new = job[c].new
  BY UnlinkJob
<1>2. c \in Procs /\ (kind = "example" => k.new # Personal)
  BY <1>1, InJob DEF Procs
<1>3. file' \in [Places -> Texts \cup {Gone, Malformed}]
  BY DEF Unlink, Typed, NotRemoved
<1>4. pending' \in BOOLEAN /\ missed' \in BOOLEAN
  BY ChangesTyped DEF Unlink
<1>5. UNCHANGED <<kind, phase, row, texts, requests, edits, alone, owed>>
  BY DEF Unlink, Same
<1> QED
  BY <1>1, <1>2, <1>3, <1>4, <1>5, TypedStep DEF Typed, Turned

LEMMA DeindexTyped ==
  ASSUME Typed, NEW c \in Clients, Deindex(c)
  PROVE  Typed'
<1>1. Turned(c, Idle) /\ c \in Procs
  BY DEF Deindex, Ends, Step, Turned, Procs
<1>2. (row' = NoRow \/ row' \in Rows) /\ (kind = "example" => row'.place # Personal)
  BY Spotted DEF Deindex, Typed
<1>3. missed' \in BOOLEAN
  BY DEF Deindex, RowAlone, Typed
<1>4. UNCHANGED <<kind, phase, file, texts, requests, edits, pending, alone, owed>>
  BY DEF Deindex, Same
<1> QED
  BY <1>1, <1>2, <1>3, <1>4, IdleSound, Spotted, TypedStep DEF Typed, Turned

\* A file that is there is renamed; nothing else happens.
LEMMA RenameJob ==
  ASSUME Typed, NEW c \in Clients, Rename(c)
  PROVE  \/ /\ Turned(c, Idle)
            /\ UNCHANGED <<file, pending, missed>>
         \/ \E k : /\ Turned(c, k) /\ SoundJob(k) /\ k.at = "index" /\ k.op = "folder"
                   /\ job[c].old \in Places /\ job[c].new \in Places
                   /\ job[c].old # job[c].new /\ k.new = job[c].new
                   /\ file' = [file EXCEPT ![job[c].new] = file[job[c].old],
                                           ![job[c].old] = Gone]
                   /\ FileChanges
<1>1. job[c].at = "rename" /\ c \in Procs
  BY DEF Rename, Procs
<1>2. CASE file[job[c].old] = Gone
  BY <1>2 DEF Rename, Ends, Step, Turned
<1>3. CASE file[job[c].old] # Gone
  <2>1. /\ Step(c, [job[c] EXCEPT !.at = "index"]) /\ FileChanges
        /\ file' = [file EXCEPT ![job[c].new] = file[job[c].old], ![job[c].old] = Gone]
    BY <1>3 DEF Rename
  <2>2. "index" \in Stages
    BY DEF Stages
  <2>3. PICK k : /\ Turned(c, k) /\ k \in Jobs /\ k.at = "index" /\ k.op = job[c].op
                 /\ k.old = job[c].old /\ k.new = job[c].new /\ k.text = job[c].text
    BY <1>1, <2>1, <2>2, Onward
  <2>4. SoundJob(job[c])
    BY <1>1, InJob
  <2>5. /\ job[c].op = "folder" /\ job[c].old \in Places /\ job[c].new \in Places
        /\ job[c].old # job[c].new /\ job[c].text \in Texts
    BY <1>1, <2>4 DEF SoundJob
  <2>6. SoundJob(k)
    BY <2>3, <2>5 DEF SoundJob
  <2> QED
    BY <2>1, <2>3, <2>5, <2>6
<1> QED
  BY <1>2, <1>3

LEMMA RenameTyped ==
  ASSUME Typed, NEW c \in Clients, Rename(c)
  PROVE  Typed'
<1>1. /\ UNCHANGED <<kind, phase, row, texts, requests, edits, alone, owed>>
      /\ c \in Procs
  BY DEF Rename, Same, Procs
<1>2. PICK k : /\ Turned(c, k) /\ SoundJob(k) /\ k.new \in Places \cup {Nowhere}
               /\ \/ UNCHANGED <<file, pending, missed>>
                  \/ /\ job[c].old \in Places /\ job[c].new \in Places /\ FileChanges
                     /\ file' = [file EXCEPT ![job[c].new] = file[job[c].old],
                                             ![job[c].old] = Gone]
  BY RenameJob, IdleSound
<1>3. file' \in [Places -> Texts \cup {Gone, Malformed}]
  BY <1>2 DEF Typed
<1>4. pending' \in BOOLEAN /\ missed' \in BOOLEAN
  BY <1>2, ChangesTyped DEF Typed
<1> QED
  BY <1>1, <1>2, <1>3, <1>4, Spotted, TypedStep DEF Typed, Turned

(***************************************************************************)
(* Reindexes                                                               *)
(***************************************************************************)
LEMMA ReindexJob ==
  ASSUME Typed, NEW p \in Procs, Reindex(p)
  PROVE  \E k : /\ Turned(p, k) /\ SoundJob(k) /\ k.at = "scan" /\ k.op = "reindex"
                /\ k.todo = FilesThere /\ ~k.seen /\ k.new = Nowhere
                /\ k.clean = (Prompt /\ \A q \in Procs : job[q].op # "reindex")
<1> DEFINE clean == Prompt /\ \A q \in Procs : job[q].op # "reindex"
           k == Reindexing(FilesThere, clean)
<1>1. Turned(p, k)
  BY DEF Reindex, Step, Turned
<1>2. /\ "scan" \in Stages /\ "reindex" \in Operations /\ Nowhere \in Spots
      /\ FilesThere \in SUBSET Places /\ clean \in BOOLEAN
  BY DEF Stages, Operations, Spots, FilesThere
<1> HIDE DEF clean
<1>3. k.at = "scan" /\ k.op = "reindex" /\ k.todo = FilesThere /\ ~k.seen /\ k.new = Nowhere
      /\ k.clean = clean
  BY DEF Reindexing
<1>4. k \in Jobs
  BY <1>2 DEF Jobs, Reindexing
<1> HIDE DEF k
<1>5. SoundJob(k)
  BY <1>3, <1>4 DEF SoundJob
<1> QED
  BY <1>1, <1>3, <1>5 DEF clean

LEMMA ReindexTyped ==
  ASSUME Typed, NEW p \in Procs, Reindex(p), kind' = kind, file' = file, row' = row,
         texts' = texts, phase' \in {"down", "opening", "up"}, requests' \in 0 .. MaxRequests,
         edits' = edits, pending' \in BOOLEAN, alone' \in BOOLEAN, owed' = owed
  PROVE  Typed'
<1>1. PICK k : Turned(p, k) /\ SoundJob(k) /\ k.new = Nowhere
  BY ReindexJob
<1>2. missed' \in BOOLEAN
  BY DEF Reindex
<1> QED
  BY <1>1, <1>2, Spotted, TypedStep DEF Typed, Turned

\* A step of a reindex in progress.
Continues(p, k) ==
  /\ Turned(p, k) /\ SoundJob(k) /\ k.op = "reindex" /\ k.clean = job[p].clean

LEMMA ReadNextJob ==
  ASSUME Typed, NEW p \in Procs, ReadNext(p)
  PROVE  LET f == First(job[p].todo)
         IN  /\ job[p].at = "scan" /\ f \in job[p].todo /\ f \in Places
             /\ \A q \in job[p].todo \ {f} : PathRank[f] < PathRank[q]
             /\ \E k : /\ Continues(p, k)
                       /\ k.seen = job[p].seen /\ k.todo = job[p].todo \ {f}
                       /\ IF Readable(f) THEN k.at = "upsert" /\ k.new = f /\ k.text = file[f]
                          ELSE k.at = "scan" /\ k.new = job[p].new
<1> DEFINE f == First(job[p].todo)
<1>1. job[p].at = "scan" /\ job[p].todo # {}
  BY DEF ReadNext
<1>2. /\ job[p] \in Jobs /\ SoundJob(job[p]) /\ job[p].todo \in SUBSET Places
  BY InJob
<1>3. f \in job[p].todo /\ \A q \in job[p].todo \ {f} : PathRank[f] < PathRank[q]
  BY <1>1, <1>2, FirstFile
<1>4. f \in Places /\ job[p].todo \ {f} \in SUBSET Places /\ job[p].op = "reindex"
  BY <1>1, <1>2, <1>3 DEF SoundJob
<1>5. CASE Readable(f)
  <2> DEFINE k == [job[p] EXCEPT !.at = "upsert", !.todo = job[p].todo \ {f}, !.new = f,
                                 !.text = file[f]]
  <2>1. Turned(p, k)
    BY <1>5 DEF ReadNext, Step, Turned
  <2> HIDE DEF k
  <2>2. k = [job[p] EXCEPT !.at = "upsert", !.todo = job[p].todo \ {f}, !.new = f,
                           !.text = file[f]]
    BY DEF k
  <2>3. f \in Spots /\ file[f] \in Texts \cup {Gone} /\ file[f] \in Texts
    BY <1>4, <1>5 DEF Spots, Readable
  <2>4. PICK j \in Jobs, rest \in SUBSET Places, new \in Spots, text \in Texts :
          j = job[p] /\ rest = job[p].todo \ {f} /\ new = f /\ text = file[f]
    BY <1>2, <1>4, <2>3
  <2>5. k = [j EXCEPT !.at = "upsert", !.todo = rest, !.new = new, !.text = text]
    BY <2>2, <2>4, Zenon
  <2>6. text \in Texts \cup {Gone}
    OBVIOUS
  <2>7. /\ k \in Jobs /\ k.at = "upsert" /\ k.op = j.op /\ k.old = j.old /\ k.new = new
         /\ k.text = text /\ k.todo = rest /\ k.seen = j.seen /\ k.clean = j.clean
    BY <2>5, <2>6, "upsert" \in Stages DEF Jobs, Stages
  <2> HIDE DEF f
  <2>8. /\ k \in Jobs /\ k.at = "upsert" /\ k.op = job[p].op /\ k.old = job[p].old /\ k.new = f
        /\ k.text = file[f] /\ k.todo = job[p].todo \ {f} /\ k.seen = job[p].seen
        /\ k.clean = job[p].clean
    BY <2>4, <2>7
  <2>9. SoundJob(k)
    BY <1>4, <2>3, <2>8 DEF SoundJob
  <2>10. Continues(p, k)
    BY <1>4, <2>1, <2>8, <2>9 DEF Continues
  <2>11. \E x : /\ Continues(p, x)
               /\ x.seen = job[p].seen /\ x.todo = job[p].todo \ {f}
               /\ IF Readable(f) THEN x.at = "upsert" /\ x.new = f /\ x.text = file[f]
                  ELSE x.at = "scan" /\ x.new = job[p].new
    BY <1>5, <2>8, <2>10
  <2> QED
    BY <1>1, <1>3, <1>4, <2>11 DEF f
<1>6. CASE ~Readable(f)
  <2> DEFINE k == [job[p] EXCEPT !.todo = job[p].todo \ {f}]
  <2>1. Turned(p, k)
    BY <1>6 DEF ReadNext, Step, Turned
  <2> HIDE DEF k
  <2>2. k = [job[p] EXCEPT !.todo = job[p].todo \ {f}]
    BY DEF k
  <2>3. PICK j \in Jobs, rest \in SUBSET Places : j = job[p] /\ rest = job[p].todo \ {f}
    BY <1>2, <1>4
  <2>4. k = [j EXCEPT !.todo = rest]
    BY <2>2, <2>3, Zenon
  <2> HIDE DEF f
  <2>5. /\ k \in Jobs /\ k.at = job[p].at /\ k.op = job[p].op /\ k.old = job[p].old
        /\ k.new = job[p].new /\ k.text = job[p].text /\ k.todo = job[p].todo \ {f}
        /\ k.seen = job[p].seen /\ k.clean = job[p].clean
    BY <2>3, <2>4, GoOnPassing
  <2>6. SoundJob(k)
    BY <1>1, <1>2, <1>4, <2>5 DEF SoundJob
  <2>7. Continues(p, k)
    BY <1>4, <2>1, <2>5, <2>6 DEF Continues
  <2>8. \E x : /\ Continues(p, x)
               /\ x.seen = job[p].seen /\ x.todo = job[p].todo \ {f}
               /\ IF Readable(f) THEN x.at = "upsert" /\ x.new = f /\ x.text = file[f]
                  ELSE x.at = "scan" /\ x.new = job[p].new
    BY <1>1, <1>6, <2>5, <2>7
  <2> QED
    BY <1>1, <1>3, <1>4, <2>8 DEF f
<1> QED
  BY <1>5, <1>6

LEMMA UpsertJob ==
  ASSUME Typed, NEW p \in Procs, Upsert(p)
  PROVE  /\ job[p].at = "upsert" /\ job[p].new \in Places /\ job[p].text \in Texts
         /\ \/ /\ \E k : /\ Continues(p, k) /\ k.at = "scan" /\ k.seen
                         /\ k.new = job[p].new /\ k.todo = job[p].todo
               /\ row' = [place |-> job[p].new, text |-> job[p].text]
               /\ UNCHANGED missed
            \/ Turned(p, Idle) /\ missed' = TRUE /\ UNCHANGED row
<1>1. job[p].at = "upsert" /\ job[p] \in Jobs /\ SoundJob(job[p])
  BY InJob DEF Upsert
<1>2. job[p].new \in Places /\ job[p].text \in Texts /\ job[p].op = "reindex"
  BY <1>1 DEF SoundJob
<1>3. CASE /\ row' = Upserted(job[p])
           /\ Step(p, [job[p] EXCEPT !.at = "scan", !.seen = TRUE])
           /\ UNCHANGED missed
  <2> DEFINE k == [job[p] EXCEPT !.at = "scan", !.seen = TRUE]
  <2>1. Turned(p, k)
    BY <1>3 DEF Step, Turned
  <2> HIDE DEF k
  <2>2. k = [job[p] EXCEPT !.at = "scan", !.seen = TRUE]
    BY DEF k
  <2>3. PICK j \in Jobs : j = job[p]
    BY <1>1
  <2>4. k = [j EXCEPT !.at = "scan", !.seen = TRUE]
    BY <2>2, <2>3, Zenon
  <2>5. /\ k \in Jobs /\ k.at = "scan" /\ k.op = job[p].op /\ k.old = job[p].old
        /\ k.new = job[p].new /\ k.todo = job[p].todo
        /\ k.seen = TRUE /\ k.clean = job[p].clean
    BY <2>3, <2>4, GoOnSeen
  <2>6. SoundJob(k)
    BY <1>2, <2>5 DEF SoundJob
  <2>7. Continues(p, k)
    BY <1>2, <2>1, <2>5, <2>6 DEF Continues
  <2> QED
    BY <1>1, <1>2, <1>3, <2>5, <2>7 DEF Upserted
<1>4. CASE Breaks(p) /\ UNCHANGED row
  BY <1>1, <1>2, <1>4 DEF Breaks, Ends, Step, Turned
<1> QED
  BY <1>3, <1>4 DEF Upsert

LEMMA SelectStaleJob ==
  ASSUME Typed, NEW p \in Procs, SelectStale(p)
  PROVE  /\ job[p].at = "scan" /\ job[p].todo = {}
         /\ \/ /\ Stale(job[p]) /\ UNCHANGED missed
               /\ \E k : /\ Continues(p, k) /\ k.at = "drop" /\ k.todo = {}
                         /\ k.seen = job[p].seen /\ k.new = job[p].new
            \/ ~Stale(job[p]) /\ Turned(p, Idle) /\ Completes(p)
<1>1. job[p].at = "scan" /\ job[p].todo = {} /\ SoundJob(job[p])
  BY InJob DEF SelectStale
<1>2. CASE Stale(job[p])
  <2>1. Step(p, [job[p] EXCEPT !.at = "drop"]) /\ UNCHANGED missed /\ "drop" \in Stages
    BY <1>2 DEF SelectStale, Stages
  <2>2. PICK k : /\ Turned(p, k) /\ k \in Jobs /\ k.at = "drop"
                 /\ k.op = job[p].op /\ k.old = job[p].old /\ k.new = job[p].new
                 /\ k.todo = job[p].todo /\ k.seen = job[p].seen /\ k.clean = job[p].clean
    BY <2>1, Onward
  <2>3. k.op = "reindex"
    BY <1>1, <2>2 DEF SoundJob
  <2>4. SoundJob(k)
    BY <2>2, <2>3 DEF SoundJob
  <2> QED
    BY <1>1, <1>2, <2>1, <2>2, <2>3, <2>4 DEF Continues
<1>3. CASE ~Stale(job[p])
  BY <1>1, <1>3 DEF SelectStale, Completes, Ends, Step, Turned
<1> QED
  BY <1>2, <1>3

LEMMA ReindexStepTyped ==
  ASSUME Typed, NEW p \in Procs, ReindexStep(p)
  PROVE  Typed'
<1>1. UNCHANGED <<kind, file, texts, phase, pending, requests, edits, alone, owed>>
  BY DEF ReindexStep, ReadNext, Upsert, SelectStale, Drop, dataVars, ghostVars
<1>2. missed' \in BOOLEAN
  BY DEF ReindexStep, ReadNext, Upsert, SelectStale, Drop, Breaks, Completes, ghostVars, Typed
<1>3. /\ row' = NoRow \/ row' \in Rows
      /\ kind = "example" => row'.place # Personal
      /\ \E k : Turned(p, k) /\ SoundJob(k) /\ (kind = "example" => k.new # Personal)
  <2>1. /\ row = NoRow \/ row \in Rows
        /\ kind = "example" => row.place # Personal /\ job[p].new # Personal
        /\ Idle.new # Personal /\ SoundJob(Idle)
    BY Spotted, IdleSound DEF Typed
  <2>2. CASE ReadNext(p)
    <3>1. UNCHANGED row
      BY <2>2 DEF ReadNext, dataVars
    <3> DEFINE f == First(job[p].todo)
    <3>2. PICK k : Continues(p, k) /\ (k.new = f \/ k.new = job[p].new)
      BY <2>2, ReadNextJob
    <3>3. f \in Places
      BY <2>2, ReadNextJob
    <3> HIDE DEF f
    <3>4. kind = "example" => k.new # Personal
      BY <2>1, <3>2, <3>3, Spotted
    <3> QED
      BY <2>1, <3>1, <3>2, <3>4 DEF Continues
  <2>3. CASE Upsert(p)
    <3>1. /\ job[p].new \in Places /\ job[p].text \in Texts
          /\ row' = row \/ row' = [place |-> job[p].new, text |-> job[p].text]
          /\ \E k : Turned(p, k) /\ SoundJob(k) /\ (k.new = job[p].new \/ k = Idle)
      BY <2>1, <2>3, UpsertJob DEF Continues
    <3> QED
      BY <2>1, <3>1, Spotted DEF Rows
  <2>4. CASE SelectStale(p)
    <3>1. UNCHANGED row
      BY <2>4 DEF SelectStale, dataVars
    <3>2. \E k : Turned(p, k) /\ SoundJob(k) /\ (k.new = job[p].new \/ k = Idle)
      BY <2>1, <2>4, SelectStaleJob DEF Continues
    <3> QED
      BY <2>1, <3>1, <3>2
  <2>5. CASE Drop(p)
    BY <2>1, <2>5, Spotted DEF Drop, Completes, Breaks, Ends, Step, Turned
  <2> QED
    BY <2>2, <2>3, <2>4, <2>5 DEF ReindexStep
<1>4. PICK k : Turned(p, k) /\ SoundJob(k) /\ (kind = "example" => k.new # Personal)
  BY <1>3
<1> QED
  BY <1>1, <1>2, <1>3, <1>4, TypedStep DEF Typed, Turned

LEMMA CrashTyped ==
  ASSUME Typed, Crash
  PROVE  Typed'
<1>1. job' = [p \in Procs |-> Idle]
  BY DEF Crash
<1>2. /\ job' \in [Procs -> Jobs]
      /\ \A p \in Procs : SoundJob(job'[p]) /\ job'[p].new # Personal
  BY <1>1, IdleSound, Spotted DEF SoundJob
<1>3. pending' \in BOOLEAN /\ missed' \in BOOLEAN /\ phase' \in {"down", "opening", "up"}
  BY DEF Crash
<1>4. UNCHANGED <<kind, file, row, texts, requests, edits, alone, owed>>
  BY DEF Crash, dataVars
<1> QED
  BY <1>2, <1>3, <1>4 DEF Typed

LEMMA EditTyped ==
  ASSUME Typed, Edit
  PROVE  Typed'
<1>1. PICK p \in Places, to \in {Gone, Malformed} \cup ({texts + 1} \cap Texts) :
        /\ file' = [file EXCEPT ![p] = to]
        /\ texts' = IF to \in Texts THEN to ELSE texts
  BY DEF Edit
<1>2. file' \in [Places -> Texts \cup {Gone, Malformed}]
  BY <1>1 DEF Typed
<1>3. texts' \in 0 .. MaxTexts /\ edits' \in 0 .. MaxEdits
  BY <1>1, BoundsAssumption DEF Typed, Edit, Texts
<1>4. pending' \in BOOLEAN /\ missed' \in BOOLEAN /\ alone' \in BOOLEAN /\ owed' = {}
  BY ChangesTyped DEF Edit
<1>5. UNCHANGED <<kind, row, job, phase, requests>>
  BY DEF Edit
<1> QED
  BY <1>2, <1>3, <1>4, <1>5 DEF Typed

LEMMA TypedInductive == Typed /\ [Next]_vars => Typed'
<1> SUFFICES ASSUME Typed, [Next]_vars PROVE Typed'
  OBVIOUS
<1>1. ASSUME NEW c \in Clients, RequestStep(c) PROVE Typed'
  <2>1. CASE Looks(c)
    BY <2>1, LookingTyped
  <2>2. CASE WriteFile(c) \/ RemoveOld(c) \/ Index(c) \/ Unlink(c) \/ Deindex(c) \/ Rename(c)
    BY <2>2, WriteFileTyped, RemoveOldTyped, IndexTyped, UnlinkTyped, DeindexTyped, RenameTyped
  <2>3. CASE ReindexRequest(c)
    <3>1. c \in Procs /\ Enters(c) /\ Reindex(c)
      BY <2>3 DEF ReindexRequest, Procs
    <3>2. requests' \in 0 .. MaxRequests /\ alone' \in BOOLEAN
      BY <3>1, EntersTyped
    <3>3. UNCHANGED <<kind, phase, edits, file, row, texts, pending, owed>>
      BY <2>3 DEF ReindexRequest, Same
    <3> QED
      BY <3>1, <3>2, <3>3, ReindexTyped DEF Typed
  <2> QED
    BY <1>1, <2>1, <2>2, <2>3 DEF RequestStep, Looks
<1>2. ASSUME NEW p \in Procs, ReindexStep(p) PROVE Typed'
  BY <1>2, ReindexStepTyped
<1>3. CASE OnWatchChange \/ Open
  <2>1. UNCHANGED <<kind, file, row, texts, requests, edits, alone, owed>>
    BY <1>3 DEF OnWatchChange, Open, dataVars
  <2>2. phase' \in {"down", "opening", "up"} /\ pending' \in BOOLEAN /\ Engine \in Procs
    BY <1>3 DEF OnWatchChange, Open, Typed, Procs
  <2>3. CASE Reindex(Engine)
    BY <2>1, <2>2, <2>3, ReindexTyped DEF Typed
  <2>4. CASE UNCHANGED <<job, missed>>
    BY <2>1, <2>2, <2>4 DEF Typed
  <2> QED
    BY <1>3, <2>3, <2>4 DEF OnWatchChange, Open
<1>4. CASE Opened \/ UNCHANGED vars
  BY <1>4 DEF Opened, vars, dataVars, ghostVars, Typed
<1>5. CASE Crash
  BY <1>5, CrashTyped
<1>6. CASE Edit
  BY <1>6, EditTyped
<1> QED
  BY <1>1, <1>2, <1>3, <1>4, <1>5, <1>6 DEF Next

LEMMA TypedInit == Init => Typed
<1> SUFFICES ASSUME Init PROVE Typed
  OBVIOUS
<1>1. job \in [Procs -> Jobs] /\ \A p \in Procs : SoundJob(job[p]) /\ job[p].new # Personal
  BY IdleSound, Spotted DEF Init, SoundJob
<1>2. row = NoRow /\ row.place # Personal
  BY Spotted DEF Init
<1>3. 0 \in 0 .. MaxTexts /\ 0 \in 0 .. MaxRequests /\ 0 \in 0 .. MaxEdits
  BY BoundsAssumption
<1>4. file \in [Places -> Texts \cup {Gone, Malformed}]
  BY DEF Init
<1> QED
  BY <1>1, <1>2, <1>3, <1>4 DEF Init, Typed

LEMMA AlwaysTyped == Spec => []Typed
BY TypedInit, TypedInductive, PTL DEF Spec

\* Whatever requests, reindexes, editors and crashes do, every process is at a
\* place with what that place needs: a file's path and a text to write or to
\* index; and an example never turns into a row without a file.
THEOREM TypeCorrect == Spec => []TypeOK
BY AlwaysTyped, TypedGivesTypeOK, PTL

(***************************************************************************)
(* Rows                                                                    *)
(***************************************************************************)
Busy == {p \in Procs : job[p].op = "reindex"}

\* The files a reindex has still to take into account.
Left(j) == IF j.at = "upsert" THEN j.todo \cup {j.new} ELSE j.todo

\* A reindex that nothing disturbed has read the files in order, and has the
\* last readable one of those it is done with in the row.
Scanned(j) ==
  /\ j.at = "upsert" => /\ Readable(j.new) /\ j.text = file[j.new]
                        /\ \A q \in j.todo : PathRank[j.new] < PathRank[q]
  /\ j.at = "drop" => j.todo = {} /\ ~j.seen
  /\ \A q \in Places \ Left(j) :
       Readable(q) => j.seen /\ \A r \in Left(j) : PathRank[q] < PathRank[r]
  /\ j.seen => \E p \in Places \ Left(j) :
                 /\ Readable(p) /\ row = [place |-> p, text |-> file[p]]
                 /\ \A q \in Places \ Left(j) : Readable(q) => PathRank[q] <= PathRank[p]

\* What the code does of RowMatchesFiles, and more: a row goes also when its
\* file is there and does not parse.
RowIsLast ==
    \/ \E p \in Places : LastReadable(p) /\ row = [place |-> p, text |-> file[p]]
    \/ (\A p \in Places : ~Readable(p)) /\ (row = NoRow \/ row.place = Personal)

\* No change is waiting, and at most one reindex is in progress, which began
\* when no row was due.
Sure == ~pending /\ ~missed /\ \A p, q \in Busy : p = q /\ job[p].clean

\* A request about to write the row of a memory that is and stays personal.
Personally(j) == j.at \in {"index", "deindex"} => {j.old, j.new} \subseteq {Personal, Nowhere}

RowInv ==
  Sure => /\ \A c \in Clients : Personally(job[c])
          /\ \A p \in Busy : Scanned(job[p])
          /\ Busy = {} => RowIsLast

LEMMA TurnedIs ==
  ASSUME Typed, NEW p \in Procs, NEW j, Turned(p, j)
  PROVE  \A q \in Procs : job'[q] = IF q = p THEN j ELSE job[q]
BY DEF Turned, Typed

LEMMA ScannedSame ==
  ASSUME NEW j, UNCHANGED <<file, row>>
  PROVE  Scanned(j)' <=> Scanned(j)
BY DEF Scanned, Readable

LEMMA MatchSame ==
  ASSUME UNCHANGED <<file, row>>
  PROVE  RowIsLast' <=> RowIsLast
BY DEF RowIsLast, LastReadable, Readable

\* A change of a file is waited for, or noted as one nobody reads.
LEMMA ChangedUnsure ==
  ASSUME Typed, FileChanges \/ NotRemoved
  PROVE  ~Sure'
BY ChangesTyped DEF Sure

\* A request turns to a place where it writes no row that has a file.
LEMMA QuietRow ==
  ASSUME Typed, RowInv, NEW c \in Clients, NEW j, Turned(c, j), job[c].op # "reindex",
         j.op # "reindex", Personally(j), UNCHANGED <<file, row, pending, missed>>
  PROVE  RowInv'
<1>1. /\ c \in Procs /\ \A q \in Procs : job'[q] = IF q = c THEN j ELSE job[q]
      /\ Clients \subseteq Procs
  BY TurnedIs DEF Procs
<1>2. Busy' = Busy /\ \A p \in Busy : job'[p] = job[p]
  BY <1>1 DEF Busy
<1>3. Sure' => Sure
  BY <1>2 DEF Sure
<1>4. ASSUME NEW p \in Busy, Sure PROVE Scanned(job[p])'
  <2>1. Scanned(job[p])
    BY <1>4 DEF RowInv
  <2>2. PICK k : k = job[p]
    OBVIOUS
  <2>3. Scanned(k)'
    BY <2>1, <2>2, ScannedSame
  <2> QED
    BY <1>2, <2>2, <2>3
<1>5. ASSUME NEW d \in Clients, Sure PROVE Personally(job[d])'
  BY <1>1, <1>5 DEF RowInv, Personally
<1>6. Sure /\ Busy = {} => RowIsLast'
  BY MatchSame DEF RowInv
<1> QED
  BY <1>2, <1>3, <1>4, <1>5, <1>6 DEF RowInv

LEMMA LookingRow ==
  ASSUME Typed, RowInv, NEW c \in Clients, Looks(c)
  PROVE  RowInv'
<1>1. UNCHANGED <<file, row, pending, missed>> /\ job[c].op # "reindex"
  BY Looking, IdleSound
<1>2. PICK j : Turned(c, j) /\ (Begun(j) \/ j = Idle)
  BY Looking
<1>3. j.op # "reindex" /\ Personally(j)
  BY <1>2, IdleSound DEF Begun, SoundJob, Personally
<1> QED
  BY <1>1, <1>2, <1>3, QuietRow

\* A request writes a row while there is no file.
LEMMA NoFilesRow ==
  ASSUME Typed, RowInv, NEW c \in Clients, Turned(c, Idle), job[c].op # "reindex",
         UNCHANGED <<file, pending>>, missed' \in BOOLEAN,
         ~missed' => ~missed /\ (Sure => \A p \in Places : ~Readable(p)),
         row' = row \/ row' = NoRow \/ row'.place = Personal
  PROVE  RowInv'
<1>1. /\ c \in Procs /\ \A q \in Procs : job'[q] = IF q = c THEN Idle ELSE job[q]
      /\ Clients \subseteq Procs
  BY TurnedIs DEF Procs
<1>2. Busy' = Busy /\ \A p \in Busy : job'[p] = job[p]
  BY <1>1, IdleSound DEF Busy
<1>3. Sure' => Sure /\ \A p \in Places : ~Readable(p)
  BY <1>2 DEF Sure
<1>4. ASSUME NEW p \in Busy, Sure, \A q \in Places : ~Readable(q) PROVE Scanned(job[p])'
  <2>1. Scanned(job[p]) /\ SoundJob(job[p])
    BY <1>4 DEF RowInv, Busy, Typed
  <2>2. PICK k : k = job[p]
    OBVIOUS
  <2>3. k.at # "upsert" /\ ~k.seen
    BY <1>4, <2>1, <2>2 DEF Scanned, SoundJob
  <2>4. \A q \in Places : ~Readable(q)'
    BY <1>4 DEF Readable
  <2>5. Scanned(k)'
    BY <2>1, <2>2, <2>3, <2>4 DEF Scanned
  <2> QED
    BY <1>2, <2>2, <2>5
<1>5. ASSUME NEW d \in Clients, Sure PROVE Personally(job[d])'
  BY <1>1, <1>5, IdleSound DEF RowInv, Personally
<1>6. ASSUME Sure, \A p \in Places : ~Readable(p), Busy = {} PROVE RowIsLast'
  <2>1. row = NoRow \/ row.place = Personal
    BY <1>6 DEF RowInv, RowIsLast, LastReadable
  <2> QED
    BY <1>6, <2>1 DEF RowIsLast, Readable
<1> QED
  BY <1>2, <1>3, <1>4, <1>5, <1>6 DEF RowInv

LEMMA RowAloneIs ==
  ASSUME Typed, RowInv, NEW c \in Clients, job[c].at \in {"index", "deindex"}, RowAlone(job[c])
  PROVE  /\ missed' \in BOOLEAN
         /\ ~missed' => ~missed /\ (Sure => \A p \in Places : ~Readable(p))
         /\ Sure => {job[c].old, job[c].new} \subseteq {Personal, Nowhere}
<1>1. Sure => {job[c].old, job[c].new} \subseteq {Personal, Nowhere}
  BY DEF RowInv, Personally
<1>2. missed \in BOOLEAN
  BY DEF Typed
<1> QED
  BY <1>1, <1>2 DEF RowAlone

LEMMA IndexRow ==
  ASSUME Typed, RowInv, NEW c \in Clients, Index(c)
  PROVE  RowInv'
<1>1. /\ Turned(c, Idle) /\ UNCHANGED <<file, pending>> /\ job[c].at = "index"
      /\ RowAlone(job[c]) /\ c \in Procs
  BY DEF Index, Ends, Step, Turned, Procs
<1>2. job[c].op # "reindex" /\ job[c].new \in Places \cup {Personal}
  BY <1>1, InJob DEF SoundJob
<1>3. row' = row \/ row' = [place |-> job[c].new, text |-> job[c].text]
  BY DEF Index
<1>4. CASE Sure
  <2>1. job[c].new = Personal
    BY <1>1, <1>2, <1>4, RowAloneIs, Spotted
  <2>2. row' = row \/ row'.place = Personal
    BY <1>3, <2>1
  <2> QED
    BY <1>1, <1>2, <2>2, RowAloneIs, NoFilesRow
<1>5. CASE ~Sure
  <2>1. Busy' = Busy /\ \A p \in Busy : job'[p] = job[p]
    BY <1>1, <1>2, TurnedIs, IdleSound DEF Busy
  <2>2. ~Sure'
    BY <1>1, <1>5, <2>1, RowAloneIs DEF Sure
  <2> QED
    BY <2>2 DEF RowInv
<1> QED
  BY <1>4, <1>5

LEMMA DeindexRow ==
  ASSUME Typed, RowInv, NEW c \in Clients, Deindex(c)
  PROVE  RowInv'
<1>1. /\ Turned(c, Idle) /\ UNCHANGED <<file, pending>> /\ job[c].at = "deindex"
      /\ RowAlone(job[c]) /\ c \in Procs /\ (row' = row \/ row' = NoRow)
  BY DEF Deindex, Ends, Step, Turned, Procs
<1>2. job[c].op # "reindex"
  BY <1>1, InJob DEF SoundJob
<1> QED
  BY <1>1, <1>2, RowAloneIs, NoFilesRow

LEMMA RenameRow ==
  ASSUME Typed, RowInv, NEW c \in Clients, Rename(c)
  PROVE  RowInv'
<1>1. UNCHANGED row /\ job[c].at = "rename" /\ c \in Procs
  BY DEF Rename, Procs
<1>2. job[c].op # "reindex" /\ Idle.op # "reindex" /\ Personally(Idle)
  BY <1>1, InJob, IdleSound DEF SoundJob, Personally
<1>3. CASE Turned(c, Idle) /\ UNCHANGED <<file, pending, missed>>
  BY <1>1, <1>2, <1>3, QuietRow
<1>4. CASE FileChanges
  BY <1>4, ChangedUnsure DEF RowInv
<1> QED
  BY <1>3, <1>4, RenameJob

LEMMA BeginRow ==
  ASSUME Typed, NEW p \in Procs, Reindex(p), UNCHANGED <<file, row>>
  PROVE  RowInv'
<1>1. PICK k : /\ Turned(p, k) /\ SoundJob(k) /\ k.at = "scan" /\ k.op = "reindex"
               /\ k.todo = FilesThere /\ ~k.seen
               /\ k.clean = (Prompt /\ \A q \in Procs : job[q].op # "reindex")
  BY ReindexJob
<1>2. \A q \in Procs : job'[q] = IF q = p THEN k ELSE job[q]
  BY <1>1, TurnedIs
<1>3. p \in Busy'
  BY <1>1, <1>2 DEF Busy
<1>4. ASSUME Sure' PROVE Prompt /\ Busy' = {p}
  <2>1. k.clean
    BY <1>2, <1>3, <1>4 DEF Sure
  <2> QED
    BY <1>1, <1>2, <1>3, <2>1 DEF Busy
<1>5. ASSUME Prompt, NEW d \in Clients PROVE Personally(job[d])'
  BY <1>1, <1>2, <1>5 DEF Prompt, Personally, Procs
<1>6. Scanned(k)'
  BY <1>1 DEF Scanned, Left, FilesThere, Readable, Gone, Texts
<1>7. Scanned(job[p])'
  BY <1>2, <1>6
<1> QED
  BY <1>4, <1>5, <1>7 DEF RowInv

\* A reindex goes on.
LEMMA ContinuesRow ==
  ASSUME Typed, RowInv, NEW p \in Busy, NEW k, Continues(p, k),
         UNCHANGED <<file, pending, missed>>, Sure => Scanned(k)'
  PROVE  RowInv'
<1>1. /\ p \in Procs /\ Clients \subseteq Procs /\ job[p].op = "reindex"
      /\ k.op = "reindex" /\ k.clean = job[p].clean /\ Personally(k)
  BY DEF Busy, Procs, Continues, SoundJob, Personally
<1>2. \A q \in Procs : job'[q] = IF q = p THEN k ELSE job[q]
  BY <1>1, TurnedIs DEF Continues
<1>3. Busy' = Busy
  BY <1>1, <1>2 DEF Busy
<1>4. ASSUME Sure' PROVE Sure /\ Busy = {p}
  <2>1. \A q \in Busy : q \in Procs /\ job'[q].clean = job[q].clean
    BY <1>1, <1>2 DEF Busy
  <2> QED
    BY <1>3, <1>4, <2>1 DEF Sure
<1>5. ASSUME Sure, NEW d \in Clients PROVE Personally(job[d])'
  BY <1>1, <1>2, <1>5 DEF RowInv, Personally
<1>6. Sure => Scanned(job[p])'
  BY <1>1, <1>2
<1> QED
  BY <1>3, <1>4, <1>5, <1>6 DEF RowInv

\* A reindex ends, and notes it if anything disturbed it.
LEMMA CompletesRow ==
  ASSUME Typed, RowInv, NEW p \in Busy, Turned(p, Idle), Completes(p),
         UNCHANGED <<file, pending>>, Sure => RowIsLast'
  PROVE  RowInv'
<1>1. p \in Procs /\ Clients \subseteq Procs /\ missed \in BOOLEAN
  BY DEF Busy, Procs, Typed
<1>2. \A q \in Procs : job'[q] = IF q = p THEN Idle ELSE job[q]
  BY <1>1, TurnedIs
<1>3. ASSUME Sure' PROVE Sure /\ Busy = {p}
  <2>1. ~missed /\ job[p].clean /\ \A q \in Procs \ {p} : job[q].op # "reindex"
    BY <1>1, <1>3 DEF Sure, Completes
  <2>2. Busy = {p}
    BY <2>1 DEF Busy
  <2> QED
    BY <1>3, <2>1, <2>2 DEF Sure
<1>4. Busy = {p} => Busy' = {}
  BY <1>2, IdleSound DEF Busy
<1>5. ASSUME Sure, NEW d \in Clients PROVE Personally(job[d])'
  BY <1>1, <1>2, <1>5, IdleSound DEF RowInv, Personally
<1> QED
  BY <1>3, <1>4, <1>5 DEF RowInv

LEMMA BreaksRow ==
  ASSUME missed' = TRUE
  PROVE  RowInv'
BY DEF RowInv, Sure

\* What reading a file, passing it or taking it into the row leaves.
LEMMA ScanReads ==
  ASSUME NEW j, NEW k, Scanned(j), j.at = "scan", j.todo \in SUBSET Places,
         NEW f \in j.todo, \A q \in j.todo \ {f} : PathRank[f] < PathRank[q],
         Readable(f), k.at = "upsert", k.new = f, k.text = file[f],
         k.todo = j.todo \ {f}, k.seen = j.seen
  PROVE  Scanned(k)
<1>1. Left(k) = Left(j)
  BY DEF Left
<1> QED
  BY <1>1 DEF Scanned

LEMMA ScanPasses ==
  ASSUME NEW j, NEW k, Scanned(j), j.at = "scan", j.todo \in SUBSET Places,
         NEW f \in j.todo, ~Readable(f), k.at = "scan", k.todo = j.todo \ {f}, k.seen = j.seen
  PROVE  Scanned(k)
<1>1. Left(j) = j.todo /\ Left(k) = j.todo \ {f}
  BY DEF Left
<1>2. \A q \in Places \ Left(k) : Readable(q) => q \notin Left(j)
  BY <1>1
<1>3. \A q \in Places \ Left(k) :
        Readable(q) => k.seen /\ \A r \in Left(k) : PathRank[q] < PathRank[r]
  BY <1>1, <1>2 DEF Scanned
<1>4. k.seen => \E p \in Places \ Left(k) :
        /\ Readable(p) /\ row = [place |-> p, text |-> file[p]]
        /\ \A q \in Places \ Left(k) : Readable(q) => PathRank[q] <= PathRank[p]
  BY <1>1, <1>2 DEF Scanned
<1> QED
  BY <1>3, <1>4 DEF Scanned

LEMMA ScanUpserts ==
  ASSUME NEW j, NEW k, Scanned(j), j.at = "upsert", j.todo \in SUBSET Places, j.new \in Places,
         k.at = "scan", k.todo = j.todo, k.seen, UNCHANGED file,
         row' = [place |-> j.new, text |-> j.text]
  PROVE  Scanned(k)'
<1>1. \A p \in Places : PathRank[p] \in Nat
  BY PlacesAssumption
<1>2. /\ Readable(j.new) /\ j.text = file[j.new]
      /\ \A q \in j.todo : PathRank[j.new] < PathRank[q]
  BY DEF Scanned
<1>3. Left(j) = j.todo \cup {j.new} /\ Left(k) = j.todo /\ j.new \notin j.todo
  BY <1>1, <1>2 DEF Left
<1>4. \A q \in Places \ Left(k) :
        Readable(q) => /\ \A r \in Left(k) : PathRank[q] < PathRank[r]
                       /\ PathRank[q] <= PathRank[j.new]
  <2> SUFFICES ASSUME NEW q \in Places \ Left(k), Readable(q)
               PROVE  /\ \A r \in Left(k) : PathRank[q] < PathRank[r]
                      /\ PathRank[q] <= PathRank[j.new]
    OBVIOUS
  <2>1. CASE q = j.new
    BY <1>1, <1>2, <1>3, <2>1
  <2>2. CASE q # j.new
    <3>1. \A r \in Left(j) : PathRank[q] < PathRank[r]
      BY <1>3, <2>2 DEF Scanned
    <3> QED
      BY <1>1, <1>3, <3>1
  <2> QED
    BY <2>1, <2>2
<1>5. \A q \in Places : Readable(q)' = Readable(q)
  BY DEF Readable
<1>6. \E p \in Places \ Left(k) :
        /\ Readable(p)' /\ row' = [place |-> p, text |-> file'[p]]
        /\ \A q \in Places \ Left(k) : Readable(q)' => PathRank[q] <= PathRank[p]
  BY <1>2, <1>3, <1>4, <1>5
<1>7. \A q \in Places \ Left(k) :
        Readable(q)' => k.seen /\ \A r \in Left(k) : PathRank[q] < PathRank[r]
  BY <1>4, <1>5
<1>8. Left(k)' = Left(k)
  BY DEF Left
<1> QED
  BY <1>6, <1>7, <1>8 DEF Scanned

\* A reindex that has read every file knows the row is right, unless it found
\* none: then a row that is there is stale, or personal.
LEMMA ScanEnds ==
  ASSUME NEW j, Scanned(j), j.at = "scan", j.todo = {}, ~Stale(j)
  PROVE  RowIsLast
<1>1. Left(j) = {}
  BY DEF Left
<1>2. CASE j.seen
  BY <1>1, <1>2 DEF Scanned, RowIsLast, LastReadable
<1>3. CASE ~j.seen
  <2>1. \A p \in Places : ~Readable(p)
    BY <1>1, <1>3 DEF Scanned
  <2> QED
    BY <1>3, <2>1 DEF Stale, RowIsLast
<1> QED
  BY <1>2, <1>3

LEMMA ReadNextRow ==
  ASSUME Typed, RowInv, NEW p \in Procs, ReadNext(p)
  PROVE  RowInv'
<1> DEFINE f == First(job[p].todo)
<1>1. PICK k : /\ Continues(p, k) /\ k.seen = job[p].seen /\ k.todo = job[p].todo \ {f}
               /\ IF Readable(f) THEN k.at = "upsert" /\ k.new = f /\ k.text = file[f]
                  ELSE k.at = "scan" /\ k.new = job[p].new
  BY ReadNextJob
<1>2. /\ job[p].at = "scan" /\ f \in job[p].todo
      /\ \A q \in job[p].todo \ {f} : PathRank[f] < PathRank[q]
  BY ReadNextJob
<1>3. job[p].todo \in SUBSET Places /\ p \in Busy
  BY <1>2, InJob DEF SoundJob, Busy
<1>4. UNCHANGED <<file, row, pending, missed>>
  BY DEF ReadNext, dataVars, ghostVars
<1>5. PICK j, g : j = job[p] /\ g = f
  OBVIOUS
<1> HIDE DEF f
<1>6. Sure => Scanned(j)
  BY <1>3, <1>5 DEF RowInv
<1>7. Sure => Scanned(k)
  <2>1. CASE Readable(f)
    BY <1>1, <1>2, <1>3, <1>5, <1>6, <2>1, ScanReads
  <2>2. CASE ~Readable(f)
    BY <1>1, <1>2, <1>3, <1>5, <1>6, <2>2, ScanPasses
  <2> QED
    BY <2>1, <2>2
<1>8. Sure => Scanned(k)'
  BY <1>4, <1>7, ScannedSame
<1> QED
  BY <1>1, <1>3, <1>4, <1>8, ContinuesRow

LEMMA UpsertRow ==
  ASSUME Typed, RowInv, NEW p \in Procs, Upsert(p)
  PROVE  RowInv'
<1>1. job[p].at = "upsert" /\ job[p].new \in Places
  BY UpsertJob
<1>2. job[p].todo \in SUBSET Places /\ p \in Busy
  BY <1>1, InJob DEF SoundJob, Busy
<1>3. UNCHANGED <<file, pending>>
  BY DEF Upsert
<1>4. ASSUME NEW k, Continues(p, k), k.at = "scan", k.seen, k.todo = job[p].todo,
             row' = [place |-> job[p].new, text |-> job[p].text], UNCHANGED missed
      PROVE  RowInv'
  <2>1. PICK j : j = job[p]
    OBVIOUS
  <2>2. Sure => Scanned(j)
    BY <1>2, <2>1 DEF RowInv
  <2>3. Sure => Scanned(k)'
    BY <1>1, <1>2, <1>3, <1>4, <2>1, <2>2, ScanUpserts
  <2> QED
    BY <1>2, <1>3, <1>4, <2>3, ContinuesRow
<1> QED
  BY <1>4, UpsertJob, BreaksRow

LEMMA SelectStaleRow ==
  ASSUME Typed, RowInv, NEW p \in Procs, SelectStale(p)
  PROVE  RowInv'
<1>1. job[p].at = "scan" /\ job[p].todo = {} /\ p \in Busy
  BY SelectStaleJob, InJob DEF SoundJob, Busy
<1>2. UNCHANGED <<file, row, pending>>
  BY DEF SelectStale, dataVars
<1>3. PICK j : j = job[p]
  OBVIOUS
<1>4. Sure => Scanned(j)
  BY <1>1, <1>3 DEF RowInv
<1>5. ASSUME Stale(job[p]), UNCHANGED missed, NEW k, Continues(p, k), k.at = "drop",
             k.todo = {}, k.seen = job[p].seen
      PROVE  RowInv'
  <2>1. ~k.seen
    BY <1>5 DEF Stale
  <2>2. Sure => Scanned(k)
    BY <1>1, <1>3, <1>4, <1>5, <2>1 DEF Scanned, Left
  <2>3. Sure => Scanned(k)'
    BY <1>2, <2>2, ScannedSame
  <2> QED
    BY <1>1, <1>2, <1>5, <2>3, ContinuesRow
<1>6. ASSUME ~Stale(job[p]), Turned(p, Idle), Completes(p) PROVE RowInv'
  <2>1. Sure => RowIsLast
    BY <1>1, <1>3, <1>4, <1>6, ScanEnds
  <2>2. Sure => RowIsLast'
    BY <1>2, <2>1, MatchSame
  <2> QED
    BY <1>1, <1>2, <1>6, <2>2, CompletesRow
<1> QED
  BY <1>5, <1>6, SelectStaleJob

LEMMA DropRow ==
  ASSUME Typed, RowInv, NEW p \in Procs, Drop(p)
  PROVE  RowInv'
<1>1. job[p].at = "drop" /\ p \in Busy /\ UNCHANGED <<file, pending>>
  BY InJob DEF Drop, SoundJob, Busy
<1>2. CASE row' = NoRow /\ Completes(p)
  <2>1. PICK j : j = job[p]
    OBVIOUS
  <2>2. Sure => Scanned(j)
    BY <1>1, <2>1 DEF RowInv
  <2>3. Sure => \A q \in Places : ~Readable(q)
    BY <1>1, <2>1, <2>2 DEF Scanned, Left
  <2>4. Sure => RowIsLast'
    BY <1>1, <1>2, <2>3 DEF RowIsLast, Readable
  <2>5. Turned(p, Idle)
    BY <1>2 DEF Completes, Ends, Step, Turned
  <2> QED
    BY <1>1, <1>2, <2>4, <2>5, CompletesRow
<1>3. CASE Breaks(p)
  BY <1>3, BreaksRow DEF Breaks
<1> QED
  BY <1>2, <1>3 DEF Drop

LEMMA RowInvInductive ==
  ASSUME Typed, RowInv, [Next]_vars
  PROVE  RowInv'
<1>1. ASSUME NEW c \in Clients, RequestStep(c) PROVE RowInv'
  <2>1. CASE Looks(c)
    BY <2>1, LookingRow
  <2>2. CASE WriteFile(c) \/ RemoveOld(c) \/ Unlink(c)
    <3>1. FileChanges \/ NotRemoved
      BY <2>2 DEF WriteFile, RemoveOld, Unlink
    <3> QED
      BY <3>1, ChangedUnsure DEF RowInv
  <2>3. CASE Index(c) \/ Deindex(c) \/ Rename(c)
    BY <2>3, IndexRow, DeindexRow, RenameRow
  <2>4. CASE ReindexRequest(c)
    BY <2>4, BeginRow DEF ReindexRequest, Procs
  <2> QED
    BY <1>1, <2>1, <2>2, <2>3, <2>4 DEF RequestStep, Looks
<1>2. ASSUME NEW p \in Procs, ReindexStep(p) PROVE RowInv'
  BY <1>2, ReadNextRow, UpsertRow, SelectStaleRow, DropRow DEF ReindexStep
<1>3. CASE (OnWatchChange \/ Open) /\ Reindex(Engine)
  BY <1>3, BeginRow DEF OnWatchChange, Open, dataVars, Procs
<1>4. CASE UNCHANGED <<file, row, job, pending, missed>>
  <2>1. UNCHANGED <<Busy, Sure, RowIsLast>>
    BY <1>4, MatchSame DEF Busy, Sure, RowIsLast, LastReadable, Readable
  <2>2. \A p \in Busy : Scanned(job[p])' = Scanned(job[p])
    BY <1>4 DEF Scanned, Left, Readable
  <2>3. \A c \in Clients : Personally(job[c])' = Personally(job[c])
    BY <1>4 DEF Personally
  <2> QED
    BY <2>1, <2>2, <2>3 DEF RowInv
<1>5. CASE Crash
  <2>1. /\ UNCHANGED <<file, row>>
        /\ missed' = (missed \/ pending \/ \E p \in Procs : job[p] # Idle)
        /\ \A p \in Procs : job'[p] = Idle
    BY <1>5 DEF Crash, dataVars
  <2>2. Busy' = {}
    BY <2>1, IdleSound DEF Busy
  <2>3. ASSUME Sure' PROVE Sure /\ Busy = {}
    BY <2>1, <2>3, IdleSound DEF Sure, Busy
  <2>4. \A c \in Clients : Personally(job[c])'
    BY <2>1, IdleSound DEF Personally, Procs
  <2> QED
    BY <2>1, <2>2, <2>3, <2>4, MatchSame DEF RowInv
<1>6. CASE Edit
  BY <1>6, ChangedUnsure DEF Edit, RowInv
<1> QED
  BY <1>1, <1>2, <1>3, <1>4, <1>5, <1>6
     DEF Next, OnWatchChange, Open, Opened, vars, dataVars, ghostVars

LEMMA RowInvInit == Init => RowInv
<1> SUFFICES ASSUME Init PROVE RowInv
  OBVIOUS
<1>1. Busy = {} /\ \A c \in Clients : Personally(job[c])
  BY IdleSound DEF Init, Busy, Personally, Procs
<1>2. RowIsLast
  BY Spotted DEF Init, RowIsLast, Readable
<1> QED
  BY <1>1, <1>2 DEF RowInv

\* Once every change has been read and everybody is idle, the row shows the
\* last readable file in path order, and is gone (or personal) when there is
\* no file; whatever requests, reindexes, editors, failing writes and crashes did
\* before, and in whatever order their steps came.
THEOREM SettledItemMatches == Spec => []SettledRowMatchesFiles
<1>1. Init => Typed /\ RowInv
  BY TypedInit, RowInvInit
<1>2. Typed /\ RowInv /\ [Next]_vars => (Typed /\ RowInv)'
  BY TypedInductive, RowInvInductive
<1>3. RowInv => SettledRowMatchesFiles
  <2> SUFFICES ASSUME RowInv, ~pending, ~missed, \A p \in Procs : job[p] = Idle
               PROVE  RowMatchesFiles
    BY DEF SettledRowMatchesFiles
  <2>1. Busy = {} /\ Sure
    BY IdleSound DEF Busy, Sure
  <2>2. RowIsLast
    BY <2>1 DEF RowInv
  <2> QED
    BY <2>2 DEF RowIsLast, RowMatchesFiles
<1> QED
  BY <1>1, <1>2, <1>3, PTL DEF Spec

(***************************************************************************)
(* Texts                                                                   *)
(***************************************************************************)
InFile == \E p \in Places : file[p] \in owed
InPersonalRow ==
  /\ row.place = Personal /\ row.text \in owed
  /\ \A p \in Places : ~Readable(p)
  /\ \A p \in Procs : job[p].at \notin {"upsert", "drop"}

\* What a request that nothing overlaps relies on where it is.
Relies(j) ==
  /\ j.at \in {"index", "remove"} /\ j.op # "folder" /\ j.new \in Places =>
       file[j.new] = j.text /\ (owed # {} => j.text \in owed)
  /\ j.at = "rename" => file[j.new] = Gone
  /\ j.at = "rename" \/ (j.at = "index" /\ j.op = "folder") => (owed # {} => InFile)
  /\ j.at \in {"unlink", "deindex"} => owed = {}

OneRequest == \A c, d \in Clients : job[c] # Idle /\ job[d] # Idle => c = d
Kept == owed # {} => InFile \/ InPersonalRow

TextInv == alone => OneRequest /\ (\A c \in Clients : Relies(job[c])) /\ Kept


LEMMA OnlyOne ==
  ASSUME TextInv, alone, NEW c \in Clients, job[c].at # "idle"
  PROVE  Relies(job[c]) /\ Kept /\ \A d \in Clients \ {c} : job[d] = Idle
BY IdleSound DEF TextInv, OneRequest

\* The only request in progress turns to another place.
LEMMA TurnText ==
  ASSUME Typed, NEW c \in Clients, NEW j, Turned(c, j),
         \A d \in Clients \ {c} : job[d] = Idle, Relies(j)', Kept'
  PROVE  TextInv'
<1>1. c \in Procs /\ Clients \subseteq Procs
  BY DEF Procs
<1>2. \A d \in Clients : job'[d] = IF d = c THEN j ELSE Idle
  BY <1>1, TurnedIs
<1>3. OneRequest'
  BY <1>2 DEF OneRequest
<1>4. PICK idle : idle = Idle
  OBVIOUS
<1>5. Relies(idle)'
  BY <1>4, IdleSound DEF Relies
<1>6. Idle' = Idle
  BY DEF Idle, Request
<1>7. \A d \in Clients : Relies(job[d])'
  <2> TAKE d \in Clients
  <2>1. job'[d] = j \/ job'[d] = idle
    BY <1>2, <1>4
  <2> QED
    BY <1>5, <2>1
<1> QED
  BY <1>3, <1>7 DEF TextInv

LEMMA LookingText ==
  ASSUME Typed, TextInv, NEW c \in Clients, Looks(c)
  PROVE  TextInv'
<1> SUFFICES ASSUME alone' PROVE TextInv'
  BY DEF TextInv
<1>1. UNCHANGED <<file, row>> /\ owed' \in {owed, {}}
  BY Looking
<1>2. PICK j : /\ Turned(c, j) /\ (Begun(j) \/ j = Idle)
               /\ j.at \in {"unlink", "deindex"} => owed' = {}
  BY Looking
<1>3. \/ job[c].at = "again" /\ alone
      \/ alone /\ \A d \in Clients : job[d] = Idle
  BY Looking
<1>4. Kept /\ \A d \in Clients \ {c} : job[d] = Idle
  BY <1>3, OnlyOne DEF TextInv
<1>5. \A p \in Procs : job'[p] = IF p = c THEN j ELSE job[p]
  BY <1>2, TurnedIs DEF Procs
<1>6. /\ j.at \notin {"upsert", "drop", "scan"}
      /\ j.at = "rename" => file[j.new] = Gone /\ row.place # Personal
      /\ j.at \in {"remove", "index"} => j.new = Personal /\ j.op # "folder"
  BY <1>2, IdleSound DEF Begun
<1>7. InFile /\ owed' # {} => InFile'
  BY <1>1 DEF InFile
<1>8. InPersonalRow /\ owed' # {} => InPersonalRow'
  BY <1>1, <1>5, <1>6 DEF InPersonalRow, Readable
<1>9. Kept'
  BY <1>1, <1>4, <1>7, <1>8 DEF Kept
<1>10. j.at = "rename" => (owed' # {} => InFile')
  BY <1>1, <1>4, <1>6, <1>7 DEF Kept, InPersonalRow
<1>11. Relies(j)'
  BY <1>1, <1>2, <1>6, <1>10, Spotted DEF Relies
<1> QED
  BY <1>2, <1>4, <1>9, <1>11, TurnText

LEMMA WriteFileText ==
  ASSUME Typed, TextInv, NEW c \in Clients, WriteFile(c)
  PROVE  TextInv'
<1> SUFFICES ASSUME alone' PROVE TextInv'
  BY DEF TextInv
<1>1. PICK k : /\ Turned(c, k) /\ k.at \in {"index", "remove"} /\ k.new = job[c].new
               /\ k.text = job[c].text /\ k.new \in Places /\ k.op # "folder"
  BY WriteFileJob
<1>2. /\ job[c].at = "write" /\ alone /\ file' = [file EXCEPT ![k.new] = k.text]
      /\ owed' = IF owed = {} THEN {} ELSE owed \cup {k.text}
  BY <1>1 DEF WriteFile
<1>3. \A d \in Clients \ {c} : job[d] = Idle
  BY <1>2, OnlyOne
<1>4. file'[k.new] = k.text
  BY <1>1, <1>2 DEF Typed
<1>5. owed' # {} => k.text \in owed'
  BY <1>2
<1>6. Kept'
  BY <1>1, <1>4, <1>5 DEF Kept, InFile
<1>7. Relies(k)'
  BY <1>1, <1>4, <1>5 DEF Relies
<1> QED
  BY <1>1, <1>3, <1>6, <1>7, TurnText

LEMMA RemoveOldText ==
  ASSUME Typed, TextInv, NEW c \in Clients, RemoveOld(c)
  PROVE  TextInv'
<1> SUFFICES ASSUME alone' PROVE TextInv'
  BY DEF TextInv
<1>1. PICK k : /\ Turned(c, k) /\ SoundJob(k) /\ k.at = "index" /\ k.op = job[c].op
               /\ k.old = job[c].old /\ k.new = job[c].new /\ k.text = job[c].text
               /\ k.op # "folder" /\ k.old \in Places /\ k.old # k.new
  BY RemoveOldJob
<1>2. /\ job[c].at = "remove" /\ alone
      /\ file' = file \/ file' = [file EXCEPT ![k.old] = Gone]
      /\ owed' = IF k.new = Personal THEN {} ELSE owed
  BY <1>1 DEF RemoveOld, NotRemoved
<1>3. Relies(job[c]) /\ \A d \in Clients \ {c} : job[d] = Idle
  BY <1>2, OnlyOne
<1>4. k.new \in Places =>
        file'[k.new] = k.text /\ (owed # {} => k.text \in owed)
  <2> SUFFICES ASSUME k.new \in Places
               PROVE  file'[k.new] = k.text /\ (owed # {} => k.text \in owed)
    OBVIOUS
  <2>1. file[k.new] = k.text /\ (owed # {} => k.text \in owed)
    BY <1>1, <1>2, <1>3 DEF Relies
  <2>2. file'[k.new] = file[k.new]
    BY <1>1, <1>2 DEF Typed
  <2> QED
    BY <2>1, <2>2
<1>5. k.new \in Places \/ (k.new = Personal /\ owed' = {})
  BY <1>1, <1>2 DEF SoundJob
<1>6. Kept'
  BY <1>2, <1>4, <1>5, Spotted DEF Kept, InFile
<1>7. Relies(k)'
  BY <1>1, <1>2, <1>4, <1>5, Spotted DEF Relies
<1> QED
  BY <1>1, <1>3, <1>6, <1>7, TurnText

LEMMA IndexText ==
  ASSUME Typed, TextInv, NEW c \in Clients, Index(c)
  PROVE  TextInv'
<1> SUFFICES ASSUME alone' PROVE TextInv'
  BY DEF TextInv
<1>1. /\ Turned(c, Idle) /\ UNCHANGED file /\ job[c].at = "index" /\ alone
      /\ c \in Procs
  BY DEF Index, Ends, Step, Turned, Procs
<1>2. Relies(job[c]) /\ Kept /\ \A d \in Clients \ {c} : job[d] = Idle
  BY <1>1, OnlyOne
<1>3. \A p \in Procs : job'[p] = IF p = c THEN Idle ELSE job[p]
  BY <1>1, TurnedIs
<1>4. job[c].new \in Places \cup {Personal}
  BY <1>1, InJob DEF SoundJob
<1>5. ASSUME row' = [place |-> job[c].new, text |-> job[c].text],
             owed' = IF job[c].op = "folder" THEN owed ELSE Owed(job[c])
      PROVE  Kept'
  <2>1. CASE job[c].op = "folder"
    BY <1>1, <1>2, <1>5, <2>1 DEF Relies, Kept, InFile
  <2>2. CASE job[c].op # "folder" /\ job[c].new \in Places
    <3>1. file'[job[c].new] = job[c].text
      BY <1>1, <1>2, <2>2 DEF Relies
    <3>2. owed' = {job[c].text}
      BY <1>5, <2>2, Spotted DEF Owed
    <3> QED
      BY <2>2, <3>1, <3>2 DEF Kept, InFile
  <2>3. CASE job[c].op # "folder" /\ job[c].new = Personal
    <3>1. CASE (\E p \in Procs : job[p].op = "reindex") \/ \E p \in Places : Readable(p)
      BY <1>5, <2>3, <3>1 DEF Owed, Kept
    <3>2. CASE (\A p \in Procs : job[p].op # "reindex") /\ \A p \in Places : ~Readable(p)
      <4>1. \A p \in Procs : job[p].at \notin {"upsert", "drop"}
        BY <3>2, InJob DEF SoundJob
      <4>2. owed' = {job[c].text} /\ row'.place = Personal /\ row'.text = job[c].text
        BY <1>5, <2>3, <3>2 DEF Owed
      <4>3. \A p \in Procs : job'[p].at \notin {"upsert", "drop"}
        BY <1>3, <4>1, IdleSound
      <4> QED
        BY <1>1, <3>2, <4>2, <4>3 DEF Kept, InPersonalRow, Readable
    <3> QED
      BY <3>1, <3>2
  <2> QED
    BY <1>4, <2>1, <2>2, <2>3
<1>6. ASSUME UNCHANGED <<row, owed>>
      PROVE  Kept'
  BY <1>1, <1>2, <1>3, <1>6, IdleSound DEF Kept, InFile, InPersonalRow, Readable
<1>7. Kept'
  BY <1>5, <1>6 DEF Index
<1>8. PICK j : j = Idle
  OBVIOUS
<1>9. Relies(j)'
  BY <1>8, IdleSound DEF Relies
<1>10. Turned(c, j)
  BY <1>1, <1>8
<1> QED
  BY <1>2, <1>7, <1>9, <1>10, TurnText

\* Nothing is owed while a request deletes.
LEMMA DeletingText ==
  ASSUME Typed, TextInv, NEW c \in Clients, Unlink(c) \/ Deindex(c)
  PROVE  TextInv'
<1> SUFFICES ASSUME alone' PROVE TextInv'
  BY DEF TextInv
<1>1. job[c].at \in {"unlink", "deindex"} /\ alone /\ owed' = owed
  BY DEF Unlink, Deindex
<1>2. Relies(job[c]) /\ \A d \in Clients \ {c} : job[d] = Idle
  BY <1>1, OnlyOne
<1>3. owed' = {}
  BY <1>1, <1>2 DEF Relies
<1>4. PICK k : Turned(c, k) /\ k.at \in {"deindex", "idle"}
  BY UnlinkJob, IdleSound DEF Deindex, Ends, Step, Turned
<1>5. Relies(k)' /\ Kept'
  BY <1>3, <1>4 DEF Relies, Kept
<1> QED
  BY <1>2, <1>4, <1>5, TurnText

LEMMA RenameText ==
  ASSUME Typed, TextInv, NEW c \in Clients, Rename(c)
  PROVE  TextInv'
<1> SUFFICES ASSUME alone' PROVE TextInv'
  BY DEF TextInv
<1>1. job[c].at = "rename" /\ alone /\ UNCHANGED <<row, owed>>
  BY DEF Rename
<1>2. Relies(job[c]) /\ \A d \in Clients \ {c} : job[d] = Idle
  BY <1>1, OnlyOne
<1>3. file[job[c].new] = Gone /\ (owed # {} => InFile)
  BY <1>1, <1>2 DEF Relies
<1>4. ASSUME Turned(c, Idle), UNCHANGED file PROVE TextInv'
  <2>1. Kept'
    BY <1>1, <1>3, <1>4 DEF Kept, InFile
  <2>2. PICK j : j = Idle
    OBVIOUS
  <2>3. Relies(j)'
    BY <2>2, IdleSound DEF Relies
  <2>4. Turned(c, j)
    BY <1>4, <2>2
  <2> QED
    BY <1>2, <2>1, <2>3, <2>4, TurnText
<1>5. ASSUME NEW k, Turned(c, k), k.at = "index", k.op = "folder",
             job[c].old \in Places, job[c].new \in Places, job[c].old # job[c].new,
             file' = [file EXCEPT ![job[c].new] = file[job[c].old], ![job[c].old] = Gone]
      PROVE  TextInv'
  <2>1. ASSUME NEW p \in Places, file[p] \in owed PROVE InFile'
    <3>1. p # job[c].new
      BY <1>3, <2>1, Spotted DEF Typed
    <3>2. CASE p = job[c].old
      <4>1. file'[job[c].new] = file[p]
        BY <1>5, <3>2 DEF Typed
      <4> QED
        BY <1>1, <1>5, <2>1, <4>1 DEF InFile
    <3>3. CASE p # job[c].old
      <4>1. file'[p] = file[p]
        BY <1>5, <3>1, <3>3 DEF Typed
      <4> QED
        BY <1>1, <2>1, <4>1 DEF InFile
    <3> QED
      BY <3>2, <3>3
  <2>2. owed' # {} => InFile'
    BY <1>1, <1>3, <2>1 DEF InFile
  <2>3. Kept' /\ Relies(k)'
    BY <1>5, <2>2 DEF Kept, Relies
  <2> QED
    BY <1>2, <1>5, <2>3, TurnText
<1> QED
  BY <1>4, <1>5, RenameJob

\* A reindex begins: nothing of what is owed is touched yet.
LEMMA BeginText ==
  ASSUME Typed, TextInv, NEW p \in Procs, Reindex(p), UNCHANGED <<file, row, owed>>,
         \/ p \notin Clients /\ alone' = alone
         \/ p \in Clients /\ alone' = (alone /\ \A d \in Clients : job[d] = Idle)
  PROVE  TextInv'
<1> SUFFICES ASSUME alone' PROVE TextInv'
  BY DEF TextInv
<1>1. PICK k : Turned(p, k) /\ k.at = "scan" /\ k.op = "reindex"
  BY ReindexJob
<1>2. \A q \in Procs : job'[q] = IF q = p THEN k ELSE job[q]
  BY <1>1, TurnedIs
<1>3. Kept
  BY DEF TextInv
<1>4. Kept'
  BY <1>1, <1>2, <1>3 DEF Kept, InFile, InPersonalRow, Readable
<1>5. CASE p \in Clients
  <2>1. Relies(k)'
    BY <1>1 DEF Relies
  <2> QED
    BY <1>1, <1>4, <1>5, <2>1, TurnText
<1>6. CASE p \notin Clients
  <2>1. \A c \in Clients : job'[c] = job[c]
    BY <1>2, <1>6 DEF Procs
  <2>2. OneRequest'
    BY <1>6, <2>1 DEF TextInv, OneRequest, Idle, Request
  <2>3. \A c \in Clients : Relies(job[c])'
    BY <1>6, <2>1 DEF TextInv, Relies, InFile
  <2> QED
    BY <1>4, <2>2, <2>3 DEF TextInv
<1> QED
  BY <1>5, <1>6

LEMMA ReindexStepText ==
  ASSUME Typed, TextInv, NEW p \in Procs, ReindexStep(p)
  PROVE  TextInv'
<1> SUFFICES ASSUME alone' PROVE TextInv'
  BY DEF TextInv
<1>1. UNCHANGED <<file, alone, owed>>
  BY DEF ReindexStep, ReadNext, Upsert, SelectStale, Drop, dataVars, ghostVars
<1>2. job[p].at \in {"scan", "upsert", "drop"}
  BY DEF ReindexStep, ReadNext, Upsert, SelectStale, Drop
<1>3. \E k : /\ Turned(p, k) /\ (k.at \in {"scan", "upsert", "drop"} \/ k = Idle)
             /\ InPersonalRow => UNCHANGED row /\ k.at \notin {"upsert", "drop"}
  <2>1. CASE ReadNext(p)
    <3>1. UNCHANGED row
      BY <2>1 DEF ReadNext, dataVars
    <3> DEFINE f == First(job[p].todo)
    <3>2. f \in Places
      BY <2>1, ReadNextJob
    <3>3. PICK k : Continues(p, k) /\ IF Readable(f) THEN k.at = "upsert" ELSE k.at = "scan"
      BY <2>1, ReadNextJob
    <3> HIDE DEF f
    <3>4. InPersonalRow => k.at = "scan"
      BY <3>2, <3>3 DEF InPersonalRow
    <3> QED
      BY <3>1, <3>3, <3>4 DEF Continues
  <2>2. CASE Upsert(p)
    <3>1. ~InPersonalRow
      BY <2>2, UpsertJob DEF InPersonalRow
    <3> QED
      BY <2>2, <3>1, UpsertJob DEF Continues
  <2>3. CASE SelectStale(p)
    <3>1. UNCHANGED row
      BY <2>3 DEF SelectStale, dataVars
    <3>2. InPersonalRow => ~Stale(job[p])
      BY DEF InPersonalRow, Stale
    <3> QED
      BY <2>3, <3>1, <3>2, SelectStaleJob, IdleSound DEF Continues
  <2>4. CASE Drop(p)
    <3>1. ~InPersonalRow
      BY <2>4 DEF Drop, InPersonalRow
    <3> QED
      BY <2>4, <3>1 DEF Drop, Completes, Breaks, Ends, Step, Turned
  <2> QED
    BY <2>1, <2>2, <2>3, <2>4 DEF ReindexStep
<1>4. PICK k : /\ Turned(p, k) /\ (k.at \in {"scan", "upsert", "drop"} \/ k = Idle)
               /\ InPersonalRow => UNCHANGED row /\ k.at \notin {"upsert", "drop"}
  BY <1>3
<1>5. \A q \in Procs : job'[q] = IF q = p THEN k ELSE job[q]
  BY <1>4, TurnedIs
<1>6. OneRequest'
  <2>1. OneRequest /\ job[p] # Idle
    BY <1>1, <1>2, IdleSound DEF TextInv
  <2> QED
    BY <1>5, <2>1 DEF OneRequest, Procs, Idle, Request
<1>7. \A c \in Clients : Relies(job[c])'
  <2> TAKE c \in Clients
  <2>1. CASE c = p
    <3>1. Relies(k)'
      BY <1>4, IdleSound DEF Relies
    <3> QED
      BY <1>5, <2>1, <3>1
  <2>2. CASE c # p
    <3>1. job'[c] = job[c] /\ Relies(job[c])
      BY <1>1, <1>5, <2>2 DEF TextInv, Procs
    <3> QED
      BY <1>1, <3>1 DEF Relies, InFile
  <2> QED
    BY <2>1, <2>2
<1>8. Kept'
  <2>1. Kept /\ (InFile => InFile')
    BY <1>1 DEF TextInv, InFile
  <2>2. InPersonalRow => InPersonalRow'
    BY <1>1, <1>4, <1>5 DEF InPersonalRow, Readable
  <2> QED
    BY <1>1, <2>1, <2>2 DEF Kept
<1> QED
  BY <1>6, <1>7, <1>8 DEF TextInv

LEMMA TextInvInductive ==
  ASSUME Typed, TextInv, [Next]_vars
  PROVE  TextInv'
<1>1. ASSUME NEW c \in Clients, RequestStep(c) PROVE TextInv'
  <2>1. CASE Looks(c)
    BY <2>1, LookingText
  <2>2. CASE WriteFile(c) \/ RemoveOld(c) \/ Index(c) \/ Unlink(c) \/ Deindex(c) \/ Rename(c)
    BY <2>2, WriteFileText, RemoveOldText, IndexText, DeletingText, RenameText
  <2>3. CASE ReindexRequest(c)
    BY <2>3, BeginText DEF ReindexRequest, Enters, Procs
  <2> QED
    BY <1>1, <2>1, <2>2, <2>3 DEF RequestStep, Looks
<1>2. ASSUME NEW p \in Procs, ReindexStep(p) PROVE TextInv'
  BY <1>2, ReindexStepText
<1>3. CASE (OnWatchChange \/ Open) /\ Reindex(Engine)
  BY <1>3, BeginText, ClientsAssumption DEF OnWatchChange, Open, dataVars, Procs
<1>4. CASE UNCHANGED <<file, row, job, alone, owed>>
  BY <1>4 DEF TextInv, OneRequest, Kept, Relies, InFile, InPersonalRow, Readable, Idle, Request
<1>5. CASE Crash
  <2>1. UNCHANGED <<file, row, alone, owed>> /\ \A p \in Procs : job'[p] = Idle
    BY <1>5 DEF Crash, dataVars
  <2>2. alone => Kept'
    BY <2>1, IdleSound DEF TextInv, Kept, InFile, InPersonalRow, Readable
  <2>3. OneRequest' /\ \A c \in Clients : Relies(job[c])'
    BY <2>1, IdleSound DEF OneRequest, Relies, Procs, Idle, Request
  <2> QED
    BY <2>1, <2>2, <2>3 DEF TextInv
<1>6. CASE Edit
  <2>1. UNCHANGED job /\ owed' = {} /\ alone' = (alone /\ \A c \in Clients : job[c] = Idle)
    BY <1>6 DEF Edit
  <2>2. alone' => OneRequest' /\ \A c \in Clients : Relies(job[c])'
    BY <2>1, IdleSound DEF OneRequest, Relies, Idle, Request
  <2> QED
    BY <2>1, <2>2 DEF TextInv, Kept
<1> QED
  BY <1>1, <1>2, <1>3, <1>4, <1>5, <1>6
     DEF Next, OnWatchChange, Open, Opened, vars, dataVars, ghostVars

\* As long as no request overlaps another one or an edit, the text of the last
\* request that succeeded, or of the one that was cut short after it, is in a
\* file or in the row of a personal memory, between any two steps of requests
\* and reindexes and after every crash.
THEOREM TextStays == Spec => []TextIsKept
<1>1. Init => Typed /\ TextInv
  <2> SUFFICES ASSUME Init PROVE TextInv
    BY TypedInit
  <2>1. owed = {} /\ \A c \in Clients : job[c] = Idle
    BY DEF Init, Procs
  <2> QED
    BY <2>1, IdleSound DEF TextInv, OneRequest, Relies, Kept
<1>2. Typed /\ TextInv /\ [Next]_vars => (Typed /\ TextInv)'
  BY TypedInductive, TextInvInductive
<1>3. TextInv => TextIsKept
  BY DEF TextInv, TextIsKept, Kept, InFile, InPersonalRow, Holds
<1> QED
  BY <1>1, <1>2, <1>3, PTL DEF Spec
=============================================================================
